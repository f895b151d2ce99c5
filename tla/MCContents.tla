----------------------------- MODULE MCContents -----------------------------
(***************************************************************************)
(* What the page shows of things that change behind it: the text of an     *)
(* open file, the account at GitHub (the backend's connection and the      *)
(* panel that follows it), a folder that files are dropped into and the    *)
(* log of a repository. The five share no variable here, so a behaviour is *)
(* one of them at work and the others at rest.                             *)
(***************************************************************************)
EXTENDS Integers, Sequences, FiniteSets, TLC

CONSTANTS None,
          Panes, Patient, MaxContents, MaxBuilds, MaxCrashes,
          Pasted, MaxGestures, MaxPolls, MaxRestarts,
          Accounts, Hurried, MaxUses, MaxTurns,
          DropNames, Dropped, MaxDrops, MaxOthers,
          Roots, Branches, PageSize, MaxHead, MaxMoves, MaxFails, MaxGlances,
          MaxBusy,    \* contents, builds and crashes of one behaviour
          MaxEvents,  \* moves, fails and glances of one behaviour
          MaxTouches  \* drops and changes by others of one behaviour

VARIABLES
  disk, history, contents, edit, typedOver, pane, wire, writing, built, crashes,
  state, token, device, expired, gen, polls, timer, persisted, file, flights, revoked, codes, gestures, restarts,
  server, page, poll, asking, paste, leave, asked, home, rows, cloning, clones, project, form, uses, turns,
  folder, offers, card, copy, drops, others,
  repo, panelRoot, tab, changes, list, viewed, store, requests, moves, fails, glances,
  atWork  \* the machine of this behaviour

Files == INSTANCE Editor
Connection == INSTANCE Github
Account == INSTANCE GithubPanel WITH device <- asking, Patient <- Hurried
Copies == INSTANCE Drop
Repository == INSTANCE GitPanel WITH Page <- PageSize, flights <- requests, uses <- glances, MaxGestures <- MaxGlances

ASSUME ContentsAssumption ==
  Files!TextsApart /\ Connection!TokensApart /\ Copies!DropBounds /\ Repository!PagesOfRows

MCPasted == {-1, -2}
Sorts == INSTANCE Drop WITH Dropped <- {}
MCDropped ==
  {<<Sorts!Item(1, Sorts!AFileItem), Sorts!Item(2, Sorts!FullFolder)>>,
   <<Sorts!Item(2, Sorts!LockedFolder), Sorts!Item(1, Sorts!Oversize)>>,
   <<Sorts!Item(1, Sorts!EmptyFolder)>>, <<Sorts!Item(2, Sorts!Unreadable)>>}

editorVars == <<disk, history, contents, edit, typedOver, pane, wire, writing, built, crashes>>
githubVars == <<state, token, device, expired, gen, polls, timer, persisted, file, flights, revoked, codes,
                gestures, restarts>>
panelVars == <<server, page, poll, asking, paste, leave, asked, home, rows, cloning, clones, project, form,
               uses, turns>>
dropVars == <<folder, offers, card, copy, drops, others>>
gitVars == <<repo, panelRoot, tab, changes, list, viewed, store, requests, moves, fails, glances>>
MCVars == <<editorVars, githubVars, panelVars, dropVars, gitVars, atWork>>

MCInit ==
  /\ atWork \in {"editor", "github", "account", "copies", "git"}
  /\ Files!Init
  /\ Connection!Init /\ (atWork # "github" => file = Connection!Nothing)
  /\ Account!PanelInit /\ (atWork # "account" => server = Account!Off)
  /\ Copies!DropInit /\ (atWork # "copies" => folder = <<>>)
  /\ Repository!GitInit /\ (atWork # "git" => \A r \in Roots : ~repo[r].is)

MCNext ==
  /\ UNCHANGED atWork
  /\ \/ /\ atWork = "editor" /\ Files!Next /\ contents' + built' + crashes' <= MaxBusy
        /\ UNCHANGED <<githubVars, panelVars, dropVars, gitVars>>
     \/ /\ atWork = "github" /\ Connection!GithubNext
        /\ UNCHANGED <<editorVars, panelVars, dropVars, gitVars>>
     \/ /\ atWork = "account" /\ Account!PanelNext
        /\ UNCHANGED <<editorVars, githubVars, dropVars, gitVars>>
     \/ /\ atWork = "copies" /\ Copies!DropNext /\ drops' + others' <= MaxTouches
        /\ UNCHANGED <<editorVars, githubVars, panelVars, gitVars>>
     \/ /\ atWork = "git" /\ Repository!GitNext /\ moves' + fails' + glances' <= MaxEvents
        /\ UNCHANGED <<editorVars, githubVars, panelVars, dropVars>>

(* The fairness of each machine, asked of it when it is at work.           *)
On(machine, action) == atWork = machine /\ action
MCSpec ==
  /\ MCInit /\ [][MCNext]_MCVars
  /\ WF_editorVars(On("editor", Files!Backend)) /\ WF_editorVars(On("editor", Files!Page))
  /\ \A b \in Panes : SF_editorVars(On("editor", Files!Follows(b)))
  /\ WF_githubVars(On("github", Connection!Polls))
  /\ WF_githubVars(On("github", Connection!PollGoesOn \/ Connection!PollEndsFlow \/ Connection!PollIsGranted))
  /\ WF_githubVars(On("github", Connection!OnToken))
  /\ WF_panelVars(On("account", Account!Interval)) /\ WF_panelVars(On("account", Account!PollReturns))
  /\ SF_panelVars(On("account", Account!PollServed /\ poll' # None))
  /\ WF_panelVars(On("account", Account!Answers)) /\ WF_panelVars(On("account", Account!LoadAnswers))
  /\ WF_panelVars(On("account", Account!CloneAnswers))
  /\ WF_dropVars(On("copies", Copies!Works))
  /\ WF_gitVars(On("git", Repository!Polls)) /\ WF_gitVars(On("git", Repository!Answers))
-----------------------------------------------------------------------------
TypesOK ==
  /\ Files!EditorTypeOK /\ Connection!GithubTypeOK /\ Account!PanelTypeOK
  /\ Copies!DropTypeOK /\ Repository!GitTypeOK

(* Text the user typed is forgotten only once it is on its way back as     *)
(* written, a save replaces what was typed over, and an open file never    *)
(* shows an older text than it did.                                        *)
SavesAreSafe == Files!ForgetsWhatLanded /\ Files!SaveReplacesWhatWasSeen /\ Files!NeverBackInTime

(* One poll per sign-in that is shown, what is told is what a restart      *)
(* finds, and a token lands only while its code is the one shown.          *)
ConnectionIsSound ==
  [](Connection!OnePollPerFlow /\ Connection!RestartFindsWhatIsTold) /\ Connection!LandsWhileShown

(* The repositories that are listed answer the last search.                *)
LatestQueryWins == Account!LatestQueryWins

(* A copy replaces only what the card named and the user gave up, and when *)
(* it ends it is told of, with its progress at its total.                  *)
CopiesAreHonest == Copies!OnlyTheAskedIsReplaced /\ Copies!EndsAreTold

(* The rows of the log are the beginning of it while git only commits, and *)
(* a commit opens files of its own repository.                             *)
LogIsInOrder == Repository!RowsAreHistory /\ Repository!OpensInItsRepository

(* Once user, disk and GitHub leave the page alone it settles: a clean     *)
(* file in sight shows what the disk holds, a sign-in is over, the panel   *)
(* shows the connection and the head as they are, and a copy has ended.    *)
Settled ==
  CASE atWork = "editor" -> Files!UpToDate
    [] atWork = "github" -> device = Connection!Nothing
    [] atWork = "account" -> Account!StatusIsRight
    [] atWork = "copies" -> ~copy.running
    [] OTHER -> Repository!HeadIsShown
PageSettles == <>[]Settled
=============================================================================
