----------------------------- MODULE MCFolders -----------------------------
(***************************************************************************)
(* Folders, what is in them and what is started in them: the file routes   *)
(* and the clone routes of the backend, the dialogs that add a project and *)
(* launch a session, and the file tree of the panel. The five share no     *)
(* variable, so a behaviour is one of them at work and the others at rest. *)
(***************************************************************************)
EXTENDS Integers, Sequences

CONSTANTS Outer, Inner, AFile, AFolder, MaxRequests, MaxNodes,
          Dests, Exclusive, MaxClones,
          Places, NoValue, MaxOpens, MaxPicks, MaxSubmits, MaxOthers,
          Projects, MaxUses, MaxEdits, MaxFlights,
          EntryNames, Roots, Fifo, MaxGestures,
          MaxTrouble, \* openings, picks and others' changes of one behaviour of the dialog
          MaxWork,    \* what is done in and around the launch dialog in one behaviour
          MaxWire     \* requests of the panel that are under way

VARIABLES
  kind, links, doomed, slipped, jobs,
  owner, dest, work, listed,
  there, store, projects, form, probes, verdict, works, replies, opens, picks, submits, others,
  list, likes, hidden, avail, resumable, dialog, meant, flights, uses, edits,
  disk, root, open, listings, selected, row, asking, deleting, wire, gestures,
  atWork  \* the machine of this behaviour

Requests == INSTANCE Files
Clones == INSTANCE Clone WITH MaxRequests <- MaxClones
Adding == INSTANCE NewProject WITH Paths <- Places, None <- NoValue
Launching == INSTANCE Launch WITH None <- NoValue
Panel == INSTANCE Tree WITH Names <- EntryNames

MCOuter == {-1, -2, -3}
MCInner == {-4}
MCAFile == -1
MCAFolder == -2
MCRoots == {<<>>, <<1>>}

ASSUME FoldersAssumption == Adding!NamesApart /\ Requests!NamesTold /\ Launching!ChoicesTold

fileVars == <<kind, links, doomed, slipped, jobs>>
cloneVars == <<owner, dest, work, listed>>
projectVars == <<there, store, projects, form, probes, verdict, works, replies, opens, picks, submits, others>>
launchVars == <<list, likes, hidden, avail, resumable, dialog, meant, flights, uses, edits>>
treeVars == <<disk, root, open, listings, selected, row, asking, deleting, wire, gestures>>
MCVars == <<fileVars, cloneVars, projectVars, launchVars, treeVars, atWork>>

MCInit ==
  /\ atWork \in {"files", "clones", "project", "launch", "tree"}
  /\ Requests!Init /\ Panel!TreeInit
  /\ Clones!Init /\ (atWork # "clones" => ~owner)
  /\ Adding!ProjectInit /\ (atWork # "project" => \A p \in Places : there[p] = "missing")
  /\ Launching!LaunchInit /\ (atWork # "launch" => list = <<>>)

MCNext ==
  /\ UNCHANGED atWork
  /\ \/ /\ atWork = "files" /\ Requests!FilesNext
        /\ UNCHANGED <<cloneVars, projectVars, launchVars, treeVars>>
     \/ /\ atWork = "clones" /\ Clones!CloneNext
        /\ UNCHANGED <<fileVars, projectVars, launchVars, treeVars>>
     \/ /\ atWork = "project" /\ Adding!ProjectNext /\ opens' + picks' + others' <= MaxTrouble
        /\ UNCHANGED <<fileVars, cloneVars, launchVars, treeVars>>
     \/ /\ atWork = "launch" /\ Launching!LaunchNext /\ uses' + edits' <= MaxWork
        /\ UNCHANGED <<fileVars, cloneVars, projectVars, treeVars>>
     \/ /\ atWork = "tree" /\ Panel!TreeNext /\ Len(wire') <= MaxWire
        /\ UNCHANGED <<fileVars, cloneVars, projectVars, launchVars>>

MCSpec == MCInit /\ [][MCNext]_MCVars
-----------------------------------------------------------------------------
TypesOK ==
  /\ Requests!FilesTypeOK /\ Clones!CloneTypeOK /\ Adding!ProjectTypeOK
  /\ Launching!LaunchTypeOK /\ Panel!TreeTypeOK

(* A file keeps a name until somebody deletes or replaces it, and what     *)
(* stands under a name of the user is never half an upload.                *)
FilesAreKept == Requests!NothingLost /\ Requests!UploadsAreWhole

(* A project on the list has its folder, and a clone that failed leaves no *)
(* half a repository behind.                                               *)
ClonesAreUndoneAlone == Clones!ProjectsHaveTheirFolder /\ Clones!FailuresAreUndone

(* The dialog acts on what it saw of the folder that is picked now and     *)
(* keeps the name that was typed, and a failed request takes away no       *)
(* folder that was there before it.                                        *)
AddingIsSafe == Adding!NoVerbOnAStaleDecision /\ Adding!TypedNameStays /\ Adding!FailuresKeepFolders

(* A session is started with what was picked for it, in its own project,   *)
(* with a tool that is there.                                              *)
StartsAsPicked ==
  [](Launching!ResumesInItsProject /\ Launching!SelectionCanLaunch) /\ Launching!StartsAsPicked

(* A quiet panel shows its root as it is on the disk, and an answer ends   *)
(* the naming of another row never.                                        *)
TreeKeepsUp == []Panel!RootKeepsUp /\ Panel!RowEndsForAReason
=============================================================================
