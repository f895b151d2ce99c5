---------------------------- MODULE GithubPanel ----------------------------
(***************************************************************************)
(* The GitHub tab of a page (web/src/ui/github.ts, github-state.ts,        *)
(* github-model.ts, home-store.ts) and the routes it calls                 *)
(* (server/api-github.ts): what the page believes of the connection, the   *)
(* list of repositories, a clone from its row, a new repository.           *)
(*                                                                         *)
(* Github has the backend's side in full; here it is a connection that the *)
(* page and the world change.  Every call is an await of the page.         *)
(***************************************************************************)
EXTENDS Naturals, FiniteSets

CONSTANTS Accounts, None,
          Patient,    \* does the user wait for an answer before the next call
          MaxUses,    \* bound: what the user does
          MaxTurns    \* bound: what GitHub, its sign-in page and a restart do

VARIABLES
  server,    \* the connection: its state, whose it is, and is the credential kept (persisted)
  page,      \* what github-state.ts keeps, and its requests for repositories
  poll, device, paste, leave,   \* the other calls: None, Sent, or what the backend said
  asked,     \* has the user let go, until the page shows that there is no connection
  home,      \* is the home folder known to the page
  rows,      \* the list's row of a repository: which drawing, what its button says
  cloning,   \* the set of repositories with a clone in flight, of one repository
  clones,    \* clones under way, of the row they were started from
  project,   \* is the repository a project
  form,      \* the new repository: "closed", "open", or the call it waits for
  uses, turns

calls == <<poll, device, paste, leave>>
list == <<rows, cloning, clones, project, home>>
panelVars == <<server, page, calls, asked, list, form, uses, turns>>

Off == [state |-> "disconnected", who |-> None, kept |-> TRUE]
Connecting == [Off EXCEPT !.state = "connecting"]
On(a, kept) == [state |-> "connected", who |-> a, kept |-> kept]
Statuses == {Off, Connecting} \cup {On(a, k) : a \in Accounts, k \in BOOLEAN}
Unknown == [Off EXCEPT !.state = "unknown"]
(* Calls that were sent, and ones the backend refused.                     *)
Sent == [Off EXCEPT !.state = "sent"]
No == [Off EXCEPT !.state = "refused"]

PanelTypeOK ==
  /\ server \in Statuses /\ page.status \in Statuses \cup {Unknown}
  /\ poll \in Statuses \cup {None, Sent} /\ device \in {None, Sent, No, Connecting}
  /\ paste \in Statuses \cup {None, Sent, No} /\ leave \in {None, "sent", "done"}
  /\ rows.label \in {"Clone", "Cloning", "Open"} /\ form \in {"closed", "open", "creating", "cloning"}

PanelInit ==
  /\ server \in {Off} \cup {On(a, TRUE) : a \in Accounts}
  /\ page = [status |-> Unknown, tab |-> FALSE, timer |-> FALSE, dropped |-> FALSE, lost |-> FALSE,
             repos |-> None, repoState |-> "idle", token |-> 0, shown |-> 0, loads |-> {}]
  /\ poll = Sent /\ device = None /\ paste = None /\ leave = None /\ asked = FALSE
  /\ home = FALSE /\ rows = [n |-> 0, label |-> "Clone"] /\ cloning = FALSE /\ clones = {}
  /\ project = FALSE /\ form = "closed" /\ uses = 0 /\ turns = 0

Calm == <<device, paste, leave>> = <<None, None, None>>
Use == uses < MaxUses /\ uses' = uses + 1
NoUse == UNCHANGED uses

-----------------------------------------------------------------------------
(* github-state.ts, as functions of what it keeps.                         *)
(* Mutant of pollIntervalMs: an open tab is no reason.                     *)
pollIntervalMsFlow(p) == p.status.state = "connecting"
pollIntervalMs(p) == p.tab \/ p.status.state = "connecting"
syncTimer(p) == [p EXCEPT !.timer = pollIntervalMs(p)]
loadRepos(p) ==
  [p EXCEPT !.token = @ + 1, !.repoState = "loading",
            !.loads = @ \cup {[token |-> p.token + 1, reply |-> "none", who |-> None]}]
(* Only a drop nobody asked for is news, and not one a restart must cause. *)
Connects(p, next) == next.state = "connected" /\ p.status.state # "connected"
Leaves(p, next) == next.state # "connected" /\ p.status.state = "connected"
applyStatus(p, next) ==
  LET q == [p EXCEPT !.status = next]
      forgets == [q EXCEPT !.repos = None, !.repoState = "idle", !.dropped = FALSE,
                           !.lost = ~p.dropped /\ p.status.kept]
  IN syncTimer(IF Connects(p, next) THEN loadRepos([q EXCEPT !.lost = FALSE])
               ELSE IF Leaves(p, next) THEN forgets ELSE q)
Takes(next) ==
  /\ page' = applyStatus(page, next)
  /\ asked' = (asked /\ next.state # "disconnected")

(* The list is drawn anew when it may have changed, in the connected card: *)
(* renderRepos makes every row afresh, from what is known now.             *)
Label == IF cloning THEN "Cloning" ELSE IF project THEN "Open" ELSE "Clone"
renderRepos(p) ==
  rows' = IF p.status.state = "connected" /\ (p.token # page.token \/ p.repoState # page.repoState)
          THEN [n |-> rows.n + 1, label |-> Label] ELSE rows
NoClone == UNCHANGED <<cloning, clones, project, home>>

-----------------------------------------------------------------------------
(* The tab, and the poll of the status: one at a time.                     *)
Polled(p) == IF p = None THEN Sent ELSE p
setActive(open) ==
  /\ open # page.tab /\ Use
  /\ LET p == syncTimer([page EXCEPT !.tab = open])
         loads == open /\ p.status.state = "connected" /\ p.repoState = "idle"
     IN page' = IF loads THEN loadRepos(p) ELSE p
  /\ poll' = IF open THEN Polled(poll) ELSE poll
  /\ renderRepos(page') /\ NoClone /\ UNCHANGED <<server, device, paste, leave, asked, form, turns>>
Interval ==
  /\ page.timer /\ poll = None /\ poll' = Sent
  /\ UNCHANGED <<server, page, device, paste, leave, asked, list, form, turns>> /\ NoUse
PollServed ==
  /\ poll = Sent /\ poll' \in {server, None}
  /\ UNCHANGED <<server, page, device, paste, leave, asked, list, form, turns>> /\ NoUse
PollReturns ==
  /\ poll \in Statuses /\ poll' = None /\ Takes(poll)
  /\ renderRepos(page') /\ NoClone /\ UNCHANGED <<server, device, paste, leave, form, turns>> /\ NoUse

(* onConnect: the sign-in with a code, shown as soon as there is one.      *)
onConnect ==
  /\ page.tab /\ page.status.state = "disconnected" /\ device = None /\ paste = None /\ (Patient => Calm)
  /\ Use /\ device' = Sent
  /\ UNCHANGED <<server, page, poll, paste, leave, asked, list, form, turns>>
DeviceServed ==
  /\ device = Sent
  /\ \/ server' = Connecting /\ device' = Connecting
     \/ server.state = "disconnected" /\ device' = No /\ UNCHANGED server
  /\ UNCHANGED <<page, poll, paste, leave, asked, list, form, turns>> /\ NoUse
DeviceReturns ==
  /\ device \notin {None, Sent} /\ device' = None
  /\ IF device \in Statuses THEN Takes(device) /\ poll' = Polled(poll) ELSE UNCHANGED <<page, asked, poll>>
  /\ renderRepos(page') /\ NoClone /\ UNCHANGED <<server, paste, leave, form, turns>> /\ NoUse
(* submitToken: pasted, perhaps not to be remembered.                      *)
submitToken ==
  /\ page.tab /\ page.status.state = "disconnected" /\ paste = None /\ (Patient => Calm)
  /\ Use /\ paste' = Sent
  /\ UNCHANGED <<server, page, poll, device, leave, asked, list, form, turns>>
TokenServed ==
  /\ paste = Sent
  /\ \/ \E a \in Accounts, keep \in BOOLEAN : server' = On(a, keep) /\ paste' = On(a, keep)
     \/ paste' = No /\ UNCHANGED server
  /\ UNCHANGED <<page, poll, device, leave, asked, list, form, turns>> /\ NoUse
TokenReturns ==
  /\ paste \notin {None, Sent} /\ paste' = None
  /\ IF paste \in Statuses
     THEN page' = applyStatus([page EXCEPT !.lost = FALSE], paste) ELSE UNCHANGED page
  /\ renderRepos(page') /\ NoClone /\ UNCHANGED <<server, poll, device, leave, asked, form, turns>> /\ NoUse
(* drop: Cancel and Disconnect.                                            *)
drop ==
  /\ page.tab /\ page.status.state \in {"connecting", "connected"} /\ leave = None /\ (Patient => Calm)
  /\ Use /\ leave' = "sent"
  /\ page' = [page EXCEPT !.dropped = TRUE, !.lost = FALSE]
  /\ asked' = TRUE
  /\ UNCHANGED <<server, poll, device, paste, list, form, turns>>
DropServed ==
  /\ leave = "sent" /\ leave' = "done" /\ server' = Off
  /\ UNCHANGED <<page, poll, device, paste, asked, list, form, turns>> /\ NoUse
DropReturns ==
  /\ leave # None /\ leave' = None
  /\ page' = [page EXCEPT !.repos = None, !.repoState = "idle"] /\ poll' = Polled(poll)
  /\ UNCHANGED <<server, device, paste, asked, list, form, turns>> /\ NoUse

(* What the backend's side does by itself: a code approved or expired, a   *)
(* credential GitHub refuses, a restart that forgets what was not kept.    *)
World ==
  /\ turns < MaxTurns /\ turns' = turns + 1
  /\ \/ server.state = "connecting" /\ \E a \in Accounts : server' = On(a, TRUE)
     \/ server.state # "disconnected" /\ server' = Off
  /\ UNCHANGED <<page, calls, asked, list, form>> /\ NoUse

-----------------------------------------------------------------------------
(* The repositories: a search, and an answer that counts if it is to the   *)
(* last question.                                                          *)
search ==
  /\ page.tab /\ page.status.state = "connected" /\ form \in {"closed", "open"} /\ Use
  /\ page' = loadRepos(page) /\ renderRepos(page') /\ NoClone
  /\ UNCHANGED <<server, calls, asked, form, turns>>
ReposServed(l) ==
  /\ l.reply = "none"
  /\ LET ok == server.state = "connected"
         reply == [l EXCEPT !.reply = IF ok THEN "list" ELSE "error", !.who = server.who]
     IN page' = [page EXCEPT !.loads = (@ \ {l}) \cup {reply}]
  /\ UNCHANGED <<server, calls, asked, list, form, turns>> /\ NoUse
(* Mutant of IsLatest: whatever comes last is shown.                       *)
IsLatestAny(l) == TRUE
IsLatest(l) == l.token = page.token
ReposReturn(l) ==
  /\ l.reply # "none"
  /\ LET rest == [page EXCEPT !.loads = @ \ {l}]
         shown == [rest EXCEPT !.repos = l.who, !.repoState = "loaded", !.shown = l.token]
     IN page' = IF ~IsLatest(l) THEN rest
                ELSE IF l.reply = "list" THEN shown ELSE [rest EXCEPT !.repoState = "error"]
  /\ renderRepos(page') /\ NoClone /\ UNCHANGED <<server, calls, asked, form, turns>> /\ NoUse

(* startClone: a row of the list; the row keeps the wait, and paints       *)
(* itself when it is over.                                                 *)
Painted(row, label) == rows' = IF row = rows.n THEN [rows EXCEPT !.label = label] ELSE rows
startClone ==
  /\ page.tab /\ page.status.state = "connected" /\ page.repoState = "loaded" /\ rows.label = "Clone" /\ ~cloning /\ Use
  /\ Cardinality(clones) < 2
  /\ clones' = clones \cup {[row |-> rows.n, nth |-> uses, at |-> IF home THEN "git" ELSE "home"]}
  /\ cloning' = home /\ (IF home THEN Painted(rows.n, "Cloning") ELSE UNCHANGED rows)
  /\ UNCHANGED <<server, page, calls, asked, project, home, form, turns>>
HomeReturns(c) ==
  /\ c.at = "home"
  /\ \/ /\ home' = TRUE /\ cloning' = TRUE /\ clones' = (clones \ {c}) \cup {[c EXCEPT !.at = "git"]}
        /\ Painted(c.row, "Cloning")
     \/ clones' = clones \ {c} /\ Painted(c.row, "Clone") /\ UNCHANGED <<home, cloning>>
  /\ UNCHANGED <<server, page, calls, asked, project, form, turns>> /\ NoUse
CloneReturns(c) ==
  /\ c.at = "git" /\ clones' = clones \ {c} /\ cloning' = FALSE
  /\ \/ server.state = "connected" /\ ~project /\ project' = TRUE /\ Painted(c.row, "Open")
     \/ Painted(c.row, IF project THEN "Open" ELSE "Clone") /\ UNCHANGED project
  /\ UNCHANGED <<server, page, calls, asked, home, form, turns>> /\ NoUse

(* A new repository: made on GitHub, then cloned, and the list anew either *)
(* way; the form is not left meanwhile.                                    *)
toggleNewForm ==
  /\ page.tab /\ page.status.state = "connected" /\ form \in {"closed", "open"} /\ Use
  /\ form' = IF form = "open" THEN "closed" ELSE "open"
  /\ UNCHANGED <<server, page, calls, asked, list, turns>>
submitNewRepo ==
  /\ page.tab /\ page.status.state = "connected" /\ form = "open" /\ Use
  /\ home' \in {home, TRUE} /\ form' = IF home' THEN "creating" ELSE form
  /\ UNCHANGED <<server, page, calls, asked, rows, cloning, clones, project, turns>>
CreateReturns ==
  /\ form = "creating"
  /\ \/ server.state = "connected" /\ form' = "cloning"
     \/ form' = "open"
  /\ UNCHANGED <<server, page, calls, asked, list, turns>> /\ NoUse
NewCloneReturns ==
  /\ form = "cloning" /\ form' \in {"closed", "open"}
  /\ page' = loadRepos(page) /\ renderRepos(page') /\ NoClone
  /\ UNCHANGED <<server, calls, asked, turns>> /\ NoUse

LoadAnswers == \E l \in page.loads : ReposServed(l) \/ ReposReturn(l)
CloneAnswers == \E c \in clones : HomeReturns(c) \/ CloneReturns(c)
Answers ==
  \/ PollServed \/ PollReturns \/ DeviceServed \/ DeviceReturns \/ TokenServed \/ TokenReturns
  \/ DropServed \/ DropReturns \/ CreateReturns \/ NewCloneReturns
PanelNext ==
  \/ \E open \in BOOLEAN : setActive(open)
  \/ Interval \/ Answers \/ LoadAnswers \/ CloneAnswers \/ onConnect \/ submitToken \/ drop \/ World
  \/ search \/ startClone \/ toggleNewForm \/ submitNewRepo
(* Calls come to an end, the interval goes on, and not every status call   *)
(* fails: the backend is on this computer.                                 *)
PanelFairness ==
  /\ WF_panelVars(Interval) /\ WF_panelVars(PollReturns) /\ SF_panelVars(PollServed /\ poll' # None)
  /\ WF_panelVars(Answers) /\ WF_panelVars(LoadAnswers) /\ WF_panelVars(CloneAnswers)
PanelSpec == PanelInit /\ [][PanelNext]_panelVars /\ PanelFairness

-----------------------------------------------------------------------------
(* An open tab comes to show the connection as it is, whatever answers     *)
(* crossed before: the poll goes on as long as it is open.                 *)
StatusIsRight == page.tab /\ paste = None /\ device = None => page.status = server
StatusConverges == <>[]StatusIsRight

(* The list that is shown answers the last search, although answers come   *)
(* in any order and clones, sign-ins and searches all reload it.           *)
LatestQueryWins == page.repoState = "loaded" => page.shown = page.token

(* V-4 in github-state.ts: a connection that drops on its own, and that    *)
(* the user had asked to keep, is told.  The flag of a cancelled sign-in   *)
(* stays set until a connection ends, and silences that: it does not hold. *)
LossIsTold ==
  [][Leaves(page, page'.status) /\ page.status.kept /\ ~asked /\ server = Off /\ Calm
       => page'.lost]_panelVars

(* A row does not go on saying "Cloning" when nothing is cloned.  The row  *)
(* that was drawn anew meanwhile is not painted: it does not hold.         *)
CloningEnds == [](rows.label = "Cloning" /\ clones = {} => <>(rows.label # "Cloning" \/ clones # {}))

(* A repository is cloned once at a time ("repos with a clone in flight"); *)
(* the set is read before the home folder is awaited: it does not hold.    *)
OneCloneEach == Cardinality({c \in clones : c.at = "git"}) <= 1

(* What is listed belongs to the account that is connected.  The list of   *)
(* the account before stays until the next one is there: it does not hold. *)
ListIsTheAccounts ==
  page.status.state = "connected" /\ page.repos # None => page.repos = page.status.who
=============================================================================
