-------------------------------- MODULE Page --------------------------------
(***************************************************************************)
(* One page of the browser and a backend that is restarted under it: the   *)
(* sockets of its panes and its presence socket (web/src/ws.ts), the       *)
(* session poll and the recovery from a rejected token (main-shell.ts,     *)
(* ui/restart-flow.ts), and the dialog that restarts or updates            *)
(* (ui/update.ts, ui/update-flow.ts). The token of a page is good for the  *)
(* run that served it; a run ends with all its sessions.                   *)
(***************************************************************************)
EXTENDS Naturals

CONSTANTS Panes,       \* sessions with a pane on the page
          MaxBreaks,   \* bound: connections and answers the network loses
          MaxGestures, \* bound: what the user does
          None

VARIABLES
  backend,   \* "ours", "gap" between two runs, "other" run, "elsewhere" on another port, "dead"
  sessions,  \* those of Panes that the run of this page lists
  page,      \* what it shows, and state.restarting
  recovery,  \* the one shot of createAuthLossRecovery
  sock,      \* pane -> its SessionSocket, and the answer its liveness check got
  presence,  \* the presence socket
  poll,      \* GET /api/sessions of the poll
  flow,      \* where startFlow stands, and the answer its request got
  dialog,    \* phase, whether it is on the screen, and what the pill says runs
  breaks, gestures

connections == <<sock, presence>>
pageVars == <<backend, sessions, page, recovery, sock, presence, poll, flow, dialog, breaks, gestures>>

Answers == {None, "list", "absent", "401", "error"}
PageTypeOK ==
  /\ backend \in {"ours", "gap", "other", "elsewhere", "dead"} /\ sessions \subseteq Panes
  /\ page \in [shows : {"app", "panel", "next", "address"}, restarting : BOOLEAN]
  /\ recovery \in {"unused", "probing", "over"}
  /\ sock \in [Panes -> [at : {"connecting", "live", "asking", "backoff", "hold", "dead", "off"},
                         got : Answers, closed : BOOLEAN]]
  /\ presence \in {"connecting", "live", "backoff", "hold"}
  /\ poll \in Answers \cup {"idle"}
  /\ flow \in [at : {"none", "update", "restart", "health", "navigate"}, got : {None, "202", "port", "409", "422", "failed"}]
  /\ dialog \in [phase : {"confirm", "busy", "refused", "over"}, up : BOOLEAN, notice : {"none", "updating", "restarting"}]
  /\ breaks \in 0..MaxBreaks /\ gestures \in 0..MaxGestures

PageInit ==
  /\ backend = "ours" /\ sessions = Panes
  /\ page = [shows |-> "app", restarting |-> FALSE] /\ recovery = "unused"
  /\ sock = [s \in Panes |-> [at |-> "connecting", got |-> None, closed |-> FALSE]]
  /\ presence = "connecting" /\ poll = "idle"
  /\ flow = [at |-> "none", got |-> None]
  /\ dialog = [phase |-> "confirm", up |-> FALSE, notice |-> "none"]
  /\ breaks = 0 /\ gestures = 0

Runs == page.shows \in {"app", "panel"}
Listens == backend \in {"ours", "other"}
Breaks == breaks < MaxBreaks /\ breaks' = breaks + 1
Gesture == page.shows = "app" /\ recovery # "probing" /\ gestures < MaxGestures /\ gestures' = gestures + 1

(* What a request that carries the token is answered.                      *)
Reply(ok) == CASE backend = "ours" -> ok [] backend = "other" -> "401" [] OTHER -> "error"

(* Mutant of AuthLost: the shot is gone although a restart is under way.   *)
AuthLostLatches(answer) ==
  IF answer = "401" /\ page.shows = "app" /\ recovery = "unused"
  THEN IF page.restarting THEN recovery' = "over" /\ UNCHANGED page
       ELSE recovery' = "probing" /\ page' = [page EXCEPT !.restarting = TRUE]
  ELSE UNCHANGED <<recovery, page>>
(* The handler of onAuthError runs before the caller sees the rejection:   *)
(* unless a restart is under way it starts the recovery, once.             *)
AuthLost(answer) ==
  IF answer = "401" /\ page.shows = "app" /\ ~page.restarting /\ recovery = "unused"
  THEN recovery' = "probing" /\ page' = [page EXCEPT !.restarting = TRUE]
  ELSE UNCHANGED <<recovery, page>>

-----------------------------------------------------------------------------
(* SessionSocket.                                                          *)
At(s, where) == sock' = [sock EXCEPT ![s].at = where, ![s].got = None]

(* #lost: hold while a restart is under way, else ask whether the session  *)
(* is still listed.                                                        *)
Lost(s) == At(s, IF page.restarting THEN "hold" ELSE "asking")

Connects(s) ==
  /\ sock[s].at = "connecting"
  /\ IF backend = "ours" /\ s \in sessions THEN At(s, "live") ELSE Lost(s)
  /\ UNCHANGED <<backend, sessions, page, recovery, presence, poll, flow, dialog, breaks, gestures>>
Drops(s) ==
  /\ sock[s].at = "live"
  /\ \/ (backend # "ours" \/ s \notin sessions) /\ UNCHANGED breaks
     \/ Breaks
  /\ Lost(s)
  /\ UNCHANGED <<backend, sessions, page, recovery, presence, poll, flow, dialog, gestures>>
Checked(s) ==
  /\ sock[s].at = "asking" /\ sock[s].got = None
  /\ \/ sock' = [sock EXCEPT ![s].got = Reply(IF s \in sessions THEN "list" ELSE "absent")] /\ UNCHANGED breaks
     \/ sock' = [sock EXCEPT ![s].got = "error"] /\ Breaks
  /\ UNCHANGED <<backend, sessions, page, recovery, presence, poll, flow, dialog, gestures>>

(* The flag is read again after the answer; so is #closed, but on the way  *)
(* to the hold.                                                            *)
Answered(s, restarting) ==
  LET r == sock[s] IN
  CASE r.got = "401" /\ restarting -> "hold"
    [] r.got = "absent" \/ (r.got = "401" /\ ~restarting) -> IF r.closed THEN "off" ELSE "dead"
    [] r.got \in {"list", "error"} -> IF r.closed THEN "off" ELSE "backoff"
(* Mutant of CheckReturns: the flag as it was when the question was asked. *)
CheckReturnsOnOldFlag(s) ==
  /\ sock[s].at = "asking" /\ sock[s].got # None
  /\ AuthLost(sock[s].got)
  /\ At(s, Answered(s, page.restarting))
  /\ UNCHANGED <<backend, sessions, presence, poll, flow, dialog, breaks, gestures>>
CheckReturns(s) ==
  /\ sock[s].at = "asking" /\ sock[s].got # None
  /\ AuthLost(sock[s].got)
  /\ At(s, Answered(s, page'.restarting))
  /\ UNCHANGED <<backend, sessions, presence, poll, flow, dialog, breaks, gestures>>

Retries(s) ==
  /\ \/ sock[s].at = "backoff" /\ At(s, "connecting")
     \/ sock[s].at = "hold" /\ Lost(s)
  /\ UNCHANGED <<backend, sessions, page, recovery, presence, poll, flow, dialog, breaks, gestures>>

(* close(): the timer is cleared, a question under way is not.             *)
Closes(s) ==
  /\ ~sock[s].closed /\ Gesture
  /\ sock' = [sock EXCEPT ![s].closed = TRUE, ![s].at = IF @ \in {"asking", "dead"} THEN @ ELSE "off"]
  /\ UNCHANGED <<backend, sessions, page, recovery, presence, poll, flow, dialog, breaks>>

(* startPresence: the same loop, without a question.                       *)
Presence ==
  /\ \/ presence = "connecting" /\ backend = "ours" /\ presence' = "live" /\ UNCHANGED breaks
     \/ /\ presence \in {"connecting", "live"} /\ backend # "ours"
        /\ presence' = (IF page.restarting THEN "hold" ELSE "backoff") /\ UNCHANGED breaks
     \/ presence = "live" /\ Breaks /\ presence' = (IF page.restarting THEN "hold" ELSE "backoff")
     \/ presence = "backoff" /\ presence' = "connecting" /\ UNCHANGED breaks
     \/ presence = "hold" /\ ~page.restarting /\ presence' = "connecting" /\ UNCHANGED breaks
  /\ UNCHANGED <<backend, sessions, page, recovery, sock, poll, flow, dialog, gestures>>

-----------------------------------------------------------------------------
(* The poll and the recovery.                                              *)
Polls ==
  /\ poll = "idle" /\ page.shows = "app" /\ ~page.restarting /\ poll' = None
  /\ UNCHANGED <<backend, sessions, page, recovery, connections, flow, dialog, breaks, gestures>>
PollServed ==
  /\ poll = None
  /\ \/ poll' = Reply("list") /\ UNCHANGED breaks
     \/ poll' = "error" /\ Breaks
  /\ UNCHANGED <<backend, sessions, page, recovery, connections, flow, dialog, gestures>>
PollReturns ==
  /\ poll \notin {"idle", None} /\ poll' = "idle"
  /\ AuthLost(poll)
  /\ UNCHANGED <<backend, sessions, connections, flow, dialog, breaks, gestures>>

(* waitForHealth: an answer, from whichever run, or none for five seconds. *)
Recovers ==
  /\ recovery = "probing" /\ recovery' = "over"
  /\ page' = IF Listens THEN [page EXCEPT !.shows = "next"] ELSE [shows |-> "panel", restarting |-> FALSE]
  /\ UNCHANGED <<backend, sessions, connections, poll, flow, dialog, breaks, gestures>>

-----------------------------------------------------------------------------
(* The dialog. It can be put away while nothing has been torn down.        *)
OpensConfirm ==
  /\ ~dialog.up /\ Gesture
  /\ dialog' = IF dialog.phase = "busy" THEN [dialog EXCEPT !.up = TRUE]
               ELSE [dialog EXCEPT !.up = TRUE, !.phase = "confirm"]
  /\ UNCHANGED <<backend, sessions, page, recovery, connections, poll, flow, breaks>>
ClosesConfirm ==
  /\ dialog.up /\ Gesture
  /\ dialog.phase = "busy" => flow.at \in {"update", "restart"}
  /\ dialog' = [dialog EXCEPT !.up = FALSE]
  /\ UNCHANGED <<backend, sessions, page, recovery, connections, poll, flow, breaks>>

StartsRestart ==
  /\ flow' = [at |-> "restart", got |-> None]
  /\ page' = [page EXCEPT !.restarting = TRUE]
  /\ dialog' = [dialog EXCEPT !.phase = "busy", !.notice = "restarting"]
StartFlow ==
  /\ dialog.up /\ dialog.phase \in {"confirm", "refused"} /\ flow.at = "none" /\ Gesture
  /\ \/ StartsRestart
     \/ /\ flow' = [at |-> "update", got |-> None] /\ UNCHANGED page
        /\ dialog' = [dialog EXCEPT !.phase = "busy", !.notice = "updating"]
  /\ UNCHANGED <<backend, sessions, recovery, connections, poll, breaks>>

(* Mutant of ShowsRefused: the gap stays armed.                            *)
ShowsRefusedArmed ==
  /\ flow' = [at |-> "none", got |-> None]
  /\ UNCHANGED page
  /\ dialog' = [phase |-> "refused", up |-> TRUE, notice |-> "none"]
ShowsRefused ==
  /\ flow' = [at |-> "none", got |-> None]
  /\ page' = [page EXCEPT !.restarting = FALSE]
  /\ dialog' = [phase |-> "refused", up |-> TRUE, notice |-> "none"]
(* Mutant of ShowsFailure: a dialog put away stays away.                   *)
ShowsFailureQuietly(notice) ==
  /\ flow' = [at |-> "none", got |-> None]
  /\ page' = [page EXCEPT !.restarting = FALSE]
  /\ dialog' = [dialog EXCEPT !.phase = "over", !.notice = notice]
ShowsFailure(notice) ==
  /\ flow' = [at |-> "none", got |-> None]
  /\ page' = [page EXCEPT !.restarting = FALSE]
  /\ dialog' = [phase |-> "over", up |-> TRUE, notice |-> notice]

(* runUpdate and followUpdate: installed, and on to the restart; failed,   *)
(* or ten status answers missed.                                           *)
UpdateSettles ==
  /\ flow.at = "update"
  /\ \/ backend = "ours" /\ StartsRestart
     \/ ShowsRefused
  /\ UNCHANGED <<backend, sessions, recovery, connections, poll, breaks, gestures>>

(* The backend acts on POST /api/restart: refused, or the run is over.     *)
RestartServed ==
  /\ flow.at = "restart" /\ flow.got = None
  /\ \/ /\ backend = "ours" /\ UNCHANGED <<backend, sessions>>
        /\ \E code \in {"409", "422"} : flow' = [flow EXCEPT !.got = code]
     \/ /\ backend = "ours" /\ backend' \in {"gap", "elsewhere", "dead"} /\ sessions' = {}
        /\ flow' = [flow EXCEPT !.got = CASE backend' = "gap" -> "202" [] backend' = "elsewhere" -> "port" [] OTHER -> "failed"]
     \/ /\ backend # "ours" /\ UNCHANGED <<backend, sessions>>
        /\ flow' = [flow EXCEPT !.got = "failed"]
  /\ UNCHANGED <<page, recovery, connections, poll, dialog, breaks, gestures>>
RestartReturns ==
  /\ flow.at = "restart" /\ flow.got # None
  /\ CASE flow.got = "422" -> ShowsRefused
       [] flow.got = "409" -> ShowsFailure("none")
       [] flow.got = "failed" -> ShowsFailure(dialog.notice)
       [] flow.got \in {"202", "port"} ->
            /\ flow' = [at |-> IF flow.got = "202" THEN "health" ELSE "navigate", got |-> None]
            /\ dialog' = [dialog EXCEPT !.up = TRUE] /\ UNCHANGED page
  /\ UNCHANGED <<backend, sessions, recovery, connections, poll, breaks, gestures>>
HealthAnswers ==
  /\ flow.at = "health"
  /\ IF Listens THEN page' = [page EXCEPT !.shows = "next"] /\ UNCHANGED <<flow, dialog>>
     ELSE ShowsFailure(dialog.notice)
  /\ UNCHANGED <<backend, sessions, recovery, connections, poll, breaks, gestures>>
Navigates ==
  /\ flow.at = "navigate"
  /\ \/ page' = [page EXCEPT !.shows = "address"] /\ UNCHANGED <<flow, dialog>>
     \/ ShowsFailure(dialog.notice)
  /\ UNCHANGED <<backend, sessions, recovery, connections, poll, breaks, gestures>>

-----------------------------------------------------------------------------
(* The backend: another window restarts it, a replacement comes up or not, *)
(* a session is removed.                                                   *)
Replaced ==
  /\ \/ Listens /\ backend' = "gap" /\ sessions' = {}
     \/ backend = "gap" /\ backend' \in {"other", "dead"} /\ UNCHANGED sessions
     \/ \E s \in sessions : sessions' = sessions \ {s} /\ UNCHANGED backend
  /\ UNCHANGED <<page, recovery, connections, poll, flow, dialog, breaks, gestures>>

SockNext(s) == Connects(s) \/ Drops(s) \/ Checked(s) \/ CheckReturns(s) \/ Retries(s)
PageNext ==
  /\ Runs
  /\ \/ \E s \in Panes : SockNext(s) \/ Closes(s)
     \/ Presence \/ Polls \/ PollServed \/ PollReturns \/ Recovers
     \/ OpensConfirm \/ ClosesConfirm \/ StartFlow \/ UpdateSettles
     \/ RestartServed \/ RestartReturns \/ HealthAnswers \/ Navigates
     \/ Replaced

(* Timers fire and requests are answered; windows, users and other windows *)
(* owe nothing, nor does a replacement that is coming up.                  *)
PageFairness ==
  /\ \A s \in Panes : WF_pageVars(Runs /\ SockNext(s))
  /\ WF_pageVars(Runs /\ Presence) /\ WF_pageVars(Runs /\ Polls) /\ WF_pageVars(Runs /\ PollServed)
  /\ WF_pageVars(Runs /\ PollReturns) /\ WF_pageVars(Runs /\ Recovers) /\ WF_pageVars(Runs /\ UpdateSettles)
  /\ WF_pageVars(Runs /\ RestartServed) /\ WF_pageVars(Runs /\ RestartReturns)
  /\ WF_pageVars(Runs /\ HealthAnswers) /\ WF_pageVars(Runs /\ Navigates)
PageSpec == PageInit /\ [][PageNext]_pageVars /\ PageFairness
-----------------------------------------------------------------------------
(* A pane is given up only when the backend has said that its session is   *)
(* gone, or when the whole page is: not by the rejected request that       *)
(* discovers a restart, a beat before the page reloads (ws.ts:147) - save  *)
(* that an update given up in that moment disarms the recovery's flag.     *)
GivenUpForGood ==
  [][\A s \in Panes : sock'[s].at = "dead" /\ sock[s].at # "dead"
       => \/ sock[s].got = "absent" \/ page.shows = "panel"
          \/ recovery = "probing" /\ dialog.phase = "refused"]_pageVars

(* Whatever the network, the user and refused restarts did: once the run   *)
(* of the page goes on for good, every pane that is left is attached again,*)
(* and so is the presence socket that keeps the backend alive.             *)
Attached ==
  backend = "ours" => (\A s \in sessions : sock[s].at = "live" \/ sock[s].closed) /\ presence = "live"
Rests == <>[][~Replaced]_pageVars
PanesComeBack == Rests => <>[]Attached

(* A page whose run is over does not stay up pretending: when another run  *)
(* answers for good, it is replaced, or says that it is of no use.         *)
Pretends == backend = "other" /\ page.shows = "app"
StalePagesEnd == Rests => <>[]~Pretends

(* What the flow ends with gets a screen, even when the dialog had been    *)
(* put away.                                                               *)
OutcomeIsShown == [][flow.at # "none" /\ flow'.at = "none" => dialog'.up]_pageVars

(* After close() there are no further events (ws.ts:216). Not so: an       *)
(* answer that was under way can put a closed socket on hold, and then it  *)
(* asks again, and says so to its pane.                                    *)
ClosedIsSilent == [][\A s \in Panes : sock[s].closed => sock'[s].at \in {sock[s].at, "off", "dead"}]_pageVars

(* The pill offers a restart that runs only while one runs                 *)
(* (ui/update-model.ts:44, 175). Not so after one that failed.             *)
PillTellsTheTruth == dialog.notice # "none" => flow.at # "none"
=============================================================================
