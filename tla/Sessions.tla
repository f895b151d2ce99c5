------------------------------ MODULE Sessions ------------------------------
(***************************************************************************)
(* The session manager of server/sessions.ts with everything one of its    *)
(* handlers touches: the map of sessions, the PTYs and the process groups  *)
(* behind them, the ladder of signals of a DELETE, the history entry, the  *)
(* settings file and the transcript poll of a session, and the WebSocket   *)
(* clients attached to it.                                                 *)
(*                                                                         *)
(* Handlers run to completion on one thread, so each is one action.  What  *)
(* interleaves with them is the operating system (processes fork, exit and *)
(* ignore signals when they please), the timers of the ladder, the client  *)
(* sockets, and the two watchers that report what Claude Code wrote.       *)
(***************************************************************************)
EXTENDS History

CONSTANTS
  Clients,   \* WebSockets of browser windows
  NPids,     \* process numbers the kernel hands out, in a cycle
  Reports,   \* reports of the agents watcher: records [agents, turn]
  Teles,     \* telemetry snapshots of the status line
  Outputs    \* what the scan of an output chunk finds: records [bell, title]

ASSUME SessionsAssumption ==
  /\ NPids \in Nat \ {0}
  /\ Reports \subseteq [agents : {"none", "running", "finished"},
                        turn : {"unknown", "working", "waiting"}]
  /\ Outputs \subseteq [bell : BOOLEAN, title : {"none", "idle", "busy"}]
  /\ "none" \notin Teles

VARIABLES
  up,          \* "up" until the clean shutdown has run
  clock,       \* orders the launches; stands for Date.now() in createdAt
  created,     \* session ids used so far, failed spawns included
  listed,      \* keys of #sessions
  info,        \* SessionInfo of each session (unlisted ones live in closures)
  ptys,        \* sessions whose `pty' field is not null
  pid,         \* ptyPid, the number the process group is addressed by
  lastPid,     \* the kernel's cursor in the cycle of process numbers
  procs,       \* live processes of each group: the leader and one worker
  killTimer,   \* the armed step of the ladder
  escalating,  \* keys of #escalating
  settings,    \* session-settings files on disk
  tracked,     \* sessions the agents watcher polls
  hist,        \* the history store
  sock,        \* each client's socket
  view         \* what the frames sent so far have told each client

vars == <<up, clock, created, listed, info, ptys, pid, lastPid, procs,
          killTimer, escalating, settings, tracked, hist, sock, view>>

(***************************************************************************)
(* Values                                                                  *)
(***************************************************************************)
Pids == 1 .. NPids

(* `turnEnded', `pending' and `early' are optional fields of SessionInfo:  *)
(* TRUE is "present".  `agents' folds the rows and their counts into what  *)
(* onExit distinguishes: no row, some row still running, all finished.     *)
Info == [status : {"none", "running", "exited"}, turn : {"unknown", "working", "waiting"},
         turnEnded : BOOLEAN, attention : BOOLEAN, pending : BOOLEAN,
         agents : {"none", "running", "finished"}, tele : Teles \cup {"none"},
         titleIdle : BOOLEAN, early : BOOLEAN]

NoInfo == [status |-> "none", turn |-> "unknown", turnEnded |-> FALSE,
           attention |-> FALSE, pending |-> FALSE, agents |-> "none",
           tele |-> "none", titleIdle |-> FALSE, early |-> FALSE]

(* The part of an `info' frame whose every change is announced.  `status'  *)
(* is not: the exit frame says it, and may come without an info frame.     *)
WireFields == {"turn", "turnEnded", "agents", "tele", "early"}
Wire(i) == [f \in WireFields |-> i[f]]

View == [info : {Wire(i) : i \in Info}, attention : BOOLEAN, exit : BOOLEAN]
NoView == [info |-> Wire(NoInfo), attention |-> FALSE, exit |-> FALSE]

Socket == [st : {"idle", "upgrading", "open", "closing"}, sid : Sids \cup {NoSid}]
IdleSocket == [st |-> "idle", sid |-> NoSid]

(***************************************************************************)
(* The operating system                                                    *)
(***************************************************************************)
(* kill(-p, 0) succeeds: some process of the group numbered p lives,       *)
(* whichever session spawned that group.                                   *)
GroupAlive(p) == \E t \in created : pid[t] = p /\ procs[t] # {}

(* Mutant of GroupGone: the leader's exit taken for the end of its group. *)
LeaderGone(s) == "leader" \notin procs[s]

(* #groupGone, given this session's captured ptyPid.                       *)
GroupGone(s) == ~GroupAlive(pid[s])

(* The kernel hands numbers out in a cycle and passes over the numbers a   *)
(* live group pins.                                                        *)
FreePids == {p \in Pids : ~GroupAlive(p)}
Ahead(p) == (p + NPids - lastPid - 1) % NPids
NextPids == {p \in FreePids : \A q \in FreePids : Ahead(p) <= Ahead(q)}

(* Mutant of KillGroup: the signal goes to p instead of -p.                *)
KillLeader(p) == [t \in Sids |-> IF pid[t] = p THEN procs[t] \ {"leader"} ELSE procs[t]]

(* SIGKILL to -p: nothing of the group numbered p runs on.                 *)
KillGroup(p) == [t \in Sids |-> IF pid[t] = p THEN {} ELSE procs[t]]

(* The leader forks a helper into its own group (the Gemini CLI does).     *)
WorkerForks(s) ==
  /\ "leader" \in procs[s] /\ "worker" \notin procs[s]
  /\ procs' = [procs EXCEPT ![s] = @ \cup {"worker"}]
  /\ UNCHANGED <<up, clock, created, listed, info, ptys, pid, lastPid,
                 killTimer, escalating, settings, tracked, hist, sock, view>>

(* A process ends by itself or by a signal it honours; SIGHUP and SIGTERM  *)
(* are never more than a reason to take this step.                         *)
ProcessEnds(s, p) ==
  /\ p \in procs[s]
  /\ procs' = [procs EXCEPT ![s] = @ \ {p}]
  /\ UNCHANGED <<up, clock, created, listed, info, ptys, pid, lastPid,
                 killTimer, escalating, settings, tracked, hist, sock, view>>

(***************************************************************************)
(* Frames                                                                  *)
(***************************************************************************)
(* session.clients, as far as #send reaches it: sockets in state OPEN.     *)
ClientsOf(s) == {c \in Clients : sock[c].st = "open" /\ sock[c].sid = s}

InfoFrame(s, i) ==
  [c \in Clients |-> IF c \in ClientsOf(s)
     THEN [view[c] EXCEPT !.info = Wire(i), !.attention = i.attention] ELSE view[c]]

(* syncPending: pendingSince is present exactly while there is news.       *)
SyncPending(i) == [i EXCEPT !.pending = i.attention \/ i.turnEnded]

(***************************************************************************)
(* SessionManager                                                          *)
(***************************************************************************)
Running == [NoInfo EXCEPT !.status = "running"]

(* create: `sl' says the launch got a settings file of its own.  It does   *)
(* not look at the entry it takes over; the routes do (module SessionApi). *)
Create(s, key, sl) ==
  /\ up = "up" /\ s \notin created
  /\ created' = created \cup {s}
  /\ listed' = listed \cup {s}
  /\ info' = [info EXCEPT ![s] = Running]
  /\ ptys' = ptys \cup {s}
  /\ \E p \in NextPids : pid' = [pid EXCEPT ![s] = p] /\ lastPid' = p
  /\ procs' = [procs EXCEPT ![s] = {"leader"}]
  /\ settings' = IF sl THEN settings \cup {s} ELSE settings
  /\ clock' = clock + 1
  /\ hist' = RecordCreate(hist, key, s, clock)
  /\ UNCHANGED <<up, killTimer, escalating, tracked, sock, view>>

(* Mutant of CreateFails: the settings file stays behind.                  *)
CreateFailsLeavesFile(s, sl) ==
  /\ up = "up" /\ s \notin created
  /\ created' = created \cup {s}
  /\ settings' = IF sl THEN settings \cup {s} ELSE settings
  /\ UNCHANGED <<up, clock, listed, info, ptys, pid, lastPid, procs,
                 killTimer, escalating, tracked, hist, sock, view>>

(* create whose spawn throws: the settings file just written goes again,   *)
(* and neither the map nor the history hears of the session.               *)
CreateFails(s, sl) ==
  /\ up = "up" /\ s \notin created
  /\ created' = created \cup {s}
  /\ settings' = LET written == IF sl THEN settings \cup {s} ELSE settings
                 IN  IF sl THEN written \ {s} ELSE written
  /\ UNCHANGED <<up, clock, listed, info, ptys, pid, lastPid, procs,
                 killTimer, escalating, tracked, hist, sock, view>>

(* handleOutput, the rescued final bytes included: it runs until onExit,   *)
(* on a deleted session too (its clients are gone, its closure is not).    *)
HandleOutput(s, o) ==
  /\ up = "up" /\ info[s].status = "running"
  /\ LET i == info[s]
         belled == IF o.bell THEN SyncPending([i EXCEPT !.attention = TRUE]) ELSE i
         idle == CASE o.title = "idle" -> TRUE
                   [] o.title = "busy" -> FALSE
                   [] OTHER -> i.titleIdle
     IN  info' = [info EXCEPT ![s] = [belled EXCEPT !.titleIdle = idle]]
  /\ view' = IF o.bell
               THEN [c \in Clients |-> IF c \in ClientsOf(s)
                       THEN [view[c] EXCEPT !.attention = TRUE] ELSE view[c]]
               ELSE view
  /\ UNCHANGED <<up, clock, created, listed, ptys, pid, lastPid, procs,
                 killTimer, escalating, settings, tracked, hist, sock>>

(* Mutants of ExitedInfo: the status is not set; pendingSince is left as   *)
(* it was although the ended turn is cleared.                              *)
ExitUnnoticed(i, e) ==
  SyncPending([i EXCEPT !.turn = "unknown", !.turnEnded = FALSE, !.titleIdle = FALSE,
                        !.early = e, !.agents = IF @ = "running" THEN "finished" ELSE @])
ExitKeepsPending(i, e) ==
  [i EXCEPT !.status = "exited", !.turn = "unknown", !.turnEnded = FALSE,
            !.titleIdle = FALSE, !.early = e,
            !.agents = IF @ = "running" THEN "finished" ELSE @]

(* The info record onExit leaves behind; `e' is the early-exit verdict.    *)
ExitedInfo(i, e) ==
  SyncPending([i EXCEPT !.status = "exited", !.turn = "unknown", !.turnEnded = FALSE,
                        !.titleIdle = FALSE, !.early = e,
                        !.agents = IF @ = "running" THEN "finished" ELSE @])

(* Mutant of ExitChanged: agents that stop with the process do not count.  *)
ExitChangedQuietly(i, e) == i.turn # "unknown" \/ i.turnEnded \/ e

(* `changed' in onExit: one extra info frame goes out before the exit one. *)
ExitChanged(i, e) ==
  i.agents = "running" \/ i.turn # "unknown" \/ i.turnEnded \/ e

(* onExit, delivered once the leader is gone.  The ladder is called off    *)
(* only when the whole group is gone.                                      *)
OnExit(s, e) ==
  /\ up = "up" /\ info[s].status = "running" /\ "leader" \notin procs[s]
  /\ e => s \in listed
  /\ LET off == killTimer[s] # "off" /\ GroupGone(s)
         j == ExitedInfo(info[s], e)
         told == IF ExitChanged(info[s], e) THEN InfoFrame(s, j) ELSE view
     IN  /\ killTimer' = IF off THEN [killTimer EXCEPT ![s] = "off"] ELSE killTimer
         /\ escalating' = IF off THEN escalating \ {s} ELSE escalating
         /\ info' = [info EXCEPT ![s] = j]
         /\ view' = [c \in Clients |-> IF c \in ClientsOf(s)
                       THEN [told[c] EXCEPT !.exit = TRUE] ELSE told[c]]
  /\ ptys' = ptys \ {s}
  /\ settings' = settings \ {s}
  /\ tracked' = tracked \ {s}
  /\ hist' = MarkEnded(hist, s, "exit")
  /\ UNCHANGED <<up, clock, created, listed, pid, lastPid, procs, sock>>

(* Mutant of Telemetry: has() where isLive() is meant.                     *)
TelemetryOfListed(s, v, transcript) ==
  /\ up = "up"
  /\ LET news == s \in listed /\ info[s].tele # v
         i == [info[s] EXCEPT !.tele = v]
     IN  /\ info' = IF news THEN [info EXCEPT ![s] = i] ELSE info
         /\ view' = IF news THEN InfoFrame(s, i) ELSE view
  /\ tracked' = IF transcript /\ s \in listed THEN tracked \cup {s} ELSE tracked
  /\ UNCHANGED <<up, clock, created, listed, ptys, pid, lastPid, procs,
                 killTimer, escalating, settings, hist, sock>>

(* The telemetry watcher's callback in index.ts: a snapshot may name any   *)
(* session, and may come after its exit; only a live one is tracked, and   *)
(* only when the snapshot names a transcript.                              *)
Telemetry(s, v, transcript) ==
  /\ up = "up"
  /\ LET news == s \in listed /\ info[s].tele # v
         i == [info[s] EXCEPT !.tele = v]
     IN  /\ info' = IF news THEN [info EXCEPT ![s] = i] ELSE info
         /\ view' = IF news THEN InfoFrame(s, i) ELSE view
  /\ tracked' = IF transcript /\ s \in listed /\ info[s].status = "running"
                  THEN tracked \cup {s} ELSE tracked
  /\ UNCHANGED <<up, clock, created, listed, ptys, pid, lastPid, procs,
                 killTimer, escalating, settings, hist, sock>>

(* setReport, called by the agents poll for a session it tracks.           *)
SetReport(s, r) ==
  /\ up = "up" /\ s \in tracked
  /\ s \in listed /\ info[s].status # "exited"
  /\ <<info[s].agents, info[s].turn>> # <<r.agents, r.turn>>
  /\ LET i == info[s]
         news == CASE i.turn = "working" /\ r.turn = "waiting" -> TRUE
                   [] r.turn = "working" -> FALSE
                   [] OTHER -> i.turnEnded
         j == SyncPending([i EXCEPT !.agents = r.agents, !.turn = r.turn, !.turnEnded = news])
     IN  /\ info' = [info EXCEPT ![s] = j]
         /\ view' = InfoFrame(s, j)
  /\ UNCHANGED <<up, clock, created, listed, ptys, pid, lastPid, procs,
                 killTimer, escalating, settings, tracked, hist, sock>>

(* markSeen acknowledges a BEL; no frame says so.                          *)
MarkSeen(s) ==
  /\ up = "up" /\ s \in listed
  /\ info' = [info EXCEPT ![s] = SyncPending([@ EXCEPT !.attention = FALSE])]
  /\ UNCHANGED <<up, clock, created, listed, ptys, pid, lastPid, procs,
                 killTimer, escalating, settings, tracked, hist, sock, view>>

(* Mutant of Destroy: `session.pty = null' is forgotten.                   *)
DestroyKeepsPty(s) ==
  /\ up = "up" /\ s \in listed
  /\ listed' = listed \ {s} /\ settings' = settings \ {s} /\ tracked' = tracked \ {s}
  /\ IF s \in ptys
       THEN /\ hist' = MarkEnded(hist, s, "user-kill")
            /\ killTimer' = [killTimer EXCEPT ![s] = "term"]
            /\ escalating' = escalating \cup {s}
       ELSE UNCHANGED <<hist, killTimer, escalating>>
  /\ sock' = [c \in Clients |-> IF c \in ClientsOf(s)
                THEN [sock[c] EXCEPT !.st = "closing"] ELSE sock[c]]
  /\ UNCHANGED <<up, clock, created, info, ptys, pid, lastPid, procs, view>>

(* destroy(id, 'user'): SIGHUP and the ladder, if a PTY is still attached. *)
Destroy(s) ==
  /\ up = "up" /\ s \in listed
  /\ listed' = listed \ {s}
  /\ settings' = settings \ {s}
  /\ tracked' = tracked \ {s}
  /\ ptys' = ptys \ {s}
  /\ IF s \in ptys
       THEN /\ hist' = MarkEnded(hist, s, "user-kill")
            /\ killTimer' = [killTimer EXCEPT ![s] = "term"]
            /\ escalating' = escalating \cup {s}
       ELSE UNCHANGED <<hist, killTimer, escalating>>
  /\ sock' = [c \in Clients |-> IF c \in ClientsOf(s)
                THEN [sock[c] EXCEPT !.st = "closing"] ELSE sock[c]]
  /\ UNCHANGED <<up, clock, created, info, pid, lastPid, procs, view>>

(* Mutant of TermFires: the early return leaves #escalating as it is.      *)
TermFiresKeepsEntry(s) ==
  /\ up = "up" /\ killTimer[s] = "term"
  /\ killTimer' = [killTimer EXCEPT ![s] = IF GroupGone(s) THEN "off" ELSE "kill"]
  /\ UNCHANGED <<up, clock, created, listed, info, ptys, pid, lastPid, procs,
                 escalating, settings, tracked, hist, sock, view>>

(* #escalateKill, first timer: SIGTERM, and the second timer is armed.     *)
TermFires(s) ==
  /\ up = "up" /\ killTimer[s] = "term"
  /\ killTimer' = [killTimer EXCEPT ![s] = IF GroupGone(s) THEN "off" ELSE "kill"]
  /\ escalating' = IF GroupGone(s) THEN escalating \ {s} ELSE escalating
  /\ UNCHANGED <<up, clock, created, listed, info, ptys, pid, lastPid, procs,
                 settings, tracked, hist, sock, view>>

(* #escalateKill, second timer: SIGKILL, which nothing refuses.            *)
KillFires(s) ==
  /\ up = "up" /\ killTimer[s] = "kill"
  /\ killTimer' = [killTimer EXCEPT ![s] = "off"]
  /\ escalating' = escalating \ {s}
  /\ procs' = IF GroupGone(s) THEN procs ELSE KillGroup(pid[s])
  /\ UNCHANGED <<up, clock, created, listed, info, ptys, pid, lastPid,
                 settings, tracked, hist, sock, view>>

(* Mutant of ShutdownVictims: the ladders in flight are forgotten.         *)
ListedVictims == {pid[s] : s \in listed \cap ptys}

(* The groups destroyAll sends SIGKILL to: those of the sessions with a    *)
(* PTY, and those whose ladder is still counting down.                     *)
ShutdownVictims == {pid[s] : s \in (listed \cap ptys) \cup escalating}

(* shutdown(): the history is stamped first, then destroyAll, then exit.   *)
Shutdown ==
  /\ up = "up"
  /\ up' = "down"
  /\ hist' = EndAllLive(hist, "shutdown")
  /\ settings' = settings \ listed
  /\ tracked' = {}
  /\ procs' = [t \in Sids |-> IF pid[t] \in ShutdownVictims THEN {} ELSE procs[t]]
  /\ listed' = {}
  /\ ptys' = ptys \ listed
  /\ escalating' = {}
  /\ killTimer' = [s \in Sids |-> "off"]
  /\ sock' = [c \in Clients |-> IdleSocket]
  /\ view' = [c \in Clients |-> NoView]
  /\ UNCHANGED <<clock, created, info, pid, lastPid>>

(***************************************************************************)
(* Session sockets (server/ws.ts)                                          *)
(***************************************************************************)
(* The upgrade request passes its checks; the session is known right now.  *)
Upgrade(c, s) ==
  /\ up = "up" /\ sock[c].st = "idle" /\ s \in listed
  /\ sock' = [sock EXCEPT ![c] = [st |-> "upgrading", sid |-> s]]
  /\ UNCHANGED <<up, clock, created, listed, info, ptys, pid, lastPid, procs,
                 killTimer, escalating, settings, tracked, hist, view>>

(* attachClient: replay, info, and the exit of a session already gone; or  *)
(* close code 1011 when the session vanished in between.                   *)
Attach(c) ==
  /\ up = "up" /\ sock[c].st = "upgrading"
  /\ LET s == sock[c].sid IN
     IF s \in listed
       THEN /\ sock' = [sock EXCEPT ![c].st = "open"]
            /\ view' = [view EXCEPT ![c] =
                 [info |-> Wire(info[s]), attention |-> info[s].attention,
                  exit |-> info[s].status = "exited"]]
       ELSE /\ sock' = [sock EXCEPT ![c].st = "closing"]
            /\ UNCHANGED view
  /\ UNCHANGED <<up, clock, created, listed, info, ptys, pid, lastPid, procs,
                 killTimer, escalating, settings, tracked, hist>>

(* The socket's `close' event removes it from session.clients.             *)
ClientCloses(c) ==
  /\ sock[c].st # "idle"
  /\ sock' = [sock EXCEPT ![c] = IdleSocket]
  /\ view' = [view EXCEPT ![c] = NoView]
  /\ UNCHANGED <<up, clock, created, listed, info, ptys, pid, lastPid, procs,
                 killTimer, escalating, settings, tracked, hist>>

(***************************************************************************)
(* The specification                                                       *)
(***************************************************************************)
Init ==
  /\ up = "up" /\ clock = 1
  /\ created = {} /\ listed = {} /\ ptys = {} /\ escalating = {}
  /\ settings = {} /\ tracked = {}
  /\ info = [s \in Sids |-> NoInfo]
  /\ pid = [s \in Sids |-> 0] /\ lastPid = NPids
  /\ procs = [s \in Sids |-> {}]
  /\ killTimer = [s \in Sids |-> "off"]
  /\ \E old \in SUBSET Convs : hist = LoadedHistory(old)
  /\ sock = [c \in Clients |-> IdleSocket]
  /\ view = [c \in Clients |-> NoView]

(* The keys a launch of s can end up with: its own id, an id the client    *)
(* names in its arguments, or the entry it resumes.                        *)
LaunchKeys(s) == {s} \cup Convs \cup Stored(hist)

LaunchStep(s) ==
  \/ \E key \in LaunchKeys(s), sl \in BOOLEAN : Create(s, key, sl)
  \/ \E sl \in BOOLEAN : CreateFails(s, sl)

(* What browser windows do with a session that exists, and what happens to *)
(* their sockets.                                                          *)
BrowserStep(s) ==
  \/ MarkSeen(s)
  \/ Destroy(s)
  \/ \E c \in Clients : Upgrade(c, s)

SocketStep(c) == Attach(c) \/ ClientCloses(c)

(* What the processes, the watchers and the timers do.                     *)
EngineStep(s) ==
  \/ WorkerForks(s)
  \/ \E p \in {"leader", "worker"} : ProcessEnds(s, p)
  \/ \E o \in Outputs : HandleOutput(s, o)
  \/ \E e \in BOOLEAN : OnExit(s, e)
  \/ \E v \in Teles, transcript \in BOOLEAN : Telemetry(s, v, transcript)
  \/ \E r \in Reports : SetReport(s, r)
  \/ TermFires(s)
  \/ KillFires(s)

Next ==
  \/ \E s \in Sids : LaunchStep(s) \/ BrowserStep(s) \/ EngineStep(s)
  \/ \E c \in Clients : SocketStep(c)
  \/ Shutdown

Spec == Init /\ [][Next]_vars

(* Timers that are armed fire; a process is under no obligation at all.    *)
LadderFairness == \A s \in Sids : WF_vars(TermFires(s)) /\ WF_vars(KillFires(s))
FairSpec == Spec /\ LadderFairness
-----------------------------------------------------------------------------
(***************************************************************************)
(* Properties                                                              *)
(***************************************************************************)
TypeOK ==
  /\ up \in {"up", "down"}
  /\ clock \in Nat \ {0}
  /\ created \subseteq Sids /\ listed \subseteq created /\ ptys \subseteq listed
  /\ info \in [Sids -> Info]
  /\ pid \in [Sids -> Pids \cup {0}] /\ lastPid \in Pids
  /\ procs \in [Sids -> SUBSET {"leader", "worker"}]
  /\ killTimer \in [Sids -> {"off", "term", "kill"}]
  /\ escalating \subseteq created
  /\ settings \subseteq created /\ tracked \subseteq created
  /\ hist \in [Keys -> Entry]
  /\ sock \in [Clients -> Socket]
  /\ view \in [Clients -> View]

(* A session the manager lists as running has its PTY field, and no other  *)
(* session has: a handler that clears one without the other would leave a  *)
(* dead pane that takes input, or a live program no DELETE can reach.      *)
PtyIffRunning == \A s \in Sids : s \in ptys <=> s \in listed /\ info[s].status = "running"

(* A session id that was never used, or whose spawn failed, has left no    *)
(* trace: no process, no artifact, no timer and no entry of the history.   *)
Blank(s) ==
  /\ info[s] = NoInfo /\ procs[s] = {} /\ killTimer[s] = "off"
  /\ s \notin listed \cup settings \cup tracked
  /\ \A k \in Keys : hist[k].sid # s
UnspawnedIsBlank ==
  \A s \in Sids : s \notin created \/ info[s].status = "none" => Blank(s)

(* A history entry that says "still running" names a session the manager   *)
(* lists with a PTY: destroy, onExit and shutdown each stamp the entry     *)
(* before or as they let go of the process.                                *)
LiveEntryHasSession ==
  \A k \in Keys : hist[k].ended = "live" => up = "up" /\ hist[k].sid \in ptys

(* Settings files and transcript polls belong to running sessions only,    *)
(* whatever order a late telemetry snapshot, an exit and a DELETE come in. *)
ArtifactsOfRunningOnly ==
  \A s \in settings \cup tracked : s \in listed /\ info[s].status = "running"

(* The manager keeps a handle on every program it started: while it serves,*)
(* a live leader is a listed session's or on the ladder, and none is left  *)
(* once destroyAll has run.                                                *)
NoLeaderLeaked ==
  \A s \in Sids : "leader" \in procs[s] => up = "up" /\ s \in ptys \cup escalating

(* The ladder's bookkeeping: #escalating holds exactly the sessions with   *)
(* an armed timer, each of them out of the map.                            *)
LadderBookkeeping ==
  /\ escalating = {s \in Sids : killTimer[s] # "off"}
  /\ escalating \cap listed = {}

(* A session the user ended is followed through to the last process of its *)
(* group: its leader's exit alone does not call the ladder off.            *)
UserKillFollowedThrough ==
  \A k \in Keys : hist[k].ended = "user-kill" =>
    procs[hist[k].sid] = {} \/ hist[k].sid \in escalating \/ up = "down"

(* What an attached client was last told is what the session is: every     *)
(* change to these fields went out in an info frame, and the exit frame    *)
(* went out exactly once the session had exited.                           *)
ClientsUpToDate ==
  \A s \in listed : \A c \in ClientsOf(s) :
    /\ view[c].info = Wire(info[s])
    /\ view[c].exit <=> info[s].status = "exited"
    /\ info[s].attention => view[c].attention

(* pendingSince and the ended turn: pending exactly while a BEL is unseen  *)
(* or a turn has ended, an ended turn is never a working one, and a session*)
(* that exited waits for nothing and runs no agent.                        *)
NewsIsConsistent ==
  \A s \in created :
    /\ info[s].pending <=> info[s].attention \/ info[s].turnEnded
    /\ info[s].turnEnded => info[s].turn # "working"
    /\ info[s].status = "exited" =>
         /\ info[s].turn = "unknown" /\ ~info[s].turnEnded
         /\ info[s].agents # "running" /\ ~info[s].titleIdle

(* What attached windows were told of a session is what it is, and the     *)
(* mark that asks the user to look follows both of its reasons.            *)
WindowsKnowTheSession == ClientsUpToDate /\ NewsIsConsistent

(* The first stamp wins: the reason an entry ended for stays until that    *)
(* entry is launched again by a session that did not exist, or dropped.    *)
FirstStampWins ==
  [][\A k \in Keys : hist[k].ended \in Reasons /\ hist'[k] # hist[k] =>
       \/ hist'[k] = NoEntry
       \/ hist'[k].ended = "live" /\ hist'[k].sid \notin created]_vars

(* A DELETEd session's group ends: within two timers of the ladder, or in  *)
(* the shutdown that overtakes them.                                       *)
DeletedGroupEnds == \A s \in Sids : s \in escalating ~> procs[s] = {}

(* sessions.ts on #groupGone: a successful kill(-pid, 0) proves that -pid  *)
(* is still THIS session's group.  Asked at every armed step of a ladder.  *)
ProbeProvesOwnGroup ==
  \A s \in escalating : GroupAlive(pid[s]) => procs[s] # {}

(* sessions.ts on shutdown: a process that ignores SIGHUP must not outlive *)
(* the backend.                                                            *)
NothingOutlivesBackend == up = "down" => \A s \in Sids : procs[s] = {}
=============================================================================
