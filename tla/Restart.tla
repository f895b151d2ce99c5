------------------------------ MODULE Restart ------------------------------
(***************************************************************************)
(* POST /api/restart: the RestartController and the standby starter of     *)
(* server/restart.ts, the standby boot and shutdown() of server/index.ts,  *)
(* the directory swap of server/webbuild.ts and runtime.json.              *)
(*                                                                         *)
(* The old backend (the parent) and every replacement it spawns (a child)  *)
(* are processes of their own: they interleave, they can be killed at any  *)
(* step, and they learn of each other's death only through events.  The    *)
(* developer path is modelled; in an installed tree the four directory     *)
(* operations are no-ops.                                                  *)
(***************************************************************************)
EXTENDS Naturals, FiniteSets

CONSTANT Children  \* the replacements spawned over the parent's life
CONSTANT NoChild
RestartAssumption == NoChild \notin Children /\ "parent" \notin Children

VARIABLES
  pc,        \* where the parent is (see Steps)
  crashed,   \* the parent was killed, or died of an uncaught exception
  resp,      \* the answer to the latest finished request
  cur,       \* the child of the restart under way
  swapped,   \* FrontendSwap.hadPrevious of that restart
  child,     \* the state of each child
  late,      \* children that died after reporting ready and before `go'
  known,     \* children whose death the parent has been told of (dead())
  doomed,    \* children the parent sent SIGTERM
  go,        \* children `go' was sent to
  dist, next, prev,  \* contents of web/dist, web/dist-next, web/dist-prev
  runtime,   \* the process runtime.json names
  port,      \* the process that listens on the window's port
  stamp,     \* history.json on the parent's sessions
  running    \* the parent's sessions run

parentVars == <<crashed, resp, cur, swapped, known, doomed, go>>
diskVars == <<dist, next, prev>>
vars == <<pc, parentVars, child, late, diskVars, runtime, port, stamp, running>>

(* serving: no restart.  building, spawning: the awaits of the preflight.  *)
(* ready, aside, swapped: the swap.  stamped .. sent: teardown and go.     *)
(* waiting: for the child.  leaving: the answer is going out.              *)
Steps == {"serving", "building", "spawning", "ready", "aside", "swapped", "stamped",
          "killed", "closed", "sent", "waiting", "leaving", "gone"}
Build == {"none", "old", "new", "partial"}

(* inProgress is set from the teardown on.                                 *)
InProgress == pc \in {"stamped", "killed", "closed", "sent", "waiting", "leaving"}

Owning(c) == child[c] \in {"owning", "listening"}

(***************************************************************************)
(* The parent                                                              *)
(***************************************************************************)
(* Mutant of Refuse: the answer of the concurrency guard.                  *)
RefuseAsConflict(nextDist, nextPrev) ==
  /\ pc' = "serving" /\ resp' = "409"
  /\ dist' = nextDist /\ next' = "none"
  /\ prev' = IF nextDist # "none" THEN "none" ELSE nextPrev

(* A refusal: 422 and everything as before.  discardFrontend drops the     *)
(* staged build, and the backup while the served directory is in place.    *)
Refuse(nextDist, nextPrev) ==
  /\ pc' = "serving" /\ resp' = "422"
  /\ dist' = nextDist /\ next' = "none"
  /\ prev' = IF nextDist # "none" THEN "none" ELSE nextPrev

(* request() past the 409 guard, dependencies in step; vite starts.        *)
Request ==
  /\ pc = "serving" /\ pc' = "building"
  /\ resp' = "none" /\ next' = "partial"
  /\ UNCHANGED <<crashed, cur, swapped, known, doomed, go, child, late, dist, prev,
                 runtime, port, stamp, running>>

(* buildFrontend rejects: staging is removed.  A leftover backup stays.    *)
BuildFails ==
  /\ pc = "building" /\ pc' = "serving" /\ resp' = "422" /\ next' = "none"
  /\ UNCHANGED <<crashed, cur, swapped, known, doomed, go, child, late, dist, prev,
                 runtime, port, stamp, running>>

(* buildFrontend resolves, and the standby is spawned in the same turn.    *)
BuildDone(c) ==
  /\ pc = "building" /\ child[c] = "none"
  /\ pc' = "spawning" /\ next' = "new" /\ cur' = c
  /\ child' = [child EXCEPT ![c] = "booting"]
  /\ UNCHANGED <<crashed, resp, swapped, known, doomed, go, late, dist, prev,
                 runtime, port, stamp, running>>

(* startStandby rejects: early exit, spawn error, or no report in time.    *)
StandbyFails ==
  /\ pc = "spawning"
  /\ Refuse(dist, prev)
  /\ doomed' = doomed \cup {cur}
  /\ UNCHANGED <<crashed, cur, swapped, known, go, child, late, runtime, port, stamp, running>>

(* `standby-ready' arrives; the child may have died since it was sent.     *)
StandbyReports ==
  /\ pc = "spawning" /\ (child[cur] = "ready" \/ cur \in late)
  /\ pc' = "ready"
  /\ UNCHANGED <<parentVars, child, late, diskVars, runtime, port, stamp, running>>

(* dead() before the swap.                                                 *)
FoundDeadBeforeSwap ==
  /\ pc = "ready" /\ cur \in known
  /\ Refuse(dist, prev)
  /\ UNCHANGED <<crashed, cur, swapped, known, doomed, go, child, late,
                 runtime, port, stamp, running>>

(* swapFrontend refuses: the served directory is no build, or a rename     *)
(* fails.  When the second one does, the first is undone; when that fails  *)
(* too, the backup is the last copy.  stop() the child.                    *)
SwapRefuses ==
  /\ \/ pc = "ready" /\ cur \notin known /\ Refuse(dist, prev)
     \/ pc = "aside" /\ swapped /\ Refuse(prev, "none")
     \/ pc = "aside" /\ Refuse(dist, prev)
  /\ doomed' = doomed \cup {cur}
  /\ UNCHANGED <<crashed, cur, swapped, known, go, child, late, runtime, port, stamp, running>>

(* Mutant of SwapAside: the backup is dropped after the first rename.      *)
SwapAsideWithoutBackup ==
  /\ pc = "ready" /\ cur \notin known
  /\ pc' = "aside" /\ swapped' = (dist # "none")
  /\ prev' = "none" /\ dist' = "none"
  /\ UNCHANGED <<crashed, resp, cur, known, doomed, go, child, late, next,
                 runtime, port, stamp, running>>

(* dist -> dist-prev (an older backup goes first) ...                      *)
SwapAside ==
  /\ pc = "ready" /\ cur \notin known
  /\ pc' = "aside" /\ swapped' = (dist # "none")
  /\ prev' = dist /\ dist' = "none"
  /\ UNCHANGED <<crashed, resp, cur, known, doomed, go, child, late, next,
                 runtime, port, stamp, running>>

(* Mutant of SwapIn: a copy where the staged build should be moved.        *)
SwapInCopies ==
  /\ pc = "aside" /\ pc' = "swapped"
  /\ dist' = next
  /\ UNCHANGED <<parentVars, child, late, next, prev, runtime, port, stamp, running>>

(* ... dist-next -> dist.                                                  *)
SwapIn ==
  /\ pc = "aside" /\ pc' = "swapped"
  /\ dist' = next /\ next' = "none"
  /\ UNCHANGED <<parentVars, child, late, prev, runtime, port, stamp, running>>

(* Mutant of FoundDeadBeforeTeardown: a refusal without revertFrontend.    *)
FoundDeadWithoutRevert ==
  /\ pc = "swapped" /\ cur \in known
  /\ pc' = "serving" /\ resp' = "422"
  /\ UNCHANGED <<crashed, cur, swapped, known, doomed, go, child, late, diskVars,
                 runtime, port, stamp, running>>

(* dead() before the teardown: revertFrontend puts the old build back, or  *)
(* leaves no served directory where there was none.                        *)
FoundDeadBeforeTeardown ==
  /\ pc = "swapped" /\ cur \in known
  /\ pc' = "serving" /\ resp' = "422"
  /\ dist' = IF swapped THEN prev ELSE "none"
  /\ prev' = IF swapped THEN "none" ELSE prev
  /\ next' = "none"
  /\ UNCHANGED <<crashed, cur, swapped, known, doomed, go, child, late,
                 runtime, port, stamp, running>>

(* Mutant of TeardownStamps: the sessions end without their stamp.         *)
TeardownSkipsHistory ==
  /\ pc = "swapped" /\ cur \notin known /\ pc' = "stamped"
  /\ UNCHANGED <<parentVars, child, late, diskVars, runtime, port, stamp, running>>

(* teardown: history first, then the sessions, then the listener.          *)
TeardownStamps ==
  /\ pc = "swapped" /\ cur \notin known /\ pc' = "stamped" /\ stamp' = "shutdown"
  /\ UNCHANGED <<parentVars, child, late, diskVars, runtime, port, running>>

TeardownKills ==
  /\ pc = "stamped" /\ pc' = "killed" /\ running' = FALSE
  /\ UNCHANGED <<parentVars, child, late, diskVars, runtime, port, stamp>>

TeardownCloses ==
  /\ pc = "killed" /\ pc' = "closed" /\ port' = "none"
  /\ UNCHANGED <<parentVars, child, late, diskVars, runtime, stamp, running>>

(* A throw in the teardown: commit, 500, leave.                            *)
TeardownThrows ==
  /\ pc \in {"stamped", "killed"} /\ pc' = "leaving" /\ resp' = "500" /\ prev' = "none"
  /\ UNCHANGED <<crashed, cur, swapped, known, doomed, go, child, late, dist, next,
                 runtime, port, stamp, running>>

(* go() throws: the parent knows the child is dead, or its channel closed. *)
(* (That the channel refuses the message of a live child is left out.)     *)
(* Commit, 500, leave.                                                     *)
GoThrows ==
  /\ pc = "closed" /\ child[cur] = "dead"
  /\ pc' = "leaving" /\ resp' = "500" /\ prev' = "none"
  /\ UNCHANGED <<crashed, cur, swapped, known, doomed, go, child, late, dist, next,
                 runtime, port, stamp, running>>

(* go() returns: the message is on its way, to a child that may be dead.   *)
SendGo ==
  /\ pc = "closed" /\ cur \notin known
  /\ pc' = "sent" /\ go' = go \cup {cur}
  /\ UNCHANGED <<crashed, resp, cur, swapped, known, doomed, child, late, diskVars,
                 runtime, port, stamp, running>>

Commit ==
  /\ pc = "sent" /\ pc' = "waiting" /\ prev' = "none"
  /\ UNCHANGED <<parentVars, child, late, dist, next, runtime, port, stamp, running>>

(* Mutant of ChildIsHealthy: any runtime.json is taken for the child's.    *)
AnyRuntimeFileWillDo ==
  /\ pc = "waiting" /\ runtime # "none"
  /\ pc' = "leaving" /\ resp' = "202"
  /\ UNCHANGED <<crashed, cur, swapped, known, doomed, go, child, late, diskVars,
                 runtime, port, stamp, running>>

(* #waitForChild: runtime.json names another pid, and its /health answers. *)
ChildIsHealthy ==
  /\ pc = "waiting" /\ runtime \in Children /\ child[runtime] = "listening"
  /\ pc' = "leaving" /\ resp' = "202"
  /\ UNCHANGED <<crashed, cur, swapped, known, doomed, go, child, late, diskVars,
                 runtime, port, stamp, running>>

(* Mutant of WaitTimesOut: the deadline only counts once a file was seen.  *)
WaitTimesOutOnFile ==
  /\ pc = "waiting" /\ runtime \in Children /\ pc' = "leaving" /\ resp' = "500"
  /\ UNCHANGED <<crashed, cur, swapped, known, doomed, go, child, late, diskVars,
                 runtime, port, stamp, running>>

(* The deadline passes.                                                    *)
WaitTimesOut ==
  /\ pc = "waiting" /\ pc' = "leaving" /\ resp' = "500"
  /\ UNCHANGED <<crashed, cur, swapped, known, doomed, go, child, late, diskVars,
                 runtime, port, stamp, running>>

(* onFlushed, or its backstop.                                             *)
Released == IF port = "parent" THEN "none" ELSE port
Leave ==
  /\ pc = "leaving" /\ pc' = "gone" /\ port' = Released
  /\ UNCHANGED <<parentVars, child, late, diskVars, runtime, stamp, running>>

(* shutdown(): the whole of it unless a restart is in progress; then only  *)
(* the exit.  runtime.json goes only while it names this process.          *)
Shutdown ==
  /\ pc \in {"serving", "building", "spawning", "waiting", "leaving"}
  /\ pc' = "gone" /\ port' = Released
  /\ IF InProgress
       THEN UNCHANGED <<diskVars, runtime, stamp, running>>
       ELSE /\ next' = "none"
            /\ prev' = IF dist # "none" THEN "none" ELSE prev
            /\ stamp' = IF stamp = "live" THEN "shutdown" ELSE stamp
            /\ running' = FALSE
            /\ runtime' = IF runtime = "parent" THEN "none" ELSE runtime
            /\ UNCHANGED dist
  /\ UNCHANGED <<parentVars, child, late>>

(* Mutant of Crash: whatever runtime.json names is removed.                *)
CrashTidiesAll(tidy) ==
  /\ pc # "gone" /\ pc' = "gone" /\ crashed' = TRUE /\ port' = Released
  /\ runtime' = IF tidy THEN "none" ELSE runtime
  /\ UNCHANGED <<resp, cur, swapped, known, doomed, go, child, late, diskVars,
                 stamp, running>>

(* SIGKILL or an uncaught exception, between any two steps: what an        *)
(* uncaught exception still tidies up is runtime.json, outside a handoff.  *)
Crash(tidy) ==
  /\ pc # "gone" /\ pc' = "gone" /\ crashed' = TRUE /\ port' = Released
  /\ runtime' = IF tidy /\ ~InProgress /\ runtime = "parent" THEN "none" ELSE runtime
  /\ UNCHANGED <<resp, cur, swapped, known, doomed, go, child, late, diskVars,
                 stamp, running>>

(* The `exit' event of a child that had reported ready.  In the code no    *)
(* turn of the event loop lies between the report and the teardown, so it  *)
(* cannot arrive here; the model lets it, to check what dead() then guards.*)
DeathNoticed ==
  /\ pc \in {"ready", "swapped"} /\ cur \in late /\ cur \notin known
  /\ known' = known \cup {cur}
  /\ UNCHANGED <<pc, crashed, resp, cur, swapped, doomed, go, child, late, diskVars,
                 runtime, port, stamp, running>>

(***************************************************************************)
(* The children                                                            *)
(***************************************************************************)
(* The boot of a standby reads the history without stamping it, binds      *)
(* nothing, and ends in the report.                                        *)
ChildReports(c) ==
  /\ child[c] = "booting" /\ child' = [child EXCEPT ![c] = "ready"]
  /\ UNCHANGED <<pc, parentVars, late, diskVars, runtime, port, stamp, running>>

(* Mutant of ChildTakes: the data directory is taken on the ready report.  *)
ChildTakesAtOnce(c) ==
  /\ child[c] = "ready"
  /\ child' = [child EXCEPT ![c] = "owning"]
  /\ stamp' = IF stamp = "live" THEN "crash" ELSE stamp
  /\ prev' = "none"
  /\ UNCHANGED <<pc, parentVars, late, dist, next, runtime, port, running>>

(* `go' arrives: load() stamps what is still live, the frontend on disk is *)
(* adopted and its backup dropped.                                         *)
ChildTakes(c) ==
  /\ child[c] = "ready" /\ c \in go
  /\ child' = [child EXCEPT ![c] = "owning"]
  /\ stamp' = IF stamp = "live" THEN "crash" ELSE stamp
  /\ prev' = "none"
  /\ UNCHANGED <<pc, parentVars, late, dist, next, runtime, port, running>>

(* beginListening: the hinted port, or another one when it is taken, then  *)
(* runtime.json.                                                           *)
ChildListens(c) ==
  /\ child[c] = "owning" /\ child' = [child EXCEPT ![c] = "listening"]
  /\ port' = IF port = "none" THEN c ELSE port
  /\ runtime' = c
  /\ UNCHANGED <<pc, parentVars, late, diskVars, stamp, running>>

(* A child leaves on SIGTERM, a closed channel or its standby timeout, all *)
(* before `go' has arrived; or it dies at any moment.  One that is killed  *)
(* while listening leaves runtime.json behind.                             *)
Ends(c) ==
  /\ child' = [child EXCEPT ![c] = "dead"]
  /\ late' = IF child[c] = "ready" /\ c \notin go THEN late \cup {c} ELSE late
  /\ port' = IF port = c THEN "none" ELSE port
  /\ UNCHANGED <<pc, parentVars, diskVars, runtime, stamp, running>>

(* Mutant of ChildTimesOut: the timer of a standby is never armed.         *)
ChildWaitsForEver(c) == FALSE /\ Ends(c)

ChildLeaves(c) == child[c] = "ready" /\ (c \in doomed \/ pc = "gone") /\ c \notin go /\ Ends(c)
ChildTimesOut(c) == child[c] = "ready" /\ Ends(c)
ChildDies(c) == child[c] \notin {"none", "dead"} /\ Ends(c)

Init ==
  /\ pc = "serving" /\ crashed = FALSE /\ resp = "none"
  /\ cur = NoChild /\ swapped = FALSE
  /\ child = [c \in Children |-> "none"]
  /\ late = {} /\ known = {} /\ doomed = {} /\ go = {}
  /\ dist \in {"none", "old"} /\ next = "none" /\ prev = "none"
  /\ runtime = "parent" /\ port = "parent" /\ stamp = "live" /\ running = TRUE

ParentSwaps == SwapRefuses \/ SwapAside \/ SwapIn
ParentTearsDown == TeardownStamps \/ TeardownKills \/ TeardownCloses \/ TeardownThrows

Next ==
  \/ Request \/ BuildFails \/ (\E c \in Children : BuildDone(c))
  \/ StandbyFails \/ StandbyReports \/ FoundDeadBeforeSwap \/ ParentSwaps
  \/ FoundDeadBeforeTeardown \/ ParentTearsDown \/ GoThrows \/ SendGo \/ Commit
  \/ ChildIsHealthy \/ WaitTimesOut \/ Leave
  \/ Shutdown \/ (\E tidy \in BOOLEAN : Crash(tidy)) \/ DeathNoticed
  \/ \E c \in Children : \/ ChildReports(c) \/ ChildTakes(c) \/ ChildListens(c)
                         \/ ChildLeaves(c) \/ ChildTimesOut(c) \/ ChildDies(c)

Spec == Init /\ [][Next]_vars

(* The parent's event loop goes on: timers bound every await.  A child     *)
(* boots, and in standby it hears of its parent or runs into its timeout.  *)
Fairness ==
  /\ WF_vars(StandbyFails \/ StandbyReports)
  /\ WF_vars(FoundDeadBeforeSwap \/ ParentSwaps)
  /\ WF_vars(FoundDeadBeforeTeardown \/ ParentTearsDown)
  /\ WF_vars(GoThrows \/ SendGo \/ Commit)
  /\ WF_vars(ChildIsHealthy \/ WaitTimesOut)
  /\ WF_vars(Leave)
  /\ \A c \in Children : WF_vars(ChildReports(c)) /\ WF_vars(ChildTakes(c) \/ ChildTimesOut(c))
                         /\ WF_vars(ChildListens(c))
FairSpec == Spec /\ Fairness
-----------------------------------------------------------------------------
TypeOK ==
  /\ pc \in Steps /\ crashed \in BOOLEAN /\ resp \in {"none", "202", "422", "500"}
  /\ cur \in Children \cup {NoChild} /\ swapped \in BOOLEAN
  /\ child \in [Children -> {"none", "booting", "ready", "owning", "listening", "dead"}]
  /\ {late, known, doomed, go} \subseteq SUBSET Children
  /\ {dist, next, prev} \subseteq Build
  /\ {runtime, port} \subseteq Children \cup {"parent", "none"}
  /\ stamp \in {"live", "shutdown", "crash"} /\ running \in BOOLEAN

(* Until the teardown a restart changes nothing: a backend that serves     *)
(* (before, between and after refused restarts) never serves screens newer *)
(* than itself, its sessions run and are live in the history, runtime.json *)
(* and the port are its own, and no staging is left behind, nor a backup   *)
(* unless the rename that should have restored it failed.                  *)
RefusalChangesNothing ==
  /\ pc \in {"serving", "building", "spawning", "ready"} =>
       /\ dist # "new" /\ (dist # "none" => prev = "none")
       /\ running /\ stamp = "live" /\ runtime = "parent" /\ port = "parent"
  /\ pc = "serving" => next = "none"

(* The served directory is never lost: while it is away between the two    *)
(* renames, or stayed away because the parent died there or could not put  *)
(* it back, the backup holds it.                                           *)
ScreensNeverLost == dist = "none" /\ swapped => prev = "old"

(* New screens only with the new backend: a child that listens serves the  *)
(* build that was swapped in for it.                                       *)
ChildServesNewScreens == \A c \in Children : Owning(c) => dist = "new" /\ next = "none"

(* A session is recorded as crashed only when the backend really was       *)
(* killed before it could stamp it: a standby never stamps a living        *)
(* parent's sessions, and a takeover keeps the honest reason.              *)
CrashStampIsHonest == stamp = "crash" => crashed

(* runtime.json names a listening child for as long as it listens; the     *)
(* parent on its way out does not take the file with it.                   *)
ListeningChildIsDiscoverable == \A c \in Children : child[c] = "listening" => runtime = c

(* A 202 is only sent for a replacement that took the data directory over, *)
(* after the old sessions were ended.                                      *)
AcceptedMeansHandedOver ==
  resp = "202" => /\ ~running /\ stamp = "shutdown" /\ runtime \in go /\ port # "parent"

(* No replacement lingers: every one that was spawned ends up with the     *)
(* data directory or dead, however the parent fares.                       *)
NoStandbyLingers ==
  \A c \in Children : child[c] = "booting" ~> child[c] \in {"listening", "dead"}

(* A restart that began its teardown ends: the old backend leaves.         *)
HandoffEnds == pc = "stamped" ~> pc = "gone"

(* webbuild.ts on discardFrontend: when dist is missing, dist-prev is the   *)
(* last copy of the UI, and it only goes while dist is in place.           *)
LastCopyKept == [][dist = "none" /\ prev = "old" => prev' = "old" \/ dist' # "none"]_vars

(* restart.ts on StandbyChild: the caller can refuse or fail fast instead  *)
(* of waiting out the takeover timeout for a process that no longer exists.*)
NeverWaitsForTheDead == pc = "waiting" => cur \notin late

(***************************************************************************)
(* The restart implements the promise of Handoff.                          *)
(***************************************************************************)
Owner ==
  CASE \E c \in Children : Owning(c) -> "new"
    [] pc \in {"sent", "waiting", "leaving", "gone"} /\ ~\E c \in Children : Owning(c) -> "nobody"
    [] OTHER -> "old"

Promise == INSTANCE Handoff WITH owner <- Owner, stamp <- stamp
HandsOver == Promise!Spec
=============================================================================
