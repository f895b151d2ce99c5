----------------------------- MODULE MCBackend -----------------------------
(***************************************************************************)
(* What decides how long a session, a backend and a version live: the      *)
(* session manager under its routes (EXTENDS), the lifecycle controller,   *)
(* the update and the restart.  The four share no variable, so a behaviour *)
(* is one of them at work and the others at rest in their initial states.  *)
(***************************************************************************)
EXTENDS SessionApi

CONSTANTS Viewers, MaxVersion, MaxBoots, MaxSetups, Crashes, Children, NoChild

VARIABLES
  process, presence, attached, ever, timer, stopped, socket, update,
  life, mine, restart, ctl, dir, stage, win, current,
  pc, crashed, resp, cur, swapped, child, late, known, doomed, go, dist, next, prev,
  runtime, port, stamp, running,
  atWork  \* the machine of this behaviour

Idle == INSTANCE Lifecycle WITH Clients <- Viewers, sock <- socket
Updates == INSTANCE Update
Restarts == INSTANCE Restart

ASSUME BackendAssumption == Updates!UpdateBounds /\ Restarts!RestartAssumption

idleVars == <<process, presence, attached, ever, timer, stopped, socket, update>>
updateVars == <<life, mine, restart, ctl, dir, stage, win, current>>
restartVars == <<pc, crashed, resp, cur, swapped, child, late, known, doomed, go, dist, next, prev,
                 runtime, port, stamp, running>>
MCVars == <<apiVars, idleVars, updateVars, restartVars, atWork>>

MCInit ==
  /\ atWork \in {"sessions", "lifecycle", "update", "restart"}
  /\ ApiInit /\ (atWork # "sessions" => hist = LoadedHistory({}))
  /\ Idle!Init /\ Updates!Init /\ Restarts!Init /\ (atWork # "restart" => dist = "old")

MCNext ==
  /\ UNCHANGED atWork
  /\ \/ /\ atWork = "sessions" /\ ApiNext
        /\ UNCHANGED <<idleVars, updateVars, restartVars>>
     \/ /\ atWork = "lifecycle" /\ Idle!Next
        /\ UNCHANGED <<apiVars, updateVars, restartVars>>
     \/ /\ atWork = "update" /\ Updates!Next
        /\ UNCHANGED <<apiVars, idleVars, restartVars>>
     \/ /\ atWork = "restart" /\ Restarts!Next
        /\ UNCHANGED <<apiVars, idleVars, updateVars>>

(* The fairness of each machine, asked of it when it is at work.           *)
On(machine, action) == atWork = machine /\ action
MCSpec ==
  /\ MCInit /\ [][MCNext]_MCVars
  /\ \A s \in Sids : /\ WF_vars(On("sessions", TermFires(s))) /\ WF_vars(On("sessions", KillFires(s)))
  /\ WF_idleVars(On("lifecycle", Idle!Listen)) /\ WF_idleVars(On("lifecycle", Idle!GraceExpires))
  /\ WF_idleVars(On("lifecycle", Idle!CeilingPasses))
  /\ \A b \in 1..MaxBoots : WF_updateVars(On("update", Updates!Pipeline(b)))
  /\ WF_restartVars(On("restart", Restarts!StandbyFails \/ Restarts!StandbyReports))
  /\ WF_restartVars(On("restart", Restarts!FoundDeadBeforeSwap \/ Restarts!ParentSwaps))
  /\ WF_restartVars(On("restart", Restarts!FoundDeadBeforeTeardown \/ Restarts!ParentTearsDown))
  /\ WF_restartVars(On("restart", Restarts!GoThrows \/ Restarts!SendGo \/ Restarts!Commit))
  /\ WF_restartVars(On("restart", Restarts!ChildIsHealthy \/ Restarts!WaitTimesOut))
  /\ WF_restartVars(On("restart", Restarts!Leave))
  /\ \A c \in Children :
       /\ WF_restartVars(On("restart", Restarts!ChildReports(c))) /\ WF_restartVars(On("restart", Restarts!ChildListens(c)))
       /\ WF_restartVars(On("restart", Restarts!ChildTakes(c) \/ Restarts!ChildTimesOut(c)))
-----------------------------------------------------------------------------
TypesOK == ApiTypeOK /\ Idle!TypeOK /\ Updates!TypeOK /\ Restarts!TypeOK

(* Sockets are counted exactly, the grace is armed exactly while nothing   *)
(* holds the backend, and it ends no backend that is held by a window or   *)
(* by an update within the ceiling.                                        *)
IdleExitIsRight ==
  [](Idle!CountersExact /\ Idle!TimerWhenIdle) /\ Idle!NoIdleExitWhileHeld

(* Windows executes only what matched the release's sums, a backend keeps  *)
(* the flight of a Setup for as long as that Setup runs, and refuses a     *)
(* press for no other reason.                                              *)
UpdateIsSound == Updates!OnlyVerifiedRuns /\ Updates!HeldUntilExit /\ Updates!RefusesForAReason

(* A refused restart leaves no trace, the screens are never lost, and new  *)
(* screens come with the new backend only.                                 *)
ScreensFollowTheBackend ==
  Restarts!RefusalChangesNothing /\ Restarts!ScreensNeverLost /\ Restarts!ChildServesNewScreens

(* The record of a handoff is true: what is stamped a crash was one, a     *)
(* listening child is the one runtime.json names, a 202 means it was done. *)
HandoffIsHonest ==
  Restarts!CrashStampIsHonest /\ Restarts!ListeningChildIsDiscoverable /\ Restarts!AcceptedMeansHandedOver

(* The restart implements Handoff: one owner of the data directory at a    *)
(* time.                                                                   *)
HandsOver == Restarts!HandsOver

(* What is over goes: the whole process group of a deleted session, a      *)
(* backend that everybody left, an update's hold on the process, a         *)
(* replacement in standby, a handoff under way.                            *)
NothingLingers ==
  /\ atWork = "sessions" => DeletedGroupEnds
  /\ atWork = "lifecycle" => Idle!IdleBackendStops
  /\ atWork = "update" => Updates!WorkEnds
  /\ atWork = "restart" => Restarts!NoStandbyLingers /\ Restarts!HandoffEnds
=============================================================================
