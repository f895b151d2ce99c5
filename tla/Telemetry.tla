----------------------------- MODULE Telemetry -----------------------------
(***************************************************************************)
(* TelemetryWatcher (server/telemetry.ts) over the snapshot of one session:*)
(* events of a directory watch, the polling it falls back to, the debounce *)
(* and the read that ends it. A snapshot is its version, 0 for a file that *)
(* is no snapshot; its time of modification may not tell two writes of one *)
(* millisecond apart.                                                      *)
(***************************************************************************)
EXTENDS Naturals

CONSTANTS MaxVersion,  \* snapshots written here
          NoFile       \* no file, no time, nothing shown

VARIABLES
  snapshot,  \* the file: its version and time
  instant,   \* the version and time of the latest write, and whether its
             \* millisecond still lasts
  watching,  \* #watcher is set; otherwise #poll is
  event,     \* an event of the watch has not been handled
  debounce,  \* a timer of #debounce is armed
  seen,      \* #seen
  shown      \* the version of the last onChange

teleVars == <<snapshot, instant, watching, event, debounce, seen, shown>>

TelemetryTypeOK ==
  /\ snapshot \in [version : 0..MaxVersion, mtime : 0..MaxVersion] \cup {NoFile}
  /\ instant \in [version : 0..MaxVersion, mtime : 0..MaxVersion, now : BOOLEAN]
  /\ watching \in BOOLEAN /\ event \in BOOLEAN /\ debounce \in BOOLEAN
  /\ seen \in 0..MaxVersion \cup {NoFile} /\ shown \in 1..MaxVersion \cup {NoFile}

(* start: a directory that cannot be watched is polled.                    *)
TelemetryInit ==
  /\ snapshot = NoFile /\ instant = [version |-> 0, mtime |-> 0, now |-> FALSE]
  /\ watching \in BOOLEAN /\ event = FALSE /\ debounce = FALSE /\ seen = NoFile /\ shown = NoFile

(* The script renames a finished file into place; the file is deleted with *)
(* its session.                                                            *)
Rewritten(good) ==
  /\ instant.version < MaxVersion
  /\ \E t \in {instant.mtime, instant.mtime + 1} :
       /\ t = instant.mtime => instant.now
       /\ instant' = [version |-> instant.version + 1, mtime |-> t, now |-> TRUE]
       /\ snapshot' = [version |-> IF good THEN instant'.version ELSE 0, mtime |-> t]
  /\ event' = watching
  /\ UNCHANGED <<watching, debounce, seen, shown>>
Deleted == /\ snapshot # NoFile /\ snapshot' = NoFile /\ event' = watching
           /\ UNCHANGED <<instant, watching, debounce, seen, shown>>

(* watcher.on('error'): what it had not reported is lost, and #startPolling.*)
WatchDies == /\ watching /\ watching' = FALSE /\ event' = FALSE
             /\ UNCHANGED <<snapshot, instant, debounce, seen, shown>>

(* The watch's callback: #schedule.                                        *)
Event == /\ event /\ event' = FALSE /\ debounce' = TRUE
         /\ UNCHANGED <<snapshot, instant, watching, seen, shown>>

(* Mutant of PollOnce: what is new is read at once.                        *)
PollReads ==
  /\ ~watching
  /\ IF snapshot = NoFile THEN seen' = NoFile /\ UNCHANGED shown
     ELSE /\ seen' = snapshot.mtime
          /\ shown' = IF seen # snapshot.mtime /\ snapshot.version > 0 THEN snapshot.version ELSE shown
  /\ UNCHANGED <<snapshot, instant, watching, event, debounce>>
(* #pollOnce: a time that is not the one seen, and #schedule; an id whose  *)
(* file is gone is forgotten.                                              *)
PollOnce ==
  /\ ~watching
  /\ IF snapshot = NoFile THEN seen' = NoFile /\ UNCHANGED debounce
     ELSE /\ seen' = snapshot.mtime
          /\ debounce' = (debounce \/ seen # snapshot.mtime)
  /\ UNCHANGED <<snapshot, instant, watching, event, shown>>

(* The debounce ends, long after the millisecond: #deliver and #read.      *)
Deliver ==
  /\ debounce /\ debounce' = FALSE
  /\ instant' = [instant EXCEPT !.now = FALSE]
  /\ shown' = IF snapshot # NoFile /\ snapshot.version > 0 THEN snapshot.version ELSE shown
  /\ UNCHANGED <<snapshot, watching, event, seen>>

TelemetryNext ==
  \/ \E good \in BOOLEAN : Rewritten(good)
  \/ Deleted \/ WatchDies \/ Event \/ PollOnce \/ Deliver

(* Timers fire and the watch reports.                                      *)
Fairness == WF_teleVars(Event) /\ WF_teleVars(PollOnce) /\ WF_teleVars(Deliver)
TelemetrySpec == TelemetryInit /\ [][TelemetryNext]_teleVars /\ Fairness
-----------------------------------------------------------------------------
(* What is shown becomes the snapshot that stays on disk, however its last *)
(* writes fell into one millisecond, whatever the watch lost when it died, *)
(* and although a file may have come back under a time already seen.       *)
Shown == snapshot # NoFile /\ snapshot.version > 0 => shown = snapshot.version
SnapshotIsShown == <>[]Shown
=============================================================================
