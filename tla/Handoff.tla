------------------------------ MODULE Handoff ------------------------------
(***************************************************************************)
(* What a restart promises about the data directory, whatever becomes of   *)
(* the two processes: it is the old backend's, then nobody's, then the new *)
(* backend's, never two at once; and the sessions the old backend ran are  *)
(* stamped once, 'crash' only by a successor that found them unstamped.    *)
(***************************************************************************)
VARIABLES
  owner,  \* the process that may write the data directory
  stamp   \* how the history says the old backend's sessions ended

handoffVars == <<owner, stamp>>

Init == owner = "old" /\ stamp = "live"

(* The old backend ends its sessions, on the way out.                      *)
EndSessions == owner = "old" /\ stamp = "live" /\ stamp' = "shutdown" /\ UNCHANGED owner

(* The old backend lets go, in good order or not.                          *)
Yield == owner = "old" /\ owner' = "nobody" /\ UNCHANGED stamp
EndAndYield == owner = "old" /\ stamp = "live" /\ stamp' = "shutdown" /\ owner' = "nobody"

(* The new backend takes over and closes what was left open.               *)
Take ==
  /\ owner = "nobody" /\ owner' = "new"
  /\ stamp' = IF stamp = "live" THEN "crash" ELSE stamp

(* The new backend ends.                                                   *)
Drop == owner = "new" /\ owner' = "nobody" /\ UNCHANGED stamp

Next == EndSessions \/ Yield \/ EndAndYield \/ Take \/ Drop

Spec == Init /\ [][Next]_handoffVars
=============================================================================
