------------------------------- MODULE History -------------------------------
(***************************************************************************)
(* The session history of server/history.ts, as operations on one value:   *)
(* `h' maps every possible entry key to the entry stored under it.  The    *)
(* file history.json is rewritten by every operation and is not told apart *)
(* from the memory of the process here.                                    *)
(***************************************************************************)
EXTENDS Naturals, FiniteSets

CONSTANTS
  Sids,        \* app session ids; randomUUID() never returns one twice
  Convs,       \* conversation ids a client can name in --resume/--session-id
  NoSid,       \* the session of an entry that is not stored
  HistoryMax   \* HISTORY_MAX: entries kept, the oldest ended ones dropped

ASSUME HistoryAssumption == NoSid \notin Sids /\ HistoryMax \in Nat

(* An entry is keyed by the conversation it continues.  A launch without a *)
(* conversation of its own is keyed by its session id, which is also the   *)
(* id injected as --session-id.                                            *)
Keys == Sids \cup Convs

Reasons == {"exit", "user-kill", "shutdown", "crash"}

(* `used' orders the entries by lastUsedAt.                                *)
Entry == [sid : Sids \cup {NoSid}, ended : Reasons \cup {"live", "absent"}, used : Nat]

NoEntry == [sid |-> NoSid, ended |-> "absent", used |-> 0]

(* Mutant of LoadedHistory: load({ readOnly }) where entries must be stamped. *)
LoadedUnstamped(old) ==
  [k \in Keys |-> IF k \in old THEN [NoEntry EXCEPT !.ended = "live"] ELSE NoEntry]

(* load at boot: the entries of earlier runs under the keys `old', those   *)
(* still live stamped 'crash'.  Their sessions are gone, hence NoSid.      *)
LoadedHistory(old) ==
  [k \in Keys |-> IF k \in old THEN [sid |-> NoSid, ended |-> "crash", used |-> 0]
                  ELSE NoEntry]

Stored(h) == {k \in Keys : h[k].ended # "absent"}
Ended(h)  == {k \in Keys : h[k].ended \in Reasons}

(* The entries #enforceBound drops: the oldest ended ones beyond the bound.*)
(* Entries used at the same time go in file order, which is not modelled.  *)
Surplus(h) ==
  LET over == Cardinality(Stored(h)) - HistoryMax
  IN  IF over <= 0 THEN {}
      ELSE CHOOSE D \in SUBSET Ended(h) :
             /\ Cardinality(D) = IF over < Cardinality(Ended(h)) THEN over
                                 ELSE Cardinality(Ended(h))
             /\ \A d \in D, e \in Ended(h) \ D : h[d].used <= h[e].used

(* Mutant of EnforceBound: the oldest entries go, live or not.             *)
EnforceBoundOnAll(h) ==
  LET Older(k) == {j \in Stored(h) : h[j].used < h[k].used}
  IN  [k \in Keys |-> IF Cardinality(Older(k)) + HistoryMax < Cardinality(Stored(h))
                        THEN NoEntry ELSE h[k]]

(* #enforceBound: a live entry is never dropped, however many there are.   *)
EnforceBound(h) ==
  [k \in Keys |-> IF k \in Ended(h) /\ k \in Surplus(h) THEN NoEntry ELSE h[k]]

(* recordCreate: a resume updates its entry in place, a new key is stored  *)
(* and the bound enforced.                                                 *)
RecordCreate(h, key, s, now) ==
  LET launched == [h EXCEPT ![key] = [sid |-> s, ended |-> "live", used |-> now]]
  IN  IF key \in Stored(h) THEN launched ELSE EnforceBound(launched)

(* Mutant of MarkEnded: the last stamp wins.                               *)
MarkEndedAgain(h, s, why) ==
  [k \in Keys |-> IF h[k].sid = s THEN [h[k] EXCEPT !.ended = why] ELSE h[k]]

(* markEnded: first stamp wins, and only on the entry that still names     *)
(* this session; the launch of a later session took the entry over.        *)
MarkEnded(h, s, why) ==
  [k \in Keys |-> IF h[k].sid = s /\ h[k].ended = "live"
                    THEN [h[k] EXCEPT !.ended = why] ELSE h[k]]

(* endAllLive, and the stamping pass of load() with reason 'crash'.        *)
EndAllLive(h, why) ==
  [k \in Keys |-> IF h[k].ended = "live" THEN [h[k] EXCEPT !.ended = why] ELSE h[k]]

(* forget, forgetAllEnded and the prune of list(): only ended entries go.  *)
Forget(h, gone) ==
  [k \in Keys |-> IF k \in gone /\ k \in Ended(h) THEN NoEntry ELSE h[k]]
=============================================================================
