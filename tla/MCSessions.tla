----------------------------- MODULE MCSessions -----------------------------
EXTENDS Sessions, TLC

(* Every report the poll can make about one session.                       *)
AllReports == [agents : {"none", "running", "finished"},
               turn : {"unknown", "working", "waiting"}]
AllOutputs == [bell : BOOLEAN, title : {"none", "idle", "busy"}]

(* Sessions differ only in what happens to them.                           *)
Symmetry == Permutations(Sids)
=============================================================================
