---------------------------- MODULE FoldersProofs ----------------------------
(***************************************************************************)
(* The safety of machines of MCFolders for every value of their constants. *)
(* A machine is addressed by the name it has in MCFolders.                 *)
(***************************************************************************)
EXTENDS MCFolders, FiniteSetTheorems, SequenceTheorems, TLAPS

-----------------------------------------------------------------------------
(***************************************************************************)
(* New project folders                                                     *)
(***************************************************************************)

WorkRecords ==
  [op : {"github", "plain", "init"}, dest : Dests, existed : BOOLEAN, ownerMade : BOOLEAN,
   git : {"none", "waiting", "writing", "over"}, made : BOOLEAN, ok : BOOLEAN, step : {"git", "done"}]
CloneTypes ==
  /\ owner \in BOOLEAN /\ listed \subseteq Dests
  /\ dest \in [Dests -> {"absent", "empty", "partial", "whole"}]
  /\ work \in Seq(WorkRecords)

(* The inductive invariant: a folder in the owner's is in the owner's; what*)
(* a request under way may take away is no project's; one whose git went   *)
(* well has its folder, no half; and no two are under way for one folder.  *)
CloneInv ==
  /\ CloneTypes
  /\ \A d \in Dests : dest[d] # "absent" => owner
  /\ \A d \in listed : dest[d] # "absent"
  /\ \A r \in Clones!At("git") :
       /\ work[r].made \/ ~work[r].existed => work[r].dest \notin listed
       /\ work[r].ok => work[r].git = "over" /\ dest[work[r].dest] \in {"empty", "whole"}
  /\ \A r, q \in Clones!At("git") : work[r].dest = work[q].dest => r = q
  /\ Clones!FailuresAreUndone

LEMMA CloneInitially == Clones!Init => CloneInv
BY DEF Clones!Init, CloneInv, CloneTypes, Clones!At, Clones!Requests, Clones!FailuresAreUndone, Clones!Vacant,
       Clones!Absent

(* A request that begins in a vacant folder nobody is at work in.          *)
LEMMA BeginStep ==
  ASSUME CloneInv, NEW op \in {"github", "plain", "init"}, NEW d \in Dests, Exclusive, Clones!Starts(op, d),
         NEW w \in WorkRecords, w.dest = d, w.existed = (dest[d] # "absent"), ~w.made, w.step = "git",
         owner' = TRUE, work' = Append(work, w), listed' = listed,
         \/ dest' = dest /\ ~w.ok
         \/ dest' = [dest EXCEPT ![d] = "empty"] /\ (w.ok => w.git = "over")
  PROVE  CloneInv'
<1>1. /\ work \in Seq(WorkRecords) /\ work' \in Seq(WorkRecords) /\ Len(work') = Len(work) + 1
      /\ \A i \in 1..Len(work) : work'[i] = work[i]
      /\ work'[Len(work) + 1] = w /\ Len(work) \in Nat
  BY DEF CloneInv, CloneTypes
<1> DEFINE new == Len(work) + 1
<1>2. /\ Clones!Requests' = Clones!Requests \cup {new} /\ new \notin Clones!Requests
      /\ Clones!Requests = 1..Len(work)
  BY <1>1 DEF Clones!Requests
<1>3. Clones!At("git")' = Clones!At("git") \cup {new} /\ new \notin Clones!At("git")
  BY <1>1, <1>2 DEF Clones!At
<1>4. \A r \in Clones!At("git") : work[r].dest # d /\ work'[r] = work[r] /\ r \in Clones!Requests
  BY <1>1, <1>2 DEF Clones!Starts, Clones!Busy, Clones!At
<1>5. CloneTypes'
  BY <1>1 DEF CloneInv, CloneTypes
<1>6. dest' \in [Dests -> {"absent", "empty", "partial", "whole"}] /\ dest \in [Dests -> {"absent", "empty", "partial", "whole"}]
      /\ (\A e \in Dests \ {d} : dest'[e] = dest[e]) /\ dest'[d] \in {dest[d], "empty"}
      /\ dest[d] \in {"absent", "empty"} /\ (w.ok => dest'[d] = "empty")
  BY <1>5 DEF CloneInv, CloneTypes, Clones!Starts, Clones!Vacant
<1>7. \A e \in listed' : dest'[e] # "absent"
  BY <1>6 DEF CloneInv, CloneTypes
<1>8. ASSUME NEW r \in Clones!At("git")'
      PROVE  /\ work'[r].made \/ ~work'[r].existed => work'[r].dest \notin listed'
             /\ work'[r].ok => work'[r].git = "over" /\ dest'[work'[r].dest] \in {"empty", "whole"}
  <2>1. CASE r = new
    <3>1. work'[r] = w /\ (~w.existed => dest[d] = "absent")
      BY <1>1, <2>1 DEF WorkRecords
    <3>2. d \in listed => dest[d] # "absent"
      BY DEF CloneInv
    <3> QED BY <3>1, <3>2, <1>6
  <2>2. CASE r \in Clones!At("git")
    <3>1. work'[r] = work[r] /\ work[r].dest # d /\ work[r] \in WorkRecords
      BY <1>1, <1>2, <1>4, <2>2
    <3>2. dest'[work[r].dest] = dest[work[r].dest]
      BY <3>1, <1>6 DEF WorkRecords
    <3> QED BY <2>2, <3>1, <3>2 DEF CloneInv
  <2> QED BY <1>3, <2>1, <2>2
<1>9. \A r, q \in Clones!At("git")' : work'[r].dest = work'[q].dest => r = q
  <2>1. \A r \in Clones!At("git") : work'[r] = work[r] /\ work'[r].dest # work'[new].dest
    BY <1>1, <1>4
  <2>2. \A r, q \in Clones!At("git") : work'[r].dest = work'[q].dest => r = q
    BY <2>1 DEF CloneInv
  <2> HIDE DEF new
  <2> QED BY <1>3, <2>1, <2>2
<1>10. Clones!FailuresAreUndone'
  <2> SUFFICES ASSUME NEW e \in Dests, dest'[e] = "partial", ~Clones!Busy(e)'
               PROVE  \E r \in Clones!Requests' : work'[r].dest = e /\ work'[r].existed
    BY DEF Clones!FailuresAreUndone
  <2>1. e # d /\ dest[e] = "partial"
    BY <1>6
  <2>2. ~Clones!Busy(e)
    BY <1>1, <1>2 DEF Clones!Busy
  <2> QED BY <2>1, <2>2, <1>1, <1>2 DEF CloneInv, Clones!FailuresAreUndone
<1> QED BY <1>5, <1>7, <1>8, <1>9, <1>10 DEF CloneInv

(* A request goes on, alone at its folder: what has to be seen of its own  *)
(* folder, everything else being as it was.                                *)
LEMMA GoesOnStep ==
  ASSUME CloneInv, NEW r \in Clones!At("git"), NEW w \in WorkRecords, Clones!Upd(r, w),
         NEW d, d = work[r].dest, w.dest = d, w.existed = work[r].existed,
         dest' \in [Dests -> {"absent", "empty", "partial", "whole"}], owner' \in BOOLEAN,
         listed' \subseteq listed \cup {d}, d \in listed' => dest'[d] # "absent",
         \A e \in Dests : e # d => dest'[e] = dest[e],
         \A e \in Dests : dest'[e] # "absent" => owner',
         w.step = "git" =>
           /\ w.made \/ ~w.existed => d \notin listed'
           /\ w.ok => w.git = "over" /\ dest'[d] \in {"empty", "whole"},
         w.step = "done" /\ dest'[d] = "partial" => w.existed
  PROVE  CloneInv'
<1>1. /\ work \in Seq(WorkRecords) /\ r \in 1..Len(work) /\ work' = [work EXCEPT ![r] = w]
      /\ Clones!Requests = 1..Len(work) /\ work[r] \in WorkRecords /\ d \in Dests /\ work[r].step = "git"
  <2>1. /\ work \in Seq(WorkRecords) /\ r \in 1..Len(work) /\ work' = [work EXCEPT ![r] = w]
        /\ Clones!Requests = 1..Len(work) /\ work[r].step = "git"
    BY DEF CloneInv, CloneTypes, Clones!At, Clones!Requests, Clones!Upd
  <2>2. work[r] \in WorkRecords
    BY <2>1
  <2> QED BY <2>1, <2>2 DEF WorkRecords
<1>2. /\ work' \in Seq(WorkRecords) /\ Clones!Requests' = Clones!Requests
      /\ work'[r] = w /\ \A q \in Clones!Requests : q # r => work'[q] = work[q]
  BY <1>1 DEF Clones!Requests
<1>3. /\ Clones!At("git")' \subseteq Clones!At("git")
      /\ r \in Clones!At("git")' => w.step = "git"
      /\ \A q \in Clones!At("git") : q \in Clones!Requests /\ (q # r => work[q].dest # d /\ work[q].dest \in Dests)
  <2>1. \A q \in Clones!At("git") : q # r => work[q].dest # d
    BY DEF CloneInv
  <2>2. \A q \in Clones!Requests : work[q] \in WorkRecords
    BY <1>1
  <2>3. \A q \in Clones!Requests : work[q].dest \in Dests
    BY <2>2 DEF WorkRecords
  <2> QED BY <1>1, <1>2, <2>1, <2>3 DEF Clones!At
<1>4. CloneTypes'
  BY <1>1, <1>2 DEF CloneInv, CloneTypes
<1>5. \A e \in listed' : dest'[e] # "absent"
  BY <1>1 DEF CloneInv, CloneTypes
<1>6. ASSUME NEW q \in Clones!At("git")'
      PROVE  /\ work'[q].made \/ ~work'[q].existed => work'[q].dest \notin listed'
             /\ work'[q].ok => work'[q].git = "over" /\ dest'[work'[q].dest] \in {"empty", "whole"}
  <2>1. CASE q = r
    BY <1>2, <1>3, <2>1
  <2>2. CASE q # r
    <3>1. work'[q] = work[q] /\ work[q].dest # d /\ work[q].dest \in Dests /\ q \in Clones!At("git")
      BY <1>2, <1>3, <2>2
    <3> QED BY <3>1 DEF CloneInv
  <2> QED BY <2>1, <2>2
<1>7. \A p, q \in Clones!At("git")' : work'[p].dest = work'[q].dest => p = q
  <2>1. \A q \in Clones!At("git")' : q \in Clones!At("git") /\ work'[q].dest = work[q].dest
    BY <1>2, <1>3
  <2> QED BY <2>1 DEF CloneInv
<1>8. Clones!FailuresAreUndone'
  <2> SUFFICES ASSUME NEW e \in Dests, dest'[e] = "partial", ~Clones!Busy(e)'
               PROVE  \E q \in Clones!Requests' : work'[q].dest = e /\ work'[q].existed
    BY DEF Clones!FailuresAreUndone
  <2>1. CASE e = d
    <3>1. w.step = "done"
      BY <1>1, <1>2, <2>1 DEF Clones!Busy, WorkRecords
    <3> QED BY <1>1, <1>2, <2>1, <3>1
  <2>2. CASE e # d
    <3>1. ~Clones!Busy(e)
      BY <1>1, <1>2, <2>2 DEF Clones!Busy
    <3>2. PICK q \in Clones!Requests : work[q].dest = e /\ work[q].existed
      BY <2>2, <3>1 DEF CloneInv, Clones!FailuresAreUndone
    <3> QED BY <1>1, <1>2, <2>2, <3>2
  <2> QED BY <2>1, <2>2
<1> QED BY <1>4, <1>5, <1>6, <1>7, <1>8 DEF CloneInv

(* undoOurDirs, of a request that is over without a project: its folder is *)
(* no project's, or is not touched, and the owner's goes only when empty.  *)
LEMMA UndoStep ==
  ASSUME CloneInv, NEW r \in Clones!At("git"), Clones!Undoes(work[r]), Clones!Ends(r), listed' = listed
  PROVE  CloneInv'
<1> DEFINE w == [work[r] EXCEPT !.step = "done", !.git = "over"]
           d == work[r].dest
           after == Clones!DestsAfterUndo(work[r])
<1>1. /\ work \in Seq(WorkRecords) /\ r \in 1..Len(work) /\ work[r] \in WorkRecords
      /\ Clones!Upd(r, w)
  BY DEF CloneInv, CloneTypes, Clones!At, Clones!Requests, Clones!Ends
<1>2. w \in WorkRecords /\ d \in Dests /\ w.dest = d /\ w.existed = work[r].existed /\ w.step = "done"
  BY <1>1 DEF WorkRecords
<1>3. /\ dest' = after /\ owner' \in BOOLEAN /\ after \in [Dests -> {"absent", "empty", "partial", "whole"}]
      /\ owner' = (owner /\ ~(work[r].ownerMade /\ \A e \in Dests : after[e] = "absent"))
  BY <1>2 DEF Clones!Undoes, Clones!DestsAfterUndo, Clones!Absent, CloneInv, CloneTypes
<1>4. /\ \A e \in Dests : e # d => after[e] = dest[e]
      /\ ~w.existed => after[d] = "absent" /\ d \notin listed
      /\ w.existed => after = dest
  BY <1>2 DEF Clones!DestsAfterUndo, Clones!Absent, CloneInv, CloneTypes
<1>5. \A e \in Dests : after[e] # "absent" => owner'
  BY <1>2, <1>3, <1>4 DEF CloneInv
<1>6. /\ d \in listed' => dest'[d] # "absent"
      /\ w.step = "done" /\ dest'[d] = "partial" => w.existed
  BY <1>3, <1>4 DEF CloneInv
<1> HIDE DEF w, d, after
<1> QED BY <1>1, <1>2, <1>3, <1>4, <1>5, <1>6, GoesOnStep DEF d

LEMMA GitBeginsStep == ASSUME CloneInv, Clones!GitBegins PROVE CloneInv'
<1>1. PICK r \in Clones!At("git") :
        /\ work[r].git = "waiting" /\ listed' = listed
        /\ \/ /\ dest[work[r].dest] \in {"absent", "empty"}
              /\ owner' = TRUE /\ dest' = [dest EXCEPT ![work[r].dest] = "partial"]
              /\ Clones!Upd(r, [work[r] EXCEPT !.git = "writing", !.made = dest[work[r].dest] = "absent"])
           \/ Clones!Upd(r, [work[r] EXCEPT !.git = "over"]) /\ UNCHANGED <<owner, dest>>
  BY DEF Clones!GitBegins, Clones!Vacant, Clones!Absent
<1> DEFINE d == work[r].dest
<1>2. /\ work \in Seq(WorkRecords) /\ r \in 1..Len(work) /\ work[r] \in WorkRecords
      /\ work[r].step = "git"
  BY DEF CloneInv, CloneTypes, Clones!At, Clones!Requests
<1>3. d \in Dests
  BY <1>2 DEF WorkRecords
<1>4. /\ work[r].made \/ ~work[r].existed => d \notin listed
      /\ ~work[r].ok
      /\ d \in listed => dest[d] # "absent"
  BY <1>1 DEF CloneInv
<1>5. CASE /\ dest[d] \in {"absent", "empty"}
           /\ owner' = TRUE /\ dest' = [dest EXCEPT ![d] = "partial"]
           /\ Clones!Upd(r, [work[r] EXCEPT !.git = "writing", !.made = dest[d] = "absent"])
  <2> DEFINE w == [work[r] EXCEPT !.git = "writing", !.made = dest[d] = "absent"]
  <2>1. w \in WorkRecords /\ w.dest = d /\ w.existed = work[r].existed /\ w.step = "git" /\ ~w.ok
    BY <1>2, <1>4 DEF WorkRecords
  <2>2. w.made = (dest[d] = "absent")
    BY <1>2 DEF WorkRecords
  <2>3. /\ dest' \in [Dests -> {"absent", "empty", "partial", "whole"}] /\ owner' \in BOOLEAN
        /\ dest'[d] # "absent" /\ \A e \in Dests : e # d => dest'[e] = dest[e]
    BY <1>3, <1>5 DEF CloneInv, CloneTypes
  <2>4. /\ w.made \/ ~w.existed => d \notin listed'
        /\ w.ok => w.git = "over" /\ dest'[d] \in {"empty", "whole"}
    BY <1>1, <1>4, <2>1, <2>2
  <2>5. /\ Clones!Upd(r, w) /\ listed' \subseteq listed \cup {d}
        /\ d \in listed' => dest'[d] # "absent"
        /\ \A e \in Dests : dest'[e] # "absent" => owner'
    BY <1>1, <1>5, <2>3
  <2> HIDE DEF w
  <2> QED BY <2>1, <2>3, <2>4, <2>5, GoesOnStep
<1>6. CASE Clones!Upd(r, [work[r] EXCEPT !.git = "over"]) /\ UNCHANGED <<owner, dest>>
  <2> DEFINE w == [work[r] EXCEPT !.git = "over"]
  <2>1. w \in WorkRecords /\ w.dest = d /\ w.existed = work[r].existed /\ w.step = "git" /\ ~w.ok
        /\ w.made = work[r].made
    BY <1>2, <1>4 DEF WorkRecords
  <2>2. /\ dest' \in [Dests -> {"absent", "empty", "partial", "whole"}] /\ owner' \in BOOLEAN
        /\ \A e \in Dests : dest'[e] # "absent" => owner'
    BY <1>6 DEF CloneInv, CloneTypes
  <2> HIDE DEF w
  <2> QED BY <1>1, <1>4, <1>6, <2>1, <2>2, GoesOnStep DEF w
<1> QED BY <1>1, <1>5, <1>6

LEMMA GitEndsStep == ASSUME CloneInv, Clones!GitEnds PROVE CloneInv'
<1>1. PICK r \in Clones!At("git"), ok \in BOOLEAN :
        /\ work[r].git = "writing" /\ (ok => dest[work[r].dest] # "absent")
        /\ dest' = [dest EXCEPT ![work[r].dest] =
                      IF ok THEN "whole"
                      ELSE IF work[r].op = "init" \/ dest[work[r].dest] = "absent" THEN dest[work[r].dest]
                      ELSE IF work[r].made THEN "absent" ELSE "empty"]
        /\ Clones!Upd(r, [work[r] EXCEPT !.git = "over", !.ok = ok])
        /\ UNCHANGED <<owner, listed>>
  BY DEF Clones!GitEnds, Clones!Absent
<1> DEFINE d == work[r].dest
           w == [work[r] EXCEPT !.git = "over", !.ok = ok]
<1>2. /\ work \in Seq(WorkRecords) /\ r \in 1..Len(work) /\ work[r] \in WorkRecords
      /\ work[r].step = "git"
  BY DEF CloneInv, CloneTypes, Clones!At, Clones!Requests
<1>3. /\ d \in Dests /\ w \in WorkRecords /\ w.dest = d /\ w.existed = work[r].existed /\ w.step = "git"
      /\ w.made = work[r].made /\ w.ok = ok /\ w.git = "over"
  BY <1>2 DEF WorkRecords
<1>4. /\ work[r].made \/ ~work[r].existed => d \notin listed
      /\ d \in listed => dest[d] # "absent"
      /\ dest[d] # "absent" => owner
  BY <1>3 DEF CloneInv
<1>5. /\ dest' \in [Dests -> {"absent", "empty", "partial", "whole"}]
      /\ \A e \in Dests : e # d => dest'[e] = dest[e]
      /\ ok => dest'[d] = "whole"
      /\ dest'[d] # "absent" => dest[d] # "absent"
      /\ dest'[d] = "absent" => dest[d] = "absent" \/ work[r].made
  BY <1>1, <1>3 DEF CloneInv, CloneTypes
<1>6. \A e \in Dests : dest'[e] # "absent" => owner'
  BY <1>1, <1>3, <1>5 DEF CloneInv
<1>7. /\ d \in listed' => dest'[d] # "absent"
      /\ listed' \subseteq listed \cup {d} /\ owner' \in BOOLEAN
      /\ w.made \/ ~w.existed => d \notin listed'
      /\ w.ok => w.git = "over" /\ dest'[d] \in {"empty", "whole"}
  BY <1>1, <1>3, <1>4, <1>5 DEF CloneInv, CloneTypes
<1>8. Clones!Upd(r, w)
  BY <1>1
<1> HIDE DEF w
<1> QED BY <1>3, <1>5, <1>6, <1>7, <1>8, GoesOnStep

LEMMA AnswersStep == ASSUME CloneInv, Clones!Answers PROVE CloneInv'
<1>1. PICK r \in Clones!At("git") :
        /\ work[r].git = "over" /\ Clones!Ends(r)
        /\ \/ work[r].ok /\ listed' = listed \cup {work[r].dest} /\ UNCHANGED <<owner, dest>>
           \/ Clones!Undoes(work[r]) /\ listed' = listed
  BY DEF Clones!Answers
<1>2. CASE work[r].ok /\ listed' = listed \cup {work[r].dest} /\ UNCHANGED <<owner, dest>>
  <2> DEFINE w == [work[r] EXCEPT !.step = "done", !.git = "over"]
  <2>1. /\ work \in Seq(WorkRecords) /\ r \in 1..Len(work) /\ work[r] \in WorkRecords
        /\ Clones!Upd(r, w)
    BY <1>1 DEF CloneInv, CloneTypes, Clones!At, Clones!Requests, Clones!Ends
  <2>2. w \in WorkRecords /\ w.dest = work[r].dest /\ w.existed = work[r].existed /\ w.step = "done"
    BY <2>1 DEF WorkRecords
  <2>3. /\ dest'[work[r].dest] \in {"empty", "whole"}
        /\ dest' \in [Dests -> {"absent", "empty", "partial", "whole"}] /\ owner' \in BOOLEAN
        /\ \A e \in Dests : dest'[e] # "absent" => owner'
    BY <1>2 DEF CloneInv, CloneTypes
  <2> HIDE DEF w
  <2> QED BY <1>2, <2>1, <2>2, <2>3, GoesOnStep
<1>3. CASE Clones!Undoes(work[r]) /\ listed' = listed
  BY <1>1, <1>3, UndoStep
<1> QED BY <1>1, <1>2, <1>3

LEMMA CloneStep == ASSUME CloneInv, Exclusive, [Clones!CloneNext]_(Clones!vars) PROVE CloneInv'
<1> USE DEF CloneTypes
<1>1. CASE UNCHANGED Clones!vars
  BY <1>1 DEF CloneInv, Clones!vars, Clones!At, Clones!Requests, Clones!FailuresAreUndone, Clones!Busy
<1>2. ASSUME NEW op \in {"github", "plain"}, NEW d \in Dests, Clones!CloneStarts(op, d)
      PROVE  CloneInv'
  <2> DEFINE w == Clones!Request(op, d, "waiting")
  <2>1. w \in WorkRecords /\ w.dest = d /\ w.existed = (dest[d] # "absent") /\ ~w.made /\ w.step = "git" /\ ~w.ok
    BY DEF Clones!Request, WorkRecords, Clones!Absent, CloneInv
  <2>2. /\ Clones!Starts(op, d) /\ owner' = TRUE /\ work' = Append(work, w)
        /\ dest' = dest /\ listed' = listed
    BY <1>2 DEF Clones!CloneStarts
  <2> HIDE DEF w
  <2> QED BY <2>1, <2>2, BeginStep
<1>3. ASSUME NEW d \in Dests, NEW gitInit \in BOOLEAN, Clones!FolderStarts(d, gitInit)
      PROVE  CloneInv'
  <2> DEFINE git == IF gitInit THEN "writing" ELSE "over"
             w == [Clones!Request("init", d, git) EXCEPT !.ok = ~gitInit]
  <2>1. /\ w \in WorkRecords /\ w.dest = d /\ w.existed = (dest[d] # "absent") /\ ~w.made /\ w.step = "git"
        /\ w.ok = (gitInit = FALSE) /\ w.git = git
    BY DEF Clones!Request, WorkRecords, Clones!Absent, CloneInv
  <2>2. w.ok => w.git = "over"
    BY <2>1
  <2>3. /\ Clones!Starts("init", d) /\ owner' = TRUE /\ work' = Append(work, w)
        /\ dest' = [dest EXCEPT ![d] = "empty"] /\ listed' = listed
    BY <1>3 DEF Clones!FolderStarts
  <2> HIDE DEF w
  <2> QED BY <2>1, <2>2, <2>3, BeginStep
<1>4. ASSUME Clones!TimesOut PROVE CloneInv'
  <2>1. PICK r \in Clones!At("git") : Clones!Ends(r) /\ Clones!Undoes(work[r]) /\ listed' = listed
    BY <1>4 DEF Clones!TimesOut
  <2> QED BY <2>1, UndoStep
<1>5. ASSUME NEW d \in Dests, Clones!Removes(d) PROVE CloneInv'
  <2>1. listed' = listed \ {d} /\ UNCHANGED <<owner, dest, work>>
    BY <1>5 DEF Clones!Removes
  <2>2. Clones!At("git")' = Clones!At("git") /\ Clones!FailuresAreUndone'
    BY <2>1 DEF CloneInv, Clones!At, Clones!Requests, Clones!FailuresAreUndone, Clones!Busy
  <2> QED BY <2>1, <2>2 DEF CloneInv
<1> QED BY <1>1, <1>2, <1>3, <1>4, <1>5, GitBeginsStep, GitEndsStep, AnswersStep DEF Clones!CloneNext

(* As long as nobody asks for a folder that is being made: however clones  *)
(* and new folders of one owner fail, time out and undo their work, a      *)
(* project on the list has its folder, and no half a repository is left.   *)
THEOREM ClonesUndoTheirOwn == ASSUME Exclusive PROVE Clones!CloneSpec => []ClonesAreUndoneAlone
<1>1. CloneInv => ClonesAreUndoneAlone
  BY DEF CloneInv, CloneTypes, ClonesAreUndoneAlone, Clones!ProjectsHaveTheirFolder, Clones!Absent
<1>2. ASSUME CloneInv, [Clones!CloneNext]_(Clones!vars) PROVE CloneInv'
  BY <1>2, CloneStep
<1> QED BY <1>1, <1>2, CloneInitially, PTL DEF Clones!CloneSpec

-----------------------------------------------------------------------------
(***************************************************************************)
(* Adding a project                                                        *)
(***************************************************************************)

NameValues == Places \cup {NoValue, "", "typed"}
Forms ==
  [shown : BOOLEAN, mode : {"blank", "clone"}, path : Places \cup {NoValue}, intent : {"create", "add"},
   probing : BOOLEAN, seq : Nat, name : NameValues, auto : NameValues \ {"typed"},
   sending : {"no", "blank", "clone"}]
ProjectWorks ==
  [verb : {"create", "add", "clone"}, path : Places, git : BOOLEAN, existed : BOOLEAN, at : {"asked", "git"}]

(* The inductive invariant: a pick that is not being looked at has the     *)
(* verb of its look; one request at a time is under way or answered, for   *)
(* the dialog waits even when it is closed and opened again; and git works *)
(* in a folder that is there.                                              *)
AddingInv ==
  /\ form \in Forms
  /\ there \in [Places -> {"missing", "empty", "full"}]
  /\ works \subseteq ProjectWorks
  /\ form.shown /\ form.path # NoValue /\ ~form.probing =>
       verdict # NoValue /\ (form.intent = "add" <=> verdict = "nonEmpty")
  /\ \A w \in works : works = {w} /\ replies = {} /\ form.sending # "no"
  /\ \A r \in replies : replies = {r} /\ form.sending # "no"
  /\ \A w \in works : w.at = "git" => there[w.path] # "missing"

AddingSafe ==
  /\ \A w \in Adding!Sent :
       w.path = form.path /\ verdict # NoValue /\ (w.verb = "add" <=> verdict = "nonEmpty")
  /\ \A w \in Adding!Failed : there'[w.path] # "missing"
  /\ form.name = "typed" /\ form.shown /\ form'.shown => form'.name = "typed"

LEMMA Typed == "typed" \notin Places \cup {NoValue}
BY FoldersAssumption DEF Adding!NamesApart

LEMMA BlankForm ==
  ASSUME NEW shown \in BOOLEAN, NEW m \in {"blank", "clone"}, NEW n \in Nat, NEW s \in {"no", "blank", "clone"}
  PROVE  [Adding!Blank EXCEPT !.shown = shown, !.mode = m, !.seq = n, !.sending = s] \in Forms
BY DEF Forms, Adding!Blank, NameValues

LEMMA AddingInitially == Adding!ProjectInit => AddingInv
<1> SUFFICES ASSUME Adding!ProjectInit PROVE AddingInv
  OBVIOUS
<1>1. form = Adding!Blank /\ ~form.shown
  BY DEF Adding!ProjectInit, Adding!Blank
<1>2. form \in Forms
  BY <1>1, Typed DEF Adding!Blank, Forms, NameValues
<1> QED BY <1>1, <1>2 DEF Adding!ProjectInit, AddingInv

(* What is done in the dialog and nowhere else.                            *)
LEMMA DialogStep ==
  ASSUME AddingInv, form' \in Forms, UNCHANGED <<there, works, replies>>, form'.sending = form.sending,
         form'.shown /\ form'.path # NoValue /\ ~form'.probing =>
           verdict' # NoValue /\ (form'.intent = "add" <=> verdict' = "nonEmpty"),
         form.name = "typed" /\ form.shown /\ form'.shown => form'.name = "typed"
  PROVE  AddingInv' /\ AddingSafe
<1>1. AddingInv'
  BY DEF AddingInv
<1>2. Adding!Sent = {} /\ Adding!Failed = {}
  BY DEF Adding!Sent, Adding!Failed
<1> QED BY <1>1, <1>2 DEF AddingSafe

LEMMA OpenStep ==
  ASSUME AddingInv, NEW m \in {"blank", "clone"}, Adding!open(m) PROVE AddingInv' /\ AddingSafe
<1>1. form \in Forms /\ UNCHANGED <<there, works, replies>>
  BY DEF AddingInv, Adding!open, Adding!server
<1>2. CASE form.shown
  <2>1. form' = [form EXCEPT !.mode = m] /\ verdict' = verdict
    BY <1>2 DEF Adding!open
  <2>2. form' \in Forms /\ \A f \in {"shown", "path", "probing", "intent", "name", "sending"} : form'[f] = form[f]
    BY <1>1, <2>1 DEF Forms
  <2> QED BY <1>1, <2>1, <2>2, DialogStep DEF AddingInv
<1>3. CASE ~form.shown
  <2>1. form' = [Adding!Blank EXCEPT !.shown = TRUE, !.mode = m, !.seq = form.seq + 1, !.sending = form.sending]
    BY <1>3 DEF Adding!open
  <2>2. form.seq + 1 \in Nat /\ form.sending \in {"no", "blank", "clone"}
    BY <1>1 DEF Forms
  <2>3. form'.path = NoValue /\ form'.sending = form.sending
    BY <2>1 DEF Adding!Blank
  <2>4. form' \in Forms
    BY <2>1, <2>2, BlankForm
  <2> QED BY <1>1, <1>3, <2>3, <2>4, DialogStep
<1> QED BY <1>2, <1>3

LEMMA FormStep ==
  ASSUME AddingInv, Adding!close \/ Adding!Types \/ \E p \in Places : Adding!Picks(p)
  PROVE  AddingInv' /\ AddingSafe
<1>1. form \in Forms /\ UNCHANGED <<there, works, replies>>
  BY DEF AddingInv, Adding!close, Adding!Types, Adding!Picks, Adding!server
<1>2. CASE Adding!close
  <2>1. form' \in Forms /\ ~form'.shown /\ form'.sending = form.sending
    BY <1>1, <1>2 DEF Adding!close, Forms
  <2> QED BY <1>1, <2>1, DialogStep
<1>3. CASE Adding!Types
  <2>1. form' = [form EXCEPT !.name = "typed"] /\ verdict' = verdict
    BY <1>3 DEF Adding!Types
  <2>2. /\ form' \in Forms /\ form'.name = "typed"
        /\ \A f \in {"shown", "path", "probing", "intent", "sending"} : form'[f] = form[f]
    BY <1>1, <2>1 DEF Forms, NameValues
  <2> QED BY <1>1, <2>1, <2>2, DialogStep DEF AddingInv
<1>4. ASSUME NEW p \in Places, Adding!Picks(p) PROVE AddingInv' /\ AddingSafe
  <2>1. form' = [form EXCEPT !.path = p, !.seq = form.seq + 1, !.intent = "create", !.probing = TRUE]
    BY <1>4 DEF Adding!Picks
  <2>2. form.seq + 1 \in Nat
    BY <1>1 DEF Forms
  <2> DEFINE n == form.seq + 1
  <2>3. n \in Nat /\ form' = [form EXCEPT !.path = p, !.seq = n, !.intent = "create", !.probing = TRUE]
    BY <2>1, <2>2
  <2> HIDE DEF n
  <2>4. /\ form' \in Forms /\ form'.probing
        /\ \A f \in {"shown", "name", "sending"} : form'[f] = form[f]
    BY <1>1, <2>3 DEF Forms
  <2> QED BY <1>1, <2>4, DialogStep
<1> QED BY <1>2, <1>3, <1>4

LEMMA LookStep ==
  ASSUME AddingInv, NEW r \in probes, Adding!Looks(r) \/ Adding!LookReturns(r)
  PROVE  AddingInv' /\ AddingSafe
<1>1. form \in Forms /\ UNCHANGED <<there, works, replies>>
  BY DEF AddingInv, Adding!Looks, Adding!LookReturns, Adding!server
<1>2. CASE form' = form /\ verdict' = verdict
  BY <1>1, <1>2, DialogStep DEF AddingInv
<1>3. CASE Adding!LookReturns(r) /\ r.seq = form.seq
  <2> DEFINE freed == [form EXCEPT !.probing = FALSE]
             decided == [freed EXCEPT !.intent = Adding!blankIntent(r.answer)]
  <2>1. /\ verdict' = r.answer /\ r.answer # NoValue
        /\ form' = IF form.shown THEN Adding!syncIntent(decided) ELSE freed
    BY <1>3 DEF Adding!LookReturns, Adding!IsLatest
  <2>2. /\ freed \in Forms /\ decided \in Forms
        /\ \A f \in {"shown", "path", "name", "auto", "sending"} : freed[f] = form[f] /\ decided[f] = form[f]
        /\ decided.intent = "add" <=> r.answer = "nonEmpty"
    BY <1>1 DEF Forms, Adding!blankIntent
  <2>3. CASE ~form.shown
    BY <1>1, <2>1, <2>2, <2>3, DialogStep
  <2>4. CASE form.shown
    <3> HIDE DEF decided
    <3> DEFINE named == [decided EXCEPT !.name = decided.path, !.auto = decided.path]
    <3>1. decided.path \in NameValues \ {"typed"}
      BY <2>2, Typed DEF Forms, NameValues
    <3>2. named \in Forms /\ \A f \in {"shown", "path", "intent", "sending"} : named[f] = decided[f]
      BY <2>2, <3>1 DEF Forms
    <3>3. form' \in {decided, named}
      BY <2>1, <2>4 DEF Adding!syncIntent
    <3>4. /\ form' \in Forms
          /\ \A f \in {"shown", "path", "intent", "sending"} : form'[f] = decided[f]
      BY <2>2, <3>2, <3>3
    <3>5. form.name = "typed" => form'.name = "typed"
      <4>1. form.auto # "typed"
        BY <1>1 DEF Forms
      <4> QED BY <2>1, <2>2, <2>4, <4>1 DEF Adding!syncIntent
    <3> QED BY <1>1, <2>1, <2>2, <3>4, <3>5, DialogStep
  <2> QED BY <2>3, <2>4
<1> QED BY <1>2, <1>3 DEF Adding!Looks, Adding!LookReturns, Adding!IsLatest

LEMMA SubmitStep ==
  ASSUME AddingInv, Adding!submitBlank \/ \E p \in Places : Adding!submitClone(p)
  PROVE  AddingInv' /\ AddingSafe
<1>1. PICK sending \in {"blank", "clone"}, w \in ProjectWorks :
        /\ form.sending = "no" /\ form' = [form EXCEPT !.sending = sending]
        /\ works' = works \cup {w} /\ w.at = "asked"
        /\ w.verb # "clone" =>
             w.path = form.path /\ verdict # NoValue /\ (w.verb = "add" <=> verdict = "nonEmpty")
        /\ UNCHANGED <<there, verdict, replies>>
  <2>1. CASE Adding!submitBlank
    <3>1. PICK git \in BOOLEAN : works' = works \cup {Adding!Work(form.intent, form.path, git)}
      BY <2>1 DEF Adding!submitBlank
    <3>2. form.shown /\ form.path # NoValue /\ ~form.probing /\ form.sending = "no"
      BY <2>1 DEF Adding!submitBlank, Adding!CanSubmit
    <3>3. verdict # NoValue /\ (form.intent = "add" <=> verdict = "nonEmpty")
      BY <3>2 DEF AddingInv
    <3> DEFINE w == Adding!Work(form.intent, form.path, git)
    <3>4. w \in ProjectWorks /\ w.path = form.path /\ w.verb = form.intent /\ w.at = "asked"
      BY <3>2 DEF AddingInv, Forms, ProjectWorks, Adding!Work
    <3>5. form' = [form EXCEPT !.sending = "blank"] /\ UNCHANGED <<there, verdict, replies>>
      BY <2>1 DEF Adding!submitBlank, Adding!Submit
    <3> HIDE DEF w
    <3> QED BY <3>1, <3>2, <3>3, <3>4, <3>5 DEF w
  <2>2. ASSUME NEW p \in Places, Adding!submitClone(p)
        PROVE  /\ form.sending = "no" /\ form' = [form EXCEPT !.sending = "clone"]
               /\ works' = works \cup {Adding!Work("clone", p, TRUE)}
               /\ Adding!Work("clone", p, TRUE) \in ProjectWorks
               /\ Adding!Work("clone", p, TRUE).at = "asked" /\ Adding!Work("clone", p, TRUE).verb = "clone"
               /\ UNCHANGED <<there, verdict, replies>>
    BY <2>2 DEF Adding!submitClone, Adding!CanSubmit, Adding!Submit, Adding!Work, ProjectWorks
  <2> QED BY <2>1, <2>2
<1>2. /\ form \in Forms /\ form' \in Forms /\ form'.sending # "no"
      /\ \A f \in {"shown", "path", "probing", "intent", "name"} : form'[f] = form[f]
  BY <1>1 DEF AddingInv, Forms
<1>3. works = {} /\ replies = {}
  BY <1>1 DEF AddingInv
<1>4. works' = {w} /\ replies' = {}
  BY <1>1, <1>3
<1>5. AddingInv'
  BY <1>1, <1>2, <1>4 DEF AddingInv
<1>6. AddingSafe
  BY <1>1, <1>2, <1>3, <1>4 DEF AddingSafe, Adding!Sent, Adding!Failed
<1> QED BY <1>5, <1>6

LEMMA ReturnStep ==
  ASSUME AddingInv, NEW r \in replies, Adding!Returns(r) PROVE AddingInv' /\ AddingSafe
<1>1. /\ UNCHANGED <<there, works, verdict>> /\ replies' = {} /\ works = {}
      /\ form' = [form EXCEPT !.sending = "no", !.shown = form.shown /\ ~r.ok]
  BY DEF AddingInv, Adding!Returns
<1>2. /\ form \in Forms /\ form' \in Forms
      /\ \A f \in {"path", "probing", "intent", "name"} : form'[f] = form[f]
  BY <1>1 DEF AddingInv, Forms
<1>3. form'.shown => form.shown
  <2>1. form'.shown = (form.shown /\ ~r.ok)
    BY <1>1, <1>2 DEF Forms
  <2> QED BY <2>1
<1>4. AddingInv'
  BY <1>1, <1>2, <1>3 DEF AddingInv
<1>5. AddingSafe
  BY <1>1, <1>2 DEF AddingSafe, Adding!Sent, Adding!Failed
<1> QED BY <1>4, <1>5

(* The backend answers the one request, or begins git in a folder it made  *)
(* sure of.                                                                *)
LEMMA ServeStep ==
  ASSUME AddingInv, NEW w \in works, Adding!Serves(w) PROVE AddingInv' /\ AddingSafe
<1>1. /\ works = {w} /\ w \in ProjectWorks /\ replies = {} /\ form.sending # "no" /\ form' = form
      /\ verdict' = verdict /\ there \in [Places -> {"missing", "empty", "full"}]
      /\ w.at = "git" => there[w.path] # "missing"
  BY DEF AddingInv, Adding!Serves
<1>2. w.path \in Places
  BY <1>1 DEF ProjectWorks
<1>3. CASE /\ \E ok \in BOOLEAN : Adding!Replies(w, ok)
           /\ there' \in [Places -> {"missing", "empty", "full"}]
           /\ w.at = "git" /\ w.existed => there'[w.path] # "missing"
  <2>1. PICK ok \in BOOLEAN : works' = {} /\ replies' = {[path |-> w.path, ok |-> ok]}
    BY <1>1, <1>3 DEF Adding!Replies
  <2>2. AddingInv'
    BY <1>1, <1>3, <2>1 DEF AddingInv
  <2>3. Adding!Sent = {} /\ \A v \in Adding!Failed : v = w /\ w.at = "git" /\ w.existed
    BY <1>1, <2>1 DEF Adding!Sent, Adding!Failed
  <2>4. AddingSafe
    BY <1>1, <1>3, <2>3 DEF AddingSafe
  <2> QED BY <2>2, <2>4
<1>4. CASE /\ w.at = "asked" /\ there' = [there EXCEPT ![w.path] = "empty"]
           /\ works' = (works \ {w}) \cup {[w EXCEPT !.existed = there[w.path] # "missing", !.at = "git"]}
           /\ UNCHANGED <<store, replies>>
  <2> DEFINE v == [w EXCEPT !.existed = there[w.path] # "missing", !.at = "git"]
  <2>1. v \in ProjectWorks /\ v.at = "git" /\ v.path = w.path
    BY <1>1 DEF ProjectWorks
  <2>2. works' = {v} /\ there'[v.path] = "empty" /\ there' \in [Places -> {"missing", "empty", "full"}]
    BY <1>1, <1>2, <1>4, <2>1
  <2> HIDE DEF v
  <2>3. AddingInv'
    BY <1>1, <1>4, <2>1, <2>2 DEF AddingInv
  <2>4. Adding!Sent = {} /\ Adding!Failed = {}
    BY <1>1, <1>4, <2>1, <2>2 DEF Adding!Sent, Adding!Failed
  <2> QED BY <1>1, <2>3, <2>4 DEF AddingSafe
<1>5. CASE Adding!AddsAsItIs(w)
  BY <1>1, <1>3, <1>5 DEF Adding!AddsAsItIs, Adding!Refuses, Adding!Registers
<1>6. CASE Adding!createLocalDir(w)
  <2>1. w.at = "asked"
    BY <1>6 DEF Adding!createLocalDir
  <2>2. CASE Adding!Refuses(w)
    BY <1>1, <1>3, <2>1, <2>2 DEF Adding!Refuses
  <2>3. CASE there' = [there EXCEPT ![w.path] = "empty"] /\ Adding!Registers(w)
    BY <1>1, <1>3, <2>1, <2>3 DEF Adding!Registers
  <2> QED BY <1>4, <1>6, <2>1, <2>2, <2>3 DEF Adding!createLocalDir
<1>7. CASE Adding!GitSucceeds(w)
  BY <1>1, <1>2, <1>3, <1>7 DEF Adding!GitSucceeds, Adding!Registers
<1>8. CASE Adding!GitFails(w)
  <2>1. PICK left \in {there[w.path], "full"} : there' = Adding!Undoes(w, left)
    BY <1>8 DEF Adding!GitFails
  <2>2. left \in {"empty", "full"} /\ w.at = "git" /\ Adding!Replies(w, FALSE)
    BY <1>1, <1>2, <1>8 DEF Adding!GitFails
  <2>3. /\ there' \in [Places -> {"missing", "empty", "full"}]
        /\ w.existed => there'[w.path] # "missing"
    BY <1>1, <1>2, <2>1, <2>2 DEF Adding!Undoes
  <2> QED BY <1>3, <2>2, <2>3
<1> QED BY <1>5, <1>6, <1>7, <1>8 DEF Adding!Serves

LEMMA OthersStep ==
  ASSUME AddingInv, NEW p \in Places, NEW what \in {"missing", "empty", "full"}, Adding!Others(p, what)
  PROVE  AddingInv' /\ AddingSafe
<1>1. /\ there' = [there EXCEPT ![p] = what] /\ UNCHANGED <<form, verdict, works, replies>>
      /\ \A w \in works : w.at = "git" => w.path # p
  BY DEF Adding!Others
<1>2. AddingInv'
  <2>1. \A w \in works : w.path \in Places
    BY DEF AddingInv, ProjectWorks
  <2> QED BY <1>1, <2>1 DEF AddingInv
<1>3. AddingSafe
  BY <1>1 DEF AddingSafe, Adding!Sent, Adding!Failed
<1> QED BY <1>2, <1>3

LEMMA AddingStep == ASSUME AddingInv, Adding!ProjectNext PROVE AddingInv' /\ AddingSafe
BY OpenStep, FormStep, LookStep, SubmitStep, ReturnStep, ServeStep, OthersStep DEF Adding!ProjectNext

(* However looks, answers, closings of the dialog and changes of the disk  *)
(* cross: the verb that is sent was picked by the look at this very pick,  *)
(* a typed name stays, and a request that fails takes away no folder that  *)
(* was there before it.                                                    *)
THEOREM AddsSafely == Adding!ProjectSpec => AddingIsSafe
<1>1. ASSUME AddingInv, [Adding!ProjectNext]_(Adding!projectVars)
      PROVE  AddingInv' /\ [AddingSafe]_(Adding!projectVars)
  <2>1. CASE UNCHANGED Adding!projectVars
    BY <1>1, <2>1 DEF AddingInv, Adding!projectVars
  <2> QED BY <1>1, <2>1, AddingStep
<1>2. [AddingSafe]_(Adding!projectVars) =>
        /\ [\A w \in Adding!Sent :
              w.path = form.path /\ verdict # NoValue /\ (w.verb = "add" <=> verdict = "nonEmpty")]_(Adding!projectVars)
        /\ [\A w \in Adding!Failed : there'[w.path] # "missing"]_(Adding!projectVars)
        /\ [form.name = "typed" /\ form.shown /\ form'.shown => form'.name = "typed"]_(Adding!projectVars)
  BY DEF AddingSafe
<1> QED BY <1>1, <1>2, AddingInitially, PTL
  DEF Adding!ProjectSpec, AddingIsSafe, Adding!NoVerbOnAStaleDecision, Adding!FailuresKeepFolders,
      Adding!TypedNameStays

-----------------------------------------------------------------------------
(***************************************************************************)
(* The file routes                                                         *)
(***************************************************************************)

(* Two paths into one folder.                                              *)
Together(p, q) == Len(p) = Len(q) /\ (Len(p) = 2 => p[1] = q[1])
Steps == {"done", "body", "vacant", "move", "link", "unlink", "undo", "look", "rm"}
JobRecords ==
  {j \in [op : {"none", "upload", "rename", "delete"}, step : Steps, at : Requests!Paths \cup {<<>>},
          to : Requests!Paths \cup {<<>>}, node : Nat, rest : Seq(Requests!Paths), replace : BOOLEAN] :
     /\ j.op # "none" => j.at \in Requests!Paths
     /\ j.op = "rename" => j.to \in Requests!Paths /\ Together(j.at, j.to)}
LinkRecords == [dir : Nat \ {0}, name : Requests!Names \cup 1..Len(jobs), node : 1..Len(kind)]

(* The names of a file, and the renames that may yet take one of them away.*)
NamesOf(i) == {l \in links : l.node = i}
IsPending(j) == j.op = "rename" /\ j.step \in {"unlink", "undo"}
Pending(i) == {r \in Requests!Requests : IsPending(jobs[r]) /\ jobs[r].node = i}

(* The inductive invariant: one entry to a name of a folder, parts under   *)
(* names of their own, and a file that nobody asked to remove or slipped   *)
(* over has more names than there are renames in the middle of it.         *)
FileTypes ==
  /\ kind \in Seq({"folder", "file", "part"}) /\ jobs \in Seq(JobRecords)
  /\ links \subseteq LinkRecords /\ IsFiniteSet(links)
FilesInv ==
  /\ FileTypes
  /\ \A l, m \in links : l.dir = m.dir /\ l.name = m.name => l = m
  /\ \A l \in links : kind[l.node] = "part" <=> l.name \notin Requests!Names
  /\ \A l, m \in links : kind[l.node] = "part" /\ l.node = m.node => l = m
  /\ \A r \in Requests!Requests :
       IsPending(jobs[r]) => jobs[r].node \in 1..Len(kind) /\ kind[jobs[r].node] = "file"
  /\ \A i \in 1..Len(kind) : kind[i] = "file" /\ i \notin doomed \cup slipped =>
       Cardinality(NamesOf(i)) >= Cardinality(Pending(i)) + 1

LEMMA NamesAreNotNumbers == \A r \in Nat : r \notin Requests!Names
BY FoldersAssumption DEF Requests!NamesTold, Requests!Names

LEMMA PathFacts ==
  ASSUME NEW p \in Requests!Paths
  PROVE  /\ Len(p) \in {1, 2} /\ Requests!Last(p) \in Requests!Names
         /\ Len(p) = 1 => p = <<p[1]>> /\ p[1] \in Outer /\ Requests!Last(p) = p[1]
         /\ Len(p) = 2 => p = <<p[1], p[2]>> /\ p[1] \in Outer /\ p[2] \in Inner /\ Requests!Last(p) = p[2]
BY DEF Requests!Paths, Requests!Last, Requests!Names

(* The name of another entry beside a path.                                *)
LEMMA BesideFacts ==
  ASSUME NEW p \in Requests!Paths, NEW n
  PROVE  /\ Requests!Last(Requests!Beside(p, n)) = n
         /\ Requests!Folder(Requests!Beside(p, n)) = Requests!Folder(p)
         /\ Together(p, Requests!Beside(p, n))
         /\ n \in (IF Len(p) = 1 THEN Outer ELSE Inner) => Requests!Beside(p, n) \in Requests!Paths
<1>1. CASE Len(p) = 1
  <2>1. Requests!Beside(p, n) = <<n>>
    <3>1. PICK a : p = <<a>>
      BY <1>1, PathFacts
    <3>2. SubSeq(<<a>>, 1, 0) = <<>> /\ Append(<<>>, n) = <<n>>
      <4>1. <<a>> \in Seq({a})
        OBVIOUS
      <4> QED BY <4>1
    <3>3. Len(p) - 1 = 0
      BY <1>1
    <3> QED BY <3>1, <3>2, <3>3 DEF Requests!Beside, Requests!Front
  <2> QED BY <1>1, <2>1 DEF Requests!Last, Requests!Folder, Together, Requests!Paths
<1>2. CASE Len(p) = 2
  <2>1. Requests!Beside(p, n) = <<p[1], n>>
    <3>1. PICK a, b : p = <<a, b>>
      BY <1>2, PathFacts
    <3>2. SubSeq(<<a, b>>, 1, 1) = <<a>> /\ Append(<<a>>, n) = <<a, n>>
      <4> DEFINE s == <<a, b>>
                 u == SubSeq(s, 1, 1)
      <4>1. s \in Seq({a, b}) /\ Len(s) = 2 /\ s[1] = a
        OBVIOUS
      <4> HIDE DEF s
      <4>2. u \in Seq({a, b}) /\ Len(u) = 1 /\ u[1] = a
        BY <4>1
      <4> HIDE DEF u
      <4>3. u = <<a>>
        <5>1. <<a>> \in Seq({a, b}) /\ Len(<<a>>) = 1 /\ <<a>>[1] = a
          OBVIOUS
        <5>2. \A i \in 1..Len(u) : u[i] = <<a>>[i]
          BY <4>2, <5>1
        <5> QED BY <4>2, <5>1, <5>2, SeqEqual
      <4>4. Append(<<a>>, n) = <<a, n>>
        <5> DEFINE v == Append(<<a>>, n)
        <5>1. /\ <<a>> \in Seq({a, n}) /\ Len(<<a>>) = 1 /\ <<a>>[1] = a
              /\ <<a, n>> \in Seq({a, n}) /\ Len(<<a, n>>) = 2 /\ <<a, n>>[1] = a /\ <<a, n>>[2] = n
          OBVIOUS
        <5>2. v \in Seq({a, n}) /\ Len(v) = 2 /\ v[1] = a /\ v[2] = n
          BY <5>1
        <5> HIDE DEF v
        <5>3. \A i \in 1..Len(v) : v[i] = <<a, n>>[i]
          BY <5>1, <5>2
        <5>4. v = <<a, n>>
          BY <5>1, <5>2, <5>3, SeqEqual
        <5> QED BY <5>4 DEF v
      <4> QED BY <4>3, <4>4 DEF s, u
    <3>3. Len(p) - 1 = 1 /\ p[1] = a
      BY <1>2, <3>1
    <3> QED BY <3>1, <3>2, <3>3 DEF Requests!Beside, Requests!Front
  <2> QED BY <1>2, <2>1, PathFacts DEF Requests!Last, Requests!Folder, Together, Requests!Paths
<1> QED BY <1>1, <1>2, PathFacts

LEMMA OneFolder ==
  ASSUME NEW p \in Requests!Paths, NEW q, Together(p, q) PROVE Requests!Folder(p) = Requests!Folder(q)
<1>1. CASE Len(p) = 1
  BY <1>1 DEF Together, Requests!Folder
<1>2. CASE Len(p) # 1
  BY <1>2, PathFacts DEF Together, Requests!Folder
<1> QED BY <1>1, <1>2

(* What a look at a name finds: nothing, or its one entry.                 *)
LEMMA LookFacts ==
  ASSUME FilesInv, NEW d, NEW n
  PROVE  /\ Requests!At(d, n) = 0 <=> Requests!Find(d, n) = {}
         /\ \A l \in Requests!Find(d, n) : Requests!Find(d, n) = {l} /\ Requests!At(d, n) = l.node
         /\ Requests!At(d, n) # 0 => d \in Nat \ {0} /\ Requests!At(d, n) \in 1..Len(kind)
                                     /\ \E l \in links : l.dir = d /\ l.name = n /\ l.node = Requests!At(d, n)
<1>1. \A l \in Requests!Find(d, n) : Requests!Find(d, n) = {l}
  BY DEF FilesInv, Requests!Find
<1>2. \A l \in Requests!Find(d, n) : Requests!At(d, n) = l.node
  BY <1>1 DEF Requests!At
<1>3. Requests!Find(d, n) = {} => Requests!At(d, n) = 0
  BY DEF Requests!At, Requests!None
<1>4. \A l \in Requests!Find(d, n) : l \in links /\ l.dir = d /\ l.name = n
  BY DEF Requests!Find
<1>5. \A l \in links : l.node \in 1..Len(kind) /\ l.dir \in Nat \ {0} /\ l.node # 0
  BY DEF FilesInv, FileTypes, LinkRecords
<1> QED BY <1>1, <1>2, <1>3, <1>4, <1>5

(* A file that keeps its names while no rename more is in the middle of it.*)
LEMMA KeptOn ==
  ASSUME FilesInv, IsFiniteSet(links'), NEW i \in 1..Len(kind), kind[i] = "file", i \notin doomed \cup slipped,
         NamesOf(i) \subseteq NamesOf(i)', Pending(i)' \subseteq Pending(i)
  PROVE  Cardinality(NamesOf(i)') >= Cardinality(Pending(i)') + 1
<1>1. IsFiniteSet(NamesOf(i)') /\ IsFiniteSet(Pending(i))
  <2>1. IsFiniteSet(Requests!Requests)
    BY FS_Interval DEF FilesInv, FileTypes, Requests!Requests
  <2> QED BY <2>1, FS_Subset DEF NamesOf, Pending
<1>2. Cardinality(NamesOf(i)) >= Cardinality(Pending(i)) + 1
  BY DEF FilesInv
<1>3. /\ Cardinality(NamesOf(i)) <= Cardinality(NamesOf(i)') /\ Cardinality(Pending(i)') <= Cardinality(Pending(i))
      /\ IsFiniteSet(NamesOf(i)) /\ IsFiniteSet(Pending(i)')
  BY <1>1, FS_Subset
<1> QED BY <1>1, <1>2, <1>3, FS_CardinalityType

(* Entries are removed: of files only what is marked, or what nobody keeps.*)
LEMMA RemovalStep ==
  ASSUME FilesInv, kind' = kind, jobs' \in Seq(JobRecords), Len(jobs') >= Len(jobs),
         \A i : Pending(i)' \subseteq Pending(i),
         doomed \subseteq doomed', slipped \subseteq slipped',
         NEW gone, links' = links \ gone,
         \A l \in links \cap gone : kind[l.node] = "file" => l.node \in doomed' \cup slipped'
  PROVE  FilesInv'
<1>1. Len(jobs) \in Nat /\ Len(jobs') \in Nat /\ links' \subseteq links
  BY DEF FilesInv, FileTypes
<1>2. FileTypes'
  <2>1. IsFiniteSet(links')
    BY <1>1, FS_Subset DEF FilesInv, FileTypes
  <2>2. 1..Len(jobs) \subseteq 1..Len(jobs')
    BY <1>1
  <2>3. LinkRecords \subseteq LinkRecords'
    BY <2>2 DEF LinkRecords
  <2> QED BY <1>1, <2>1, <2>3 DEF FilesInv, FileTypes
<1>3. \A l, m \in links' : l.dir = m.dir /\ l.name = m.name => l = m
  BY <1>1 DEF FilesInv
<1>4. /\ \A l \in links' : kind'[l.node] = "part" <=> l.name \notin Requests!Names
      /\ \A l, m \in links' : kind'[l.node] = "part" /\ l.node = m.node => l = m
  BY <1>1 DEF FilesInv
<1>5. ASSUME NEW r \in Requests!Requests', IsPending(jobs'[r])
      PROVE  jobs'[r].node \in 1..Len(kind') /\ kind'[jobs'[r].node] = "file"
  <2>0. PICK n : n = jobs'[r].node
    OBVIOUS
  <2>1. r \in Pending(n)'
    BY <2>0, <1>5 DEF Pending
  <2>2. r \in Pending(n)
    BY <2>0, <2>1
  <2> QED BY <2>0, <2>2 DEF FilesInv, Pending
<1>6. ASSUME NEW i \in 1..Len(kind'), kind'[i] = "file", i \notin doomed' \cup slipped'
      PROVE  Cardinality(NamesOf(i)') >= Cardinality(Pending(i)') + 1
  <2>1. NamesOf(i) \subseteq NamesOf(i)'
    BY <1>6 DEF NamesOf
  <2> QED BY <1>2, <1>6, <2>1, KeptOn DEF FileTypes
<1> QED BY <1>2, <1>3, <1>4, <1>5, <1>6 DEF FilesInv

(* A request's record changes.                                             *)
LEMMA JobChanges ==
  ASSUME FilesInv, NEW r \in Requests!Requests, NEW w \in JobRecords, jobs' = [jobs EXCEPT ![r] = w]
  PROVE  /\ jobs' \in Seq(JobRecords) /\ Len(jobs') = Len(jobs) /\ Requests!Requests' = Requests!Requests
         /\ jobs[r] \in JobRecords
         /\ jobs'[r] = w /\ \A q \in Requests!Requests : q # r => jobs'[q] = jobs[q]
         /\ \A i : Pending(i)' = (Pending(i) \ {r}) \cup (IF IsPending(w) /\ w.node = i THEN {r} ELSE {})
<1>1. /\ jobs \in Seq(JobRecords) /\ Requests!Requests = 1..Len(jobs)
  BY DEF FilesInv, FileTypes, Requests!Requests
<1>2. /\ jobs' \in Seq(JobRecords) /\ Len(jobs') = Len(jobs) /\ jobs[r] \in JobRecords
      /\ jobs'[r] = w /\ \A q \in Requests!Requests : q # r => jobs'[q] = jobs[q]
  BY <1>1
<1>3. Requests!Requests' = Requests!Requests
  BY <1>2 DEF Requests!Requests
<1>4. \A i : Pending(i)' = (Pending(i) \ {r}) \cup (IF IsPending(w) /\ w.node = i THEN {r} ELSE {})
  <2> TAKE i
  <2>1. \A q : q \in Pending(i)' <=> q \in Requests!Requests /\ IsPending(jobs'[q]) /\ jobs'[q].node = i
    BY <1>3 DEF Pending, IsPending
  <2>2. \A q : q \in Pending(i) <=> q \in Requests!Requests /\ IsPending(jobs[q]) /\ jobs[q].node = i
    BY DEF Pending
  <2> QED BY <1>2, <2>1, <2>2
<1> QED BY <1>2, <1>3, <1>4

LEMMA DoneIsARecord == Requests!Done \in JobRecords /\ ~IsPending(Requests!Done)
<1> DEFINE j == Requests!Job("none", <<>>)
<1>1. j \in JobRecords
  BY DEF Requests!Job, Requests!None, JobRecords, Steps
<1>2. Requests!Done = [j EXCEPT !.step = "done"]
  BY DEF Requests!Done
<1> HIDE DEF j
<1> QED BY <1>1, <1>2 DEF JobRecords, IsPending, Steps

(* The step of a request changes, with its file if it linked one.          *)
LEMMA OnwardFacts ==
  ASSUME NEW step \in Steps, NEW j \in JobRecords, NEW n \in Nat
  PROVE  /\ Requests!Onward(step, [j EXCEPT !.node = n]) \in JobRecords
         /\ Requests!Onward(step, j) \in JobRecords
         /\ step \notin {"unlink", "undo"} =>
              ~IsPending(Requests!Onward(step, j)) /\ ~IsPending(Requests!Onward(step, [j EXCEPT !.node = n]))
         /\ Requests!Onward(step, j).node = j.node \/ step = "done"
         /\ Requests!Onward(step, [j EXCEPT !.node = n]).node = n \/ step = "done"
<1>1. CASE step = "done"
  BY <1>1, DoneIsARecord DEF Requests!Onward
<1>2. CASE step # "done"
  <2>1. [j EXCEPT !.node = n] \in JobRecords /\ [j EXCEPT !.node = n].node = n
    BY DEF JobRecords
  <2>2. \A k \in JobRecords : /\ [k EXCEPT !.step = step] \in JobRecords /\ [k EXCEPT !.step = step].step = step
                              /\ [k EXCEPT !.step = step].node = k.node
    BY DEF JobRecords
  <2> QED BY <1>2, <2>1, <2>2 DEF Requests!Onward, IsPending
<1> QED BY <1>1, <1>2

LEMMA MovesFacts ==
  ASSUME FilesInv, NEW r \in Requests!Requests, NEW step \in Steps, Requests!Moves(r, step),
         step \in {"unlink", "undo"} => IsPending(jobs[r])
  PROVE  /\ jobs' \in Seq(JobRecords) /\ Len(jobs') = Len(jobs) /\ Requests!Requests' = Requests!Requests
         /\ \A i : Pending(i)' \subseteq Pending(i)
         /\ step = "done" => \A i : Pending(i)' = Pending(i) \ {r}
<1> DEFINE w == Requests!Onward(step, jobs[r])
<1>1. jobs[r] \in JobRecords /\ jobs[r].node \in Nat
  <2>1. jobs[r] \in JobRecords
    BY DEF FilesInv, FileTypes, Requests!Requests
  <2> QED BY <2>1 DEF JobRecords
<1>2. /\ w \in JobRecords /\ jobs' = [jobs EXCEPT ![r] = w]
      /\ IsPending(w) => step \in {"unlink", "undo"} /\ w.node = jobs[r].node
  BY <1>1, OnwardFacts, DoneIsARecord DEF Requests!Moves, Requests!Onward
<1>3. step = "done" => ~IsPending(w)
  BY <1>2
<1> HIDE DEF w
<1>4. \A i : Pending(i)' = (Pending(i) \ {r}) \cup (IF IsPending(w) /\ w.node = i THEN {r} ELSE {})
  BY <1>2, JobChanges
<1>5. IsPending(w) => r \in Pending(w.node)
  BY <1>2 DEF Pending
<1> QED BY <1>2, <1>3, <1>4, <1>5, JobChanges

LEMMA AppendFacts ==
  ASSUME FilesInv, NEW w \in JobRecords, ~IsPending(w), jobs' = Append(jobs, w)
  PROVE  /\ jobs' \in Seq(JobRecords) /\ Len(jobs') = Len(jobs) + 1 /\ Len(jobs) \in Nat
         /\ \A i : Pending(i)' \subseteq Pending(i)
<1>1. /\ jobs \in Seq(JobRecords) /\ jobs' \in Seq(JobRecords) /\ Len(jobs') = Len(jobs) + 1
      /\ Len(jobs) \in Nat
      /\ jobs'[Len(jobs) + 1] = w /\ \A q \in 1..Len(jobs) : jobs'[q] = jobs[q]
  BY DEF FilesInv, FileTypes
<1>2. Requests!Requests = 1..Len(jobs) /\ Requests!Requests' = 1..Len(jobs) \cup {Len(jobs) + 1}
  BY <1>1 DEF Requests!Requests
<1>3. \A i, q : q \in Pending(i)' => q \in Pending(i)
  BY <1>1, <1>2 DEF Pending
<1> QED BY <1>1, <1>3

(* New nodes, each with an entry of its own under a name that was free.    *)
LEMMA GrowStep ==
  ASSUME FilesInv, NEW ks \in Seq({"folder", "file", "part"}), kind' = kind \o ks,
         jobs' \in Seq(JobRecords), Len(jobs') >= Len(jobs), \A i : Pending(i)' \subseteq Pending(i),
         doomed' = doomed, slipped' = slipped,
         NEW new, links' = links \cup new, IsFiniteSet(new), new \subseteq LinkRecords',
         \A l \in new : /\ l.node > Len(kind) /\ (kind'[l.node] = "part" <=> l.name \notin Requests!Names)
                        /\ Requests!Find(l.dir, l.name) = {},
         \A l, m \in new : (l.dir = m.dir /\ l.name = m.name) \/ l.node = m.node => l = m,
         \A i \in 1..Len(ks) : ks[i] = "file" => \E l \in new : l.node = Len(kind) + i
  PROVE  FilesInv'
<1>1. /\ Len(kind) \in Nat /\ Len(jobs) \in Nat /\ Len(jobs') \in Nat /\ Len(ks) \in Nat
      /\ kind' \in Seq({"folder", "file", "part"}) /\ Len(kind') = Len(kind) + Len(ks)
      /\ \A i \in 1..Len(kind) : kind'[i] = kind[i]
      /\ \A i \in (Len(kind) + 1)..Len(kind') : kind'[i] = ks[i - Len(kind)] /\ i - Len(kind) \in 1..Len(ks)
  BY DEF FilesInv, FileTypes
<1>2. \A l \in links : l.node \in 1..Len(kind) /\ kind'[l.node] = kind[l.node]
  BY <1>1 DEF FilesInv, FileTypes, LinkRecords
<1>3. FileTypes'
  <2>1. IsFiniteSet(links')
    BY FS_Union DEF FilesInv, FileTypes
  <2>2. 1..Len(jobs) \subseteq 1..Len(jobs') /\ 1..Len(kind) \subseteq 1..Len(kind')
    BY <1>1
  <2>3. LinkRecords \subseteq LinkRecords'
    BY <2>2 DEF LinkRecords
  <2> QED BY <1>1, <2>1, <2>3 DEF FilesInv, FileTypes
<1>4. \A l \in new, m \in links : l.node # m.node /\ ~(l.dir = m.dir /\ l.name = m.name)
  BY <1>1, <1>2 DEF Requests!Find
<1>5. \A l, m \in links' : l.dir = m.dir /\ l.name = m.name => l = m
  BY <1>4 DEF FilesInv
<1>6. /\ \A l \in links' : kind'[l.node] = "part" <=> l.name \notin Requests!Names
      /\ \A l, m \in links' : kind'[l.node] = "part" /\ l.node = m.node => l = m
  <2>1. \A l \in links' : l \in links \/ l \in new
    OBVIOUS
  <2>2. \A l \in links : kind'[l.node] = "part" <=> l.name \notin Requests!Names
    BY <1>2 DEF FilesInv
  <2>3. \A l, m \in links : kind'[l.node] = "part" /\ l.node = m.node => l = m
    BY <1>2 DEF FilesInv
  <2> QED BY <1>4, <2>1, <2>2, <2>3
<1>7. ASSUME NEW r \in Requests!Requests', IsPending(jobs'[r])
      PROVE  jobs'[r].node \in 1..Len(kind') /\ kind'[jobs'[r].node] = "file"
  <2>0. PICK n : n = jobs'[r].node
    OBVIOUS
  <2>1. r \in Pending(n)'
    BY <2>0, <1>7 DEF Pending
  <2>2. r \in Pending(n)
    BY <2>0, <2>1
  <2>3. n \in 1..Len(kind) /\ kind[n] = "file"
    BY <2>0, <2>2 DEF FilesInv, Pending
  <2> QED BY <2>0, <1>1, <2>3
<1>8. ASSUME NEW i \in 1..Len(kind'), kind'[i] = "file", i \notin doomed' \cup slipped'
      PROVE  Cardinality(NamesOf(i)') >= Cardinality(Pending(i)') + 1
  <2>1. CASE i \in 1..Len(kind)
    <3>1. NamesOf(i) \subseteq NamesOf(i)' /\ kind[i] = "file"
      BY <1>1, <1>8, <2>1 DEF NamesOf
    <3> QED BY <1>3, <1>8, <2>1, <3>1, KeptOn DEF FileTypes
  <2>2. CASE i \notin 1..Len(kind)
    <3>1. PICK l \in new : l.node = i
      <4>1. i \in (Len(kind) + 1)..Len(kind')
        BY <1>1, <2>2
      <4>2. i - Len(kind) \in 1..Len(ks) /\ ks[i - Len(kind)] = "file" /\ Len(kind) + (i - Len(kind)) = i
        BY <1>1, <1>8, <4>1
      <4> QED BY <4>2
    <3>2. Pending(i)' = {}
      <4>1. Pending(i) = {}
        BY <2>2 DEF FilesInv, Pending
      <4> QED BY <4>1
    <3>3. IsFiniteSet(NamesOf(i)') /\ {l} \subseteq NamesOf(i)'
      BY <1>3, <3>1, FS_Subset DEF NamesOf, FileTypes
    <3>4. Cardinality(NamesOf(i)') >= 1 /\ Cardinality(Pending(i)') = 0
      <4>1. Cardinality({l}) <= Cardinality(NamesOf(i)') /\ Cardinality({l}) = 1
        BY <3>3, FS_Subset, FS_Singleton
      <4>2. Cardinality(NamesOf(i)') \in Nat
        BY <3>3, FS_CardinalityType
      <4> QED BY <3>2, <4>1, <4>2, FS_EmptySet
    <3> QED BY <3>4
  <2> QED BY <2>1, <2>2
<1> QED BY <1>3, <1>5, <1>6, <1>7, <1>8 DEF FilesInv

LEMMA FilesInitially == Requests!Init => FilesInv
<1> SUFFICES ASSUME Requests!Init PROVE FilesInv
  OBVIOUS
<1> DEFINE a == Requests!Link(1, AFile, 2)
           b == Requests!Link(1, AFolder, 3)
<1>1. /\ kind = <<"folder", "file", "folder">> /\ links = {a, b} /\ jobs = <<>> /\ Len(kind) = 3
      /\ Requests!Requests = {}
  BY DEF Requests!Init, Requests!Root, Requests!Requests
<1>2. /\ AFile \in Requests!Names /\ AFolder \in Requests!Names /\ AFile # AFolder
  BY FoldersAssumption DEF Requests!NamesTold, Requests!Names
<1>3. /\ a.dir = 1 /\ a.name = AFile /\ a.node = 2 /\ b.dir = 1 /\ b.name = AFolder /\ b.node = 3
      /\ a \in LinkRecords /\ b \in LinkRecords
  BY <1>1, <1>2 DEF Requests!Link, LinkRecords
<1> HIDE DEF a, b
<1>4. FileTypes
  <2>1. IsFiniteSet(links)
    <3>1. IsFiniteSet({a} \cup {b}) /\ {a, b} = {a} \cup {b}
      BY FS_Singleton, FS_AddElement
    <3> QED BY <1>1, <3>1
  <2> QED BY <1>1, <1>3, <2>1 DEF FileTypes
<1>5. ASSUME NEW i \in 1..Len(kind), kind[i] = "file"
      PROVE  Cardinality(NamesOf(i)) >= Cardinality(Pending(i)) + 1
  <2>1. NamesOf(i) = {a} /\ Pending(i) = {}
    BY <1>1, <1>3, <1>5 DEF NamesOf, Pending
  <2>2. Cardinality({a}) = 1 /\ Cardinality({}) = 0
    BY FS_Singleton, FS_EmptySet
  <2>3. Cardinality(NamesOf(i)) = 1 /\ Cardinality(Pending(i)) = 0
    BY <2>1, <2>2
  <2> QED BY <2>3
<1> QED BY <1>1, <1>2, <1>3, <1>4, <1>5 DEF FilesInv

LEMMA CreatesStep ==
  ASSUME FilesInv, NEW p \in Requests!Paths, NEW k \in {"file", "folder"}, Requests!CreatesEntry(p, k)
  PROVE  FilesInv'
<1> DEFINE new == Requests!Link(Requests!Folder(p), Requests!Last(p), Len(kind) + 1)
<1>1. /\ Requests!Folder(p) # 0 /\ Requests!There(p) = 0 /\ kind' = kind \o <<k>>
      /\ links' = links \cup {new} /\ UNCHANGED <<doomed, slipped, jobs>>
  BY DEF Requests!CreatesEntry, Requests!Made, Requests!lost, Requests!None
<1>2. Requests!Find(Requests!Folder(p), Requests!Last(p)) = {} /\ Requests!Folder(p) \in Nat \ {0}
  <2>1. Requests!Folder(p) \in {0, 1, Requests!At(1, p[1])}
    BY DEF Requests!Folder, Requests!Root, Requests!None
  <2>2. Requests!At(1, p[1]) # 0 => Requests!At(1, p[1]) \in Nat
    BY LookFacts DEF FilesInv, FileTypes
  <2> QED BY <1>1, <2>1, <2>2, LookFacts DEF Requests!There
<1>3. /\ kind' \in Seq({"folder", "file", "part"}) /\ Len(kind) \in Nat /\ Len(kind') = Len(kind) + 1
      /\ kind'[Len(kind) + 1] = k /\ <<k>> \in Seq({"folder", "file", "part"}) /\ Len(<<k>>) = 1
  BY <1>1 DEF FilesInv, FileTypes
<1>4. /\ new.dir = Requests!Folder(p) /\ new.name = Requests!Last(p) /\ new.node = Len(kind) + 1
      /\ new.name \in Requests!Names /\ new \in LinkRecords'
  BY <1>1, <1>2, <1>3, PathFacts DEF Requests!Link, LinkRecords
<1>5. jobs' \in Seq(JobRecords) /\ Len(jobs') >= Len(jobs) /\ \A i : Pending(i)' \subseteq Pending(i)
  BY <1>1 DEF FilesInv, FileTypes, Pending, Requests!Requests
<1>6. IsFiniteSet({new})
  BY FS_Singleton
<1>7. /\ \A l \in {new} : /\ l.node > Len(kind) /\ (kind'[l.node] = "part" <=> l.name \notin Requests!Names)
                          /\ Requests!Find(l.dir, l.name) = {}
      /\ \A l, m \in {new} : (l.dir = m.dir /\ l.name = m.name) \/ l.node = m.node => l = m
      /\ \A i \in 1..Len(<<k>>) : <<k>>[i] = "file" => \E l \in {new} : l.node = Len(kind) + i
  BY <1>2, <1>3, <1>4
<1> HIDE DEF new
<1> QED BY <1>1, <1>3, <1>4, <1>5, <1>6, <1>7, GrowStep

LEMMA UploadStartsStep ==
  ASSUME FilesInv, NEW p \in Requests!Paths, NEW replace \in BOOLEAN, Requests!UploadStarts(p, replace)
  PROVE  FilesInv'
<1> DEFINE r == Len(jobs) + 1
           w == [Requests!Job("upload", p) EXCEPT !.replace = replace]
           n == Len(kind)
<1>1. /\ jobs' = Append(jobs, w) /\ doomed' = doomed /\ slipped' = slipped
      /\ n \in Nat /\ r \in Nat /\ Len(jobs) \in Nat
  BY DEF Requests!UploadStarts, Requests!lost, FilesInv, FileTypes
<1>2. w \in JobRecords /\ ~IsPending(w)
  <2> DEFINE j == Requests!Job("upload", p)
  <2>1. j \in JobRecords /\ j.op = "upload"
    BY DEF Requests!Job, Requests!None, JobRecords, Steps
  <2>2. w = [j EXCEPT !.replace = replace]
    OBVIOUS
  <2> HIDE DEF j, w
  <2> QED BY <2>1, <2>2 DEF JobRecords, IsPending
<1>3. /\ jobs' \in Seq(JobRecords) /\ Len(jobs') = r /\ \A i : Pending(i)' \subseteq Pending(i)
  <2> HIDE DEF w
  <2> QED BY <1>1, <1>2, AppendFacts
<1>4. r \notin Requests!Names /\ \A d : Requests!Find(d, r) = {}
  <2>1. \A l \in links : l.name # r
    BY <1>1, NamesAreNotNumbers DEF FilesInv, FileTypes, LinkRecords
  <2> QED BY <1>1, <2>1, NamesAreNotNumbers DEF Requests!Find
<1>5. CASE Requests!Folder(p) # 0
  <2> DEFINE new == Requests!Link(Requests!Folder(p), r, n + 1)
  <2>1. kind' = kind \o <<"part">> /\ links' = links \cup {new}
    BY <1>5 DEF Requests!UploadStarts, Requests!Made, Requests!None
  <2>2. Requests!Folder(p) \in Nat \ {0}
    <3>1. Requests!Folder(p) \in {0, 1, Requests!At(1, p[1])}
      BY DEF Requests!Folder, Requests!Root, Requests!None
    <3>2. Requests!At(1, p[1]) # 0 => Requests!At(1, p[1]) \in Nat
      BY LookFacts DEF FilesInv, FileTypes
    <3> QED BY <1>5, <3>1, <3>2
  <2>3. /\ <<"part">> \in Seq({"folder", "file", "part"}) /\ Len(kind') = n + 1 /\ kind'[n + 1] = "part"
        /\ Len(<<"part">>) = 1 /\ <<"part">>[1] = "part"
    BY <1>1, <2>1 DEF FilesInv, FileTypes
  <2>4. new.dir = Requests!Folder(p) /\ new.name = r /\ new.node = n + 1 /\ new \in LinkRecords'
    BY <1>1, <1>3, <2>2, <2>3 DEF Requests!Link, LinkRecords
  <2>5. IsFiniteSet({new})
    BY FS_Singleton
  <2>6. /\ \A l \in {new} : /\ l.node > Len(kind) /\ (kind'[l.node] = "part" <=> l.name \notin Requests!Names)
                            /\ Requests!Find(l.dir, l.name) = {}
        /\ \A i \in 1..Len(<<"part">>) : <<"part">>[i] # "file"
    BY <1>1, <1>4, <2>3, <2>4
  <2>7. Len(jobs') >= Len(jobs)
    BY <1>1, <1>3
  <2> HIDE DEF new, r, w
  <2> QED BY <1>1, <1>3, <2>1, <2>3, <2>4, <2>5, <2>6, <2>7, GrowStep
<1>6. CASE Requests!Folder(p) = 0
  <2> DEFINE part == Requests!Link(n + 1, r, n + 2)
             made == Requests!Link(1, p[1], n + 1)
             ks == <<"folder", "part">>
  <2>1. kind' = kind \o ks /\ links' = links \cup {part, made} /\ Requests!At(1, p[1]) = 0
    BY <1>6 DEF Requests!UploadStarts, Requests!Made, Requests!None, Requests!Root
  <2>2. /\ ks \in Seq({"folder", "file", "part"}) /\ Len(kind') = n + 2
        /\ kind'[n + 1] = "folder" /\ kind'[n + 2] = "part"
        /\ Len(ks) = 2 /\ ks[1] = "folder" /\ ks[2] = "part"
    BY <1>1, <2>1 DEF FilesInv, FileTypes
  <2>3. p[1] \in Requests!Names
    BY PathFacts DEF Requests!Names
  <2>4. /\ part.dir = n + 1 /\ part.name = r /\ part.node = n + 2 /\ part \in LinkRecords'
        /\ made.dir = 1 /\ made.name = p[1] /\ made.node = n + 1 /\ made \in LinkRecords'
    BY <1>1, <1>3, <2>2, <2>3 DEF Requests!Link, LinkRecords
  <2>5. IsFiniteSet({part, made})
    <3> HIDE DEF part, made
    <3>1. IsFiniteSet({part} \cup {made}) /\ {part, made} = {part} \cup {made}
      BY FS_Singleton, FS_AddElement
    <3> QED BY <3>1
  <2>6. Requests!Find(1, p[1]) = {}
    BY <2>1, LookFacts
  <2>7. /\ \A l \in {part, made} :
             /\ l.node > Len(kind) /\ (kind'[l.node] = "part" <=> l.name \notin Requests!Names)
             /\ Requests!Find(l.dir, l.name) = {}
        /\ \A l, m \in {part, made} : (l.dir = m.dir /\ l.name = m.name) \/ l.node = m.node => l = m
        /\ \A i \in 1..Len(ks) : ks[i] # "file"
    BY <1>1, <1>4, <2>2, <2>3, <2>4, <2>6
  <2>8. Len(jobs') >= Len(jobs)
    BY <1>1, <1>3
  <2> HIDE DEF part, made, r, w, ks
  <2> QED BY <1>1, <1>3, <2>1, <2>2, <2>4, <2>5, <2>7, <2>8, GrowStep
<1> QED BY <1>5, <1>6

(* A part is published under the target's name.                            *)
LEMMA LandsStep ==
  ASSUME FilesInv, NEW r \in Requests!Requests, jobs[r].at \in Requests!Paths,
         Requests!Publishes(r), Requests!Lands(r, TRUE), slipped' = slipped,
         jobs' \in Seq(JobRecords), Len(jobs') = Len(jobs), \A i : Pending(i)' \subseteq Pending(i)
  PROVE  FilesInv'
<1> DEFINE at == jobs[r].at
           d == Requests!Folder(at)
           old == Requests!There(at)
           part == Requests!There(Requests!Part(r))
           new == Requests!Link(d, Requests!Last(at), part)
           gone == Requests!Find(d, r) \cup Requests!Find(d, Requests!Last(at))
<1>1. part = Requests!At(d, r) /\ Requests!Entry(Requests!Part(r)) = Requests!Find(d, r)
  BY BesideFacts DEF Requests!Part, Requests!There, Requests!Entry
<1>2. /\ part # 0 /\ (jobs[r].replace \/ old = 0)
      /\ kind' = [kind EXCEPT ![part] = "file"]
      /\ links' = (links \ gone) \cup {new}
      /\ doomed' = doomed \cup (IF jobs[r].replace THEN {old} \ {0} ELSE {})
  BY <1>1 DEF Requests!Publishes, Requests!Lands, Requests!None, Requests!Entry
<1>3. PICK l \in links : l.dir = d /\ l.name = r /\ l.node = part
  BY <1>1, <1>2, LookFacts
<1>4. /\ part \in 1..Len(kind) /\ d \in Nat \ {0} /\ r \in Nat /\ kind[part] = "part"
  <2>1. part \in 1..Len(kind) /\ d \in Nat \ {0} /\ r \in Nat
    BY <1>3 DEF FilesInv, FileTypes, LinkRecords, Requests!Requests
  <2> QED BY <1>3, <2>1, NamesAreNotNumbers DEF FilesInv
<1>5. /\ kind' \in Seq({"folder", "file", "part"}) /\ Len(kind') = Len(kind) /\ kind'[part] = "file"
      /\ \A i \in 1..Len(kind) : i # part => kind'[i] = kind[i]
  BY <1>2, <1>4 DEF FilesInv, FileTypes
<1>6. /\ new.dir = d /\ new.name = Requests!Last(at) /\ new.node = part /\ new.name \in Requests!Names
      /\ new \in LinkRecords'
  BY <1>4, <1>5, PathFacts DEF Requests!Link, LinkRecords
<1>7. /\ \A m \in links : m.node = part => m = l
      /\ l \in gone
  BY <1>3, <1>4 DEF FilesInv, Requests!Find
<1>8. \A m \in links \ gone : /\ ~(m.dir = new.dir /\ m.name = new.name) /\ m.node # part
                              /\ m.node \in 1..Len(kind) /\ kind'[m.node] = kind[m.node]
  BY <1>5, <1>6, <1>7 DEF Requests!Find, FilesInv, FileTypes, LinkRecords
<1> HIDE DEF new
<1>9. FileTypes'
  <2>1. IsFiniteSet(links')
    BY <1>2, FS_Subset, FS_AddElement DEF FilesInv, FileTypes
  <2>2. LinkRecords \subseteq LinkRecords'
    BY <1>5 DEF LinkRecords
  <2> QED BY <1>2, <1>5, <1>6, <2>1, <2>2 DEF FilesInv, FileTypes
<1>10. \A m, k \in links' : m.dir = k.dir /\ m.name = k.name => m = k
  BY <1>2, <1>8 DEF FilesInv
<1>11. /\ \A m \in links' : kind'[m.node] = "part" <=> m.name \notin Requests!Names
       /\ \A m, k \in links' : kind'[m.node] = "part" /\ m.node = k.node => m = k
  <2>1. kind'[new.node] = "file" /\ new.name \in Requests!Names
    BY <1>5, <1>6
  <2> QED BY <1>2, <1>8, <2>1 DEF FilesInv
<1>12. ASSUME NEW q \in Requests!Requests', IsPending(jobs'[q])
       PROVE  jobs'[q].node \in 1..Len(kind') /\ kind'[jobs'[q].node] = "file"
  <2>0. PICK n : n = jobs'[q].node
    OBVIOUS
  <2>1. q \in Pending(n)'
    BY <2>0, <1>12 DEF Pending
  <2>2. q \in Pending(n)
    BY <2>0, <2>1
  <2>3. n \in 1..Len(kind) /\ kind[n] = "file"
    BY <2>0, <2>2 DEF FilesInv, Pending
  <2> QED BY <2>0, <1>4, <1>5, <2>3
<1>13. ASSUME NEW i \in 1..Len(kind'), kind'[i] = "file", i \notin doomed' \cup slipped'
       PROVE  Cardinality(NamesOf(i)') >= Cardinality(Pending(i)') + 1
  <2>1. CASE i = part
    <3>1. Pending(i)' = {}
      <4>1. Pending(i) = {}
        BY <1>4, <2>1 DEF FilesInv, Pending
      <4> QED BY <4>1
    <3>2. IsFiniteSet(NamesOf(i)') /\ {new} \subseteq NamesOf(i)'
      BY <1>2, <1>6, <1>9, <2>1, FS_Subset DEF NamesOf, FileTypes
    <3>3. Cardinality({new}) <= Cardinality(NamesOf(i)') /\ Cardinality({new}) = 1
      BY <3>2, FS_Subset, FS_Singleton
    <3>4. Cardinality(NamesOf(i)') \in Nat /\ Cardinality(Pending(i)') = 0
      BY <3>1, <3>2, FS_CardinalityType, FS_EmptySet
    <3> QED BY <3>3, <3>4
  <2>2. CASE i # part
    <3>1. \A m \in Requests!Find(d, Requests!Last(at)) : m.node # i
      <4>1. \A m \in Requests!Find(d, Requests!Last(at)) : m.node = old /\ old # 0
        BY LookFacts DEF Requests!There
      <4> QED BY <1>2, <1>13, <4>1
    <3>2. \A m \in Requests!Find(d, r) : m.node # i
      BY <1>1, <2>2, LookFacts
    <3>3. NamesOf(i) \subseteq NamesOf(i)' /\ kind[i] = "file"
      BY <1>2, <1>5, <1>13, <2>2, <3>1, <3>2 DEF NamesOf
    <3> QED BY <1>2, <1>5, <1>9, <1>13, <3>3, KeptOn DEF FileTypes
  <2> QED BY <2>1, <2>2
<1> QED BY <1>9, <1>10, <1>11, <1>12, <1>13 DEF FilesInv

LEMMA RunningJob ==
  ASSUME FilesInv, NEW op \in {"upload", "rename", "delete"}, NEW step, NEW r \in Requests!Running(op, step)
  PROVE  /\ r \in Requests!Requests /\ jobs[r] \in JobRecords /\ jobs[r].at \in Requests!Paths
         /\ jobs[r].op = op /\ jobs[r].step = step /\ jobs[r].node \in Nat
         /\ op = "rename" => jobs[r].to \in Requests!Paths /\ Together(jobs[r].at, jobs[r].to)
         /\ IsPending(jobs[r]) <=> op = "rename" /\ step \in {"unlink", "undo"}
<1>1. r \in Requests!Requests /\ jobs[r] \in JobRecords /\ jobs[r].op = op /\ jobs[r].step = step
  BY DEF Requests!Running, Requests!Requests, FilesInv, FileTypes
<1> QED BY <1>1 DEF JobRecords, IsPending

LEMMA UploadEndsStep == ASSUME FilesInv, Requests!UploadEnds PROVE FilesInv'
<1>1. PICK r \in Requests!Running("upload", "body"), whole \in BOOLEAN :
        /\ Requests!Moves(r, "done") /\ slipped' = slipped
        /\ IF whole /\ Requests!Publishes(r) THEN Requests!Lands(r, whole)
           ELSE links' = links \ Requests!Entry(Requests!Part(r)) /\ UNCHANGED <<kind, doomed>>
  BY DEF Requests!UploadEnds, Requests!Ends
<1>2. r \in Requests!Requests /\ jobs[r].at \in Requests!Paths
  BY RunningJob
<1>3. jobs' \in Seq(JobRecords) /\ Len(jobs') = Len(jobs) /\ \A i : Pending(i)' \subseteq Pending(i)
  BY <1>1, <1>2, MovesFacts DEF Steps
<1>4. CASE whole /\ Requests!Publishes(r)
  <2>1. Requests!Publishes(r) /\ Requests!Lands(r, TRUE)
    <3>1. whole = TRUE
      BY <1>4
    <3> QED BY <1>1, <1>4, <3>1
  <2> QED BY <1>1, <1>2, <1>3, <2>1, LandsStep
<1>5. CASE ~(whole /\ Requests!Publishes(r))
  <2>1. links' = links \ Requests!Entry(Requests!Part(r)) /\ kind' = kind /\ doomed' = doomed
    BY <1>1, <1>5
  <2>2. \A l \in Requests!Entry(Requests!Part(r)) : l.name = r /\ r \in Nat
    BY <1>2, BesideFacts DEF Requests!Entry, Requests!Part, Requests!Find, Requests!Requests, FilesInv, FileTypes
  <2>3. \A l \in links \cap Requests!Entry(Requests!Part(r)) : kind[l.node] # "file"
    BY <2>2, NamesAreNotNumbers DEF FilesInv
  <2>4. Len(jobs') >= Len(jobs)
    BY <1>3 DEF FilesInv, FileTypes
  <2> QED BY <1>1, <1>3, <2>1, <2>3, <2>4, RemovalStep
<1> QED BY <1>4, <1>5

(* A request is admitted, or goes on without touching the disk.            *)
LEMMA NothingTouched ==
  ASSUME FilesInv, UNCHANGED <<kind, links, doomed, slipped>>, jobs' \in Seq(JobRecords), Len(jobs') >= Len(jobs),
         \A i : Pending(i)' \subseteq Pending(i)
  PROVE  FilesInv'
<1>1. links' = links \ {} /\ kind' = kind /\ doomed \subseteq doomed' /\ slipped \subseteq slipped'
  OBVIOUS
<1>2. \A l \in links \cap {} : kind[l.node] = "file" => l.node \in doomed' \cup slipped'
  OBVIOUS
<1> QED BY <1>1, <1>2, RemovalStep

LEMMA RenameStartsStep ==
  ASSUME FilesInv, NEW p \in Requests!Paths, NEW n, n \in (IF Len(p) = 1 THEN Outer ELSE Inner),
         Requests!RenameStarts(p, n)
  PROVE  FilesInv'
<1> DEFINE step == IF Requests!IsFolder(Requests!There(p)) THEN "vacant" ELSE "link"
           to == Requests!Beside(p, n)
           w == [Requests!Job("rename", p) EXCEPT !.to = to, !.step = step]
<1>1. jobs' = Append(jobs, w) /\ UNCHANGED <<kind, links, doomed, slipped>>
  BY DEF Requests!RenameStarts, Requests!lost
<1>2. to \in Requests!Paths /\ Together(p, to)
  BY BesideFacts
<1>3. w \in JobRecords /\ ~IsPending(w)
  <2> HIDE DEF to
  <2> DEFINE j == Requests!Job("rename", p)
  <2>1. j \in JobRecords /\ j.op = "rename" /\ j.at = p
    BY DEF Requests!Job, Requests!None, JobRecords, Steps, Together
  <2>2. step \in {"vacant", "link"} /\ w = [j EXCEPT !.to = to, !.step = step]
    OBVIOUS
  <2> HIDE DEF step, w, j
  <2> QED BY <1>2, <2>1, <2>2 DEF JobRecords, Steps, IsPending
<1> HIDE DEF w
<1>4. jobs' \in Seq(JobRecords) /\ Len(jobs') >= Len(jobs) /\ \A i : Pending(i)' \subseteq Pending(i)
  BY <1>1, <1>3, AppendFacts
<1> QED BY <1>1, <1>4, NothingTouched

LEMMA SeesVacantStep == ASSUME FilesInv, Requests!RenameSeesVacant PROVE FilesInv'
<1>1. PICK r \in Requests!Running("rename", "vacant"), step \in {"done", "move"} : Requests!Moves(r, step)
  BY DEF Requests!RenameSeesVacant
<1>2. UNCHANGED <<kind, links, doomed, slipped>>
  BY DEF Requests!RenameSeesVacant, Requests!lost
<1>3. jobs' \in Seq(JobRecords) /\ Len(jobs') = Len(jobs) /\ \A i : Pending(i)' \subseteq Pending(i)
  BY <1>1, RunningJob, MovesFacts DEF Steps
<1>4. Len(jobs') >= Len(jobs)
  BY <1>3 DEF FilesInv, FileTypes
<1> QED BY <1>2, <1>3, <1>4, NothingTouched

(* rename(2): the entry moves to the other name, whose own entry goes.     *)
LEMMA MovesStep == ASSUME FilesInv, Requests!RenameMoves PROVE FilesInv'
<1>1. PICK r \in Requests!Running("rename", "move") :
        LET src == Requests!There(jobs[r].at)  dst == Requests!There(jobs[r].to)
            may == /\ src \notin {0, dst}
                   /\ dst # 0 => Requests!IsFolder(src) = Requests!IsFolder(dst) /\ Requests!Within(dst) = {} IN
        /\ Requests!Moves(r, "done")
        /\ links' = IF may THEN (links \ (Requests!Entry(jobs[r].at) \cup Requests!Entry(jobs[r].to)))
                                  \cup {Requests!Link(Requests!Folder(jobs[r].to), Requests!Last(jobs[r].to), src)}
                    ELSE links
        /\ slipped' = slipped \cup ((IF may /\ ~Requests!IsFolder(dst) THEN {dst} ELSE {}) \ {0})
        /\ UNCHANGED <<kind, doomed>>
  BY DEF Requests!RenameMoves, Requests!Ends, Requests!None
<1> DEFINE at == jobs[r].at
           to == jobs[r].to
           d == Requests!Folder(at)
           src == Requests!There(at)
           dst == Requests!There(to)
           new == Requests!Link(d, Requests!Last(to), src)
           gone == Requests!Entry(at) \cup Requests!Entry(to)
<1>2. at \in Requests!Paths /\ to \in Requests!Paths /\ Requests!Folder(to) = d
  BY RunningJob, OneFolder
<1>3. jobs' \in Seq(JobRecords) /\ Len(jobs') = Len(jobs) /\ \A i : Pending(i)' \subseteq Pending(i)
  BY <1>1, RunningJob, MovesFacts DEF Steps
<1>4. Len(jobs') >= Len(jobs)
  BY <1>3 DEF FilesInv, FileTypes
<1>5. CASE links' = links /\ slipped \subseteq slipped'
  <2>1. links' = links \ {}
    BY <1>5
  <2> QED BY <1>1, <1>3, <1>4, <1>5, <2>1, RemovalStep
<1>6. CASE /\ src # 0 /\ src # dst /\ links' = (links \ gone) \cup {new}
           /\ slipped' = slipped \cup ((IF ~Requests!IsFolder(dst) THEN {dst} ELSE {}) \ {0})
  <2>1. PICK l \in links : l.dir = d /\ l.name = Requests!Last(at) /\ l.node = src
    BY <1>6, LookFacts DEF Requests!There
  <2>2. /\ src \in 1..Len(kind) /\ d \in Nat \ {0} /\ kind[src] # "part"
    <3>1. Requests!Last(at) \in Requests!Names
      BY <1>2, PathFacts
    <3> QED BY <2>1, <3>1 DEF FilesInv, FileTypes, LinkRecords
  <2>3. /\ new.dir = d /\ new.name = Requests!Last(to) /\ new.node = src /\ new.name \in Requests!Names
        /\ new \in LinkRecords'
    BY <1>1, <1>2, <1>3, <2>2, PathFacts DEF Requests!Link, LinkRecords
  <2>4. Requests!Entry(at) = {l} /\ \A m \in Requests!Entry(to) : m.node = dst /\ dst # 0
    <3>1. l \in Requests!Entry(at)
      BY <2>1 DEF Requests!Entry, Requests!Find
    <3> QED BY <3>1, LookFacts DEF Requests!Entry, Requests!There
  <2>5. \A m \in links \ gone : ~(m.dir = new.dir /\ m.name = new.name)
    BY <1>2, <2>3 DEF Requests!Entry, Requests!Find
  <2>6. new \notin links
    <3>1. new \in links => new \in Requests!Entry(to)
      BY <1>2, <2>3 DEF Requests!Entry, Requests!Find
    <3> QED BY <1>6, <2>3, <2>4, <3>1
  <2> HIDE DEF new
  <2>7. FileTypes'
    <3>1. IsFiniteSet(links')
      BY <1>6, FS_Subset, FS_AddElement DEF FilesInv, FileTypes
    <3>2. LinkRecords \subseteq LinkRecords'
      BY <1>1, <1>3 DEF LinkRecords
    <3> QED BY <1>1, <1>3, <1>6, <2>3, <3>1, <3>2 DEF FilesInv, FileTypes
  <2>8. \A m, k \in links' : m.dir = k.dir /\ m.name = k.name => m = k
    BY <1>6, <2>5 DEF FilesInv
  <2>9. /\ \A m \in links' : kind'[m.node] = "part" <=> m.name \notin Requests!Names
        /\ \A m, k \in links' : kind'[m.node] = "part" /\ m.node = k.node => m = k
    BY <1>1, <1>6, <2>2, <2>3 DEF FilesInv
  <2>10. ASSUME NEW q \in Requests!Requests', IsPending(jobs'[q])
         PROVE  jobs'[q].node \in 1..Len(kind') /\ kind'[jobs'[q].node] = "file"
    <3>0. PICK n : n = jobs'[q].node
      OBVIOUS
    <3>1. q \in Pending(n)'
      BY <3>0, <2>10 DEF Pending
    <3>2. q \in Pending(n)
      BY <3>0, <1>3, <3>1
    <3> QED BY <3>0, <1>1, <3>2 DEF FilesInv, Pending
  <2>11. ASSUME NEW i \in 1..Len(kind'), kind'[i] = "file", i \notin doomed' \cup slipped'
         PROVE  Cardinality(NamesOf(i)') >= Cardinality(Pending(i)') + 1
    <3>1. CASE i = src
      <4>1. NamesOf(i)' = (NamesOf(i) \ {l}) \cup {new} /\ l \in NamesOf(i) /\ new \notin NamesOf(i)
        BY <1>6, <2>1, <2>3, <2>4, <2>6, <3>1 DEF NamesOf
      <4>2. IsFiniteSet(NamesOf(i)) /\ IsFiniteSet(Pending(i))
        <5>1. IsFiniteSet(Requests!Requests)
          BY FS_Interval DEF FilesInv, FileTypes, Requests!Requests
        <5> QED BY <5>1, FS_Subset DEF NamesOf, Pending, FilesInv, FileTypes
      <4>3. Cardinality(NamesOf(i)') = Cardinality(NamesOf(i))
        <5> DEFINE rest == NamesOf(i) \ {l}
        <5>1. IsFiniteSet(rest) /\ Cardinality(rest) = Cardinality(NamesOf(i)) - 1 /\ new \notin rest
          BY <4>1, <4>2, FS_RemoveElement
        <5>2. Cardinality(rest \cup {new}) = Cardinality(rest) + 1
          BY <5>1, FS_AddElement
        <5> HIDE DEF rest
        <5> QED BY <4>1, <4>2, <5>1, <5>2, FS_CardinalityType DEF rest
      <4>4. Cardinality(Pending(i)') <= Cardinality(Pending(i)) /\ IsFiniteSet(Pending(i)')
        BY <1>3, <4>2, FS_Subset
      <4>5. Cardinality(NamesOf(i)) >= Cardinality(Pending(i)) + 1
        BY <1>1, <1>6, <2>11 DEF FilesInv
      <4> QED BY <4>2, <4>3, <4>4, <4>5, FS_CardinalityType
    <3>2. CASE i # src
      <4>1. dst # i
        <5>1. CASE Requests!IsFolder(dst)
          BY <1>1, <2>11, <5>1 DEF Requests!IsFolder
        <5>2. CASE ~Requests!IsFolder(dst)
          BY <1>6, <2>11, <5>2
        <5> QED BY <5>1, <5>2
      <4>2. NamesOf(i) \subseteq NamesOf(i)' /\ kind[i] = "file"
        BY <1>1, <1>6, <2>1, <2>4, <2>11, <3>2, <4>1 DEF NamesOf
      <4> QED BY <1>1, <1>3, <1>6, <2>7, <2>11, <4>2, KeptOn DEF FileTypes
    <3> QED BY <3>1, <3>2
  <2> QED BY <2>7, <2>8, <2>9, <2>10, <2>11 DEF FilesInv
<1> QED BY <1>1, <1>2, <1>5, <1>6

(* link(2): the file has one name more, and one rename more that may take  *)
(* a name of it away.                                                      *)
LEMMA LinksStep == ASSUME FilesInv, Requests!RenameLinks PROVE FilesInv'
<1>1. PICK r \in Requests!Running("rename", "link") :
        LET src == Requests!There(jobs[r].at)  taken == Requests!There(jobs[r].to) # 0 IN
        /\ jobs' = [jobs EXCEPT ![r] = Requests!Onward(
             IF Requests!IsFolder(src) THEN "vacant" ELSE IF src = 0 \/ taken THEN "done" ELSE "unlink",
             [jobs[r] EXCEPT !.node = src])]
        /\ links' = IF src = 0 \/ Requests!IsFolder(src) \/ taken THEN links
                    ELSE links \cup {Requests!Link(Requests!Folder(jobs[r].to), Requests!Last(jobs[r].to), src)}
        /\ UNCHANGED <<kind, doomed, slipped>>
  BY DEF Requests!RenameLinks, Requests!None, Requests!lost
<1> DEFINE at == jobs[r].at
           to == jobs[r].to
           d == Requests!Folder(at)
           src == Requests!There(at)
           dst == Requests!There(to)
           step == IF Requests!IsFolder(src) THEN "vacant" ELSE IF src = 0 \/ dst # 0 THEN "done" ELSE "unlink"
           w == Requests!Onward(step, [jobs[r] EXCEPT !.node = src])
           new == Requests!Link(d, Requests!Last(to), src)
<1>2. /\ at \in Requests!Paths /\ to \in Requests!Paths /\ Requests!Folder(to) = d
      /\ r \in Requests!Requests /\ jobs[r] \in JobRecords /\ ~IsPending(jobs[r])
  BY RunningJob, OneFolder
<1>3. src \in Nat
  <2>1. src = 0 \/ src \in 1..Len(kind)
    BY LookFacts DEF Requests!There
  <2> QED BY <2>1
<1>4. w \in JobRecords /\ (IsPending(w) => step = "unlink" /\ w.node = src)
  <2>1. step \in Steps /\ step # "undo"
    BY DEF Steps
  <2> HIDE DEF step, src
  <2>2. step \notin {"unlink", "undo"} => ~IsPending(w)
    BY <1>2, <1>3, <2>1, OnwardFacts
  <2>3. step = "unlink" => w.node = src
    BY <1>2, <1>3, <2>1, OnwardFacts
  <2> QED BY <1>2, <1>3, <2>1, <2>2, <2>3, OnwardFacts
<1>5. jobs' = [jobs EXCEPT ![r] = w]
  BY <1>1
<1>6. /\ jobs' \in Seq(JobRecords) /\ Len(jobs') = Len(jobs) /\ Requests!Requests' = Requests!Requests
      /\ \A i : Pending(i)' = (Pending(i) \ {r}) \cup (IF IsPending(w) /\ w.node = i THEN {r} ELSE {})
  <2> HIDE DEF w
  <2> QED BY <1>2, <1>4, <1>5, JobChanges
<1>7. \A i : r \notin Pending(i)
  BY <1>2 DEF Pending
<1>8. Len(jobs') >= Len(jobs)
  BY <1>6 DEF FilesInv, FileTypes
<1>9. CASE src = 0 \/ Requests!IsFolder(src) \/ dst # 0
  <2>1. step # "unlink" /\ links' = links /\ UNCHANGED <<kind, doomed, slipped>>
    BY <1>1, <1>9
  <2>2. \A i : Pending(i)' \subseteq Pending(i)
    BY <1>4, <1>6, <2>1
  <2> QED BY <1>6, <1>8, <2>1, <2>2, NothingTouched
<1>10. CASE src # 0 /\ ~Requests!IsFolder(src) /\ dst = 0
  <2>1. step = "unlink" /\ links' = links \cup {new} /\ UNCHANGED <<kind, doomed, slipped>>
    BY <1>1, <1>2, <1>10
  <2>2. PICK l \in links : l.dir = d /\ l.name = Requests!Last(at) /\ l.node = src
    BY <1>10, LookFacts DEF Requests!There
  <2>3. src \in 1..Len(kind) /\ d \in Nat \ {0} /\ kind[src] = "file"
    <3>1. Requests!Last(at) \in Requests!Names
      BY <1>2, PathFacts
    <3>2. src \in 1..Len(kind) /\ d \in Nat \ {0} /\ kind[src] # "part"
      BY <2>2, <3>1 DEF FilesInv, FileTypes, LinkRecords
    <3>3. kind[src] \in {"folder", "file", "part"}
      BY <3>2 DEF FilesInv, FileTypes
    <3> QED BY <1>10, <3>2, <3>3 DEF Requests!IsFolder, Requests!None
  <2>4. /\ new.dir = d /\ new.name = Requests!Last(to) /\ new.node = src /\ new.name \in Requests!Names
        /\ new \in LinkRecords'
    BY <1>2, <1>6, <2>1, <2>3, PathFacts DEF Requests!Link, LinkRecords
  <2>5. \A m \in links : ~(m.dir = new.dir /\ m.name = new.name)
    <3>1. Requests!Find(d, Requests!Last(to)) = {}
      BY <1>2, <1>10, LookFacts DEF Requests!There
    <3> QED BY <2>4, <3>1 DEF Requests!Find
  <2>6. \A i : Pending(i)' = Pending(i) \cup (IF i = src THEN {r} ELSE {}) \/ (Pending(i)' = Pending(i))
    BY <1>4, <1>6, <1>7
  <2> HIDE DEF new, w, step
  <2>7. FileTypes'
    <3>1. IsFiniteSet(links')
      BY <2>1, FS_AddElement DEF FilesInv, FileTypes
    <3>2. LinkRecords \subseteq LinkRecords'
      BY <1>6, <2>1 DEF LinkRecords
    <3> QED BY <1>6, <2>1, <2>4, <3>1, <3>2 DEF FilesInv, FileTypes
  <2>8. /\ \A m, k \in links' : m.dir = k.dir /\ m.name = k.name => m = k
        /\ \A m \in links' : kind'[m.node] = "part" <=> m.name \notin Requests!Names
        /\ \A m, k \in links' : kind'[m.node] = "part" /\ m.node = k.node => m = k
    BY <2>1, <2>3, <2>4, <2>5 DEF FilesInv
  <2>9. ASSUME NEW q \in Requests!Requests', IsPending(jobs'[q])
        PROVE  jobs'[q].node \in 1..Len(kind') /\ kind'[jobs'[q].node] = "file"
    <3>0. PICK n : n = jobs'[q].node
      OBVIOUS
    <3>1. q \in Pending(n)'
      BY <3>0, <2>9 DEF Pending
    <3>2. q \in Pending(n) \/ n = src
      BY <3>0, <1>4, <1>6, <3>1
    <3> QED BY <3>0, <2>1, <2>3, <3>2 DEF FilesInv, Pending
  <2>10. ASSUME NEW i \in 1..Len(kind'), kind'[i] = "file", i \notin doomed' \cup slipped'
         PROVE  Cardinality(NamesOf(i)') >= Cardinality(Pending(i)') + 1
    <3>1. CASE i = src
      <4>1. NamesOf(i)' = NamesOf(i) \cup {new} /\ new \notin NamesOf(i)
        BY <2>1, <2>4, <2>5, <3>1 DEF NamesOf
      <4>2. IsFiniteSet(NamesOf(i)) /\ IsFiniteSet(Pending(i))
        <5>1. IsFiniteSet(Requests!Requests)
          BY FS_Interval DEF FilesInv, FileTypes, Requests!Requests
        <5> QED BY <5>1, FS_Subset DEF NamesOf, Pending, FilesInv, FileTypes
      <4>3. Cardinality(NamesOf(i)') = Cardinality(NamesOf(i)) + 1
        BY <4>1, <4>2, FS_AddElement
      <4>4. Cardinality(Pending(i)') <= Cardinality(Pending(i)) + 1
        <5>1. Cardinality(Pending(i) \cup {r}) = Cardinality(Pending(i)) + 1
          BY <1>7, <4>2, FS_AddElement
        <5>2. Cardinality(Pending(i)) \in Nat
          BY <4>2, FS_CardinalityType
        <5>3. Pending(i)' = Pending(i) \cup {r} \/ Pending(i)' = Pending(i)
          BY <2>6, <3>1
        <5>4. Cardinality(Pending(i)') \in {Cardinality(Pending(i)) + 1, Cardinality(Pending(i))}
          BY <5>1, <5>3
        <5> QED BY <5>2, <5>4
      <4>5. Cardinality(NamesOf(i)) >= Cardinality(Pending(i)) + 1
        BY <2>1, <2>10 DEF FilesInv
      <4>6. IsFiniteSet(Pending(i)')
        <5>1. IsFiniteSet(Pending(i) \cup {r})
          BY <4>2, FS_AddElement
        <5> QED BY <2>6, <4>2, <5>1
      <4> QED BY <4>2, <4>3, <4>4, <4>5, <4>6, FS_CardinalityType
    <3>2. CASE i # src
      <4>1. NamesOf(i) \subseteq NamesOf(i)' /\ kind[i] = "file" /\ Pending(i)' \subseteq Pending(i)
        BY <2>1, <2>6, <2>10, <3>2 DEF NamesOf
      <4> QED BY <2>1, <2>7, <2>10, <4>1, KeptOn DEF FileTypes
    <3> QED BY <3>1, <3>2
  <2> QED BY <2>7, <2>8, <2>9, <2>10 DEF FilesInv
<1> QED BY <1>9, <1>10

(* A rename ends and removes the entry of one of its two names: that of its*)
(* own file, which has names to spare, or of one that slipped under it.    *)
LEMMA TakesBackStep ==
  ASSUME FilesInv, NEW r \in Requests!Requests, IsPending(jobs[r]), NEW p \in Requests!Paths,
         Requests!Moves(r, "done"), links' = links \ Requests!Entry(p),
         slipped' = slipped \cup ({Requests!There(p)} \ {0, jobs[r].node}), UNCHANGED <<kind, doomed>>
  PROVE  FilesInv'
<1> DEFINE node == jobs[r].node
           old == Requests!There(p)
<1>1. /\ jobs' \in Seq(JobRecords) /\ Len(jobs') = Len(jobs) /\ Requests!Requests' = Requests!Requests
      /\ \A i : Pending(i)' = Pending(i) \ {r}
  BY MovesFacts DEF Steps
<1>2. Len(jobs') >= Len(jobs)
  BY <1>1 DEF FilesInv, FileTypes
<1>3. \A m \in Requests!Entry(p) : m.node = old /\ old # 0 /\ Requests!Entry(p) = {m}
  BY LookFacts DEF Requests!Entry, Requests!There
<1>4. CASE old # node
  <2>1. \A l \in links \cap Requests!Entry(p) : l.node \in slipped'
    BY <1>3, <1>4
  <2> QED BY <1>1, <1>2, <2>1, RemovalStep
<1>5. CASE old = node
  <2>1. links' \subseteq links /\ slipped \subseteq slipped' /\ r \in Pending(node)
    BY DEF Pending
  <2>2. FileTypes'
    <3>1. IsFiniteSet(links')
      BY <2>1, FS_Subset DEF FilesInv, FileTypes
    <3>2. LinkRecords \subseteq LinkRecords'
      BY <1>1 DEF LinkRecords
    <3> QED BY <1>1, <2>1, <3>1, <3>2 DEF FilesInv, FileTypes
  <2>3. /\ \A m, k \in links' : m.dir = k.dir /\ m.name = k.name => m = k
        /\ \A m \in links' : kind'[m.node] = "part" <=> m.name \notin Requests!Names
        /\ \A m, k \in links' : kind'[m.node] = "part" /\ m.node = k.node => m = k
    BY <2>1 DEF FilesInv
  <2>4. ASSUME NEW q \in Requests!Requests', IsPending(jobs'[q])
        PROVE  jobs'[q].node \in 1..Len(kind') /\ kind'[jobs'[q].node] = "file"
    <3>0. PICK n : n = jobs'[q].node
      OBVIOUS
    <3>1. q \in Pending(n)'
      BY <3>0, <2>4 DEF Pending
    <3>2. q \in Pending(n)
      BY <3>0, <1>1, <3>1
    <3> QED BY <3>0, <3>2 DEF FilesInv, Pending
  <2>5. ASSUME NEW i \in 1..Len(kind'), kind'[i] = "file", i \notin doomed' \cup slipped'
        PROVE  Cardinality(NamesOf(i)') >= Cardinality(Pending(i)') + 1
    <3>1. CASE i = node
      <4>1. IsFiniteSet(NamesOf(i)) /\ IsFiniteSet(Pending(i))
        <5>1. IsFiniteSet(Requests!Requests)
          BY FS_Interval DEF FilesInv, FileTypes, Requests!Requests
        <5> QED BY <5>1, FS_Subset DEF NamesOf, Pending, FilesInv, FileTypes
      <4>2. Cardinality(Pending(i)') = Cardinality(Pending(i)) - 1
        BY <1>1, <2>1, <3>1, <4>1, FS_RemoveElement
      <4>3. Cardinality(NamesOf(i)') >= Cardinality(NamesOf(i)) - 1
        <5>1. CASE Requests!Entry(p) = {}
          <6>1. NamesOf(i)' = NamesOf(i)
            BY <5>1 DEF NamesOf
          <6> QED BY <4>1, <6>1, FS_CardinalityType
        <5>2. CASE Requests!Entry(p) # {}
          <6>1. PICK m \in Requests!Entry(p) : Requests!Entry(p) = {m}
            BY <1>3, <5>2
          <6>2. NamesOf(i)' = NamesOf(i) \ {m}
            BY <6>1 DEF NamesOf
          <6>3. Cardinality(NamesOf(i) \ {m}) = IF m \in NamesOf(i) THEN Cardinality(NamesOf(i)) - 1
                                                ELSE Cardinality(NamesOf(i))
            BY <4>1, FS_RemoveElement
          <6> QED BY <4>1, <6>2, <6>3, FS_CardinalityType
        <5> QED BY <5>1, <5>2
      <4>4. Cardinality(NamesOf(i)) >= Cardinality(Pending(i)) + 1
        BY <2>1, <2>5 DEF FilesInv
      <4>5. IsFiniteSet(NamesOf(i)')
        BY <2>1, <4>1, FS_Subset DEF NamesOf
      <4> QED BY <4>1, <4>2, <4>3, <4>4, <4>5, FS_CardinalityType
    <3>2. CASE i # node
      <4>1. NamesOf(i) \subseteq NamesOf(i)'
        BY <1>3, <1>5, <3>2 DEF NamesOf
      <4> QED BY <1>1, <2>1, <2>2, <2>5, <4>1, KeptOn DEF FileTypes
    <3> QED BY <3>1, <3>2
  <2> QED BY <2>2, <2>3, <2>4, <2>5 DEF FilesInv
<1> QED BY <1>4, <1>5

LEMMA UnlinksStep == ASSUME FilesInv, Requests!RenameUnlinks PROVE FilesInv'
<1>1. PICK r \in Requests!Running("rename", "unlink"), allowed \in BOOLEAN :
        LET old == Requests!There(jobs[r].at)  may == allowed /\ ~Requests!IsFolder(old) IN
        /\ Requests!Moves(r, IF may \/ old = 0 THEN "done" ELSE "undo")
        /\ links' = IF may THEN links \ Requests!Entry(jobs[r].at) ELSE links
        /\ slipped' = slipped \cup ((IF may THEN {old} ELSE {}) \ {0, jobs[r].node})
        /\ UNCHANGED <<kind, doomed>>
  BY DEF Requests!RenameUnlinks, Requests!None
<1>2. r \in Requests!Requests /\ jobs[r].at \in Requests!Paths /\ IsPending(jobs[r])
  BY RunningJob
<1> DEFINE old == Requests!There(jobs[r].at)
           may == allowed /\ ~Requests!IsFolder(old)
<1>3. CASE may
  <2>1. /\ Requests!Moves(r, "done") /\ links' = links \ Requests!Entry(jobs[r].at)
        /\ slipped' = slipped \cup ({old} \ {0, jobs[r].node})
    BY <1>1, <1>3
  <2> QED BY <1>1, <1>2, <2>1, TakesBackStep
<1>4. CASE ~may
  <2>1. PICK step \in {"done", "undo"} : Requests!Moves(r, step)
    BY <1>1
  <2>2. UNCHANGED <<kind, links, doomed, slipped>>
    BY <1>1, <1>4
  <2>3. jobs' \in Seq(JobRecords) /\ Len(jobs') = Len(jobs) /\ \A i : Pending(i)' \subseteq Pending(i)
    BY <1>2, <2>1, MovesFacts DEF Steps
  <2>4. Len(jobs') >= Len(jobs)
    BY <2>3 DEF FilesInv, FileTypes
  <2> QED BY <2>2, <2>3, <2>4, NothingTouched
<1> QED BY <1>3, <1>4

LEMMA UndoesStep == ASSUME FilesInv, Requests!RenameUndoes PROVE FilesInv'
<1>1. PICK r \in Requests!Running("rename", "undo") :
        LET new == Requests!There(jobs[r].to) IN
        /\ Requests!Moves(r, "done")
        /\ links' = IF Requests!IsFolder(new) THEN links ELSE links \ Requests!Entry(jobs[r].to)
        /\ slipped' = slipped \cup ((IF Requests!IsFolder(new) THEN {} ELSE {new}) \ {0, jobs[r].node})
        /\ UNCHANGED <<kind, doomed>>
  BY DEF Requests!RenameUndoes, Requests!None, Requests!Ends
<1>2. r \in Requests!Requests /\ jobs[r].to \in Requests!Paths /\ IsPending(jobs[r])
  BY RunningJob
<1>3. CASE ~Requests!IsFolder(Requests!There(jobs[r].to))
  <2>1. /\ links' = links \ Requests!Entry(jobs[r].to)
        /\ slipped' = slipped \cup ({Requests!There(jobs[r].to)} \ {0, jobs[r].node})
    BY <1>1, <1>3
  <2> QED BY <1>1, <1>2, <2>1, TakesBackStep
<1>4. CASE Requests!IsFolder(Requests!There(jobs[r].to))
  <2>1. UNCHANGED <<kind, links, doomed, slipped>>
    BY <1>1, <1>4
  <2>2. jobs' \in Seq(JobRecords) /\ Len(jobs') = Len(jobs) /\ \A i : Pending(i)' \subseteq Pending(i)
    BY <1>1, <1>2, MovesFacts DEF Steps
  <2>3. Len(jobs') >= Len(jobs)
    BY <2>2 DEF FilesInv, FileTypes
  <2> QED BY <2>1, <2>2, <2>3, NothingTouched
<1> QED BY <1>3, <1>4

(* The next item of a delete, or its end.                                  *)
LEMMA NextItemFacts ==
  ASSUME FilesInv, NEW step, NEW r \in Requests!Running("delete", step), Requests!NextItem(r)
  PROVE  jobs' \in Seq(JobRecords) /\ Len(jobs') >= Len(jobs) /\ \A i : Pending(i)' \subseteq Pending(i)
<1> DEFINE j == jobs[r]
           w == IF j.rest = <<>> THEN Requests!Done
                ELSE [j EXCEPT !.step = "look", !.at = Head(j.rest), !.rest = Tail(j.rest)]
<1>1. r \in Requests!Requests /\ j \in JobRecords /\ j.op = "delete" /\ j.rest \in Seq(Requests!Paths)
  BY RunningJob DEF JobRecords
<1>2. w \in JobRecords /\ ~IsPending(w)
  <2>1. CASE j.rest = <<>>
    BY <2>1, DoneIsARecord
  <2>2. CASE j.rest # <<>>
    <3>1. Head(j.rest) \in Requests!Paths /\ Tail(j.rest) \in Seq(Requests!Paths)
      BY <1>1, <2>2
    <3> DEFINE h == Head(j.rest)
               t == Tail(j.rest)
               v == [j EXCEPT !.step = "look", !.at = h, !.rest = t]
    <3>2. h \in Requests!Paths /\ t \in Seq(Requests!Paths)
      BY <3>1
    <3> HIDE DEF h, t, j
    <3>3. v \in JobRecords /\ v.op = "delete"
      BY <1>1, <3>2 DEF JobRecords, Steps
    <3>4. w = v
      BY <2>2 DEF h, t
    <3> QED BY <3>3, <3>4 DEF IsPending
  <2> QED BY <2>1, <2>2
<1>3. jobs' = [jobs EXCEPT ![r] = w]
  BY DEF Requests!NextItem
<1> HIDE DEF w
<1>4. /\ jobs' \in Seq(JobRecords) /\ Len(jobs') = Len(jobs)
      /\ \A i : Pending(i)' = (Pending(i) \ {r}) \cup (IF IsPending(w) /\ w.node = i THEN {r} ELSE {})
  BY <1>1, <1>2, <1>3, JobChanges
<1> QED BY <1>2, <1>4 DEF FilesInv, FileTypes

LEMMA DeleteStartsStep ==
  ASSUME FilesInv, NEW p \in Requests!Paths, NEW q \in Requests!Paths, Requests!DeleteStarts(<<p, q>>)
  PROVE  FilesInv'
<1> DEFINE w == [Requests!Job("delete", p) EXCEPT !.step = "look", !.rest = <<q>>]
<1>1. jobs' = Append(jobs, w) /\ UNCHANGED <<kind, links, doomed, slipped>>
  BY DEF Requests!DeleteStarts, Requests!lost
<1>2. w \in JobRecords /\ ~IsPending(w)
  <2> DEFINE j == Requests!Job("delete", p)
  <2>1. j \in JobRecords /\ j.op = "delete"
    BY DEF Requests!Job, Requests!None, JobRecords, Steps
  <2>2. <<q>> \in Seq(Requests!Paths) /\ w = [j EXCEPT !.step = "look", !.rest = <<q>>]
    OBVIOUS
  <2> HIDE DEF w, j
  <2> QED BY <2>1, <2>2 DEF JobRecords, Steps, IsPending
<1> HIDE DEF w
<1>3. jobs' \in Seq(JobRecords) /\ Len(jobs') >= Len(jobs) /\ \A i : Pending(i)' \subseteq Pending(i)
  BY <1>1, <1>2, AppendFacts
<1> QED BY <1>1, <1>3, NothingTouched

LEMMA DeletesStep ==
  ASSUME FilesInv, Requests!DeleteLooks \/ Requests!DeleteEmpties \/ Requests!DeleteRemoves \/ Requests!DeleteGivesUp
  PROVE  FilesInv'
<1>1. ASSUME jobs' \in Seq(JobRecords), Len(jobs') >= Len(jobs), \A i : Pending(i)' \subseteq Pending(i),
             NEW gone, Requests!Removes(gone), kind' = kind
      PROVE  FilesInv'
  <2>1. /\ links' = links \ gone /\ slipped' = slipped
        /\ doomed' = doomed \cup {i \in {l.node : l \in gone} : kind[i] = "file"}
    BY <1>1 DEF Requests!Removes
  <2>2. \A l \in links \cap gone : kind[l.node] = "file" => l.node \in doomed' \cup slipped'
    BY <2>1
  <2> QED BY <1>1, <2>1, <2>2, RemovalStep
<1>2. CASE Requests!DeleteLooks
  <2>1. PICK r \in Requests!Running("delete", "look") : Requests!NextItem(r) \/ Requests!Moves(r, "rm")
    BY <1>2 DEF Requests!DeleteLooks
  <2>2. UNCHANGED <<kind, links, doomed, slipped>>
    BY <1>2 DEF Requests!DeleteLooks, Requests!lost
  <2>3. CASE Requests!NextItem(r)
    BY <2>2, <2>3, NextItemFacts, NothingTouched
  <2>4. CASE Requests!Moves(r, "rm")
    <3>1. jobs' \in Seq(JobRecords) /\ Len(jobs') = Len(jobs) /\ \A i : Pending(i)' \subseteq Pending(i)
      BY <2>4, RunningJob, MovesFacts DEF Steps
    <3>2. Len(jobs') >= Len(jobs)
      BY <3>1 DEF FilesInv, FileTypes
    <3> QED BY <2>2, <3>1, <3>2, NothingTouched
  <2> QED BY <2>1, <2>3, <2>4
<1>3. CASE Requests!DeleteEmpties
  <2>1. PICK l : Requests!Removes({l})
    BY <1>3 DEF Requests!DeleteEmpties
  <2>2. jobs' = jobs /\ kind' = kind
    BY <1>3 DEF Requests!DeleteEmpties
  <2>3. jobs' \in Seq(JobRecords) /\ Len(jobs') >= Len(jobs) /\ \A i : Pending(i)' \subseteq Pending(i)
    BY <2>2 DEF FilesInv, FileTypes, Pending, Requests!Requests
  <2> QED BY <1>1, <2>1, <2>2, <2>3
<1>4. CASE Requests!DeleteRemoves
  <2>1. PICK r \in Requests!Running("delete", "rm") :
          Requests!Removes(Requests!Entry(jobs[r].at)) /\ Requests!NextItem(r)
    BY <1>4 DEF Requests!DeleteRemoves
  <2>2. kind' = kind
    BY <1>4 DEF Requests!DeleteRemoves
  <2>3. jobs' \in Seq(JobRecords) /\ Len(jobs') >= Len(jobs) /\ \A i : Pending(i)' \subseteq Pending(i)
    BY <2>1, NextItemFacts
  <2> QED BY <1>1, <2>1, <2>2, <2>3
<1>5. CASE Requests!DeleteGivesUp
  <2>1. PICK r \in Requests!Running("delete", "rm") : Requests!NextItem(r)
    BY <1>5 DEF Requests!DeleteGivesUp
  <2>2. UNCHANGED <<kind, links, doomed, slipped>>
    BY <1>5 DEF Requests!DeleteGivesUp, Requests!lost
  <2> QED BY <2>1, <2>2, NextItemFacts, NothingTouched
<1> QED BY <1>2, <1>3, <1>4, <1>5

LEMMA DiesStep == ASSUME FilesInv, Requests!Dies PROVE FilesInv'
<1>1. jobs' = [r \in Requests!Requests |-> Requests!Done] /\ UNCHANGED <<kind, links, doomed, slipped>>
  BY DEF Requests!Dies, Requests!lost
<1>2. Len(jobs) \in Nat /\ Requests!Requests = 1..Len(jobs)
  BY DEF FilesInv, FileTypes, Requests!Requests
<1>3. jobs' \in Seq(JobRecords) /\ Len(jobs') = Len(jobs)
  BY <1>1, <1>2, DoneIsARecord
<1>4. \A i : Pending(i)' = {}
  <2>1. \A r \in Requests!Requests' : jobs'[r] = Requests!Done
    BY <1>1, <1>2, <1>3 DEF Requests!Requests
  <2>2. \A i, r : r \notin Pending(i)'
    BY <2>1, DoneIsARecord DEF Pending, IsPending
  <2> QED BY <2>2
<1>5. Len(jobs') >= Len(jobs)
  BY <1>2, <1>3
<1> QED BY <1>1, <1>3, <1>4, <1>5, NothingTouched

LEMMA FilesStep == ASSUME FilesInv, [Requests!FilesNext]_(Requests!vars) PROVE FilesInv'
<1>1. CASE UNCHANGED Requests!vars
  <2>1. jobs' = jobs /\ UNCHANGED <<kind, links, doomed, slipped>>
    BY <1>1 DEF Requests!vars
  <2>2. jobs' \in Seq(JobRecords) /\ Len(jobs') >= Len(jobs) /\ \A i : Pending(i)' \subseteq Pending(i)
    BY <2>1 DEF FilesInv, FileTypes, Pending, Requests!Requests
  <2> QED BY <2>1, <2>2, NothingTouched
<1>2. CASE Requests!Works
  BY <1>2, CreatesStep, UploadStartsStep, UploadEndsStep, RenameStartsStep, SeesVacantStep, MovesStep, LinksStep,
     UnlinksStep, UndoesStep, DeleteStartsStep, DeletesStep DEF Requests!Works
<1> QED BY <1>1, <1>2, DiesStep DEF Requests!FilesNext

(* Whatever number of uploads, renames and deletes cross on the user's     *)
(* disk, and wherever the backend dies in the middle of them: a file keeps *)
(* a name until somebody asked to remove it or slipped another one under   *)
(* its name, and no half an upload stands under a name of the user.        *)
THEOREM FilesStay == Requests!FilesSpec => []FilesAreKept
<1>1. FilesInv => FilesAreKept
  <2> SUFFICES ASSUME FilesInv PROVE FilesAreKept
    OBVIOUS
  <2>1. ASSUME NEW i \in 1..Len(kind), kind[i] = "file", i \notin doomed \cup slipped
        PROVE  \E l \in links : l.node = i
    <3>1. IsFiniteSet(Pending(i)) /\ Cardinality(NamesOf(i)) >= Cardinality(Pending(i)) + 1
      <4>1. IsFiniteSet(Requests!Requests)
        BY FS_Interval DEF FilesInv, FileTypes, Requests!Requests
      <4> QED BY <2>1, <4>1, FS_Subset DEF Pending, FilesInv
    <3>2. NamesOf(i) # {}
      <4>1. Cardinality(Pending(i)) \in Nat /\ Cardinality({}) = 0
        BY <3>1, FS_CardinalityType, FS_EmptySet
      <4> SUFFICES ASSUME NamesOf(i) = {} PROVE FALSE
        OBVIOUS
      <4>2. Cardinality(NamesOf(i)) = 0
        BY <4>1
      <4> QED BY <3>1, <4>1, <4>2
    <3> QED BY <3>2 DEF NamesOf
  <2>2. Requests!NothingLost
    BY <2>1 DEF Requests!NothingLost
  <2>3. Requests!UploadsAreWhole
    BY DEF FilesInv, Requests!UploadsAreWhole
  <2> QED BY <2>2, <2>3 DEF FilesAreKept
<1>2. ASSUME FilesInv, [Requests!FilesNext]_(Requests!vars) PROVE FilesInv'
  BY <1>2, FilesStep
<1> QED BY <1>1, <1>2, FilesInitially, PTL DEF Requests!FilesSpec

-----------------------------------------------------------------------------
(***************************************************************************)
(* The launch dialog                                                       *)
(***************************************************************************)

ToolNames == {"claude", "grok", "terminal"}
StartValues == {"fresh", "last"} \cup Projects
Choices == [model : Launching!Models, start : StartValues]
Dialogs ==
  [shown : BOOLEAN, kind : ToolNames, project : Projects \cup {NoValue}, perm : Launching!Perms,
   hand : Launching!Perms, byHand : SUBSET {"model", "perm"}, chosen : [Launching!Agents -> Choices],
   go : BOOLEAN, asked : BOOLEAN, heard : BOOLEAN]
Meanings ==
  [model : Launching!Models \cup {NoValue}, own : Launching!Models \cup {NoValue},
   perm : Launching!Perms \cup {NoValue}, start : [Launching!Agents -> StartValues \cup {NoValue}]]
Likings == [Projects -> [model : Launching!Models, perm : Launching!Perms]]

(* A start that resumes no conversation of another project or tool.        *)
Spawns ==
  [kind : {"terminal"}, project : Projects \cup {NoValue}] \cup
  {s \in [kind : Launching!Agents, project : Projects \cup {NoValue}, model : Launching!Models,
          perm : Launching!Perms, start : StartValues] :
     s.start \in Projects => s.kind = "claude" /\ s.start = s.project}
Flights == [what : {"tools", "history"}] \cup [what : {"start"}, spawn : Spawns]

(* What the hands did is what was meant, grok keeps the model of its own,  *)
(* and what the form shows is what the picks and the project lay on it.    *)
Own(d, m) ==
  /\ d.chosen["grok"].model = IF m.own # NoValue THEN m.own ELSE "standard"
  /\ d.chosen["grok"].start \in {"fresh", "last"}
Hands(d, m) ==
  /\ "perm" \in d.byHand <=> m.perm # NoValue
  /\ m.perm # NoValue => d.hand = m.perm
  /\ "model" \in d.byHand <=> m.model # NoValue
  /\ m.model # NoValue => d.chosen["claude"].model = m.model
  /\ \A k \in Launching!Agents : d.chosen[k].start \in {"fresh", m.start[k]}
Laid(d, prefs, m) ==
  d.kind \in Launching!Agents =>
    LET wanted == Launching!projectChoice(d.project, prefs)
        perm == IF m.perm # NoValue THEN m.perm ELSE IF d.kind = "claude" THEN wanted.perm ELSE "default" IN
    /\ d.perm = IF perm \in Launching!InertPerms(d.kind) THEN "default" ELSE perm
    /\ d.chosen["claude"].model = IF m.model # NoValue THEN m.model ELSE wanted.model
    /\ d.kind = "claude" /\ d.chosen["claude"].start \in Projects => d.chosen["claude"].start = d.project

(* The inductive invariant.                                                *)
LaunchTypes ==
  /\ list \in Seq(Projects) /\ likes \in Likings /\ hidden \subseteq ToolNames /\ avail \subseteq ToolNames
  /\ resumable \subseteq Projects /\ dialog \in Dialogs /\ meant \in Meanings /\ flights \in Seq(Flights)
LaunchInv ==
  /\ LaunchTypes /\ Own(dialog, meant)
  /\ dialog.shown => Hands(dialog, meant) /\ Laid(dialog, likes, meant) /\ Launching!SelectionCanLaunch

LEMMA ToolFacts ==
  /\ Launching!Range(Launching!Tools) = ToolNames
  /\ \A kinds \in SUBSET ToolNames : kinds # {} => Launching!First(kinds) \in kinds
<1>1. /\ DOMAIN Launching!Tools = {1, 2, 3}
      /\ Launching!Tools[1] = "claude" /\ Launching!Tools[2] = "grok" /\ Launching!Tools[3] = "terminal"
  BY DEF Launching!Tools
<1>2. Launching!Range(Launching!Tools) = ToolNames
  BY <1>1 DEF Launching!Range, ToolNames
<1>3. ASSUME NEW kinds \in SUBSET ToolNames, kinds # {} PROVE Launching!First(kinds) \in kinds
  <2> DEFINE T(i) == Launching!Tools[i] \in kinds /\ \A j \in 1..(i - 1) : Launching!Tools[j] \notin kinds
  <2>1. \E i \in DOMAIN Launching!Tools : T(i)
    <3>1. CASE "claude" \in kinds
      BY <1>1, <3>1
    <3>2. CASE "claude" \notin kinds /\ "grok" \in kinds
      BY <1>1, <3>2
    <3>3. CASE "claude" \notin kinds /\ "grok" \notin kinds
      <4>1. "terminal" \in kinds
        BY <1>3, <3>3 DEF ToolNames
      <4> QED BY <1>1, <3>3, <4>1
    <3> QED BY <3>1, <3>2, <3>3
  <2>2. T(CHOOSE i \in DOMAIN Launching!Tools : T(i))
    BY <2>1
  <2> QED BY <2>2 DEF Launching!First
<1> QED BY <1>2, <1>3

LEMMA ChoiceFacts ==
  ASSUME NEW p \in Projects \cup {NoValue}, NEW prefs \in Likings
  PROVE  /\ Launching!projectChoice(p, prefs).model \in Launching!Models
         /\ Launching!projectChoice(p, prefs).perm \in Launching!Perms
BY DEF Launching!projectChoice, Launching!Plain, Likings, Launching!Models, Launching!Perms

(* populateStart: the start that is shown is one of the list, "fresh" if it*)
(* was not.                                                                *)
LEMMA PopulateFacts ==
  ASSUME NEW d \in Dialogs, NEW entries \in SUBSET Projects
  PROVE  LET e == Launching!populateStart(d, entries) IN
         /\ e \in Dialogs
         /\ \A f \in {"shown", "kind", "project", "perm", "hand", "byHand", "go", "asked", "heard"} : e[f] = d[f]
         /\ \A k \in Launching!Agents : /\ e.chosen[k].model = d.chosen[k].model
                                        /\ e.chosen[k].start \in {"fresh", d.chosen[k].start}
         /\ d.kind \in Launching!Agents => e.chosen[d.kind].start \in Launching!Starts(d, entries)
<1>1. CASE d.kind \in Launching!Agents /\ d.chosen[d.kind].start \notin Launching!Starts(d, entries)
  <2> DEFINE e == [d EXCEPT !.chosen[d.kind].start = "fresh"]
  <2>1. Launching!populateStart(d, entries) = e
    BY <1>1 DEF Launching!populateStart
  <2>2. /\ e \in Dialogs
        /\ \A f \in {"shown", "kind", "project", "perm", "hand", "byHand", "go", "asked", "heard"} : e[f] = d[f]
        /\ e.chosen = [d.chosen EXCEPT ![d.kind] = [d.chosen[d.kind] EXCEPT !.start = "fresh"]]
    BY <1>1 DEF Dialogs, Choices, StartValues
  <2>3. \A k \in Launching!Agents : d.chosen[k] \in Choices
    BY DEF Dialogs
  <2> HIDE DEF e
  <2>4. \A k \in Launching!Agents : /\ e.chosen[k].model = d.chosen[k].model
                                    /\ e.chosen[k].start = IF k = d.kind THEN "fresh" ELSE d.chosen[k].start
    BY <2>2, <2>3 DEF Dialogs, Choices
  <2> QED BY <1>1, <2>1, <2>2, <2>4 DEF Launching!Starts
<1>2. CASE ~(d.kind \in Launching!Agents /\ d.chosen[d.kind].start \notin Launching!Starts(d, entries))
  BY <1>2 DEF Launching!populateStart
<1> QED BY <1>1, <1>2

(* Laying the vocabulary of the tool on the form keeps the hands of the    *)
(* user, and shows what they and the project lay on it.                    *)
Untouched == {"shown", "project", "hand", "byHand", "asked", "heard"}
LEMMA VocabFacts ==
  ASSUME NEW d \in Dialogs, NEW prefs \in Likings, NEW entries \in SUBSET Projects, NEW m \in Meanings, Own(d, m)
  PROVE  LET e == Launching!Vocab(d, prefs, entries) IN
         /\ e \in Dialogs /\ e.kind = d.kind /\ e.go = d.go
         /\ \A f \in Untouched : e[f] = d[f]
         /\ Own(e, m)
         /\ Hands(d, m) => Hands(e, m) /\ Laid(e, prefs, m)
<1>1. CASE d.kind \notin Launching!Agents
  BY <1>1 DEF Launching!Vocab, Laid
<1>2. CASE d.kind \in Launching!Agents
  <2> DEFINE wanted == Launching!projectChoice(d.project, prefs)
             perm == Launching!layerPerm(d, wanted)
             laidPerm == IF perm \in Launching!InertPerms(d.kind) THEN "default" ELSE perm
             laidModel == IF "model" \in d.byHand THEN d.chosen["claude"].model ELSE wanted.model
             laid == [d EXCEPT !.chosen["claude"].model = IF "model" \in d.byHand THEN @ ELSE wanted.model,
                               !.perm = laidPerm]
             e == Launching!populateStart(laid, entries)
  <2>1. Launching!Vocab(d, prefs, entries) = e
    BY <1>2 DEF Launching!Vocab, Launching!applyToolVocab
  <2>2. /\ d.project \in Projects \cup {NoValue} /\ d.perm \in Launching!Perms /\ d.hand \in Launching!Perms
        /\ d.chosen \in [Launching!Agents -> Choices] /\ "claude" \in Launching!Agents /\ "grok" \in Launching!Agents
        /\ d.chosen["claude"] \in Choices /\ d.chosen["claude"].model \in Launching!Models
    BY DEF Dialogs, Choices, Launching!Agents
  <2>3. wanted.model \in Launching!Models /\ wanted.perm \in Launching!Perms
    BY <2>2, ChoiceFacts
  <2>4. perm \in Launching!Perms /\ laidPerm \in Launching!Perms /\ laidModel \in Launching!Models
    BY <2>2, <2>3 DEF Launching!layerPerm, Launching!Perms
  <2>5. perm = IF "perm" \in d.byHand THEN d.hand ELSE IF d.kind = "claude" THEN wanted.perm ELSE "default"
    BY DEF Launching!layerPerm
  <2> HIDE DEF wanted, perm
  <2>6. laid = [d EXCEPT !.chosen = [d.chosen EXCEPT !["claude"] = [d.chosen["claude"] EXCEPT !.model = laidModel]],
                         !.perm = laidPerm]
    BY <2>2 DEF Dialogs
  <2>7. [d.chosen["claude"] EXCEPT !.model = laidModel] \in Choices
    BY <2>2, <2>4 DEF Choices
  <2> HIDE DEF laid, laidPerm, laidModel
  <2>8. laid \in Dialogs
    BY <2>2, <2>4, <2>6, <2>7 DEF Dialogs
  <2>9. /\ laid.kind = d.kind /\ laid.perm = laidPerm /\ laid.go = d.go /\ \A f \in Untouched : laid[f] = d[f]
        /\ laid.chosen["claude"].model = laidModel /\ laid.chosen["claude"].start = d.chosen["claude"].start
        /\ laid.chosen["grok"] = d.chosen["grok"]
    BY <2>2, <2>6 DEF Dialogs, Choices, Untouched
  <2>10. /\ e \in Dialogs /\ e.kind = d.kind /\ e.go = d.go /\ e.perm = laidPerm /\ \A f \in Untouched : e[f] = d[f]
         /\ \A k \in Launching!Agents : /\ e.chosen[k].model = laid.chosen[k].model
                                        /\ e.chosen[k].start \in {"fresh", laid.chosen[k].start}
         /\ e.chosen[d.kind].start \in Launching!Starts(laid, entries)
    BY <1>2, <2>8, <2>9, PopulateFacts DEF Untouched
  <2> HIDE DEF e
  <2>11. Own(e, m)
    BY <2>2, <2>9, <2>10 DEF Own
  <2>12. ASSUME Hands(d, m) PROVE Hands(e, m)
    <3>1. e.byHand = d.byHand /\ e.hand = d.hand
      BY <2>10 DEF Untouched
    <3>2. m.model # NoValue => e.chosen["claude"].model = m.model
      BY <2>2, <2>9, <2>10, <2>12 DEF Hands, laidModel
    <3>3. \A k \in Launching!Agents : e.chosen[k].start \in {"fresh", m.start[k]}
      BY <2>9, <2>10, <2>12 DEF Hands, Launching!Agents
    <3> QED BY <2>12, <3>1, <3>2, <3>3 DEF Hands
  <2>13. ASSUME Hands(d, m) PROVE Laid(e, prefs, m)
    <3>1. e.project = d.project /\ laid.project = d.project
      BY <2>9, <2>10 DEF Untouched
    <3>2. e.perm = LET p == IF m.perm # NoValue THEN m.perm ELSE IF d.kind = "claude" THEN wanted.perm ELSE "default" IN
                   IF p \in Launching!InertPerms(d.kind) THEN "default" ELSE p
      BY <2>5, <2>10, <2>13 DEF Hands, laidPerm
    <3>3. e.chosen["claude"].model = IF m.model # NoValue THEN m.model ELSE wanted.model
      BY <2>2, <2>9, <2>10, <2>13 DEF Hands, laidModel
    <3>4. d.kind = "claude" /\ e.chosen["claude"].start \in Projects => e.chosen["claude"].start = d.project
      BY <2>9, <2>10, <3>1, FoldersAssumption DEF Launching!Starts, Launching!ChoicesTold
    <3> QED BY <2>10, <3>1, <3>2, <3>3, <3>4 DEF Laid, wanted
  <2> QED BY <2>1, <2>10, <2>11, <2>12, <2>13
<1> QED BY <1>1, <1>2

(* What does not touch the form leaves what it promises.                   *)
Form == {"kind", "project", "perm", "hand", "byHand", "chosen"}
LEMMA SameForm ==
  ASSUME NEW d \in Dialogs, NEW e, \A f \in Form : e[f] = d[f], NEW m, NEW prefs
  PROVE  /\ Own(d, m) => Own(e, m)
         /\ Hands(d, m) => Hands(e, m)
         /\ Laid(d, prefs, m) => Laid(e, prefs, m)
<1>1. /\ e.kind = d.kind /\ e.project = d.project /\ e.perm = d.perm /\ e.hand = d.hand
      /\ e.byHand = d.byHand /\ e.chosen = d.chosen
  BY DEF Form
<1> QED BY <1>1 DEF Own, Hands, Laid

(* setKind and populateProjects: the tool or the project is another one,   *)
(* and so is what is laid for it.                                          *)
LEMMA SetKindFacts ==
  ASSUME NEW d \in Dialogs, NEW k \in ToolNames, NEW rows, NEW prefs \in Likings, NEW entries \in SUBSET Projects,
         NEW m \in Meanings, Own(d, m)
  PROVE  LET e == Launching!setKind(d, k, rows, prefs, entries) IN
         /\ e \in Dialogs /\ e.kind = k
         /\ \A f \in Untouched : e[f] = d[f]
         /\ Own(e, m)
         /\ Hands(d, m) => Hands(e, m) /\ Laid(e, prefs, m)
<1> DEFINE c == [d EXCEPT !.kind = k]
           v == Launching!Vocab(c, prefs, entries)
           e == [v EXCEPT !.go = rows # <<>> \/ v.kind = "terminal"]
<1>1. Launching!setKind(d, k, rows, prefs, entries) = e
  BY DEF Launching!setKind, Launching!syncLaunchable
<1>2. /\ c \in Dialogs /\ c.kind = k /\ c.chosen = d.chosen /\ \A f \in Untouched : c[f] = d[f]
  BY DEF Dialogs, Untouched
<1> HIDE DEF c
<1>3. /\ Own(c, m)
      /\ Hands(d, m) => Hands(c, m)
  BY <1>2 DEF Own, Hands, Untouched
<1>4. /\ v \in Dialogs /\ v.kind = k /\ \A f \in Untouched : v[f] = d[f]
      /\ Own(v, m)
      /\ Hands(d, m) => Hands(v, m) /\ Laid(v, prefs, m)
  BY <1>2, <1>3, VocabFacts
<1> HIDE DEF v
<1>5. /\ e \in Dialogs /\ e.kind = v.kind
      /\ \A f \in Untouched : e[f] = v[f]
      /\ \A f \in Form : e[f] = v[f]
  <2>1. (rows # <<>> \/ v.kind = "terminal") \in BOOLEAN
    OBVIOUS
  <2> QED BY <1>4, <2>1 DEF Dialogs, Untouched, Form
<1> HIDE DEF e
<1>6. /\ Own(e, m)
      /\ Hands(v, m) => Hands(e, m)
      /\ Laid(v, prefs, m) => Laid(e, prefs, m)
  BY <1>4, <1>5, SameForm
<1> QED BY <1>1, <1>4, <1>5, <1>6

LEMMA PopulateProjectsFacts ==
  ASSUME NEW d \in Dialogs, NEW rows \in Seq(Projects), NEW m \in Meanings
  PROVE  LET e == Launching!populateProjects(d, rows) IN
         /\ e \in Dialogs /\ e.kind = d.kind /\ e.chosen = d.chosen
         /\ \A f \in Untouched \ {"project"} : e[f] = d[f]
         /\ Own(d, m) => Own(e, m)
         /\ Hands(d, m) => Hands(e, m)
<1> DEFINE p == IF d.project \in Launching!Range(rows) THEN d.project ELSE IF rows = <<>> THEN NoValue ELSE Head(rows)
           c == [d EXCEPT !.project = p]
           e == [c EXCEPT !.go = rows # <<>> \/ c.kind = "terminal"]
<1>1. Launching!populateProjects(d, rows) = e
  BY DEF Launching!populateProjects, Launching!syncLaunchable, Dialogs
<1>2. p \in Projects \cup {NoValue}
  BY DEF Dialogs
<1> HIDE DEF p
<1>3. /\ e \in Dialogs /\ e.kind = d.kind /\ e.chosen = d.chosen /\ \A f \in Untouched \ {"project"} : e[f] = d[f]
  <2>1. (rows # <<>> \/ c.kind = "terminal") \in BOOLEAN
    OBVIOUS
  <2> QED BY <1>2, <2>1 DEF Dialogs, Untouched
<1> HIDE DEF e
<1>4. /\ Own(d, m) => Own(e, m)
      /\ Hands(d, m) => Hands(e, m)
  BY <1>3 DEF Own, Hands, Untouched
<1> QED BY <1>1, <1>3, <1>4

LEMMA HeedsFacts ==
  ASSUME NEW d \in Dialogs
  PROVE  LET e == Launching!Heeds(d) IN
         /\ e \in Dialogs /\ e.shown = d.shown /\ e.heard = d.heard /\ e.go = d.go
         /\ \A f \in Form : e[f] = d[f]
<1>1. Launching!Heeds(d) = [d EXCEPT !.asked = d.asked \/ d.kind = "claude"]
  BY DEF Launching!Heeds, Dialogs
<1>2. (d.asked \/ d.kind = "claude") \in BOOLEAN
  OBVIOUS
<1> QED BY <1>1, <1>2 DEF Dialogs, Form

LEMMA AskedFacts ==
  ASSUME NEW q \in Seq(Flights), NEW d
  PROVE  LET r == Launching!Asked(q, d) IN
         /\ r \in Seq(Flights) /\ Len(r) <= Len(q) + 1
         /\ r = q \/ r[Len(r)].what = "history"
<1>1. Launching!Asks("history") \in Flights /\ Launching!Asks("history").what = "history"
  BY DEF Launching!Asks, Flights
<1>2. \A x \in Flights : Append(q, x) \in Seq(Flights) /\ Len(Append(q, x)) = Len(q) + 1 /\ Append(q, x)[Len(q) + 1] = x
  OBVIOUS
<1> QED BY <1>1, <1>2 DEF Launching!Asked

LEMMA FlightLands ==
  ASSUME NEW S, NEW q \in Seq(S), NEW i \in 1..Len(q)
  PROVE  Launching!RemoveAt(q, i) \in Seq(S) /\ Len(Launching!RemoveAt(q, i)) = Len(q) - 1
<1> DEFINE a == SubSeq(q, 1, i - 1)
           b == SubSeq(q, i + 1, Len(q))
<1>1. a \in Seq(S) /\ Len(a) = i - 1 /\ b \in Seq(S) /\ Len(b) = Len(q) - i
  OBVIOUS
<1>2. Launching!RemoveAt(q, i) = a \o b
  BY DEF Launching!RemoveAt
<1> HIDE DEF a, b
<1>3. a \o b \in Seq(S) /\ Len(a \o b) = Len(a) + Len(b)
  BY <1>1, ConcatProperties
<1> QED BY <1>1, <1>2, <1>3

LEMMA LaunchInitially == ASSUME Launching!LaunchInit PROVE LaunchInv
<1>1. list \in Seq(Projects)
  <2>1. list = <<>> \/ \E p \in Projects : list = <<p>>
    BY DEF Launching!LaunchInit
  <2>2. CASE list = <<>>
    BY <2>2, EmptySeq
  <2>3. ASSUME NEW p \in Projects, list = <<p>> PROVE list \in Seq(Projects)
    <3>1. <<p>> \in Seq(Projects)
      OBVIOUS
    <3> QED BY <2>3, <3>1
  <2> QED BY <2>1, <2>2, <2>3
<1>2. /\ dialog.chosen = [k \in Launching!Agents |-> [model |-> "standard", start |-> "fresh"]] /\ ~dialog.shown
      /\ meant.own = NoValue
  BY DEF Launching!LaunchInit, Launching!Nothing
<1>3. dialog \in Dialogs
  <2>1. [model |-> "standard", start |-> "fresh"] \in Choices
    BY DEF Choices, StartValues, Launching!Models
  <2> QED BY <2>1 DEF Launching!LaunchInit, Dialogs, ToolNames, Launching!Perms
<1>4. meant \in Meanings
  BY DEF Launching!LaunchInit, Launching!Nothing, Meanings
<1>5. likes \in Likings /\ hidden \subseteq ToolNames /\ avail \subseteq ToolNames
      /\ resumable \subseteq Projects /\ flights \in Seq(Flights)
  BY DEF Launching!LaunchInit, Launching!Plain, Likings, Launching!Models, Launching!Perms, ToolNames
<1>6. Own(dialog, meant)
  BY <1>2 DEF Own, Launching!Agents
<1> QED BY <1>1, <1>2, <1>3, <1>4, <1>5, <1>6 DEF LaunchInv, LaunchTypes


LEMMA LaunchOpens ==
  ASSUME LaunchInv, NEW p \in Launching!Range(list) \cup {NoValue}, Launching!open(p)
  PROVE  LaunchInv' /\ ~Launching!Starting
<1> USE DEF LaunchInv, LaunchTypes
<1> DEFINE a == Launching!Afresh(dialog)
           d == Launching!populateProjects(a, list)
           kind0 == IF p # NoValue THEN "claude" ELSE d.kind
           k == IF kind0 \in Launching!Shown THEN kind0
                ELSE IF Launching!Shown = {} THEN kind0 ELSE Launching!First(Launching!Shown)
           b == IF p # NoValue THEN [d EXCEPT !.project = p] ELSE d
           e == Launching!setKind(b, k, list, likes, resumable)
           m == [Launching!Nothing EXCEPT !.own = meant.own]
           h == Launching!Heeds(e)
           q == Append(flights, Launching!Asks("tools"))
<1>1. dialog' = [h EXCEPT !.shown = TRUE] /\ flights' = Launching!Asked(q, e) /\ meant' = m
      /\ UNCHANGED <<list, likes, hidden, avail, resumable>>
  BY DEF Launching!open, Launching!around
<1>2. p \in Projects \cup {NoValue}
  BY DEF Launching!Range
<1>3. /\ m \in Meanings /\ m.own = meant.own /\ m.model = NoValue /\ m.perm = NoValue
      /\ \A j \in Launching!Agents : m.start[j] = NoValue
  BY DEF Meanings, Launching!Nothing
<1>4. /\ a \in Dialogs /\ a.byHand = {} /\ ~a.heard /\ a.kind = dialog.kind
      /\ \A j \in Launching!Agents : a.chosen[j].model = dialog.chosen[j].model /\ a.chosen[j].start = "fresh"
  <2> DEFINE c == [j \in Launching!Agents |-> [dialog.chosen[j] EXCEPT !.start = "fresh"]]
  <2>1. c \in [Launching!Agents -> Choices]
        /\ \A j \in Launching!Agents : c[j].model = dialog.chosen[j].model /\ c[j].start = "fresh"
    <3>1. \A j \in Launching!Agents : dialog.chosen[j] \in Choices
      BY DEF Dialogs
    <3> QED BY <3>1 DEF Choices, StartValues
  <2>2. a = [dialog EXCEPT !.chosen = c, !.byHand = {}, !.asked = FALSE, !.heard = FALSE]
    BY DEF Launching!Afresh
  <2> HIDE DEF c, a
  <2> QED BY <2>1, <2>2 DEF Dialogs
<1> HIDE DEF a, m
<1>5. Own(a, m) /\ Hands(a, m)
  BY <1>3, <1>4 DEF Own, Hands, Launching!Agents
<1>6. d \in Dialogs /\ Own(d, m) /\ Hands(d, m) /\ ~d.heard
  BY <1>3, <1>4, <1>5, PopulateProjectsFacts DEF Untouched
<1>7. k \in ToolNames
  <2>1. d.kind \in ToolNames /\ kind0 \in ToolNames
    <3>1. d.kind \in ToolNames
      BY <1>6 DEF Dialogs
    <3> HIDE DEF d
    <3> QED BY <3>1 DEF ToolNames
  <2>2. Launching!Shown \in SUBSET ToolNames
    BY ToolFacts DEF Launching!Shown
  <2> HIDE DEF d, kind0
  <2> QED BY <2>1, <2>2, ToolFacts
<1> HIDE DEF d, k
<1>8. b \in Dialogs /\ Own(b, m) /\ Hands(b, m) /\ ~b.heard
  BY <1>2, <1>6 DEF Dialogs, Own, Hands
<1> HIDE DEF b
<1>9. e \in Dialogs /\ Own(e, m) /\ Hands(e, m) /\ Laid(e, likes, m) /\ ~e.heard
  <2>1. likes \in Likings /\ resumable \in SUBSET Projects
    OBVIOUS
  <2> HIDE DEF LaunchInv, LaunchTypes
  <2> QED BY <1>3, <1>7, <1>8, <2>1, SetKindFacts DEF Untouched
<1> HIDE DEF e
<1>10. h \in Dialogs /\ ~h.heard /\ \A f \in Form : h[f] = e[f]
  BY <1>9, HeedsFacts
<1> HIDE DEF h
<1>11. dialog' \in Dialogs /\ ~dialog'.heard /\ \A f \in Form : dialog'[f] = e[f]
  BY <1>1, <1>10 DEF Dialogs, Form
<1>12. Own(dialog', m) /\ Hands(dialog', m) /\ Laid(dialog', likes, m)
  BY <1>9, <1>11, SameForm
<1>13. q \in Seq(Flights) /\ q[Len(q)].what = "tools"
  BY DEF Launching!Asks, Flights
<1>14. flights' \in Seq(Flights) /\ flights'[Len(flights')].what \in {"tools", "history"}
  BY <1>1, <1>13, AskedFacts
<1>15. ~Launching!Starting
  BY <1>14 DEF Launching!Starting, Launching!Last
<1>16. LaunchInv'
  BY <1>1, <1>3, <1>11, <1>12, <1>14 DEF Launching!SelectionCanLaunch, Own, Hands, Laid, Launching!projectChoice
<1> QED BY <1>15, <1>16

(* What the user picks.                                                    *)
LEMMA LaunchCloses ==
  ASSUME LaunchInv, Launching!close
  PROVE  LaunchInv' /\ ~Launching!Starting
<1>1. /\ dialog' = [dialog EXCEPT !.shown = FALSE]
      /\ UNCHANGED <<list, likes, hidden, avail, resumable, meant, flights>>
  BY DEF Launching!close, Launching!around
<1>2. dialog' \in Dialogs /\ dialog'.chosen = dialog.chosen /\ dialog'.shown = FALSE
  BY <1>1 DEF LaunchInv, LaunchTypes, Dialogs
<1>3. ~Launching!Starting
  BY <1>1 DEF Launching!Starting, LaunchInv, LaunchTypes
<1> QED BY <1>1, <1>2, <1>3 DEF LaunchInv, LaunchTypes, Own

LEMMA LaunchPicksKind ==
  ASSUME LaunchInv, NEW k \in ToolNames, Launching!PicksKind(k)
  PROVE  LaunchInv' /\ ~Launching!Starting
<1> DEFINE e == Launching!setKind(dialog, k, list, likes, resumable)
<1>1. /\ dialog.shown /\ k \in Launching!Live /\ dialog' = Launching!Heeds(e) /\ flights' = Launching!Asked(flights, e)
      /\ UNCHANGED <<list, likes, hidden, avail, resumable, meant>>
  BY DEF Launching!PicksKind, Launching!around
<1>2. /\ e \in Dialogs /\ e.kind = k /\ Own(e, meant) /\ Hands(e, meant) /\ Laid(e, likes, meant)
  <2>1. /\ dialog \in Dialogs /\ Own(dialog, meant) /\ likes \in Likings /\ resumable \in SUBSET Projects
        /\ meant \in Meanings /\ Hands(dialog, meant)
    BY <1>1 DEF LaunchInv, LaunchTypes
  <2> QED BY <2>1, SetKindFacts
<1> HIDE DEF e
<1>3. dialog' \in Dialogs /\ dialog'.kind = k /\ \A f \in Form : dialog'[f] = e[f]
  BY <1>1, <1>2, HeedsFacts DEF Form
<1>4. Own(dialog', meant) /\ Hands(dialog', meant) /\ Laid(dialog', likes, meant)
  BY <1>2, <1>3, SameForm
<1>5. flights' \in Seq(Flights) /\ (flights' = flights \/ flights'[Len(flights')].what = "history")
  BY <1>1, AskedFacts DEF LaunchInv, LaunchTypes
<1>6. ~Launching!Starting
  BY <1>5 DEF Launching!Starting, Launching!Last, LaunchInv, LaunchTypes
<1>7. Launching!SelectionCanLaunch'
  BY <1>1, <1>3 DEF Launching!SelectionCanLaunch, Launching!Live
<1>8. LaunchTypes'
  BY <1>1, <1>3, <1>5 DEF LaunchInv, LaunchTypes
<1> QED BY <1>1, <1>4, <1>6, <1>7, <1>8 DEF LaunchInv, Own, Hands, Laid, Launching!projectChoice

LEMMA LaunchPicksProject ==
  ASSUME LaunchInv, NEW p \in Projects, Launching!PicksProject(p)
  PROVE  LaunchInv' /\ ~Launching!Starting
<1> DEFINE c == [dialog EXCEPT !.project = p]
           e == Launching!Vocab(c, likes, resumable)
<1>1. /\ dialog.shown /\ dialog' = e
      /\ UNCHANGED <<list, likes, hidden, avail, resumable, meant, flights>>
  BY DEF Launching!PicksProject, Launching!around
<1>2. /\ c \in Dialogs /\ Own(c, meant) /\ Hands(c, meant)
      /\ c.shown = dialog.shown /\ c.heard = dialog.heard /\ c.kind = dialog.kind
  BY <1>1 DEF LaunchInv, LaunchTypes, Dialogs, Own, Hands
<1> HIDE DEF c
<1>3. /\ e \in Dialogs /\ e.shown = dialog.shown /\ e.heard = dialog.heard /\ e.kind = dialog.kind
      /\ Own(e, meant) /\ Hands(e, meant) /\ Laid(e, likes, meant)
  BY <1>2, VocabFacts DEF LaunchInv, LaunchTypes, Untouched
<1> HIDE DEF e
<1>4. ~Launching!Starting
  BY <1>1 DEF Launching!Starting, LaunchInv, LaunchTypes
<1>5. Launching!SelectionCanLaunch'
  BY <1>1, <1>3 DEF LaunchInv, Launching!SelectionCanLaunch, Launching!Live
<1>6. LaunchTypes'
  BY <1>1, <1>3 DEF LaunchInv, LaunchTypes
<1> QED BY <1>1, <1>3, <1>4, <1>5, <1>6 DEF LaunchInv, Own, Hands, Laid, Launching!projectChoice

LEMMA LaunchPicksModel ==
  ASSUME LaunchInv, NEW x \in Launching!Models, Launching!PicksModel(x)
  PROVE  LaunchInv' /\ ~Launching!Starting
<1> DEFINE hands == IF dialog.kind = "claude" THEN dialog.byHand \cup {"model"} ELSE dialog.byHand
           picked == [dialog.chosen[dialog.kind] EXCEPT !.model = x]
<1>1. /\ dialog.shown /\ dialog.kind \in Launching!Agents
      /\ UNCHANGED <<list, likes, hidden, avail, resumable, flights>>
      /\ meant' = IF dialog.kind = "claude" THEN [meant EXCEPT !.model = x] ELSE [meant EXCEPT !.own = x]
  BY DEF Launching!PicksModel, Launching!around
<1>2. dialog' = [dialog EXCEPT !.chosen = [dialog.chosen EXCEPT ![dialog.kind] = picked], !.byHand = hands]
  BY DEF Launching!PicksModel, LaunchInv, LaunchTypes, Dialogs
<1>3. /\ dialog \in Dialogs /\ dialog.chosen \in [Launching!Agents -> Choices] /\ dialog.chosen[dialog.kind] \in Choices
      /\ dialog.byHand \subseteq {"model", "perm"}
  BY <1>1 DEF LaunchInv, LaunchTypes, Dialogs
<1>4. picked \in Choices /\ picked.model = x /\ picked.start = dialog.chosen[dialog.kind].start
  BY <1>3 DEF Choices
<1>5. hands \in SUBSET {"model", "perm"}
  BY <1>3
<1> HIDE DEF picked
<1>6. /\ dialog' \in Dialogs /\ dialog'.byHand = hands /\ dialog'.chosen[dialog.kind] = picked
      /\ \A k \in Launching!Agents \ {dialog.kind} : dialog'.chosen[k] = dialog.chosen[k]
      /\ \A f \in {"shown", "kind", "project", "perm", "hand", "heard"} : dialog'[f] = dialog[f]
  BY <1>2, <1>3, <1>4, <1>5, <1>1 DEF Dialogs
<1>7. /\ meant' \in Meanings /\ meant'.perm = meant.perm /\ meant'.start = meant.start
      /\ dialog.kind = "claude" => meant'.model = x /\ meant'.own = meant.own
      /\ dialog.kind # "claude" => meant'.model = meant.model /\ meant'.own = x
  BY <1>1 DEF LaunchInv, LaunchTypes, Meanings
<1>8. x # NoValue
  BY FoldersAssumption DEF Launching!ChoicesTold, Launching!Models
<1>9. Own(dialog', meant')
  BY <1>1, <1>3, <1>4, <1>6, <1>7, <1>8 DEF LaunchInv, Own, Launching!Agents
<1>10. Hands(dialog', meant')
  <2>1. "model" \in dialog'.byHand <=> meant'.model # NoValue
    BY <1>1, <1>6, <1>7, <1>8 DEF LaunchInv, Hands
  <2>2. "perm" \in dialog'.byHand <=> meant'.perm # NoValue
    BY <1>1, <1>6, <1>7 DEF LaunchInv, Hands
  <2>3. meant'.model # NoValue => dialog'.chosen["claude"].model = meant'.model
    BY <1>1, <1>4, <1>6, <1>7 DEF LaunchInv, Hands, Launching!Agents
  <2>4. \A k \in Launching!Agents : dialog'.chosen[k].start \in {"fresh", meant'.start[k]}
    BY <1>1, <1>4, <1>6, <1>7 DEF LaunchInv, Hands
  <2>5. meant'.perm # NoValue => dialog'.hand = meant'.perm
    BY <1>1, <1>6, <1>7 DEF LaunchInv, Hands
  <2> QED BY <2>1, <2>2, <2>3, <2>4, <2>5 DEF Hands
<1>11. Laid(dialog', likes, meant')
  <2>1. dialog'.kind = dialog.kind /\ dialog'.project = dialog.project /\ dialog'.perm = dialog.perm
    BY <1>6
  <2>2. dialog'.chosen["claude"].start = dialog.chosen["claude"].start
    BY <1>4, <1>6 DEF Launching!Agents
  <2>3. \/ dialog'.chosen["claude"].model = x /\ meant'.model = x
        \/ dialog'.chosen["claude"].model = dialog.chosen["claude"].model /\ meant'.model = meant.model
    BY <1>4, <1>6, <1>7 DEF Launching!Agents
  <2> QED BY <1>1, <1>7, <1>8, <2>1, <2>2, <2>3 DEF LaunchInv, Laid
<1>12. ~Launching!Starting
  BY <1>1 DEF Launching!Starting, LaunchInv, LaunchTypes
<1>13. Launching!SelectionCanLaunch'
  BY <1>1, <1>6 DEF LaunchInv, Launching!SelectionCanLaunch, Launching!Live
<1>14. LaunchTypes'
  BY <1>1, <1>6, <1>7 DEF LaunchInv, LaunchTypes
<1>15. Laid(dialog, likes, meant)' /\ Own(dialog, meant)' /\ Hands(dialog, meant)'
  BY <1>1, <1>9, <1>10, <1>11 DEF Laid, Own, Hands, Launching!projectChoice
<1> QED BY <1>12, <1>13, <1>14, <1>15 DEF LaunchInv

LEMMA LaunchPicksPerm ==
  ASSUME LaunchInv, NEW q \in Launching!Perms, Launching!PicksPerm(q)
  PROVE  LaunchInv' /\ ~Launching!Starting
<1>1. /\ dialog.shown /\ dialog.kind \in Launching!Agents /\ q \notin Launching!InertPerms(dialog.kind)
      /\ UNCHANGED <<list, likes, hidden, avail, resumable, flights>>
      /\ meant' = [meant EXCEPT !.perm = q]
      /\ dialog' = [dialog EXCEPT !.perm = q, !.hand = q, !.byHand = dialog.byHand \cup {"perm"}]
  BY DEF Launching!PicksPerm, Launching!around, LaunchInv, LaunchTypes, Dialogs
<1>2. /\ dialog' \in Dialogs /\ dialog'.perm = q /\ dialog'.hand = q /\ dialog'.byHand = dialog.byHand \cup {"perm"}
      /\ \A f \in {"shown", "kind", "project", "chosen", "heard"} : dialog'[f] = dialog[f]
  BY <1>1 DEF LaunchInv, LaunchTypes, Dialogs
<1>3. /\ meant' \in Meanings /\ meant'.perm = q /\ meant'.start = meant.start /\ meant'.model = meant.model
      /\ meant'.own = meant.own
  BY <1>1 DEF LaunchInv, LaunchTypes, Meanings
<1>4. q # NoValue
  BY FoldersAssumption DEF Launching!ChoicesTold, Launching!Perms
<1>5. /\ dialog'.chosen = dialog.chosen /\ dialog'.kind = dialog.kind /\ dialog'.project = dialog.project
      /\ dialog'.shown = dialog.shown /\ dialog'.heard = dialog.heard
  BY <1>2
<1>6. Own(dialog, meant)'
  BY <1>3, <1>5 DEF LaunchInv, Own
<1>7. Hands(dialog, meant)'
  BY <1>1, <1>2, <1>3, <1>4, <1>5 DEF LaunchInv, Hands
<1>8. Laid(dialog, likes, meant)'
  BY <1>1, <1>2, <1>3, <1>4, <1>5 DEF LaunchInv, Laid, Launching!projectChoice
<1>9. ~Launching!Starting
  BY <1>1 DEF Launching!Starting, LaunchInv, LaunchTypes
<1>10. Launching!SelectionCanLaunch'
  BY <1>1, <1>5 DEF LaunchInv, Launching!SelectionCanLaunch, Launching!Live
<1>11. LaunchTypes'
  BY <1>1, <1>2, <1>3 DEF LaunchInv, LaunchTypes
<1> QED BY <1>6, <1>7, <1>8, <1>9, <1>10, <1>11 DEF LaunchInv

LEMMA LaunchPicksStart ==
  ASSUME LaunchInv, NEW v \in StartValues, Launching!PicksStart(v)
  PROVE  LaunchInv' /\ ~Launching!Starting
<1> DEFINE picked == [dialog.chosen[dialog.kind] EXCEPT !.start = v]
<1>1. /\ dialog.shown /\ dialog.kind \in Launching!Agents /\ v \in Launching!Starts(dialog, resumable)
      /\ UNCHANGED <<list, likes, hidden, avail, resumable, flights>>
      /\ meant' = [meant EXCEPT !.start = [meant.start EXCEPT ![dialog.kind] = v]]
      /\ dialog' = [dialog EXCEPT !.chosen = [dialog.chosen EXCEPT ![dialog.kind] = picked]]
  BY DEF Launching!PicksStart, Launching!around, LaunchInv, LaunchTypes, Dialogs, Meanings
<1>2. /\ dialog \in Dialogs /\ dialog.chosen \in [Launching!Agents -> Choices] /\ dialog.chosen[dialog.kind] \in Choices
      /\ meant.start \in [Launching!Agents -> StartValues \cup {NoValue}]
  BY <1>1 DEF LaunchInv, LaunchTypes, Dialogs, Meanings
<1>3. picked \in Choices /\ picked.start = v /\ picked.model = dialog.chosen[dialog.kind].model
  BY <1>2 DEF Choices
<1> HIDE DEF picked
<1>4. /\ dialog' \in Dialogs /\ dialog'.chosen[dialog.kind] = picked
      /\ \A k \in Launching!Agents \ {dialog.kind} : dialog'.chosen[k] = dialog.chosen[k]
      /\ \A f \in {"shown", "kind", "project", "perm", "hand", "byHand", "heard"} : dialog'[f] = dialog[f]
  BY <1>1, <1>2, <1>3 DEF Dialogs
<1>5. /\ meant' \in Meanings /\ meant'.perm = meant.perm /\ meant'.model = meant.model /\ meant'.own = meant.own
      /\ \A k \in Launching!Agents : meant'.start[k] = IF k = dialog.kind THEN v ELSE meant.start[k]
  BY <1>1, <1>2 DEF LaunchInv, LaunchTypes, Meanings
<1>6. /\ dialog'.kind = dialog.kind /\ dialog'.project = dialog.project /\ dialog'.perm = dialog.perm
      /\ dialog'.hand = dialog.hand /\ dialog'.byHand = dialog.byHand
      /\ dialog'.shown = dialog.shown /\ dialog'.heard = dialog.heard
      /\ \A k \in Launching!Agents : /\ dialog'.chosen[k].model = dialog.chosen[k].model
                                     /\ dialog'.chosen[k].start = IF k = dialog.kind THEN v ELSE dialog.chosen[k].start
  BY <1>3, <1>4
<1>7. /\ dialog.kind # "claude" => v \in {"fresh", "last"}
      /\ v \in Projects => v = dialog.project
  BY <1>1, FoldersAssumption DEF Launching!Starts, Launching!ChoicesTold
<1>8. Own(dialog, meant)'
  BY <1>5, <1>6, <1>7 DEF LaunchInv, Own, Launching!Agents
<1>9. Hands(dialog, meant)'
  BY <1>1, <1>5, <1>6 DEF LaunchInv, Hands, Launching!Agents
<1>10. Laid(dialog, likes, meant)'
  BY <1>1, <1>5, <1>6, <1>7 DEF LaunchInv, Laid, Launching!projectChoice, Launching!Agents
<1>11. ~Launching!Starting
  BY <1>1 DEF Launching!Starting, LaunchInv, LaunchTypes
<1>12. Launching!SelectionCanLaunch'
  BY <1>1, <1>6 DEF LaunchInv, Launching!SelectionCanLaunch, Launching!Live
<1>13. LaunchTypes'
  BY <1>1, <1>4, <1>5 DEF LaunchInv, LaunchTypes
<1> QED BY <1>8, <1>9, <1>10, <1>11, <1>12, <1>13 DEF LaunchInv

(* What a press of the button may start.                                   *)
Rightly ==
  Launching!Starting /\ Launching!Agent(Launching!Last(flights').spawn) =>
    LET spawn == Launching!Last(flights').spawn
        expected == Launching!Expected(dialog) IN
    spawn.perm = expected.perm /\ spawn.model = expected.model /\ spawn.start \in expected.starts

LEMMA LaunchStarts ==
  ASSUME LaunchInv, Launching!launch
  PROVE  LaunchInv' /\ Rightly
<1> DEFINE s == Launching!composeSpawn(dialog)
           r == [what |-> "start", spawn |-> s]
<1>1. /\ dialog.shown /\ dialog' = [dialog EXCEPT !.go = FALSE] /\ flights' = Append(flights, r)
      /\ UNCHANGED <<list, likes, hidden, avail, resumable, meant>>
  BY DEF Launching!launch, Launching!around
<1>2. /\ dialog \in Dialogs /\ dialog.kind \in ToolNames /\ dialog.project \in Projects \cup {NoValue}
      /\ dialog.perm \in Launching!Perms /\ \A k \in Launching!Agents : dialog.chosen[k] \in Choices
      /\ Own(dialog, meant) /\ Hands(dialog, meant) /\ Laid(dialog, likes, meant)
  BY <1>1 DEF LaunchInv, LaunchTypes, Dialogs
<1>3. ASSUME dialog.kind \in Launching!Agents
      PROVE  /\ s \in Spawns
             /\ s.perm = Launching!Expected(dialog).perm /\ s.model = Launching!Expected(dialog).model
             /\ s.start \in Launching!Expected(dialog).starts
  <2>1. s = [kind |-> dialog.kind, project |-> dialog.project, model |-> dialog.chosen[dialog.kind].model,
             perm |-> dialog.perm, start |-> dialog.chosen[dialog.kind].start]
    BY <1>3 DEF Launching!composeSpawn
  <2>2. dialog.chosen[dialog.kind].model \in Launching!Models /\ dialog.chosen[dialog.kind].start \in StartValues
    BY <1>2, <1>3 DEF Choices
  <2>3. dialog.chosen[dialog.kind].start \in Projects =>
          dialog.kind = "claude" /\ dialog.chosen[dialog.kind].start = dialog.project
    <3>1. CASE dialog.kind = "claude"
      BY <1>2, <1>3, <3>1 DEF Laid
    <3>2. CASE dialog.kind = "grok"
      BY <1>2, <3>2, FoldersAssumption DEF Own, Launching!ChoicesTold
    <3> QED BY <1>3, <3>1, <3>2 DEF Launching!Agents
  <2>4. s \in Spawns
    BY <1>2, <1>3, <2>1, <2>2, <2>3 DEF Spawns
  <2>5. s.perm = Launching!Expected(dialog).perm
    BY <1>2, <1>3, <2>1 DEF Laid, Launching!Expected
  <2>6. s.model = Launching!Expected(dialog).model
    <3>1. CASE dialog.kind = "claude"
      BY <1>2, <1>3, <2>1, <3>1 DEF Laid, Launching!Expected
    <3>2. CASE dialog.kind = "grok"
      BY <1>2, <2>1, <3>2 DEF Own, Launching!Expected
    <3> QED BY <1>3, <3>1, <3>2 DEF Launching!Agents
  <2>7. s.start \in Launching!Expected(dialog).starts
    BY <1>2, <1>3, <2>1 DEF Hands, Launching!Expected
  <2> QED BY <2>4, <2>5, <2>6, <2>7
<1>4. ASSUME dialog.kind \notin Launching!Agents PROVE s \in Spawns
  <2>1. s = [kind |-> dialog.kind, project |-> dialog.project] /\ dialog.kind = "terminal"
    BY <1>2, <1>4 DEF Launching!composeSpawn, ToolNames, Launching!Agents
  <2> QED BY <1>2, <1>4, <2>1 DEF Spawns
<1>5. s \in Spawns /\ (s.kind \in Launching!Agents =>
        /\ s.perm = Launching!Expected(dialog).perm /\ s.model = Launching!Expected(dialog).model
        /\ s.start \in Launching!Expected(dialog).starts)
  <2>1. CASE dialog.kind \in Launching!Agents
    BY <1>3, <2>1
  <2>2. CASE dialog.kind \notin Launching!Agents
    <3>1. s.kind = dialog.kind
      BY <2>2 DEF Launching!composeSpawn
    <3> QED BY <1>4, <2>2, <3>1
  <2> QED BY <2>1, <2>2
<1> HIDE DEF s
<1>6. r \in Flights /\ r.spawn = s
  BY <1>5 DEF Flights
<1> HIDE DEF r
<1>7. flights' \in Seq(Flights) /\ flights'[Len(flights')] = r
  BY <1>1, <1>6 DEF LaunchInv, LaunchTypes
<1>8. Rightly
  BY <1>5, <1>6, <1>7 DEF Rightly, Launching!Last, Launching!Agent
<1>9. /\ dialog' \in Dialogs /\ dialog'.shown = dialog.shown /\ dialog'.heard = dialog.heard /\ dialog'.kind = dialog.kind
      /\ \A f \in Form : dialog'[f] = dialog[f]
  BY <1>1, <1>2 DEF Dialogs, Form
<1>10. Own(dialog', meant) /\ Hands(dialog', meant) /\ Laid(dialog', likes, meant)
  BY <1>2, <1>9, SameForm
<1>11. Own(dialog, meant)' /\ Hands(dialog, meant)' /\ Laid(dialog, likes, meant)'
  BY <1>1, <1>10 DEF Own, Hands, Laid, Launching!projectChoice
<1>12. Launching!SelectionCanLaunch'
  BY <1>1, <1>9 DEF LaunchInv, Launching!SelectionCanLaunch, Launching!Live
<1>13. LaunchTypes'
  BY <1>1, <1>7, <1>9 DEF LaunchInv, LaunchTypes
<1> QED BY <1>8, <1>11, <1>12, <1>13 DEF LaunchInv

(* Answers that come while the form is used.                               *)
LEMMA LaunchHearsTools ==
  ASSUME LaunchInv, NEW i \in DOMAIN flights, NEW a \in SUBSET Launching!Agents, Launching!ToolsAnswer(i, a)
  PROVE  LaunchInv' /\ ~Launching!Starting
<1> DEFINE live == avail' \ hidden
           e == Launching!applyAvailability(dialog, live, resumable)
           h == Launching!Heeds(e)
           q == Launching!RemoveAt(flights, i)
<1>1. /\ dialog' = [h EXCEPT !.heard = TRUE] /\ flights' = Launching!Asked(q, e) /\ avail' = a \cup {"terminal"}
      /\ UNCHANGED <<list, likes, hidden, resumable, meant>>
  BY DEF Launching!ToolsAnswer, Launching!around
<1>2. avail' \subseteq ToolNames
  BY <1>1 DEF Launching!Agents, ToolNames
<1>3. /\ dialog \in Dialogs /\ Own(dialog, meant) /\ likes \in Likings /\ resumable \in SUBSET Projects /\ meant \in Meanings
      /\ dialog.shown => Hands(dialog, meant) /\ Laid(dialog, likes, meant)
  BY DEF LaunchInv, LaunchTypes
<1>4. /\ e \in Dialogs /\ e.shown = dialog.shown /\ Own(e, meant)
      /\ dialog.shown => Hands(e, meant) /\ Laid(e, likes, meant)
      /\ live # {} => e.kind \in live
  <2>1. CASE dialog.kind \notin live /\ live # {}
    <3>1. live \in SUBSET ToolNames
      BY <1>2
    <3>2. Launching!First(live) \in live /\ Launching!First(live) \in ToolNames
      BY <2>1, <3>1, ToolFacts
    <3>3. e = Launching!setKind(dialog, Launching!First(live), list, likes, resumable)
      BY <2>1 DEF Launching!applyAvailability
    <3> HIDE DEF e, live
    <3> QED BY <1>3, <3>2, <3>3, SetKindFacts DEF Untouched
  <2>2. CASE ~(dialog.kind \notin live /\ live # {})
    <3>1. e = dialog
      BY <2>2 DEF Launching!applyAvailability
    <3> QED BY <1>3, <2>2, <3>1
  <2> QED BY <2>1, <2>2
<1> HIDE DEF e
<1>5. h \in Dialogs /\ h.shown = e.shown /\ \A f \in Form : h[f] = e[f]
  BY <1>4, HeedsFacts
<1> HIDE DEF h
<1>6. dialog' \in Dialogs /\ dialog'.shown = dialog.shown /\ dialog'.kind = e.kind /\ \A f \in Form : dialog'[f] = e[f]
  BY <1>1, <1>4, <1>5 DEF Dialogs, Form
<1>7. /\ Own(dialog', meant)
      /\ dialog.shown => Hands(dialog', meant) /\ Laid(dialog', likes, meant)
  BY <1>4, <1>6, SameForm
<1>8. q \in Seq(Flights) /\ Len(q) = Len(flights) - 1 /\ Len(flights) \in Nat
  BY FlightLands DEF LaunchInv, LaunchTypes
<1> HIDE DEF q
<1>9. flights' \in Seq(Flights) /\ Len(flights') <= Len(q) + 1
  BY <1>1, <1>8, AskedFacts
<1>10. ~Launching!Starting
  BY <1>8, <1>9 DEF Launching!Starting
<1>11. Launching!SelectionCanLaunch'
  BY <1>1, <1>4, <1>6 DEF Launching!SelectionCanLaunch, Launching!Live
<1>12. LaunchTypes'
  BY <1>1, <1>2, <1>6, <1>9 DEF LaunchInv, LaunchTypes
<1> QED BY <1>1, <1>6, <1>7, <1>10, <1>11, <1>12 DEF LaunchInv, Own, Hands, Laid, Launching!projectChoice

LEMMA LaunchHearsHistory ==
  ASSUME LaunchInv, NEW i \in DOMAIN flights, NEW entries \in SUBSET Projects, Launching!HistoryAnswers(i, entries)
  PROVE  LaunchInv' /\ ~Launching!Starting
<1>1. /\ dialog' = IF dialog.kind = "claude" THEN Launching!populateStart(dialog, entries) ELSE dialog
      /\ flights' = Launching!RemoveAt(flights, i) /\ resumable' = entries
      /\ UNCHANGED <<list, likes, hidden, avail, meant>>
  BY DEF Launching!HistoryAnswers, Launching!Lands, Launching!around
<1>2. flights' \in Seq(Flights) /\ Len(flights') = Len(flights) - 1 /\ Len(flights) \in Nat
  BY <1>1, FlightLands DEF LaunchInv, LaunchTypes
<1>3. /\ dialog \in Dialogs /\ Own(dialog, meant)
      /\ dialog.shown => Hands(dialog, meant) /\ Laid(dialog, likes, meant)
  BY DEF LaunchInv, LaunchTypes
<1>4. /\ dialog' \in Dialogs
      /\ \A f \in {"shown", "kind", "project", "perm", "hand", "byHand", "heard"} : dialog'[f] = dialog[f]
      /\ \A k \in Launching!Agents : /\ dialog'.chosen[k].model = dialog.chosen[k].model
                                     /\ dialog'.chosen[k].start \in {"fresh", dialog.chosen[k].start}
  <2>1. CASE dialog.kind = "claude"
    <3>1. dialog' = Launching!populateStart(dialog, entries)
      BY <1>1, <2>1
    <3> QED BY <1>3, <3>1, PopulateFacts
  <2>2. CASE dialog.kind # "claude"
    BY <1>1, <1>3, <2>2
  <2> QED BY <2>1, <2>2
<1>5. /\ dialog'.shown = dialog.shown /\ dialog'.kind = dialog.kind /\ dialog'.project = dialog.project
      /\ dialog'.perm = dialog.perm /\ dialog'.hand = dialog.hand /\ dialog'.byHand = dialog.byHand
      /\ dialog'.heard = dialog.heard
  BY <1>4
<1>6. Own(dialog, meant)'
  BY <1>1, <1>3, <1>4 DEF Own, Launching!Agents
<1>7. dialog.shown => Hands(dialog, meant)'
  BY <1>1, <1>3, <1>4, <1>5 DEF Hands, Launching!Agents
<1>8. dialog.shown => Laid(dialog, likes, meant)'
  <2>1. "fresh" \notin Projects
    BY FoldersAssumption DEF Launching!ChoicesTold
  <2>2. /\ dialog'.chosen["claude"].model = dialog.chosen["claude"].model
        /\ dialog'.chosen["claude"].start \in Projects => dialog'.chosen["claude"].start = dialog.chosen["claude"].start
    BY <1>4, <2>1 DEF Launching!Agents
  <2> QED BY <1>1, <1>3, <1>5, <2>2 DEF Laid, Launching!projectChoice
<1>9. ~Launching!Starting
  BY <1>2 DEF Launching!Starting
<1>10. Launching!SelectionCanLaunch'
  BY <1>1, <1>5 DEF LaunchInv, Launching!SelectionCanLaunch, Launching!Live
<1>11. LaunchTypes'
  BY <1>1, <1>2, <1>4 DEF LaunchInv, LaunchTypes
<1> QED BY <1>5, <1>6, <1>7, <1>8, <1>9, <1>10, <1>11 DEF LaunchInv

LEMMA LaunchHearsStart ==
  ASSUME LaunchInv, NEW i \in DOMAIN flights, NEW ok \in BOOLEAN, Launching!StartAnswers(i, ok)
  PROVE  LaunchInv' /\ ~Launching!Starting
<1> DEFINE c == IF ok THEN [dialog EXCEPT !.shown = FALSE] ELSE dialog
           go == list # <<>> \/ c.kind = "terminal"
<1>1. /\ dialog' = [c EXCEPT !.go = go]
      /\ flights' = Launching!RemoveAt(flights, i)
      /\ UNCHANGED <<list, likes, hidden, avail, resumable, meant>>
  BY DEF Launching!StartAnswers, Launching!syncLaunchable, Launching!Lands, Launching!around
<1>2. flights' \in Seq(Flights) /\ Len(flights') = Len(flights) - 1 /\ Len(flights) \in Nat
  BY <1>1, FlightLands DEF LaunchInv, LaunchTypes
<1>3. /\ dialog \in Dialogs /\ Own(dialog, meant)
      /\ dialog.shown => Hands(dialog, meant) /\ Laid(dialog, likes, meant)
  BY DEF LaunchInv, LaunchTypes
<1>4. go \in BOOLEAN
  OBVIOUS
<1> HIDE DEF go
<1>5. /\ dialog' \in Dialogs /\ dialog'.heard = dialog.heard /\ dialog'.kind = dialog.kind
      /\ dialog'.shown => dialog.shown
      /\ \A f \in Form : dialog'[f] = dialog[f]
  BY <1>1, <1>3, <1>4 DEF Dialogs, Form
<1>6. /\ Own(dialog', meant)
      /\ dialog.shown => Hands(dialog', meant) /\ Laid(dialog', likes, meant)
  BY <1>3, <1>5, SameForm
<1>7. ~Launching!Starting
  BY <1>2 DEF Launching!Starting
<1>8. Launching!SelectionCanLaunch'
  BY <1>1, <1>5 DEF LaunchInv, Launching!SelectionCanLaunch, Launching!Live
<1>9. LaunchTypes'
  BY <1>1, <1>2, <1>5 DEF LaunchInv, LaunchTypes
<1> QED BY <1>1, <1>5, <1>6, <1>7, <1>8, <1>9 DEF LaunchInv, Own, Hands, Laid, Launching!projectChoice

(* The projects change under the form.                                     *)
LEMMA LaunchFollowsProjects ==
  ASSUME LaunchInv, NEW rows \in Seq(Projects), NEW prefs \in Likings, Launching!ProjectsChange(rows, prefs)
  PROVE  LaunchInv' /\ ~Launching!Starting
<1> DEFINE d == Launching!populateProjects(dialog, rows)
           e == Launching!Vocab(d, prefs, resumable)
<1>1. /\ dialog' = IF dialog.shown THEN e ELSE dialog
      /\ list' = rows /\ likes' = prefs
      /\ UNCHANGED <<hidden, avail, resumable, meant, flights>>
  BY DEF Launching!ProjectsChange
<1>2. /\ dialog \in Dialogs /\ Own(dialog, meant) /\ meant \in Meanings /\ resumable \in SUBSET Projects
      /\ dialog.shown => Hands(dialog, meant)
  BY DEF LaunchInv, LaunchTypes
<1>3. /\ d \in Dialogs /\ d.kind = dialog.kind /\ d.shown = dialog.shown /\ d.heard = dialog.heard
      /\ Own(d, meant)
      /\ dialog.shown => Hands(d, meant)
  BY <1>2, PopulateProjectsFacts DEF Untouched
<1> HIDE DEF d
<1>4. /\ e \in Dialogs /\ e.kind = dialog.kind /\ e.shown = dialog.shown /\ e.heard = dialog.heard
      /\ Own(e, meant)
      /\ dialog.shown => Hands(e, meant) /\ Laid(e, prefs, meant)
  BY <1>2, <1>3, VocabFacts DEF Untouched
<1> HIDE DEF e
<1>5. /\ dialog' \in Dialogs /\ dialog'.kind = dialog.kind /\ dialog'.shown = dialog.shown /\ dialog'.heard = dialog.heard
      /\ Own(dialog', meant)
      /\ dialog.shown => Hands(dialog', meant) /\ Laid(dialog', prefs, meant)
  BY <1>1, <1>2, <1>4
<1>6. ~Launching!Starting
  BY <1>1 DEF Launching!Starting, LaunchInv, LaunchTypes
<1>7. Launching!SelectionCanLaunch'
  BY <1>1, <1>5 DEF LaunchInv, Launching!SelectionCanLaunch, Launching!Live
<1>8. LaunchTypes'
  BY <1>1, <1>5 DEF LaunchInv, LaunchTypes
<1> QED BY <1>1, <1>5, <1>6, <1>7, <1>8 DEF LaunchInv, Own, Hands, Laid, Launching!projectChoice

LEMMA LaunchStep ==
  ASSUME LaunchInv, [Launching!LaunchNext]_(Launching!launchVars)
  PROVE  LaunchInv' /\ Rightly
<1> SUFFICES ASSUME Launching!LaunchNext \/ UNCHANGED Launching!launchVars PROVE LaunchInv' /\ Rightly
  OBVIOUS
<1>1. list \in Seq(Projects) /\ likes \in Likings /\ Launching!Range(list) \subseteq Projects
  BY DEF LaunchInv, LaunchTypes, Launching!Range
<1>2. CASE \E p \in Launching!Range(list) \cup {NoValue} : Launching!open(p)
  BY <1>2, LaunchOpens DEF Rightly
<1>3. CASE Launching!close
  BY <1>3, LaunchCloses DEF Rightly
<1>4. CASE Launching!launch
  BY <1>4, LaunchStarts
<1>5. CASE \E k \in Launching!Range(Launching!Tools) : Launching!PicksKind(k)
  BY <1>5, ToolFacts, LaunchPicksKind DEF Rightly
<1>6. CASE \E p \in Projects : Launching!PicksProject(p)
  BY <1>6, LaunchPicksProject DEF Rightly
<1>7. CASE \E x \in Launching!Models : Launching!PicksModel(x)
  BY <1>7, LaunchPicksModel DEF Rightly
<1>8. CASE \E q \in Launching!Perms : Launching!PicksPerm(q)
  BY <1>8, LaunchPicksPerm DEF Rightly
<1>9. CASE \E v \in StartValues : Launching!PicksStart(v)
  BY <1>9, LaunchPicksStart DEF Rightly
<1>10. CASE \E i \in DOMAIN flights : \E a \in SUBSET Launching!Agents : Launching!ToolsAnswer(i, a)
  BY <1>10, LaunchHearsTools DEF Rightly
<1>11. CASE \E i \in DOMAIN flights : \E h \in SUBSET Projects : Launching!HistoryAnswers(i, h)
  BY <1>11, LaunchHearsHistory DEF Rightly
<1>12. CASE \E i \in DOMAIN flights : \E ok \in BOOLEAN : Launching!StartAnswers(i, ok)
  BY <1>12, LaunchHearsStart DEF Rightly
<1>13. CASE \E i \in DOMAIN flights : Launching!Fails(i)
  <2>1. PICK i \in DOMAIN flights : Launching!Fails(i)
    BY <1>13
  <2>2. flights' \in Seq(Flights) /\ Len(flights') = Len(flights) - 1 /\ Len(flights) \in Nat
    BY <2>1, FlightLands DEF Launching!Fails, Launching!Lands, LaunchInv, LaunchTypes
  <2>3. UNCHANGED <<list, likes, hidden, avail, resumable, dialog, meant>>
    BY <2>1 DEF Launching!Fails, Launching!Lands, Launching!around
  <2>4. Rightly
    BY <2>2 DEF Rightly, Launching!Starting
  <2>5. Launching!SelectionCanLaunch'
    BY <2>3 DEF LaunchInv, Launching!SelectionCanLaunch, Launching!Live
  <2>6. LaunchTypes'
    BY <2>2, <2>3 DEF LaunchInv, LaunchTypes
  <2> QED BY <2>3, <2>4, <2>5, <2>6 DEF LaunchInv, Own, Hands, Laid, Launching!projectChoice
<1>14. CASE \E p \in Projects \ Launching!Range(list) : Launching!ProjectsChange(Append(list, p), likes)
  <2>1. \A p \in Projects : Append(list, p) \in Seq(Projects)
    BY <1>1
  <2> QED BY <1>1, <1>14, <2>1, LaunchFollowsProjects DEF Rightly
<1>15. CASE \E i \in DOMAIN list : Launching!ProjectsChange(Launching!RemoveAt(list, i), likes)
  <2>1. \A i \in DOMAIN list : Launching!RemoveAt(list, i) \in Seq(Projects)
    BY <1>1, FlightLands
  <2> QED BY <1>1, <1>15, <2>1, LaunchFollowsProjects DEF Rightly
<1>16. CASE \E p \in Launching!Range(list) :
              Launching!ProjectsChange(list, [likes EXCEPT ![p] = [model |-> "other", perm |-> "bypass"]])
  <2>1. \A p \in Projects : [likes EXCEPT ![p] = [model |-> "other", perm |-> "bypass"]] \in Likings
    BY <1>1 DEF Likings, Launching!Models, Launching!Perms
  <2> QED BY <1>1, <1>16, <2>1, LaunchFollowsProjects DEF Rightly
<1>17. CASE \E kinds \in {{"claude"}, {"grok"}, {"claude", "terminal"}} : Launching!Hides(kinds)
  <2>1. /\ UNCHANGED <<list, likes, dialog, avail, resumable, meant, flights>> /\ ~dialog.shown
        /\ hidden' \subseteq ToolNames
    BY <1>17 DEF Launching!Hides, ToolNames
  <2>2. Rightly
    BY <2>1 DEF Rightly, Launching!Starting, LaunchInv, LaunchTypes
  <2> QED BY <2>1, <2>2 DEF LaunchInv, LaunchTypes, Own
<1>18. CASE UNCHANGED Launching!launchVars
  <2>1. UNCHANGED <<list, likes, hidden, avail, resumable, dialog, meant, flights>>
    BY <1>18 DEF Launching!launchVars
  <2>2. Rightly
    BY <2>1 DEF Rightly, Launching!Starting, LaunchInv, LaunchTypes
  <2>3. Launching!SelectionCanLaunch' <=> Launching!SelectionCanLaunch
    BY <2>1 DEF Launching!SelectionCanLaunch, Launching!Live
  <2>4. LaunchTypes'
    BY <2>1 DEF LaunchInv, LaunchTypes
  <2> QED BY <2>1, <2>2, <2>3, <2>4 DEF LaunchInv, Own, Hands, Laid, Launching!projectChoice
<1> QED BY <1>2, <1>3, <1>4, <1>5, <1>6, <1>7, <1>8, <1>9, <1>10, <1>11, <1>12, <1>13, <1>14, <1>15, <1>16, <1>17, <1>18
        DEF Launching!LaunchNext, StartValues

(* A session is started with what was picked in this opening of the        *)
(* dialog, or else with what its project prefers, it resumes no            *)
(* conversation of another project or tool, and the tool is one that is    *)
(* there (launch.ts), whatever was switched and whichever answers came in  *)
(* between.                                                                *)
THEOREM LaunchesAsPicked == Launching!LaunchSpec => StartsAsPicked
<1>1. LaunchInv => Launching!ResumesInItsProject
  <2> SUFFICES ASSUME LaunchInv, NEW i \in DOMAIN flights, flights[i].what = "start",
                      Launching!Agent(flights[i].spawn), flights[i].spawn.start \in Projects
               PROVE  flights[i].spawn.kind = "claude" /\ flights[i].spawn.start = flights[i].spawn.project
    BY DEF Launching!ResumesInItsProject
  <2>1. flights[i] \in Flights
    BY DEF LaunchInv, LaunchTypes
  <2>2. flights[i].spawn \in Spawns
    BY <2>1 DEF Flights
  <2> QED BY <2>2 DEF Spawns, Launching!Agent, Launching!Agents
<1>2. LaunchInv => Launching!SelectionCanLaunch
  BY DEF LaunchInv, Launching!SelectionCanLaunch
<1>3. ASSUME LaunchInv, [Launching!LaunchNext]_(Launching!launchVars)
      PROVE  LaunchInv' /\ [Rightly]_(Launching!launchVars)
  BY <1>3, LaunchStep
<1>4. Launching!StartsAsPicked <=> [][Rightly]_(Launching!launchVars)
  BY PTL DEF Launching!StartsAsPicked, Rightly
<1> QED BY <1>1, <1>2, <1>3, <1>4, LaunchInitially, PTL DEF Launching!LaunchSpec, StartsAsPicked
=============================================================================
