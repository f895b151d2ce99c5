-------------------------- MODULE WorkspaceProofs --------------------------
(***************************************************************************)
(* The theorems about the store of tabs and panes, for any sessions, files *)
(* and folders. The invariant says that the arrangement is sound and that  *)
(* what is stored is that arrangement (Arranged), and that the question,   *)
(* the request and the list that are under way are about sessions and      *)
(* files there are (Pending). The lemmas go from a view to the workspace:  *)
(* what one slot, one view, all tabs may be (GoodSlots, GoodViews, Laid),  *)
(* what each operation makes of a sound workspace, what a load makes of    *)
(* any bag that a window may have stored, then one lemma per action.       *)
(***************************************************************************)
EXTENDS Workspace, FiniteSetTheorems, SequenceTheorems, TLAPS

Leasts == INSTANCE FoldProofs WITH Op <- LAMBDA c, x, y : x

(***************************************************************************)
(* Sequences                                                               *)
(***************************************************************************)
Apart(s) == \A k, l \in DOMAIN s : s[k].id = s[l].id => k = l

LEMMA MinIs ==
  ASSUME NEW I, I \subseteq Nat, I # {}
  PROVE  Min(I) \in I /\ \A x \in I : Min(I) <= x
<1>1. \E x \in I : \A y \in I : x <= y
  BY Leasts!LeastNatural
<1> QED
  BY <1>1 DEF Min

LEMMA ClampIs ==
  /\ \A low, n, high \in Int : low <= high => Clamp(low, n, high) \in low..high
  /\ \A low, n, high \in Int : n \in low..high => Clamp(low, n, high) = n
  /\ \A low, n, high \in Int : high < low => Clamp(low, n, high) = low
BY DEF Clamp

(* Two sequences after one another, with their lengths.                    *)
LEMMA Joined ==
  ASSUME NEW S, NEW a \in Seq(S), NEW b \in Seq(S), NEW m \in Nat, NEW n \in Nat, Len(a) = m, Len(b) = n
  PROVE  /\ a \o b \in Seq(S) /\ Len(a \o b) = m + n
         /\ \A k \in 1..m : (a \o b)[k] = a[k]
         /\ \A k \in 1..n : (a \o b)[m + k] = b[k]
  OBVIOUS

LEMMA Piece ==
  ASSUME NEW S, NEW s \in Seq(S), NEW i \in Nat, NEW j \in Nat, 1 <= i, i <= j + 1, j <= Len(s)
  PROVE  /\ SubSeq(s, i, j) \in Seq(S) /\ Len(SubSeq(s, i, j)) = j + 1 - i
         /\ \A k \in 1..j + 1 - i : SubSeq(s, i, j)[k] = s[i + k - 1]
  OBVIOUS

LEMMA RemoveAtElements ==
  ASSUME NEW S, NEW s \in Seq(S), NEW i \in 1..Len(s)
  PROVE  /\ RemoveAt(s, i) \in Seq(S)
         /\ Len(RemoveAt(s, i)) = Len(s) - 1
         /\ \A j \in 1..Len(s) - 1 : RemoveAt(s, i)[j] = IF j < i THEN s[j] ELSE s[j + 1]
<1>1. PICK n \in Nat : n = Len(s) /\ i \in 1..n
  OBVIOUS
<1>2. PICK m \in Nat : m = i - 1 /\ m <= n
  BY <1>1
<1>3. PICK a \in Seq(S) : a = SubSeq(s, 1, m) /\ Len(a) = m /\ \A k \in 1..m : a[k] = s[k]
  <2>1. SubSeq(s, 1, m) \in Seq(S) /\ Len(SubSeq(s, 1, m)) = m + 1 - 1 /\ \A k \in 1..m + 1 - 1 : SubSeq(s, 1, m)[k] = s[1 + k - 1]
    BY <1>1, <1>2, Piece
  <2>2. m + 1 - 1 = m /\ \A k \in 1..m : 1 + k - 1 = k
    OBVIOUS
  <2> QED
    BY ONLY <2>1, <2>2
<1>4. PICK p \in Nat : p = n - i
  <2>1. n - i \in Nat
    BY <1>1
  <2> QED
    BY <2>1
<1>5. PICK b \in Seq(S) : b = SubSeq(s, i + 1, n) /\ Len(b) = p /\ \A k \in 1..p : b[k] = s[i + k]
  <2>1. /\ SubSeq(s, i + 1, n) \in Seq(S) /\ Len(SubSeq(s, i + 1, n)) = n + 1 - (i + 1)
        /\ \A k \in 1..n + 1 - (i + 1) : SubSeq(s, i + 1, n)[k] = s[(i + 1) + k - 1]
    BY <1>1, Piece
  <2>2. n + 1 - (i + 1) = p /\ \A k \in 1..p : (i + 1) + k - 1 = i + k
    BY <1>1, <1>4
  <2>3. Len(SubSeq(s, i + 1, n)) = p /\ \A k \in 1..p : SubSeq(s, i + 1, n)[k] = s[i + k]
    BY ONLY <2>1, <2>2
  <2> QED
    BY ONLY <2>1, <2>3
<1>6. /\ a \o b \in Seq(S) /\ Len(a \o b) = m + p
      /\ \A k \in 1..m : (a \o b)[k] = a[k]
      /\ \A k \in 1..p : (a \o b)[m + k] = b[k]
  BY <1>3, <1>5, Joined
<1>7. PICK t : t = a \o b
  OBVIOUS
<1>8. RemoveAt(s, i) = t
  BY <1>1, <1>2, <1>3, <1>5, <1>7 DEF RemoveAt
<1>9. t \in Seq(S) /\ Len(t) = n - 1
  BY <1>1, <1>2, <1>4, <1>6, <1>7
<1>10. ASSUME NEW j \in 1..n - 1 PROVE t[j] = IF j < i THEN s[j] ELSE s[j + 1]
  <2>1. CASE j < i
    <3>1. j \in 1..m
      BY ONLY <1>1, <1>2, <2>1, n \in Nat, m \in Nat, j \in 1..n - 1
    <3> QED
      BY ONLY <3>1, <2>1, <1>3, <1>6, <1>7
  <2>2. CASE ~(j < i)
    <3>1. j - m \in 1..p /\ m + (j - m) = j /\ i + (j - m) = j + 1
      BY ONLY <1>1, <1>2, <1>4, <2>2, n \in Nat, m \in Nat, j \in 1..n - 1
    <3>2. t[m + (j - m)] = b[j - m] /\ b[j - m] = s[i + (j - m)]
      BY ONLY <3>1, <1>5, <1>6, <1>7
    <3> QED
      BY ONLY <3>1, <3>2, <2>2
  <2> QED
    BY <2>1, <2>2
<1> QED
  BY ONLY <1>1, <1>8, <1>9, <1>10

LEMMA Between ==
  ASSUME NEW S, NEW a \in Seq(S), NEW e \in S, NEW b \in Seq(S)
  PROVE  /\ a \o <<e>> \o b \in Seq(S) /\ Len(a \o <<e>> \o b) = Len(a) + 1 + Len(b)
         /\ \A k \in 1..Len(a) : (a \o <<e>> \o b)[k] = a[k]
         /\ (a \o <<e>> \o b)[Len(a) + 1] = e
         /\ \A k \in 1..Len(b) : (a \o <<e>> \o b)[Len(a) + 1 + k] = b[k]
<1>1. PICK c \in Seq(S) : c = <<e>> /\ Len(c) = 1 /\ c[1] = e
  <2>1. <<e>> \in Seq(S) /\ Len(<<e>>) = 1 /\ <<e>>[1] = e
    OBVIOUS
  <2> QED
    BY <2>1
<1>2. PICK m \in Nat : m = Len(a)
  OBVIOUS
<1>4. PICK ac \in Seq(S) : ac = a \o c /\ Len(ac) = m + 1 /\ (\A k \in 1..m : ac[k] = a[k]) /\ ac[m + 1] = e
  <2>1. a \o c \in Seq(S) /\ Len(a \o c) = m + 1
    BY <1>1, <1>2
  <2>2. \A k \in 1..m : (a \o c)[k] = a[k]
    BY <1>1, <1>2
  <2>3. (a \o c)[m + 1] = e
    BY <1>1, <1>2
  <2> QED
    BY ONLY <2>1, <2>2, <2>3
<1>5. PICK n \in Nat : n = Len(b)
  OBVIOUS
<1>13. PICK l \in Nat : l = m + 1
  OBVIOUS
<1>14. Len(ac) = l
  BY <1>4, <1>13
<1>15. ac \o b \in Seq(S) /\ Len(ac \o b) = l + n
  <2>1. ac \o b \in Seq(S) /\ Len(ac \o b) = Len(ac) + Len(b)
    BY ConcatProperties
  <2> QED
    BY ONLY <1>5, <1>14, <2>1
<1>16. \A k \in 1..l : (ac \o b)[k] = ac[k]
  BY <1>5, <1>14
<1>17. \A k \in 1..n : (ac \o b)[l + k] = b[k]
  BY <1>5, <1>14
<1>6. ac \o b \in Seq(S) /\ Len(ac \o b) = m + 1 + n
  BY ONLY <1>13, <1>15
<1>7. \A k \in 1..m + 1 : (ac \o b)[k] = ac[k]
  BY ONLY <1>13, <1>16
<1>8. \A k \in 1..n : (ac \o b)[m + 1 + k] = b[k]
  BY ONLY <1>13, <1>17
<1>9. PICK t : t = ac \o b
  OBVIOUS
<1>10. \A k \in 1..m : t[k] = a[k]
  <2>1. \A k \in 1..m : k \in 1..m + 1
    OBVIOUS
  <2> QED
    BY ONLY <2>1, <1>4, <1>7, <1>9
<1>11. t[m + 1] = e
  <2>1. m + 1 \in 1..m + 1
    OBVIOUS
  <2> QED
    BY ONLY <2>1, <1>4, <1>7, <1>9
<1>12. a \o <<e>> \o b = t
  BY ONLY <1>1, <1>4, <1>9
<1> QED
  BY ONLY <1>2, <1>5, <1>6, <1>8, <1>9, <1>10, <1>11, <1>12
(* One element in place of those from i to before j.                       *)
Splice(s, i, e, j) == SubSeq(s, 1, i - 1) \o <<e>> \o SubSeq(s, j, Len(s))
LEMMA Spliced ==
  ASSUME NEW S, NEW s \in Seq(S), NEW e \in S, NEW i \in 1..(Len(s) + 1), NEW j \in i..(i + 1), j <= Len(s) + 1
  PROVE  /\ Splice(s, i, e, j) \in Seq(S)
         /\ Len(Splice(s, i, e, j)) = Len(s) + 1 - (j - i)
         /\ \A k \in 1..Len(s) + 1 - (j - i) :
              Splice(s, i, e, j)[k] = IF k < i THEN s[k] ELSE IF k = i THEN e ELSE s[k - 1 + (j - i)]
<1>1. PICK n \in Nat : n = Len(s) /\ i \in 1..(n + 1)
  OBVIOUS
<1>2. PICK m \in Nat : m = i - 1 /\ m <= n
  BY <1>1
<1>3. PICK a \in Seq(S) : a = SubSeq(s, 1, m) /\ Len(a) = m /\ \A k \in 1..m : a[k] = s[k]
  <2>1. SubSeq(s, 1, m) \in Seq(S) /\ Len(SubSeq(s, 1, m)) = m + 1 - 1 /\ \A k \in 1..m + 1 - 1 : SubSeq(s, 1, m)[k] = s[1 + k - 1]
    BY <1>1, <1>2, Piece
  <2>2. m + 1 - 1 = m /\ \A k \in 1..m : 1 + k - 1 = k
    OBVIOUS
  <2> QED
    BY ONLY <2>1, <2>2
<1>4. PICK p \in Nat : p = n + 1 - j
  BY <1>1
<1>5. PICK b \in Seq(S) : b = SubSeq(s, j, n) /\ Len(b) = p /\ \A k \in 1..p : b[k] = s[j + k - 1]
  <2>1. /\ SubSeq(s, j, n) \in Seq(S) /\ Len(SubSeq(s, j, n)) = n + 1 - j
        /\ \A k \in 1..n + 1 - j : SubSeq(s, j, n)[k] = s[j + k - 1]
    <3>1. j \in Nat /\ 1 <= j /\ j <= n + 1 /\ n <= Len(s)
      BY <1>1
    <3> QED
      BY <3>1, Piece
  <2> QED
    BY ONLY <2>1, <1>4
<1>6. PICK t : t = a \o <<e>> \o b
  OBVIOUS
<1>7. /\ t \in Seq(S) /\ Len(t) = Len(a) + 1 + Len(b)
      /\ \A k \in 1..Len(a) : t[k] = a[k]
      /\ t[Len(a) + 1] = e
      /\ \A k \in 1..Len(b) : t[Len(a) + 1 + k] = b[k]
  BY <1>6, Between
<1>8. /\ t \in Seq(S) /\ Len(t) = m + 1 + p /\ t[m + 1] = e
      /\ (\A k \in 1..m : t[k] = a[k]) /\ \A k \in 1..p : t[m + 1 + k] = b[k]
  BY ONLY <1>3, <1>5, <1>7
<1>9. t = Splice(s, i, e, j)
  BY ONLY <1>1, <1>2, <1>3, <1>5, <1>6 DEF Splice
<1>10. Len(t) = n + 1 - (j - i) /\ m + 1 = i
  <2>1. m + 1 + p = n + 1 - (j - i) /\ m + 1 = i
    BY <1>1, <1>2, <1>4
  <2> QED
    BY ONLY <1>8, <2>1
<1>11. ASSUME NEW k \in 1..n + 1 - (j - i) PROVE t[k] = IF k < i THEN s[k] ELSE IF k = i THEN e ELSE s[k - 1 + (j - i)]
  <2>0. n \in Nat /\ m \in Nat /\ p \in Nat /\ j \in i..(i + 1) /\ k \in 1..n + 1 - (j - i)
    BY <1>11
  <2>1. CASE k < i
    <3>1. k \in 1..m
      BY ONLY <1>1, <1>2, <2>1, <2>0
    <3> QED
      BY ONLY <3>1, <2>1, <1>3, <1>8
  <2>2. CASE k = i
    <3>1. ~(k < i)
      BY ONLY <1>1, <2>2, <2>0
    <3> QED
      BY ONLY <3>1, <2>2, <1>8, <1>10
  <2>3. CASE k > i
    <3>1. k - i \in 1..p /\ m + 1 + (k - i) = k /\ ~(k < i) /\ k # i /\ j + (k - i) - 1 = k - 1 + (j - i)
      BY ONLY <1>1, <1>2, <1>4, <2>3, <2>0
    <3>2. t[m + 1 + (k - i)] = b[k - i] /\ b[k - i] = s[j + (k - i) - 1]
      BY ONLY <3>1, <1>5, <1>8
    <3> QED
      BY ONLY <3>1, <3>2
  <2>4. k < i \/ k = i \/ k > i
    BY ONLY <1>1, <2>0
  <2> QED
    BY <2>1, <2>2, <2>3, <2>4
<1> QED
  BY ONLY <1>1, <1>8, <1>9, <1>10, <1>11

LEMMA InsertAtElements ==
  ASSUME NEW S, NEW s \in Seq(S), NEW e \in S, NEW i \in 1..(Len(s) + 1)
  PROVE  /\ InsertAt(s, i, e) \in Seq(S)
         /\ Len(InsertAt(s, i, e)) = Len(s) + 1
         /\ \A k \in 1..Len(s) + 1 : InsertAt(s, i, e)[k] = IF k < i THEN s[k] ELSE IF k = i THEN e ELSE s[k - 1]
<1>1. InsertAt(s, i, e) = Splice(s, i, e, i)
  BY DEF InsertAt, Splice
<1>2. i \in i..(i + 1) /\ i - i = 0 /\ i \in Nat /\ Len(s) \in Nat
  OBVIOUS
<1>3. /\ Splice(s, i, e, i) \in Seq(S)
      /\ Len(Splice(s, i, e, i)) = Len(s) + 1 - (i - i)
      /\ \A k \in 1..Len(s) + 1 - (i - i) :
           Splice(s, i, e, i)[k] = IF k < i THEN s[k] ELSE IF k = i THEN e ELSE s[k - 1 + (i - i)]
  BY <1>2, Spliced
<1> QED
  BY <1>1, <1>2, <1>3

-----------------------------------------------------------------------------
(***************************************************************************)
(* Panes: what a slot is, what a view is, and what is done to one view     *)
(***************************************************************************)
Keys == Sessions \cup Nat
SlotT == [id : Keys, tabs : Seq(Files \cup Diffs), active : Nat]
GoodSlots == {s \in SlotT : IF s.id \in Sessions THEN s = SessionSlot(s.id) ELSE Strip(s)}

ViewsOf(S) == [id : Nat, root : Roots, slots : Seq(S), focused : Nat, l3 : {"L", "R"}]
InFocus(v) == v.focused \in 1..4 /\ (v.focused = 1 \/ v.focused <= Len(v.slots))
GoodViews == {v \in ViewsOf(GoodSlots) : Len(v.slots) <= 4 /\ InFocus(v) /\ Apart(v.slots)}

LEMMA FirstOf ==
  ASSUME NEW n \in Nat, NEW I \in SUBSET (1..n), NEW r, r = IF I # {} THEN Min(I) ELSE 0
  PROVE  r \in 0..n /\ (r > 0 => r \in I) /\ (r = 0 => I = {})
<1>1. CASE I = {}
  BY <1>1
<1>2. CASE I # {}
  <2>1. I \subseteq Nat
    OBVIOUS
  <2>2. r \in I
    BY <1>2, <2>1, MinIs
  <2> QED
    BY <1>2, <2>2
<1> QED
  BY <1>1, <1>2

LEMMA IndexIs ==
  ASSUME NEW S, NEW v, v.slots \in Seq(S), NEW key
  PROVE  /\ IndexOfSlot(v, key) \in 0..Len(v.slots)
         /\ IndexOfSlot(v, key) > 0 => v.slots[IndexOfSlot(v, key)].id = key
         /\ IndexOfSlot(v, key) = 0 => \A k \in 1..Len(v.slots) : v.slots[k].id # key
         /\ \A k \in 1..Len(v.slots) : Apart(v.slots) /\ v.slots[k].id = key => IndexOfSlot(v, key) = k
<1>1. PICK n \in Nat : n = Len(v.slots) /\ DOMAIN v.slots = 1..n
  OBVIOUS
<1>2. PICK I \in SUBSET (1..n) : I = {i \in 1..Len(v.slots) : v.slots[i].id = key}
  BY <1>1
<1>3. PICK r : r = IF I # {} THEN Min(I) ELSE 0
  OBVIOUS
<1>4. IndexOfSlot(v, key) = r
  BY <1>2, <1>3 DEF IndexOfSlot, SelectInSeq
<1>5. r \in 0..n /\ (r > 0 => r \in I) /\ (r = 0 => I = {})
  BY <1>3, FirstOf
<1>6. \A k \in 1..n : Apart(v.slots) /\ v.slots[k].id = key => r = k
  <2> SUFFICES ASSUME NEW k \in 1..n, Apart(v.slots), v.slots[k].id = key PROVE r = k
    OBVIOUS
  <2>1. k \in I
    BY <1>1, <1>2
  <2>2. r \in I
    BY <1>5, <2>1
  <2> QED
    BY <1>1, <1>2, <2>2 DEF Apart
<1>7. r > 0 => v.slots[r].id = key
  BY <1>2, <1>5
<1>8. r = 0 => \A k \in 1..n : v.slots[k].id # key
  BY <1>1, <1>2, <1>5
<1> QED
  BY ONLY <1>1, <1>4, <1>5, <1>6, <1>7, <1>8

(* What stays of a view when a pane closes: t holds the elements of s but  *)
(* the one at slot, each once.                                             *)
Picks(m, s, t, slot) ==
  /\ \A k, l \in 1..Len(t) : m[k] = m[l] => k = l
  /\ \A k \in 1..Len(t) : m[k] \in 1..Len(s) /\ m[k] # slot /\ t[k] = s[m[k]]
  /\ \A i \in 1..Len(s) : i # slot => \E k \in 1..Len(t) : m[k] = i
LEMMA CloseIs ==
  ASSUME NEW S, NEW v \in ViewsOf(S),
         Len(v.slots) <= 4, NEW slot \in 1..Len(v.slots), NEW w, w = Close(v, slot)
  PROVE  /\ w \in ViewsOf(S)
         /\ w.id = v.id /\ w.root = v.root /\ w.focused = v.focused
         /\ Len(w.slots) = Len(v.slots) - 1
         /\ \E m : Picks(m, v.slots, w.slots, slot)
<1>1. CASE Len(v.slots) # 4
  <2>1. PICK s \in Seq(S) : s = v.slots
    BY DEF ViewsOf
  <2>2. PICK n \in Nat : n = Len(s) /\ slot \in 1..n
    BY <2>1
  <2>3. PICK t \in Seq(S) : t = RemoveAt(s, slot) /\ Len(t) = n - 1 /\ \A j \in 1..n - 1 : t[j] = IF j < slot THEN s[j] ELSE s[j + 1]
    <3>1. /\ RemoveAt(s, slot) \in Seq(S) /\ Len(RemoveAt(s, slot)) = Len(s) - 1
          /\ \A j \in 1..Len(s) - 1 : RemoveAt(s, slot)[j] = IF j < slot THEN s[j] ELSE s[j + 1]
      BY <2>2, RemoveAtElements
    <3> QED
      BY ONLY <3>1, <2>2
  <2>4. w = [v EXCEPT !.slots = t]
    BY <1>1, <2>1, <2>3 DEF Close
  <2>5. w \in ViewsOf(S) /\ w.slots = t
        /\ w.id = v.id /\ w.root = v.root /\ w.focused = v.focused
    BY <2>4 DEF ViewsOf
  <2> DEFINE m == [k \in 1..n - 1 |-> IF k < slot THEN k ELSE k + 1]
  <2>6. m \in [1..n - 1 -> 1..n] /\ \A k \in 1..n - 1 : m[k] # slot /\ m[k] = IF k < slot THEN k ELSE k + 1
    BY <2>2
  <2> HIDE DEF m
  <2>7. \A k, l \in 1..n - 1 : m[k] = m[l] => k = l
    BY <2>2, <2>6
  <2>8. \A i \in 1..n : i # slot => \E k \in 1..n - 1 : m[k] = i
    <3> SUFFICES ASSUME NEW i \in 1..n, i # slot PROVE \E k \in 1..n - 1 : m[k] = i
      OBVIOUS
    <3>1. CASE i < slot
      <4>1. i \in 1..n - 1
        BY <2>2, <3>1
      <4> QED
        BY <2>6, <3>1, <4>1
    <3>2. CASE i > slot
      <4>1. i - 1 \in 1..n - 1 /\ ~(i - 1 < slot) /\ (i - 1) + 1 = i
        BY <2>2, <3>2
      <4> QED
        BY <2>6, <4>1
    <3> QED
      BY <2>2, <3>1, <3>2
  <2>9. \A k \in 1..n - 1 : t[k] = s[m[k]]
    BY <2>3, <2>6
  <2>10. Picks(m, s, t, slot)
    BY ONLY <2>2, <2>3, <2>6, <2>7, <2>8, <2>9 DEF Picks
  <2>11. \E q : Picks(q, s, t, slot)
    BY ONLY <2>10
  <2>12. Len(t) = Len(s) - 1
    BY ONLY <2>2, <2>3
  <2> QED
    BY ONLY <2>1, <2>5, <2>11, <2>12
<1>2. CASE Len(v.slots) = 4
  <2>1. PICK s \in Seq(S) : s = v.slots /\ Len(s) = 4 /\ s[1] \in S /\ s[2] \in S /\ s[3] \in S /\ s[4] \in S
    BY <1>2 DEF ViewsOf
  <2>2. slot \in {1, 2, 3, 4}
    BY <1>2
  <2>3. ASSUME NEW a \in 1..4, NEW b \in 1..4, NEW c \in 1..4, a # b, b # c, a # c, a # slot, b # slot, c # slot,
               NEW side \in {"L", "R"}, w = [v EXCEPT !.l3 = side, !.slots = <<s[a], s[b], s[c]>>]
        PROVE  /\ w \in ViewsOf(S)
               /\ w.id = v.id /\ w.root = v.root /\ w.focused = v.focused
               /\ Len(w.slots) = 3
               /\ \E m : Picks(m, s, w.slots, slot)
    <3>1. PICK t \in Seq(S) : t = <<s[a], s[b], s[c]>> /\ Len(t) = 3 /\ t[1] = s[a] /\ t[2] = s[b] /\ t[3] = s[c]
      <4>1. s[a] \in S /\ s[b] \in S /\ s[c] \in S
        BY <2>1
      <4>2. <<s[a], s[b], s[c]>> \in Seq(S)
        BY <4>1
      <4> QED
        BY <4>2
    <3>2. /\ w \in ViewsOf(S)
          /\ w.id = v.id /\ w.root = v.root /\ w.focused = v.focused /\ w.slots = t
      BY <2>3, <3>1 DEF ViewsOf
    <3> DEFINE m == [k \in 1..3 |-> IF k = 1 THEN a ELSE IF k = 2 THEN b ELSE c]
    <3>3. m \in [1..3 -> 1..4] /\ m[1] = a /\ m[2] = b /\ m[3] = c
      OBVIOUS
    <3> HIDE DEF m
    <3>4. \A k \in 1..3 : k = 1 \/ k = 2 \/ k = 3
      OBVIOUS
    <3>5. \A k, l \in 1..3 : m[k] = m[l] => k = l
      BY <2>3, <3>3, <3>4
    <3>6. \A k \in 1..3 : m[k] # slot /\ t[k] = s[m[k]]
      BY <2>3, <3>1, <3>3, <3>4
    <3>7. \A i \in 1..4 : i # slot => i = a \/ i = b \/ i = c
      BY <2>2, <2>3
    <3>8. \A i \in 1..4 : i # slot => \E k \in 1..3 : m[k] = i
      BY <3>3, <3>7
    <3>9. Picks(m, s, t, slot)
      <4>1. \A k \in 1..3 : m[k] \in 1..4
        BY ONLY <3>3
      <4> QED
        BY ONLY <2>1, <3>1, <3>5, <3>6, <3>8, <4>1 DEF Picks
    <3>10. \E q : Picks(q, s, t, slot)
      BY ONLY <3>9
    <3> QED
      BY ONLY <3>1, <3>2, <3>10
  <2>4. CASE slot = 1
    <3>1. w = [v EXCEPT !.l3 = "L", !.slots = <<s[3], s[2], s[4]>>]
      BY <1>2, <2>1, <2>4 DEF Close
    <3> QED
      BY <1>2, <2>1, <2>3, <2>4, <3>1
  <2>5. CASE slot = 2
    <3>1. w = [v EXCEPT !.l3 = "R", !.slots = <<s[1], s[3], s[4]>>]
      BY <1>2, <2>1, <2>5 DEF Close
    <3> QED
      BY <1>2, <2>1, <2>3, <2>5, <3>1
  <2>6. CASE slot = 3
    <3>1. w = [v EXCEPT !.l3 = "L", !.slots = <<s[1], s[2], s[4]>>]
      BY <1>2, <2>1, <2>6 DEF Close
    <3> QED
      BY <1>2, <2>1, <2>3, <2>6, <3>1
  <2>7. CASE slot = 4
    <3>1. w = [v EXCEPT !.l3 = "R", !.slots = <<s[1], s[3], s[2]>>]
      BY <1>2, <2>1, <2>7 DEF Close
    <3> QED
      BY <1>2, <2>1, <2>3, <2>7, <3>1
  <2> QED
    BY <2>2, <2>4, <2>5, <2>6, <2>7
<1> QED
  BY <1>1, <1>2

LEMMA ToSetIs == \A S : \A s \in Seq(S) : ToSet(s) \subseteq S /\ \A x : x \in ToSet(s) <=> \E k \in 1..Len(s) : s[k] = x
BY DEF ToSet

LEMMA Picked ==
  ASSUME NEW S, NEW s \in Seq(S), NEW t \in Seq(S), NEW slot \in 1..Len(s), NEW m, Picks(m, s, t, slot), Apart(s)
  PROVE  Apart(t) /\ ToSet(t) = ToSet(s) \ {s[slot]}
<1>1. \A k, l \in 1..Len(t) : m[k] = m[l] => k = l
  BY DEF Picks
<1>2. \A k \in 1..Len(t) : m[k] \in 1..Len(s) /\ m[k] # slot /\ t[k] = s[m[k]]
  BY DEF Picks
<1>3. \A i \in 1..Len(s) : i # slot => \E k \in 1..Len(t) : m[k] = i
  BY DEF Picks
<1>4. DOMAIN s = 1..Len(s) /\ DOMAIN t = 1..Len(t)
  OBVIOUS
<1>5. Apart(t)
  <2> SUFFICES ASSUME NEW k \in 1..Len(t), NEW l \in 1..Len(t), t[k].id = t[l].id PROVE k = l
    BY <1>4 DEF Apart
  <2>1. s[m[k]].id = s[m[l]].id /\ m[k] \in DOMAIN s /\ m[l] \in DOMAIN s
    BY <1>2, <1>4
  <2>2. m[k] = m[l]
    BY <2>1 DEF Apart
  <2> QED
    BY <1>1, <2>2
<1>6. ASSUME NEW x \in ToSet(t) PROVE x \in ToSet(s) \ {s[slot]}
  <2>1. PICK k \in 1..Len(t) : t[k] = x
    BY <1>4 DEF ToSet
  <2>2. m[k] \in DOMAIN s /\ slot \in DOMAIN s /\ m[k] # slot /\ x = s[m[k]]
    BY <1>2, <1>4, <2>1
  <2>3. x # s[slot]
    BY <2>2 DEF Apart
  <2> QED
    BY <2>2, <2>3 DEF ToSet
<1>7. ASSUME NEW x \in ToSet(s) \ {s[slot]} PROVE x \in ToSet(t)
  <2>1. PICK i \in 1..Len(s) : s[i] = x
    BY <1>4 DEF ToSet
  <2>2. i # slot
    BY <1>7, <2>1
  <2>3. PICK k \in 1..Len(t) : m[k] = i
    BY <1>3, <2>2
  <2>4. t[k] = x /\ k \in DOMAIN t
    BY <1>2, <1>4, <2>1, <2>3
  <2> QED
    BY <2>4 DEF ToSet
<1> QED
  BY <1>5, <1>6, <1>7

Removed(v, slot, w) ==
  /\ w \in GoodViews /\ w.id = v.id /\ w.root = v.root
  /\ Len(w.slots) = Len(v.slots) - 1
  /\ ToSet(w.slots) = ToSet(v.slots) \ {v.slots[slot]}
LEMMA RemovedIs ==
  ASSUME NEW v \in GoodViews, NEW slot \in 1..Len(v.slots), NEW w, w = RemoveAtSlot(v, slot)
  PROVE  Removed(v, slot, w)
<1>1. v \in ViewsOf(GoodSlots) /\ Len(v.slots) <= 4 /\ InFocus(v) /\ Apart(v.slots)
  BY DEF GoodViews
<1>2. PICK u : u = Close(v, slot)
  OBVIOUS
<1>3. /\ u \in ViewsOf(GoodSlots) /\ u.id = v.id /\ u.root = v.root /\ u.focused = v.focused
      /\ Len(u.slots) = Len(v.slots) - 1 /\ \E m : Picks(m, v.slots, u.slots, slot)
  BY <1>1, <1>2, CloseIs
<1>4. PICK m : Picks(m, v.slots, u.slots, slot)
  BY <1>3
<1>5. PICK s, t \in Seq(GoodSlots) : s = v.slots /\ t = u.slots
  BY <1>1, <1>3 DEF ViewsOf
<1>6. PICK n \in Nat : n = Len(s) /\ n <= 4 /\ slot \in 1..n /\ Len(t) = n - 1 /\ DOMAIN t = 1..(n - 1) /\ DOMAIN s = 1..n
  BY <1>1, <1>3, <1>5
<1>7. Apart(t) /\ ToSet(t) = ToSet(s) \ {s[slot]}
  <2>1. Picks(m, s, t, slot) /\ Apart(s) /\ slot \in 1..Len(s)
    BY <1>1, <1>4, <1>5, <1>6
  <2> QED
    BY <2>1, Picked
<1>9. PICK keep : keep = IF v.focused \in DOMAIN v.slots THEN IndexOfSlot(u, v.slots[v.focused].id) ELSE 0
  OBVIOUS
<1>10. keep \in 0..(n - 1)
  <2>1. CASE v.focused \in DOMAIN v.slots
    <3>1. IndexOfSlot(u, v.slots[v.focused].id) \in 0..Len(u.slots)
      BY <1>5, IndexIs
    <3> QED
      BY <1>5, <1>6, <1>9, <2>1, <3>1
  <2>2. CASE v.focused \notin DOMAIN v.slots
    BY <1>6, <1>9, <2>2
  <2> QED
    BY <2>1, <2>2
<1>11. PICK f : f = IF keep > 0 THEN keep ELSE Clamp(1, slot, Len(u.slots))
  OBVIOUS
<1>12. f \in 1..4 /\ (f = 1 \/ f <= n - 1)
  <2>1. CASE keep > 0
    BY <1>6, <1>10, <1>11, <2>1
  <2>2. CASE ~(keep > 0)
    <3>1. f = Clamp(1, slot, n - 1) /\ n - 1 \in Int /\ slot \in Int
      BY <1>5, <1>6, <1>11, <2>2
    <3>2. CASE 1 <= n - 1
      <4>1. f \in 1..(n - 1)
        BY <3>1, <3>2, ClampIs
      <4> QED
        BY <4>1, <1>6
    <3>3. CASE n - 1 < 1
      <4>1. f = 1
        BY <3>1, <3>3, ClampIs
      <4> QED
        BY <4>1
    <3> QED
      BY <1>6, <3>2, <3>3
  <2> QED
    BY <2>1, <2>2
<1>13. w = [u EXCEPT !.focused = f]
  BY <1>2, <1>9, <1>11 DEF RemoveAtSlot
<1>14. w \in ViewsOf(GoodSlots) /\ w.id = v.id /\ w.root = v.root /\ w.slots = t /\ w.focused = f
  BY <1>3, <1>5, <1>12, <1>13 DEF ViewsOf
<1>15. w \in GoodViews
  BY <1>6, <1>7, <1>12, <1>14 DEF GoodViews, InFocus
<1> QED
  BY <1>5, <1>6, <1>7, <1>14, <1>15 DEF Removed

LEMMA TwoApart ==
  ASSUME NEW S, NEW a \in S, NEW b \in S, a.id # b.id, NEW t, t = <<a, b>>
  PROVE  t \in Seq(S) /\ Len(t) = 2 /\ Apart(t) /\ ToSet(t) = {a, b}
<1>1. t \in Seq(S) /\ Len(t) = 2 /\ t[1] = a /\ t[2] = b /\ DOMAIN t = 1..2
  OBVIOUS
<1>2. \A k \in 1..2 : k = 1 \/ k = 2
  OBVIOUS
<1> QED
  BY <1>1, <1>2 DEF Apart, ToSet
LEMMA ThreeApart ==
  ASSUME NEW S, NEW a \in S, NEW b \in S, NEW c \in S, a.id # b.id, a.id # c.id, b.id # c.id, NEW t, t = <<a, b, c>>
  PROVE  t \in Seq(S) /\ Len(t) = 3 /\ Apart(t) /\ ToSet(t) = {a, b, c}
<1>1. t \in Seq(S) /\ Len(t) = 3 /\ t[1] = a /\ t[2] = b /\ t[3] = c /\ DOMAIN t = 1..3
  OBVIOUS
<1>2. \A k \in 1..3 : k = 1 \/ k = 2 \/ k = 3
  OBVIOUS
<1> QED
  BY <1>1, <1>2 DEF Apart, ToSet
LEMMA FourApart ==
  ASSUME NEW S, NEW a \in S, NEW b \in S, NEW c \in S, NEW d \in S,
         a.id # b.id, a.id # c.id, b.id # c.id, a.id # d.id, b.id # d.id, c.id # d.id, NEW t, t = <<a, b, c, d>>
  PROVE  t \in Seq(S) /\ Len(t) = 4 /\ Apart(t) /\ ToSet(t) = {a, b, c, d}
<1>1. t \in Seq(S) /\ Len(t) = 4 /\ t[1] = a /\ t[2] = b /\ t[3] = c /\ t[4] = d /\ DOMAIN t = 1..4
  OBVIOUS
<1>2. \A k \in 1..4 : k = 1 \/ k = 2 \/ k = 3 \/ k = 4
  OBVIOUS
<1> QED
  BY <1>1, <1>2 DEF Apart, ToSet

LEMMA JoinedApart ==
  ASSUME NEW S, NEW s \in Seq(S), NEW items \in Seq(S), Apart(s), Apart(items),
         \A k \in 1..Len(s) : \A l \in 1..Len(items) : s[k].id # items[l].id
  PROVE  /\ s \o items \in Seq(S) /\ Len(s \o items) = Len(s) + Len(items)
         /\ Apart(s \o items) /\ ToSet(s \o items) = ToSet(s) \cup ToSet(items)
<1>1. PICK m \in Nat : m = Len(s) /\ DOMAIN s = 1..m
  OBVIOUS
<1>2. PICK n \in Nat : n = Len(items) /\ DOMAIN items = 1..n
  OBVIOUS
<1>3. /\ s \o items \in Seq(S) /\ Len(s \o items) = m + n
      /\ \A k \in 1..m : (s \o items)[k] = s[k]
      /\ \A k \in 1..n : (s \o items)[m + k] = items[k]
  BY <1>1, <1>2, Joined
<1>4. PICK t \in Seq(S) : t = s \o items
  BY <1>3
<1>5. Len(t) = m + n /\ DOMAIN t = 1..(m + n) /\ (\A k \in 1..m : t[k] = s[k]) /\ \A k \in 1..n : t[m + k] = items[k]
  BY <1>3, <1>4
<1>6. \A k \in 1..(m + n) : k \in 1..m \/ (k - m \in 1..n /\ m + (k - m) = k)
  OBVIOUS
<1>7. Apart(t)
  <2> SUFFICES ASSUME NEW k \in 1..(m + n), NEW l \in 1..(m + n), t[k].id = t[l].id PROVE k = l
    BY <1>5 DEF Apart
  <2>1. CASE k \in 1..m /\ l \in 1..m
    BY <1>1, <1>5, <2>1 DEF Apart
  <2>2. CASE k - m \in 1..n /\ l - m \in 1..n /\ m + (k - m) = k /\ m + (l - m) = l
    <3>1. items[k - m].id = items[l - m].id
      BY <1>5, <2>2
    <3>2. k - m = l - m
      BY <3>1, <1>2, <2>2 DEF Apart
    <3> QED
      BY <3>2, <2>2
  <2>3. CASE k \in 1..m /\ l - m \in 1..n /\ m + (l - m) = l
    BY <1>1, <1>2, <1>5, <2>3
  <2>4. CASE l \in 1..m /\ k - m \in 1..n /\ m + (k - m) = k
    <3>1. t[k] = items[k - m] /\ t[l] = s[l]
      BY <1>5, <2>4
    <3>2. s[l].id # items[k - m].id
      BY <1>1, <1>2, <2>4
    <3> QED
      BY <3>1, <3>2
  <2> QED
    BY <1>6, <2>1, <2>2, <2>3, <2>4
<1>8. ToSet(t) = ToSet(s) \cup ToSet(items)
  <2>1. \A x : x \in ToSet(t) <=> \E k \in 1..(m + n) : t[k] = x
    BY ONLY <1>5 DEF ToSet
  <2>2. \A x : x \in ToSet(s) <=> \E k \in 1..m : s[k] = x
    BY ONLY <1>1 DEF ToSet
  <2>3. \A x : x \in ToSet(items) <=> \E k \in 1..n : items[k] = x
    BY ONLY <1>2 DEF ToSet
  <2>4. ASSUME NEW x, x \in ToSet(t) PROVE x \in ToSet(s) \cup ToSet(items)
    <3>1. PICK k \in 1..(m + n) : t[k] = x
      BY <2>1, <2>4
    <3>2. CASE k \in 1..m
      BY <1>5, <2>2, <3>1, <3>2
    <3>3. CASE k - m \in 1..n /\ m + (k - m) = k
      <4>1. items[k - m] = x
        BY <1>5, <3>1, <3>3
      <4> QED
        BY <2>3, <3>3, <4>1
    <3> QED
      BY <1>6, <3>2, <3>3
  <2>5. ASSUME NEW x, x \in ToSet(s) PROVE x \in ToSet(t)
    <3>1. PICK k \in 1..m : s[k] = x
      BY <2>2, <2>5
    <3>2. k \in 1..(m + n)
      OBVIOUS
    <3> QED
      BY <1>5, <2>1, <3>1, <3>2
  <2>6. ASSUME NEW x, x \in ToSet(items) PROVE x \in ToSet(t)
    <3>1. PICK k \in 1..n : items[k] = x
      BY <2>3, <2>6
    <3>2. m + k \in 1..(m + n)
      OBVIOUS
    <3> QED
      BY <1>5, <2>1, <3>1, <3>2
  <2> QED
    BY <2>4, <2>5, <2>6
<1> QED
  BY ONLY <1>1, <1>2, <1>4, <1>5, <1>7, <1>8

(* One pane beside another: where it comes, by the number of panes.        *)
Orders(x, s) ==
  IF Len(s) = 1 THEN {<<x, s[1]>>, <<s[1], x>>}
  ELSE IF Len(s) = 2 THEN {<<x, s[1], s[2]>>, <<s[1], x, s[2]>>, <<s[1], s[2], x>>}
  ELSE {<<x, s[2], s[1], s[3]>>, <<s[1], s[2], x, s[3]>>, <<s[1], x, s[2], s[3]>>, <<s[1], s[3], s[2], x>>}
Beside(w, v, x) == \E side \in {"L", "R"} : \E t \in Orders(x, v.slots) : w = [v EXCEPT !.l3 = side, !.slots = t]
LEMMA ArrangeOne ==
  ASSUME NEW S, NEW v \in ViewsOf(S), NEW items \in Seq(S), Len(items) = 1,
         Len(v.slots) \in 1..3, NEW slot, NEW zone, zone # "fill", NEW w, w = Arrange(v, slot, zone, items)
  PROVE  Beside(w, v, items[1])
<1> SUFFICES \E side \in {"L", "R"} : \E t \in Orders(items[1], v.slots) : w = [v EXCEPT !.l3 = side, !.slots = t]
  BY DEF Beside
<1>1. v.l3 \in {"L", "R"} /\ \A t : [v EXCEPT !.slots = t] = [v EXCEPT !.l3 = v.l3, !.slots = t]
  BY DEF ViewsOf
<1>2. PICK s : s = v.slots
  OBVIOUS
<1>3. PICK x : x = items[1]
  OBVIOUS
<1>4. PICK n \in 1..3 : n = Len(s)
  BY <1>2
<1>5. w = Arrange(v, slot, zone, items)
  OBVIOUS
<1>6. ~(n = 0 \/ Len(items) > 1 \/ zone = "fill" \/ n + Len(items) > MAX_PANES)
  <2>1. n + 1 <= 4 /\ n # 0 /\ ~(1 > 1)
    BY ONLY n \in 1..3
  <2> QED
    BY ONLY <2>1, Len(items) = 1, zone # "fill", <1>4 DEF MAX_PANES
<1>7. w = IF n = 1 THEN [v EXCEPT !.slots = IF zone = "left" THEN <<x, s[1]>> ELSE <<s[1], x>>]
          ELSE IF n = 2 /\ slot = 1
          THEN [v EXCEPT !.l3 = "R", !.slots = IF zone = "top" THEN <<x, s[1], s[2]>> ELSE <<s[1], x, s[2]>>]
          ELSE IF n = 2
          THEN [v EXCEPT !.l3 = "L", !.slots = IF zone = "top" THEN <<s[1], x, s[2]>> ELSE <<s[1], s[2], x>>]
          ELSE IF v.l3 = "L"
          THEN [v EXCEPT !.slots = IF zone = "top" THEN <<x, s[2], s[1], s[3]>> ELSE <<s[1], s[2], x, s[3]>>]
          ELSE [v EXCEPT !.slots = IF zone = "top" THEN <<s[1], x, s[2], s[3]>> ELSE <<s[1], s[3], s[2], x>>]
  BY ONLY <1>2, <1>3, <1>4, <1>5, <1>6, Zenon DEF Arrange
<1>8. PICK O : O = Orders(x, s)
  OBVIOUS
<1>9. CASE n = 1
  <2>1. <<x, s[1]>> \in O /\ <<s[1], x>> \in O
    BY ONLY <1>4, <1>8, <1>9 DEF Orders
  <2>2. \E t \in O : w = [v EXCEPT !.slots = t]
    BY ONLY <1>7, <1>9, <2>1, Zenon
  <2> QED
    BY ONLY <1>1, <1>2, <1>3, <1>5, <1>8, <2>2
<1>10. CASE n = 2
  <2>1. <<x, s[1], s[2]>> \in O /\ <<s[1], x, s[2]>> \in O /\ <<s[1], s[2], x>> \in O
    BY ONLY <1>4, <1>8, <1>10 DEF Orders
  <2>2. n # 1 /\ n = 2
    BY <1>10
  <2>3. \E side \in {"L", "R"} : \E t \in O : w = [v EXCEPT !.l3 = side, !.slots = t]
    <3>1. "L" \in {"L", "R"} /\ "R" \in {"L", "R"}
      OBVIOUS
    <3> QED
      BY ONLY <1>7, <2>1, <2>2, <3>1, Zenon
  <2> QED
    BY ONLY <1>2, <1>3, <1>5, <1>8, <2>3
<1>11. CASE n = 3
  <2>1. /\ <<x, s[2], s[1], s[3]>> \in O /\ <<s[1], s[2], x, s[3]>> \in O
        /\ <<s[1], x, s[2], s[3]>> \in O /\ <<s[1], s[3], s[2], x>> \in O
    BY ONLY <1>4, <1>8, <1>11 DEF Orders
  <2>2. n # 1 /\ n # 2
    BY <1>11
  <2>3. \E t \in O : w = [v EXCEPT !.slots = t]
    BY ONLY <1>7, <2>1, <2>2, Zenon
  <2> QED
    BY ONLY <1>1, <1>2, <1>3, <1>5, <1>8, <2>3
<1>12. n = 1 \/ n = 2 \/ n = 3
  BY ONLY n \in 1..3
<1> QED
  BY ONLY <1>9, <1>10, <1>11, <1>12

LEMMA OrdersApart ==
  ASSUME NEW S, NEW s \in Seq(S), Len(s) \in 1..3, Apart(s), NEW x \in S, \A k \in 1..Len(s) : s[k].id # x.id,
         NEW t \in Orders(x, s)
  PROVE  t \in Seq(S) /\ Len(t) = Len(s) + 1 /\ Apart(t) /\ ToSet(t) = ToSet(s) \cup {x}
<1>1. DOMAIN s = 1..Len(s) /\ \A k \in 1..Len(s) : s[k] \in S /\ s[k].id # x.id
  OBVIOUS
<1>2. CASE Len(s) = 1
  <2>0. 1 \in 1..1 /\ \A k \in 1..1 : k = 1
    OBVIOUS
  <2>1. PICK a \in S : a = s[1] /\ a.id # x.id
    BY ONLY <1>1, <1>2, <2>0
  <2>2. ToSet(s) = {a}
    BY <1>1, <1>2, <2>0, <2>1 DEF ToSet
  <2>3. t = <<x, a>> \/ t = <<a, x>>
    BY <1>2, <2>1 DEF Orders
  <2>4. t \in Seq(S) /\ Len(t) = 2 /\ Apart(t) /\ ToSet(t) = {a, x}
    <3>1. CASE t = <<x, a>>
      BY <2>1, <3>1, TwoApart
    <3>2. CASE t = <<a, x>>
      BY <2>1, <3>2, TwoApart
    <3> QED
      BY <2>3, <3>1, <3>2
  <2> QED
    BY <1>2, <2>2, <2>4
<1>3. CASE Len(s) = 2
  <2>0. 1 \in 1..2 /\ 2 \in 1..2 /\ 1 # 2 /\ \A k \in 1..2 : k = 1 \/ k = 2
    OBVIOUS
  <2>1. PICK a, b \in S : a = s[1] /\ b = s[2] /\ a.id # x.id /\ b.id # x.id /\ a.id # b.id
    <3>1. s[1] \in S /\ s[2] \in S /\ s[1].id # x.id /\ s[2].id # x.id
      BY ONLY <1>1, <1>3, <2>0
    <3>2. s[1].id # s[2].id
      BY <1>1, <1>3, <2>0 DEF Apart
    <3> QED
      BY <3>1, <3>2
  <2>2. ToSet(s) = {a, b}
    BY <1>1, <1>3, <2>0, <2>1 DEF ToSet
  <2>3. t = <<x, a, b>> \/ t = <<a, x, b>> \/ t = <<a, b, x>>
    BY <1>3, <2>1 DEF Orders
  <2>4. t \in Seq(S) /\ Len(t) = 3 /\ Apart(t) /\ ToSet(t) = {a, b, x}
    <3>1. CASE t = <<x, a, b>>
      <4>1. t \in Seq(S) /\ Len(t) = 3 /\ Apart(t) /\ ToSet(t) = {x, a, b}
        BY <2>1, <3>1, ThreeApart
      <4> QED
        BY <4>1
    <3>2. CASE t = <<a, x, b>>
      <4>1. t \in Seq(S) /\ Len(t) = 3 /\ Apart(t) /\ ToSet(t) = {a, x, b}
        BY <2>1, <3>2, ThreeApart
      <4> QED
        BY <4>1
    <3>3. CASE t = <<a, b, x>>
      BY <2>1, <3>3, ThreeApart
    <3> QED
      BY <2>3, <3>1, <3>2, <3>3
  <2> QED
    BY <1>3, <2>2, <2>4
<1>4. CASE Len(s) = 3
  <2>0. 1 \in 1..3 /\ 2 \in 1..3 /\ 3 \in 1..3 /\ 1 # 2 /\ 1 # 3 /\ 2 # 3 /\ \A k \in 1..3 : k = 1 \/ k = 2 \/ k = 3
    OBVIOUS
  <2>1. PICK a, b, c \in S :
          /\ a = s[1] /\ b = s[2] /\ c = s[3] /\ a.id # x.id /\ b.id # x.id /\ c.id # x.id
          /\ a.id # b.id /\ a.id # c.id /\ b.id # c.id
    <3>1. s[1] \in S /\ s[2] \in S /\ s[3] \in S /\ s[1].id # x.id /\ s[2].id # x.id /\ s[3].id # x.id
      BY ONLY <1>1, <1>4, <2>0
    <3>2. s[1].id # s[2].id /\ s[1].id # s[3].id /\ s[2].id # s[3].id
      BY <1>1, <1>4, <2>0 DEF Apart
    <3> QED
      BY <3>1, <3>2
  <2>2. ToSet(s) = {a, b, c}
    BY <1>1, <1>4, <2>0, <2>1 DEF ToSet
  <2>3. t = <<x, b, a, c>> \/ t = <<a, b, x, c>> \/ t = <<a, x, b, c>> \/ t = <<a, c, b, x>>
    BY <1>4, <2>1 DEF Orders
  <2>4. t \in Seq(S) /\ Len(t) = 4 /\ Apart(t) /\ ToSet(t) = {a, b, c, x}
    <3>1. CASE t = <<x, b, a, c>>
      <4>1. t \in Seq(S) /\ Len(t) = 4 /\ Apart(t) /\ ToSet(t) = {x, b, a, c}
        BY ONLY x \in S, <2>1, <3>1, FourApart
      <4> QED
        BY <4>1
    <3>2. CASE t = <<a, b, x, c>>
      <4>1. t \in Seq(S) /\ Len(t) = 4 /\ Apart(t) /\ ToSet(t) = {a, b, x, c}
        BY ONLY x \in S, <2>1, <3>2, FourApart
      <4> QED
        BY <4>1
    <3>3. CASE t = <<a, x, b, c>>
      <4>1. t \in Seq(S) /\ Len(t) = 4 /\ Apart(t) /\ ToSet(t) = {a, x, b, c}
        BY ONLY x \in S, <2>1, <3>3, FourApart
      <4> QED
        BY <4>1
    <3>4. CASE t = <<a, c, b, x>>
      <4>1. t \in Seq(S) /\ Len(t) = 4 /\ Apart(t) /\ ToSet(t) = {a, c, b, x}
        BY ONLY x \in S, <2>1, <3>4, FourApart
      <4> QED
        BY <4>1
    <3> QED
      BY <2>3, <3>1, <3>2, <3>3, <3>4
  <2> QED
    BY <1>4, <2>2, <2>4
<1>5. Len(s) = 1 \/ Len(s) = 2 \/ Len(s) = 3
  BY ONLY Len(s) \in 1..3
<1> QED
  BY ONLY <1>2, <1>3, <1>4, <1>5

(* What insertSlots does with panes that are not in the view and have room *)
(* in it, wherever they are dropped.                                       *)
LEMMA ArrangedIs ==
  ASSUME NEW v \in GoodViews, NEW items \in Seq(GoodSlots), Len(items) >= 1, Len(v.slots) + Len(items) <= 4, Apart(items),
         \A k \in 1..Len(v.slots) : \A l \in 1..Len(items) : v.slots[k].id # items[l].id,
         NEW slot, NEW zone, NEW w, w = Arrange(v, slot, zone, items)
  PROVE  /\ w \in ViewsOf(GoodSlots) /\ w.id = v.id /\ w.root = v.root /\ w.focused = v.focused
         /\ Len(w.slots) = Len(v.slots) + Len(items) /\ Apart(w.slots)
         /\ ToSet(w.slots) = ToSet(v.slots) \cup ToSet(items)
<1>1. v \in ViewsOf(GoodSlots) /\ v.slots \in Seq(GoodSlots) /\ Apart(v.slots)
  BY DEF GoodViews, ViewsOf
<1>2. PICK s \in Seq(GoodSlots) : s = v.slots
  BY <1>1
<1>3. PICK n \in Nat : n = Len(s)
  OBVIOUS
<1>4. PICK l \in Nat : l = Len(items)
  OBVIOUS
<1>5. n + l <= 4 /\ l >= 1
  BY <1>2, <1>3, <1>4
<1>6. ASSUME NEW t \in Seq(GoodSlots), Len(t) = n + l, Apart(t), ToSet(t) = ToSet(s) \cup ToSet(items),
             NEW side \in {"L", "R"}, w = [v EXCEPT !.l3 = side, !.slots = t]
      PROVE  /\ w \in ViewsOf(GoodSlots) /\ w.id = v.id /\ w.root = v.root /\ w.focused = v.focused
             /\ Len(w.slots) = Len(v.slots) + Len(items) /\ Apart(w.slots)
             /\ ToSet(w.slots) = ToSet(v.slots) \cup ToSet(items)
  <2>1. w \in ViewsOf(GoodSlots) /\ w.id = v.id /\ w.root = v.root /\ w.focused = v.focused /\ w.slots = t
    BY <1>1, <1>6 DEF ViewsOf
  <2> QED
    BY <1>2, <1>3, <1>4, <1>6, <2>1
<1>7. v.l3 \in {"L", "R"} /\ \A t : [v EXCEPT !.slots = t] = [v EXCEPT !.l3 = v.l3, !.slots = t]
  BY <1>1 DEF ViewsOf
<1>8. CASE n = 0 \/ l > 1 \/ zone = "fill"
  <2>1. PICK t \in Seq(GoodSlots) : t = s \o items /\ Len(t) = n + l /\ Apart(t) /\ ToSet(t) = ToSet(s) \cup ToSet(items)
    <3>1. /\ s \o items \in Seq(GoodSlots) /\ Len(s \o items) = Len(s) + Len(items)
          /\ Apart(s \o items) /\ ToSet(s \o items) = ToSet(s) \cup ToSet(items)
      <4>1. Apart(s) /\ \A k \in 1..Len(s) : \A j \in 1..Len(items) : s[k].id # items[j].id
        BY <1>1, <1>2
      <4> QED
        BY <4>1, JoinedApart
    <3> QED
      BY <1>3, <1>4, <3>1
  <2>2. Clamp(0, n + l, 4) = n + l
    <3>1. n + l \in 0..4 /\ 0 \in Int /\ n + l \in Int /\ 4 \in Int
      BY <1>5
    <3> QED
      BY <3>1, ClampIs
  <2>3. SubSeq(t, 1, n + l) = t
    BY <2>1, SubSeqFull
  <2>4. w = [v EXCEPT !.slots = SubSeq(s \o items, 1, Clamp(0, n + l, 4))]
    BY ONLY <1>2, <1>3, <1>4, <1>8, w = Arrange(v, slot, zone, items), Zenon DEF Arrange, MAX_PANES
  <2>5. w = [v EXCEPT !.slots = t]
    BY ONLY <2>1, <2>2, <2>3, <2>4, Zenon
  <2> QED
    BY <1>6, <1>7, <2>1, <2>5
<1>9. CASE ~(n = 0 \/ l > 1 \/ zone = "fill")
  <2>1. l = 1 /\ n \in 1..3 /\ zone # "fill"
    BY ONLY <1>5, <1>9, n \in Nat, l \in Nat
  <2>2. PICK x \in GoodSlots : x = items[1] /\ ToSet(items) = {x} /\ \A k \in 1..n : s[k].id # x.id
    <3>1. 1 \in 1..1 /\ \A k \in 1..1 : k = 1
      OBVIOUS
    <3>2. Len(items) = 1 /\ DOMAIN items = 1..1 /\ items[1] \in GoodSlots
      <4>1. Len(items) = 1
        BY ONLY <1>4, <2>1
      <4> QED
        BY ONLY <4>1, items \in Seq(GoodSlots)
    <3>3. ToSet(items) = {items[1]}
      BY <3>1, <3>2 DEF ToSet
    <3> QED
      BY <1>2, <1>3, <3>1, <3>2, <3>3
  <2>3. PICK side \in {"L", "R"}, t \in Orders(x, s) : w = [v EXCEPT !.l3 = side, !.slots = t]
    <3>1. Len(items) = 1 /\ Len(v.slots) \in 1..3 /\ zone # "fill"
      BY <1>2, <1>3, <1>4, <2>1
    <3>2. Beside(w, v, items[1])
      BY ONLY <1>1, <3>1, items \in Seq(GoodSlots), w = Arrange(v, slot, zone, items), ArrangeOne
    <3> QED
      BY <1>2, <2>2, <3>2 DEF Beside
  <2>4. t \in Seq(GoodSlots) /\ Len(t) = n + 1 /\ Apart(t) /\ ToSet(t) = ToSet(s) \cup {x}
    BY <1>1, <1>2, <1>3, <2>1, <2>2, OrdersApart
  <2> QED
    BY <1>6, <2>1, <2>2, <2>3, <2>4
<1> QED
  BY <1>8, <1>9

Inserted(v, items, w) ==
  /\ w \in GoodViews /\ w.id = v.id /\ w.root = v.root
  /\ Len(w.slots) = Len(v.slots) + Len(items)
  /\ ToSet(w.slots) = ToSet(v.slots) \cup ToSet(items)
LEMMA InsertedIs ==
  ASSUME NEW v \in GoodViews, NEW items \in Seq(GoodSlots), Len(v.slots) + Len(items) <= 4, Apart(items),
         \A k \in 1..Len(v.slots) : \A l \in 1..Len(items) : v.slots[k].id # items[l].id,
         NEW slot, NEW zone, NEW w, w = InsertSlots(v, slot, zone, items)
  PROVE  Inserted(v, items, w)
<1>0. v \in ViewsOf(GoodSlots) /\ v.slots \in Seq(GoodSlots)
  BY DEF GoodViews, ViewsOf
<1>1. CASE items = <<>>
  <2>1. w = v /\ Len(items) = 0 /\ ToSet(items) = {}
    BY <1>1 DEF InsertSlots, ToSet
  <2> QED
    BY <1>0, <2>1 DEF Inserted
<1>2. CASE items # <<>>
  <2>1. Len(items) >= 1
    BY <1>2
  <2>2. PICK u : u = Arrange(v, slot, zone, items)
    OBVIOUS
  <2>3. /\ u \in ViewsOf(GoodSlots) /\ u.id = v.id /\ u.root = v.root /\ u.focused = v.focused
        /\ Len(u.slots) = Len(v.slots) + Len(items) /\ Apart(u.slots)
        /\ ToSet(u.slots) = ToSet(v.slots) \cup ToSet(items)
    BY <2>1, <2>2, ArrangedIs
  <2>4. PICK at : at = IndexOfSlot(u, items[1].id)
    OBVIOUS
  <2>5. u.slots \in Seq(GoodSlots)
    BY <2>3 DEF ViewsOf
  <2>6. PICK n \in Nat : n = Len(u.slots) /\ n <= 4 /\ n >= 1
    BY <1>0, <2>1, <2>3, <2>5
  <2>7. at \in 0..n
    BY <2>4, <2>5, <2>6, IndexIs
  <2>8. PICK f : f = Clamp(1, at, MAX_PANES)
    OBVIOUS
  <2>9. f \in 1..4 /\ (f = 1 \/ f <= n)
    BY <2>6, <2>7, <2>8 DEF Clamp, MAX_PANES
  <2>10. w = [u EXCEPT !.focused = f]
    BY <1>2, <2>2, <2>4, <2>8 DEF InsertSlots
  <2>11. w \in ViewsOf(GoodSlots) /\ w.id = v.id /\ w.root = v.root /\ w.slots = u.slots /\ w.focused = f
    <3>1. f \in Nat
      BY <2>9
    <3> QED
      BY <2>3, <2>10, <3>1 DEF ViewsOf
  <2> QED
    BY <2>3, <2>6, <2>9, <2>11 DEF GoodViews, InFocus, Inserted
<1> QED
  BY <1>1, <1>2
-----------------------------------------------------------------------------
(***************************************************************************)
(* The tabs: what the store keeps of them, as a sequence and as a set      *)
(***************************************************************************)
SlotIds(v) == {s.id : s \in ToSet(v.slots)}
Homed(vs) == \A i \in 1..Len(vs) : vs[i].root = Home <=> i = 1
Separate(V) == \A u, v \in V : u.id # v.id => SlotIds(u) \cap SlotIds(v) = {}
Laid(vs) == vs \in Seq(GoodViews) /\ Apart(vs) /\ Homed(vs) /\ Separate(ToSet(vs))
Desks == [vs : Seq(GoodViews), active : Nat]

LEMMA GoodViewIs ==
  ASSUME NEW v \in GoodViews
  PROVE  v.id \in Nat /\ v.root \in Roots /\ v.slots \in Seq(GoodSlots) /\ Len(v.slots) \in Nat /\ Len(v.slots) <= 4
         /\ ToSet(v.slots) \subseteq GoodSlots
BY ToSetIs DEF GoodViews, ViewsOf

LEMMA AtIs ==
  ASSUME NEW w, w.vs \in Seq(GoodViews), Apart(w.vs), NEW id
  PROVE  /\ At(w, id) \in 0..Len(w.vs)
         /\ Has(w, id) => At(w, id) \in 1..Len(w.vs) /\ w.vs[At(w, id)].id = id
         /\ ~Has(w, id) => \A k \in 1..Len(w.vs) : w.vs[k].id # id
         /\ \A k \in 1..Len(w.vs) : w.vs[k].id = id => Has(w, id) /\ At(w, id) = k
<1>1. PICK v : v = [slots |-> w.vs]
  OBVIOUS
<1>2. v.slots = w.vs
  BY <1>1
<1>3. PICK r : r = At(w, id)
  OBVIOUS
<1>4. r = IndexOfSlot(v, id)
  BY <1>2, <1>3, Zenon DEF At, IndexOfSlot
<1>5. PICK n \in Nat : n = Len(w.vs)
  OBVIOUS
<1>6. /\ r \in 0..n /\ (r > 0 => w.vs[r].id = id)
      /\ r = 0 => \A k \in 1..n : w.vs[k].id # id
      /\ \A k \in 1..n : w.vs[k].id = id => r = k
  BY <1>2, <1>4, <1>5, IndexIs
<1>7. Has(w, id) <=> r > 0
  BY <1>3 DEF Has
<1>8. r > 0 => r \in 1..n
  BY <1>6
<1>9. ~(r > 0) => r = 0
  BY <1>6
<1>10. \A k \in 1..n : w.vs[k].id = id => r > 0 /\ r = k
  BY <1>6
<1> QED
  BY ONLY <1>3, <1>5, <1>6, <1>7, <1>8, <1>9, <1>10

(* A tab by its id.                                                        *)
LEMMA HasIs ==
  ASSUME NEW w, w.vs \in Seq(GoodViews), Apart(w.vs), NEW id
  PROVE  /\ Has(w, id) => View(w, id) \in ToSet(w.vs) /\ View(w, id).id = id
         /\ \A v \in ToSet(w.vs) : v.id = id => Has(w, id) /\ View(w, id) = v
<1>1. \A v : v \in ToSet(w.vs) <=> \E k \in 1..Len(w.vs) : w.vs[k] = v
  BY ToSetIs
<1>2. ASSUME Has(w, id) PROVE View(w, id) \in ToSet(w.vs) /\ View(w, id).id = id
  <2>1. At(w, id) \in 1..Len(w.vs) /\ w.vs[At(w, id)].id = id
    BY <1>2, AtIs
  <2> QED
    BY <1>1, <2>1 DEF View
<1>3. ASSUME NEW v \in ToSet(w.vs), v.id = id PROVE Has(w, id) /\ View(w, id) = v
  <2>1. PICK k \in 1..Len(w.vs) : w.vs[k] = v
    BY <1>1
  <2>2. Has(w, id) /\ At(w, id) = k
    BY <1>3, <2>1, AtIs
  <2> QED
    BY <2>1, <2>2 DEF View
<1> QED
  BY <1>2, <1>3

LEMMA IdsAre ==
  ASSUME NEW S, NEW vs \in Seq(S)
  PROVE  Ids(vs) = {v.id : v \in ToSet(vs)}
<1>1. DOMAIN vs = 1..Len(vs) /\ \A v : v \in ToSet(vs) <=> \E k \in 1..Len(vs) : vs[k] = v
  BY ToSetIs
<1> QED
  BY <1>1 DEF Ids

(* Another tab in the place of one: what putView of the model does.        *)
LEMMA PutIs ==
  ASSUME NEW w \in Desks, Laid(w.vs), NEW v \in GoodViews, Has(w, v.id), v.root = View(w, v.id).root,
         \A u \in ToSet(w.vs) : u.id # v.id => SlotIds(u) \cap SlotIds(v) = {},
         NEW r, r = Put(w, v)
  PROVE  /\ r \in Desks /\ Laid(r.vs) /\ r.active = w.active /\ Len(r.vs) = Len(w.vs)
         /\ ToSet(r.vs) = (ToSet(w.vs) \ {View(w, v.id)}) \cup {v}
<1>1. PICK vs \in Seq(GoodViews) : vs = w.vs /\ Apart(vs) /\ Homed(vs) /\ Separate(ToSet(vs))
  BY DEF Laid
<1>2. PICK n \in Nat : n = Len(vs) /\ DOMAIN vs = 1..n
  OBVIOUS
<1>3. PICK i \in 1..n : i = At(w, v.id) /\ vs[i].id = v.id /\ View(w, v.id) = vs[i]
  BY <1>1, <1>2, AtIs DEF View
<1>4. PICK us : us = [vs EXCEPT ![i] = v]
  OBVIOUS
<1>5. r = [w EXCEPT !.vs = us]
  BY <1>1, <1>3, <1>4 DEF Put
<1>6. us \in Seq(GoodViews) /\ Len(us) = n /\ DOMAIN us = 1..n
  BY <1>1, <1>2, <1>4
<1>7. us[i] = v /\ \A k \in 1..n : k # i => us[k] = vs[k]
  BY <1>1, <1>2, <1>4
<1>8. r \in Desks /\ r.vs = us /\ r.active = w.active
  BY <1>5, <1>6 DEF Desks
<1>9. Apart(us)
  <2> SUFFICES ASSUME NEW k \in 1..n, NEW l \in 1..n, us[k].id = us[l].id PROVE k = l
    BY <1>6 DEF Apart
  <2>1. us[k].id = vs[k].id /\ us[l].id = vs[l].id
    BY <1>3, <1>7
  <2> QED
    BY <1>1, <1>2, <2>1 DEF Apart
<1>10. Homed(us)
  <2>1. \A k \in 1..n : us[k].root = vs[k].root
    BY <1>3, <1>7
  <2> QED
    BY <1>1, <1>2, <1>6, <2>1 DEF Homed
<1>11. ToSet(us) = (ToSet(vs) \ {vs[i]}) \cup {v}
  <2>1. \A x : x \in ToSet(us) <=> \E k \in 1..n : us[k] = x
    BY <1>6 DEF ToSet
  <2>2. \A x : x \in ToSet(vs) <=> \E k \in 1..n : vs[k] = x
    BY <1>2 DEF ToSet
  <2>3. ASSUME NEW k \in 1..n, k # i PROVE vs[k] # vs[i]
    BY <1>1, <1>2, <2>3 DEF Apart
  <2> QED
    BY <1>7, <2>1, <2>2, <2>3
<1>12. Separate(ToSet(us))
  <2> SUFFICES ASSUME NEW x \in ToSet(us), NEW y \in ToSet(us), x.id # y.id PROVE SlotIds(x) \cap SlotIds(y) = {}
    BY DEF Separate
  <2>1. x = v \/ x \in ToSet(vs)
    BY <1>11
  <2>2. y = v \/ y \in ToSet(vs)
    BY <1>11
  <2> QED
    BY <1>1, <2>1, <2>2 DEF Separate
<1> QED
  BY <1>1, <1>2, <1>3, <1>6, <1>8, <1>9, <1>10, <1>11, <1>12 DEF Laid
LEMMA TakenOut ==
  ASSUME NEW vs, Laid(vs), NEW i \in 2..Len(vs), NEW us, us = RemoveAt(vs, i)
  PROVE  Laid(us) /\ Len(us) = Len(vs) - 1 /\ Len(us) >= 1 /\ ToSet(us) = ToSet(vs) \ {vs[i]}
<1>1. vs \in Seq(GoodViews) /\ Apart(vs) /\ Homed(vs) /\ Separate(ToSet(vs))
  BY DEF Laid
<1>2. PICK n \in Nat : n = Len(vs) /\ DOMAIN vs = 1..n /\ i \in 2..n
  BY <1>1
<1>3. us \in Seq(GoodViews) /\ Len(us) = n - 1 /\ \A k \in 1..n - 1 : us[k] = IF k < i THEN vs[k] ELSE vs[k + 1]
  <2>1. i \in 1..Len(vs)
    BY ONLY <1>2, n \in Nat
  <2> QED
    BY <1>1, <1>2, <2>1, RemoveAtElements
<1> DEFINE m == [k \in 1..n - 1 |-> IF k < i THEN k ELSE k + 1]
<1>4. \A k \in 1..n - 1 : m[k] = IF k < i THEN k ELSE k + 1
  OBVIOUS
<1> HIDE DEF m
<1>5. \A k \in 1..n - 1 : m[k] \in 1..n /\ m[k] # i /\ (m[k] = 1 <=> k = 1)
  BY ONLY <1>2, <1>4, n \in Nat
<1>6. \A k, l \in 1..n - 1 : m[k] = m[l] => k = l
  BY ONLY <1>2, <1>4, n \in Nat
<1>7. \A j \in 1..n : j # i => \E k \in 1..n - 1 : m[k] = j
  <2> SUFFICES ASSUME NEW j \in 1..n, j # i PROVE \E k \in 1..n - 1 : m[k] = j
    OBVIOUS
  <2>1. CASE j < i
    <3>1. j \in 1..n - 1
      BY ONLY <1>2, <2>1, n \in Nat, j \in 1..n
    <3> QED
      BY ONLY <1>4, <2>1, <3>1
  <2>2. CASE j > i
    <3>1. j - 1 \in 1..n - 1 /\ ~(j - 1 < i) /\ (j - 1) + 1 = j
      BY ONLY <1>2, <2>2, n \in Nat, j \in 1..n
    <3> QED
      BY ONLY <1>4, <3>1
  <2> QED
    BY ONLY <1>2, <2>1, <2>2, n \in Nat, j \in 1..n, j # i
<1>8. \A k \in 1..n - 1 : us[k] = vs[m[k]]
  BY ONLY <1>3, <1>4
<1>9. DOMAIN us = 1..n - 1
  BY <1>3
<1>10. Apart(us)
  <2> SUFFICES ASSUME NEW k \in 1..n - 1, NEW l \in 1..n - 1, us[k].id = us[l].id PROVE k = l
    BY <1>9 DEF Apart
  <2>1. vs[m[k]].id = vs[m[l]].id /\ m[k] \in 1..n /\ m[l] \in 1..n
    BY <1>5, <1>8
  <2>2. m[k] = m[l]
    BY ONLY <1>1, <1>2, <2>1 DEF Apart
  <2> QED
    BY <1>6, <2>2
<1>11. Homed(us)
  <2>1. \A k \in 1..n - 1 : us[k].root = Home <=> k = 1
    BY ONLY <1>1, <1>2, <1>5, <1>8 DEF Homed
  <2> QED
    BY ONLY <1>3, <2>1 DEF Homed
<1>12. ToSet(us) = ToSet(vs) \ {vs[i]}
  <2>1. \A x : x \in ToSet(us) <=> \E k \in 1..n - 1 : us[k] = x
    BY ONLY <1>9 DEF ToSet
  <2>2. \A x : x \in ToSet(vs) <=> \E k \in 1..n : vs[k] = x
    BY ONLY <1>2 DEF ToSet
  <2>3. i \in 1..n
    BY ONLY <1>2, n \in Nat
  <2>4. \A k \in 1..n : k # i => vs[k] # vs[i]
    BY ONLY <1>1, <1>2, <2>3 DEF Apart
  <2>5. ASSUME NEW x \in ToSet(us) PROVE x \in ToSet(vs) \ {vs[i]}
    <3>1. PICK k \in 1..n - 1 : us[k] = x
      BY <2>1
    <3>2. x = vs[m[k]] /\ m[k] \in 1..n /\ m[k] # i
      BY ONLY <1>5, <1>8, <3>1
    <3> QED
      BY <2>2, <2>4, <3>2
  <2>6. ASSUME NEW x \in ToSet(vs) \ {vs[i]} PROVE x \in ToSet(us)
    <3>1. PICK j \in 1..n : vs[j] = x /\ j # i
      BY <2>2
    <3>2. PICK k \in 1..n - 1 : m[k] = j
      BY <1>7, <3>1
    <3>3. us[k] = x
      BY ONLY <1>8, <3>1, <3>2
    <3> QED
      BY <2>1, <3>3
  <2> QED
    BY ONLY <2>5, <2>6
<1>13. Separate(ToSet(us))
  BY ONLY <1>1, <1>12 DEF Separate
<1>14. n - 1 >= 1
  BY ONLY <1>2, n \in Nat
<1> QED
  BY ONLY <1>2, <1>3, <1>10, <1>11, <1>12, <1>13, <1>14 DEF Laid

(* A tab more.                                                             *)
New(vs, v) ==
  /\ v \in GoodViews
  /\ \A u \in ToSet(vs) : u.id # v.id /\ SlotIds(u) \cap SlotIds(v) = {}
LEMMA PutIn ==
  ASSUME NEW vs, Laid(vs), NEW i \in 1..(Len(vs) + 1), NEW v, New(vs, v), v.root = Home <=> i = 1, i = 1 => Len(vs) = 0,
         NEW us, us = InsertAt(vs, i, v)
  PROVE  Laid(us) /\ Len(us) = Len(vs) + 1 /\ ToSet(us) = ToSet(vs) \cup {v}
<1>1. vs \in Seq(GoodViews) /\ Apart(vs) /\ Homed(vs) /\ Separate(ToSet(vs)) /\ v \in GoodViews
  BY DEF Laid, New
<1>2. PICK n \in Nat : n = Len(vs) /\ DOMAIN vs = 1..n /\ i \in 1..n + 1 /\ (i = 1 => n = 0)
  BY <1>1
<1>3. us \in Seq(GoodViews) /\ Len(us) = n + 1 /\ \A k \in 1..n + 1 : us[k] = IF k < i THEN vs[k] ELSE IF k = i THEN v ELSE vs[k - 1]
  <2>1. /\ InsertAt(vs, i, v) \in Seq(GoodViews) /\ Len(InsertAt(vs, i, v)) = Len(vs) + 1
        /\ \A k \in 1..Len(vs) + 1 : InsertAt(vs, i, v)[k] = IF k < i THEN vs[k] ELSE IF k = i THEN v ELSE vs[k - 1]
    BY ONLY <1>1, i \in 1..(Len(vs) + 1), InsertAtElements
  <2> QED
    BY ONLY <1>2, <2>1, us = InsertAt(vs, i, v)
<1> DEFINE m == [k \in 1..n + 1 |-> IF k < i THEN k ELSE k - 1]
<1>4. \A k \in 1..n + 1 : m[k] = IF k < i THEN k ELSE k - 1
  OBVIOUS
<1> HIDE DEF m
<1>5. \A k \in 1..n + 1 : k # i => m[k] \in 1..n /\ (m[k] = 1 <=> k = 1)
  BY ONLY <1>2, <1>4, n \in Nat
<1>6. \A k, l \in 1..n + 1 : k # i /\ l # i /\ m[k] = m[l] => k = l
  BY ONLY <1>2, <1>4, n \in Nat
<1>7. \A j \in 1..n : \E k \in 1..n + 1 : k # i /\ m[k] = j
  <2> SUFFICES ASSUME NEW j \in 1..n PROVE \E k \in 1..n + 1 : k # i /\ m[k] = j
    OBVIOUS
  <2>1. CASE j < i
    <3>1. j \in 1..n + 1 /\ j # i
      BY ONLY <1>2, <2>1, n \in Nat, j \in 1..n
    <3> QED
      BY ONLY <1>4, <2>1, <3>1
  <2>2. CASE ~(j < i)
    <3>1. j + 1 \in 1..n + 1 /\ ~(j + 1 < i) /\ (j + 1) - 1 = j /\ j + 1 # i
      BY ONLY <1>2, <2>2, n \in Nat, j \in 1..n
    <3> QED
      BY ONLY <1>4, <3>1
  <2> QED
    BY ONLY <2>1, <2>2
<1>8. us[i] = v /\ \A k \in 1..n + 1 : k # i => us[k] = vs[m[k]]
  <2>1. \A k \in 1..n + 1 : k # i => (k < i \/ (~(k < i) /\ k # i))
    BY ONLY <1>2, n \in Nat
  <2>2. ~(i < i) /\ i \in 1..n + 1
    BY ONLY <1>2, n \in Nat
  <2> QED
    BY ONLY <1>3, <1>4, <2>1, <2>2
<1>9. DOMAIN us = 1..n + 1
  BY <1>3
<1>10. \A x : x \in ToSet(vs) <=> \E k \in 1..n : vs[k] = x
  BY ONLY <1>2 DEF ToSet
<1>11. Apart(us)
  <2> SUFFICES ASSUME NEW k \in 1..n + 1, NEW l \in 1..n + 1, us[k].id = us[l].id PROVE k = l
    BY <1>9 DEF Apart
  <2>1. \A j \in 1..n + 1 : j # i => us[j].id # v.id
    BY <1>5, <1>8, <1>10 DEF New
  <2>2. CASE k # i /\ l # i
    <3>1. vs[m[k]].id = vs[m[l]].id /\ m[k] \in 1..n /\ m[l] \in 1..n
      BY <1>5, <1>8, <2>2
    <3>2. m[k] = m[l]
      BY ONLY <1>1, <1>2, <3>1 DEF Apart
    <3> QED
      BY <1>6, <2>2, <3>2
  <2> QED
    BY <1>8, <2>1, <2>2
<1>12. Homed(us)
  <2>1. \A k \in 1..n + 1 : us[k].root = Home <=> k = 1
    <3> SUFFICES ASSUME NEW k \in 1..n + 1 PROVE us[k].root = Home <=> k = 1
      OBVIOUS
    <3>1. CASE k = i
      BY <1>8, <3>1
    <3>2. CASE k # i
      BY ONLY <1>1, <1>2, <1>5, <1>8, <3>2, k \in 1..n + 1 DEF Homed
    <3> QED
      BY <3>1, <3>2
  <2> QED
    BY ONLY <1>3, <2>1 DEF Homed
<1>13. ToSet(us) = ToSet(vs) \cup {v}
  <2>1. \A x : x \in ToSet(us) <=> \E k \in 1..n + 1 : us[k] = x
    BY ONLY <1>9 DEF ToSet
  <2>2. ASSUME NEW x \in ToSet(us) PROVE x \in ToSet(vs) \cup {v}
    <3>1. PICK k \in 1..n + 1 : us[k] = x
      BY <2>1
    <3>2. CASE k = i
      BY <1>8, <3>1, <3>2
    <3>3. CASE k # i
      <4>1. x = vs[m[k]] /\ m[k] \in 1..n
        BY ONLY <1>5, <1>8, <3>1, <3>3
      <4> QED
        BY <1>10, <4>1
    <3> QED
      BY <3>2, <3>3
  <2>3. ASSUME NEW x \in ToSet(vs) PROVE x \in ToSet(us)
    <3>1. PICK j \in 1..n : vs[j] = x
      BY <1>10
    <3>2. PICK k \in 1..n + 1 : k # i /\ m[k] = j
      BY <1>7, <3>1
    <3>3. us[k] = x
      BY ONLY <1>8, <3>1, <3>2
    <3> QED
      BY <2>1, <3>3
  <2>4. v \in ToSet(us)
    <3>1. i \in 1..n + 1
      BY <1>2
    <3> QED
      BY <1>8, <2>1, <3>1
  <2> QED
    BY ONLY <2>2, <2>3, <2>4
<1>14. Separate(ToSet(us))
  <2> SUFFICES ASSUME NEW x \in ToSet(us), NEW y \in ToSet(us), x.id # y.id PROVE SlotIds(x) \cap SlotIds(y) = {}
    BY DEF Separate
  <2> QED
    BY <1>1, <1>13 DEF Separate, New
<1> QED
  BY ONLY <1>1, <1>2, <1>3, <1>11, <1>12, <1>13, <1>14 DEF Laid

LEMMA PushIs ==
  ASSUME NEW w \in Desks, Laid(w.vs), NEW v, New(w.vs, v), v.root = Home <=> Len(w.vs) = 0, NEW r, r = PushView(w, v)
  PROVE  /\ r \in Desks /\ Laid(r.vs) /\ r.active = w.active /\ Len(r.vs) = Len(w.vs) + 1
         /\ ToSet(r.vs) = ToSet(w.vs) \cup {v}
<1>1. PICK vs \in Seq(GoodViews) : vs = w.vs /\ Laid(vs) /\ v \in GoodViews
  BY DEF Laid, New
<1>2. PICK n \in Nat : n = Len(vs)
  OBVIOUS
<1>3. PICK us : us = Append(vs, v)
  OBVIOUS
<1>4. us = InsertAt(vs, n + 1, v)
  <2>1. SubSeq(vs, 1, n) = vs /\ SubSeq(vs, n + 1, n) = <<>>
    BY <1>1, <1>2
  <2>2. (n + 1) - 1 = n
    OBVIOUS
  <2>3. InsertAt(vs, n + 1, v) = vs \o <<v>> \o <<>>
    BY ONLY <1>2, <2>1, <2>2 DEF InsertAt
  <2>4. Append(vs, v) = vs \o <<v>> \o <<>>
    BY <1>1
  <2> QED
    BY <1>3, <2>3, <2>4
<1>5. n + 1 \in 1..(Len(vs) + 1) /\ (n + 1 = 1 <=> Len(vs) = 0)
  BY <1>2
<1>6. Laid(us) /\ Len(us) = Len(vs) + 1 /\ ToSet(us) = ToSet(vs) \cup {v}
  BY <1>1, <1>4, <1>5, PutIn
<1>7. r = [w EXCEPT !.vs = us]
  BY <1>1, <1>3 DEF PushView
<1>8. r \in Desks /\ r.vs = us /\ r.active = w.active
  BY <1>6, <1>7 DEF Desks, Laid
<1> QED
  BY <1>1, <1>6, <1>8

LEMMA InsertIs ==
  ASSUME NEW w \in Desks, Laid(w.vs), Len(w.vs) >= 1, NEW v, New(w.vs, v), v.root # Home, NEW to \in Int,
         NEW r, r = InsertView(w, to, v)
  PROVE  /\ r \in Desks /\ Laid(r.vs) /\ r.active = w.active /\ Len(r.vs) = Len(w.vs) + 1
         /\ ToSet(r.vs) = ToSet(w.vs) \cup {v}
<1>1. PICK vs \in Seq(GoodViews) : vs = w.vs /\ Laid(vs)
  BY DEF Laid
<1>2. PICK n \in Nat : n = Len(vs) /\ n >= 1
  BY <1>1
<1>3. PICK i : i = Clamp(2, to, n + 1)
  OBVIOUS
<1>4. i \in 2..n + 1
  BY ONLY <1>2, <1>3, ClampIs, n \in Nat, to \in Int
<1>5. PICK us : us = InsertAt(vs, i, v)
  OBVIOUS
<1>6. Laid(us) /\ Len(us) = Len(vs) + 1 /\ ToSet(us) = ToSet(vs) \cup {v}
  <2>1. i \in 1..(Len(vs) + 1) /\ i # 1
    BY ONLY <1>2, <1>4, n \in Nat
  <2> QED
    BY <1>1, <1>5, <2>1, PutIn
<1>7. r = [w EXCEPT !.vs = us]
  BY <1>1, <1>2, <1>3, <1>5 DEF InsertView, FirstMovableIndex
<1>8. r \in Desks /\ r.vs = us /\ r.active = w.active
  BY <1>6, <1>7 DEF Desks, Laid
<1> QED
  BY <1>1, <1>6, <1>8
LEMMA DissolveIs ==
  ASSUME NEW w \in Desks, Laid(w.vs), NEW id, NEW r, r = DissolveView(w, id)
  PROVE  /\ r \in Desks /\ Laid(r.vs)
         /\ ~Has(w, id) \/ View(w, id).root = Home => r = w
         /\ Has(w, id) /\ View(w, id).root # Home =>
              /\ ToSet(r.vs) = ToSet(w.vs) \ {View(w, id)} /\ Len(r.vs) >= 1 /\ Has(r, r.active)
              /\ (w.active \in Ids(r.vs) => r.active = w.active)
<1>1. CASE ~Has(w, id) \/ View(w, id).root = Home
  <2>1. r = w
    BY <1>1 DEF DissolveView
  <2> QED
    BY <1>1, <2>1
<1>2. CASE Has(w, id) /\ View(w, id).root # Home
  <2>1. PICK vs \in Seq(GoodViews) : vs = w.vs /\ Laid(vs) /\ Apart(vs) /\ Homed(vs)
    BY DEF Laid
  <2>2. PICK n \in Nat : n = Len(vs)
    OBVIOUS
  <2>3. PICK i \in 1..n : i = At(w, id) /\ View(w, id) = vs[i]
    BY <1>2, <2>1, <2>2, AtIs DEF View
  <2>4. i \in 2..n
    <3>1. i # 1
      BY <1>2, <2>1, <2>2, <2>3 DEF Homed
    <3> QED
      BY ONLY <3>1, n \in Nat, i \in 1..n
  <2>5. PICK us : us = RemoveAt(vs, i)
    OBVIOUS
  <2>6. Laid(us) /\ Len(us) = Len(vs) - 1 /\ Len(us) >= 1 /\ ToSet(us) = ToSet(vs) \ {vs[i]}
    BY <2>1, <2>2, <2>4, <2>5, TakenOut
  <2>7. PICK m \in Nat : m = Len(us) /\ m >= 1 /\ DOMAIN us = 1..m /\ us \in Seq(GoodViews) /\ Apart(us)
    BY <2>6 DEF Laid
  <2>8. Clamp(1, i, m) \in 1..m
    <3>1. 1 \in Int /\ i \in Int /\ m \in Int /\ 1 <= m
      BY ONLY <2>7, i \in 1..n, n \in Nat, m \in Nat
    <3> QED
      BY ONLY <3>1, ClampIs
  <2>9. PICK a : a = IF w.active \in Ids(us) THEN w.active ELSE us[Clamp(1, i, m)].id
    OBVIOUS
  <2>10. r = [vs |-> us, active |-> a]
    BY <1>2, <2>1, <2>3, <2>5, <2>7, <2>9 DEF DissolveView
  <2>11. \E k \in 1..m : us[k].id = a
    <3>1. CASE w.active \in Ids(us)
      BY <2>7, <2>9, <3>1 DEF Ids
    <3>2. CASE w.active \notin Ids(us)
      BY <2>8, <2>9, <3>2
    <3> QED
      BY <3>1, <3>2
  <2>12. a \in Nat
    <3>1. PICK k \in 1..m : us[k].id = a
      BY <2>11
    <3>2. us[k] \in GoodViews
      BY <2>7
    <3> QED
      BY <3>1, <3>2, GoodViewIs
  <2>13. r \in Desks /\ r.vs = us /\ r.active = a
    BY <2>7, <2>10, <2>12 DEF Desks
  <2>14. Has(r, a)
    BY <2>7, <2>11, <2>13, AtIs
  <2> QED
    BY <1>2, <2>1, <2>3, <2>6, <2>7, <2>9, <2>13, <2>14
<1> QED
  BY <1>1, <1>2

(* What is not taken yet.                                                  *)
LEMMA UnusedIs ==
  ASSUME NEW S, IsFiniteSet(S)
  PROVE  Unused(S) \in Nat /\ Unused(S) \notin S
<1>1. PICK c \in Nat : c = Cardinality(S)
  BY FS_CardinalityType
<1>2. \E n \in 1..c + 1 : n \notin S
  <2> SUFFICES ASSUME 1..c + 1 \subseteq S PROVE FALSE
    OBVIOUS
  <2>1. Cardinality(1..c + 1) <= c
    BY <1>1, FS_Subset
  <2>2. Cardinality(1..c + 1) = c + 1
    <3>1. 1 \in Int /\ c + 1 \in Int /\ ~(1 > c + 1) /\ (c + 1) - 1 + 1 = c + 1
      OBVIOUS
    <3>2. Cardinality(1..c + 1) = IF 1 > c + 1 THEN 0 ELSE (c + 1) - 1 + 1
      BY ONLY <3>1, FS_Interval
    <3> QED
      BY ONLY <3>1, <3>2
  <2> QED
    BY ONLY <2>1, <2>2, c \in Nat
<1>3. PICK u : u = CHOOSE n \in 1..c + 1 : n \notin S
  OBVIOUS
<1>4. u \in 1..c + 1 /\ u \notin S
  BY <1>2, <1>3
<1>5. Unused(S) = u
  BY <1>1, <1>3 DEF Unused
<1> QED
  BY <1>4, <1>5

LEMMA FiniteImage ==
  ASSUME NEW S, IsFiniteSet(S), NEW T, NEW f \in [S -> T], \A y \in T : \E x \in S : f[x] = y
  PROVE  IsFiniteSet(T)
<1>1. f \in Surjection(S, T)
  BY DEF Surjection
<1> QED
  BY <1>1, FS_Surjection

LEMMA FiniteIds ==
  ASSUME NEW S, IsFiniteSet(S)
  PROVE  IsFiniteSet({s.id : s \in S})
<1> DEFINE f == [s \in S |-> s.id]
<1>1. f \in [S -> {s.id : s \in S}] /\ \A y \in {s.id : s \in S} : \E x \in S : f[x] = y
  OBVIOUS
<1> HIDE DEF f
<1> QED
  BY <1>1, FiniteImage

LEMMA FiniteElements ==
  ASSUME NEW S, NEW s \in Seq(S)
  PROVE  IsFiniteSet(ToSet(s))
<1>1. DOMAIN s = 1..Len(s) /\ Len(s) \in Nat
  OBVIOUS
<1>2. IsFiniteSet(DOMAIN s)
  <2>1. 1 \in Int /\ Len(s) \in Int
    BY <1>1
  <2> QED
    BY <1>1, <2>1, FS_Interval
<1>3. s \in [DOMAIN s -> ToSet(s)] /\ \A y \in ToSet(s) : \E x \in DOMAIN s : s[x] = y
  BY DEF ToSet
<1> QED
  BY <1>2, <1>3, FiniteImage

(* The keys of a workspace, and what is new in it.                         *)
Keyed(w) == UNION {SlotIds(v) : v \in ToSet(w.vs)}
LEMMA KeyedIs ==
  ASSUME NEW w \in Desks
  PROVE  /\ IsFiniteSet(Keyed(w)) /\ IsFiniteSet(Ids(w.vs))
         /\ Keyed(w) = {s.id : s \in UNION {ToSet(v.slots) : v \in ToSet(w.vs)}}
         /\ \A v \in ToSet(w.vs) : v \in GoodViews /\ SlotIds(v) \subseteq Keyed(w)
<1>1. w.vs \in Seq(GoodViews) /\ ToSet(w.vs) \subseteq GoodViews
  BY ToSetIs DEF Desks
<1>2. IsFiniteSet(ToSet(w.vs))
  BY <1>1, FiniteElements
<1>3. IsFiniteSet(Ids(w.vs))
  BY <1>1, <1>2, IdsAre, FiniteIds
<1> DEFINE T == {ToSet(v.slots) : v \in ToSet(w.vs)}
<1>4. IsFiniteSet(T)
  <2> DEFINE f == [v \in ToSet(w.vs) |-> ToSet(v.slots)]
  <2>1. f \in [ToSet(w.vs) -> T] /\ \A y \in T : \E x \in ToSet(w.vs) : f[x] = y
    OBVIOUS
  <2> HIDE DEF f, T
  <2> QED
    BY <1>2, <2>1, FiniteImage
<1>5. \A t \in T : IsFiniteSet(t)
  <2> SUFFICES ASSUME NEW v \in ToSet(w.vs) PROVE IsFiniteSet(ToSet(v.slots))
    OBVIOUS
  <2>1. v.slots \in Seq(GoodSlots)
    BY <1>1, GoodViewIs
  <2> QED
    BY <2>1, FiniteElements
<1>6. IsFiniteSet(UNION T)
  <2> HIDE DEF T
  <2> QED
    BY <1>4, <1>5, FS_UNION
<1>7. Keyed(w) = {s.id : s \in UNION T}
  BY DEF Keyed, SlotIds
<1>8. IsFiniteSet(Keyed(w))
  BY <1>6, <1>7, FiniteIds
<1>9. \A v \in ToSet(w.vs) : SlotIds(v) \subseteq Keyed(w)
  BY DEF Keyed
<1> QED
  BY <1>1, <1>3, <1>7, <1>8, <1>9

LEMMA HeldIsFinite == IsFiniteSet(Held)
<1>1. IsFiniteSet({call, asked} \ {None})
  <2>1. IsFiniteSet({call} \cup {asked})
    BY FS_Singleton, FS_AddElement
  <2>2. {call, asked} = {call} \cup {asked}
    OBVIOUS
  <2> QED
    BY <2>1, <2>2, FS_Difference
<1> DEFINE f == [r \in {call, asked} \ {None} |-> r.view]
<1>2. f \in [{call, asked} \ {None} -> Held] /\ \A y \in Held : \E x \in {call, asked} \ {None} : f[x] = y
  BY DEF Held
<1> HIDE DEF f
<1> QED
  BY <1>1, <1>2, FiniteImage

Fresh(w, root, slots, v) == New(w.vs, v) /\ v.root = root /\ v.slots = slots
LEMMA NewViewIs ==
  ASSUME NEW w \in Desks, NEW root \in Roots, NEW slots \in Seq(GoodSlots), Len(slots) <= 4, Apart(slots),
         \A s \in ToSet(slots) : s.id \notin Keyed(w), NEW v, v = NewView(w, root, slots)
  PROVE  Fresh(w, root, slots, v)
<1>1. PICK n \in Nat : n = Unused(Ids(w.vs) \cup Held) /\ n \notin Ids(w.vs)
  <2>1. IsFiniteSet(Ids(w.vs) \cup Held)
    BY KeyedIs, HeldIsFinite, FS_Union
  <2> QED
    BY <2>1, UnusedIs
<1>2. v = [id |-> n, root |-> root, slots |-> slots, focused |-> 1, l3 |-> "L"]
  BY <1>1 DEF NewView
<1>3. v \in ViewsOf(GoodSlots) /\ v.id = n /\ v.root = root /\ v.slots = slots /\ v.focused = 1
  BY <1>2 DEF ViewsOf
<1>4. v \in GoodViews
  BY <1>3 DEF GoodViews, InFocus
<1>5. ASSUME NEW u \in ToSet(w.vs) PROVE u.id # v.id /\ SlotIds(u) \cap SlotIds(v) = {}
  <2>1. u.id # v.id
    BY <1>1, <1>3, IdsAre DEF Desks
  <2>2. SlotIds(u) \subseteq Keyed(w)
    BY KeyedIs
  <2> QED
    BY <1>3, <2>1, <2>2 DEF SlotIds
<1> QED
  BY <1>3, <1>4, <1>5 DEF New, Fresh

LEMMA SessionSlotIs ==
  ASSUME NEW s \in Sessions
  PROVE  /\ SessionSlot(s) \in GoodSlots /\ SessionSlot(s).id = s /\ SessionSlot(s).tabs = <<>>
         /\ <<SessionSlot(s)>> \in Seq(GoodSlots) /\ Len(<<SessionSlot(s)>>) = 1 /\ Apart(<<SessionSlot(s)>>)
         /\ ToSet(<<SessionSlot(s)>>) = {SessionSlot(s)}
<1>1. PICK x : x = SessionSlot(s) /\ x \in SlotT /\ x.id = s /\ x.tabs = <<>>
  <2>1. <<>> \in Seq(Files \cup Diffs) /\ s \in Keys /\ 0 \in Nat
    BY DEF Keys
  <2>2. PICK e \in Seq(Files \cup Diffs) : e = <<>>
    BY <2>1
  <2>3. PICK x : x = [id |-> s, tabs |-> e, active |-> 0]
    OBVIOUS
  <2>4. x \in SlotT /\ x.id = s /\ x.tabs = e
    BY <2>1, <2>3 DEF SlotT
  <2> QED
    BY <2>2, <2>3, <2>4 DEF SessionSlot
<1>2. x \in GoodSlots
  BY <1>1 DEF GoodSlots
<1>3. <<x>> \in Seq(GoodSlots) /\ Len(<<x>>) = 1 /\ Apart(<<x>>) /\ ToSet(<<x>>) = {x}
  BY <1>2 DEF Apart, ToSet
<1> QED
  BY ONLY <1>1, <1>2, <1>3

LEMMA NewEditorIs ==
  ASSUME NEW w \in Desks, NEW tab \in Files \cup Diffs, NEW x, x = NewEditorSlot(w, tab)
  PROVE  /\ x \in GoodSlots /\ x.id \notin Sessions /\ x.id \notin Keyed(w) /\ x.tabs = <<tab>>
         /\ <<x>> \in Seq(GoodSlots) /\ Len(<<x>>) = 1 /\ Apart(<<x>>) /\ ToSet(<<x>>) = {x}
<1>1. PICK n \in Nat : n = Unused(Keyed(w) \ Sessions) /\ n \notin Keyed(w) \ Sessions
  <2>1. IsFiniteSet(Keyed(w) \ Sessions)
    BY KeyedIs, FS_Difference
  <2> QED
    BY <2>1, UnusedIs
<1>2. n \notin Sessions
  BY WorkspaceAssumption
<1>3. x = [id |-> n, tabs |-> <<tab>>, active |-> 1]
  BY <1>1, KeyedIs DEF NewEditorSlot
<1>4. x \in SlotT /\ x.id = n /\ x.tabs = <<tab>> /\ x.active = 1
  BY <1>3 DEF SlotT, Keys
<1>5. Strip(x)
  BY <1>4, WorkspaceAssumption DEF Strip
<1>6. x \in GoodSlots
  BY <1>2, <1>4, <1>5 DEF GoodSlots
<1>7. <<x>> \in Seq(GoodSlots) /\ Len(<<x>>) = 1 /\ Apart(<<x>>) /\ ToSet(<<x>>) = {x}
  BY <1>6 DEF Apart, ToSet
<1> QED
  BY ONLY <1>1, <1>2, <1>4, <1>6, <1>7
-----------------------------------------------------------------------------
(***************************************************************************)
(* What every change of the arrangement keeps                              *)
(***************************************************************************)
Slotted(w) == UNION {ToSet(v.slots) : v \in ToSet(w.vs)}
Stands(w) == w \in Desks /\ Laid(w.vs) /\ Len(w.vs) >= 1
Firm(w) == Stands(w) /\ Has(w, w.active)
Bare(v) == v.root = None /\ v.slots = <<>>
Filled(w) == \A v \in ToSet(w.vs) : ~Bare(v)
Sound(w) == Firm(w) /\ Filled(w)

(* Slots of one view, and of two, with the same key.                       *)
LEMMA OneOf ==
  ASSUME NEW v \in GoodViews, NEW s \in ToSet(v.slots), NEW t \in ToSet(v.slots), s.id = t.id
  PROVE  s = t
<1>1. v.slots \in Seq(GoodSlots) /\ Apart(v.slots)
  BY DEF GoodViews, ViewsOf
<1>2. PICK q \in Seq(GoodSlots) : q = v.slots /\ Apart(q) /\ DOMAIN q = 1..Len(q)
  BY <1>1
<1>3. PICK k \in DOMAIN q : q[k] = s
  BY <1>2, ToSetIs
<1>4. PICK l \in DOMAIN q : q[l] = t
  BY <1>2, ToSetIs
<1> QED
  BY <1>2, <1>3, <1>4 DEF Apart

LEMMA TabsAre ==
  ASSUME NEW w, Stands(w)
  PROVE  /\ w.vs \in Seq(GoodViews) /\ ToSet(w.vs) \subseteq GoodViews /\ Apart(w.vs) /\ w.active \in Nat
         /\ \A v \in ToSet(w.vs) : Has(w, v.id) /\ View(w, v.id) = v
         /\ \A id : Has(w, id) => View(w, id) \in ToSet(w.vs) /\ View(w, id).id = id
         /\ \A id : Has(w, id) <=> id \in Ids(w.vs)
<1>1. w.vs \in Seq(GoodViews) /\ Apart(w.vs) /\ w.active \in Nat
  BY DEF Stands, Laid, Desks
<1>2. ToSet(w.vs) \subseteq GoodViews
  BY <1>1, ToSetIs
<1>3. \A v \in ToSet(w.vs) : Has(w, v.id) /\ View(w, v.id) = v
  BY <1>1, HasIs
<1>4. \A id : Has(w, id) => View(w, id) \in ToSet(w.vs) /\ View(w, id).id = id
  BY <1>1, HasIs
<1>5. Ids(w.vs) = {v.id : v \in ToSet(w.vs)}
  BY <1>1, IdsAre
<1> QED
  BY <1>1, <1>2, <1>3, <1>4, <1>5

LEMMA KeyApart ==
  ASSUME NEW w, Stands(w), NEW u \in ToSet(w.vs), NEW v \in ToSet(w.vs), NEW s \in ToSet(u.slots), NEW t \in ToSet(v.slots),
         s.id = t.id
  PROVE  u = v /\ s = t
<1>1. u.id = v.id
  <2> SUFFICES ASSUME u.id # v.id PROVE FALSE
    OBVIOUS
  <2>1. SlotIds(u) \cap SlotIds(v) = {}
    BY DEF Stands, Laid, Separate
  <2>2. s.id \in SlotIds(u) /\ t.id \in SlotIds(v)
    BY DEF SlotIds
  <2> QED
    BY <2>1, <2>2
<1>2. u = v
  BY <1>1, TabsAre
<1>3. v \in GoodViews
  BY TabsAre
<1>4. s = t
  BY <1>2, <1>3, OneOf
<1> QED
  BY <1>2, <1>4

(* The view with an id is replaced.                                        *)
Edited(w, id, v, r) ==
  /\ Stands(r) /\ r.active = w.active /\ Len(r.vs) = Len(w.vs)
  /\ ToSet(r.vs) = (ToSet(w.vs) \ {View(w, id)}) \cup {v}
  /\ Has(r, id) /\ View(r, id) = v
  /\ \A x : Has(r, x) <=> Has(w, x)
  /\ \A x : Has(w, x) /\ x # id => View(r, x) = View(w, x)
  /\ Slotted(r) = (Slotted(w) \ ToSet(View(w, id).slots)) \cup ToSet(v.slots)
  /\ Firm(w) => Firm(r)
  /\ (\A u \in ToSet(w.vs) : u.id # id => ~Bare(u)) /\ ~Bare(v) => Filled(r)
LEMMA Changed ==
  ASSUME NEW w, Stands(w), NEW id, Has(w, id), NEW v \in GoodViews, v.id = id, v.root = View(w, id).root,
         \A s \in ToSet(v.slots) : s.id \in SlotIds(View(w, id)) \/ s.id \notin Keyed(w), NEW r, r = Put(w, v)
  PROVE  Edited(w, id, v, r)
<1>1. PICK old \in ToSet(w.vs) : old = View(w, id) /\ old.id = id /\ old \in GoodViews
  BY TabsAre
<1>2. \A u \in ToSet(w.vs) : u.id # v.id => SlotIds(u) \cap SlotIds(v) = {}
  <2> SUFFICES ASSUME NEW u \in ToSet(w.vs), u.id # id, NEW k \in SlotIds(u), k \in SlotIds(v) PROVE FALSE
    OBVIOUS
  <2>1. PICK s \in ToSet(v.slots) : s.id = k
    BY DEF SlotIds
  <2>2. k \in Keyed(w)
    BY DEF Keyed
  <2>3. k \in SlotIds(old)
    BY <1>1, <2>1, <2>2
  <2>4. SlotIds(u) \cap SlotIds(old) = {}
    BY <1>1 DEF Stands, Laid, Separate
  <2> QED
    BY <2>3, <2>4
<1>3. /\ r \in Desks /\ Laid(r.vs) /\ r.active = w.active /\ Len(r.vs) = Len(w.vs)
      /\ ToSet(r.vs) = (ToSet(w.vs) \ {old}) \cup {v}
  <2>1. w \in Desks /\ Laid(w.vs)
    BY DEF Stands
  <2> QED
    BY <1>1, <1>2, <2>1, PutIs
<1>4. Stands(r)
  BY <1>3 DEF Stands
<1>5. \A u : u \in ToSet(r.vs) <=> (u \in ToSet(w.vs) /\ u # old) \/ u = v
  BY <1>3
<1>6. \A u \in ToSet(w.vs) : u.id = id => u = old
  BY <1>1, TabsAre
<1>7. Has(r, id) /\ View(r, id) = v
  BY <1>4, <1>5, TabsAre
<1>8. ASSUME NEW x, Has(w, x), x # id PROVE Has(r, x) /\ View(r, x) = View(w, x)
  <2>1. PICK u \in ToSet(w.vs) : u = View(w, x) /\ u.id = x
    BY <1>8, TabsAre
  <2>2. u # old
    BY <1>1, <1>8, <2>1
  <2>3. u \in ToSet(r.vs)
    BY <1>5, <2>2
  <2> QED
    BY <1>4, <2>1, <2>3, TabsAre
<1>9. ASSUME NEW x, Has(r, x) PROVE Has(w, x)
  <2>1. PICK u \in ToSet(r.vs) : u.id = x
    BY <1>4, <1>9, TabsAre
  <2>2. u \in ToSet(w.vs) \/ u.id = id
    BY <1>5
  <2> QED
    BY <2>1, <2>2, TabsAre
<1>10. \A x : Has(r, x) <=> Has(w, x)
  BY <1>7, <1>8, <1>9
<1>11. Slotted(r) = (Slotted(w) \ ToSet(old.slots)) \cup ToSet(v.slots)
  <2>1. ASSUME NEW s \in Slotted(r) PROVE s \in (Slotted(w) \ ToSet(old.slots)) \cup ToSet(v.slots)
    <3>1. PICK u \in ToSet(r.vs) : s \in ToSet(u.slots)
      BY DEF Slotted
    <3>2. CASE u = v
      BY <3>1, <3>2
    <3>3. CASE u \in ToSet(w.vs) /\ u # old
      <4>1. s \in Slotted(w)
        BY <3>1, <3>3 DEF Slotted
      <4>2. s \notin ToSet(old.slots)
        BY <3>1, <3>3, KeyApart
      <4> QED
        BY <4>1, <4>2
    <3> QED
      BY <1>5, <3>2, <3>3
  <2>2. ASSUME NEW s \in Slotted(w), s \notin ToSet(old.slots) PROVE s \in Slotted(r)
    <3>1. PICK u \in ToSet(w.vs) : s \in ToSet(u.slots)
      BY DEF Slotted
    <3>2. u \in ToSet(r.vs)
      BY <1>5, <2>2, <3>1
    <3> QED
      BY <3>1, <3>2 DEF Slotted
  <2>3. ToSet(v.slots) \subseteq Slotted(r)
    BY <1>5 DEF Slotted
  <2> QED
    BY <2>1, <2>2, <2>3
<1>12. Firm(w) => Firm(r)
  BY <1>3, <1>4, <1>10 DEF Firm
<1>13. (\A u \in ToSet(w.vs) : u.id # id => ~Bare(u)) /\ ~Bare(v) => Filled(r)
  BY <1>5, <1>6 DEF Filled
<1> QED
  BY <1>1, <1>3, <1>4, <1>7, <1>8, <1>10, <1>11, <1>12, <1>13 DEF Edited

(* A view that is empty goes, unless it has a folder.                      *)
LEMMA DissolveEmptyIs ==
  ASSUME NEW w, Stands(w), NEW id, Has(w, id), NEW r, r = DissolveEmpty(w, id)
  PROVE  /\ Stands(r) /\ (Firm(w) => Firm(r)) /\ Slotted(r) = Slotted(w)
         /\ ~Bare(View(w, id)) => r = w
         /\ Bare(View(w, id)) => ToSet(r.vs) = ToSet(w.vs) \ {View(w, id)} /\ Has(r, r.active)
         /\ w.active \in Ids(r.vs) => r.active = w.active
         /\ (\A u \in ToSet(w.vs) : u.id # id => ~Bare(u)) => Filled(r)
<1>1. PICK v \in ToSet(w.vs) : v = View(w, id) /\ v.id = id
  BY TabsAre
<1>2. \A u \in ToSet(w.vs) : u.id = id => u = v
  BY <1>1, TabsAre
<1>3. CASE ~Bare(v)
  <2>1. r = w
    BY <1>1, <1>3 DEF DissolveEmpty, Bare
  <2> QED
    BY <1>1, <1>2, <1>3, <2>1 DEF Filled
<1>4. CASE Bare(v)
  <2>1. r = DissolveView(w, id) /\ v.root # Home
    BY <1>1, <1>4, WorkspaceAssumption DEF DissolveEmpty, Bare
  <2>2. /\ r \in Desks /\ Laid(r.vs) /\ ToSet(r.vs) = ToSet(w.vs) \ {v} /\ Len(r.vs) >= 1 /\ Has(r, r.active)
        /\ (w.active \in Ids(r.vs) => r.active = w.active)
    <3>1. w \in Desks /\ Laid(w.vs)
      BY DEF Stands
    <3> QED
      BY <1>1, <2>1, <3>1, DissolveIs
  <2>3. ToSet(v.slots) = {}
    BY <1>4 DEF Bare, ToSet
  <2>4. Slotted(r) = Slotted(w)
    BY <2>2, <2>3 DEF Slotted
  <2>5. Stands(r) /\ Firm(r)
    BY <2>2 DEF Stands, Firm
  <2>6. (\A u \in ToSet(w.vs) : u.id # id => ~Bare(u)) => Filled(r)
    BY <1>2, <2>2 DEF Filled
  <2> QED
    BY <1>1, <1>4, <2>2, <2>4, <2>5, <2>6
<1> QED
  BY <1>3, <1>4

(* Where a session is.                                                     *)
LEMMA PlaceIs ==
  ASSUME NEW w, Stands(w), NEW s \in Sessions
  PROVE  /\ ViewsOfSession(w, s) = {} <=> s \notin Keyed(w)
         /\ s \in Keyed(w) =>
              LET v == ViewOfSession(w, s) IN
              /\ v \in ToSet(w.vs) /\ IndexOfSlot(v, s) \in 1..Len(v.slots)
              /\ v.slots[IndexOfSlot(v, s)] = SessionSlot(s) /\ SessionSlot(s) \in ToSet(v.slots)
              /\ \A u \in ToSet(w.vs) : s \in SlotIds(u) => u = v
<1>1. PICK vs \in Seq(GoodViews) : vs = w.vs
  BY TabsAre
<1>2. PICK n \in Nat : n = Len(vs) /\ DOMAIN vs = 1..n
  OBVIOUS
<1>3. ASSUME NEW v \in GoodViews
      PROVE  IF s \in SlotIds(v) THEN /\ IndexOfSlot(v, s) \in 1..Len(v.slots) /\ v.slots[IndexOfSlot(v, s)].id = s
                                      /\ IndexOfSlot(v, s) > 0
                                 ELSE ~(IndexOfSlot(v, s) > 0)
  <2>1. v.slots \in Seq(GoodSlots)
    BY GoodViewIs
  <2>2. PICK m \in Nat : m = Len(v.slots)
    BY <2>1
  <2>3. PICK i : i = IndexOfSlot(v, s)
    OBVIOUS
  <2>4. i \in 0..m /\ (i > 0 => v.slots[i].id = s) /\ (i = 0 => \A k \in 1..m : v.slots[k].id # s)
    BY <2>1, <2>2, <2>3, IndexIs
  <2>5. s \in SlotIds(v) <=> \E k \in 1..m : v.slots[k].id = s
    BY <2>1, <2>2, ToSetIs DEF SlotIds
  <2>6. CASE i = 0
    BY <2>3, <2>4, <2>5, <2>6
  <2>7. CASE i \in 1..m
    BY <2>2, <2>3, <2>4, <2>5, <2>7
  <2> QED
    BY <2>4, <2>6, <2>7
<1>4. s \in Keyed(w) <=> \E v \in ToSet(w.vs) : s \in SlotIds(v)
  BY DEF Keyed
<1>5. \A v \in ToSet(w.vs) : v \in GoodViews
  BY TabsAre
<1>6. ViewsOfSession(w, s) = {} <=> s \notin Keyed(w)
  BY <1>3, <1>4, <1>5 DEF ViewsOfSession
<1>7. ASSUME s \in Keyed(w), NEW v, v = ViewOfSession(w, s)
      PROVE  /\ v \in ToSet(w.vs) /\ IndexOfSlot(v, s) \in 1..Len(v.slots)
             /\ v.slots[IndexOfSlot(v, s)] = SessionSlot(s) /\ SessionSlot(s) \in ToSet(v.slots)
             /\ \A u \in ToSet(w.vs) : s \in SlotIds(u) => u = v
  <2>1. PICK I \in SUBSET (1..n) : I = {i \in 1..Len(vs) : IndexOfSlot(vs[i], s) > 0}
    BY <1>2
  <2>2. PICK r : r = IF I # {} THEN Min(I) ELSE 0
    OBVIOUS
  <2>3. v = vs[r]
    BY <1>1, <1>7, <2>1, <2>2 DEF ViewOfSession, SelectInSeq
  <2>4. I # {}
    <3>1. PICK u \in ToSet(w.vs) : s \in SlotIds(u)
      BY <1>4, <1>7
    <3>2. PICK k \in 1..n : vs[k] = u
      BY <1>1, <1>2, <3>1, ToSetIs
    <3>3. IndexOfSlot(vs[k], s) > 0
      BY <1>3, <1>5, <3>1, <3>2
    <3> QED
      BY <1>2, <2>1, <3>3
  <2>5. r \in I
    <3>1. r \in 0..n /\ (r > 0 => r \in I) /\ (r = 0 => I = {})
      BY ONLY <2>2, I \in SUBSET (1..n), n \in Nat, FirstOf
    <3>2. r = 0 \/ r > 0
      BY ONLY <3>1, n \in Nat
    <3> QED
      BY ONLY <2>4, <3>1, <3>2
  <2>6. v \in ToSet(w.vs) /\ IndexOfSlot(v, s) > 0
    BY <1>1, <1>2, <2>1, <2>3, <2>5, ToSetIs
  <2>7. v \in GoodViews /\ s \in SlotIds(v)
    BY <1>3, <1>5, <2>6
  <2>8. IndexOfSlot(v, s) \in 1..Len(v.slots) /\ v.slots[IndexOfSlot(v, s)].id = s
    BY <1>3, <2>7
  <2>9. PICK x : x = v.slots[IndexOfSlot(v, s)]
    OBVIOUS
  <2>10. x \in ToSet(v.slots) /\ x \in GoodSlots /\ x.id = s
    BY <2>7, <2>8, <2>9, GoodViewIs, ToSetIs
  <2>11. x = SessionSlot(s)
    BY <2>10 DEF GoodSlots
  <2>12. ASSUME NEW u \in ToSet(w.vs), s \in SlotIds(u) PROVE u = v
    <3>1. PICK y \in ToSet(u.slots) : y.id = s
      BY <2>12 DEF SlotIds
    <3> QED
      BY <2>6, <2>10, <3>1, KeyApart
  <2> QED
    BY <2>6, <2>8, <2>9, <2>10, <2>11, <2>12
<1> QED
  BY <1>6, <1>7

(* A session leaves its place.                                             *)
LEMMA DetachIs ==
  ASSUME NEW w, Stands(w), Filled(w), NEW s \in Sessions, NEW r, r = DetachFromViews(w, s)
  PROVE  /\ Stands(r) /\ Filled(r) /\ (Firm(w) => Firm(r)) /\ s \notin Keyed(r)
         /\ Slotted(r) = Slotted(w) \ {SessionSlot(s)}
         /\ \A v \in ToSet(w.vs) : s \notin SlotIds(v) => Has(r, v.id) /\ View(r, v.id) = v
         /\ w.active \in Ids(r.vs) => r.active = w.active
         /\ \A id : Has(r, id) => /\ Has(w, id) /\ View(r, id).root = View(w, id).root
                                  /\ ToSet(View(r, id).slots) \subseteq ToSet(View(w, id).slots)
                                  /\ \/ Len(View(r, id).slots) = Len(View(w, id).slots)
                                     \/ Len(View(r, id).slots) = Len(View(w, id).slots) - 1
<1>1. CASE s \notin Keyed(w)
  <2>1. r = w
    BY <1>1, PlaceIs DEF DetachFromViews
  <2>2. SessionSlot(s) \notin Slotted(w)
    <3> SUFFICES ASSUME SessionSlot(s) \in Slotted(w) PROVE FALSE
      OBVIOUS
    <3>1. PICK v \in ToSet(w.vs) : SessionSlot(s) \in ToSet(v.slots)
      BY DEF Slotted
    <3>2. s \in SlotIds(v)
      BY <3>1, SessionSlotIs DEF SlotIds
    <3> QED
      BY <1>1, <3>1, <3>2 DEF Keyed
  <2> QED
    BY <1>1, <2>1, <2>2, TabsAre
<1>2. CASE s \in Keyed(w)
  <2>1. PICK v : v = ViewOfSession(w, s)
    OBVIOUS
  <2>2. PICK i : i = IndexOfSlot(v, s)
    OBVIOUS
  <2>3. /\ v \in ToSet(w.vs) /\ i \in 1..Len(v.slots) /\ v.slots[i] = SessionSlot(s) /\ SessionSlot(s) \in ToSet(v.slots)
        /\ \A u \in ToSet(w.vs) : s \in SlotIds(u) => u = v
    BY <1>2, <2>1, <2>2, PlaceIs
  <2>4. v \in GoodViews /\ Has(w, v.id) /\ View(w, v.id) = v
    BY <2>3, TabsAre
  <2>5. PICK x : x = RemoveAtSlot(v, i)
    OBVIOUS
  <2>6. /\ x \in GoodViews /\ x.id = v.id /\ x.root = v.root /\ Len(x.slots) = Len(v.slots) - 1
        /\ ToSet(x.slots) = ToSet(v.slots) \ {SessionSlot(s)}
    <3>1. /\ x \in GoodViews /\ x.id = v.id /\ x.root = v.root /\ Len(x.slots) = Len(v.slots) - 1
          /\ ToSet(x.slots) = ToSet(v.slots) \ {v.slots[i]}
      <4>1. v \in GoodViews /\ i \in 1..Len(v.slots) /\ x = RemoveAtSlot(v, i)
        BY ONLY <2>3, <2>4, <2>5
      <4>2. Removed(v, i, x)
        BY ONLY <4>1, RemovedIs
      <4> QED
        BY ONLY <4>2 DEF Removed
    <3> QED
      BY ONLY <3>1, <2>3
  <2>7. PICK u : u = Put(w, x)
    OBVIOUS
  <2>8. \A t \in ToSet(x.slots) : t.id \in SlotIds(v)
    BY <2>6 DEF SlotIds
  <2>9. /\ Stands(u) /\ u.active = w.active /\ Len(u.vs) = Len(w.vs)
        /\ ToSet(u.vs) = (ToSet(w.vs) \ {v}) \cup {x}
        /\ Has(u, v.id) /\ View(u, v.id) = x
        /\ \A y : Has(u, y) <=> Has(w, y)
        /\ \A y : Has(w, y) /\ y # v.id => View(u, y) = View(w, y)
        /\ Slotted(u) = (Slotted(w) \ ToSet(v.slots)) \cup ToSet(x.slots)
        /\ Firm(w) => Firm(u)
    <3>1. Edited(w, v.id, x, u)
      BY <2>4, <2>6, <2>7, <2>8, Changed
    <3> QED
      BY <2>4, <3>1 DEF Edited
  <2>10. r = DissolveEmpty(u, v.id)
    BY <1>2, <2>1, <2>2, <2>5, <2>7, PlaceIs DEF DetachFromViews
  <2>11. /\ Stands(r) /\ (Firm(u) => Firm(r)) /\ Slotted(r) = Slotted(u)
         /\ ~Bare(x) => r = u
         /\ Bare(x) => ToSet(r.vs) = ToSet(u.vs) \ {x} /\ Has(r, r.active)
         /\ u.active \in Ids(r.vs) => r.active = u.active
         /\ (\A t \in ToSet(u.vs) : t.id # v.id => ~Bare(t)) => Filled(r)
    <3>1. Stands(u) /\ Has(u, v.id) /\ View(u, v.id) = x
      BY ONLY <2>9
    <3> QED
      BY ONLY <3>1, <2>10, DissolveEmptyIs
  <2>12. Filled(r)
    BY <2>6, <2>9, <2>11 DEF Filled
  <2>13. SessionSlot(s) \in Slotted(w) /\ ToSet(v.slots) \subseteq Slotted(w)
    BY <2>3 DEF Slotted
  <2>14. Slotted(r) = Slotted(w) \ {SessionSlot(s)}
    <3>1. Slotted(r) = (Slotted(w) \ ToSet(v.slots)) \cup (ToSet(v.slots) \ {SessionSlot(s)})
      BY ONLY <2>6, <2>9, <2>11
    <3>2. SessionSlot(s) \in ToSet(v.slots)
      BY ONLY <2>3
    <3> QED
      BY ONLY <3>1, <3>2, <2>13
  <2>15. s \notin Keyed(r)
    <3> SUFFICES ASSUME s \in Keyed(r) PROVE FALSE
      OBVIOUS
    <3>1. SessionSlot(s) \in Slotted(r)
      BY <2>11, PlaceIs DEF Slotted
    <3> QED
      BY <2>14, <3>1
  <2>16. \A t \in ToSet(r.vs) : t \in ToSet(u.vs)
    BY <2>11
  <2>17. ASSUME NEW t \in ToSet(w.vs), s \notin SlotIds(t) PROVE Has(r, t.id) /\ View(r, t.id) = t
    <3>1. t # v
      BY <2>3, <2>17, SessionSlotIs DEF SlotIds
    <3>2. t \in ToSet(u.vs)
      BY <2>9, <3>1
    <3>3. t # x
      BY <2>3, <2>4, <2>6, <3>1, TabsAre
    <3>4. t \in ToSet(r.vs)
      BY <2>11, <3>2, <3>3
    <3> QED
      BY <2>11, <3>4, TabsAre
  <2>18. ASSUME NEW id, Has(r, id)
         PROVE  /\ Has(w, id) /\ View(r, id).root = View(w, id).root
                /\ ToSet(View(r, id).slots) \subseteq ToSet(View(w, id).slots)
                /\ \/ Len(View(r, id).slots) = Len(View(w, id).slots)
                   \/ Len(View(r, id).slots) = Len(View(w, id).slots) - 1
    <3>1. PICK t \in ToSet(r.vs) : t = View(r, id) /\ t.id = id
      BY <2>11, <2>18, TabsAre
    <3>2. CASE t = x
      BY <2>4, <2>6, <3>1, <3>2
    <3>3. CASE t \in ToSet(w.vs)
      BY <3>1, <3>3, TabsAre
    <3> QED
      BY <2>9, <2>16, <3>1, <3>2, <3>3
  <2> QED
    BY <2>9, <2>11, <2>12, <2>14, <2>15, <2>17, <2>18
<1> QED
  BY <1>1, <1>2

-----------------------------------------------------------------------------
(***************************************************************************)
(* Editor slots and what is done to one of them                            *)
(***************************************************************************)
LEMMA SlotIs ==
  ASSUME NEW s \in GoodSlots
  PROVE  /\ s.id \in Keys /\ s.tabs \in Seq(Files \cup Diffs) /\ s.active \in Nat
         /\ IF IsEditor(s) THEN Strip(s) ELSE s = SessionSlot(s.id)
BY DEF GoodSlots, SlotT, IsEditor

(* What makes a record an editor slot.                                     *)
LEMMA StripIs ==
  ASSUME NEW s \in SlotT, IsEditor(s), Strip(s)
  PROVE  s \in GoodSlots
BY DEF GoodSlots, IsEditor

(* A slot with other tabs.                                                 *)
Tabbed(s, t, n) == [s EXCEPT !.tabs = t, !.active = n]
Distinct(n, t) == \A i, j \in 1..n : t[i] = t[j] => i = j
LEMMA Retabbed ==
  ASSUME NEW s \in GoodSlots, IsEditor(s), NEW t \in Seq(Files \cup Diffs), NEW m \in Nat, m = Len(t), NEW n \in 1..m,
         m <= MaxTabs, Distinct(m, t), NEW r, r = Tabbed(s, t, n)
  PROVE  r \in GoodSlots /\ IsEditor(r) /\ r.id = s.id /\ r.tabs = t /\ r.active = n
<1>1. s \in SlotT
  BY DEF GoodSlots
<1>2. r \in SlotT /\ r.id = s.id /\ r.tabs = t /\ r.active = n
  <2>1. n \in Nat
    BY ONLY m \in Nat, n \in 1..m
  <2> QED
    BY ONLY <1>1, <2>1, t \in Seq(Files \cup Diffs), r = Tabbed(s, t, n) DEF SlotT, Tabbed
<1>3. IsEditor(r)
  BY <1>2 DEF IsEditor
<1>4. t # <<>>
  <2>1. m # 0
    BY ONLY m \in Nat, n \in 1..m
  <2> QED
    BY <2>1
<1>5. Strip(r)
  BY <1>2, <1>4 DEF Strip, Distinct
<1> QED
  BY <1>2, <1>3, <1>5, StripIs

LEMMA TabAtIs ==
  ASSUME NEW s, s.tabs \in Seq(Files \cup Diffs), NEW tab
  PROVE  /\ TabAt(s, tab) \in 0..Len(s.tabs)
         /\ TabAt(s, tab) > 0 => TabAt(s, tab) \in 1..Len(s.tabs) /\ s.tabs[TabAt(s, tab)] = tab
         /\ ~(TabAt(s, tab) > 0) => TabAt(s, tab) = 0
         /\ TabAt(s, tab) = 0 => \A k \in 1..Len(s.tabs) : s.tabs[k] # tab
<1>1. PICK n \in Nat : n = Len(s.tabs) /\ DOMAIN s.tabs = 1..n
  OBVIOUS
<1>2. PICK I \in SUBSET (1..n) : I = {i \in 1..Len(s.tabs) : s.tabs[i] = tab}
  BY <1>1
<1>3. PICK r : r = IF I # {} THEN Min(I) ELSE 0
  OBVIOUS
<1>4. TabAt(s, tab) = r
  BY <1>2, <1>3 DEF TabAt, SelectInSeq
<1>5. r \in 0..n /\ (r > 0 => r \in I) /\ (r = 0 => I = {})
  BY <1>3, FirstOf
<1>6. ~(r > 0) => r = 0
  BY ONLY <1>5, n \in Nat
<1>7. r > 0 => r \in 1..n /\ s.tabs[r] = tab
  BY <1>2, <1>5
<1>8. r = 0 => \A k \in 1..n : s.tabs[k] # tab
  BY <1>1, <1>2, <1>5
<1> QED
  BY ONLY <1>1, <1>4, <1>5, <1>6, <1>7, <1>8

(* One tab more behind the others.                                         *)
More(t, e) == Append(t, e)
Grown(S, n, t, e, r) ==
  /\ r \in Seq(S) /\ Len(r) = n + 1 /\ r[n + 1] = e /\ \A k \in 1..n : r[k] = t[k]
  /\ Distinct(n, t) /\ (\A k \in 1..n : t[k] # e) => Distinct(n + 1, r)
  /\ ToSet(r) = ToSet(t) \cup {e}
LEMMA Appended ==
  ASSUME NEW S, NEW t \in Seq(S), NEW n \in Nat, n = Len(t), NEW e \in S, NEW r, r = More(t, e)
  PROVE  Grown(S, n, t, e, r)
<1>1. r \in Seq(S) /\ Len(r) = n + 1 /\ r[n + 1] = e /\ \A k \in 1..n : r[k] = t[k]
  BY DEF More
<1>2. \A k \in 1..n + 1 : k \in 1..n \/ k = n + 1
  OBVIOUS
<1>3. ASSUME Distinct(n, t), \A k \in 1..n : t[k] # e PROVE Distinct(n + 1, r)
  BY ONLY <1>1, <1>2, <1>3 DEF Distinct
<1>4. DOMAIN t = 1..n /\ DOMAIN r = 1..n + 1
  BY <1>1
<1>5. ToSet(r) = ToSet(t) \cup {e}
  <2>1. \A x : x \in ToSet(r) <=> \E k \in 1..n + 1 : r[k] = x
    BY <1>4 DEF ToSet
  <2>2. \A x : x \in ToSet(t) <=> \E k \in 1..n : t[k] = x
    BY <1>4 DEF ToSet
  <2>3. n + 1 \in 1..n + 1 /\ 1..n \subseteq 1..n + 1
    BY ONLY n \in Nat
  <2> QED
    BY ONLY <1>1, <1>2, <2>1, <2>2, <2>3
<1> QED
  BY ONLY <1>1, <1>3, <1>5 DEF Grown

LEMMA AddedIs ==
  ASSUME NEW s \in GoodSlots, IsEditor(s), NEW tab \in Files \cup Diffs, ~Full(s, tab), NEW r, r = AddOrRaise(s, tab)
  PROVE  r \in GoodSlots /\ IsEditor(r) /\ r.id = s.id /\ ToSet(r.tabs) = ToSet(s.tabs) \cup {tab}
<1>1. PICK t \in Seq(Files \cup Diffs) : t = s.tabs /\ Strip(s)
  BY SlotIs
<1>2. PICK n \in Nat : n = Len(t) /\ DOMAIN t = 1..n
  OBVIOUS
<1>3. n <= MaxTabs /\ MaxTabs \in Nat /\ s.active \in 1..n /\ Distinct(n, t)
  BY <1>1, <1>2, WorkspaceAssumption DEF Strip, Distinct
<1>4. PICK i : i = TabAt(s, tab)
  OBVIOUS
<1>5. (i > 0 => i \in 1..n /\ t[i] = tab) /\ (~(i > 0) => i = 0) /\ (i = 0 => \A k \in 1..n : t[k] # tab)
  BY <1>1, <1>2, <1>4, TabAtIs
<1>6. s \in [id : Keys, tabs : Seq(Files \cup Diffs), active : Nat]
  BY DEF GoodSlots, SlotT
<1>7. CASE i > 0
  <2>1. r = [s EXCEPT !.active = i]
    BY <1>4, <1>7 DEF AddOrRaise, Raised
  <2>2. r = Tabbed(s, t, i)
    BY <1>1, <1>6, <2>1 DEF Tabbed
  <2>3. r \in GoodSlots /\ IsEditor(r) /\ r.id = s.id /\ r.tabs = t
    BY <1>2, <1>3, <1>5, <1>7, <2>2, Retabbed
  <2>4. tab \in ToSet(t)
    BY <1>2, <1>5, <1>7 DEF ToSet
  <2> QED
    BY <1>1, <2>3, <2>4
<1>8. CASE i = 0
  <2>1. PICK u : u = More(t, tab)
    OBVIOUS
  <2>2. /\ u \in Seq(Files \cup Diffs) /\ Len(u) = n + 1
        /\ Distinct(n, t) /\ (\A k \in 1..n : t[k] # tab) => Distinct(n + 1, u)
        /\ ToSet(u) = ToSet(t) \cup {tab}
    <3>1. PICK S : S = Files \cup Diffs
      OBVIOUS
    <3>2. t \in Seq(S) /\ tab \in S
      BY <3>1
    <3>3. Grown(S, n, t, tab, u)
      BY ONLY <3>2, <1>2, <2>1, n \in Nat, Appended
    <3> QED
      BY ONLY <3>1, <3>3 DEF Grown
  <2>3. ~(n >= MaxTabs)
    BY <1>1, <1>2, <1>4, <1>8 DEF Full
  <2>4. n + 1 <= MaxTabs /\ n + 1 \in 1..n + 1 /\ ~(i > 0)
    BY ONLY <1>3, <1>8, <2>3, n \in Nat
  <2>5. r = Tabbed(s, u, n + 1)
    BY <1>1, <1>2, <1>4, <2>1, <2>4 DEF AddOrRaise, Tabbed, More
  <2>6. Distinct(n + 1, u) /\ n + 1 \in Nat
    BY <1>3, <1>5, <1>8, <2>2
  <2>7. r \in GoodSlots /\ IsEditor(r) /\ r.id = s.id /\ r.tabs = u
    BY <2>2, <2>4, <2>5, <2>6, Retabbed
  <2> QED
    BY <1>1, <2>2, <2>7
<1> QED
  BY <1>5, <1>7, <1>8

(* The last tab makes room for the one that is added.                      *)
LEMMA EvictedIs ==
  ASSUME NEW s \in GoodSlots, IsEditor(s), NEW tab \in Files \cup Diffs, NEW r, r = AddOrRaise(EvictForAdd(s, tab), tab)
  PROVE  r \in GoodSlots /\ IsEditor(r) /\ r.id = s.id
<1>1. CASE ~Full(s, tab)
  <2>1. r = AddOrRaise(s, tab)
    BY <1>1 DEF EvictForAdd
  <2> QED
    BY <1>1, <2>1, AddedIs
<1>2. CASE Full(s, tab)
  <2>1. PICK t \in Seq(Files \cup Diffs) : t = s.tabs /\ Strip(s)
    BY SlotIs
  <2>2. PICK n \in Nat : n = Len(t)
    OBVIOUS
  <2>3. n = MaxTabs /\ n >= 1 /\ Distinct(n, t)
    <3>1. n <= MaxTabs /\ n >= MaxTabs /\ MaxTabs \in Nat \ {0} /\ Distinct(n, t)
      BY <1>2, <2>1, <2>2, WorkspaceAssumption DEF Strip, Full, Distinct
    <3> QED
      BY ONLY <3>1, n \in Nat
  <2>4. PICK m \in Nat : m = n - 1
    <3>1. n - 1 \in Nat
      BY <2>3
    <3> QED
      BY <3>1
  <2>5. PICK u : u = SubSeq(t, 1, m)
    OBVIOUS
  <2>6. u \in Seq(Files \cup Diffs) /\ Len(u) = m /\ \A k \in 1..m : u[k] = t[k]
    <3>1. /\ SubSeq(t, 1, m) \in Seq(Files \cup Diffs) /\ Len(SubSeq(t, 1, m)) = m + 1 - 1
          /\ \A k \in 1..m + 1 - 1 : SubSeq(t, 1, m)[k] = t[1 + k - 1]
      <4>1. 1 \in Nat /\ 1 <= 1 /\ 1 <= m + 1 /\ m <= Len(t)
        BY ONLY <2>2, <2>4, m \in Nat, n \in Nat
      <4> QED
        BY ONLY <4>1, m \in Nat, t \in Seq(Files \cup Diffs), Piece
    <3>2. m + 1 - 1 = m /\ \A k \in 1..m : 1 + k - 1 = k
      BY ONLY m \in Nat
    <3> QED
      BY ONLY <2>5, <3>1, <3>2
  <2>7. \A k \in 1..n : t[k] # tab
    BY <1>2, <2>1, <2>2, TabAtIs DEF Full
  <2>8. 1..m \subseteq 1..n /\ m + 1 = n /\ n <= MaxTabs
    BY ONLY <2>3, <2>4, m \in Nat, n \in Nat
  <2>9. Distinct(m, u) /\ \A k \in 1..m : u[k] # tab
    BY ONLY <2>3, <2>6, <2>7, <2>8 DEF Distinct
  <2>10. PICK a : a = Clamp(1, s.active, MaxTabs - 1)
    OBVIOUS
  <2>11. PICK e : e = EvictForAdd(s, tab)
    OBVIOUS
  <2>12. s \in [id : Keys, tabs : Seq(Files \cup Diffs), active : Nat]
    BY DEF GoodSlots, SlotT
  <2>13. e = [s EXCEPT !.tabs = u, !.active = a]
    BY <1>2, <2>1, <2>3, <2>4, <2>5, <2>10, <2>11 DEF EvictForAdd
  <2>14. e.id = s.id /\ e.tabs = u
    BY <2>12, <2>13
  <2>15. ~(TabAt(e, tab) > 0)
    BY <2>6, <2>9, <2>14, TabAtIs
  <2>16. PICK z : z = More(u, tab)
    OBVIOUS
  <2>17. /\ z \in Seq(Files \cup Diffs) /\ Len(z) = m + 1
         /\ Distinct(m, u) /\ (\A k \in 1..m : u[k] # tab) => Distinct(m + 1, z)
    <3>1. m = Len(u)
      BY ONLY <2>6
    <3> QED
      <4>1. PICK S : S = Files \cup Diffs
        OBVIOUS
      <4>2. u \in Seq(S) /\ tab \in S
        BY <2>6, <4>1
      <4>3. Grown(S, m, u, tab, z)
        BY ONLY <3>1, <4>2, <2>16, m \in Nat, Appended
      <4> QED
        BY ONLY <4>1, <4>3 DEF Grown
  <2>18. r = [e EXCEPT !.tabs = z, !.active = m + 1]
    BY <2>6, <2>11, <2>14, <2>15, <2>16 DEF AddOrRaise, More
  <2>19. r = Tabbed(s, z, n)
    BY <2>8, <2>12, <2>13, <2>18 DEF Tabbed
  <2>20. n = Len(z) /\ n \in 1..n /\ n <= MaxTabs /\ Distinct(n, z)
    BY ONLY <2>3, <2>8, <2>9, <2>17, n \in Nat
  <2> QED
    BY <2>17, <2>19, <2>20, Retabbed
<1> QED
  BY <1>1, <1>2

(* A tab closes and another stays.                                         *)
LEMMA ClosedTabIs ==
  ASSUME NEW s \in GoodSlots, IsEditor(s), NEW i \in 1..Len(s.tabs), Len(s.tabs) # 1, NEW r, r = WithoutTab(s, i)
  PROVE  /\ r \in GoodSlots /\ IsEditor(r) /\ r.id = s.id
         /\ ToSet(s.tabs) \subseteq ToSet(r.tabs) \cup {s.tabs[i]}
<1>1. PICK t \in Seq(Files \cup Diffs) : t = s.tabs /\ Strip(s)
  BY SlotIs
<1>2. PICK n \in Nat : n = Len(t) /\ DOMAIN t = 1..n /\ i \in 1..n /\ n # 1
  <2>1. i \in 1..Len(t) /\ Len(t) # 1
    BY <1>1
  <2>2. Len(t) \in Nat /\ DOMAIN t = 1..Len(t)
    OBVIOUS
  <2> QED
    BY ONLY <2>1, <2>2
<1>3. n <= MaxTabs /\ MaxTabs \in Nat /\ s.active \in 1..n /\ Distinct(n, t)
  BY <1>1, <1>2, WorkspaceAssumption DEF Strip, Distinct
<1>4. PICK u : u = RemoveAt(t, i)
  OBVIOUS
<1>5. u \in Seq(Files \cup Diffs) /\ Len(u) = n - 1 /\ \A k \in 1..n - 1 : u[k] = IF k < i THEN t[k] ELSE t[k + 1]
  BY <1>2, <1>4, RemoveAtElements
<1>6. PICK a : a = Clamp(1, s.active, n - 1)
  OBVIOUS
<1>7. a \in 1..n - 1
  <2>1. 1 \in Int /\ s.active \in Int /\ n - 1 \in Int /\ 1 <= n - 1
    BY ONLY <1>2, <1>3, n \in Nat
  <2> QED
    BY ONLY <1>6, <2>1, ClampIs
<1>8. Distinct(n - 1, u)
  <2> SUFFICES ASSUME NEW j \in 1..n - 1, NEW k \in 1..n - 1, u[j] = u[k] PROVE j = k
    BY DEF Distinct
  <2>1. PICK x \in 1..n : x = (IF j < i THEN j ELSE j + 1) /\ u[j] = t[x]
    BY <1>2, <1>5
  <2>2. PICK y \in 1..n : y = (IF k < i THEN k ELSE k + 1) /\ u[k] = t[y]
    BY <1>2, <1>5
  <2>3. x = y
    BY <1>3, <2>1, <2>2 DEF Distinct
  <2> QED
    BY ONLY <1>2, <2>1, <2>2, <2>3, j \in 1..n - 1, k \in 1..n - 1, n \in Nat
<1>9. r = Tabbed(s, u, a)
  <2>1. s \in [id : Keys, tabs : Seq(Files \cup Diffs), active : Nat]
    BY DEF GoodSlots, SlotT
  <2> QED
    BY <1>1, <1>2, <1>4, <1>6, <2>1 DEF WithoutTab, Tabbed
<1>10. n - 1 \in Nat /\ n - 1 = Len(u) /\ n - 1 <= MaxTabs
  BY ONLY <1>2, <1>3, <1>5, n \in Nat
<1>11. r \in GoodSlots /\ IsEditor(r) /\ r.id = s.id /\ r.tabs = u
  <2>1. PICK m \in Nat : m = n - 1
    BY <1>10
  <2>2. m = Len(u) /\ m <= MaxTabs /\ a \in 1..m /\ Distinct(m, u)
    BY <1>7, <1>8, <1>10, <2>1
  <2> QED
    BY <1>5, <1>9, <2>1, <2>2, Retabbed
<1>12. ASSUME NEW x \in ToSet(t), x # t[i] PROVE x \in ToSet(u)
  <2>1. PICK k \in 1..n : t[k] = x
    BY <1>2 DEF ToSet
  <2>2. k # i
    BY <1>12, <2>1
  <2>3. PICK j \in 1..n - 1 : k = IF j < i THEN j ELSE j + 1
    <3>1. CASE k < i
      <4>1. k \in 1..n - 1
        BY ONLY <1>2, <3>1, k \in 1..n, n \in Nat
      <4> QED
        BY <3>1, <4>1
    <3>2. CASE k > i
      <4>1. k - 1 \in 1..n - 1 /\ ~(k - 1 < i) /\ k = (k - 1) + 1
        BY ONLY <1>2, <3>2, k \in 1..n, n \in Nat
      <4> QED
        BY <4>1
    <3> QED
      BY ONLY <1>2, <2>2, <3>1, <3>2, k \in 1..n, n \in Nat
  <2>4. u[j] = x
    BY <1>5, <2>1, <2>3
  <2> QED
    BY <1>5, <2>4, ToSetIs
<1> QED
  BY <1>1, <1>11, <1>12

-----------------------------------------------------------------------------
(***************************************************************************)
(* What is done to the views                                               *)
(***************************************************************************)
(* A view with other panes, each once.                                     *)
Refill(v, q, f) == [v EXCEPT !.slots = q, !.focused = f]
LEMMA Refilled ==
  ASSUME NEW v \in GoodViews, NEW q \in Seq(GoodSlots), NEW n \in Nat, n = Len(q), n <= 4, Apart(q), NEW f \in 1..4, f = 1 \/ f <= n,
         NEW u, u = Refill(v, q, f)
  PROVE  u \in GoodViews /\ u.id = v.id /\ u.root = v.root /\ u.slots = q /\ u.focused = f
<1>1. v \in ViewsOf(GoodSlots) /\ f \in Nat
  BY DEF GoodViews
<1>2. u \in ViewsOf(GoodSlots) /\ u.id = v.id /\ u.root = v.root /\ u.slots = q /\ u.focused = f
  BY ONLY <1>1, u = Refill(v, q, f), q \in Seq(GoodSlots) DEF ViewsOf, Refill
<1> QED
  BY <1>2 DEF GoodViews, InFocus

(* One pane in the place of another.                                       *)
Reslot(v, i, s) == [v EXCEPT !.slots[i] = s]
Reslotted(v, i, s, u) ==
  /\ u \in GoodViews /\ u.id = v.id /\ u.root = v.root /\ u.focused = v.focused
  /\ Len(u.slots) = Len(v.slots) /\ u.slots[i] = s
  /\ \A k \in 1..Len(v.slots) : k # i => u.slots[k] = v.slots[k]
  /\ ToSet(u.slots) = (ToSet(v.slots) \ {v.slots[i]}) \cup {s}
LEMMA ReslottedIs ==
  ASSUME NEW v \in GoodViews, NEW i \in 1..Len(v.slots), NEW s \in GoodSlots, s.id = v.slots[i].id \/ s.id \notin SlotIds(v),
         NEW u, u = Reslot(v, i, s)
  PROVE  Reslotted(v, i, s, u)
<1>1. v \in ViewsOf(GoodSlots) /\ Len(v.slots) <= 4 /\ InFocus(v) /\ Apart(v.slots)
  BY DEF GoodViews
<1>2. PICK q \in Seq(GoodSlots) : q = v.slots
  BY <1>1 DEF ViewsOf
<1>3. PICK n \in Nat : n = Len(q) /\ DOMAIN q = 1..n /\ i \in 1..n
  BY <1>2
<1>4. PICK p : p = [q EXCEPT ![i] = s]
  OBVIOUS
<1>5. p \in Seq(GoodSlots) /\ Len(p) = n /\ DOMAIN p = 1..n /\ p[i] = s /\ \A k \in 1..n : k # i => p[k] = q[k]
  BY <1>3, <1>4
<1>6. u \in ViewsOf(GoodSlots) /\ u.id = v.id /\ u.root = v.root /\ u.focused = v.focused /\ u.slots = p
  BY <1>1, <1>2, <1>4, <1>5 DEF ViewsOf, Reslot
<1>7. \A k \in 1..n : k # i => q[k].id # s.id
  <2> SUFFICES ASSUME NEW k \in 1..n, k # i, q[k].id = s.id PROVE FALSE
    OBVIOUS
  <2>1. q[k] \in ToSet(v.slots)
    BY <1>2, <1>3 DEF ToSet
  <2>2. q[k].id \in SlotIds(v)
    BY <2>1 DEF SlotIds
  <2>3. q[k].id = q[i].id
    BY <1>2, <2>2
  <2> QED
    BY <1>1, <1>2, <1>3, <2>3 DEF Apart
<1>8. Apart(p)
  BY <1>1, <1>2, <1>3, <1>5, <1>7 DEF Apart
<1>9. ToSet(p) = (ToSet(q) \ {q[i]}) \cup {s}
  <2>1. \A x : x \in ToSet(p) <=> \E k \in 1..n : p[k] = x
    BY <1>5 DEF ToSet
  <2>2. \A x : x \in ToSet(q) <=> \E k \in 1..n : q[k] = x
    BY <1>3 DEF ToSet
  <2>3. \A k \in 1..n : k # i => q[k] # q[i]
    BY <1>1, <1>2, <1>3 DEF Apart
  <2> QED
    BY <1>3, <1>5, <2>1, <2>2, <2>3
<1>10. u \in GoodViews
  BY <1>1, <1>2, <1>3, <1>5, <1>6, <1>8 DEF GoodViews, InFocus
<1> QED
  BY <1>2, <1>3, <1>5, <1>6, <1>9, <1>10 DEF Reslotted

SlotSet(v, i, s, u) ==
  /\ u \in GoodViews /\ u.id = v.id /\ u.root = v.root /\ u.slots # <<>>
  /\ ToSet(u.slots) = (ToSet(v.slots) \ {v.slots[i]}) \cup {s}
LEMMA WithSlotIs ==
  ASSUME NEW v \in GoodViews, NEW i \in 1..Len(v.slots), NEW s \in GoodSlots, s.id = v.slots[i].id \/ s.id \notin SlotIds(v),
         NEW u, u = WithSlot(v, i, s)
  PROVE  SlotSet(v, i, s, u)
<1>1. PICK x : x = Reslot(v, i, s)
  OBVIOUS
<1>2. Reslotted(v, i, s, x)
  BY <1>1, ReslottedIs
<1>3. PICK q \in Seq(GoodSlots), n \in Nat : q = x.slots /\ n = Len(q) /\ n = Len(v.slots) /\ n <= 4 /\ i \in 1..n /\ Apart(q)
  BY <1>2 DEF Reslotted, GoodViews, ViewsOf
<1>4. v \in ViewsOf(GoodSlots)
  BY DEF GoodViews
<1>5. u = Refill(x, q, i)
  BY <1>1, <1>3, <1>4 DEF WithSlot, Refill, Reslot, ViewsOf
<1>6. i \in 1..4 /\ (i = 1 \/ i <= n)
  BY <1>3
<1>7. x \in GoodViews
  BY <1>2 DEF Reslotted
<1>8. u \in GoodViews /\ u.id = x.id /\ u.root = x.root /\ u.slots = q
  <2>1. n = Len(q) /\ n <= 4 /\ Apart(q)
    BY <1>3
  <2> QED
    BY ONLY SMTT(40), <2>1, <1>5, <1>6, <1>7, q \in Seq(GoodSlots), n \in Nat, Refilled
<1>9. q # <<>>
  <2>1. n # 0 /\ n = Len(q)
    BY ONLY <1>3, n \in Nat
  <2> QED
    BY ONLY <2>1, Len(<<>>) = 0
<1> QED
  BY <1>2, <1>3, <1>8, <1>9 DEF Reslotted, SlotSet

LEMMA FocusIs ==
  ASSUME NEW v \in GoodViews, NEW i \in 1..Len(v.slots), NEW u, u = [v EXCEPT !.focused = i]
  PROVE  u \in GoodViews /\ u.id = v.id /\ u.root = v.root /\ u.slots = v.slots
<1>1. PICK q \in Seq(GoodSlots), n \in Nat : q = v.slots /\ n = Len(q) /\ n <= 4 /\ i \in 1..n /\ Apart(q) /\ v \in ViewsOf(GoodSlots)
  BY DEF GoodViews, ViewsOf
<1>2. u = Refill(v, q, i)
  BY <1>1 DEF Refill, ViewsOf
<1>3. i \in 1..4 /\ (i = 1 \/ i <= n)
  BY <1>1
<1> QED
  BY <1>1, <1>2, <1>3, Refilled

(* A view that has panes in place of what it was.                          *)
LEMMA Reworked ==
  ASSUME NEW w, Sound(w), NEW id, Has(w, id), NEW v \in GoodViews, v.id = id, v.root = View(w, id).root, v.slots # <<>>,
         \A s \in ToSet(v.slots) : s.id \in SlotIds(View(w, id)) \/ s.id \notin Keyed(w), NEW r, r = Put(w, v)
  PROVE  Sound(r) /\ Edited(w, id, v, r)
<1>1. Stands(w) /\ Firm(w) /\ Filled(w)
  BY DEF Sound, Firm
<1>2. Edited(w, id, v, r)
  BY <1>1, Changed
<1>3. Filled(r)
  BY <1>1, <1>2 DEF Edited, Filled, Bare
<1> QED
  BY <1>1, <1>2, <1>3 DEF Edited, Sound

LEMMA ActivateIs ==
  ASSUME NEW w, Sound(w), NEW id, Has(w, id), NEW r, r = Activate(w, id)
  PROVE  Sound(r) /\ r.vs = w.vs /\ r.active = id
<1>1. Stands(w) /\ Filled(w) /\ w \in Desks
  BY DEF Sound, Firm, Stands
<1>2. id \in Nat
  BY <1>1, TabsAre, GoodViewIs
<1>3. r \in Desks /\ r.vs = w.vs /\ r.active = id
  BY <1>1, <1>2 DEF Activate, Desks
<1>4. Has(r, id)
  BY <1>3 DEF Has, At
<1> QED
  BY <1>1, <1>3, <1>4 DEF Sound, Firm, Stands, Filled

(* A view comes.                                                           *)
Joins(w, v, r) ==
  /\ Stands(r) /\ r.active = w.active /\ ToSet(r.vs) = ToSet(w.vs) \cup {v}
  /\ Slotted(r) = Slotted(w) \cup ToSet(v.slots)
  /\ Has(r, v.id) /\ View(r, v.id) = v
  /\ \A x : Has(w, x) => Has(r, x) /\ View(r, x) = View(w, x)
  /\ Firm(w) => Firm(r)
  /\ Filled(w) /\ ~Bare(v) => Filled(r)
LEMMA JoinsIs ==
  ASSUME NEW w, Stands(w), NEW v, New(w.vs, v), v.root # Home, NEW r,
         r = PushView(w, v) \/ \E to \in Int : r = InsertView(w, to, v)
  PROVE  Joins(w, v, r)
<1>1. w \in Desks /\ Laid(w.vs) /\ Len(w.vs) >= 1 /\ Len(w.vs) \in Nat
  BY DEF Stands, Laid
<1>2. r \in Desks /\ Laid(r.vs) /\ r.active = w.active /\ Len(r.vs) = Len(w.vs) + 1 /\ ToSet(r.vs) = ToSet(w.vs) \cup {v}
  <2>1. CASE r = PushView(w, v)
    <3>1. Len(w.vs) # 0
      BY <1>1
    <3> QED
      BY <1>1, <2>1, <3>1, PushIs
  <2>2. CASE \E to \in Int : r = InsertView(w, to, v)
    <3>1. PICK to \in Int : r = InsertView(w, to, v)
      BY <2>2
    <3> QED
      BY <1>1, <3>1, InsertIs
  <2> QED
    BY <2>1, <2>2
<1>3. Stands(r)
  BY <1>1, <1>2 DEF Stands
<1>4. Slotted(r) = Slotted(w) \cup ToSet(v.slots)
  BY <1>2 DEF Slotted
<1>5. Has(r, v.id) /\ View(r, v.id) = v
  BY <1>2, <1>3, TabsAre
<1>6. ASSUME NEW x, Has(w, x) PROVE Has(r, x) /\ View(r, x) = View(w, x)
  <2>1. PICK u \in ToSet(w.vs) : u = View(w, x) /\ u.id = x
    BY <1>6, TabsAre
  <2> QED
    BY <1>2, <1>3, <2>1, TabsAre
<1>7. Firm(w) => Firm(r)
  BY <1>2, <1>3, <1>6 DEF Firm
<1> QED
  BY <1>2, <1>3, <1>4, <1>5, <1>6, <1>7 DEF Joins, Filled

(* A view goes.                                                            *)
Leaves(w, id, r) ==
  /\ Stands(r) /\ Has(r, r.active) /\ ToSet(r.vs) = ToSet(w.vs) \ {View(w, id)}
  /\ Slotted(r) = Slotted(w) \ ToSet(View(w, id).slots)
  /\ ~Has(r, id)
  /\ \A x : Has(w, x) /\ x # id => Has(r, x) /\ View(r, x) = View(w, x)
  /\ Has(r, w.active) => r.active = w.active
  /\ (\A u \in ToSet(w.vs) : u.id # id => ~Bare(u)) => Filled(r)
LEMMA LeavesIs ==
  ASSUME NEW w, Stands(w), NEW id, Has(w, id), View(w, id).root # Home, NEW r, r = DissolveView(w, id)
  PROVE  Leaves(w, id, r)
<1>1. PICK v \in ToSet(w.vs) : v = View(w, id) /\ v.id = id
  BY TabsAre
<1>2. /\ r \in Desks /\ Laid(r.vs) /\ ToSet(r.vs) = ToSet(w.vs) \ {v} /\ Len(r.vs) >= 1 /\ Has(r, r.active)
      /\ (w.active \in Ids(r.vs) => r.active = w.active)
  <2>1. w \in Desks /\ Laid(w.vs)
    BY DEF Stands
  <2> QED
    BY <1>1, <2>1, DissolveIs
<1>3. Stands(r)
  BY <1>2 DEF Stands
<1>4. \A u \in ToSet(w.vs) : u.id = id => u = v
  BY <1>1, TabsAre
<1>5. ~Has(r, id)
  <2> SUFFICES ASSUME Has(r, id) PROVE FALSE
    OBVIOUS
  <2>1. PICK u \in ToSet(r.vs) : u.id = id
    BY <1>3, TabsAre
  <2> QED
    BY <1>2, <1>4, <2>1
<1>6. ASSUME NEW x, Has(w, x), x # id PROVE Has(r, x) /\ View(r, x) = View(w, x)
  <2>1. PICK u \in ToSet(w.vs) : u = View(w, x) /\ u.id = x
    BY <1>6, TabsAre
  <2>2. u \in ToSet(r.vs)
    BY <1>1, <1>2, <1>6, <2>1
  <2> QED
    BY <1>3, <2>1, <2>2, TabsAre
<1>7. Slotted(r) = Slotted(w) \ ToSet(v.slots)
  <2>1. ASSUME NEW s \in Slotted(r) PROVE s \in Slotted(w) /\ s \notin ToSet(v.slots)
    <3>1. PICK u \in ToSet(w.vs) : u # v /\ s \in ToSet(u.slots)
      BY <1>2 DEF Slotted
    <3> QED
      BY <3>1, KeyApart DEF Slotted
  <2>2. ASSUME NEW s \in Slotted(w), s \notin ToSet(v.slots) PROVE s \in Slotted(r)
    BY <1>2, <2>2 DEF Slotted
  <2> QED
    BY <2>1, <2>2
<1>8. Has(r, w.active) => r.active = w.active
  BY <1>2, <1>3, TabsAre
<1>9. (\A u \in ToSet(w.vs) : u.id # id => ~Bare(u)) => Filled(r)
  BY <1>2, <1>4 DEF Filled
<1> QED
  BY <1>1, <1>2, <1>3, <1>5, <1>6, <1>7, <1>8, <1>9 DEF Leaves

(* A view for the place of one: what it needs.                             *)
Fits(w, id, v) ==
  /\ v \in GoodViews /\ v.id = id /\ v.root = View(w, id).root
  /\ \A s \in ToSet(v.slots) : s.id \in SlotIds(View(w, id)) \/ s.id \notin Keyed(w)
LEMMA PutFits ==
  ASSUME NEW w, Sound(w), NEW id, Has(w, id), NEW v, Fits(w, id, v), v.slots # <<>>, NEW r, r = Put(w, v)
  PROVE  Sound(r) /\ Edited(w, id, v, r)
BY Reworked DEF Fits

LEMMA SoundTabs ==
  ASSUME NEW w, Sound(w), NEW id, Has(w, id)
  PROVE  /\ Stands(w) /\ View(w, id) \in ToSet(w.vs) /\ View(w, id) \in GoodViews /\ View(w, id).id = id
         /\ View(w, id).slots \in Seq(GoodSlots) /\ Fits(w, id, View(w, id))
<1>1. Stands(w)
  BY DEF Sound, Firm
<1>2. View(w, id) \in ToSet(w.vs) /\ View(w, id) \in GoodViews /\ View(w, id).id = id
  BY <1>1, TabsAre
<1>3. \A s \in ToSet(View(w, id).slots) : s.id \in SlotIds(View(w, id))
  BY DEF SlotIds
<1> QED
  BY <1>1, <1>2, <1>3, GoodViewIs DEF Fits

LEMMA ShownFits ==
  ASSUME NEW w, Sound(w), NEW id, Has(w, id), NEW v, Fits(w, id, v), v.slots # <<>>, NEW r, r = Activate(Put(w, v), id)
  PROVE  Sound(r) /\ Edited(w, id, v, Put(w, v)) /\ r.vs = Put(w, v).vs
<1>1. PICK u : u = Put(w, v)
  OBVIOUS
<1>2. Sound(u) /\ Edited(w, id, v, u)
  BY <1>1, PutFits
<1>3. Has(u, id)
  BY <1>2 DEF Edited
<1> QED
  BY <1>1, <1>2, <1>3, ActivateIs

LEMMA SlotOf ==
  ASSUME NEW v \in GoodViews, NEW i \in 1..Len(v.slots)
  PROVE  v.slots[i] \in GoodSlots /\ v.slots[i] \in ToSet(v.slots) /\ v.slots[i].id \in SlotIds(v) /\ v.slots # <<>>
<1>1. v.slots \in Seq(GoodSlots)
  BY GoodViewIs
<1>2. v.slots[i] \in GoodSlots /\ v.slots[i] \in ToSet(v.slots) /\ v.slots # <<>>
  BY <1>1, ToSetIs
<1> QED
  BY <1>2 DEF SlotIds

(* Another slot in the place of one, focused or not.                       *)
LEMMA SlotFits ==
  ASSUME NEW w, Sound(w), NEW id, Has(w, id), NEW i \in 1..Len(View(w, id).slots), NEW s \in GoodSlots, s.id = View(w, id).slots[i].id,
         NEW v, v = Reslot(View(w, id), i, s) \/ v = WithSlot(View(w, id), i, s)
  PROVE  Fits(w, id, v) /\ v.slots # <<>> /\ ToSet(v.slots) = (ToSet(View(w, id).slots) \ {View(w, id).slots[i]}) \cup {s}
<1>1. PICK u : u = View(w, id) /\ u \in GoodViews /\ u.id = id
  BY SoundTabs
<1>2. u.slots[i] \in ToSet(u.slots) /\ u.slots[i].id \in SlotIds(u)
  BY <1>1, SlotOf
<1>3. v \in GoodViews /\ v.id = id /\ v.root = u.root /\ v.slots # <<>> /\ ToSet(v.slots) = (ToSet(u.slots) \ {u.slots[i]}) \cup {s}
  <2>1. CASE v = WithSlot(u, i, s)
    <3>1. i \in 1..Len(u.slots) /\ s.id = u.slots[i].id
      BY <1>1
    <3>2. SlotSet(u, i, s, v)
      BY <1>1, <2>1, <3>1, WithSlotIs
    <3> QED
      BY <1>1, <3>2 DEF SlotSet
  <2>2. CASE v = Reslot(u, i, s)
    <3>1. Reslotted(u, i, s, v)
      BY <1>1, <2>2, ReslottedIs
    <3>2. Len(v.slots) = Len(u.slots) /\ i \in 1..Len(u.slots)
      BY <1>1, <3>1 DEF Reslotted
    <3>3. v.slots # <<>>
      BY ONLY <3>2, Len(<<>>) = 0
    <3> QED
      BY <1>1, <3>1, <3>3 DEF Reslotted
  <2> QED
    BY <1>1, <2>1, <2>2
<1>4. \A t \in ToSet(v.slots) : t.id \in SlotIds(u)
  BY <1>1, <1>2, <1>3 DEF SlotIds
<1> QED
  BY <1>1, <1>3, <1>4 DEF Fits

(* A new editor slot in a view with room.                                  *)
LEMMA NewPane ==
  ASSUME NEW w, Sound(w), NEW id, Has(w, id), NEW v, Fits(w, id, v), SlotIds(v) \subseteq SlotIds(View(w, id)), Len(v.slots) <= 3,
         NEW tab \in Files \cup Diffs, NEW slot, NEW zone, NEW x, x = InsertSlots(v, slot, zone, <<NewEditorSlot(w, tab)>>)
  PROVE  Fits(w, id, x) /\ x.slots # <<>>
<1>1. PICK s : s = NewEditorSlot(w, tab)
  OBVIOUS
<1>2. w \in Desks /\ View(w, id) \in ToSet(w.vs)
  BY SoundTabs DEF Stands
<1>3. /\ s \in GoodSlots /\ s.id \notin Keyed(w) /\ <<s>> \in Seq(GoodSlots) /\ Len(<<s>>) = 1 /\ Apart(<<s>>)
      /\ ToSet(<<s>>) = {s}
  BY <1>1, <1>2, NewEditorIs
<1>4. PICK items \in Seq(GoodSlots) : items = <<s>> /\ Len(items) = 1 /\ Apart(items) /\ ToSet(items) = {s}
  BY <1>3
<1>5. v \in GoodViews /\ v.slots \in Seq(GoodSlots)
  BY GoodViewIs DEF Fits
<1>6. s.id \notin SlotIds(v)
  BY <1>2, <1>3 DEF Keyed
<1>7. \A k \in 1..Len(v.slots) : \A l \in 1..Len(items) : v.slots[k].id # items[l].id
  <2> SUFFICES ASSUME NEW k \in 1..Len(v.slots), NEW l \in 1..Len(items), v.slots[k].id = items[l].id PROVE FALSE
    OBVIOUS
  <2>1. v.slots[k].id \in SlotIds(v)
    BY <1>5, SlotOf
  <2>2. items[l] \in ToSet(items)
    BY ToSetIs
  <2> QED
    BY <1>4, <1>6, <2>1, <2>2
<1>8. Len(v.slots) + Len(items) <= 4 /\ Len(v.slots) \in Nat
  BY <1>4, <1>5
<1>9. x = InsertSlots(v, slot, zone, items)
  BY <1>1, <1>4
<1>10. /\ x \in GoodViews /\ x.id = v.id /\ x.root = v.root
       /\ Len(x.slots) = Len(v.slots) + Len(items) /\ ToSet(x.slots) = ToSet(v.slots) \cup ToSet(items)
  <2>1. Inserted(v, items, x)
    BY <1>4, <1>5, <1>7, <1>8, <1>9, InsertedIs
  <2> QED
    BY <2>1 DEF Inserted
<1>11. x.slots # <<>>
  <2>1. Len(x.slots) # 0
    BY ONLY <1>4, <1>8, <1>10
  <2> QED
    BY ONLY <2>1, Len(<<>>) = 0
<1>12. \A t \in ToSet(x.slots) : t.id \in SlotIds(View(w, id)) \/ t.id \notin Keyed(w)
  BY <1>3, <1>4, <1>10 DEF SlotIds
<1> QED
  BY <1>10, <1>11, <1>12 DEF Fits

-----------------------------------------------------------------------------
(***************************************************************************)
(* The operations of the store keep the arrangement sound                  *)
(***************************************************************************)
LEMMA RemoveFits ==
  ASSUME NEW w, Sound(w), NEW id, Has(w, id), NEW slot \in 1..Len(View(w, id).slots), NEW v, v = RemoveAtSlot(View(w, id), slot)
  PROVE  /\ Fits(w, id, v) /\ SlotIds(v) \subseteq SlotIds(View(w, id)) /\ Len(v.slots) = Len(View(w, id).slots) - 1
         /\ ToSet(v.slots) = ToSet(View(w, id).slots) \ {View(w, id).slots[slot]}
<1>1. PICK u : u = View(w, id) /\ u \in GoodViews /\ u.id = id
  BY SoundTabs
<1>2. /\ v \in GoodViews /\ v.id = u.id /\ v.root = u.root /\ Len(v.slots) = Len(u.slots) - 1
      /\ ToSet(v.slots) = ToSet(u.slots) \ {u.slots[slot]}
  <2>1. Removed(u, slot, v)
    BY <1>1, RemovedIs
  <2> QED
    BY <2>1 DEF Removed
<1>3. SlotIds(v) \subseteq SlotIds(u) /\ \A s \in ToSet(v.slots) : s.id \in SlotIds(u)
  BY <1>2 DEF SlotIds
<1> QED
  BY <1>1, <1>2, <1>3 DEF Fits

LEMMA ClosingKeeps ==
  ASSUME NEW w, Sound(w), NEW id, Has(w, id), NEW slot \in 1..Len(View(w, id).slots), NEW r, r = CloseSlot(w, id, slot)
  PROVE  Sound(r)
<1>1. PICK v : v = RemoveAtSlot(View(w, id), slot)
  OBVIOUS
<1>2. Fits(w, id, v)
  BY <1>1, RemoveFits
<1>3. CASE v.slots # <<>>
  <2>1. r = Put(w, v)
    BY <1>1, <1>3 DEF CloseSlot
  <2> QED
    BY <1>2, <1>3, <2>1, PutFits
<1>4. CASE v.slots = <<>>
  <2>1. PICK u : u = Put(w, v)
    OBVIOUS
  <2>2. Stands(w) /\ Firm(w) /\ Filled(w)
    BY DEF Sound, Firm
  <2>3. Edited(w, id, v, u)
    BY <1>2, <2>1, <2>2, Changed DEF Fits
  <2>4. r = DissolveView(u, id)
    BY <1>1, <1>4, <2>1 DEF CloseSlot
  <2>5. Stands(u) /\ Firm(u) /\ Has(u, id) /\ View(u, id) = v
    BY <2>2, <2>3 DEF Edited
  <2>6. \A x \in ToSet(u.vs) : x.id # id => ~Bare(x)
    BY <1>2, <2>2, <2>3 DEF Edited, Filled, Fits
  <2>7. CASE v.root = Home
    <3>1. r = u
      BY <2>4, <2>5, <2>7 DEF DissolveView
    <3>2. ~Bare(v)
      BY <2>7, WorkspaceAssumption DEF Bare
    <3>3. Filled(u)
      BY <2>3, <2>6, <3>2, <2>2 DEF Edited, Filled
    <3> QED
      BY <2>5, <3>1, <3>3 DEF Sound
  <2>8. CASE v.root # Home
    <3>1. Leaves(u, id, r)
      BY <2>4, <2>5, <2>8, LeavesIs
    <3> QED
      BY <2>6, <3>1 DEF Leaves, Sound, Firm
  <2> QED
    BY <2>7, <2>8
<1> QED
  BY <1>3, <1>4

LEMMA ClosingTabKeeps ==
  ASSUME NEW w, Sound(w), NEW id, Has(w, id), NEW slot \in Editors(View(w, id)), NEW tab \in DOMAIN View(w, id).slots[slot].tabs,
         NEW r, r = CloseTab(w, id, slot, tab)
  PROVE  Sound(r)
<1>1. PICK u : u = View(w, id) /\ u \in GoodViews
  BY SoundTabs
<1>2. slot \in 1..Len(u.slots) /\ IsEditor(u.slots[slot])
  BY <1>1, GoodViewIs DEF Editors
<1>3. PICK s \in GoodSlots : s = u.slots[slot] /\ IsEditor(s) /\ tab \in DOMAIN s.tabs
  BY <1>1, <1>2, SlotOf
<1>4. tab \in 1..Len(s.tabs)
  BY <1>3, SlotIs
<1>5. CASE Len(s.tabs) = 1
  <2>1. r = CloseSlot(w, id, slot)
    BY <1>1, <1>3, <1>5 DEF CloseTab
  <2> QED
    BY <1>1, <1>2, <2>1, ClosingKeeps
<1>6. CASE Len(s.tabs) # 1
  <2>1. PICK t : t = WithoutTab(s, tab)
    OBVIOUS
  <2>2. t \in GoodSlots /\ t.id = s.id
    BY <1>3, <1>4, <1>6, <2>1, ClosedTabIs
  <2>3. PICK v : v = Reslot(u, slot, t)
    OBVIOUS
  <2>4. Fits(w, id, v) /\ v.slots # <<>>
    BY <1>1, <1>2, <1>3, <2>2, <2>3, SlotFits
  <2>5. r = Put(w, v)
    BY <1>1, <1>3, <1>6, <2>1, <2>3 DEF CloseTab, Reslot
  <2> QED
    BY <2>4, <2>5, PutFits
<1> QED
  BY <1>5, <1>6

LEMMA EndingKeeps ==
  ASSUME NEW w, Sound(w), NEW id, NEW r, r = DissolveView(w, id)
  PROVE  Sound(r)
<1>1. Stands(w) /\ Firm(w) /\ Filled(w)
  BY DEF Sound, Firm
<1>2. CASE ~Has(w, id) \/ View(w, id).root = Home
  <2>1. r = w
    BY <1>2 DEF DissolveView
  <2> QED
    BY <2>1
<1>3. CASE Has(w, id) /\ View(w, id).root # Home
  <2>1. Leaves(w, id, r)
    BY <1>1, <1>3, LeavesIs
  <2> QED
    BY <1>1, <2>1 DEF Leaves, Sound, Firm, Filled
<1> QED
  BY <1>2, <1>3

(* The tab of a folder, which is made when it is not there.                *)
Rooted(w, root) == RootView(w, root) \in 1..Len(w.vs) /\ w.vs[RootView(w, root)].root = root
LEMMA RootIs ==
  ASSUME NEW w, Stands(w), NEW root
  PROVE  /\ RootView(w, root) > 0 => Rooted(w, root)
         /\ ~(RootView(w, root) > 0) => \A v \in ToSet(w.vs) : v.root # root
         /\ (\E v \in ToSet(w.vs) : v.root = root) => Rooted(w, root) /\ RootView(w, root) > 0
<1>1. PICK vs \in Seq(GoodViews) : vs = w.vs
  BY TabsAre
<1>2. PICK n \in Nat : n = Len(vs) /\ DOMAIN vs = 1..n
  OBVIOUS
<1>3. PICK I \in SUBSET (1..n) : I = {i \in 1..Len(vs) : vs[i].root = root}
  BY <1>2
<1>4. PICK r : r = IF I # {} THEN Min(I) ELSE 0
  OBVIOUS
<1>5. RootView(w, root) = r
  BY <1>1, <1>3, <1>4 DEF RootView, SelectInSeq
<1>6. r \in 0..n /\ (r > 0 => r \in I) /\ (r = 0 => I = {})
  BY <1>4, FirstOf
<1>7. r = 0 \/ r > 0
  BY ONLY <1>6, n \in Nat
<1>8. r > 0 => r \in 1..n /\ vs[r].root = root
  BY <1>3, <1>6
<1>9. r = 0 => \A v \in ToSet(vs) : v.root # root
  <2> SUFFICES ASSUME r = 0, NEW v \in ToSet(vs), v.root = root PROVE FALSE
    OBVIOUS
  <2>1. PICK k \in 1..n : vs[k] = v
    BY <1>2 DEF ToSet
  <2> QED
    BY <1>2, <1>3, <1>6, <2>1
<1> QED
  BY ONLY <1>1, <1>2, <1>5, <1>7, <1>8, <1>9 DEF Rooted

LEMMA FolderIs ==
  ASSUME NEW w, Sound(w), NEW root \in {Home} \cup Projects, NEW u, u = ViewForRoot(w, root)
  PROVE  Sound(u) /\ Rooted(u, root) /\ Slotted(u) = Slotted(w)
<1>1. Stands(w) /\ Firm(w) /\ Filled(w) /\ w \in Desks
  BY DEF Sound, Firm, Stands
<1>2. CASE RootView(w, root) > 0
  BY <1>1, <1>2, RootIs DEF ViewForRoot
<1>3. CASE ~(RootView(w, root) > 0)
  <2>1. PICK v : v = NewView(w, root, <<>>)
    OBVIOUS
  <2>2. root \in Roots /\ root # None
    BY WorkspaceAssumption DEF Roots
  <2>3. root # Home
    <3>1. PICK h \in ToSet(w.vs) : h.root = Home
      <4>1. w.vs \in Seq(GoodViews) /\ Homed(w.vs) /\ Len(w.vs) >= 1
        BY <1>1 DEF Stands, Laid
      <4>2. 1 \in 1..Len(w.vs)
        BY <4>1
      <4>3. w.vs[1] \in ToSet(w.vs) /\ w.vs[1].root = Home
        BY <4>1, <4>2, ToSetIs DEF Homed
      <4> QED
        BY <4>3
    <3> QED
      BY <1>1, <1>3, <3>1, RootIs
  <2>4. PICK e \in Seq(GoodSlots) : e = <<>> /\ Len(e) = 0 /\ DOMAIN e = {}
    <3>1. <<>> \in Seq(GoodSlots) /\ Len(<<>>) = 0 /\ DOMAIN <<>> = {}
      OBVIOUS
    <3> QED
      BY ONLY <3>1
  <2>5. Apart(e) /\ ToSet(e) = {} /\ Len(e) <= 4
    BY <2>4 DEF Apart, ToSet
  <2>6. New(w.vs, v) /\ v.root = root /\ v.slots = e
    <3>1. v = NewView(w, root, e)
      BY <2>1, <2>4
    <3>2. Fresh(w, root, e, v)
      BY ONLY <1>1, <2>2, <2>5, <3>1, e \in Seq(GoodSlots), NewViewIs
    <3> QED
      BY <3>2 DEF Fresh
  <2>7. u = PushView(w, v)
    BY <1>3, <2>1 DEF ViewForRoot
  <2>8. Joins(w, v, u)
    BY <1>1, <2>3, <2>6, <2>7, JoinsIs
  <2>9. Sound(u) /\ Slotted(u) = Slotted(w)
    BY <1>1, <2>2, <2>5, <2>6, <2>8 DEF Joins, Sound, Bare
  <2>10. v \in ToSet(u.vs) /\ Stands(u)
    BY <2>8 DEF Joins
  <2> QED
    BY <2>6, <2>9, <2>10, RootIs
<1> QED
  BY <1>2, <1>3

(* The editor slot that shows a tab, and the one that takes it.            *)
LEMMA FindIs ==
  ASSUME NEW v \in GoodViews, NEW tab
  PROVE  FindTab(v, tab) > 0 => /\ FindTab(v, tab) \in 1..Len(v.slots) /\ IsEditor(v.slots[FindTab(v, tab)])
                                /\ TabAt(v.slots[FindTab(v, tab)], tab) > 0
<1>1. PICK n \in Nat, q \in Seq(GoodSlots) : q = v.slots /\ n = Len(q)
  BY GoodViewIs
<1>2. PICK I \in SUBSET (1..n) : I = {i \in 1..Len(q) : IsEditor(q[i]) /\ TabAt(q[i], tab) > 0}
  BY <1>1
<1>3. PICK r : r = IF I # {} THEN Min(I) ELSE 0
  OBVIOUS
<1>4. FindTab(v, tab) = r
  BY <1>1, <1>2, <1>3 DEF FindTab, SelectInSeq
<1>5. r \in 0..n /\ (r > 0 => r \in I)
  BY <1>3, FirstOf
<1>6. r > 0 => r \in 1..n /\ IsEditor(q[r]) /\ TabAt(q[r], tab) > 0
  BY <1>2, <1>5
<1> QED
  BY ONLY <1>1, <1>4, <1>6

LEMMA TargetIs ==
  ASSUME NEW v \in GoodViews
  PROVE  TargetEditorIndex(v) > 0 => TargetEditorIndex(v) \in 1..Len(v.slots) /\ IsEditor(v.slots[TargetEditorIndex(v)])
<1>1. PICK n \in Nat, q \in Seq(GoodSlots) : q = v.slots /\ n = Len(q) /\ DOMAIN q = 1..n
  BY GoodViewIs
<1>2. CASE v.focused \in Editors(v)
  BY <1>1, <1>2 DEF TargetEditorIndex, Editors
<1>3. CASE v.focused \notin Editors(v)
  <2>1. PICK I \in SUBSET (1..n) : I = {i \in 1..Len(q) : IsEditor(q[i])}
    BY <1>1
  <2>2. PICK r : r = IF I # {} THEN Min(I) ELSE 0
    OBVIOUS
  <2>3. TargetEditorIndex(v) = r
    BY <1>1, <1>3, <2>1, <2>2 DEF TargetEditorIndex, SelectInSeq
  <2>4. r \in 0..n /\ (r > 0 => r \in I)
    BY <2>2, FirstOf
  <2>5. r > 0 => r \in 1..n /\ IsEditor(q[r])
    BY <2>1, <2>4
  <2> QED
    BY ONLY <1>1, <2>3, <2>5
<1> QED
  BY <1>2, <1>3

(* A tab goes into an editor slot.                                         *)
LEMMA TabbedKeeps ==
  ASSUME NEW w, Sound(w), NEW id, Has(w, id), NEW i \in 1..Len(View(w, id).slots), NEW s \in GoodSlots, s.id = View(w, id).slots[i].id,
         NEW r, r = Activate(Put(w, WithSlot(View(w, id), i, s)), id)
  PROVE  Sound(r)
<1>1. PICK v : v = WithSlot(View(w, id), i, s)
  OBVIOUS
<1>2. Fits(w, id, v) /\ v.slots # <<>>
  BY <1>1, SlotFits
<1> QED
  BY <1>1, <1>2, ShownFits

LEMMA OpeningKeeps ==
  ASSUME NEW w, Sound(w), NEW root \in {Home} \cup Projects, NEW tab \in Files \cup Diffs, NEW r, r = OpenEditorTab(w, root, tab)
  PROVE  Sound(r)
<1>1. PICK u : u = ViewForRoot(w, root)
  OBVIOUS
<1>2. Sound(u) /\ Rooted(u, root) /\ Stands(u)
  BY <1>1, FolderIs DEF Sound, Firm
<1>3. PICK v : v = u.vs[RootView(u, root)]
  OBVIOUS
<1>4. v \in ToSet(u.vs) /\ Has(u, v.id) /\ View(u, v.id) = v /\ v \in GoodViews
  <2>1. u.vs \in Seq(GoodViews)
    BY <1>2, TabsAre
  <2>2. v \in ToSet(u.vs)
    BY <1>2, <1>3, <2>1, ToSetIs DEF Rooted
  <2> QED
    BY <1>2, <2>2, TabsAre
<1>5. PICK at, target : at = FindTab(v, tab) /\ target = TargetEditorIndex(v)
  OBVIOUS
<1>6. CASE at > 0
  <2>1. at \in 1..Len(v.slots) /\ IsEditor(v.slots[at]) /\ TabAt(v.slots[at], tab) > 0
    BY <1>4, <1>5, <1>6, FindIs
  <2>2. PICK s \in GoodSlots : s = v.slots[at]
    BY <1>4, <2>1, SlotOf
  <2>3. PICK t : t = AddOrRaise(s, tab)
    OBVIOUS
  <2>4. ~Full(s, tab)
    <3>1. TabAt(s, tab) # 0
      BY <2>1, <2>2
    <3> QED
      BY <3>1 DEF Full
  <2>5. t \in GoodSlots /\ t.id = s.id
    BY <2>1, <2>2, <2>3, <2>4, AddedIs
  <2>6. r = Activate(Put(u, WithSlot(v, at, t)), v.id)
    BY <1>1, <1>3, <1>5, <1>6, <2>2, <2>3 DEF OpenEditorTab
  <2> QED
    BY <1>2, <1>4, <2>1, <2>2, <2>5, <2>6, TabbedKeeps
<1>7. CASE ~(at > 0) /\ target > 0
  <2>1. target \in 1..Len(v.slots) /\ IsEditor(v.slots[target])
    BY <1>4, <1>5, <1>7, TargetIs
  <2>2. PICK s \in GoodSlots : s = v.slots[target]
    BY <1>4, <2>1, SlotOf
  <2>3. PICK t : t = AddOrRaise(EvictForAdd(s, tab), tab)
    OBVIOUS
  <2>4. t \in GoodSlots /\ t.id = s.id
    BY <2>1, <2>2, <2>3, EvictedIs
  <2>5. r = Activate(Put(u, WithSlot(v, target, t)), v.id)
    BY <1>1, <1>3, <1>5, <1>7, <2>2, <2>3 DEF OpenEditorTab
  <2> QED
    BY <1>2, <1>4, <2>1, <2>2, <2>4, <2>5, TabbedKeeps
<1>8. CASE ~(at > 0) /\ ~(target > 0) /\ Len(v.slots) >= MAX_PANES
  <2>1. r = u
    BY <1>1, <1>3, <1>5, <1>8 DEF OpenEditorTab
  <2> QED
    BY <1>2, <2>1
<1>9. CASE ~(at > 0) /\ ~(target > 0) /\ ~(Len(v.slots) >= MAX_PANES)
  <2>1. PICK x : x = InsertSlots(v, 1, "fill", <<NewEditorSlot(u, tab)>>)
    OBVIOUS
  <2>2. Fits(u, v.id, v) /\ SlotIds(v) \subseteq SlotIds(View(u, v.id)) /\ Len(v.slots) <= 3
    <3>1. Len(v.slots) \in Nat
      BY <1>4, GoodViewIs
    <3>2. Len(v.slots) <= 3
      BY ONLY <3>1, <1>9 DEF MAX_PANES
    <3> QED
      BY <1>2, <1>4, <3>2, SoundTabs
  <2>3. Fits(u, v.id, x) /\ x.slots # <<>>
    BY <1>2, <1>4, <2>1, <2>2, NewPane
  <2>4. r = Activate(Put(u, x), v.id)
    BY <1>1, <1>3, <1>5, <1>9, <2>1 DEF OpenEditorTab
  <2> QED
    BY <1>2, <1>4, <2>3, <2>4, ShownFits
<1> QED
  BY <1>6, <1>7, <1>8, <1>9

LEMMA OpeningAtKeeps ==
  ASSUME NEW w, Sound(w), NEW id, Has(w, id), NEW slot, NEW where, NEW tab \in Files \cup Diffs, NEW r, r = OpenTabAt(w, id, slot, where, tab)
  PROVE  Sound(r)
<1>1. PICK v : v = View(w, id) /\ v \in GoodViews
  BY SoundTabs
<1>2. CASE where = "replace" /\ slot \in Editors(v)
  <2>1. slot \in 1..Len(v.slots) /\ IsEditor(v.slots[slot])
    BY <1>1, <1>2, GoodViewIs DEF Editors
  <2>2. PICK s \in GoodSlots : s = v.slots[slot]
    BY <1>1, <2>1, SlotOf
  <2>3. PICK t : t = AddOrRaise(EvictForAdd(s, tab), tab)
    OBVIOUS
  <2>4. t \in GoodSlots /\ t.id = s.id
    BY <2>1, <2>2, <2>3, EvictedIs
  <2>5. r = Activate(Put(w, WithSlot(v, slot, t)), id)
    BY <1>1, <1>2, <2>2, <2>3 DEF OpenTabAt
  <2> QED
    BY <1>1, <2>1, <2>2, <2>4, <2>5, TabbedKeeps
<1>3. CASE where # "replace" /\ where \in DropZonesFor(v, slot, 1)
  <2>1. PICK x : x = InsertSlots(v, slot, where, <<NewEditorSlot(w, tab)>>)
    OBVIOUS
  <2>2. Len(v.slots) <= 3
    <3>1. PICK n \in Nat : n = Len(v.slots)
      BY <1>1, GoodViewIs
    <3>2. ~(n = 0 \/ n + 1 > MAX_PANES)
      BY <1>3, <3>1 DEF DropZonesFor
    <3> QED
      BY ONLY <3>1, <3>2 DEF MAX_PANES
  <2>3. Fits(w, id, v) /\ SlotIds(v) \subseteq SlotIds(View(w, id))
    BY <1>1, SoundTabs
  <2>4. Fits(w, id, x) /\ x.slots # <<>>
    BY <2>1, <2>2, <2>3, NewPane
  <2>5. r = Activate(Put(w, x), id)
    BY <1>1, <1>3, <2>1 DEF OpenTabAt
  <2> QED
    BY <2>4, <2>5, ShownFits
<1>4. CASE ~(where = "replace" /\ slot \in Editors(v)) /\ ~(where # "replace" /\ where \in DropZonesFor(v, slot, 1))
  <2>1. r = w
    BY <1>1, <1>4 DEF OpenTabAt
  <2> QED
    BY <2>1
<1> QED
  BY <1>2, <1>3, <1>4

(* A key that is in a view has a place there.                              *)
LEMMA KeyIndex ==
  ASSUME NEW v \in GoodViews, NEW key \in SlotIds(v), NEW i, i = IndexOfSlot(v, key)
  PROVE  i \in 1..Len(v.slots) /\ v.slots[i].id = key
<1>1. PICK q \in Seq(GoodSlots), n \in Nat : q = v.slots /\ n = Len(q) /\ DOMAIN q = 1..n
  BY GoodViewIs
<1>2. i \in 0..n /\ (i > 0 => q[i].id = key) /\ (i = 0 => \A k \in 1..n : q[k].id # key)
  BY <1>1, IndexIs
<1>3. PICK k \in 1..n : q[k].id = key
  BY <1>1, ToSetIs DEF SlotIds
<1>4. i # 0
  BY <1>2, <1>3
<1>5. i \in 1..n /\ i > 0
  BY ONLY <1>2, <1>4, n \in Nat
<1> QED
  BY ONLY <1>1, <1>2, <1>5

(* What is made of a view with its own panes alone.                        *)
Within(w, id, v) == v \in GoodViews /\ v.id = id /\ v.root = View(w, id).root /\ SlotIds(v) \subseteq SlotIds(View(w, id))
LEMMA WithinFits ==
  ASSUME NEW w, NEW id, NEW v, Within(w, id, v)
  PROVE  Fits(w, id, v)
BY DEF Within, Fits, SlotIds
LEMMA WithinStarts ==
  ASSUME NEW w, Sound(w), NEW id, Has(w, id)
  PROVE  Within(w, id, View(w, id))
BY SoundTabs DEF Within

LEMMA WithinReslot ==
  ASSUME NEW w, NEW id, NEW v, Within(w, id, v), NEW i \in 1..Len(v.slots), NEW s \in GoodSlots, s.id = v.slots[i].id,
         NEW u, u = Reslot(v, i, s)
  PROVE  Within(w, id, u) /\ Reslotted(v, i, s, u) /\ u.slots # <<>> /\ SlotIds(u) = SlotIds(v)
<1>1. v \in GoodViews
  BY DEF Within
<1>2. Reslotted(v, i, s, u)
  BY <1>1, ReslottedIs
<1>3. v.slots[i] \in ToSet(v.slots)
  BY <1>1, SlotOf
<1>4. ToSet(u.slots) = (ToSet(v.slots) \ {v.slots[i]}) \cup {s} /\ u \in GoodViews /\ u.id = v.id /\ u.root = v.root
  BY <1>2 DEF Reslotted
<1>5. SlotIds(u) = SlotIds(v)
  <2>1. \A x \in ToSet(u.slots) : \E y \in ToSet(v.slots) : y.id = x.id
    BY <1>3, <1>4
  <2>2. \A x \in ToSet(v.slots) : \E y \in ToSet(u.slots) : y.id = x.id
    BY <1>4
  <2> QED
    BY <2>1, <2>2 DEF SlotIds
<1>6. u.slots # <<>>
  <2>1. Len(u.slots) = Len(v.slots) /\ i \in 1..Len(v.slots)
    BY <1>2 DEF Reslotted
  <2> QED
    BY ONLY <2>1, Len(<<>>) = 0
<1> QED
  BY <1>2, <1>4, <1>5, <1>6 DEF Within

LEMMA WithinRemove ==
  ASSUME NEW w, NEW id, NEW v, Within(w, id, v), NEW i \in 1..Len(v.slots), NEW u, u = RemoveAtSlot(v, i)
  PROVE  Within(w, id, u) /\ Removed(v, i, u)
<1>1. v \in GoodViews
  BY DEF Within
<1>2. Removed(v, i, u)
  BY <1>1, RemovedIs
<1>3. ToSet(u.slots) \subseteq ToSet(v.slots) /\ u \in GoodViews /\ u.id = v.id /\ u.root = v.root
  BY <1>2 DEF Removed
<1> QED
  BY <1>2, <1>3 DEF Within, SlotIds

LEMMA EditorOf ==
  ASSUME NEW v \in GoodViews, NEW i \in Editors(v)
  PROVE  /\ i \in 1..Len(v.slots) /\ v.slots[i] \in GoodSlots /\ IsEditor(v.slots[i]) /\ Strip(v.slots[i])
         /\ v.slots[i].tabs \in Seq(Files \cup Diffs) /\ DOMAIN v.slots[i].tabs = 1..Len(v.slots[i].tabs)
         /\ \A t \in DOMAIN v.slots[i].tabs : v.slots[i].tabs[t] \in Files \cup Diffs
<1>1. i \in 1..Len(v.slots) /\ IsEditor(v.slots[i])
  BY GoodViewIs DEF Editors
<1>2. PICK s \in GoodSlots : s = v.slots[i]
  BY <1>1, SlotOf
<1>3. PICK t \in Seq(Files \cup Diffs) : t = s.tabs
  BY SlotIs
<1>4. DOMAIN t = 1..Len(t) /\ \A k \in DOMAIN t : t[k] \in Files \cup Diffs
  OBVIOUS
<1> QED
  BY <1>1, <1>2, <1>3, <1>4, SlotIs

LEMMA MovingTabKeeps ==
  ASSUME NEW w, Sound(w), NEW id, Has(w, id), NEW from \in Editors(View(w, id)), NEW tab \in DOMAIN View(w, id).slots[from].tabs,
         NEW to \in Editors(View(w, id)) \ {from}, NEW r, r = MoveTab(w, id, from, tab, to)
  PROVE  Sound(r)
<1>1. PICK v : v = View(w, id) /\ v \in GoodViews /\ Within(w, id, v)
  BY SoundTabs, WithinStarts
<1>2. PICK a \in GoodSlots, b \in GoodSlots : a = v.slots[from] /\ b = v.slots[to] /\ IsEditor(a) /\ IsEditor(b)
  BY <1>1, EditorOf
<1>3. from \in 1..Len(v.slots) /\ to \in 1..Len(v.slots) /\ tab \in 1..Len(a.tabs) /\ tab \in DOMAIN a.tabs /\ a.tabs \in Seq(Files \cup Diffs)
  BY <1>1, <1>2, EditorOf
<1>4. PICK t \in Files \cup Diffs : t = a.tabs[tab]
  BY <1>1, <1>2, EditorOf
<1>5. CASE Full(b, t)
  <2>1. r = w
    BY <1>1, <1>2, <1>4, <1>5 DEF MoveTab
  <2> QED
    BY <2>1
<1>6. CASE ~Full(b, t)
  <2>1. PICK c : c = AddOrRaise(b, t)
    OBVIOUS
  <2>2. c \in GoodSlots /\ c.id = b.id
    BY <1>2, <1>6, <2>1, AddedIs
  <2>3. PICK taken : taken = Reslot(v, to, c)
    OBVIOUS
  <2>4. Within(w, id, taken) /\ Reslotted(v, to, c, taken)
    BY <1>1, <1>2, <1>3, <2>2, <2>3, WithinReslot
  <2>5. /\ taken \in GoodViews /\ Len(taken.slots) = Len(v.slots) /\ taken.slots[to] = c /\ taken.slots[from] = a
        /\ from \in 1..Len(taken.slots) /\ to \in 1..Len(taken.slots)
    BY <1>2, <1>3, <2>4 DEF Reslotted
  <2>6. a.id # c.id
    <3>1. Apart(v.slots) /\ DOMAIN v.slots = 1..Len(v.slots)
      BY <1>1 DEF GoodViews, ViewsOf
    <3> QED
      BY <1>2, <1>3, <2>2, <3>1 DEF Apart
  <2>7. c \in ToSet(taken.slots) /\ c # a
    <3>1. taken.slots[to] \in ToSet(taken.slots)
      BY <2>5, SlotOf
    <3> QED
      BY <2>5, <2>6, <3>1
  <2>8. PICK left : left = IF Len(a.tabs) = 1 THEN RemoveAtSlot(taken, from) ELSE Reslot(taken, from, WithoutTab(a, tab))
    OBVIOUS
  <2>9. Within(w, id, left) /\ c.id \in SlotIds(left)
    <3>1. CASE Len(a.tabs) = 1
      <4>1. Within(w, id, left) /\ Removed(taken, from, left)
        BY <2>4, <2>5, <2>8, <3>1, WithinRemove
      <4>2. c \in ToSet(left.slots)
        BY <2>5, <2>7, <4>1 DEF Removed
      <4> QED
        BY <4>1, <4>2 DEF SlotIds
    <3>2. CASE Len(a.tabs) # 1
      <4>1. PICK d : d = WithoutTab(a, tab)
        OBVIOUS
      <4>2. d \in GoodSlots /\ d.id = a.id
        BY <1>2, <1>3, <3>2, <4>1, ClosedTabIs
      <4>3. left = Reslot(taken, from, d) /\ d.id = taken.slots[from].id
        BY <2>5, <2>8, <3>2, <4>1, <4>2
      <4>4. Within(w, id, left) /\ SlotIds(left) = SlotIds(taken)
        BY <2>4, <2>5, <4>2, <4>3, WithinReslot
      <4> QED
        BY <2>7, <4>4 DEF SlotIds
    <3> QED
      BY <3>1, <3>2
  <2>10. PICK f : f = IndexOfSlot(left, c.id)
    OBVIOUS
  <2>11. f \in 1..Len(left.slots) /\ left \in GoodViews
    BY <2>9, <2>10, KeyIndex DEF Within
  <2>12. PICK x : x = [left EXCEPT !.focused = f]
    OBVIOUS
  <2>13. x \in GoodViews /\ x.id = left.id /\ x.root = left.root /\ x.slots = left.slots
    BY <2>11, <2>12, FocusIs
  <2>14. Within(w, id, x) /\ x.slots # <<>>
    BY <2>9, <2>11, <2>13, SlotOf DEF Within, SlotIds
  <2>15. r = Put(w, x)
    BY <1>1, <1>2, <1>4, <1>6, <2>1, <2>2, <2>3, <2>8, <2>10, <2>12 DEF MoveTab, Reslot
  <2> QED
    BY <2>14, <2>15, WithinFits, PutFits
<1> QED
  BY <1>5, <1>6

LEMMA SplittingTabKeeps ==
  ASSUME NEW w, Sound(w), NEW id, Has(w, id), NEW from \in Editors(View(w, id)), NEW tab \in DOMAIN View(w, id).slots[from].tabs,
         NEW at, NEW zone, NEW r, r = MoveTabToSplit(w, id, from, tab, at, zone)
  PROVE  Sound(r)
<1>1. PICK v : v = View(w, id) /\ v \in GoodViews /\ Within(w, id, v)
  BY SoundTabs, WithinStarts
<1>2. PICK a \in GoodSlots : a = v.slots[from] /\ IsEditor(a)
  BY <1>1, EditorOf
<1>3. from \in 1..Len(v.slots) /\ tab \in 1..Len(a.tabs)
  BY <1>1, <1>2, EditorOf
<1>4. PICK t \in Files \cup Diffs : t = a.tabs[tab]
  BY <1>1, <1>2, EditorOf
<1>5. PICK left : left = IF Len(a.tabs) = 1 THEN RemoveAtSlot(v, from) ELSE Reslot(v, from, WithoutTab(a, tab))
  OBVIOUS
<1>6. Within(w, id, left)
  <2>1. CASE Len(a.tabs) = 1
    BY <1>1, <1>3, <1>5, <2>1, WithinRemove
  <2>2. CASE Len(a.tabs) # 1
    <3>1. PICK d : d = WithoutTab(a, tab)
      OBVIOUS
    <3>2. d \in GoodSlots /\ d.id = v.slots[from].id
      BY <1>2, <1>3, <2>2, <3>1, ClosedTabIs
    <3>3. left = Reslot(v, from, d)
      BY <1>5, <2>2, <3>1
    <3> QED
      BY <1>1, <1>3, <3>2, <3>3, WithinReslot
  <2> QED
    BY <2>1, <2>2
<1>7. PICK slot : slot = IndexOfSlot(left, v.slots[at].id)
  OBVIOUS
<1>8. CASE (Len(a.tabs) = 1 /\ from = at) \/ zone \notin DropZonesFor(left, slot, 1)
  <2>1. r = w
    BY <1>1, <1>2, <1>5, <1>7, <1>8 DEF MoveTabToSplit, Reslot
  <2> QED
    BY <2>1
<1>9. CASE ~((Len(a.tabs) = 1 /\ from = at) \/ zone \notin DropZonesFor(left, slot, 1))
  <2>1. PICK x : x = InsertSlots(left, slot, zone, <<NewEditorSlot(w, t)>>)
    OBVIOUS
  <2>2. Len(left.slots) <= 3
    <3>1. PICK n \in Nat : n = Len(left.slots)
      BY <1>6, GoodViewIs DEF Within
    <3>2. ~(n = 0 \/ n + 1 > MAX_PANES)
      BY <1>9, <3>1 DEF DropZonesFor
    <3> QED
      BY ONLY <3>1, <3>2 DEF MAX_PANES
  <2>3. Fits(w, id, left) /\ SlotIds(left) \subseteq SlotIds(View(w, id))
    BY <1>6, WithinFits DEF Within
  <2>4. Fits(w, id, x) /\ x.slots # <<>>
    BY <2>1, <2>2, <2>3, NewPane
  <2>5. r = Put(w, x)
    BY <1>1, <1>2, <1>4, <1>5, <1>7, <1>9, <2>1 DEF MoveTabToSplit, Reslot
  <2> QED
    BY <2>4, <2>5, PutFits
<1> QED
  BY <1>8, <1>9

-----------------------------------------------------------------------------
(***************************************************************************)
(* The operations that lose no file                                        *)
(***************************************************************************)
EditorsKept(w, r) == \A s \in Slotted(w) : IsEditor(s) => s \in Slotted(r)
LEMMA PutKeepsEditors ==
  ASSUME NEW w, NEW id, NEW v, NEW r, Edited(w, id, v, r), \A s \in ToSet(View(w, id).slots) : IsEditor(s) => s \in ToSet(v.slots)
  PROVE  EditorsKept(w, r)
BY DEF Edited, EditorsKept

(* The slots of a workspace, each once.                                    *)
LEMMA SlotApart ==
  ASSUME NEW w, Stands(w)
  PROVE  /\ \A s, t \in Slotted(w) : s.id = t.id => s = t
         /\ Slotted(w) \subseteq GoodSlots
         /\ \A k : k \in Keyed(w) <=> \E s \in Slotted(w) : s.id = k
         /\ \A v \in ToSet(w.vs) : ToSet(v.slots) \subseteq Slotted(w)
<1>1. \A s, t \in Slotted(w) : s.id = t.id => s = t
  BY KeyApart DEF Slotted
<1>2. \A v \in ToSet(w.vs) : ToSet(v.slots) \subseteq GoodSlots
  BY TabsAre, GoodViewIs
<1>3. \A k : k \in Keyed(w) <=> \E s \in Slotted(w) : s.id = k
  BY DEF Keyed, Slotted, SlotIds
<1> QED
  BY <1>1, <1>2, <1>3 DEF Slotted

LEMMA NotEditor ==
  ASSUME NEW s \in Sessions
  PROVE  ~IsEditor(SessionSlot(s))
BY SessionSlotIs DEF IsEditor

(* Two panes change places.                                                *)
LEMMA SwappingKeeps ==
  ASSUME NEW w, Sound(w), NEW id, Has(w, id), NEW from \in 1..Len(View(w, id).slots), NEW to \in 1..Len(View(w, id).slots),
         from # to, NEW r, r = SwapPanes(w, id, from, to)
  PROVE  Sound(r) /\ EditorsKept(w, r)
<1>1. PICK v : v = View(w, id) /\ v \in GoodViews /\ v.id = id
  BY SoundTabs
<1>2. PICK q \in Seq(GoodSlots), n \in Nat :
        q = v.slots /\ n = Len(q) /\ DOMAIN q = 1..n /\ n <= 4 /\ Apart(q) /\ InFocus(v) /\ v \in ViewsOf(GoodSlots)
  BY <1>1 DEF GoodViews, ViewsOf
<1>3. from \in 1..n /\ to \in 1..n
  BY <1>1, <1>2
<1>4. PICK p : p = [[q EXCEPT ![from] = q[to]] EXCEPT ![to] = q[from]]
  OBVIOUS
<1>5. p \in Seq(GoodSlots) /\ Len(p) = n /\ DOMAIN p = 1..n
  BY <1>2, <1>3, <1>4
<1>6. \A k \in 1..n : p[k] = IF k = to THEN q[from] ELSE IF k = from THEN q[to] ELSE q[k]
  BY <1>2, <1>3, <1>4
<1>7. Apart(p)
  <2> SUFFICES ASSUME NEW k \in 1..n, NEW l \in 1..n, p[k].id = p[l].id PROVE k = l
    BY <1>5 DEF Apart
  <2>1. PICK i \in 1..n : i = (IF k = to THEN from ELSE IF k = from THEN to ELSE k) /\ p[k] = q[i]
    BY <1>3, <1>6
  <2>2. PICK j \in 1..n : j = (IF l = to THEN from ELSE IF l = from THEN to ELSE l) /\ p[l] = q[j]
    BY <1>3, <1>6
  <2>3. i = j
    BY SMTT(40), <1>2, <2>1, <2>2 DEF Apart
  <2> QED
    BY <2>1, <2>2, <2>3
<1>8. ToSet(p) = ToSet(q)
  <2>1. \A x : x \in ToSet(p) <=> \E k \in 1..n : p[k] = x
    BY <1>5 DEF ToSet
  <2>2. \A x : x \in ToSet(q) <=> \E k \in 1..n : q[k] = x
    BY <1>2 DEF ToSet
  <2>3. ASSUME NEW k \in 1..n PROVE (\E i \in 1..n : p[k] = q[i]) /\ (\E i \in 1..n : p[i] = q[k])
    <3>1. p[to] = q[from] /\ p[from] = q[to] /\ (k # to /\ k # from => p[k] = q[k])
      BY <1>3, <1>6
    <3>2. k = to \/ k = from \/ (k # to /\ k # from)
      OBVIOUS
    <3> QED
      BY <1>3, <3>1, <3>2
  <2> QED
    BY <2>1, <2>2, <2>3
<1>9. PICK f : f = IF w.active = id THEN to ELSE v.focused
  OBVIOUS
<1>10. f \in 1..4 /\ (f = 1 \/ f <= n)
  <2>1. to \in 1..4 /\ to <= n
    BY ONLY <1>2, <1>3, n \in Nat
  <2>2. v.focused \in 1..4 /\ (v.focused = 1 \/ v.focused <= n)
    BY ONLY <1>2 DEF InFocus
  <2> QED
    BY ONLY <1>9, <2>1, <2>2
<1>11. PICK x : x = Refill(v, p, f)
  OBVIOUS
<1>12. x \in GoodViews /\ x.id = v.id /\ x.root = v.root /\ x.slots = p
  <2>1. n = Len(p) /\ n <= 4 /\ Apart(p) /\ v \in GoodViews
    BY <1>1, <1>2, <1>5, <1>7
  <2>2. p \in Seq(GoodSlots)
    BY <1>5
  <2> QED
    BY ONLY <2>1, <2>2, <1>10, <1>11, n \in Nat, Refilled
<1>13. Fits(w, id, x) /\ x.slots # <<>>
  <2>1. \A s \in ToSet(x.slots) : s.id \in SlotIds(View(w, id))
    BY <1>1, <1>2, <1>8, <1>12 DEF SlotIds
  <2>2. x.slots # <<>>
    <3>1. n # 0
      BY <1>3
    <3> QED
      BY <1>5, <1>12, <3>1
  <2> QED
    BY <1>1, <1>12, <2>1, <2>2 DEF Fits
<1>14. r = Put(w, x)
  <2>1. x = [v EXCEPT !.slots[from] = v.slots[to], !.slots[to] = v.slots[from], !.focused = IF w.active = id THEN to ELSE @]
    BY <1>2, <1>4, <1>9, <1>11 DEF Refill, ViewsOf
  <2> QED
    BY <1>1, <2>1 DEF SwapPanes
<1>15. Sound(r) /\ Edited(w, id, x, r)
  BY <1>13, <1>14, PutFits
<1>16. \A s \in ToSet(View(w, id).slots) : s \in ToSet(x.slots)
  BY <1>1, <1>2, <1>8, <1>12
<1> QED
  BY <1>15, <1>16, PutKeepsEditors

(* A tab is put into another.                                              *)
LEMMA MergingKeeps ==
  ASSUME NEW w, Sound(w), NEW target, Has(w, target), NEW source, Has(w, source), target # source, View(w, source).root # Home,
         Len(View(w, target).slots) + Len(View(w, source).slots) <= 4, NEW slot, NEW zone, NEW r, r = MergeViews(w, target, source, slot, zone)
  PROVE  Sound(r) /\ EditorsKept(w, r)
<1>1. Stands(w) /\ Filled(w)
  BY DEF Sound, Firm
<1>2. PICK u : u = DissolveView(w, source)
  OBVIOUS
<1>3. Leaves(w, source, u)
  BY <1>1, <1>2, LeavesIs
<1>4. Sound(u) /\ Stands(u)
  BY <1>1, <1>3 DEF Leaves, Sound, Firm, Filled
<1>5. PICK s : s = View(w, source) /\ s \in GoodViews /\ s \in ToSet(w.vs)
  BY SoundTabs
<1>6. PICK t : t = View(w, target) /\ t \in GoodViews /\ t \in ToSet(w.vs) /\ t.id = target
  BY SoundTabs
<1>7. s # t
  BY <1>5, <1>6, SoundTabs
<1>8. Has(u, target) /\ View(u, target) = t /\ Slotted(u) = Slotted(w) \ ToSet(s.slots)
  BY <1>3, <1>5, <1>6 DEF Leaves
<1>9. PICK items \in Seq(GoodSlots) : items = s.slots /\ Apart(items)
  BY <1>5 DEF GoodViews, ViewsOf
<1>10. PICK x : x = InsertSlots(t, slot, zone, items)
  OBVIOUS
<1>11. \A k \in 1..Len(t.slots) : \A l \in 1..Len(items) : t.slots[k].id # items[l].id
  <2> SUFFICES ASSUME NEW k \in 1..Len(t.slots), NEW l \in 1..Len(items), t.slots[k].id = items[l].id PROVE FALSE
    OBVIOUS
  <2>1. t.slots[k] \in ToSet(t.slots) /\ items[l] \in ToSet(s.slots)
    BY <1>6, <1>9, SlotOf, ToSetIs
  <2> QED
    BY <1>1, <1>5, <1>6, <1>7, <2>1, KeyApart
<1>12. Len(t.slots) + Len(items) <= 4
  BY <1>5, <1>6, <1>9
<1>13. Inserted(t, items, x)
  BY <1>6, <1>9, <1>10, <1>11, <1>12, InsertedIs
<1>14. Fits(u, target, x)
  <2>1. \A y \in ToSet(items) : y.id \notin Keyed(u)
    <3> SUFFICES ASSUME NEW y \in ToSet(items), y.id \in Keyed(u) PROVE FALSE
      OBVIOUS
    <3>1. PICK z \in Slotted(u) : z.id = y.id
      BY <1>4, SlotApart
    <3>2. y \in Slotted(w) /\ z \in Slotted(w) /\ z \notin ToSet(s.slots)
      BY <1>5, <1>8, <1>9, <3>1 DEF Slotted
    <3>3. y = z
      BY <1>1, <3>1, <3>2, SlotApart
    <3> QED
      BY <1>9, <3>2, <3>3
  <2>2. \A y \in ToSet(x.slots) : y.id \in SlotIds(t) \/ y.id \notin Keyed(u)
    BY <1>13, <2>1 DEF Inserted, SlotIds
  <2> QED
    BY <1>6, <1>8, <1>13, <2>2 DEF Inserted, Fits
<1>15. r = Put(u, x)
  BY <1>2, <1>5, <1>8, <1>9, <1>10 DEF MergeViews
<1>16. Edited(u, target, x, r)
  BY <1>4, <1>8, <1>14, <1>15, Changed DEF Fits
<1>17. ~Bare(x)
  <2>1. CASE t.root # None
    BY <1>13, <2>1 DEF Inserted, Bare
  <2>2. CASE t.slots # <<>>
    <3>1. PICK n, m \in Nat : n = Len(t.slots) /\ m = Len(items) /\ n # 0
      BY <1>6, <1>9, <2>2, GoodViewIs, EmptySeq
    <3>2. Len(x.slots) # 0
      BY <1>13, <3>1 DEF Inserted
    <3>3. x.slots # <<>>
      BY ONLY <3>2, Len(<<>>) = 0
    <3> QED
      BY <3>3 DEF Bare
  <2> QED
    BY <1>1, <1>6, <2>1, <2>2 DEF Filled, Bare
<1>18. Sound(r)
  BY <1>4, <1>16, <1>17 DEF Edited, Sound, Filled
<1>19. EditorsKept(w, r)
  <2>1. ToSet(x.slots) = ToSet(t.slots) \cup ToSet(s.slots)
    BY <1>9, <1>13 DEF Inserted
  <2>2. Slotted(r) = (Slotted(u) \ ToSet(t.slots)) \cup ToSet(x.slots)
    BY <1>8, <1>16 DEF Edited
  <2> QED
    BY <1>8, <2>1, <2>2 DEF EditorsKept
<1> QED
  BY <1>18, <1>19

(* A session goes to another tab.                                          *)
LEMMA MovingSessionKeeps ==
  ASSUME NEW w, Sound(w), NEW s \in Sessions, NEW target, Has(w, target), s \notin SlotIds(View(w, target)),
         Len(View(w, target).slots) < 4, NEW r, r = MoveSessionToView(w, s, target)
  PROVE  Sound(r) /\ EditorsKept(w, r)
<1>1. Stands(w) /\ Filled(w) /\ Firm(w)
  BY DEF Sound, Firm
<1>2. PICK u : u = DetachFromViews(w, s)
  OBVIOUS
<1>3. PICK t : t = View(w, target) /\ t \in ToSet(w.vs) /\ t \in GoodViews /\ t.id = target
  BY SoundTabs
<1>4. /\ Stands(u) /\ Sound(u) /\ s \notin Keyed(u) /\ Slotted(u) = Slotted(w) \ {SessionSlot(s)}
      /\ Has(u, target) /\ View(u, target) = t
  BY <1>1, <1>2, <1>3, DetachIs DEF Sound
<1>5. PICK items \in Seq(GoodSlots) : items = <<SessionSlot(s)>> /\ Len(items) = 1 /\ Apart(items) /\ ToSet(items) = {SessionSlot(s)}
  BY SessionSlotIs
<1>6. PICK x : x = InsertSlots(t, 1, "fill", items)
  OBVIOUS
<1>7. \A k \in 1..Len(t.slots) : \A l \in 1..Len(items) : t.slots[k].id # items[l].id
  <2> SUFFICES ASSUME NEW k \in 1..Len(t.slots), NEW l \in 1..Len(items), t.slots[k].id = items[l].id PROVE FALSE
    OBVIOUS
  <2>1. t.slots[k].id \in SlotIds(t) /\ items[l] \in ToSet(items)
    BY <1>3, SlotOf, ToSetIs
  <2> QED
    BY <1>3, <1>5, <2>1, SessionSlotIs
<1>8. Len(t.slots) + Len(items) <= 4
  <2>1. PICK n \in Nat : n = Len(t.slots) /\ n < 4
    BY <1>3, GoodViewIs
  <2> QED
    BY <1>5, <2>1
<1>9. Inserted(t, items, x)
  BY <1>3, <1>5, <1>6, <1>7, <1>8, InsertedIs
<1>10. Fits(u, target, x)
  <2>1. \A y \in ToSet(x.slots) : y.id \in SlotIds(t) \/ y.id \notin Keyed(u)
    BY <1>4, <1>5, <1>9, SessionSlotIs DEF Inserted, SlotIds
  <2> QED
    BY <1>3, <1>4, <1>9, <2>1 DEF Inserted, Fits
<1>11. x.slots # <<>>
  <2>1. SessionSlot(s) \in ToSet(x.slots)
    BY <1>5, <1>9 DEF Inserted
  <2>2. ToSet(<<>>) = {}
    BY DEF ToSet
  <2> QED
    BY <2>1, <2>2
<1>12. r = Put(u, x)
  BY <1>2, <1>4, <1>5, <1>6 DEF MoveSessionToView
<1>13. Sound(r) /\ Edited(u, target, x, r)
  BY <1>4, <1>10, <1>11, <1>12, PutFits
<1>14. Slotted(r) = (Slotted(u) \ ToSet(t.slots)) \cup ToSet(x.slots)
  BY <1>4, <1>13 DEF Edited
<1>15. EditorsKept(w, r)
  BY <1>4, <1>9, <1>14, NotEditor DEF EditorsKept, Inserted
<1> QED
  BY <1>13, <1>15

(* The focus goes to a session.                                            *)
LEMMA FocusingKeeps ==
  ASSUME NEW w, Sound(w), NEW s \in Sessions, NEW r, r = FocusSession(w, s)
  PROVE  Sound(r) /\ EditorsKept(w, r)
<1>1. Stands(w)
  BY DEF Sound, Firm
<1>2. CASE s \notin Keyed(w)
  <2>1. r = w
    BY <1>1, <1>2, PlaceIs DEF FocusSession
  <2> QED
    BY <2>1 DEF EditorsKept
<1>3. CASE s \in Keyed(w)
  <2>1. PICK v : v = ViewOfSession(w, s)
    OBVIOUS
  <2>2. PICK i : i = IndexOfSlot(v, s)
    OBVIOUS
  <2>3. v \in ToSet(w.vs) /\ i \in 1..Len(v.slots)
    BY <1>1, <1>3, <2>1, <2>2, PlaceIs
  <2>4. v \in GoodViews /\ Has(w, v.id) /\ View(w, v.id) = v
    BY <1>1, <2>3, TabsAre
  <2>5. PICK x : x = [v EXCEPT !.focused = i]
    OBVIOUS
  <2>6. x \in GoodViews /\ x.id = v.id /\ x.root = v.root /\ x.slots = v.slots
    BY <2>3, <2>4, <2>5, FocusIs
  <2>7. Fits(w, v.id, x) /\ x.slots # <<>>
    BY <2>3, <2>4, <2>6, SlotOf DEF Fits, SlotIds
  <2>8. r = Activate(Put(w, x), v.id)
    BY <1>1, <1>3, <2>1, <2>2, <2>5, PlaceIs DEF FocusSession
  <2>9. Sound(r) /\ Edited(w, v.id, x, Put(w, x)) /\ r.vs = Put(w, x).vs
    BY <2>4, <2>7, <2>8, ShownFits
  <2>10. EditorsKept(w, Put(w, x))
    BY <2>4, <2>6, <2>9, PutKeepsEditors
  <2>11. Slotted(r) = Slotted(Put(w, x))
    BY <2>9 DEF Slotted
  <2> QED
    BY <2>9, <2>10, <2>11 DEF EditorsKept
<1> QED
  BY <1>2, <1>3

(* A session without a place gets a tab of its own.                        *)
Gave(w, s, r) ==
  /\ Stands(r) /\ Filled(r) /\ (Firm(w) => Firm(r)) /\ EditorsKept(w, r)
  /\ ToSet(w.vs) \subseteq ToSet(r.vs) /\ r.active = w.active
  /\ s \in Keyed(r) /\ Keyed(w) \subseteq Keyed(r)
LEMMA GivenKeeps ==
  ASSUME NEW w, Stands(w), Filled(w), NEW s \in Sessions, NEW r, r = Given(w, s)
  PROVE  Gave(w, s, r)
<1>1. CASE s \in Keyed(w)
  <2>1. r = w
    BY <1>1, PlaceIs DEF Given
  <2> QED
    BY <1>1, <2>1 DEF EditorsKept, Gave
<1>2. CASE s \notin Keyed(w)
  <2>1. PICK q \in Seq(GoodSlots) : q = <<SessionSlot(s)>> /\ Len(q) = 1 /\ Apart(q) /\ ToSet(q) = {SessionSlot(s)}
    BY SessionSlotIs
  <2>2. PICK v : v = NewView(w, None, q)
    OBVIOUS
  <2>3. Fresh(w, None, q, v)
    <3>1. \A t \in ToSet(q) : t.id \notin Keyed(w)
      BY <1>2, <2>1, SessionSlotIs
    <3>2. w \in Desks /\ None \in Roots /\ Len(q) <= 4
      BY <2>1 DEF Stands, Roots
    <3> QED
      BY <2>1, <2>2, <3>1, <3>2, NewViewIs
  <2>4. r = PushView(w, v)
    BY <1>2, <2>1, <2>2, PlaceIs DEF Given
  <2>5. v.root # Home /\ New(w.vs, v)
    BY <2>3, WorkspaceAssumption DEF Fresh
  <2>6. Joins(w, v, r)
    BY <2>4, <2>5, JoinsIs
  <2>7. ~Bare(v)
    <3>1. q # <<>>
      BY ONLY <2>1, Len(<<>>) = 0
    <3> QED
      BY <2>3, <3>1 DEF Fresh, Bare
  <2>8. Stands(r) /\ Filled(r) /\ (Firm(w) => Firm(r)) /\ ToSet(r.vs) = ToSet(w.vs) \cup {v} /\ r.active = w.active /\ EditorsKept(w, r)
    BY <2>6, <2>7 DEF Joins, EditorsKept
  <2>9. s \in Keyed(r) /\ Keyed(w) \subseteq Keyed(r)
    <3>1. s \in SlotIds(v)
      BY <2>1, <2>3, SessionSlotIs DEF Fresh, SlotIds
    <3> QED
      BY <2>8, <3>1 DEF Keyed
  <2> QED
    BY <2>8, <2>9 DEF Gave
<1> QED
  BY <1>1, <1>2

(* A session gets a tab of its own out of one with others.                 *)
LEMMA ExtractingKeeps ==
  ASSUME NEW w, Sound(w), NEW id, Has(w, id), NEW i \in 1..Len(View(w, id).slots), i \notin Editors(View(w, id)),
         Len(View(w, id).slots) > 1, NEW at \in Int, NEW r, r = ExtractSession(w, View(w, id).slots[i].id, at)
  PROVE  Sound(r) /\ EditorsKept(w, r)
<1>1. Stands(w)
  BY DEF Sound, Firm
<1>2. PICK v : v = View(w, id) /\ v \in GoodViews /\ v \in ToSet(w.vs)
  BY SoundTabs
<1>3. PICK s : s = v.slots[i].id
  OBVIOUS
<1>4. v.slots[i] \in GoodSlots /\ v.slots[i] \in ToSet(v.slots) /\ s \in SlotIds(v)
  BY <1>2, <1>3, SlotOf
<1>5. s \in Sessions /\ v.slots[i] = SessionSlot(s)
  <2>1. ~IsEditor(v.slots[i])
    BY <1>2, GoodViewIs DEF Editors
  <2> QED
    BY <1>3, <1>4, <2>1, SlotIs DEF IsEditor
<1>6. s \in Keyed(w)
  BY <1>2, <1>4 DEF Keyed
<1>7. v = ViewOfSession(w, s) /\ IndexOfSlot(v, s) \in 1..Len(v.slots) /\ v.slots[IndexOfSlot(v, s)] = SessionSlot(s)
  BY <1>1, <1>2, <1>4, <1>5, <1>6, PlaceIs
<1>8. PICK j \in 1..Len(v.slots) : j = IndexOfSlot(v, s)
  BY <1>7
<1>9. PICK x : x = RemoveAtSlot(v, j)
  OBVIOUS
<1>10. /\ Fits(w, id, x) /\ Len(x.slots) = Len(v.slots) - 1
       /\ ToSet(x.slots) = ToSet(v.slots) \ {SessionSlot(s)}
  <2>1. Within(w, id, v)
    BY <1>2, WithinStarts
  <2>2. Within(w, id, x) /\ Removed(v, j, x)
    BY <1>9, <2>1, WithinRemove
  <2>3. v.slots[j] = SessionSlot(s)
    BY <1>7, <1>8
  <2> QED
    BY <2>2, <2>3, WithinFits DEF Removed
<1>11. x.slots # <<>>
  <2>1. PICK n \in Nat : n = Len(v.slots)
    BY <1>2, GoodViewIs
  <2>2. n > 1
    BY <1>2, <2>1
  <2>3. Len(x.slots) = n - 1
    BY <1>10, <2>1
  <2>4. Len(x.slots) # 0
    BY ONLY <2>2, <2>3, n \in Nat
  <2> QED
    BY ONLY <2>4, Len(<<>>) = 0
<1>12. PICK u : u = Put(w, x)
  OBVIOUS
<1>13. Sound(u) /\ Edited(w, id, x, u)
  BY <1>10, <1>11, <1>12, PutFits
<1>14. Slotted(u) = Slotted(w) \ {SessionSlot(s)}
  <2>1. Slotted(u) = (Slotted(w) \ ToSet(v.slots)) \cup ToSet(x.slots)
    BY <1>2, <1>13 DEF Edited
  <2>2. ToSet(v.slots) \subseteq Slotted(w) /\ SessionSlot(s) \in ToSet(v.slots)
    BY <1>1, <1>2, <1>4, <1>5, SlotApart
  <2> QED
    BY ONLY <1>10, <2>1, <2>2
<1>15. Stands(u) /\ Filled(u) /\ Firm(u)
  BY <1>13 DEF Sound, Firm
<1>16. s \notin Keyed(u)
  <2> SUFFICES ASSUME s \in Keyed(u) PROVE FALSE
    OBVIOUS
  <2>1. PICK t \in Slotted(u) : t.id = s
    BY <1>15, SlotApart
  <2>2. t \in Slotted(w) /\ SessionSlot(s) \in Slotted(w) /\ SessionSlot(s).id = s
    <3>1. ToSet(v.slots) \subseteq Slotted(w)
      BY <1>1, <1>2, SlotApart
    <3>2. t \in Slotted(w) /\ SessionSlot(s) \in Slotted(w)
      BY <1>4, <1>5, <1>14, <2>1, <3>1
    <3> QED
      BY <1>5, <3>2, SessionSlotIs
  <2>3. t = SessionSlot(s)
    BY <1>1, <2>1, <2>2, SlotApart
  <2> QED
    BY <1>14, <2>1, <2>3
<1>17. PICK q \in Seq(GoodSlots) : q = <<SessionSlot(s)>> /\ Len(q) = 1 /\ Apart(q) /\ ToSet(q) = {SessionSlot(s)}
  BY <1>5, SessionSlotIs
<1>18. PICK y : y = NewView(u, None, q)
  OBVIOUS
<1>19. Fresh(u, None, q, y)
  <2>1. \A t \in ToSet(q) : t.id \notin Keyed(u)
    BY <1>5, <1>16, <1>17, SessionSlotIs
  <2>2. u \in Desks /\ None \in Roots /\ Len(q) <= 4
    BY <1>15, <1>17 DEF Stands, Roots
  <2> QED
    BY <1>17, <1>18, <2>1, <2>2, NewViewIs
<1>20. r = InsertView(u, at, y)
  BY <1>2, <1>3, <1>7, <1>8, <1>9, <1>12, <1>17, <1>18 DEF ExtractSession
<1>21. y.root # Home /\ New(u.vs, y)
  BY <1>19, WorkspaceAssumption DEF Fresh
<1>22. Joins(u, y, r)
  BY <1>15, <1>20, <1>21, JoinsIs
<1>23. ~Bare(y)
  <2>1. q # <<>>
    BY ONLY <1>17, Len(<<>>) = 0
  <2> QED
    BY <1>19, <2>1 DEF Fresh, Bare
<1>24. Sound(r)
  BY <1>15, <1>22, <1>23 DEF Joins, Sound
<1>25. EditorsKept(w, r)
  BY <1>5, <1>14, <1>22, NotEditor DEF EditorsKept, Joins
<1> QED
  BY <1>24, <1>25

(* The tabs in another order.                                              *)
LEMMA SameTabs ==
  ASSUME NEW w, Sound(w), NEW r, r \in Desks, Laid(r.vs), Len(r.vs) >= 1, r.active = w.active, ToSet(r.vs) = ToSet(w.vs)
  PROVE  Sound(r) /\ EditorsKept(w, r)
<1>1. Stands(w) /\ Has(w, w.active) /\ Filled(w)
  BY DEF Sound, Firm
<1>2. Stands(r)
  BY DEF Stands
<1>3. PICK v \in ToSet(w.vs) : v.id = w.active
  BY <1>1, TabsAre
<1>4. Has(r, r.active)
  BY <1>2, <1>3, TabsAre
<1>5. Slotted(r) = Slotted(w)
  BY DEF Slotted
<1> QED
  BY <1>1, <1>2, <1>4, <1>5 DEF Sound, Firm, Filled, EditorsKept

LEMMA ReorderingKeeps ==
  ASSUME NEW w, Sound(w), NEW id, Has(w, id), View(w, id).root # Home, NEW to \in Int, NEW r, r = ReorderView(w, id, to)
  PROVE  Sound(r) /\ EditorsKept(w, r)
<1>1. Stands(w) /\ w \in Desks /\ Laid(w.vs) /\ Len(w.vs) >= 1
  BY DEF Sound, Firm, Stands
<1>2. PICK vs \in Seq(GoodViews), n \in Nat : vs = w.vs /\ n = Len(vs) /\ DOMAIN vs = 1..n /\ Laid(vs)
  BY <1>1 DEF Laid
<1>3. PICK v : v = View(w, id) /\ v \in ToSet(w.vs) /\ v \in GoodViews
  BY SoundTabs
<1>4. PICK i : i = At(w, id)
  OBVIOUS
<1>5. i \in 1..n /\ v = vs[i]
  <2>1. w.vs \in Seq(GoodViews) /\ Apart(w.vs)
    BY <1>1 DEF Laid
  <2> QED
    BY <1>2, <1>3, <1>4, <2>1, AtIs DEF View
<1>6. i # 1
  BY <1>2, <1>3, <1>5 DEF Laid, Homed
<1>7. i \in 2..Len(vs)
  BY ONLY <1>2, <1>5, <1>6, n \in Nat
<1>8. PICK us : us = RemoveAt(vs, i)
  OBVIOUS
<1>9. Laid(us) /\ Len(us) = Len(vs) - 1 /\ Len(us) >= 1 /\ ToSet(us) = ToSet(vs) \ {vs[i]}
  BY <1>2, <1>7, <1>8, TakenOut
<1>10. PICK a \in Int : a = IF to > i THEN to - 1 ELSE to
  BY <1>7
<1>11. PICK k : k = Clamp(2, a, n)
  OBVIOUS
<1>12. k \in 2..n
  <2>1. 2 <= n
    BY ONLY <1>2, <1>7, n \in Nat
  <2> QED
    BY ONLY <1>11, <2>1, ClampIs, n \in Nat, a \in Int
<1>13. New(us, v)
  <2> SUFFICES ASSUME NEW u \in ToSet(us) PROVE u.id # v.id /\ SlotIds(u) \cap SlotIds(v) = {}
    BY <1>3 DEF New
  <2>1. u \in ToSet(w.vs) /\ u # v
    BY <1>2, <1>5, <1>9
  <2>2. u.id # v.id
    BY <1>1, <1>3, <2>1, TabsAre
  <2> QED
    BY <1>1, <1>3, <2>1, <2>2 DEF Laid, Separate
<1>14. PICK zs : zs = InsertAt(us, k, v)
  OBVIOUS
<1>15. Laid(zs) /\ Len(zs) = Len(us) + 1 /\ ToSet(zs) = ToSet(us) \cup {v}
  <2>1. k \in 1..(Len(us) + 1) /\ k # 1
    BY ONLY <1>2, <1>9, <1>12, n \in Nat
  <2>2. v.root # Home
    BY <1>3
  <2> QED
    BY <1>9, <1>13, <1>14, <2>1, <2>2, PutIn
<1>16. r = [w EXCEPT !.vs = zs]
  BY <1>2, <1>3, <1>4, <1>8, <1>10, <1>11, <1>14 DEF ReorderView, FirstMovableIndex
<1>17. r \in Desks /\ r.vs = zs /\ r.active = w.active
  BY <1>1, <1>15, <1>16 DEF Desks, Laid
<1>18. ToSet(zs) = ToSet(vs)
  BY <1>2, <1>3, <1>5, <1>9, <1>15
<1>19. Len(zs) >= 1
  <2>1. PICK m \in Nat : m = Len(us)
    BY <1>9 DEF Laid
  <2> QED
    BY <1>15, <2>1
<1> QED
  BY <1>2, <1>15, <1>17, <1>18, <1>19, SameTabs

(* One element in the place of another, or behind the last.                *)
Exchange(q, i, e, m) == SubSeq(q, 1, i - 1) \o <<e>> \o SubSeq(q, i + 1, m)
Exchanged(S, q, m, i, e, p) ==
  /\ p \in Seq(S) /\ Len(p) = (IF i = m + 1 THEN m + 1 ELSE m) /\ p[i] = e
  /\ \A k \in 1..Len(p) : k # i => k \in 1..m /\ p[k] = q[k]
LEMMA ExchangedIs ==
  ASSUME NEW S, NEW q \in Seq(S), NEW m \in Nat, m = Len(q), NEW i \in 1..m + 1, NEW e \in S, NEW p, p = Exchange(q, i, e, m)
  PROVE  Exchanged(S, q, m, i, e, p)
<1>1. PICK a \in Seq(S) : a = SubSeq(q, 1, i - 1) /\ Len(a) = i - 1 /\ \A k \in 1..i - 1 : a[k] = q[k]
  <2>1. PICK j \in Nat : j = i - 1 /\ 1 <= j + 1 /\ j <= Len(q) /\ 1 \in Nat
    OBVIOUS
  <2>2. SubSeq(q, 1, j) \in Seq(S) /\ Len(SubSeq(q, 1, j)) = j + 1 - 1 /\ \A k \in 1..j + 1 - 1 : SubSeq(q, 1, j)[k] = q[1 + k - 1]
    BY ONLY <2>1, q \in Seq(S), Piece
  <2>3. j + 1 - 1 = j /\ \A k \in 1..j : 1 + k - 1 = k
    BY ONLY j \in Nat
  <2> QED
    BY ONLY ZenonT(40), <2>1, <2>2, <2>3
<1>2. PICK l \in Nat : l = i - 1
  OBVIOUS
<1>3. CASE i = m + 1
  <2>1. SubSeq(q, i + 1, m) = <<>>
    BY ONLY <1>3, SubSeqEmpty, m \in Nat
  <2>2. <<>> \in Seq(S) /\ Len(<<>>) = 0
    OBVIOUS
  <2>3. p = a \o <<e>> \o <<>>
    BY ONLY <1>1, <2>1, p = Exchange(q, i, e, m) DEF Exchange
  <2>4. p \in Seq(S) /\ Len(p) = Len(a) + 1 + 0 /\ (\A k \in 1..Len(a) : p[k] = a[k]) /\ p[Len(a) + 1] = e
    BY ONLY <2>2, <2>3, a \in Seq(S), e \in S, Between
  <2>5. Len(a) = m
    BY ONLY <1>1, <1>3, m \in Nat
  <2>6. Len(p) = m + 1 /\ (\A k \in 1..m : p[k] = a[k]) /\ p[m + 1] = e
    BY ONLY <2>4, <2>5, m \in Nat
  <2>7. \A k \in 1..m : a[k] = q[k]
    BY ONLY <1>1, <1>3, m \in Nat
  <2> QED
    BY ONLY <1>3, <2>4, <2>6, <2>7, m \in Nat DEF Exchanged
<1>4. CASE i # m + 1
  <2>1. i \in 1..m
    BY ONLY <1>4, m \in Nat, i \in 1..m + 1
  <2>2. PICK h \in Nat : h = i + 1 /\ 1 <= h /\ h <= m + 1 /\ m <= Len(q)
    BY ONLY <2>1, m \in Nat, m = Len(q)
  <2>3. PICK b \in Seq(S) : b = SubSeq(q, i + 1, m) /\ Len(b) = m + 1 - h /\ \A k \in 1..m + 1 - h : b[k] = q[h + k - 1]
    <3>1. SubSeq(q, h, m) \in Seq(S) /\ Len(SubSeq(q, h, m)) = m + 1 - h /\ \A k \in 1..m + 1 - h : SubSeq(q, h, m)[k] = q[h + k - 1]
      BY ONLY <2>2, q \in Seq(S), m \in Nat, Piece
    <3> QED
      BY ONLY <2>2, <3>1
  <2>4. PICK g \in Nat : g = m - i
    BY ONLY <2>1, m \in Nat
  <2>5. Len(b) = g /\ \A k \in 1..g : b[k] = q[i + k]
    <3>1. m + 1 - h = g /\ \A k \in 1..g : h + k - 1 = i + k
      BY ONLY <2>1, <2>2, <2>4, m \in Nat
    <3> QED
      BY ONLY <2>3, <3>1
  <2>6. p = a \o <<e>> \o b
    BY ONLY <1>1, <2>3, p = Exchange(q, i, e, m) DEF Exchange
  <2>7. /\ p \in Seq(S) /\ Len(p) = Len(a) + 1 + Len(b) /\ (\A k \in 1..Len(a) : p[k] = a[k]) /\ p[Len(a) + 1] = e
        /\ \A k \in 1..Len(b) : p[Len(a) + 1 + k] = b[k]
    BY ONLY <2>6, a \in Seq(S), b \in Seq(S), e \in S, Between
  <2>8. Len(a) = l
    BY ONLY <1>1, <1>2
  <2>9. Len(p) = l + 1 + g /\ (\A k \in 1..l : p[k] = a[k]) /\ p[l + 1] = e /\ \A k \in 1..g : p[l + 1 + k] = b[k]
    BY ONLY <2>5, <2>7, <2>8
  <2>10. l + 1 + g = m /\ l + 1 = i
    BY ONLY <1>2, <2>1, <2>4, m \in Nat
  <2>11. ASSUME NEW k \in 1..m, k # i PROVE p[k] = q[k]
    <3>1. CASE k < i
      <4>1. k \in 1..l /\ k \in 1..i - 1
        BY ONLY <1>2, <2>1, <3>1, k \in 1..m, m \in Nat
      <4> QED
        BY ONLY <1>1, <2>9, <4>1
    <3>2. CASE ~(k < i)
      <4>1. PICK j \in 1..g : j = k - i
        BY ONLY <2>1, <2>4, <2>11, <3>2, m \in Nat
      <4>2. l + 1 + j = k /\ i + j = k
        BY ONLY <1>2, <2>1, <4>1, k \in 1..m, m \in Nat, l \in Nat
      <4> QED
        BY ONLY ZenonT(40), <2>5, <2>9, <4>1, <4>2
    <3> QED
      BY <3>1, <3>2
  <2>12. Len(p) = m /\ p[i] = e
    BY ONLY <2>9, <2>10
  <2> QED
    BY ONLY <1>4, <2>7, <2>11, <2>12 DEF Exchanged
<1> QED
  BY <1>3, <1>4

(* A session is put in the place of another, or of a file pane.            *)
LEMMA ReplacingKeeps ==
  ASSUME NEW w, Sound(w), NEW s \in Sessions, NEW id, NEW slot, NEW r, r = ReplaceSessionInView(w, id, slot, s)
  PROVE  Sound(r)
<1>1. Stands(w) /\ Filled(w) /\ Firm(w)
  BY DEF Sound, Firm
<1>2. CASE ~Has(w, id) \/ slot \notin DOMAIN View(w, id).slots \/ slot \in Editors(View(w, id))
  BY <1>2 DEF ReplaceSessionInView
<1>3. CASE ~(~Has(w, id) \/ slot \notin DOMAIN View(w, id).slots \/ slot \in Editors(View(w, id)))
  <2>1. PICK v : v = View(w, id) /\ v \in GoodViews
    BY <1>3, SoundTabs
  <2>2. PICK n \in Nat : n = Len(v.slots) /\ n <= 4 /\ slot \in 1..n
    BY <1>3, <2>1, GoodViewIs
  <2>3. PICK u : u = DetachFromViews(w, s)
    OBVIOUS
  <2>4. Stands(u) /\ Filled(u) /\ Firm(u) /\ s \notin Keyed(u)
    BY <1>1, <2>3, DetachIs
  <2>5. Sound(u)
    BY <2>4 DEF Sound
  <2>6. CASE ~Has(u, id)
    <3>1. r = u
      BY <1>3, <2>3, <2>6 DEF ReplaceSessionInView
    <3> QED
      BY <2>5, <3>1
  <2>7. CASE Has(u, id)
    <3>1. PICK y : y = View(u, id) /\ y \in GoodViews /\ y \in ToSet(u.vs) /\ y.id = id
      BY <2>5, <2>7, SoundTabs
    <3>2. PICK q \in Seq(GoodSlots), m \in Nat :
            q = y.slots /\ m = Len(q) /\ DOMAIN q = 1..m /\ m <= 4 /\ Apart(q) /\ InFocus(y) /\ y \in ViewsOf(GoodSlots)
      BY <3>1 DEF GoodViews, ViewsOf
    <3>3. slot \in 1..m + 1
      <4>1. Len(y.slots) = Len(v.slots) \/ Len(y.slots) = Len(v.slots) - 1
        BY <1>1, <2>1, <2>3, <2>7, <3>1, DetachIs
      <4>2. m = n \/ m = n - 1
        BY ONLY <2>2, <3>2, <4>1
      <4> QED
        BY ONLY <2>2, <4>2, n \in Nat, m \in Nat
    <3>4. PICK e \in GoodSlots : e = SessionSlot(s) /\ e.id = s
      BY SessionSlotIs
    <3>5. PICK p : p = Exchange(q, slot, e, m)
      OBVIOUS
    <3>6. Exchanged(GoodSlots, q, m, slot, e, p)
      BY ONLY <3>2, <3>3, <3>5, ExchangedIs, e \in GoodSlots, q \in Seq(GoodSlots), m \in Nat
    <3>7. p \in Seq(GoodSlots) /\ p[slot] = e /\ \A k \in 1..Len(p) : k # slot => k \in 1..m /\ p[k] = q[k]
      BY <3>6 DEF Exchanged
    <3>8. PICK l \in Nat : l = Len(p) /\ DOMAIN p = 1..l
      BY <3>7
    <3>9. l <= 4 /\ m <= l /\ slot \in 1..l
      <4>1. l = IF slot = m + 1 THEN m + 1 ELSE m
        BY ONLY <3>6, <3>8 DEF Exchanged
      <4> QED
        BY ONLY <2>2, <3>2, <3>3, <4>1, n \in Nat, m \in Nat
    <3>10. \A k \in 1..m : q[k].id \in SlotIds(y) /\ q[k].id # s
      <4>1. \A k \in 1..m : q[k] \in ToSet(y.slots)
        BY <3>2 DEF ToSet
      <4>2. SlotIds(y) \subseteq Keyed(u)
        BY <3>1 DEF Keyed
      <4> QED
        BY <2>4, <4>1, <4>2 DEF SlotIds
    <3>11. Apart(p)
      <4> SUFFICES ASSUME NEW k \in 1..l, NEW j \in 1..l, p[k].id = p[j].id PROVE k = j
        BY <3>8 DEF Apart
      <4>1. k # slot => k \in 1..m /\ p[k] = q[k]
        BY <3>7, <3>8
      <4>2. j # slot => j \in 1..m /\ p[j] = q[j]
        BY <3>7, <3>8
      <4>3. p[slot].id = s
        BY <3>4, <3>7
      <4> QED
        BY <3>2, <3>10, <4>1, <4>2, <4>3 DEF Apart
    <3>12. PICK f : f = y.focused
      OBVIOUS
    <3>13. f \in 1..4 /\ (f = 1 \/ f <= l)
      <4>1. f \in 1..4 /\ (f = 1 \/ f <= m)
        BY ONLY <3>2, <3>12 DEF InFocus
      <4> QED
        BY ONLY <3>9, <4>1, l \in Nat, m \in Nat
    <3>14. PICK x : x = Refill(y, p, f)
      OBVIOUS
    <3>15. x \in GoodViews /\ x.id = y.id /\ x.root = y.root /\ x.slots = p
      <4>1. p \in Seq(GoodSlots) /\ y \in GoodViews
        BY <3>1, <3>7
      <4> QED
        BY ONLY SMTT(40), <3>8, <3>9, <3>11, <3>13, <3>14, <4>1, l \in Nat, Refilled
    <3>16. Fits(u, id, x)
      <4>1. ASSUME NEW t \in ToSet(p) PROVE t.id \in SlotIds(y) \/ t.id \notin Keyed(u)
        <5>1. PICK k \in 1..l : p[k] = t
          BY <3>8 DEF ToSet
        <5> QED
          BY <2>4, <3>4, <3>7, <3>8, <3>10, <5>1
      <4> QED
        BY <3>1, <3>15, <4>1 DEF Fits
    <3>17. x.slots # <<>>
      <4>1. l # 0
        BY ONLY <3>9, l \in Nat
      <4> QED
        BY <3>8, <3>15, <4>1
    <3>18. r = Put(u, x)
      <4>1. x = [View(u, id) EXCEPT !.slots = SubSeq(@, 1, slot - 1) \o <<SessionSlot(s)>> \o SubSeq(@, slot + 1, Len(@))]
        BY <3>1, <3>2, <3>4, <3>5, <3>12, <3>14 DEF Refill, Exchange, ViewsOf
      <4> QED
        BY <1>3, <2>3, <2>7, <4>1 DEF ReplaceSessionInView
    <3> QED
      BY <2>5, <2>7, <3>16, <3>17, <3>18, PutFits
  <2> QED
    BY <2>6, <2>7
<1> QED
  BY <1>2, <1>3

(* Another pane has the focus.                                             *)
LEMMA FocusSlotKeeps ==
  ASSUME NEW w, Sound(w), NEW id, Has(w, id), NEW i \in 1..Len(View(w, id).slots),
         NEW r, r = Put(w, [View(w, id) EXCEPT !.focused = i])
  PROVE  Sound(r) /\ EditorsKept(w, r)
<1>1. PICK v : v = View(w, id) /\ v \in GoodViews /\ v.id = id
  BY SoundTabs
<1>2. PICK x : x = [v EXCEPT !.focused = i]
  OBVIOUS
<1>3. x \in GoodViews /\ x.id = v.id /\ x.root = v.root /\ x.slots = v.slots
  BY <1>1, <1>2, FocusIs
<1>4. Fits(w, id, x) /\ x.slots # <<>>
  BY <1>1, <1>3, SlotOf DEF Fits, SlotIds
<1>5. Sound(r) /\ Edited(w, id, x, r)
  BY <1>1, <1>2, <1>4, PutFits
<1> QED
  BY <1>1, <1>3, <1>5, PutKeepsEditors

(* The files that have a tab.                                              *)
LEMMA OpenFilesAre ==
  ASSUME NEW w, Stands(w)
  PROVE  \A f : f \in OpenFiles(w.vs) <=> \E s \in Slotted(w) : IsEditor(s) /\ f \in ToSet(s.tabs)
<1>1. ASSUME NEW v \in ToSet(w.vs), NEW f PROVE f \in FileTabs(v) <=> \E s \in ToSet(v.slots) : IsEditor(s) /\ f \in ToSet(s.tabs)
  <2>1. PICK q \in Seq(GoodSlots) : q = v.slots
    BY TabsAre, GoodViewIs
  <2>2. ToSet(q) = {q[i] : i \in DOMAIN q}
    BY DEF ToSet
  <2> QED
    BY <2>1, <2>2 DEF FileTabs, Editors
<1> QED
  BY <1>1 DEF OpenFiles, Slotted

FilesKept(w, r) == OpenFiles(w.vs) \subseteq OpenFiles(r.vs)
LEMMA KeptFiles ==
  ASSUME NEW w, Sound(w), NEW r, Sound(r), EditorsKept(w, r)
  PROVE  FilesKept(w, r)
<1>1. Stands(w) /\ Stands(r)
  BY DEF Sound, Firm
<1>2. ASSUME NEW f \in OpenFiles(w.vs) PROVE f \in OpenFiles(r.vs)
  <2>1. PICK s \in Slotted(w) : IsEditor(s) /\ f \in ToSet(s.tabs)
    BY <1>1, OpenFilesAre
  <2>2. s \in Slotted(r)
    BY <2>1 DEF EditorsKept
  <2> QED
    BY <1>1, <2>1, <2>2, OpenFilesAre
<1> QED
  BY <1>2 DEF FilesKept

(* Another tab of an editor slot is shown.                                 *)
LEMMA RaisingKeeps ==
  ASSUME NEW w, Sound(w), NEW id, Has(w, id), NEW i \in Editors(View(w, id)), NEW t \in DOMAIN View(w, id).slots[i].tabs,
         NEW r, r = Put(w, [View(w, id) EXCEPT !.slots[i] = Raised(View(w, id).slots[i], t)])
  PROVE  Sound(r) /\ FilesKept(w, r)
<1>1. PICK v : v = View(w, id) /\ v \in GoodViews /\ v.id = id
  BY SoundTabs
<1>2. i \in 1..Len(v.slots) /\ IsEditor(v.slots[i])
  BY <1>1, EditorOf
<1>3. PICK s \in GoodSlots : s = v.slots[i] /\ IsEditor(s) /\ Strip(s) /\ s.tabs \in Seq(Files \cup Diffs) /\ t \in 1..Len(s.tabs)
  BY <1>1, EditorOf
<1>4. PICK z : z = Raised(s, t)
  OBVIOUS
<1>5. z \in GoodSlots /\ IsEditor(z) /\ z.id = s.id /\ z.tabs = s.tabs
  <2>1. s \in SlotT /\ t \in Nat
    BY <1>3 DEF GoodSlots
  <2>2. z \in SlotT /\ z.id = s.id /\ z.tabs = s.tabs /\ z.active = t
    BY <1>4, <2>1 DEF Raised, SlotT
  <2>3. Strip(z)
    BY <1>3, <2>2 DEF Strip
  <2> QED
    BY <1>3, <2>2, <2>3, StripIs DEF IsEditor
<1>6. PICK x : x = Reslot(v, i, z)
  OBVIOUS
<1>7. Fits(w, id, x) /\ x.slots # <<>> /\ ToSet(x.slots) = (ToSet(v.slots) \ {s}) \cup {z}
  <2>1. Within(w, id, v)
    BY <1>1, WithinStarts
  <2>2. Within(w, id, x) /\ Reslotted(v, i, z, x) /\ x.slots # <<>>
    <3>1. z.id = v.slots[i].id
      BY <1>3, <1>5
    <3> QED
      BY <1>2, <1>5, <1>6, <2>1, <3>1, WithinReslot
  <2> QED
    BY <1>3, <2>2, WithinFits DEF Reslotted
<1>8. r = Put(w, x)
  BY <1>1, <1>3, <1>4, <1>6 DEF Reslot
<1>9. Sound(r) /\ Edited(w, id, x, r)
  BY <1>7, <1>8, PutFits
<1>10. Stands(w) /\ Stands(r)
  BY <1>9 DEF Sound, Firm
<1>11. ASSUME NEW f \in OpenFiles(w.vs) PROVE f \in OpenFiles(r.vs)
  <2>1. PICK y \in Slotted(w) : IsEditor(y) /\ f \in ToSet(y.tabs)
    BY <1>10, OpenFilesAre
  <2>2. Slotted(r) = (Slotted(w) \ ToSet(v.slots)) \cup ToSet(x.slots)
    BY <1>1, <1>9 DEF Edited
  <2>3. y = s \/ y \in Slotted(r)
    BY <1>7, <2>2
  <2>4. z \in Slotted(r) /\ (y = s => f \in ToSet(z.tabs))
    BY <1>5, <1>7, <2>1, <2>2
  <2> QED
    BY <1>5, <1>10, <2>1, <2>3, <2>4, OpenFilesAre
<1> QED
  BY <1>9, <1>11 DEF FilesKept

-----------------------------------------------------------------------------
(***************************************************************************)
(* A file gets another name                                                *)
(***************************************************************************)
Name(from, to, t) == IF t = from THEN to ELSE t
Names(T, from, to) == [t \in T |-> IF t = from THEN to ELSE t]
FollowStep(c, u, t) == IF c[t] \in ToSet(u) THEN u ELSE Append(u, c[t])
Follows == INSTANCE FoldProofs WITH Op <- LAMBDA c, x, y : FollowStep(c, x, y)
FollowedIn(s, tabs, name) ==
  [s EXCEPT !.tabs = tabs, !.active = SelectInSeq(tabs, LAMBDA t : t = name[s.tabs[s.active]])]
LEMMA FollowedIsAFold ==
  ASSUME NEW s, NEW from, NEW to, from \in ToSet(s.tabs)
  PROVE  Followed(s, from, to) =
           FollowedIn(s, Follows!Folded(Names(ToSet(s.tabs), from, to), <<>>, s.tabs), Names(ToSet(s.tabs), from, to))
BY Zenon DEF Followed, FollowedIn, FollowStep, Names, Follows!Folded, FoldLeft, MapThenFoldSet, Max, Follows!MapThenFoldSet, Follows!Greatest

(* The names after it, each once.                                          *)
Traced(c, n, t, m, u) ==
  /\ u \in Seq(Files \cup Diffs) /\ m = Len(u) /\ m <= n /\ Distinct(m, u)
  /\ \A k \in 1..n : \E l \in 1..m : u[l] = c[t[k]]
LEMMA TracedIs ==
  ASSUME NEW t \in Seq(Files \cup Diffs), NEW n \in Nat, n = Len(t), NEW c, \A x \in ToSet(t) : c[x] \in Files \cup Diffs,
         NEW u, u = Follows!Folded(c, <<>>, t)
  PROVE  \E m \in Nat : Traced(c, n, t, m, u)
<1>1. PICK S : S = Files \cup Diffs
  OBVIOUS
<1>2. \A x \in ToSet(t) : c[x] \in S
  BY <1>1
<1>3. PICK f : Follows!Accumulates(c, f, <<>>, t) /\ u = f[Len(t)]
  BY Follows!FoldGoes
<1> DEFINE P(i) == i <= n => \E m \in Nat : Traced(c, i, t, m, f[i])
           T == {i \in Nat : P(i)}
<1>4. P(0)
  <2>1. f[0] = <<>>
    BY <1>3 DEF Follows!Accumulates
  <2>2. <<>> \in Seq(Files \cup Diffs) /\ Len(<<>>) = 0 /\ 0 \in Nat /\ 1..0 = {} /\ 0 <= 0
    OBVIOUS
  <2>3. Traced(c, 0, t, 0, <<>>)
    BY <2>2 DEF Traced, Distinct
  <2> QED
    BY <2>1, <2>2, <2>3
<1>5. ASSUME NEW i \in Nat, P(i), i + 1 <= n PROVE \E m \in Nat : Traced(c, i + 1, t, m, f[i + 1])
  <2>1. i + 1 \in 1..n /\ (i + 1) - 1 = i /\ i <= n
    BY <1>5
  <2>2. PICK x \in ToSet(t) : x = t[i + 1]
    BY <2>1 DEF ToSet
  <2>3. f[i + 1] = FollowStep(c, f[i], x)
    BY <1>3, <2>1, <2>2 DEF Follows!Accumulates
  <2>4. PICK m \in Nat : Traced(c, i, t, m, f[i])
    BY <1>5, <2>1
  <2>5. PICK v \in Seq(S) : v = f[i] /\ m = Len(v) /\ m <= i /\ Distinct(m, v) /\ \A k \in 1..i : \E l \in 1..m : v[l] = c[t[k]]
    BY <1>1, <2>4 DEF Traced
  <2>6. PICK e \in S : e = c[x]
    BY <1>2
  <2>7. \A k \in 1..i + 1 : k \in 1..i \/ k = i + 1
    OBVIOUS
  <2>8. CASE e \in ToSet(v)
    <3>1. f[i + 1] = v
      BY <2>3, <2>5, <2>6, <2>8 DEF FollowStep
    <3>2. PICK l \in 1..m : v[l] = e
      BY <2>5, <2>8 DEF ToSet
    <3>3. \A k \in 1..i + 1 : \E j \in 1..m : v[j] = c[t[k]]
      BY <2>2, <2>5, <2>6, <2>7, <3>2
    <3>4. m <= i + 1
      BY <2>5
    <3>5. Traced(c, i + 1, t, m, v)
      BY <1>1, <2>5, <3>3, <3>4 DEF Traced
    <3> QED
      BY <3>1, <3>5
  <2>9. CASE e \notin ToSet(v)
    <3>1. PICK r : r = More(v, e)
      OBVIOUS
    <3>2. f[i + 1] = r
      BY <2>3, <2>5, <2>6, <2>9, <3>1 DEF FollowStep, More
    <3>3. Grown(S, m, v, e, r)
      BY ONLY <2>5, <3>1, m \in Nat, v \in Seq(S), e \in S, Appended
    <3>4. \A k \in 1..m : v[k] # e
      BY <2>5, <2>9 DEF ToSet
    <3>5. /\ r \in Seq(S) /\ Len(r) = m + 1 /\ r[m + 1] = e /\ (\A k \in 1..m : r[k] = v[k]) /\ Distinct(m + 1, r)
      BY <2>5, <3>3, <3>4 DEF Grown
    <3>6. m + 1 \in Nat /\ m + 1 <= i + 1 /\ m + 1 \in 1..m + 1 /\ \A l \in 1..m : l \in 1..m + 1
      BY ONLY <2>5, m \in Nat, i \in Nat
    <3>7. ASSUME NEW k \in 1..i + 1 PROVE \E j \in 1..m + 1 : r[j] = c[t[k]]
      <4>1. CASE k = i + 1
        BY <2>2, <2>6, <3>5, <3>6, <4>1
      <4>2. CASE k \in 1..i
        BY <2>5, <3>5, <3>6, <4>2
      <4> QED
        BY <2>7, <4>1, <4>2
    <3>8. Traced(c, i + 1, t, m + 1, r)
      BY <1>1, <3>5, <3>6, <3>7 DEF Traced
    <3> QED
      BY <3>2, <3>6, <3>8
  <2> QED
    BY <2>8, <2>9
<1> HIDE DEF P
<1>6. Nat \subseteq T
  <2>1. 0 \in T /\ \A i \in Nat : i \in T => i + 1 \in T
    BY <1>4, <1>5 DEF P
  <2> HIDE DEF T
  <2> QED
    BY <2>1, Follows!Induction
<1>7. P(n) /\ n <= n
  BY <1>6
<1> QED
  BY <1>3, <1>7 DEF P

LEMMA FollowedIs ==
  ASSUME NEW s \in GoodSlots, IsEditor(s), NEW from \in Files, NEW to \in Files, NEW r, r = Followed(s, from, to)
  PROVE  /\ r \in GoodSlots /\ IsEditor(r) /\ r.id = s.id
         /\ \A t \in ToSet(s.tabs) : Name(from, to, t) \in ToSet(r.tabs)
<1>1. PICK c : c = Names(ToSet(s.tabs), from, to)
  OBVIOUS
<1>2. CASE from \notin ToSet(s.tabs)
  <2>1. r = s
    BY <1>2 DEF Followed
  <2> QED
    BY <1>2, <2>1 DEF Name
<1>3. CASE from \in ToSet(s.tabs)
  <2>1. PICK t \in Seq(Files \cup Diffs), n \in Nat : t = s.tabs /\ n = Len(t) /\ DOMAIN t = 1..n /\ Strip(s)
    BY SlotIs
  <2>2. PICK u : u = Follows!Folded(c, <<>>, t)
    OBVIOUS
  <2>3. PICK m \in Nat : Traced(c, n, t, m, u)
    <3>1. \A x \in ToSet(t) : c[x] \in Files \cup Diffs
      BY <1>1, <2>1, ToSetIs DEF Names
    <3> QED
      BY <2>1, <2>2, <3>1, TracedIs
  <2>4. u \in Seq(Files \cup Diffs) /\ m = Len(u) /\ m <= n /\ Distinct(m, u) /\ \A k \in 1..n : \E l \in 1..m : u[l] = c[t[k]]
    BY <2>3 DEF Traced
  <2>5. PICK e : e = c[t[s.active]]
    OBVIOUS
  <2>6. n <= MaxTabs /\ MaxTabs \in Nat /\ s.active \in 1..n
    BY <2>1, WorkspaceAssumption DEF Strip
  <2>7. PICK x : x = [tabs |-> u]
    OBVIOUS
  <2>8. PICK i : i = TabAt(x, e)
    OBVIOUS
  <2>9. i \in 1..m
    <3>1. x.tabs = u
      BY <2>7
    <3>2. (i > 0 => i \in 1..Len(u)) /\ (~(i > 0) => i = 0) /\ (i = 0 => \A k \in 1..Len(u) : u[k] # e)
      BY <2>4, <2>8, <3>1, TabAtIs
    <3>3. i # 0
      BY <2>4, <2>5, <2>6, <3>2
    <3> QED
      BY <2>4, <3>2, <3>3
  <2>10. i = SelectInSeq(u, LAMBDA y : y = e)
    BY <2>7, <2>8 DEF TabAt
  <2>11. r = Tabbed(s, u, i)
    <3>1. r = FollowedIn(s, u, c)
      BY <1>1, <1>3, <2>1, <2>2, FollowedIsAFold
    <3>2. SelectInSeq(u, LAMBDA y : y = c[s.tabs[s.active]]) = i
      BY <2>1, <2>5, <2>10
    <3> QED
      BY <3>1, <3>2 DEF FollowedIn, Tabbed
  <2>12. r \in GoodSlots /\ IsEditor(r) /\ r.id = s.id /\ r.tabs = u
    <3>1. m <= MaxTabs
      BY ONLY <2>4, <2>6, m \in Nat, n \in Nat
    <3>2. u \in Seq(Files \cup Diffs) /\ m = Len(u) /\ Distinct(m, u)
      BY <2>4
    <3> QED
      BY ONLY <2>9, <2>11, <3>1, <3>2, m \in Nat, s \in GoodSlots, IsEditor(s), Retabbed
  <2>13. ASSUME NEW y \in ToSet(t) PROVE c[y] \in ToSet(u)
    <3>1. PICK k \in 1..n : t[k] = y
      BY <2>1 DEF ToSet
    <3>2. PICK l \in 1..m : u[l] = c[y]
      BY <2>4, <3>1
    <3>3. DOMAIN u = 1..m
      BY <2>4
    <3> QED
      BY <3>2, <3>3 DEF ToSet
  <2>14. \A y \in ToSet(t) : c[y] = Name(from, to, y)
    BY <1>1, <2>1 DEF Name, Names
  <2> QED
    BY <2>1, <2>12, <2>13, <2>14
<1> QED
  BY <1>2, <1>3

(* A view whose tabs follow the name.                                      *)
Followers(v, from, to, u) ==
  /\ u \in GoodViews /\ u.id = v.id /\ u.root = v.root /\ SlotIds(u) = SlotIds(v) /\ (Bare(u) => Bare(v))
  /\ \A s \in ToSet(v.slots) : \A t \in ToSet(s.tabs) :
       IsEditor(s) => \E z \in ToSet(u.slots) : IsEditor(z) /\ Name(from, to, t) \in ToSet(z.tabs)
LEMMA RetitledIs ==
  ASSUME NEW v \in GoodViews, NEW from \in Files, NEW to \in Files, NEW u, u = Retitled(v, from, to)
  PROVE  Followers(v, from, to, u)
<1>1. PICK q \in Seq(GoodSlots), n \in Nat :
        q = v.slots /\ n = Len(q) /\ DOMAIN q = 1..n /\ n <= 4 /\ Apart(q) /\ InFocus(v) /\ v \in ViewsOf(GoodSlots)
  BY DEF GoodViews, ViewsOf
<1>2. PICK p : p = [j \in 1..n |-> IF IsEditor(q[j]) THEN Followed(q[j], from, to) ELSE q[j]]
  OBVIOUS
<1>3. ASSUME NEW j \in 1..n
      PROVE  /\ p[j] \in GoodSlots /\ p[j].id = q[j].id /\ (IsEditor(q[j]) => IsEditor(p[j]))
             /\ IsEditor(q[j]) => \A t \in ToSet(q[j].tabs) : Name(from, to, t) \in ToSet(p[j].tabs)
  <2>1. q[j] \in GoodSlots
    BY <1>1
  <2>2. p[j] = IF IsEditor(q[j]) THEN Followed(q[j], from, to) ELSE q[j]
    BY <1>2
  <2>3. CASE IsEditor(q[j])
    <3>1. p[j] = Followed(q[j], from, to)
      BY <2>2, <2>3
    <3> QED
      BY <2>1, <2>3, <3>1, FollowedIs
  <2>4. CASE ~IsEditor(q[j])
    BY <2>1, <2>2, <2>4
  <2> QED
    BY <2>3, <2>4
<1>4. p \in Seq(GoodSlots) /\ Len(p) = n /\ DOMAIN p = 1..n
  <2>1. \A j \in 1..n : p[j] \in GoodSlots
    BY <1>3
  <2> QED
    BY <1>2, <2>1
<1>5. Apart(p)
  BY <1>1, <1>3, <1>4 DEF Apart
<1>6. PICK f : f = v.focused
  OBVIOUS
<1>7. f \in 1..4 /\ (f = 1 \/ f <= n)
  BY <1>1, <1>6 DEF InFocus
<1>8. u = Refill(v, p, f)
  BY <1>1, <1>2, <1>6 DEF Retitled, Refill, ViewsOf
<1>9. u \in GoodViews /\ u.id = v.id /\ u.root = v.root /\ u.slots = p
  <2>1. p \in Seq(GoodSlots) /\ n = Len(p) /\ n <= 4
    BY <1>1, <1>4
  <2> QED
    BY ONLY <1>5, <1>7, <1>8, <2>1, v \in GoodViews, n \in Nat, Refilled
<1>10. \A x : x \in ToSet(p) <=> \E j \in 1..n : p[j] = x
  BY <1>4 DEF ToSet
<1>11. \A x : x \in ToSet(q) <=> \E j \in 1..n : q[j] = x
  BY <1>1 DEF ToSet
<1>12. SlotIds(u) = SlotIds(v)
  <2>1. ASSUME NEW k PROVE k \in SlotIds(u) <=> \E j \in 1..n : q[j].id = k
    BY <1>3, <1>9, <1>10 DEF SlotIds
  <2>2. ASSUME NEW k PROVE k \in SlotIds(v) <=> \E j \in 1..n : q[j].id = k
    BY <1>1, <1>11 DEF SlotIds
  <2> QED
    BY <2>1, <2>2
<1>13. Bare(u) => Bare(v)
  <2> SUFFICES ASSUME p = <<>> PROVE q = <<>>
    BY <1>1, <1>9 DEF Bare
  <2>1. n = 0
    BY <1>4
  <2> QED
    BY ONLY <1>1, <2>1, q \in Seq(GoodSlots), EmptySeq
<1>14. ASSUME NEW s \in ToSet(v.slots), NEW t \in ToSet(s.tabs), IsEditor(s)
       PROVE  \E z \in ToSet(u.slots) : IsEditor(z) /\ Name(from, to, t) \in ToSet(z.tabs)
  <2>1. PICK j \in 1..n : q[j] = s
    BY <1>1, <1>11
  <2>2. p[j] \in ToSet(u.slots)
    BY <1>9, <1>10
  <2> QED
    BY <1>3, <1>14, <2>1, <2>2
<1> QED
  BY <1>9, <1>12, <1>13, <1>14 DEF Followers

LEMMA RenamingKeeps ==
  ASSUME NEW w, Sound(w), NEW from \in Files, NEW to \in Files, NEW r, r = Renaming(w, from, to)
  PROVE  Sound(r) /\ \A t \in OpenFiles(w.vs) : Name(from, to, t) \in OpenFiles(r.vs)
<1>1. Stands(w) /\ w \in Desks /\ Laid(w.vs) /\ Len(w.vs) >= 1 /\ Has(w, w.active) /\ Filled(w)
  BY DEF Sound, Firm, Stands
<1>2. PICK vs \in Seq(GoodViews), n \in Nat :
        vs = w.vs /\ n = Len(vs) /\ DOMAIN vs = 1..n /\ n >= 1 /\ Apart(vs) /\ Homed(vs) /\ Separate(ToSet(vs))
  BY <1>1 DEF Laid
<1>3. PICK us : us = [i \in 1..n |-> Retitled(vs[i], from, to)]
  OBVIOUS
<1>4. ASSUME NEW i \in 1..n PROVE Followers(vs[i], from, to, us[i])
  <2>1. vs[i] \in GoodViews /\ us[i] = Retitled(vs[i], from, to)
    BY <1>2, <1>3
  <2> QED
    BY <2>1, RetitledIs
<1>5. \A i \in 1..n : us[i] \in GoodViews /\ us[i].id = vs[i].id /\ us[i].root = vs[i].root /\ SlotIds(us[i]) = SlotIds(vs[i]) /\ (Bare(us[i]) => Bare(vs[i]))
  BY <1>4 DEF Followers
<1>6. us \in Seq(GoodViews) /\ Len(us) = n /\ DOMAIN us = 1..n
  BY <1>3, <1>5
<1>7. \A x : x \in ToSet(us) <=> \E i \in 1..n : us[i] = x
  BY <1>6 DEF ToSet
<1>8. \A x : x \in ToSet(vs) <=> \E i \in 1..n : vs[i] = x
  BY <1>2 DEF ToSet
<1>9. Apart(us) /\ Homed(us)
  BY <1>2, <1>5, <1>6 DEF Apart, Homed
<1>10. Separate(ToSet(us))
  <2> SUFFICES ASSUME NEW x \in ToSet(us), NEW y \in ToSet(us), x.id # y.id PROVE SlotIds(x) \cap SlotIds(y) = {}
    BY DEF Separate
  <2>1. PICK i \in 1..n, j \in 1..n : us[i] = x /\ us[j] = y
    BY <1>7
  <2>2. vs[i].id # vs[j].id /\ vs[i] \in ToSet(vs) /\ vs[j] \in ToSet(vs)
    BY <1>5, <1>8, <2>1
  <2>3. SlotIds(vs[i]) \cap SlotIds(vs[j]) = {}
    BY <1>2, <2>2 DEF Separate
  <2> QED
    BY <1>5, <2>1, <2>3
<1>11. r \in Desks /\ r.vs = us /\ r.active = w.active
  <2>1. r = [w EXCEPT !.vs = us]
    BY <1>1, <1>2, <1>3 DEF Renaming
  <2> QED
    BY <1>1, <1>6, <2>1 DEF Desks
<1>12. Stands(r)
  BY <1>2, <1>6, <1>9, <1>10, <1>11 DEF Stands, Laid
<1>13. Has(r, r.active)
  <2>1. PICK v \in ToSet(w.vs) : v.id = w.active
    BY <1>1, TabsAre
  <2>2. PICK i \in 1..n : vs[i] = v
    BY <1>2, <1>8, <2>1
  <2>3. us[i] \in ToSet(r.vs) /\ us[i].id = r.active
    BY <1>5, <1>7, <1>11, <2>1, <2>2
  <2> QED
    BY <1>12, <2>3, TabsAre
<1>14. Filled(r)
  BY <1>1, <1>2, <1>5, <1>7, <1>8, <1>11 DEF Filled
<1>15. ASSUME NEW t \in OpenFiles(w.vs) PROVE Name(from, to, t) \in OpenFiles(r.vs)
  <2>1. PICK s \in Slotted(w) : IsEditor(s) /\ t \in ToSet(s.tabs)
    BY <1>1, OpenFilesAre
  <2>2. PICK i \in 1..n : s \in ToSet(vs[i].slots)
    BY <1>2, <1>8 DEF Slotted
  <2>3. PICK z \in ToSet(us[i].slots) : IsEditor(z) /\ Name(from, to, t) \in ToSet(z.tabs)
    BY <1>4, <2>1, <2>2 DEF Followers
  <2>4. z \in Slotted(r)
    BY <1>7, <1>11 DEF Slotted
  <2> QED
    BY <1>12, <2>3, <2>4, OpenFilesAre
<1> QED
  BY <1>12, <1>13, <1>14, <1>15 DEF Sound, Firm

-----------------------------------------------------------------------------
(***************************************************************************)
(* The list of the sessions that live                                      *)
(***************************************************************************)
PruneStep(c, u, i) == IF IsEditor(u.slots[i]) \/ u.slots[i].id \in c THEN u ELSE RemoveAtSlot(u, i)
Prunes == INSTANCE FoldProofs WITH Op <- LAMBDA c, x, y : PruneStep(c, x, y)
LEMMA PrunedIsAFold ==
  ASSUME NEW v, NEW list
  PROVE  Pruned(v, list) = Prunes!Folded(list, v, [i \in DOMAIN v.slots |-> Len(v.slots) + 1 - i])
BY Zenon DEF Pruned, PruneStep, Prunes!Folded, FoldLeft, MapThenFoldSet, Max, Prunes!MapThenFoldSet, Prunes!Greatest

(* What is left of a view: some of its panes, and every file pane.         *)
Lives(v, list) == \A s \in ToSet(v.slots) : IsEditor(s) \/ s.id \in list
Lessened(v, list, u) ==
  /\ Lives(v, list) => u = v
  /\ u \in GoodViews /\ u.id = v.id /\ u.root = v.root
  /\ ToSet(u.slots) \subseteq ToSet(v.slots)
  /\ \A s \in ToSet(v.slots) : IsEditor(s) => s \in ToSet(u.slots)
LEMMA PrunedIs ==
  ASSUME NEW v \in GoodViews, NEW list, NEW u, u = Pruned(v, list)
  PROVE  Lessened(v, list, u)
<1>1. PICK n \in Nat : n = Len(v.slots) /\ DOMAIN v.slots = 1..n
  BY GoodViewIs
<1>2. PICK s : s = [i \in 1..n |-> n + 1 - i]
  OBVIOUS
<1>3. s \in Seq(1..n) /\ Len(s) = n /\ \A i \in 1..n : s[i] = n + 1 - i
  BY <1>2
<1>4. u = Prunes!Folded(list, v, s)
  BY <1>1, <1>2, PrunedIsAFold
<1>5. PICK f : Prunes!Accumulates(list, f, v, s) /\ u = f[n]
  BY <1>3, <1>4, Prunes!FoldGoes
<1> DEFINE P(i) == i <= n => Lessened(v, list, f[i]) /\ Len(f[i].slots) >= n - i
           T == {i \in Nat : P(i)}
<1>6. P(0)
  <2>1. f[0] = v
    BY <1>5 DEF Prunes!Accumulates
  <2>2. n >= n - 0
    OBVIOUS
  <2> QED
    BY <1>1, <2>1, <2>2 DEF Lessened
<1>7. ASSUME NEW i \in Nat, P(i), i + 1 <= n PROVE Lessened(v, list, f[i + 1]) /\ Len(f[i + 1].slots) >= n - (i + 1)
  <2>1. i + 1 \in 1..n /\ (i + 1) - 1 = i /\ i <= n
    BY <1>7
  <2>2. PICK k \in 1..n : k = n - i
    BY <2>1
  <2>3. s[i + 1] = k
    BY ONLY <1>3, <2>1, <2>2, n \in Nat, i \in Nat
  <2>4. f[i + 1] = PruneStep(list, f[i], k)
    BY <1>3, <1>5, <2>1, <2>3 DEF Prunes!Accumulates
  <2>5. PICK x \in GoodViews : x = f[i] /\ Lessened(v, list, x) /\ Len(x.slots) >= n - i
    BY <1>7, <2>1 DEF Lessened
  <2>6. PICK m \in Nat : m = Len(x.slots)
    BY GoodViewIs
  <2>7. m >= n - i /\ m >= k
    BY ONLY <2>2, <2>5, <2>6, n \in Nat, i \in Nat
  <2>8. CASE IsEditor(x.slots[k]) \/ x.slots[k].id \in list
    <3>1. f[i + 1] = x
      BY <2>4, <2>5, <2>8 DEF PruneStep
    <3>2. m >= n - (i + 1)
      BY ONLY <2>7, n \in Nat, m \in Nat, i \in Nat
    <3> QED
      BY <2>5, <2>6, <3>1, <3>2
  <2>9. CASE ~(IsEditor(x.slots[k]) \/ x.slots[k].id \in list)
    <3>1. PICK y : y = RemoveAtSlot(x, k)
      OBVIOUS
    <3>2. f[i + 1] = y
      BY <2>4, <2>5, <2>9, <3>1 DEF PruneStep
    <3>3. k \in 1..Len(x.slots)
      BY ONLY <2>2, <2>6, <2>7, n \in Nat, m \in Nat
    <3>4. Removed(x, k, y)
      BY <3>1, <3>3, RemovedIs
    <3>5. Len(y.slots) = m - 1
      BY <2>6, <3>4 DEF Removed
    <3>6. m - 1 >= n - (i + 1)
      BY ONLY <2>7, n \in Nat, m \in Nat, i \in Nat
    <3>8. ~Lives(v, list)
      <4> SUFFICES ASSUME x = v PROVE ~Lives(v, list)
        BY <2>5 DEF Lessened
      <4> QED
        BY <2>9, <3>3, SlotOf DEF Lives
    <3>7. Lessened(v, list, y)
      BY <2>5, <2>9, <3>4, <3>8 DEF Removed, Lessened
    <3> QED
      BY <3>2, <3>5, <3>6, <3>7
  <2> QED
    BY <2>8, <2>9
<1> HIDE DEF P
<1>8. Nat \subseteq T
  <2>1. 0 \in T /\ \A i \in Nat : i \in T => i + 1 \in T
    BY <1>6, <1>7 DEF P
  <2> HIDE DEF T
  <2> QED
    BY <2>1, Prunes!Induction
<1>9. P(n) /\ n <= n
  BY <1>8
<1> QED
  BY <1>5, <1>9 DEF P

(* A view loses the sessions that are gone, and goes when it is bare.      *)
DissolvePruned(u, id, list) == DissolveEmpty(Put(u, Pruned(View(u, id), list)), id)
Cleared(w, id, list, r) ==
  /\ Stands(r) /\ Filled(r) /\ (Firm(w) => Firm(r)) /\ EditorsKept(w, r)
  /\ \A k : Has(w, k) /\ k # id => Has(r, k)
  /\ \A v \in ToSet(w.vs) : v.id # id \/ Lives(v, list) => v \in ToSet(r.vs) /\ (w.active = v.id => r.active = v.id)
LEMMA ClearedIs ==
  ASSUME NEW w, Stands(w), Filled(w), NEW id, Has(w, id), NEW list, NEW r, r = DissolvePruned(w, id, list)
  PROVE  Cleared(w, id, list, r)
<1>1. PICK v : v = View(w, id) /\ v \in ToSet(w.vs) /\ v \in GoodViews /\ v.id = id
  BY TabsAre
<1>2. PICK x : x = Pruned(v, list)
  OBVIOUS
<1>3. Lessened(v, list, x)
  BY <1>1, <1>2, PrunedIs
<1>4. PICK u : u = Put(w, x)
  OBVIOUS
<1>5. Edited(w, id, x, u)
  <2>1. x \in GoodViews /\ x.id = id /\ x.root = View(w, id).root
    BY <1>1, <1>3 DEF Lessened
  <2>2. \A s \in ToSet(x.slots) : s.id \in SlotIds(View(w, id))
    BY <1>1, <1>3 DEF Lessened, SlotIds
  <2> QED
    BY <1>4, <2>1, <2>2, Changed
<1>6. r = DissolveEmpty(u, id)
  BY <1>1, <1>2, <1>4 DEF DissolvePruned
<1>7. Stands(u) /\ Has(u, id) /\ View(u, id) = x /\ (\A k : Has(u, k) <=> Has(w, k)) /\ (Firm(w) => Firm(u))
      /\ ToSet(u.vs) = (ToSet(w.vs) \ {v}) \cup {x} /\ Slotted(u) = (Slotted(w) \ ToSet(v.slots)) \cup ToSet(x.slots)
      /\ u.active = w.active
  BY <1>1, <1>5 DEF Edited
<1>8. /\ Stands(r) /\ (Firm(u) => Firm(r)) /\ Slotted(r) = Slotted(u)
      /\ ~Bare(x) => r = u
      /\ Bare(x) => ToSet(r.vs) = ToSet(u.vs) \ {x}
      /\ u.active \in Ids(r.vs) => r.active = u.active
      /\ (\A t \in ToSet(u.vs) : t.id # id => ~Bare(t)) => Filled(r)
  BY <1>6, <1>7, DissolveEmptyIs
<1>9. Filled(r)
  <2>1. \A t \in ToSet(u.vs) : t.id # id => ~Bare(t)
    BY <1>1, <1>3, <1>7 DEF Filled, Lessened
  <2> QED
    BY <1>8, <2>1
<1>10. EditorsKept(w, r)
  BY <1>3, <1>7, <1>8 DEF EditorsKept, Lessened
<1>11. ASSUME NEW k, Has(w, k), k # id PROVE Has(r, k)
  <2>1. PICK t \in ToSet(u.vs) : t.id = k
    BY <1>7, <1>11, TabsAre
  <2>2. t # x
    BY <1>1, <1>3, <1>11, <2>1 DEF Lessened
  <2>3. t \in ToSet(r.vs)
    BY <1>8, <2>1, <2>2
  <2> QED
    BY <1>8, <2>1, <2>3, TabsAre
<1>12. ASSUME NEW t \in ToSet(w.vs), t.id # id \/ Lives(t, list) PROVE t \in ToSet(r.vs) /\ (w.active = t.id => r.active = t.id)
  <2>1. t \in ToSet(r.vs)
    <3>1. CASE t.id # id
      <4>1. t # v /\ t # x /\ t \in ToSet(u.vs)
        BY <1>1, <1>3, <1>7, <1>12, <3>1 DEF Lessened
      <4> QED
        BY <1>8, <4>1
    <3>2. CASE t.id = id
      <4>1. t = v /\ Lives(v, list)
        BY <1>1, <1>12, <3>2, TabsAre
      <4>2. x = v /\ ~Bare(x)
        BY <1>1, <1>3, <4>1 DEF Lessened, Filled
      <4>3. r = u
        BY <1>8, <4>2
      <4> QED
        BY <1>7, <4>1, <4>2, <4>3
    <3> QED
      BY <3>1, <3>2
  <2>2. t.id \in Ids(r.vs)
    BY <1>8, <2>1, TabsAre
  <2> QED
    BY <1>7, <1>8, <2>1, <2>2
<1> QED
  BY <1>7, <1>8, <1>9, <1>10, <1>11, <1>12 DEF Cleared

(* The tabs are gone through one after the other, but the one skipped.     *)
Cleans(w, list, skip, ids, f) ==
  /\ f[0] = w
  /\ \A n \in 1..Len(ids) : f[n] = IF ids[n] = skip THEN f[n - 1] ELSE DissolvePruned(f[n - 1], ids[n], list)
Cleaned(w, list, r) ==
  /\ Stands(r) /\ Filled(r) /\ (Firm(w) => Firm(r)) /\ EditorsKept(w, r)
  /\ \A v \in ToSet(w.vs) : Lives(v, list) => v \in ToSet(r.vs) /\ (w.active = v.id => r.active = v.id)
LEMMA CleanedTwice ==
  ASSUME NEW w, NEW list, NEW u, Cleaned(w, list, u), NEW r, Cleaned(u, list, r)
  PROVE  Cleaned(w, list, r)
<1>1. EditorsKept(w, r) /\ (Firm(w) => Firm(r))
  BY DEF Cleaned, EditorsKept
<1>2. ASSUME NEW v \in ToSet(w.vs), Lives(v, list) PROVE v \in ToSet(r.vs) /\ (w.active = v.id => r.active = v.id)
  <2>1. v \in ToSet(u.vs) /\ (w.active = v.id => u.active = v.id)
    BY <1>2 DEF Cleaned
  <2> QED
    BY <1>2, <2>1 DEF Cleaned
<1> QED
  BY <1>1, <1>2 DEF Cleaned

LEMMA CleaningRuns ==
  ASSUME NEW w, Stands(w), Filled(w), NEW list, NEW skip, NEW ids, NEW N \in Nat, N = Len(w.vs), N = Len(ids),
         \A i \in 1..N : ids[i] = w.vs[i].id, NEW f, Cleans(w, list, skip, ids, f)
  PROVE  Cleaned(w, list, f[N])
<1>1. w.vs \in Seq(GoodViews) /\ Apart(w.vs)
  BY TabsAre
<1>2. \A i \in 1..N : Has(w, ids[i])
  BY <1>1, AtIs
<1>3. \A i, j \in 1..N : ids[i] = ids[j] => i = j
  <2>1. PICK q \in Seq(GoodViews) : q = w.vs
    BY <1>1
  <2>2. Len(q) = N
    BY <2>1
  <2>3. DOMAIN q = 1..N
    BY ONLY <2>2, q \in Seq(GoodViews)
  <2> QED
    BY <1>1, <2>1, <2>3 DEF Apart
<1> DEFINE P(n) == n <= N => Cleaned(w, list, f[n]) /\ \A k \in 1..N : k > n => Has(f[n], ids[k])
           T == {n \in Nat : P(n)}
<1>4. P(0)
  BY <1>2 DEF Cleans, Cleaned, EditorsKept
<1>5. ASSUME NEW n \in Nat, P(n), n + 1 <= N PROVE Cleaned(w, list, f[n + 1]) /\ \A k \in 1..N : k > n + 1 => Has(f[n + 1], ids[k])
  <2>1. n + 1 \in 1..N /\ (n + 1) - 1 = n /\ n <= N
    BY <1>5
  <2>2. PICK u, id : u = f[n] /\ id = ids[n + 1]
    OBVIOUS
  <2>3. Cleaned(w, list, u) /\ Stands(u) /\ Filled(u)
    BY <1>5, <2>1, <2>2 DEF Cleaned
  <2>4. \A k \in 1..N : k > n => Has(u, ids[k])
    BY <1>5, <2>1, <2>2
  <2>5. f[n + 1] = IF id = skip THEN u ELSE DissolvePruned(u, id, list)
    BY <2>1, <2>2 DEF Cleans
  <2>6. \A k \in 1..N : k > n + 1 => k > n /\ k # n + 1
    OBVIOUS
  <2>7. CASE id = skip
    BY <2>3, <2>4, <2>5, <2>6, <2>7
  <2>8. CASE id # skip
    <3>1. PICK r : r = DissolvePruned(u, id, list) /\ r = f[n + 1]
      BY <2>5, <2>8
    <3>2. n + 1 > n
      OBVIOUS
    <3>3. Has(u, id)
      BY <2>1, <2>2, <2>4, <3>2
    <3>4. Cleared(u, id, list, r)
      BY <2>3, <3>1, <3>3, ClearedIs
    <3>5. Cleaned(u, list, r)
      BY <3>4 DEF Cleared, Cleaned
    <3>7. Cleaned(w, list, r)
      BY <2>3, <3>5, CleanedTwice
    <3>6. \A k \in 1..N : k > n + 1 => Has(r, ids[k])
      BY <1>3, <2>1, <2>2, <2>4, <2>6, <3>4 DEF Cleared
    <3> QED
      BY <3>1, <3>6, <3>7
  <2> QED
    BY <2>7, <2>8
<1> HIDE DEF P
<1>6. Nat \subseteq T
  <2>1. 0 \in T /\ \A n \in Nat : n \in T => n + 1 \in T
    BY <1>4, <1>5 DEF P
  <2> HIDE DEF T
  <2> QED
    BY <2>1, Leasts!Induction
<1>7. P(N) /\ N <= N
  BY <1>6
<1> QED
  BY <1>7 DEF P

(* The sessions without a place get one.                                   *)
Gives == INSTANCE FoldProofs WITH Op <- LAMBDA c, x, y : Given(x, y)
LEMMA SetToSeqIs ==
  ASSUME NEW S, IsFiniteSet(S)
  PROVE  SetToSeq(S) \in Seq(S) /\ \A x \in S : \E k \in 1..Len(SetToSeq(S)) : SetToSeq(S)[k] = x
<1>1. PICK n \in Nat : n = Cardinality(S) /\ ExistsBijection(1..n, S)
  BY FS_CardinalityType
<1>2. \E f \in [1..n -> S] : IsInjective(f)
  BY <1>1 DEF ExistsBijection, Bijection, Injection, IsInjective
<1>3. PICK f : f = SetToSeq(S) /\ f \in [1..n -> S] /\ IsInjective(f)
  BY <1>1, <1>2 DEF SetToSeq
<1>4. f \in Injection(1..n, S)
  BY <1>3 DEF Injection, IsInjective
<1>5. Cardinality(1..n) = n
  BY FS_Interval
<1>6. f \in Surjection(1..n, S)
  BY <1>1, <1>4, <1>5, FS_Injection
<1>7. f \in Seq(S) /\ Len(f) = n
  BY <1>3
<1> QED
  BY <1>3, <1>6, <1>7 DEF Surjection

LEMMA GivingKeeps ==
  ASSUME NEW w, Stands(w), Filled(w), NEW list, list \subseteq Sessions, NEW r, r = FoldLeft(Given, w, SetToSeq(list))
  PROVE  Cleaned(w, list, r) /\ list \subseteq Keyed(r)
<1>1. PICK q : q = SetToSeq(list)
  OBVIOUS
<1>2. q \in Seq(list) /\ \A x \in list : \E k \in 1..Len(q) : q[k] = x
  BY <1>1, SetToSeqIs, FS_Subset, WorkspaceAssumption
<1>3. r = Gives!Folded(0, w, q)
  BY ZenonT(40), <1>1 DEF Gives!Folded, FoldLeft, MapThenFoldSet, Max, Gives!MapThenFoldSet, Gives!Greatest
<1>4. PICK N \in Nat : N = Len(q)
  BY <1>2
<1>5. PICK f : Gives!Accumulates(0, f, w, q) /\ r = f[N]
  BY <1>2, <1>3, <1>4, Gives!FoldGoes
<1> DEFINE P(n) == n <= N => Cleaned(w, list, f[n]) /\ \A k \in 1..n : q[k] \in Keyed(f[n])
           T == {n \in Nat : P(n)}
<1>6. P(0)
  <2>1. f[0] = w
    BY <1>5 DEF Gives!Accumulates
  <2>2. \A k \in 1..0 : FALSE
    OBVIOUS
  <2> QED
    BY <2>1, <2>2 DEF Cleaned, EditorsKept
<1>7. ASSUME NEW n \in Nat, P(n), n + 1 <= N PROVE Cleaned(w, list, f[n + 1]) /\ \A k \in 1..n + 1 : q[k] \in Keyed(f[n + 1])
  <2>1. n + 1 \in 1..N /\ (n + 1) - 1 = n /\ n <= N /\ \A k \in 1..n + 1 : k \in 1..n \/ k = n + 1
    BY <1>7
  <2>2. PICK x, y, z : x = f[n] /\ y = q[n + 1] /\ z = Given(x, y)
    OBVIOUS
  <2>3. z = f[n + 1]
    BY <1>4, <1>5, <2>1, <2>2 DEF Gives!Accumulates
  <2>4. Cleaned(w, list, x) /\ (\A k \in 1..n : q[k] \in Keyed(x)) /\ y \in Sessions
    <3>1. q[n + 1] \in list
      BY <1>2, <1>4, <2>1
    <3> QED
      BY <1>7, <2>1, <2>2, <3>1
  <2>5. Gave(x, y, z)
    <3>1. Stands(x) /\ Filled(x)
      BY <2>4 DEF Cleaned
    <3> QED
      BY <2>2, <2>4, <3>1, GivenKeeps
  <2>6. Cleaned(x, list, z) /\ y \in Keyed(z) /\ Keyed(x) \subseteq Keyed(z)
    BY <2>5 DEF Gave, Cleaned
  <2>7. Cleaned(w, list, z)
    BY <2>4, <2>6, CleanedTwice
  <2> QED
    BY <2>1, <2>2, <2>3, <2>4, <2>6, <2>7
<1> HIDE DEF P
<1>8. Nat \subseteq T
  <2>1. 0 \in T /\ \A n \in Nat : n \in T => n + 1 \in T
    BY <1>6, <1>7 DEF P
  <2> HIDE DEF T
  <2> QED
    BY <2>1, Gives!Induction
<1>9. P(N) /\ N <= N
  BY <1>8
<1>10. Cleaned(w, list, r) /\ \A k \in 1..N : q[k] \in Keyed(r)
  BY <1>5, <1>9 DEF P
<1> QED
  BY <1>2, <1>4, <1>10

(* reconcileViews of the poll, and of the load.                            *)
PollStep(x, y) == IF y = activeViewId THEN x ELSE DissolvePruned(x, y, poll)
Polling == INSTANCE FoldProofs WITH Op <- LAMBDA c, x, y : PollStep(x, y)
LoadStep(c, x, y) == IF y = None THEN x ELSE DissolvePruned(x, y, c)
Loading == INSTANCE FoldProofs WITH Op <- LAMBDA c, x, y : LoadStep(c, x, y)
LEMMA ReconcilingKeeps ==
  ASSUME NEW w, Stands(w), Filled(w), NEW list, list \subseteq Sessions, NEW r,
         r = ReconcileViews(w, list, None) \/ (poll = list /\ r = ReconcileViews(w, poll, activeViewId))
  PROVE  Cleaned(w, list, r) /\ list \subseteq Keyed(r)
<1>1. PICK N \in Nat : N = Len(w.vs) /\ DOMAIN w.vs = 1..N /\ w.vs \in Seq(GoodViews)
  BY TabsAre
<1>2. PICK ids : ids = [i \in 1..N |-> w.vs[i].id]
  OBVIOUS
<1>3. ids \in Seq(Nat) /\ Len(ids) = N /\ \A i \in 1..N : ids[i] = w.vs[i].id
  <2>1. \A i \in 1..N : w.vs[i].id \in Nat
    BY <1>1, GoodViewIs
  <2> QED
    BY <1>2, <2>1
<1>4. PICK kept : Cleaned(w, list, kept) /\ r = FoldLeft(Given, kept, SetToSeq(list))
  <2>1. CASE r = ReconcileViews(w, list, None)
    <3>1. r = FoldLeft(Given, Loading!Folded(list, w, [i \in DOMAIN w.vs |-> w.vs[i].id]), SetToSeq(list))
      BY Zenon, <2>1 DEF ReconcileViews, LoadStep, DissolvePruned, Loading!Folded, FoldLeft, MapThenFoldSet, Max,
                         Loading!MapThenFoldSet, Loading!Greatest
    <3>2. PICK kept : kept = Loading!Folded(list, w, ids) /\ r = FoldLeft(Given, kept, SetToSeq(list))
      BY <1>1, <1>2, <3>1
    <3>3. PICK f : Loading!Accumulates(list, f, w, ids) /\ kept = f[N]
      BY <1>3, <3>2, Loading!FoldGoes
    <3>4. Cleans(w, list, None, ids, f)
      BY <1>3, <3>3 DEF Loading!Accumulates, Cleans, LoadStep
    <3> QED
      BY <1>1, <1>3, <3>2, <3>3, <3>4, CleaningRuns
  <2>2. CASE poll = list /\ r = ReconcileViews(w, poll, activeViewId)
    <3>1. r = FoldLeft(Given, Polling!Folded(0, w, [i \in DOMAIN w.vs |-> w.vs[i].id]), SetToSeq(poll))
      BY Zenon, <2>2 DEF ReconcileViews, PollStep, DissolvePruned, Polling!Folded, FoldLeft, MapThenFoldSet, Max,
                         Polling!MapThenFoldSet, Polling!Greatest
    <3>2. PICK kept : kept = Polling!Folded(0, w, ids) /\ r = FoldLeft(Given, kept, SetToSeq(list))
      BY <1>1, <1>2, <2>2, <3>1
    <3>3. PICK f : Polling!Accumulates(0, f, w, ids) /\ kept = f[N]
      BY <1>3, <3>2, Polling!FoldGoes
    <3>4. Cleans(w, list, activeViewId, ids, f)
      BY <1>3, <2>2, <3>3 DEF Polling!Accumulates, Cleans, PollStep
    <3> QED
      BY <1>1, <1>3, <3>2, <3>3, <3>4, CleaningRuns
  <2> QED
    BY <2>1, <2>2
<1>5. Cleaned(kept, list, r) /\ list \subseteq Keyed(r)
  <2>1. Stands(kept) /\ Filled(kept)
    BY <1>4 DEF Cleaned
  <2> QED
    BY <1>4, <2>1, GivingKeeps
<1> QED
  BY <1>4, <1>5, CleanedTwice

(* What is shown is there.                                                 *)
LEMMA NormalizingIs ==
  ASSUME NEW w, Stands(w), Filled(w), NEW r, r = NormalizeActive(w)
  PROVE  Sound(r) /\ r.vs = w.vs /\ (Has(w, w.active) => r = w)
<1>1. CASE Has(w, w.active)
  BY <1>1 DEF NormalizeActive, Sound, Firm
<1>2. CASE ~Has(w, w.active)
  <2>1. PICK n \in Nat : n = Len(w.vs) /\ n >= 1 /\ w.vs \in Seq(GoodViews) /\ Apart(w.vs)
    BY TabsAre DEF Stands
  <2>2. PICK id : id = w.vs[1].id
    OBVIOUS
  <2>3. Has(w, id) /\ id \in Nat
    <3>1. 1 \in 1..n /\ w.vs[1] \in GoodViews
      BY <2>1
    <3> QED
      BY <2>1, <2>2, <3>1, AtIs, GoodViewIs
  <2>4. r = Activate(w, id)
    BY <1>2, <2>2 DEF NormalizeActive
  <2>5. r \in Desks /\ r.vs = w.vs /\ r.active = id
    BY <2>3, <2>4 DEF Activate, Desks, Stands
  <2>6. Has(r, r.active)
    BY <2>3, <2>5 DEF Has, At
  <2> QED
    BY <1>2, <2>5, <2>6 DEF Sound, Firm, Stands, Filled
<1> QED
  BY <1>1, <1>2

-----------------------------------------------------------------------------
(***************************************************************************)
(* The page loads: what was stored comes back                              *)
(***************************************************************************)
StoredSlot(s) == IF s.id = None THEN Strip(s) ELSE s = SessionSlot(s.id)
GoodStored(v) ==
  /\ v \in Stored(StoredSlots)
  /\ Len(v.slots) <= 4 /\ v.focused \in 1..Clamp(1, Len(v.slots), 4)
  /\ \A k \in 1..Len(v.slots) : StoredSlot(v.slots[k])
  /\ \A k, l \in 1..Len(v.slots) : v.slots[k].id = v.slots[l].id => k = l \/ v.slots[k].id = None
LEMMA RestorableIs ==
  ASSUME NEW bag, Restorable(bag)
  PROVE  /\ bag.views \in Seq(Stored(StoredSlots)) /\ bag.active \in Nat
         /\ \A i \in 1..Len(bag.views) : GoodStored(bag.views[i]) /\ (bag.views[i].root = Home <=> i = 1)
         /\ \A i, j \in 1..Len(bag.views) : bag.views[i].id = bag.views[j].id => i = j
         /\ \A i, j \in 1..Len(bag.views) : \A k \in 1..Len(bag.views[i].slots) : \A l \in 1..Len(bag.views[j].slots) :
              bag.views[i].slots[k].id = bag.views[j].slots[l].id => (i = j /\ k = l) \/ bag.views[i].slots[k].id = None
<1>1. PICK n \in Nat : n = Len(bag.views) /\ \A i \in 1..n : bag.views[i] \in Stored(StoredSlots)
  BY DEF Restorable
<1>2. ASSUME NEW i \in 1..n PROVE GoodStored(bag.views[i])
  BY <1>1, <1>2 DEF Restorable, GoodStored, StoredSlot, MAX_PANES
<1> QED
  BY <1>1, <1>2 DEF Restorable

(* A pane comes back behind the others.                                    *)
PushSlot(u, z) == [u EXCEPT !.slots = Append(@, z)]
PushedSlot(u, k, z, r) ==
  /\ r \in ViewsOf(GoodSlots) /\ r.id = u.id /\ r.root = u.root /\ r.focused = u.focused /\ r.l3 = u.l3
  /\ Len(r.slots) = k + 1 /\ r.slots[k + 1] = z /\ \A j \in 1..k : r.slots[j] = u.slots[j]
  /\ Apart(r.slots)
LEMMA PushedSlotIs ==
  ASSUME NEW u \in ViewsOf(GoodSlots), NEW k \in Nat, Len(u.slots) = k, Apart(u.slots), NEW z \in GoodSlots,
         \A j \in 1..k : u.slots[j].id # z.id, NEW r, r = PushSlot(u, z)
  PROVE  PushedSlot(u, k, z, r)
<1>1. PICK q \in Seq(GoodSlots) : q = u.slots
  BY DEF ViewsOf
<1>2. PICK p : p = Append(q, z)
  OBVIOUS
<1>3. p \in Seq(GoodSlots) /\ Len(p) = k + 1 /\ p[k + 1] = z /\ \A j \in 1..k : p[j] = q[j]
  BY <1>1, <1>2
<1>4. r \in ViewsOf(GoodSlots) /\ r.id = u.id /\ r.root = u.root /\ r.focused = u.focused /\ r.l3 = u.l3 /\ r.slots = p
  BY <1>1, <1>2, <1>3 DEF PushSlot, ViewsOf
<1>5. Apart(p)
  <2>1. DOMAIN p = 1..(k + 1) /\ DOMAIN q = 1..k /\ \A j \in 1..(k + 1) : j \in 1..k \/ j = k + 1
    BY <1>1, <1>3
  <2>2. ASSUME NEW i \in 1..(k + 1), NEW j \in 1..(k + 1), p[i].id = p[j].id PROVE i = j
    BY <1>1, <1>3, <2>1, <2>2 DEF Apart
  <2> QED
    BY <2>1, <2>2 DEF Apart
<1> QED
  BY <1>1, <1>3, <1>4, <1>5 DEF PushedSlot

(* What a stored slot comes back as, in a workspace that has w so far.     *)
Returned(w, s, z) ==
  /\ z \in GoodSlots /\ Alike(s, z)
  /\ IF s.id = None THEN IsEditor(z) /\ z.id \notin Keyed(w) ELSE z = s /\ z.id \in Sessions
Readd(w, u, s) ==
  IF s.id = None THEN [s EXCEPT !.id = Unused({t.id : t \in (UNION {ToSet(x.slots) : x \in ToSet(w.vs)}) \cup ToSet(u.slots)} \ Sessions)]
  ELSE s
LEMMA ReaddIs ==
  ASSUME NEW w \in Desks, NEW u \in ViewsOf(GoodSlots), NEW s \in StoredSlots, StoredSlot(s), NEW z, z = Readd(w, u, s)
  PROVE  Returned(w, s, z) /\ (s.id = None => \A j \in 1..Len(u.slots) : u.slots[j].id # z.id)
<1>1. CASE s.id = None
  <2>1. PICK q \in Seq(GoodSlots) : q = u.slots
    BY DEF ViewsOf
  <2>2. PICK K : K = {t.id : t \in (UNION {ToSet(x.slots) : x \in ToSet(w.vs)}) \cup ToSet(q)}
    OBVIOUS
  <2>3. IsFiniteSet(K) /\ Keyed(w) \subseteq K /\ \A t \in ToSet(q) : t.id \in K
    <3>1. PICK A, B : A = Keyed(w) /\ B = {t.id : t \in ToSet(q)}
      OBVIOUS
    <3>2. K = A \cup B
      BY <2>2, <3>1, KeyedIs
    <3>3. IsFiniteSet(A) /\ IsFiniteSet(B)
      BY <3>1, KeyedIs, FiniteElements, FiniteIds
    <3>4. IsFiniteSet(A \cup B)
      BY <3>3, FS_Union
    <3> QED
      BY <2>2, <3>1, <3>2, <3>4
  <2>4. PICK F : F = K \ Sessions /\ IsFiniteSet(F)
    <3>1. IsFiniteSet(K \ Sessions)
      BY <2>3, FS_Subset
    <3> QED
      BY <3>1
  <2>5. PICK n \in Nat : n = Unused(F) /\ n \notin F
    BY <2>4, UnusedIs
  <2>6. n \notin Sessions /\ n \notin K
    BY <2>4, <2>5, WorkspaceAssumption
  <2>7. z = [s EXCEPT !.id = n]
    BY <1>1, <2>1, <2>2, <2>4, <2>5 DEF Readd
  <2>8. z \in SlotT /\ z.id = n /\ z.tabs = s.tabs /\ z.active = s.active
    BY <2>7 DEF StoredSlots, SlotT, Keys
  <2>9. Strip(z)
    BY <1>1, <2>8 DEF StoredSlot, Strip
  <2>10. IsEditor(z) /\ IsEditor(s)
    BY <1>1, <2>6, <2>8, WorkspaceAssumption DEF IsEditor
  <2>11. z \in GoodSlots
    BY <2>8, <2>9, <2>10, StripIs
  <2>12. ASSUME NEW j \in 1..Len(u.slots) PROVE u.slots[j].id # z.id
    <3>1. q[j] \in ToSet(q)
      BY <2>1, ToSetIs
    <3> QED
      BY <2>1, <2>3, <2>6, <2>8, <3>1
  <2> QED
    BY <1>1, <2>3, <2>6, <2>8, <2>10, <2>11, <2>12 DEF Returned, Alike
<1>2. CASE s.id # None
  <2>1. z = s /\ s.id \in Sessions /\ s = SessionSlot(s.id)
    BY <1>2 DEF Readd, StoredSlots, StoredSlot
  <2>2. SessionSlot(s.id) \in GoodSlots
    BY <2>1, SessionSlotIs
  <2> QED
    BY <1>2, <2>1, <2>2 DEF Returned, Alike
<1> QED
  BY <1>1, <1>2

RebuildStep(c, u, s) ==
  IF s.id = None
  THEN [u EXCEPT !.slots = Append(@, [s EXCEPT !.id =
         Unused({t.id : t \in (UNION {ToSet(x.slots) : x \in ToSet(c.vs)}) \cup ToSet(u.slots)} \ Sessions)])]
  ELSE [u EXCEPT !.slots = Append(@, s)]
Rebuilds == INSTANCE FoldProofs WITH Op <- LAMBDA c, x, y : RebuildStep(c, x, y)
Remade(w, v) == Rebuilds!Folded(w, [v EXCEPT !.slots = <<>>], v.slots)
LEMMA RebuiltIsAFold ==
  ASSUME NEW w, NEW v
  PROVE  Rebuilt(w, v) = IF (Remade(w, v).slots = <<>> /\ v.root # Home) \/ Len(w.vs) >= MaxViews THEN w ELSE PushView(w, Remade(w, v))
BY Zenon DEF Rebuilt, Remade, RebuildStep, Rebuilds!Folded, FoldLeft, MapThenFoldSet, Max, Rebuilds!MapThenFoldSet, Rebuilds!Greatest

LEMMA StepReadds ==
  ASSUME NEW w, NEW u, NEW s
  PROVE  RebuildStep(w, u, s) = PushSlot(u, Readd(w, u, s))
BY DEF RebuildStep, PushSlot, Readd

(* What a stored view comes back as.                                       *)
Back(w, v, u) ==
  /\ u.id = v.id /\ u.root = v.root /\ u.focused = v.focused /\ u.l3 = v.l3 /\ Len(u.slots) = Len(v.slots)
  /\ \A j \in 1..Len(v.slots) : Returned(w, v.slots[j], u.slots[j])
LEMMA RemadeIs ==
  ASSUME NEW w \in Desks, NEW v, GoodStored(v), NEW u, u = Remade(w, v)
  PROVE  u \in GoodViews /\ Back(w, v, u)
<1>1. PICK q \in Seq(StoredSlots) : q = v.slots
  BY DEF GoodStored, Stored
<1>2. PICK n \in Nat : n = Len(q)
  OBVIOUS
<1>3. PICK a : a = [v EXCEPT !.slots = <<>>]
  OBVIOUS
<1>4. a \in ViewsOf(GoodSlots) /\ a.id = v.id /\ a.root = v.root /\ a.focused = v.focused /\ a.l3 = v.l3 /\ a.slots = <<>>
  <2>1. <<>> \in Seq(GoodSlots)
    OBVIOUS
  <2> QED
    BY <1>3, <2>1 DEF GoodStored, Stored, ViewsOf
<1>5. PICK f : Rebuilds!Accumulates(w, f, a, q) /\ u = f[n]
  BY <1>1, <1>2, <1>3, Rebuilds!FoldGoes DEF Remade
<1>6. /\ \A k \in 1..n : q[k] \in StoredSlots /\ StoredSlot(q[k])
      /\ \A k, l \in 1..n : q[k].id = q[l].id => k = l \/ q[k].id = None
  BY <1>1, <1>2 DEF GoodStored
<1> DEFINE Made(x, k) == /\ x \in ViewsOf(GoodSlots) /\ x.id = v.id /\ x.root = v.root /\ x.focused = v.focused /\ x.l3 = v.l3
                         /\ Len(x.slots) = k /\ Apart(x.slots) /\ \A j \in 1..k : Returned(w, q[j], x.slots[j])
           P(k) == k <= n => Made(f[k], k)
           T == {k \in Nat : P(k)}
<1>7. P(0)
  <2>1. f[0] = a
    BY <1>5 DEF Rebuilds!Accumulates
  <2>2. Len(a.slots) = 0 /\ Apart(a.slots) /\ \A j \in 1..0 : FALSE
    <3>1. DOMAIN <<>> = {} /\ Len(<<>>) = 0
      OBVIOUS
    <3> QED
      BY <1>4, <3>1 DEF Apart
  <2> QED
    BY <1>4, <2>1, <2>2
<1>8. ASSUME NEW k \in Nat, P(k), k + 1 <= n PROVE Made(f[k + 1], k + 1)
  <2>1. k + 1 \in 1..n /\ (k + 1) - 1 = k /\ k <= n /\ \A j \in 1..k + 1 : j \in 1..k \/ j = k + 1
    BY <1>8
  <2>2. PICK x, s : x = f[k] /\ s = q[k + 1]
    OBVIOUS
  <2>3. PICK z : z = Readd(w, x, s)
    OBVIOUS
  <2>4. f[k + 1] = PushSlot(x, z)
    <3>1. f[k + 1] = RebuildStep(w, x, s)
      BY <1>2, <1>5, <2>1, <2>2 DEF Rebuilds!Accumulates
    <3> QED
      BY <2>3, <3>1, StepReadds
  <2>5. Made(x, k)
    BY <1>8, <2>1, <2>2
  <2>6. s \in StoredSlots /\ StoredSlot(s)
    BY <1>6, <2>1, <2>2
  <2>7. Returned(w, s, z) /\ (s.id = None => \A j \in 1..k : x.slots[j].id # z.id)
    BY <2>3, <2>5, <2>6, ReaddIs
  <2>8. ASSUME NEW j \in 1..k PROVE x.slots[j].id # z.id
    <3>1. CASE s.id = None
      BY <2>7, <3>1
    <3>2. CASE s.id # None
      <4>1. z = s /\ z.id \in Sessions
        BY <2>7, <3>2 DEF Returned
      <4>2. Returned(w, q[j], x.slots[j])
        BY <2>5
      <4>3. CASE q[j].id = None
        BY <4>1, <4>2, <4>3 DEF Returned, IsEditor
      <4>4. CASE q[j].id # None
        <5>1. x.slots[j] = q[j]
          BY <4>2, <4>4 DEF Returned
        <5>2. j \in 1..n /\ j # k + 1
          BY <2>1
        <5> QED
          BY <1>6, <2>1, <2>2, <4>1, <4>4, <5>1, <5>2
      <4> QED
        BY <4>3, <4>4
    <3> QED
      BY <3>1, <3>2
  <2>9. PushedSlot(x, k, z, f[k + 1])
    <3>1. z \in GoodSlots
      BY <2>7 DEF Returned
    <3> QED
      BY <2>4, <2>5, <2>8, <3>1, PushedSlotIs
  <2> QED
    BY <2>1, <2>2, <2>5, <2>7, <2>9 DEF PushedSlot
<1> HIDE DEF P
<1>9. Nat \subseteq T
  <2>1. 0 \in T /\ \A k \in Nat : k \in T => k + 1 \in T
    BY <1>7, <1>8 DEF P
  <2> HIDE DEF T
  <2> QED
    BY <2>1, Rebuilds!Induction
<1>10. P(n) /\ n <= n
  BY <1>9
<1>11. Made(u, n)
  BY <1>5, <1>10 DEF P
<1>12. InFocus(u)
  <2>1. n <= 4 /\ u.focused \in 1..Clamp(1, n, 4)
    BY <1>1, <1>2, <1>11 DEF GoodStored
  <2>2. Clamp(1, n, 4) = IF n < 1 THEN 1 ELSE n
    BY <2>1 DEF Clamp
  <2>3. u.focused \in 1..4 /\ (u.focused = 1 \/ u.focused <= n)
    BY <2>1, <2>2
  <2> QED
    BY <1>11, <2>3 DEF InFocus
<1> QED
  BY <1>1, <1>2, <1>11, <1>12 DEF GoodViews, Back, GoodStored

(* The views so far are those stored so far, but some that were empty.     *)
Kept(s, z) == z \in GoodSlots /\ Alike(s, z) /\ IF s.id = None THEN IsEditor(z) ELSE z = s /\ z.id \in Sessions
Comes(v, u) ==
  /\ u.id = v.id /\ u.root = v.root /\ u.focused = v.focused /\ u.l3 = v.l3 /\ Len(u.slots) = Len(v.slots)
  /\ \A j \in 1..Len(v.slots) : Kept(v.slots[j], u.slots[j])
Restored(b, n, w) ==
  /\ w \in Desks /\ w.active = 0 /\ Laid(w.vs) /\ Filled(w) /\ Len(w.vs) <= n /\ (n >= 1 => Len(w.vs) >= 1)
  /\ \A u \in ToSet(w.vs) : \E i \in 1..n : Comes(b[i], u)
  /\ Len(b) <= MaxViews => \A i \in 1..n : b[i].slots # <<>> => \E u \in ToSet(w.vs) : Comes(b[i], u)

LEMMA BackComes ==
  ASSUME NEW w, NEW v, NEW u, Back(w, v, u)
  PROVE  Comes(v, u)
BY DEF Back, Returned, Comes, Kept

(* A view that comes back is not one that is there.                        *)
LEMMA BackIsNew ==
  ASSUME NEW bag, Restorable(bag), NEW n \in Nat, n + 1 <= Len(bag.views), NEW w, Restored(bag.views, n, w),
         NEW x \in GoodViews, Back(w, bag.views[n + 1], x)
  PROVE  New(w.vs, x)
<1>1. PICK v : v = bag.views[n + 1]
  OBVIOUS
<1>2. PICK N \in Nat : N = Len(bag.views) /\ n + 1 \in 1..N /\ \A i \in 1..n : i \in 1..N /\ i # n + 1
  BY DEF Restorable
<1>3. ASSUME NEW u \in ToSet(w.vs) PROVE u.id # x.id /\ SlotIds(u) \cap SlotIds(x) = {}
  <2>1. PICK i \in 1..n : Comes(bag.views[i], u)
    BY DEF Restored
  <2>2. PICK t : t = bag.views[i]
    OBVIOUS
  <2>3. t.id # v.id
    BY <1>1, <1>2, <2>2, RestorableIs
  <2>4. u.id # x.id
    BY <1>1, <2>1, <2>2, <2>3 DEF Comes, Back
  <2>9. \A k \in 1..Len(t.slots) : \A l \in 1..Len(v.slots) : t.slots[k].id = v.slots[l].id => t.slots[k].id = None
    <3>1. i \in 1..N /\ n + 1 \in 1..N /\ i # n + 1
      BY <1>2
    <3>2. \A k \in 1..Len(bag.views[i].slots) : \A l \in 1..Len(bag.views[n + 1].slots) :
            bag.views[i].slots[k].id = bag.views[n + 1].slots[l].id => (i = n + 1 /\ k = l) \/ bag.views[i].slots[k].id = None
      BY ZenonT(40), <1>2, <3>1, RestorableIs
    <3> QED
      BY <1>1, <2>2, <3>1, <3>2
  <2>5. u \in GoodViews
    BY TabsAre, KeyedIs DEF Restored
  <2>6. SlotIds(u) \subseteq Keyed(w)
    BY KeyedIs DEF Restored
  <2>7. ASSUME NEW k \in 1..Len(u.slots), NEW l \in 1..Len(x.slots), u.slots[k].id = x.slots[l].id PROVE FALSE
    <3>1. k \in 1..Len(t.slots) /\ Kept(t.slots[k], u.slots[k])
      BY <2>1, <2>2, <2>7 DEF Comes
    <3>2. l \in 1..Len(v.slots) /\ Returned(w, v.slots[l], x.slots[l])
      BY <1>1, <2>7 DEF Back
    <3>3. u.slots[k].id \in Keyed(w)
      BY <2>5, <2>6, SlotOf
    <3>4. v.slots[l].id # None
      BY <2>7, <3>2, <3>3 DEF Returned
    <3>5. x.slots[l] = v.slots[l] /\ x.slots[l].id \in Sessions
      BY <3>2, <3>4 DEF Returned
    <3>6. t.slots[k].id # None /\ u.slots[k] = t.slots[k]
      BY <2>7, <3>1, <3>5 DEF Kept, IsEditor
    <3>7. t.slots[k].id = v.slots[l].id
      BY <2>7, <3>5, <3>6
    <3> QED
      BY <2>9, <3>1, <3>2, <3>6, <3>7
  <2>8. ASSUME NEW key \in SlotIds(u) \cap SlotIds(x) PROVE FALSE
    <3>1. PICK k : k = IndexOfSlot(u, key)
      OBVIOUS
    <3>2. PICK l : l = IndexOfSlot(x, key)
      OBVIOUS
    <3>3. k \in 1..Len(u.slots) /\ u.slots[k].id = key
      BY <2>5, <3>1, KeyIndex
    <3>4. l \in 1..Len(x.slots) /\ x.slots[l].id = key
      BY <3>2, KeyIndex
    <3> QED
      BY <2>7, <3>3, <3>4
  <2> QED
    BY <2>4, <2>8
<1> QED
  BY <1>3 DEF New

Restores == INSTANCE FoldProofs WITH Op <- LAMBDA c, x, y : Rebuilt(x, y)
LEMMA RestoringStep ==
  ASSUME NEW bag, Restorable(bag), NEW n \in Nat, n + 1 <= Len(bag.views), NEW w, Restored(bag.views, n, w),
         NEW r, r = Rebuilt(w, bag.views[n + 1])
  PROVE  Restored(bag.views, n + 1, r)
<1>1. PICK v : v = bag.views[n + 1]
  OBVIOUS
<1>2. PICK N \in Nat : N = Len(bag.views) /\ n + 1 \in 1..N /\ n < N
  BY DEF Restorable
<1>3. GoodStored(v) /\ (v.root = Home <=> n = 0)
  <2>1. v.root = Home <=> n + 1 = 1
    BY <1>1, <1>2, RestorableIs
  <2> QED
    BY <1>1, <1>2, <2>1, RestorableIs
<1>4. PICK m \in Nat : m = Len(w.vs) /\ m <= n /\ (n >= 1 => m >= 1) /\ w \in Desks /\ Laid(w.vs)
  BY DEF Restored, Laid
<1>5. PICK x : x = Remade(w, v)
  OBVIOUS
<1>6. x \in GoodViews /\ Back(w, v, x) /\ Comes(v, x)
  BY <1>3, <1>4, <1>5, RemadeIs, BackComes
<1>7. \A i \in 1..n + 1 : i \in 1..n \/ i = n + 1
  OBVIOUS
<1>8. n + 1 \in 1..n + 1 /\ \A i \in 1..n : i \in 1..n + 1
  OBVIOUS
<1>9. CASE (x.slots = <<>> /\ v.root # Home) \/ m >= MaxViews
  <2>1. r = w
    BY <1>1, <1>4, <1>5, <1>9, RebuiltIsAFold
  <2>2. n # 0
    BY <1>3, <1>4, <1>9, WorkspaceAssumption
  <2>3. m <= n + 1 /\ m >= 1
    BY <1>4, <2>2
  <2>4. ASSUME N <= MaxViews PROVE v.slots = <<>>
    <3>1. ~(m >= MaxViews)
      BY <1>2, <1>4, <2>4, WorkspaceAssumption
    <3>2. x.slots = <<>>
      BY <1>9, <3>1
    <3>3. Len(v.slots) = 0
      <4>1. Len(x.slots) = 0
        BY <3>2
      <4> QED
        BY <1>6, <4>1 DEF Back
    <3>4. PICK q \in Seq(StoredSlots) : q = v.slots
      BY <1>3 DEF GoodStored, Stored
    <3>5. q = <<>>
      BY <3>3, <3>4
    <3> QED
      BY <3>4, <3>5
  <2>5. \A u \in ToSet(w.vs) : \E i \in 1..n + 1 : Comes(bag.views[i], u)
    BY <1>8 DEF Restored
  <2>6. N <= MaxViews => \A i \in 1..n + 1 : bag.views[i].slots # <<>> => \E u \in ToSet(w.vs) : Comes(bag.views[i], u)
    BY <1>1, <1>2, <1>7, <2>4 DEF Restored
  <2> QED
    BY <1>2, <1>4, <2>1, <2>3, <2>5, <2>6 DEF Restored
<1>10. CASE ~((x.slots = <<>> /\ v.root # Home) \/ m >= MaxViews)
  <2>1. r = PushView(w, x)
    BY <1>1, <1>4, <1>5, <1>10, RebuiltIsAFold
  <2>2. New(w.vs, x)
    BY <1>1, <1>6, BackIsNew
  <2>3. x.root = Home <=> m = 0
    BY <1>3, <1>4, <1>6 DEF Back
  <2>4. r \in Desks /\ Laid(r.vs) /\ r.active = w.active /\ Len(r.vs) = m + 1 /\ ToSet(r.vs) = ToSet(w.vs) \cup {x}
    BY <1>4, <2>1, <2>2, <2>3, PushIs
  <2>5. Filled(r)
    <3>1. ~Bare(x)
      BY <1>6, <1>10, WorkspaceAssumption DEF Bare, Back
    <3> QED
      BY <2>4, <3>1 DEF Restored, Filled
  <2>6. m + 1 <= n + 1 /\ m + 1 >= 1
    BY <1>4
  <2>7. \A u \in ToSet(r.vs) : \E i \in 1..n + 1 : Comes(bag.views[i], u)
    BY <1>1, <1>6, <1>8, <2>4 DEF Restored
  <2>8. N <= MaxViews => \A i \in 1..n + 1 : bag.views[i].slots # <<>> => \E u \in ToSet(r.vs) : Comes(bag.views[i], u)
    BY <1>1, <1>2, <1>6, <1>7, <2>4 DEF Restored
  <2> QED
    BY <1>2, <2>4, <2>5, <2>6, <2>7, <2>8 DEF Restored
<1> QED
  BY <1>9, <1>10

Nothing == [vs |-> <<>>, active |-> 0]
LEMMA NothingIs ==
  ASSUME NEW b
  PROVE  Restored(b, 0, Nothing)
<1>1. <<>> \in Seq(GoodViews) /\ Len(<<>>) = 0 /\ DOMAIN <<>> = {} /\ ToSet(<<>>) = {}
  BY DEF ToSet
<1>2. Nothing \in Desks /\ Nothing.vs = <<>> /\ Nothing.active = 0
  BY <1>1 DEF Nothing, Desks
<1>3. Laid(<<>>)
  BY <1>1 DEF Laid, Apart, Homed, Separate
<1> QED
  BY <1>1, <1>2, <1>3 DEF Restored, Filled

LEMMA RestoringIs ==
  ASSUME NEW bag, Restorable(bag), NEW r, r = FoldLeft(Rebuilt, [vs |-> <<>>, active |-> 0], bag.views)
  PROVE  Restored(bag.views, Len(bag.views), r)
<1>1. PICK b \in Seq(Stored(StoredSlots)) : b = bag.views
  BY RestorableIs
<1>2. r = Restores!Folded(0, Nothing, b)
  BY ZenonT(40), <1>1 DEF Nothing, Restores!Folded, FoldLeft, MapThenFoldSet, Max, Restores!MapThenFoldSet, Restores!Greatest
<1>3. PICK N \in Nat : N = Len(b)
  OBVIOUS
<1>4. PICK f : Restores!Accumulates(0, f, Nothing, b) /\ r = f[N]
  BY <1>2, <1>3, Restores!FoldGoes
<1> DEFINE P(n) == n <= N => Restored(b, n, f[n])
           T == {n \in Nat : P(n)}
<1>5. P(0)
  <2>1. f[0] = Nothing
    BY <1>4 DEF Restores!Accumulates
  <2> QED
    BY <2>1, NothingIs
<1>6. ASSUME NEW n \in Nat, P(n), n + 1 <= N PROVE Restored(b, n + 1, f[n + 1])
  <2>1. n + 1 \in 1..N /\ (n + 1) - 1 = n /\ n <= N
    BY <1>6
  <2>2. PICK w : w = f[n] /\ Restored(b, n, w)
    BY <1>6, <2>1
  <2>3. f[n + 1] = Rebuilt(w, b[n + 1])
    BY <1>3, <1>4, <2>1, <2>2 DEF Restores!Accumulates
  <2> QED
    BY <1>1, <1>3, <1>6, <2>2, <2>3, RestoringStep
<1> HIDE DEF P
<1>7. Nat \subseteq T
  <2>1. 0 \in T /\ \A n \in Nat : n \in T => n + 1 \in T
    BY <1>5, <1>6 DEF P
  <2> HIDE DEF T
  <2> QED
    BY <2>1, Restores!Induction
<1>8. P(N) /\ N <= N
  BY <1>7
<1> QED
  BY <1>1, <1>3, <1>4, <1>8 DEF P

(* Home is first, made when nothing came back.                             *)
LEMMA HomeIs ==
  ASSUME NEW w \in Desks, Laid(w.vs), Filled(w), NEW r, r = EnsureHomeView(w)
  PROVE  Stands(r) /\ Filled(r) /\ (Len(w.vs) >= 1 => r = w)
<1>1. PICK q \in Seq(GoodViews) : q = w.vs
  BY DEF Desks
<1>2. CASE Len(q) >= 1
  <2>1. q # <<>>
    <3>1. Len(q) # 0
      BY <1>2
    <3> QED
      BY ONLY <3>1, Len(<<>>) = 0
  <2>2. w.vs[1].root = Home
    <3>1. 1 \in 1..Len(q)
      BY <1>2
    <3> QED
      BY <1>1, <3>1 DEF Laid, Homed
  <2>3. r = w
    BY <1>1, <2>1, <2>2 DEF EnsureHomeView
  <2> QED
    BY <1>1, <1>2, <2>3 DEF Stands
<1>3. CASE ~(Len(q) >= 1)
  <2>1. q = <<>> /\ Len(q) = 0
    BY <1>3
  <2>2. PICK e \in Seq(GoodSlots) : e = <<>> /\ Len(e) = 0 /\ Apart(e) /\ ToSet(e) = {}
    <3>1. <<>> \in Seq(GoodSlots) /\ Len(<<>>) = 0 /\ DOMAIN <<>> = {} /\ ToSet(<<>>) = {}
      BY DEF ToSet
    <3> QED
      BY <3>1 DEF Apart
  <2>3. PICK v : v = NewView(w, Home, e)
    OBVIOUS
  <2>4. Fresh(w, Home, e, v)
    <3>1. Home \in Roots
      BY DEF Roots
    <3>2. Len(e) <= 4 /\ Apart(e) /\ \A s \in ToSet(e) : s.id \notin Keyed(w)
      BY <2>2
    <3> QED
      BY <2>3, <3>1, <3>2, NewViewIs
  <2>5. New(w.vs, v) /\ v.root = Home
    BY <2>4 DEF Fresh
  <2>6. PICK z : z = PushView(w, v)
    OBVIOUS
  <2>12. Len(w.vs) = 0
    BY <1>1, <2>1
  <2>13. z \in Desks /\ Laid(z.vs) /\ Len(z.vs) = Len(w.vs) + 1 /\ ToSet(z.vs) = ToSet(w.vs) \cup {v}
    BY <2>5, <2>6, <2>12, PushIs
  <2>7. z \in Desks /\ Laid(z.vs) /\ Len(z.vs) >= 1 /\ ToSet(z.vs) = ToSet(w.vs) \cup {v}
    BY <2>12, <2>13
  <2>8. r = [w EXCEPT !.vs = <<v>>]
    <3>1. r = [w EXCEPT !.vs = <<v>> \o <<>>]
      BY <1>1, <2>1, <2>2, <2>3 DEF EnsureHomeView
    <3>2. <<v>> \in Seq({v})
      OBVIOUS
    <3>3. <<v>> \o <<>> = <<v>>
      BY <3>2, ConcatEmptySeq
    <3> QED
      BY <3>1, <3>3
  <2>9. z = [w EXCEPT !.vs = <<v>>]
    <3>1. Append(<<>>, v) = <<v>>
      OBVIOUS
    <3> QED
      BY <1>1, <2>1, <2>6, <3>1 DEF PushView
  <2>10. r = z
    BY <2>8, <2>9
  <2>14. ~(Len(w.vs) >= 1)
    BY <2>12
  <2>11. Filled(r)
    <3>1. ~Bare(v)
      BY <2>5, WorkspaceAssumption DEF Bare
    <3> QED
      BY <2>7, <2>10, <3>1 DEF Filled
  <2> QED
    BY <2>7, <2>10, <2>11, <2>14 DEF Stands
<1> QED
  BY <1>2, <1>3

(* What a load makes of a bag: the list of sessions has its places, and    *)
(* the views whose sessions live are back, the one that was shown too.     *)
Alive(v, list) == \A k \in 1..Len(v.slots) : v.slots[k].id \in Sessions => v.slots[k].id \in list
Revives(bag, list, r) ==
  Len(bag.views) <= MaxViews =>
    \A i \in 1..Len(bag.views) : bag.views[i].slots # <<>> /\ Alive(bag.views[i], list) =>
      \E u \in ToSet(r.vs) : Comes(bag.views[i], u) /\ (bag.active = u.id => r.active = u.id)
LEMMA LivingViews ==
  ASSUME NEW v, NEW u \in GoodViews, Comes(v, u), NEW list, Alive(v, list)
  PROVE  Lives(u, list)
<1>1. PICK n \in Nat : n = Len(u.slots) /\ n = Len(v.slots)
  BY GoodViewIs DEF Comes
<1>2. PICK q \in Seq(GoodSlots) : q = u.slots
  BY GoodViewIs
<1>3. ASSUME NEW s \in ToSet(u.slots) PROVE IsEditor(s) \/ s.id \in list
  <2>1. PICK k \in 1..n : u.slots[k] = s
    BY <1>1, <1>2, ToSetIs
  <2>2. Kept(v.slots[k], s)
    BY <1>1, <2>1 DEF Comes
  <2> QED
    BY <1>1, <2>2 DEF Kept, Alive
<1> QED
  BY <1>3 DEF Lives

LEMMA LoadingIs ==
  ASSUME NEW bag, Restorable(bag), NEW list, list \subseteq Sessions, NEW runOf, NEW r, r = Loaded(bag, list, runOf)
  PROVE  Sound(r) /\ list \subseteq Keyed(r) /\ (runOf = None \/ bag.run = runOf => Revives(bag, list, r))
<1>1. PICK keep : keep = (runOf = None \/ bag.run = runOf)
  OBVIOUS
<1>2. PICK kept : kept = FoldLeft(Rebuilt, [vs |-> <<>>, active |-> 0], IF keep THEN bag.views ELSE <<>>)
  OBVIOUS
<1>3. PICK first : first = IF keep /\ Has(kept, bag.active) THEN Activate(kept, bag.active)
                           ELSE IF kept.vs = <<>> THEN kept ELSE Activate(kept, kept.vs[1].id)
  OBVIOUS
<1>4. r = NormalizeActive(ReconcileViews(EnsureHomeView(first), list, None))
  BY <1>1, <1>2, <1>3 DEF Loaded
<1>14. PICK b \in Seq(Stored(StoredSlots)) : b = bag.views
  BY RestorableIs
<1>5. PICK N \in Nat : b = bag.views /\ N = Len(b)
  BY <1>14
<1>6. /\ keep => Restored(b, N, kept)
      /\ kept \in Desks /\ Laid(kept.vs) /\ Filled(kept)
  <2>1. CASE keep
    <3>1. kept = FoldLeft(Rebuilt, [vs |-> <<>>, active |-> 0], bag.views)
      BY <1>2, <2>1
    <3>2. Restored(b, N, kept)
      BY <1>5, <3>1, RestoringIs
    <3> QED
      BY <3>2 DEF Restored
  <2>2. CASE ~keep
    <3>1. kept = FoldLeft(Rebuilt, [vs |-> <<>>, active |-> 0], <<>>)
      BY <1>2, <2>2
    <3>2. kept = Restores!Folded(0, Nothing, <<>>)
      BY Zenon, <3>1 DEF Nothing, Restores!Folded, FoldLeft, MapThenFoldSet, Max, Restores!MapThenFoldSet, Restores!Greatest
    <3>3. <<>> \in Seq({}) /\ Len(<<>>) = 0
      OBVIOUS
    <3>4. PICK f : Restores!Accumulates(0, f, Nothing, <<>>) /\ kept = f[0]
      BY ZenonT(40), <3>2, <3>3, Restores!FoldGoes
    <3>5. kept = Nothing
      BY <3>4 DEF Restores!Accumulates
    <3>6. Restored(b, 0, Nothing)
      BY NothingIs
    <3> QED
      BY <2>2, <3>5, <3>6 DEF Restored
  <2> QED
    BY <2>1, <2>2
<1>7. first \in Desks /\ first.vs = kept.vs
  <2>1. CASE keep /\ Has(kept, bag.active)
    BY <1>3, <1>6, <2>1 DEF Activate, Desks, Restorable
  <2>2. CASE ~(keep /\ Has(kept, bag.active)) /\ kept.vs = <<>>
    BY <1>3, <1>6, <2>2
  <2>3. CASE ~(keep /\ Has(kept, bag.active)) /\ kept.vs # <<>>
    <3>1. PICK q \in Seq(GoodViews) : q = kept.vs
      BY <1>6 DEF Desks
    <3>2. q[1] \in GoodViews
      BY <2>3, <3>1
    <3>3. kept.vs[1].id \in Nat
      BY <3>1, <3>2, GoodViewIs
    <3> QED
      BY <1>3, <1>6, <2>3, <3>3 DEF Activate, Desks
  <2> QED
    BY <2>1, <2>2, <2>3
<1>8. PICK home : home = EnsureHomeView(first)
  OBVIOUS
<1>9. Stands(home) /\ Filled(home) /\ (Len(kept.vs) >= 1 => home = first)
  BY <1>6, <1>7, <1>8, HomeIs DEF Filled
<1>10. PICK some : some = ReconcileViews(home, list, None)
  OBVIOUS
<1>11. Cleaned(home, list, some) /\ list \subseteq Keyed(some)
  BY <1>9, <1>10, ReconcilingKeeps
<1>12. Sound(r) /\ r.vs = some.vs /\ (Has(some, some.active) => r = some)
  BY <1>4, <1>8, <1>10, <1>11, NormalizingIs DEF Cleaned
<1>13. ASSUME keep, N <= MaxViews, NEW i \in 1..N, b[i].slots # <<>>, Alive(b[i], list)
       PROVE  \E u \in ToSet(r.vs) : Comes(b[i], u) /\ (bag.active = u.id => r.active = u.id)
  <2>1. PICK u \in ToSet(kept.vs) : Comes(b[i], u)
    BY <1>5, <1>6, <1>13 DEF Restored
  <2>2. home = first
    <3>1. Restored(b, N, kept) /\ N >= 1
      BY <1>6, <1>13
    <3> QED
      BY <1>9, <3>1 DEF Restored
  <2>3. u \in ToSet(home.vs) /\ u \in GoodViews
    BY <1>7, <1>9, <2>1, <2>2, TabsAre
  <2>4. Lives(u, list)
    BY <1>13, <2>1, <2>3, LivingViews
  <2>5. u \in ToSet(some.vs) /\ (home.active = u.id => some.active = u.id)
    BY <1>11, <2>3, <2>4 DEF Cleaned
  <2>6. ASSUME bag.active = u.id PROVE r.active = u.id
    <3>1. Has(home, u.id)
      BY <1>9, <2>3, TabsAre
    <3>2. Has(kept, bag.active)
      BY <1>7, <2>2, <2>6, <3>1 DEF Has, At
    <3>3. first.active = bag.active
      BY <1>3, <1>6, <1>13, <3>2 DEF Activate, Desks
    <3>4. some.active = u.id
      BY <2>2, <2>5, <2>6, <3>3
    <3>5. Has(some, some.active)
      BY <1>11, <2>5, <3>4, TabsAre DEF Cleaned
    <3> QED
      BY <1>12, <3>4, <3>5
  <2> QED
    BY <1>12, <2>1, <2>5, <2>6
<1> QED
  BY <1>1, <1>5, <1>11, <1>12, <1>13 DEF Keyed, Revives

-----------------------------------------------------------------------------
(***************************************************************************)
(* What is stored of an arrangement can be loaded                          *)
(***************************************************************************)
Stowed(s) == IF IsEditor(s) THEN [s EXCEPT !.id = None] ELSE s
LEMMA StowedIs ==
  ASSUME NEW s \in GoodSlots, NEW x, x = Stowed(s)
  PROVE  /\ x \in StoredSlots /\ StoredSlot(x) /\ x.tabs = s.tabs /\ x.active = s.active
         /\ IF IsEditor(s) THEN x.id = None ELSE x = s /\ x.id \in Sessions /\ x.id # None
<1>1. CASE IsEditor(s)
  <2>1. x.id = None /\ x.tabs = s.tabs /\ x.active = s.active /\ x \in StoredSlots
    BY <1>1, SlotIs DEF Stowed, StoredSlots, GoodSlots, SlotT
  <2>2. Strip(x)
    BY <1>1, <2>1, SlotIs DEF Strip
  <2> QED
    BY <1>1, <2>1, <2>2 DEF StoredSlot
<1>2. CASE ~IsEditor(s)
  <2>1. x = s /\ s = SessionSlot(s.id) /\ s.id \in Sessions
    BY <1>2, SlotIs DEF Stowed, IsEditor
  <2>2. x.id # None
    BY <2>1, WorkspaceAssumption
  <2>3. x \in StoredSlots
    BY <2>1, SlotIs DEF StoredSlots, GoodSlots, SlotT
  <2> QED
    BY <1>2, <2>1, <2>2, <2>3 DEF StoredSlot
<1> QED
  BY <1>1, <1>2

Persisted(v, n, x) ==
  /\ GoodStored(x) /\ x.id = v.id /\ x.root = v.root /\ x.focused = v.focused /\ x.l3 = v.l3 /\ Len(x.slots) = n
  /\ \A k \in 1..n : x.slots[k] = Stowed(v.slots[k])
LEMMA PersistIs ==
  ASSUME NEW v \in GoodViews, NEW n \in Nat, n = Len(v.slots), NEW x, x = Persist(v)
  PROVE  Persisted(v, n, x)
<1>1. PICK q \in Seq(GoodSlots) : q = v.slots /\ Len(q) = n /\ DOMAIN q = 1..n /\ Apart(q) /\ n <= 4
  BY GoodViewIs DEF GoodViews
<1>2. PICK p : p = [i \in 1..n |-> Stowed(q[i])]
  OBVIOUS
<1>3. PICK f : f = Clamp(1, v.focused, n)
  OBVIOUS
<1>4. x = [v EXCEPT !.slots = p, !.focused = f]
  <2>1. [i \in DOMAIN v.slots |-> IF IsEditor(v.slots[i]) THEN [v.slots[i] EXCEPT !.id = None] ELSE v.slots[i]] = p
    BY <1>1, <1>2 DEF Stowed
  <2>2. x = [v EXCEPT !.slots = [i \in DOMAIN v.slots |-> IF IsEditor(v.slots[i]) THEN [v.slots[i] EXCEPT !.id = None] ELSE v.slots[i]],
                      !.focused = Clamp(1, @, Len(v.slots))]
    BY DEF Persist
  <2> QED
    BY <1>1, <1>3, <2>1, <2>2
<1>5. f = v.focused /\ f \in 1..4 /\ (f = 1 \/ f <= n)
  <2>1. v.focused \in 1..4 /\ (v.focused = 1 \/ v.focused <= n)
    BY <1>1 DEF GoodViews, InFocus
  <2> QED
    BY <1>3, <2>1 DEF Clamp
<1>6. p \in Seq(StoredSlots) /\ Len(p) = n /\ \A k \in 1..n : p[k] = Stowed(q[k]) /\ StoredSlot(p[k])
  <2>1. \A k \in 1..n : p[k] = Stowed(q[k]) /\ p[k] \in StoredSlots /\ StoredSlot(p[k])
    BY <1>1, <1>2, StowedIs
  <2>2. p \in [1..n -> StoredSlots]
    BY ONLY <1>2, <2>1
  <2>3. p \in Seq(StoredSlots) /\ Len(p) = n
    BY ONLY <2>2, n \in Nat
  <2> QED
    BY <2>1, <2>3
<1>7. ASSUME NEW k \in 1..n, NEW l \in 1..n, p[k].id = p[l].id PROVE k = l \/ p[k].id = None
  <2>1. q[k] \in GoodSlots /\ q[l] \in GoodSlots /\ p[k] = Stowed(q[k]) /\ p[l] = Stowed(q[l])
    BY <1>1, <1>6
  <2>2. CASE IsEditor(q[k])
    BY <2>1, <2>2, StowedIs
  <2>3. CASE IsEditor(q[l])
    BY <1>7, <2>1, <2>3, StowedIs
  <2>4. CASE ~IsEditor(q[k]) /\ ~IsEditor(q[l])
    <3>1. p[k] = q[k] /\ p[l] = q[l]
      BY <2>1, <2>4, StowedIs
    <3> QED
      BY <1>1, <1>7, <3>1 DEF Apart
  <2> QED
    BY <2>2, <2>3, <2>4
<1>8. /\ x.id = v.id /\ x.root = v.root /\ x.focused = f /\ x.l3 = v.l3 /\ x.slots = p
      /\ x \in Stored(StoredSlots)
  BY <1>4, <1>5, <1>6 DEF GoodViews, ViewsOf, Stored
<1>9. x.focused \in 1..Clamp(1, n, 4)
  <2>1. Clamp(1, n, 4) = IF n < 1 THEN 1 ELSE n
    BY <1>1 DEF Clamp
  <2> QED
    BY <1>5, <1>8, <2>1
<1>10. GoodStored(x)
  BY <1>1, <1>6, <1>7, <1>8, <1>9 DEF GoodStored
<1> QED
  BY <1>1, <1>5, <1>6, <1>8, <1>10 DEF Persisted

(* The views as they are stored.                                           *)
Keeping(w, bag) == bag = [views |-> [i \in DOMAIN w.vs |-> Persist(w.vs[i])], active |-> w.active, run |-> bag.run]
LEMMA KeepingIs ==
  ASSUME NEW w, Stands(w), NEW bag, Keeping(w, bag)
  PROVE  /\ Restorable(bag) /\ Len(bag.views) = Len(w.vs)
         /\ \A i \in 1..Len(w.vs) : Persisted(w.vs[i], Len(w.vs[i].slots), bag.views[i])
<1>1. PICK q \in Seq(GoodViews) : q = w.vs /\ Apart(q) /\ Homed(q) /\ w.active \in Nat
  BY TabsAre DEF Stands, Laid
<1>2. PICK n \in Nat : n = Len(q) /\ DOMAIN q = 1..n
  OBVIOUS
<1>3. PICK b : b = bag.views /\ b = [i \in 1..n |-> Persist(q[i])]
  BY <1>1, <1>2 DEF Keeping
<1>4. \A i \in 1..n : Persisted(q[i], Len(q[i].slots), b[i])
  <2> SUFFICES ASSUME NEW i \in 1..n PROVE Persisted(q[i], Len(q[i].slots), b[i])
    OBVIOUS
  <2>1. q[i] \in GoodViews
    BY <1>2
  <2>2. Len(q[i].slots) \in Nat
    BY <2>1, GoodViewIs
  <2> QED
    BY <1>3, <2>1, <2>2, PersistIs
<1>5. b \in Seq(Stored(StoredSlots)) /\ Len(b) = n
  <2>1. \A i \in 1..n : b[i] \in Stored(StoredSlots)
    BY <1>4 DEF Persisted, GoodStored
  <2> QED
    BY <1>3, <2>1
<1>6. \A i \in 1..n : GoodStored(b[i]) /\ (b[i].root = Home <=> i = 1)
  BY <1>1, <1>2, <1>4 DEF Persisted, Homed
<1>7. \A i, j \in 1..n : b[i].id = b[j].id => i = j
  BY <1>1, <1>2, <1>4 DEF Persisted, Apart
<1>8. ASSUME NEW i \in 1..n, NEW j \in 1..n, NEW k \in 1..Len(b[i].slots), NEW l \in 1..Len(b[j].slots), b[i].slots[k].id = b[j].slots[l].id
      PROVE  (i = j /\ k = l) \/ b[i].slots[k].id = None
  <2>1. PICK u, v : u = q[i] /\ v = q[j]
    OBVIOUS
  <2>2. u \in GoodViews /\ v \in GoodViews /\ u \in ToSet(w.vs) /\ v \in ToSet(w.vs)
    BY <1>1, <1>2, <2>1, ToSetIs
  <2>3. k \in 1..Len(u.slots) /\ l \in 1..Len(v.slots) /\ b[i].slots[k] = Stowed(u.slots[k]) /\ b[j].slots[l] = Stowed(v.slots[l])
    BY <1>4, <1>8, <2>1 DEF Persisted
  <2>4. /\ u.slots[k] \in GoodSlots /\ v.slots[l] \in GoodSlots
        /\ u.slots[k] \in ToSet(u.slots) /\ v.slots[l] \in ToSet(v.slots)
    BY <2>2, <2>3, SlotOf
  <2>5. CASE IsEditor(u.slots[k])
    BY <2>3, <2>4, <2>5, StowedIs
  <2>6. CASE IsEditor(v.slots[l])
    BY <1>8, <2>3, <2>4, <2>6, StowedIs
  <2>7. CASE ~IsEditor(u.slots[k]) /\ ~IsEditor(v.slots[l])
    <3>1. u.slots[k].id = v.slots[l].id
      BY <1>8, <2>3, <2>4, <2>7, StowedIs
    <3>2. u = v
      BY <2>2, <2>4, <3>1, KeyApart
    <3>3. i = j
      BY <1>1, <1>2, <2>1, <3>2 DEF Apart
    <3>4. k = l
      BY <2>2, <2>3, <3>1, <3>2 DEF GoodViews, ViewsOf, Apart
    <3> QED
      BY <3>3, <3>4
  <2> QED
    BY <2>5, <2>6, <2>7
<1>9. Restorable(bag)
  <2>1. \A i \in 1..n : /\ Len(b[i].slots) <= MAX_PANES /\ b[i].focused \in 1..Clamp(1, Len(b[i].slots), MAX_PANES)
                        /\ \A k \in 1..Len(b[i].slots) : StoredSlot(b[i].slots[k])
    BY <1>6 DEF GoodStored, MAX_PANES
  <2>2. bag.views \in Seq(Stored(StoredSlots)) /\ bag.active \in Nat
    BY <1>1, <1>3, <1>5 DEF Keeping
  <2>3. ASSUME NEW i \in 1..Len(bag.views)
        PROVE  LET v == bag.views[i] IN
               /\ v.root = Home <=> i = 1
               /\ Len(v.slots) <= MAX_PANES /\ v.focused \in 1..Clamp(1, Len(v.slots), MAX_PANES)
               /\ \A k \in 1..Len(v.slots) :
                    IF v.slots[k].id = None THEN Strip(v.slots[k]) ELSE v.slots[k] = SessionSlot(v.slots[k].id)
    <3>1. i \in 1..n
      BY <1>3, <1>5
    <3> QED
      BY <1>3, <1>6, <2>1, <3>1 DEF StoredSlot
  <2>4. \A i, j \in 1..Len(bag.views) : bag.views[i].id = bag.views[j].id => i = j
    BY <1>3, <1>5, <1>7
  <2>5. \A i, j \in 1..Len(bag.views) : \A k \in 1..Len(bag.views[i].slots) : \A l \in 1..Len(bag.views[j].slots) :
          bag.views[i].slots[k].id = bag.views[j].slots[l].id => (i = j /\ k = l) \/ bag.views[i].slots[k].id = None
    BY <1>3, <1>5, <1>8
  <2> QED
    BY <2>2, <2>3, <2>4, <2>5 DEF Restorable
<1> QED
  BY <1>1, <1>2, <1>3, <1>4, <1>5, <1>9

LEMMA SessionIdsAre ==
  ASSUME NEW v \in GoodViews, NEW s \in Sessions
  PROVE  s \in SessionIds(v) <=> s \in SlotIds(v)
<1>1. v.slots \in Seq(GoodSlots)
  BY GoodViewIs
<1>2. IndexOfSlot(v, s) > 0 <=> s \in SlotIds(v)
  <2>1. PICK q \in Seq(GoodSlots) : q = v.slots
    BY <1>1
  <2>2. PICK i \in 0..Len(q) : /\ i = IndexOfSlot(v, s) /\ (i > 0 => q[i].id = s)
                               /\ (i = 0 => \A k \in 1..Len(q) : q[k].id # s)
    BY <2>1, IndexIs
  <2>3. s \in SlotIds(v) <=> \E k \in 1..Len(q) : q[k].id = s
    BY <2>1, ToSetIs DEF SlotIds
  <2>4. CASE i > 0
    <3>1. i \in 1..Len(q)
      BY <2>4
    <3> QED
      BY <2>2, <2>3, <2>4, <3>1
  <2>5. CASE ~(i > 0)
    <3>1. i = 0
      BY <2>5
    <3> QED
      BY <2>2, <2>3, <2>5, <3>1
  <2> QED
    BY <2>4, <2>5
<1> QED
  BY <1>2 DEF SessionIds

LEMMA OnePlace ==
  ASSUME NEW w, Stands(w), NEW s \in Sessions, s \in Keyed(w)
  PROVE  Cardinality(ViewsOfSession(w, s)) = 1
<1>1. PICK v : v = ViewOfSession(w, s) /\ v \in ToSet(w.vs) /\ ViewsOfSession(w, s) # {} /\ \A u \in ToSet(w.vs) : s \in SlotIds(u) => u = v
  BY PlaceIs
<1>2. ASSUME NEW u \in ViewsOfSession(w, s) PROVE u = v
  <2>1. u \in ToSet(w.vs) /\ IndexOfSlot(u, s) > 0
    BY <1>2 DEF ViewsOfSession
  <2>2. u \in GoodViews /\ s \in SessionIds(u)
    BY <2>1, TabsAre DEF SessionIds
  <2> QED
    BY <1>1, <2>1, <2>2, SessionIdsAre
<1>3. ViewsOfSession(w, s) = {v}
  BY <1>1, <1>2
<1> QED
  BY <1>3, FS_Singleton

LEMMA ReloadIsTheSame ==
  ASSUME Sound(w0), Keeping(w0, stored), server \subseteq Sessions
  PROVE  ReloadShowsTheSame
<1>1. PICK w : w = Loaded(stored, server, stored.run)
  OBVIOUS
<1>2. Stands(w0) /\ w0.vs = views /\ w0.active = activeViewId
  BY DEF Sound, Firm, w0
<1>3. Restorable(stored) /\ Len(stored.views) = Len(views)
      /\ \A i \in 1..Len(views) : Persisted(views[i], Len(views[i].slots), stored.views[i])
  BY <1>2, KeepingIs
<1>4. Sound(w) /\ server \subseteq Keyed(w) /\ Revives(stored, server, w)
  BY <1>1, <1>3, LoadingIs
<1>5. Stands(w)
  BY <1>4 DEF Sound, Firm
<1>6. \A s \in server : Cardinality(ViewsOfSession(w, s)) = 1
  BY <1>4, <1>5, OnePlace
<1>7. ASSUME Len(views) <= MaxViews, NEW v \in ToSet(views), v.slots # <<>>, SessionIds(v) \subseteq server
      PROVE  /\ Has(w, v.id)
             /\ LET u == View(w, v.id) IN
                /\ u.root = v.root /\ u.focused = v.focused /\ u.l3 = v.l3 /\ Len(u.slots) = Len(v.slots)
                /\ \A i \in DOMAIN v.slots : Alike(v.slots[i], u.slots[i])
             /\ v.id = activeViewId => w.active = v.id
  <2>1. PICK i \in 1..Len(views) : v = views[i]
    BY <1>2, TabsAre, ToSetIs
  <2>2. v \in GoodViews
    BY <1>2, TabsAre
  <2>3. PICK q \in Seq(GoodSlots), n \in Nat : q = v.slots /\ n = Len(q) /\ DOMAIN q = 1..n
    BY <2>2, GoodViewIs
  <2>4. PICK x : x = stored.views[i] /\ Persisted(v, n, x)
    BY <1>3, <2>1, <2>3
  <2>5. x.slots # <<>>
    <3>1. Len(q) # 0
      BY <1>7, <2>3
    <3> QED
      BY <2>3, <2>4, <3>1 DEF Persisted
  <2>6. \A k \in 1..n : q[k] \in GoodSlots /\ q[k] \in ToSet(q) /\ x.slots[k] = Stowed(q[k])
    BY <2>3, <2>4, ToSetIs DEF Persisted
  <2>7. Alive(x, server)
    <3> SUFFICES ASSUME NEW k \in 1..n, x.slots[k].id \in Sessions PROVE x.slots[k].id \in server
      BY <2>4 DEF Alive, Persisted
    <3>1. x.slots[k] = q[k]
      BY <2>6, StowedIs, WorkspaceAssumption
    <3>2. q[k].id \in SlotIds(v)
      BY <2>3, <2>6 DEF SlotIds
    <3> QED
      BY <1>7, <2>2, <3>1, <3>2, SessionIdsAre
  <2>8. PICK u \in ToSet(w.vs) : Comes(x, u) /\ (stored.active = u.id => w.active = u.id)
    BY <1>3, <1>4, <1>7, <2>1, <2>4, <2>5, <2>7 DEF Revives
  <2>9. u.id = v.id /\ u.root = v.root /\ u.focused = v.focused /\ u.l3 = v.l3 /\ Len(u.slots) = n
    BY <2>4, <2>8 DEF Comes, Persisted
  <2>10. Has(w, v.id) /\ View(w, v.id) = u
    BY <1>5, <2>8, <2>9, TabsAre
  <2>11. ASSUME NEW k \in 1..n PROVE Alike(q[k], u.slots[k])
    <3>1. Kept(x.slots[k], u.slots[k])
      BY <2>4, <2>8 DEF Comes, Persisted
    <3> QED
      BY <2>6, <3>1, StowedIs DEF Kept, Alike
  <2>12. v.id = activeViewId => w.active = v.id
    BY <1>2, <2>8, <2>9 DEF Keeping
  <2> QED
    BY <2>3, <2>9, <2>10, <2>11, <2>12
<1> QED
  BY <1>1, <1>6, <1>7 DEF ReloadShowsTheSame

-----------------------------------------------------------------------------
(***************************************************************************)
(* The invariant, and how a step keeps it                                  *)
(***************************************************************************)
Arranged == Sound(w0) /\ Keeping(w0, stored)
(* What a door keeps until its question is answered, and what a request is *)
(* about.                                                                  *)
Doors == {"open", "endView", "closeSlot", "closeTab", "openAt"}
Doable(a) ==
  /\ a.op \in Doors
  /\ a.op = "open" => a.root \in {Home} \cup Projects /\ a.tab \in Files \cup Diffs
  /\ a.op = "openAt" => a.tab \in Files
Answerable(c) ==
  /\ c = [op |-> c.op, id |-> c.id, done |-> c.done, view |-> c.view, slot |-> c.slot, new |-> c.new, left |-> c.left, ids |-> c.ids]
  /\ c.op \in {"create", "kill", "relaunch", "endView"}
  /\ c.op # "create" => c.id \in Sessions
  /\ Starts(c.op) /\ c.done => c.new \in Sessions
  /\ c.left \in Seq(Sessions)
Pending ==
  /\ known \subseteq Sessions /\ server \subseteq Sessions /\ fresh \subseteq Sessions
  /\ poll # None => poll \subseteq Sessions
  /\ asked # None => Doable(asked)
  /\ call # None => Answerable(call)

LEMMA SoundIs ==
  ASSUME NEW w, Sound(w)
  PROVE  w = [vs |-> w.vs, active |-> w.active]
BY DEF Sound, Firm, Stands, Desks

LEMMA ShownIs ==
  ASSUME NEW w, Sound(w), Shown(w)
  PROVE  w0' = w /\ Arranged'
<1>1. w0' = w
  BY SoundIs DEF Shown, w0
<1>2. Keeping(w, stored')
  BY DEF Shown, Saved, Keeping
<1> QED
  BY <1>1, <1>2 DEF Arranged
LEMMA SameShown ==
  ASSUME Arranged, UNCHANGED <<views, activeViewId, stored>>
  PROVE  w0' = w0 /\ Arranged'
BY DEF Arranged, w0

(* A step keeps the arrangement, and the tabs of what is unsaved.          *)
Advances == Arranged' /\ Pending' /\ (EditsHaveTabs => EditsHaveTabs')
LEMMA UnprunedStep ==
  ASSUME Arranged, Pending, NEW w, Sound(w), FilesKept(w0, w), RearrangesUnpruned(w)
  PROVE  Advances
<1>1. Shown(w) /\ UNCHANGED <<known, edits, startedAt, backend, call, poll, asked>>
  BY DEF RearrangesUnpruned
<1>2. w0' = w /\ Arranged'
  BY <1>1, ShownIs
<1>3. Pending'
  BY <1>1 DEF Pending, backend
<1>4. ASSUME EditsHaveTabs PROVE EditsHaveTabs'
  <2>1. views = w0.vs /\ views' = w.vs
    BY <1>1 DEF Shown, w0
  <2> QED
    BY <1>1, <1>4, <2>1 DEF EditsHaveTabs, FilesKept
<1> QED
  BY <1>2, <1>3, <1>4 DEF Advances

LEMMA PrunedStep ==
  ASSUME Arranged, Pending, NEW w, Sound(w), Rearranges(w)
  PROVE  Advances
<1>1. Shown(w) /\ edits' = {f \in edits : f \in OpenFiles(w.vs)} /\ UNCHANGED <<known, startedAt, backend, call, poll, asked>>
  BY DEF Rearranges
<1>2. w0' = w /\ Arranged'
  BY <1>1, ShownIs
<1>3. Pending'
  BY <1>1 DEF Pending, backend
<1>4. EditsHaveTabs'
  BY <1>1 DEF EditsHaveTabs, Shown
<1> QED
  BY <1>2, <1>3, <1>4 DEF Advances

(* The tab that is shown.                                                  *)
LEMMA ShowsIs ==
  ASSUME Arranged
  PROVE  /\ Sound(w0) /\ Stands(w0) /\ w0.vs = views /\ w0.active = activeViewId
         /\ Has(w0, activeViewId) /\ Shows = View(w0, activeViewId) /\ Shows \in GoodViews /\ Shows \in ToSet(views) /\ Shows.id = activeViewId
         /\ DOMAIN Shows.slots = 1..Len(Shows.slots)
         /\ \A id \in Ids(views) : Has(w0, id)
<1>1. Sound(w0) /\ Stands(w0) /\ w0.vs = views /\ w0.active = activeViewId
  BY DEF Arranged, Sound, Firm, w0
<1>2. Has(w0, activeViewId)
  BY <1>1 DEF Sound, Firm
<1>3. Shows = View(w0, activeViewId) /\ Shows \in GoodViews /\ Shows \in ToSet(views) /\ Shows.id = activeViewId
  BY <1>1, <1>2, SoundTabs DEF Shows
<1>4. DOMAIN Shows.slots = 1..Len(Shows.slots)
  BY <1>3, GoodViewIs
<1>5. \A id \in Ids(views) : Has(w0, id)
  BY <1>1, TabsAre
<1> QED
  BY <1>1, <1>2, <1>3, <1>4, <1>5

LEMMA SelectsStep ==
  ASSUME Arranged, Pending, Selects
  PROVE  Advances
<1>1. CASE \E id \in Ids(views) : RearrangesUnpruned(Activate(w0, id))
  <2>1. PICK id \in Ids(views) : RearrangesUnpruned(Activate(w0, id))
    BY <1>1
  <2>2. PICK w : w = Activate(w0, id)
    OBVIOUS
  <2>3. Sound(w) /\ w.vs = w0.vs
    BY <2>2, ShowsIs, ActivateIs
  <2> QED
    BY <2>1, <2>2, <2>3, UnprunedStep DEF FilesKept
<1>2. CASE \E i \in DOMAIN Shows.slots : RearrangesUnpruned(Put(w0, [Shows EXCEPT !.focused = i]))
  <2>1. PICK i \in 1..Len(Shows.slots) : RearrangesUnpruned(Put(w0, [Shows EXCEPT !.focused = i]))
    BY <1>2, ShowsIs
  <2>2. PICK w : w = Put(w0, [Shows EXCEPT !.focused = i])
    OBVIOUS
  <2>3. Sound(w) /\ EditorsKept(w0, w)
    BY <2>2, ShowsIs, FocusSlotKeeps
  <2>4. FilesKept(w0, w)
    BY <2>3, ShowsIs, KeptFiles
  <2> QED
    BY <2>1, <2>2, <2>3, <2>4, UnprunedStep
<1>3. CASE \E i \in Editors(Shows) : \E t \in DOMAIN Shows.slots[i].tabs :
             RearrangesUnpruned(Put(w0, [Shows EXCEPT !.slots[i] = Raised(Shows.slots[i], t)]))
  <2>4. PICK i \in Editors(Shows) : \E t \in DOMAIN Shows.slots[i].tabs :
          RearrangesUnpruned(Put(w0, [Shows EXCEPT !.slots[i] = Raised(Shows.slots[i], t)]))
    BY <1>3
  <2>1. PICK t \in DOMAIN Shows.slots[i].tabs : RearrangesUnpruned(Put(w0, [Shows EXCEPT !.slots[i] = Raised(Shows.slots[i], t)]))
    BY <2>4
  <2>2. PICK w : w = Put(w0, [Shows EXCEPT !.slots[i] = Raised(Shows.slots[i], t)])
    OBVIOUS
  <2>3. Sound(w) /\ FilesKept(w0, w)
    BY <2>2, ShowsIs, RaisingKeeps
  <2> QED
    BY <2>1, <2>2, <2>3, UnprunedStep
<1>4. CASE \E s \in known : RearrangesUnpruned(FocusSession(w0, s))
  <2>1. PICK s \in Sessions : RearrangesUnpruned(FocusSession(w0, s))
    BY <1>4 DEF Pending
  <2>2. PICK w : w = FocusSession(w0, s)
    OBVIOUS
  <2>3. Sound(w) /\ EditorsKept(w0, w)
    BY <2>2, ShowsIs, FocusingKeeps
  <2>4. FilesKept(w0, w)
    BY <2>3, ShowsIs, KeptFiles
  <2> QED
    BY <2>1, <2>2, <2>3, <2>4, UnprunedStep
<1> QED
  BY <1>1, <1>2, <1>3, <1>4 DEF Selects

LEMMA MovableIs ==
  ASSUME Arranged, NEW id \in Movable
  PROVE  Has(w0, id) /\ View(w0, id).root # Home
<1>1. PICK v \in ToSet(views) : v.root # Home /\ v.id = id
  BY DEF Movable
<1>2. Has(w0, id) /\ View(w0, id) = v
  BY <1>1, ShowsIs, TabsAre
<1> QED
  BY <1>1, <1>2

(* Where there is a zone there is room.                                    *)
LEMMA ZoneHasRoom ==
  ASSUME NEW v, NEW n \in Nat, n = Len(v.slots), NEW slot, NEW count \in Nat, NEW zone \in DropZonesFor(v, slot, count)
  PROVE  n + count <= 4
BY DEF DropZonesFor, MAX_PANES

LEMMA KeepingStep ==
  ASSUME Arranged, Pending, NEW w, Sound(w), EditorsKept(w0, w), RearrangesUnpruned(w)
  PROVE  Advances
<1>1. FilesKept(w0, w)
  BY ShowsIs, KeptFiles
<1> QED
  BY <1>1, UnprunedStep

LEMMA DragsTabStep ==
  ASSUME Arranged, Pending, DragsTab
  PROVE  Advances
<1>1. PICK id \in Movable :
        \/ \E to \in FirstMovableIndex..Len(views) + 1 : RearrangesUnpruned(ReorderView(w0, id, to))
        \/ \E t \in Ids(views) \ {id} :
             /\ Len(View(w0, t).slots) + Len(View(w0, id).slots) <= MAX_PANES
             /\ RearrangesUnpruned(MergeViews(w0, t, id, 1, "fill"))
        \/ \E slot \in DOMAIN Shows.slots : \E zone \in DroppedOn(slot, Len(View(w0, id).slots)) :
             /\ id # activeViewId
             /\ RearrangesUnpruned(MergeViews(w0, activeViewId, id, slot, zone))
  BY DEF DragsTab
<1>2. Has(w0, id) /\ View(w0, id).root # Home
  BY MovableIs
<1>3. CASE \E to \in FirstMovableIndex..Len(views) + 1 : RearrangesUnpruned(ReorderView(w0, id, to))
  <2>1. PICK to \in Int : RearrangesUnpruned(ReorderView(w0, id, to))
    BY <1>3
  <2>2. PICK w : w = ReorderView(w0, id, to)
    OBVIOUS
  <2>3. Sound(w) /\ EditorsKept(w0, w)
    BY <1>2, <2>2, ShowsIs, ReorderingKeeps
  <2> QED
    BY <2>1, <2>2, <2>3, KeepingStep
<1>4. CASE \E t \in Ids(views) \ {id} :
             /\ Len(View(w0, t).slots) + Len(View(w0, id).slots) <= MAX_PANES
             /\ RearrangesUnpruned(MergeViews(w0, t, id, 1, "fill"))
  <2>1. PICK t \in Ids(views) \ {id} : /\ Len(View(w0, t).slots) + Len(View(w0, id).slots) <= 4
                                       /\ RearrangesUnpruned(MergeViews(w0, t, id, 1, "fill"))
    BY <1>4 DEF MAX_PANES
  <2>2. PICK w : w = MergeViews(w0, t, id, 1, "fill")
    OBVIOUS
  <2>3. Sound(w0) /\ Has(w0, t) /\ t # id
    BY <2>1, ShowsIs
  <2>4. Sound(w) /\ EditorsKept(w0, w)
    BY <1>2, <2>1, <2>2, <2>3, MergingKeeps
  <2> QED
    BY <2>1, <2>2, <2>4, KeepingStep
<1>5. CASE \E slot \in DOMAIN Shows.slots : \E zone \in DroppedOn(slot, Len(View(w0, id).slots)) :
             /\ id # activeViewId
             /\ RearrangesUnpruned(MergeViews(w0, activeViewId, id, slot, zone))
  <2>1. PICK slot, zone : /\ zone \in DroppedOn(slot, Len(View(w0, id).slots)) /\ id # activeViewId
                          /\ RearrangesUnpruned(MergeViews(w0, activeViewId, id, slot, zone))
    BY <1>5
  <2>2. PICK w : w = MergeViews(w0, activeViewId, id, slot, zone)
    OBVIOUS
  <2>3. Sound(w0) /\ Has(w0, activeViewId) /\ Shows = View(w0, activeViewId)
    BY ShowsIs
  <2>4. Len(Shows.slots) + Len(View(w0, id).slots) <= 4
    <3>1. Len(Shows.slots) \in Nat /\ Len(View(w0, id).slots) \in Nat
      BY <1>2, ShowsIs, SoundTabs, GoodViewIs
    <3> QED
      BY <2>1, <3>1, ZoneHasRoom DEF DroppedOn
  <2>5. Sound(w) /\ EditorsKept(w0, w)
    BY <1>2, <2>1, <2>2, <2>3, <2>4, MergingKeeps
  <2> QED
    BY <2>1, <2>2, <2>5, KeepingStep
<1> QED
  BY <1>1, <1>3, <1>4, <1>5

LEMMA DragsPaneStep ==
  ASSUME Arranged, Pending, DragsPane
  PROVE  Advances
<1>1. PICK slot \in 1..Len(Shows.slots) :
        \/ \E to \in DOMAIN Shows.slots \ {slot} : RearrangesUnpruned(SwapPanes(w0, activeViewId, slot, to))
        \/ /\ slot \notin Editors(Shows)
           /\ \/ /\ Len(Shows.slots) > 1
                 /\ \E at \in FirstMovableIndex..Len(views) + 1 : RearrangesUnpruned(ExtractSession(w0, Shows.slots[slot].id, at))
              \/ \E t \in Ids(views) \ {activeViewId} :
                   /\ Shows.slots[slot].id \in known /\ Len(View(w0, t).slots) < MAX_PANES
                   /\ RearrangesUnpruned(MoveSessionToView(w0, Shows.slots[slot].id, t))
  BY ShowsIs DEF DragsPane
<1>2. CASE \E to \in DOMAIN Shows.slots \ {slot} : RearrangesUnpruned(SwapPanes(w0, activeViewId, slot, to))
  <2>1. PICK to \in 1..Len(Shows.slots) : to # slot /\ RearrangesUnpruned(SwapPanes(w0, activeViewId, slot, to))
    BY <1>2, ShowsIs
  <2>2. PICK w : w = SwapPanes(w0, activeViewId, slot, to)
    OBVIOUS
  <2>3. Sound(w) /\ EditorsKept(w0, w)
    BY <2>1, <2>2, ShowsIs, SwappingKeeps
  <2> QED
    BY <2>1, <2>2, <2>3, KeepingStep
<1>3. CASE /\ slot \notin Editors(Shows) /\ Len(Shows.slots) > 1
           /\ \E at \in FirstMovableIndex..Len(views) + 1 : RearrangesUnpruned(ExtractSession(w0, Shows.slots[slot].id, at))
  <2>1. PICK at \in Int : RearrangesUnpruned(ExtractSession(w0, Shows.slots[slot].id, at))
    BY <1>3
  <2>2. PICK w : w = ExtractSession(w0, Shows.slots[slot].id, at)
    OBVIOUS
  <2>3. Sound(w) /\ EditorsKept(w0, w)
    BY <1>3, <2>2, ShowsIs, ExtractingKeeps
  <2> QED
    BY <2>1, <2>2, <2>3, KeepingStep
<1>4. CASE \E t \in Ids(views) \ {activeViewId} :
             /\ Shows.slots[slot].id \in known /\ Len(View(w0, t).slots) < MAX_PANES
             /\ RearrangesUnpruned(MoveSessionToView(w0, Shows.slots[slot].id, t))
  <2>1. PICK t \in Ids(views) \ {activeViewId}, s \in Sessions :
          s = Shows.slots[slot].id /\ Len(View(w0, t).slots) < 4 /\ RearrangesUnpruned(MoveSessionToView(w0, s, t))
    BY <1>4 DEF Pending, MAX_PANES
  <2>2. PICK w : w = MoveSessionToView(w0, s, t)
    OBVIOUS
  <2>3. Has(w0, t) /\ View(w0, t) \in ToSet(w0.vs) /\ View(w0, t).id = t /\ View(w0, t) \in GoodViews
    BY <2>1, ShowsIs, TabsAre
  <2>4. s \notin SlotIds(View(w0, t))
    <3>1. s \in SlotIds(Shows)
      BY <2>1, ShowsIs, SlotOf
    <3>2. Separate(ToSet(w0.vs))
      BY ShowsIs DEF Stands, Laid
    <3>3. t # activeViewId /\ Shows \in ToSet(w0.vs) /\ Shows.id = activeViewId
      BY <2>1, ShowsIs
    <3> QED
      BY <2>3, <3>1, <3>2, <3>3 DEF Separate
  <2>5. Sound(w) /\ EditorsKept(w0, w)
    BY <2>1, <2>2, <2>3, <2>4, ShowsIs, MovingSessionKeeps
  <2> QED
    BY <2>1, <2>2, <2>5, KeepingStep
<1> QED
  BY <1>1, <1>2, <1>3, <1>4

LEMMA SplitsStep ==
  ASSUME Arranged, Pending, SplitsIntoActive
  PROVE  Advances
<1>1. PICK s \in Sessions : s \notin SessionIds(Shows) /\ Len(Shows.slots) < 4 /\ RearrangesUnpruned(MoveSessionToView(w0, s, activeViewId))
  BY DEF SplitsIntoActive, Pending, MAX_PANES
<1>2. PICK w : w = MoveSessionToView(w0, s, activeViewId)
  OBVIOUS
<1>3. s \notin SlotIds(Shows)
  BY <1>1, ShowsIs, SessionIdsAre
<1>4. Sound(w) /\ EditorsKept(w0, w)
  BY <1>1, <1>2, <1>3, ShowsIs, MovingSessionKeeps
<1> QED
  BY <1>1, <1>2, <1>4, KeepingStep

LEMMA DragsFileTabStep ==
  ASSUME Arranged, Pending, DragsFileTab
  PROVE  Advances
<1>1. PICK i \in Editors(Shows) : \E t \in DOMAIN Shows.slots[i].tabs :
        \/ \E to \in Editors(Shows) \ {i} : Rearranges(MoveTab(w0, activeViewId, i, t, to))
        \/ \E at \in DOMAIN Shows.slots : \E zone \in Zones : Rearranges(MoveTabToSplit(w0, activeViewId, i, t, at, zone))
  BY DEF DragsFileTab
<1>2. PICK t \in DOMAIN Shows.slots[i].tabs :
        \/ \E to \in Editors(Shows) \ {i} : Rearranges(MoveTab(w0, activeViewId, i, t, to))
        \/ \E at \in DOMAIN Shows.slots : \E zone \in Zones : Rearranges(MoveTabToSplit(w0, activeViewId, i, t, at, zone))
  BY <1>1
<1>3. CASE \E to \in Editors(Shows) \ {i} : Rearranges(MoveTab(w0, activeViewId, i, t, to))
  <2>1. PICK to \in Editors(Shows) \ {i} : Rearranges(MoveTab(w0, activeViewId, i, t, to))
    BY <1>3
  <2>2. PICK w : w = MoveTab(w0, activeViewId, i, t, to)
    OBVIOUS
  <2>3. Sound(w)
    BY <2>2, ShowsIs, MovingTabKeeps
  <2> QED
    BY <2>1, <2>2, <2>3, PrunedStep
<1>4. CASE \E at \in DOMAIN Shows.slots : \E zone \in Zones : Rearranges(MoveTabToSplit(w0, activeViewId, i, t, at, zone))
  <2>1. PICK at, zone : Rearranges(MoveTabToSplit(w0, activeViewId, i, t, at, zone))
    BY <1>4
  <2>2. PICK w : w = MoveTabToSplit(w0, activeViewId, i, t, at, zone)
    OBVIOUS
  <2>3. Sound(w)
    BY <2>2, ShowsIs, SplittingTabKeeps
  <2> QED
    BY <2>1, <2>2, <2>3, PrunedStep
<1> QED
  BY <1>2, <1>3, <1>4

LEMMA DropsFileStep ==
  ASSUME Arranged, Pending, DropsFile
  PROVE  Advances
<1>4. PICK slot, zone : \E f \in Files : Rearranges(OpenTabAt(w0, activeViewId, slot, zone, f))
  BY DEF DropsFile
<1>1. PICK f \in Files : Rearranges(OpenTabAt(w0, activeViewId, slot, zone, f))
  BY <1>4
<1>2. PICK w : w = OpenTabAt(w0, activeViewId, slot, zone, f)
  OBVIOUS
<1>3. Sound(w)
  BY <1>2, ShowsIs, OpeningAtKeeps
<1> QED
  BY <1>1, <1>2, <1>3, PrunedStep

(* What changes the text alone.                                            *)
LEMMA TypesStep ==
  ASSUME Arranged, Pending, Types \/ SaveLands
  PROVE  Advances
<1>1. UNCHANGED <<views, activeViewId, stored, known, server, fresh, poll, asked, call>>
  BY DEF Types, SaveLands, backend
<1>2. Arranged' /\ Pending'
  <2>1. Pending'
    BY <1>1 DEF Pending
  <2> QED
    BY <1>1, <2>1, SameShown
<1>3. ASSUME EditsHaveTabs PROVE EditsHaveTabs'
  <2>1. CASE SaveLands
    BY <1>1, <1>3, <2>1 DEF SaveLands, EditsHaveTabs
  <2>2. CASE Types
    <3>1. PICK i \in Editors(Shows) : LET s == Shows.slots[i]
                                          f == s.tabs[s.active] IN edits' = edits \cup {f}
      BY <2>2 DEF Types
    <3>2. PICK s, f : s = Shows.slots[i] /\ f = s.tabs[s.active] /\ edits' = edits \cup {f}
      BY <3>1
    <3>3. s \in ToSet(Shows.slots) /\ IsEditor(s) /\ f \in ToSet(s.tabs)
      <4>1. i \in 1..Len(Shows.slots) /\ s \in GoodSlots /\ IsEditor(s) /\ Strip(s) /\ s.tabs \in Seq(Files \cup Diffs)
        BY <3>2, ShowsIs, EditorOf
      <4>2. s.active \in 1..Len(s.tabs)
        BY <4>1 DEF Strip
      <4> QED
        BY <3>2, <4>1, <4>2, ShowsIs, SlotOf, ToSetIs
    <3>4. f \in OpenFiles(views)
      <4>1. s \in Slotted(w0)
        BY <3>3, ShowsIs DEF Slotted
      <4> QED
        BY <3>3, <4>1, ShowsIs, OpenFilesAre
    <3> QED
      BY <1>1, <1>3, <3>2, <3>4 DEF EditsHaveTabs
  <2> QED
    BY <2>1, <2>2
<1> QED
  BY <1>2, <1>3 DEF Advances

LEMMA RenamesStep ==
  ASSUME Arranged, Pending, Renames
  PROVE  Advances
<1>6. PICK from \in Files, to \in Files :
        /\ from # to /\ Shown(Renaming(w0, from, to))
        /\ edits' = (IF from \in edits THEN (edits \ {from}) \cup {to} ELSE edits)
        /\ UNCHANGED <<known, startedAt, backend, call, poll, asked>>
  BY DEF Renames
<1>7. PICK w : w = Renaming(w0, from, to)
  OBVIOUS
<1>1. /\ from # to /\ w = Renaming(w0, from, to) /\ Shown(w)
      /\ edits' = (IF from \in edits THEN (edits \ {from}) \cup {to} ELSE edits)
      /\ UNCHANGED <<known, startedAt, backend, call, poll, asked>>
  BY <1>6, <1>7
<1>2. Sound(w) /\ \A t \in OpenFiles(w0.vs) : Name(from, to, t) \in OpenFiles(w.vs)
  BY <1>1, ShowsIs, RenamingKeeps
<1>3. Arranged'
  BY <1>1, <1>2, ShownIs
<1>4. Pending'
  BY <1>1 DEF Pending, backend
<1>5. ASSUME EditsHaveTabs, NEW f \in edits' PROVE f \in OpenFiles(views')
  <2>1. w0.vs = views /\ views' = w.vs
    BY <1>1, ShowsIs DEF Shown
  <2>2. CASE f = to /\ from \in edits
    <3>1. Name(from, to, from) \in OpenFiles(w.vs)
      BY <1>2, <1>5, <2>1, <2>2 DEF EditsHaveTabs
    <3> QED
      BY <2>1, <2>2, <3>1 DEF Name
  <2>3. CASE f \in edits /\ f # from
    <3>1. Name(from, to, f) \in OpenFiles(w.vs)
      BY <1>2, <1>5, <2>1, <2>3 DEF EditsHaveTabs
    <3> QED
      BY <2>1, <2>3, <3>1 DEF Name
  <2> QED
    BY <1>1, <1>5, <2>2, <2>3
<1> QED
  BY <1>3, <1>4, <1>5 DEF Advances, EditsHaveTabs

-----------------------------------------------------------------------------
(***************************************************************************)
(* The doors: what is done at once, or after the question                  *)
(***************************************************************************)
LEMMA DoneKeeps ==
  ASSUME Arranged, NEW a, Doable(a), NEW r, r = Done(a)
  PROVE  Sound(r)
<1>1. Sound(w0)
  BY ShowsIs
<1>2. CASE a.op = "open"
  <2>1. r = OpenEditorTab(w0, a.root, a.tab)
    BY <1>2 DEF Done
  <2> QED
    BY <1>1, <1>2, <2>1, OpeningKeeps DEF Doable
<1>3. CASE a.op # "open" /\ ~Has(w0, a.view)
  <2>1. r = w0
    BY <1>3 DEF Done
  <2> QED
    BY <1>1, <2>1
<1>4. CASE a.op # "open" /\ Has(w0, a.view)
  <2>1. PICK v : v = View(w0, a.view)
    OBVIOUS
  <2>2. r = CASE a.op = "endView" -> DissolveView(w0, a.view)
              [] a.op = "closeSlot" -> IF a.slot \in Editors(v) THEN CloseSlot(w0, a.view, a.slot) ELSE w0
              [] a.op = "closeTab" -> IF a.slot \in Editors(v) /\ a.tab \in DOMAIN v.slots[a.slot].tabs
                                      THEN CloseTab(w0, a.view, a.slot, a.tab) ELSE w0
              [] a.op = "openAt" -> IF a.slot \in DOMAIN v.slots THEN OpenTabAt(w0, a.view, a.slot, "replace", a.tab) ELSE w0
    BY <1>4, <2>1 DEF Done
  <2>3. v \in GoodViews
    BY <1>1, <1>4, <2>1, SoundTabs
  <2>4. CASE a.op = "endView"
    <3>1. r = DissolveView(w0, a.view)
      BY <2>2, <2>4
    <3> QED
      BY <1>1, <3>1, EndingKeeps
  <2>5. CASE a.op = "closeSlot"
    <3>1. r = IF a.slot \in Editors(v) THEN CloseSlot(w0, a.view, a.slot) ELSE w0
      BY <2>2, <2>5
    <3>2. a.slot \in Editors(v) => a.slot \in 1..Len(v.slots)
      BY <2>3, EditorOf
    <3> QED
      BY <1>1, <1>4, <2>1, <3>1, <3>2, ClosingKeeps
  <2>6. CASE a.op = "closeTab"
    <3>1. r = IF a.slot \in Editors(v) /\ a.tab \in DOMAIN v.slots[a.slot].tabs
              THEN CloseTab(w0, a.view, a.slot, a.tab) ELSE w0
      BY <2>2, <2>6
    <3> QED
      BY <1>1, <1>4, <2>1, <3>1, ClosingTabKeeps
  <2>7. CASE a.op = "openAt"
    <3>1. r = IF a.slot \in DOMAIN v.slots THEN OpenTabAt(w0, a.view, a.slot, "replace", a.tab) ELSE w0
      BY <2>2, <2>7
    <3>2. a.tab \in Files \cup Diffs
      BY <2>7 DEF Doable
    <3> QED
      BY <1>1, <1>4, <3>1, <3>2, OpeningAtKeeps
  <2> QED
    BY <1>4, <2>4, <2>5, <2>6, <2>7 DEF Doable, Doors
<1> QED
  BY <1>2, <1>3, <1>4

(* The sessions of a tab, in their order.                                  *)
OrderStep(u, s) == IF s.id \in Sessions THEN Append(u, s.id) ELSE u
Orderly == INSTANCE FoldProofs WITH Op <- LAMBDA c, x, y : OrderStep(x, y)
LEMMA InOrderIsAFold ==
  ASSUME NEW v
  PROVE  InOrder(v) = Orderly!Folded(None, <<>>, v.slots)
BY Zenon DEF InOrder, OrderStep, Orderly!Folded, FoldLeft, MapThenFoldSet, Max, Orderly!MapThenFoldSet, Orderly!Greatest

Listed(q, n, u) == u \in Seq(Sessions) /\ ((\E k \in 1..n : q[k].id \in Sessions) => Len(u) >= 1)
LEMMA InOrderIs ==
  ASSUME NEW v \in GoodViews, NEW q, q = InOrder(v)
  PROVE  q \in Seq(Sessions) /\ (SessionIds(v) # {} => Len(q) >= 1)
<1>1. PICK s \in Seq(GoodSlots) : s = v.slots
  BY GoodViewIs
<1>2. PICK n \in Nat : n = Len(s) /\ DOMAIN s = 1..n
  OBVIOUS
<1>3. q = Orderly!Folded(None, <<>>, s)
  BY <1>1, InOrderIsAFold
<1>4. PICK f : Orderly!Accumulates(None, f, <<>>, s) /\ q = f[n]
  BY <1>2, <1>3, Orderly!FoldGoes
<1> DEFINE P(i) == i <= n => Listed(s, i, f[i])
           T == {i \in Nat : P(i)}
<1>5. P(0)
  <2>1. f[0] = <<>>
    BY <1>4 DEF Orderly!Accumulates
  <2> QED
    BY <2>1 DEF Listed
<1>6. ASSUME NEW i \in Nat, P(i), i + 1 <= n PROVE Listed(s, i + 1, f[i + 1])
  <2>1. i + 1 \in 1..n /\ (i + 1) - 1 = i /\ i <= n
    BY <1>6
  <2>2. PICK z \in GoodSlots : z = s[i + 1]
    BY <1>2, <2>1
  <2>3. f[i + 1] = OrderStep(f[i], z)
    BY <1>2, <1>4, <2>1, <2>2 DEF Orderly!Accumulates
  <2>4. PICK u \in Seq(Sessions) : u = f[i] /\ Listed(s, i, u)
    BY <1>6, <2>1 DEF Listed
  <2>5. CASE z.id \in Sessions
    <3>1. PICK x : x = Append(u, z.id)
      OBVIOUS
    <3>2. x \in Seq(Sessions) /\ Len(x) >= 1
      BY ONLY <2>4, <2>5, <3>1
    <3>3. f[i + 1] = x
      BY <2>3, <2>4, <2>5, <3>1 DEF OrderStep
    <3> QED
      BY <3>2, <3>3 DEF Listed
  <2>6. CASE z.id \notin Sessions
    <3>1. f[i + 1] = u
      BY <2>3, <2>4, <2>6 DEF OrderStep
    <3>2. ASSUME NEW k \in 1..(i + 1), s[k].id \in Sessions PROVE k \in 1..i
      <4>1. k # i + 1
        BY <2>2, <2>6, <3>2
      <4> QED
        BY ONLY <4>1, k \in 1..(i + 1), i \in Nat
    <3> QED
      BY <2>4, <3>1, <3>2 DEF Listed
  <2> QED
    BY <2>5, <2>6
<1> HIDE DEF P
<1>7. Nat \subseteq T
  <2>1. 0 \in T /\ \A i \in Nat : i \in T => i + 1 \in T
    BY <1>5, <1>6 DEF P
  <2> HIDE DEF T
  <2> QED
    BY <2>1, Orderly!Induction
<1>8. Listed(s, n, q)
  <2>1. P(n) /\ n <= n
    BY <1>7
  <2> QED
    BY <1>4, <2>1 DEF P
<1>9. ASSUME SessionIds(v) # {} PROVE \E k \in 1..n : s[k].id \in Sessions
  <2>1. PICK x \in Sessions : x \in SlotIds(v)
    BY <1>9, SessionIdsAre DEF SessionIds
  <2> QED
    BY <1>1, <1>2, <2>1, ToSetIs DEF SlotIds
<1> QED
  BY <1>8, <1>9 DEF Listed

LEMMA EndsViewIs ==
  ASSUME Arranged, NEW a, Ends(a)
  PROVE  Answerable(EndsView(a))
<1>1. PICK v : v = View(w0, a.view) /\ SessionIds(v) # {} /\ v \in GoodViews
  BY ShowsIs, SoundTabs DEF Ends
<1>2. PICK q : q = InOrder(v)
  OBVIOUS
<1>3. q \in Seq(Sessions) /\ Len(q) >= 1
  BY <1>1, <1>2, InOrderIs
<1>4. Head(q) \in Sessions /\ Tail(q) \in Seq(Sessions)
  <2>1. q # <<>>
    BY <1>3
  <2> QED
    BY <1>3, <2>1
<1>5. PICK h, t : h = Head(q) /\ t = Tail(q)
  OBVIOUS
<1>6. EndsView(a) = [NoCall EXCEPT !.op = "endView", !.id = h, !.left = t, !.view = a.view, !.ids = a.ids]
  BY <1>1, <1>2, <1>5 DEF EndsView
<1> QED
  BY <1>4, <1>5, <1>6 DEF NoCall, Answerable, Starts

LEMMA PerformsKeeps ==
  ASSUME Arranged, Pending, NEW a, Doable(a), Performs(a)
  PROVE  Advances
<1>1. asked' = None /\ UNCHANGED <<known, server, fresh, poll>>
  BY DEF Performs, backend
<1>2. CASE Ends(a)
  <2>1. call' = EndsView(a) /\ UNCHANGED <<views, activeViewId, stored, edits>>
    BY <1>2 DEF Performs
  <2>2. Answerable(call')
    BY <1>2, <2>1, EndsViewIs
  <2>3. Pending'
    BY <1>1, <2>2 DEF Pending
  <2>4. Arranged'
    BY <2>1, SameShown
  <2>5. EditsHaveTabs => EditsHaveTabs'
    BY <2>1 DEF EditsHaveTabs
  <2> QED
    BY <2>3, <2>4, <2>5 DEF Advances
<1>3. CASE ~Ends(a)
  <2>1. PICK w : w = Done(a)
    OBVIOUS
  <2>2. Shown(w) /\ call' = call /\ edits' = {f \in edits : f \in OpenFiles(w.vs)}
    BY <1>3, <2>1 DEF Performs
  <2>3. Arranged'
    BY <2>1, <2>2, DoneKeeps, ShownIs
  <2>4. Pending'
    BY <1>1, <2>2 DEF Pending
  <2>5. EditsHaveTabs'
    BY <2>2 DEF EditsHaveTabs, Shown
  <2> QED
    BY <2>3, <2>4, <2>5 DEF Advances
<1> QED
  BY <1>2, <1>3

LEMMA TriesKeeps ==
  ASSUME Arranged, Pending, NEW a, NEW ids, Doable(a), Doable([a EXCEPT !.ids = ids]), Tries(ids, a)
  PROVE  Advances
<1>1. CASE ids = {}
  BY <1>1, PerformsKeeps DEF Tries
<1>2. CASE ids # {}
  <2>1. asked' = [a EXCEPT !.ids = ids] /\ UNCHANGED <<views, activeViewId, stored, edits, known, server, fresh, call, poll>>
    BY <1>2 DEF Tries, backend
  <2>2. Pending'
    <3>1. Doable(asked')
      BY <2>1
    <3> QED
      BY <2>1, <3>1 DEF Pending
  <2>3. Arranged'
    BY <2>1, SameShown
  <2>4. EditsHaveTabs => EditsHaveTabs'
    BY <2>1 DEF EditsHaveTabs
  <2> QED
    BY <2>2, <2>3, <2>4 DEF Advances
<1> QED
  BY <1>1, <1>2

LEMMA DoorsStep ==
  ASSUME Arranged, Pending, ClosesView \/ ClosesSlot \/ ClosesTab \/ Opens \/ OpensAt
  PROVE  Advances
<1>1. CASE ClosesView
  <2>1. PICK id : Tries(DirtyLostBy(id, 0, 0), [Act EXCEPT !.op = "endView", !.view = id])
    BY <1>1 DEF ClosesView
  <2>2. PICK a, ids : a = [Act EXCEPT !.op = "endView", !.view = id] /\ ids = DirtyLostBy(id, 0, 0)
    OBVIOUS
  <2>3. Doable(a) /\ Doable([a EXCEPT !.ids = ids])
    BY <2>2 DEF Act, Doable, Doors
  <2> QED
    BY <2>1, <2>2, <2>3, TriesKeeps
<1>2. CASE ClosesSlot
  <2>1. PICK i : Tries(DirtyLostBy(activeViewId, i, 0), [Act EXCEPT !.op = "closeSlot", !.view = activeViewId, !.slot = i])
    BY <1>2 DEF ClosesSlot
  <2>2. PICK a, ids : a = [Act EXCEPT !.op = "closeSlot", !.view = activeViewId, !.slot = i] /\ ids = DirtyLostBy(activeViewId, i, 0)
    OBVIOUS
  <2>3. Doable(a) /\ Doable([a EXCEPT !.ids = ids])
    BY <2>2 DEF Act, Doable, Doors
  <2> QED
    BY <2>1, <2>2, <2>3, TriesKeeps
<1>3. CASE ClosesTab
  <2>4. PICK i : \E t \in DOMAIN Shows.slots[i].tabs :
          Tries(DirtyLostBy(activeViewId, i, t), [Act EXCEPT !.op = "closeTab", !.view = activeViewId, !.slot = i, !.tab = t])
    BY <1>3 DEF ClosesTab
  <2>1. PICK t : Tries(DirtyLostBy(activeViewId, i, t), [Act EXCEPT !.op = "closeTab", !.view = activeViewId, !.slot = i, !.tab = t])
    BY <2>4
  <2>2. PICK a, ids : /\ a = [Act EXCEPT !.op = "closeTab", !.view = activeViewId, !.slot = i, !.tab = t]
                      /\ ids = DirtyLostBy(activeViewId, i, t)
    OBVIOUS
  <2>3. Doable(a) /\ Doable([a EXCEPT !.ids = ids])
    BY <2>2 DEF Act, Doable, Doors
  <2> QED
    BY <2>1, <2>2, <2>3, TriesKeeps
<1>4. CASE Opens
  <2>1. PICK root \in {Home} \cup Projects, tab \in Files \cup Diffs :
          Tries(EvictionForOpen(root, tab), [Act EXCEPT !.op = "open", !.root = root, !.tab = tab])
    BY <1>4 DEF Opens
  <2>2. PICK a, ids : a = [Act EXCEPT !.op = "open", !.root = root, !.tab = tab] /\ ids = EvictionForOpen(root, tab)
    OBVIOUS
  <2>3. Doable(a) /\ Doable([a EXCEPT !.ids = ids])
    BY <2>2 DEF Act, Doable, Doors
  <2> QED
    BY <2>1, <2>2, <2>3, TriesKeeps
<1>5. CASE OpensAt
  <2>4. PICK i : \E tab \in Files : Tries(EvictionFor(Shows, i, tab), [Act EXCEPT !.op = "openAt", !.view = activeViewId, !.slot = i, !.tab = tab])
    BY <1>5 DEF OpensAt
  <2>1. PICK tab \in Files : Tries(EvictionFor(Shows, i, tab), [Act EXCEPT !.op = "openAt", !.view = activeViewId, !.slot = i, !.tab = tab])
    BY <2>4
  <2>2. PICK a, ids : a = [Act EXCEPT !.op = "openAt", !.view = activeViewId, !.slot = i, !.tab = tab] /\ ids = EvictionFor(Shows, i, tab)
    OBVIOUS
  <2>3. Doable(a) /\ Doable([a EXCEPT !.ids = ids])
    BY <2>2 DEF Act, Doable, Doors
  <2> QED
    BY <2>1, <2>2, <2>3, TriesKeeps
<1> QED
  BY <1>1, <1>2, <1>3, <1>4, <1>5

LEMMA AnswersQuestionStep ==
  ASSUME Arranged, Pending, KeepsEditing \/ Discards
  PROVE  Advances
<1>1. CASE KeepsEditing
  <2>1. asked' = None /\ UNCHANGED <<views, activeViewId, stored, edits, known, server, fresh, call, poll>>
    BY <1>1 DEF KeepsEditing, backend
  <2>2. Pending' /\ Arranged' /\ (EditsHaveTabs => EditsHaveTabs')
    BY <2>1, SameShown DEF Pending, EditsHaveTabs
  <2> QED
    BY <2>2 DEF Advances
<1>2. CASE Discards
  <2>1. Doable(asked) /\ Performs(asked)
    BY <1>2 DEF Discards, Pending
  <2> QED
    BY <2>1, PerformsKeeps
<1> QED
  BY <1>1, <1>2

-----------------------------------------------------------------------------
(***************************************************************************)
(* Requests, the poll, and what others do                                  *)
(***************************************************************************)
LEMMA RequestIs ==
  ASSUME NEW op \in {"create", "kill", "relaunch"}, NEW id, op # "create" => id \in Sessions, NEW view, NEW slot,
         NEW c, c = [op |-> op, id |-> id, done |-> FALSE, view |-> view, slot |-> slot, new |-> None, left |-> <<>>, ids |-> {}]
  PROVE  Answerable(c)
<1>1. /\ c.op = op /\ c.id = id /\ c.done = FALSE /\ c.view = view /\ c.slot = slot /\ c.new = None /\ c.left = <<>> /\ c.ids = {}
  OBVIOUS
<1>2. c.left \in Seq(Sessions)
  BY ONLY <1>1
<1>3. c = [op |-> c.op, id |-> c.id, done |-> c.done, view |-> c.view, slot |-> c.slot, new |-> c.new, left |-> c.left, ids |-> c.ids]
  BY ONLY <1>1, c = [op |-> op, id |-> id, done |-> FALSE, view |-> view, slot |-> slot, new |-> None, left |-> <<>>, ids |-> {}]
<1> QED
  BY <1>1, <1>2, <1>3 DEF Answerable

LEMMA SendsStep ==
  ASSUME Arranged, Pending, Launches \/ Kills \/ Relaunches
  PROVE  Advances
<1>1. PICK c : Sends(c) /\ Answerable(c)
  <2>1. CASE Launches
    <3>1. PICK c : c = [NoCall EXCEPT !.op = "create"]
      OBVIOUS
    <3>2. c = [op |-> "create", id |-> None, done |-> FALSE, view |-> 0, slot |-> 0, new |-> None, left |-> <<>>, ids |-> {}]
      BY <3>1 DEF NoCall
    <3>3. Answerable(c)
      BY <3>2, RequestIs
    <3>4. Sends(c)
      BY <2>1, <3>1 DEF Launches
    <3> QED
      BY <3>3, <3>4
  <2>2. CASE Kills
    <3>1. PICK s \in Sessions : Sends([NoCall EXCEPT !.op = "kill", !.id = s])
      BY <2>2 DEF Kills, Pending
    <3>2. PICK c : c = [NoCall EXCEPT !.op = "kill", !.id = s]
      OBVIOUS
    <3>3. c = [op |-> "kill", id |-> s, done |-> FALSE, view |-> 0, slot |-> 0, new |-> None, left |-> <<>>, ids |-> {}]
      BY <3>2 DEF NoCall
    <3>4. Answerable(c)
      BY ONLY s \in Sessions, <3>3, RequestIs
    <3> QED
      BY <3>1, <3>2, <3>4
  <2>3. CASE Relaunches
    <3>1. PICK i : Shows.slots[i].id \in known /\ Sends([NoCall EXCEPT !.op = "relaunch", !.id = Shows.slots[i].id, !.view = activeViewId, !.slot = i])
      BY <2>3 DEF Relaunches
    <3>2. PICK s \in Sessions : s = Shows.slots[i].id
      BY <3>1 DEF Pending
    <3>3. PICK c : c = [NoCall EXCEPT !.op = "relaunch", !.id = s, !.view = activeViewId, !.slot = i]
      OBVIOUS
    <3>4. c = [op |-> "relaunch", id |-> s, done |-> FALSE, view |-> activeViewId, slot |-> i, new |-> None, left |-> <<>>, ids |-> {}]
      BY <3>3 DEF NoCall
    <3>5. Answerable(c)
      BY <3>4, RequestIs
    <3>6. Sends(c)
      BY <3>1, <3>2, <3>3
    <3> QED
      BY <3>5, <3>6
  <2> QED
    BY <2>1, <2>2, <2>3
<1>2. call' = c /\ UNCHANGED <<views, activeViewId, known, stored, edits, server, fresh, poll, asked>>
  BY <1>1 DEF Sends, backend
<1>3. Pending'
  BY <1>1, <1>2 DEF Pending
<1>4. Arranged'
  BY <1>2, SameShown
<1>5. EditsHaveTabs => EditsHaveTabs'
  BY <1>2 DEF EditsHaveTabs
<1> QED
  BY <1>3, <1>4, <1>5 DEF Advances

(* What changes nothing of the arrangement.                                *)
LEMMA BesidesStep ==
  ASSUME Arranged, Pending, BackendActs \/ CallFails \/ Polls \/ Elsewhere
  PROVE  Advances
<1>1. UNCHANGED <<views, activeViewId, known, stored, edits, asked>>
  BY DEF BackendActs, CallFails, Polls, Elsewhere
<1> SUFFICES Pending'
  BY <1>1, SameShown DEF EditsHaveTabs, Advances
<1>2. CASE BackendActs
  <2>1. Answerable(call) /\ poll' = poll
    BY <1>2 DEF BackendActs, Pending
  <2>2. CASE Starts(call.op)
    <3>1. PICK s \in fresh : server' = server \cup {s} /\ fresh' = fresh \ {s} /\ call' = [call EXCEPT !.done = TRUE, !.new = s]
      BY <1>2, <2>2 DEF BackendActs
    <3>2. Answerable(call')
      BY <2>1, <3>1 DEF Answerable, Pending
    <3> QED
      BY <1>1, <2>1, <3>1, <3>2 DEF Pending
  <2>3. CASE ~Starts(call.op)
    <3>1. server' = server \ {call.id} /\ call' = [call EXCEPT !.done = TRUE] /\ fresh' = fresh
      BY <1>2, <2>3 DEF BackendActs
    <3>2. Answerable(call')
      BY <2>1, <2>3, <3>1 DEF Answerable, Pending, Starts
    <3> QED
      BY <1>1, <2>1, <3>1, <3>2 DEF Pending
  <2> QED
    BY <2>2, <2>3
<1>3. CASE CallFails
  BY <1>1, <1>3 DEF CallFails, Pending, backend
<1>4. CASE Polls
  BY <1>1, <1>4 DEF Polls, Pending, backend
<1>5. CASE Elsewhere
  <2>1. UNCHANGED <<poll, call>> /\ fresh' \subseteq fresh /\ server' \subseteq server \cup fresh
    BY <1>5 DEF Elsewhere
  <2> QED
    BY <1>1, <2>1 DEF Pending
<1> QED
  BY <1>2, <1>3, <1>4, <1>5

LEMMA AnswersKeep ==
  ASSUME Arranged, Pending, NEW w, Sound(w), NEW next, next = None \/ Answerable(next), Answered(w, next), known' \subseteq Sessions
  PROVE  /\ Arranged' /\ Pending' /\ views' = w.vs
         /\ UNCHANGED edits /\ FilesKept(w0, w) => (EditsHaveTabs => EditsHaveTabs')
<1>1. Shown(w) /\ call' = next /\ UNCHANGED <<server, fresh, poll, asked>>
  BY DEF Answered, backend
<1>2. Arranged' /\ views' = w.vs
  BY <1>1, ShownIs DEF Shown
<1>3. Pending'
  BY <1>1 DEF Pending
<1>4. UNCHANGED edits /\ FilesKept(w0, w) => (EditsHaveTabs => EditsHaveTabs')
  BY <1>2 DEF EditsHaveTabs, FilesKept, w0
<1> QED
  BY <1>2, <1>3, <1>4

LEMMA LaunchStep ==
  ASSUME Arranged, Pending, LaunchAnswers
  PROVE  Advances
<1>1. PICK s \in Sessions : s = call.new
  BY DEF LaunchAnswers, Pending, Answerable, Starts
<1>2. PICK u : u = Given(w0, s)
  OBVIOUS
<1>3. Sound(u) /\ EditorsKept(w0, u)
  BY <1>2, ShowsIs, GivenKeeps DEF Gave, Sound
<1>4. PICK w : w = FocusSession(u, s)
  OBVIOUS
<1>5. Sound(w) /\ EditorsKept(u, w)
  BY <1>3, <1>4, FocusingKeeps
<1>6. FilesKept(w0, w)
  <2>1. EditorsKept(w0, w)
    BY <1>3, <1>5 DEF EditorsKept
  <2> QED
    BY <1>5, <2>1, ShowsIs, KeptFiles
<1>7. Answered(w, None) /\ UNCHANGED edits /\ known' = known \cup {s}
  BY <1>1, <1>2, <1>4 DEF LaunchAnswers, Upsert
<1>8. known' \subseteq Sessions
  BY <1>7 DEF Pending
<1> QED
  BY <1>5, <1>6, <1>7, <1>8, AnswersKeep DEF Advances

(* The one step that may take a file pane away.                            *)
LEMMA RelaunchStep ==
  ASSUME Arranged, Pending, RelaunchAnswers
  PROVE  Arranged' /\ Pending'
<1>1. PICK s \in Sessions, x \in Sessions : s = call.new /\ x = call.id
  BY DEF RelaunchAnswers, Pending, Answerable, Starts
<1>2. PICK g : g = Given(w0, s)
  OBVIOUS
<1>3. Sound(g)
  BY <1>2, ShowsIs, GivenKeeps DEF Gave, Sound
<1>4. PICK w : w = ReplaceSessionInView(g, call.view, call.slot, s)
  OBVIOUS
<1>5. Sound(w)
  BY <1>3, <1>4, ReplacingKeeps
<1>6. PICK u : u = IF w.active = call.view /\ call.slot \in DOMAIN View(w, call.view).slots
                   THEN Put(w, [View(w, call.view) EXCEPT !.focused = call.slot]) ELSE w
  OBVIOUS
<1>7. Sound(u)
  <2>1. CASE w.active = call.view /\ call.slot \in DOMAIN View(w, call.view).slots
    <3>1. Has(w, call.view)
      BY <1>5, <2>1 DEF Sound, Firm
    <3>2. call.slot \in 1..Len(View(w, call.view).slots)
      BY <1>5, <2>1, <3>1, SoundTabs
    <3> QED
      BY <1>5, <1>6, <2>1, <3>1, <3>2, FocusSlotKeeps
  <2>2. CASE ~(w.active = call.view /\ call.slot \in DOMAIN View(w, call.view).slots)
    BY <1>5, <1>6, <2>2
  <2> QED
    BY <2>1, <2>2
<1>8. Answered(u, [NoCall EXCEPT !.op = "kill", !.id = x]) /\ known' = known \cup {s}
  BY <1>1, <1>2, <1>4, <1>6 DEF RelaunchAnswers, Upsert
<1>9. Answerable([NoCall EXCEPT !.op = "kill", !.id = x])
  <2>1. PICK c : c = [NoCall EXCEPT !.op = "kill", !.id = x]
    OBVIOUS
  <2>2. c = [op |-> "kill", id |-> x, done |-> FALSE, view |-> 0, slot |-> 0, new |-> None, left |-> <<>>, ids |-> {}]
    BY <2>1 DEF NoCall
  <2>3. Answerable(c)
    BY <2>2, RequestIs
  <2> QED
    BY <2>1, <2>3
<1>10. known' \subseteq Sessions
  BY <1>8 DEF Pending
<1> QED
  BY <1>7, <1>8, <1>9, <1>10, AnswersKeep

LEMMA DetachKeepsEditors ==
  ASSUME NEW w, Sound(w), NEW s \in Sessions, NEW r, r = DetachFromViews(w, s)
  PROVE  Sound(r) /\ EditorsKept(w, r)
<1>1. Stands(w) /\ Filled(w) /\ Firm(w)
  BY DEF Sound, Firm
<1>2. Sound(r) /\ Slotted(r) = Slotted(w) \ {SessionSlot(s)}
  BY <1>1, DetachIs DEF Sound
<1> QED
  BY <1>2, NotEditor DEF EditorsKept

LEMMA KillStep ==
  ASSUME Arranged, Pending, KillAnswers
  PROVE  Advances
<1>1. PICK s \in Sessions : s = call.id
  BY DEF KillAnswers, Pending, Answerable, Starts
<1>2. PICK w : w = DetachFromViews(w0, s)
  OBVIOUS
<1>3. Sound(w) /\ EditorsKept(w0, w)
  BY <1>2, ShowsIs, DetachKeepsEditors
<1>4. FilesKept(w0, w)
  BY <1>3, ShowsIs, KeptFiles
<1>5. Answered(w, None) /\ UNCHANGED edits /\ known' = known \ {s}
  BY <1>1, <1>2 DEF KillAnswers
<1>6. known' \subseteq Sessions
  BY <1>5 DEF Pending
<1> QED
  BY <1>3, <1>4, <1>5, <1>6, AnswersKeep DEF Advances

LEMMA EndStep ==
  ASSUME Arranged, Pending, EndAnswers
  PROVE  Advances
<1>1. PICK s \in Sessions : s = call.id
  BY DEF EndAnswers, Pending, Answerable, Starts
<1>2. PICK w : w = DetachFromViews(w0, s)
  OBVIOUS
<1>3. Sound(w) /\ EditorsKept(w0, w)
  BY <1>2, ShowsIs, DetachKeepsEditors
<1>4. PICK closes \in BOOLEAN : closes <=> call.left = <<>> /\ Has(w, call.view) /\ SessionIds(View(w, call.view)) = {}
  OBVIOUS
<1>5. PICK u : u = IF closes THEN DissolveView(w, call.view) ELSE w
  OBVIOUS
<1>6. Sound(u)
  BY <1>3, <1>5, EndingKeeps
<1>7. PICK next : next = IF call.left = <<>> THEN None ELSE [call EXCEPT !.id = Head(call.left), !.left = Tail(call.left), !.done = FALSE]
  OBVIOUS
<1>8. /\ Answered(u, next) /\ known' = known \ {s} /\ call.op = "endView" /\ Answerable(call)
      /\ edits' = IF closes THEN {f \in edits : f \in OpenFiles(u.vs)} ELSE edits
  BY <1>1, <1>2, <1>4, <1>5, <1>7 DEF EndAnswers, Pending
<1>9. next = None \/ Answerable(next)
  <2>1. CASE call.left # <<>>
    <3>1. PICK q \in Seq(Sessions) : q = call.left /\ q # <<>>
      BY <1>8, <2>1 DEF Answerable
    <3>2. Head(q) \in Sessions /\ Tail(q) \in Seq(Sessions)
      BY ONLY <3>1
    <3>3. PICK h, t : h = Head(q) /\ t = Tail(q)
      OBVIOUS
    <3>4. next = [call EXCEPT !.id = h, !.left = t, !.done = FALSE]
      BY <1>7, <3>1, <3>3
    <3> QED
      BY <1>8, <3>2, <3>3, <3>4 DEF Answerable, Starts
  <2> QED
    BY <1>7, <2>1
<1>10. known' \subseteq Sessions
  BY <1>8 DEF Pending
<1>11. CASE closes
  <2>1. Arranged' /\ Pending' /\ views' = u.vs
    BY <1>6, <1>8, <1>9, <1>10, AnswersKeep
  <2>2. EditsHaveTabs'
    BY <1>8, <1>11, <2>1 DEF EditsHaveTabs
  <2> QED
    BY <2>1, <2>2 DEF Advances
<1>12. CASE ~closes
  <2>1. u = w /\ UNCHANGED edits /\ FilesKept(w0, u)
    BY <1>3, <1>5, <1>8, <1>12, ShowsIs, KeptFiles
  <2> QED
    BY <1>6, <1>8, <1>9, <1>10, <2>1, AnswersKeep DEF Advances
<1> QED
  BY <1>11, <1>12

LEMMA PollStepKeeps ==
  ASSUME Arranged, Pending, SetSessions
  PROVE  Advances
<1>1. PICK list : list = poll /\ list \subseteq Sessions
  BY DEF SetSessions, Pending
<1>2. PICK w : w = ReconcileViews(w0, poll, activeViewId)
  OBVIOUS
<1>3. Cleaned(w0, list, w)
  BY <1>1, <1>2, ShowsIs, ReconcilingKeeps DEF Sound
<1>4. Stands(w) /\ Filled(w) /\ EditorsKept(w0, w)
  BY <1>3 DEF Cleaned
<1>5. poll' = None /\ known' = list /\ UNCHANGED <<edits, server, fresh, call, asked>>
  BY <1>1 DEF SetSessions, backend
<1>6. Pending'
  BY <1>1, <1>5 DEF Pending
<1>7. CASE w = w0
  <2>1. UNCHANGED <<views, activeViewId, stored>>
    BY <1>2, <1>7 DEF SetSessions
  <2>2. Arranged' /\ (EditsHaveTabs => EditsHaveTabs')
    BY <1>5, <2>1, SameShown DEF EditsHaveTabs
  <2> QED
    BY <1>6, <2>2 DEF Advances
<1>8. CASE w # w0
  <2>1. PICK r : r = NormalizeActive(w)
    OBVIOUS
  <2>2. Sound(r) /\ r.vs = w.vs
    BY <1>4, <2>1, NormalizingIs
  <2>3. Shown(r)
    BY <1>2, <1>8, <2>1 DEF SetSessions
  <2>4. EditorsKept(w0, r)
    BY <1>4, <2>2 DEF EditorsKept, Slotted
  <2>5. FilesKept(w0, r)
    BY <2>2, <2>4, ShowsIs, KeptFiles
  <2>6. Arranged' /\ views' = r.vs
    BY <2>2, <2>3, ShownIs DEF Shown
  <2>7. EditsHaveTabs => EditsHaveTabs'
    BY <1>5, <2>5, <2>6 DEF EditsHaveTabs, FilesKept, w0
  <2> QED
    BY <1>6, <2>6, <2>7 DEF Advances
<1> QED
  BY <1>7, <1>8

(* The page loads what it stored.                                          *)
LEMMA LoadKeeps ==
  ASSUME NEW list, list \subseteq Sessions, NEW runOf, NEW bag, Restorable(bag), Load(list, runOf, bag),
         server' \subseteq Sessions, fresh' \subseteq Sessions
  PROVE  Advances
<1>1. PICK w : w = Loaded(bag, list, runOf)
  OBVIOUS
<1>2. Sound(w)
  BY <1>1, LoadingIs
<1>3. /\ views' = w.vs /\ activeViewId' = w.active
      /\ stored' = [Saved(w, runOf) EXCEPT !.run = IF runOf = None THEN bag.run ELSE runOf]
      /\ known' = list /\ edits' = {} /\ call' = None /\ poll' = None /\ asked' = None
  BY <1>1 DEF Load
<1>4. w0' = w
  BY <1>2, <1>3, SoundIs DEF w0
<1>5. Keeping(w, stored')
  <2>1. PICK b, x, y : b = [i \in DOMAIN w.vs |-> Persist(w.vs[i])] /\ x = (IF runOf = None THEN stored.run ELSE runOf)
                       /\ y = IF runOf = None THEN bag.run ELSE runOf
    OBVIOUS
  <2>2. stored' = [[views |-> b, active |-> w.active, run |-> x] EXCEPT !.run = y]
    BY <1>3, <2>1 DEF Saved
  <2>3. stored' = [views |-> b, active |-> w.active, run |-> y]
    BY <2>2
  <2> QED
    BY <2>1, <2>3 DEF Keeping
<1>6. Arranged'
  BY <1>2, <1>4, <1>5 DEF Arranged
<1>7. Pending'
  BY <1>3 DEF Pending
<1>8. EditsHaveTabs'
  BY <1>3 DEF EditsHaveTabs
<1> QED
  BY <1>6, <1>7, <1>8 DEF Advances

LEMMA LoadsStep ==
  ASSUME Arranged, Pending, Reloads \/ Restarts
  PROVE  Advances
<1>1. CASE Reloads
  <2>1. PICK answer : Load(server, answer, stored)
    BY <1>1 DEF Reloads
  <2>2. server' = server /\ fresh' = fresh
    BY <1>1 DEF Reloads, backend
  <2>3. Restorable(stored)
    BY ShowsIs, KeepingIs DEF Arranged
  <2> QED
    BY <2>1, <2>2, <2>3, LoadKeeps DEF Pending
<1>2. CASE Restarts
  <2>1. PICK stamp : Load({}, 2, [stored EXCEPT !.run = stamp])
    BY <1>2 DEF Restarts
  <2>2. server' = {} /\ fresh' = fresh
    BY <1>2 DEF Restarts
  <2>3. PICK bag : bag = [stored EXCEPT !.run = stamp]
    OBVIOUS
  <2>4. Keeping(w0, bag)
    <3>1. PICK b : b = [i \in DOMAIN w0.vs |-> Persist(w0.vs[i])]
      OBVIOUS
    <3>2. stored = [views |-> b, active |-> w0.active, run |-> stored.run]
      BY <3>1 DEF Arranged, Keeping
    <3>3. bag = [views |-> b, active |-> w0.active, run |-> stamp]
      BY <2>3, <3>2
    <3> QED
      BY <3>1, <3>3 DEF Keeping
  <2>5. Restorable(bag)
    BY <2>4, ShowsIs, KeepingIs
  <2> QED
    BY <2>1, <2>2, <2>3, <2>5, LoadKeeps DEF Pending
<1> QED
  BY <1>1, <1>2

LEMMA Starting == Init => Arranged /\ Pending
<1> SUFFICES ASSUME Init PROVE Arranged /\ Pending
  OBVIOUS
<1>1. PICK bag \in Bags :
        LET w == Loaded(bag, UNION {SessionIds(v) : v \in ToSet(bag.views)}, 1) IN
        /\ server = UNION {SessionIds(v) : v \in ToSet(bag.views)}
        /\ known = server /\ fresh = Sessions \ server
        /\ views = w.vs /\ activeViewId = w.active
        /\ stored = [views |-> [i \in DOMAIN w.vs |-> Persist(w.vs[i])], active |-> w.active, run |-> 1]
  BY DEF Init
<1>2. PICK w : w = Loaded(bag, server, 1)
  OBVIOUS
<1>3. /\ known = server /\ fresh = Sessions \ server /\ views = w.vs /\ activeViewId = w.active
      /\ stored = [views |-> [i \in DOMAIN w.vs |-> Persist(w.vs[i])], active |-> w.active, run |-> 1]
  BY <1>1, <1>2
<1>4. server \subseteq Sessions
  BY <1>1 DEF SessionIds
<1>5. Restorable(bag)
  BY WorkspaceAssumption
<1>6. Sound(w)
  BY <1>2, <1>4, <1>5, LoadingIs
<1>7. w0 = w
  BY <1>3, <1>6, SoundIs DEF w0
<1>8. Keeping(w, stored)
  BY <1>3 DEF Keeping
<1>9. call = None /\ poll = None /\ asked = None
  BY DEF Init
<1> QED
  BY <1>3, <1>4, <1>6, <1>7, <1>8, <1>9 DEF Arranged, Pending

LEMMA StandingStill ==
  ASSUME Arranged, Pending, UNCHANGED vars
  PROVE  Advances
<1>1. UNCHANGED <<views, activeViewId, stored, edits, known, server, fresh, call, poll, asked>>
  BY DEF vars
<1>2. Pending' /\ Arranged' /\ (EditsHaveTabs => EditsHaveTabs')
  BY <1>1, SameShown DEF Pending, EditsHaveTabs
<1> QED
  BY <1>2 DEF Advances

LEMMA EveryStep ==
  ASSUME Arranged, Pending, [Next]_vars
  PROVE  Arranged' /\ Pending' /\ (~RelaunchAnswers => Advances)
<1>1. CASE User
  <2>1. CASE Selects \/ DragsTab \/ DragsPane \/ SplitsIntoActive \/ DragsFileTab \/ DropsFile \/ Types \/ Renames
    BY <2>1, SelectsStep, DragsTabStep, DragsPaneStep, SplitsStep, DragsFileTabStep, DropsFileStep, TypesStep, RenamesStep DEF Advances
  <2>2. CASE ClosesView \/ ClosesSlot \/ ClosesTab \/ Opens \/ OpensAt
    BY <2>2, DoorsStep DEF Advances
  <2>3. CASE Launches \/ Kills \/ Relaunches
    BY <2>3, SendsStep DEF Advances
  <2>4. CASE Reloads \/ Restarts
    BY <2>4, LoadsStep DEF Advances
  <2>5. CASE KeepsEditing \/ Discards
    BY <2>5, AnswersQuestionStep DEF Advances
  <2>6. CASE Elsewhere
    BY <2>6, BesidesStep DEF Advances
  <2> QED
    BY <1>1, <2>1, <2>2, <2>3, <2>4, <2>5, <2>6 DEF User
<1>2. CASE Page
  <2>1. CASE SaveLands
    BY <2>1, TypesStep DEF Advances
  <2>2. CASE BackendActs \/ CallFails \/ Polls
    BY <2>2, BesidesStep DEF Advances
  <2>3. CASE LaunchAnswers
    BY <2>3, LaunchStep DEF Advances
  <2>4. CASE RelaunchAnswers
    BY <2>4, RelaunchStep
  <2>5. CASE KillAnswers
    BY <2>5, KillStep DEF Advances
  <2>6. CASE EndAnswers
    BY <2>6, EndStep DEF Advances
  <2>7. CASE SetSessions
    BY <2>7, PollStepKeeps DEF Advances
  <2> QED
    BY <1>2, <2>1, <2>2, <2>3, <2>4, <2>5, <2>6, <2>7 DEF Page
<1>3. CASE UNCHANGED vars
  BY <1>3, StandingStill DEF Advances
<1> QED
  BY <1>1, <1>2, <1>3 DEF Next

(* The arrangement is sound and stored as it is in every state, and what   *)
(* is under way (a question, a request, a list) fits it.                   *)
THEOREM Standing == Spec => [](Arranged /\ Pending)
<1>1. Init => Arranged /\ Pending
  BY Starting
<1>2. Arranged /\ Pending /\ [Next]_vars => (Arranged /\ Pending)'
  BY EveryStep
<1> QED
  BY <1>1, <1>2, PTL DEF Spec

-----------------------------------------------------------------------------
(***************************************************************************)
(* What the runs check, for every instance                                 *)
(***************************************************************************)
LEMMA CountsEach ==
  ASSUME NEW n \in Nat, NEW T, NEW f \in [1..n -> T], \A i, j \in 1..n : f[i] = f[j] => i = j, \A y \in T : \E i \in 1..n : f[i] = y
  PROVE  Cardinality(T) = n
<1>1. IsFiniteSet(1..n) /\ Cardinality(1..n) = n
  <2>1. 1 \in Int /\ n \in Int /\ (IF 1 > n THEN 0 ELSE n - 1 + 1) = n
    OBVIOUS
  <2> QED
    BY <2>1, FS_Interval
<1>2. f \in Bijection(1..n, T)
  BY DEF Bijection, Injection, Surjection, IsInjective
<1> QED
  BY <1>1, <1>2, FS_Bijection DEF ExistsBijection

LEMMA SequenceCounts ==
  ASSUME NEW S, NEW s \in Seq(S), \A i, j \in 1..Len(s) : s[i] = s[j] => i = j
  PROVE  Cardinality(ToSet(s)) = Len(s)
<1>1. PICK n \in Nat : n = Len(s)
  OBVIOUS
<1>2. PICK T : T = ToSet(s)
  OBVIOUS
<1>3. s \in [1..n -> T]
  BY <1>1, <1>2, ToSetIs
<1>4. \A y \in T : \E i \in 1..n : s[i] = y
  BY <1>1, <1>2, ToSetIs
<1> QED
  BY <1>1, <1>2, <1>3, <1>4, CountsEach

LEMMA SoundArrangement ==
  ASSUME Arranged
  PROVE  ArrangementSound
<1>1. /\ Stands(w0) /\ w0.vs = views /\ w0.active = activeViewId /\ Has(w0, activeViewId) /\ Filled(w0)
  BY ShowsIs DEF Sound
<1>2. PICK q \in Seq(GoodViews) : q = views /\ Apart(q) /\ Homed(q)
  BY <1>1, TabsAre DEF Stands, Laid
<1>3. PICK n \in Nat : n = Len(q) /\ DOMAIN q = 1..n
  OBVIOUS
<1>4. \A i \in DOMAIN views : (views[i].root = Home) = (i = 1)
  BY <1>2, <1>3 DEF Homed
<1>5. ASSUME NEW i \in DOMAIN views, NEW j \in DOMAIN views, NEW k \in DOMAIN views[i].slots, NEW l \in DOMAIN views[j].slots,
             views[i].slots[k].id = views[j].slots[l].id
      PROVE  i = j /\ k = l
  <2>1. PICK u, v : u = views[i] /\ v = views[j]
    OBVIOUS
  <2>2. u \in GoodViews /\ v \in GoodViews /\ u \in ToSet(w0.vs) /\ v \in ToSet(w0.vs)
    BY <1>1, <1>2, <1>3, <2>1, ToSetIs
  <2>3. k \in 1..Len(u.slots) /\ l \in 1..Len(v.slots)
    BY <2>1, <2>2, GoodViewIs
  <2>4. u.slots[k] \in ToSet(u.slots) /\ v.slots[l] \in ToSet(v.slots)
    BY <2>2, <2>3, SlotOf
  <2>5. u = v
    BY <1>1, <1>5, <2>1, <2>2, <2>4, KeyApart
  <2>6. i = j
    BY <1>2, <2>1, <2>5 DEF Apart
  <2>7. k = l
    BY <1>5, <2>1, <2>2, <2>5 DEF GoodViews, Apart
  <2> QED
    BY <2>6, <2>7
<1>6. Cardinality(Ids(views)) = Len(views)
  <2>1. PICK f : f = [i \in 1..n |-> q[i].id]
    OBVIOUS
  <2>2. PICK T : T = Ids(views)
    OBVIOUS
  <2>3. T = {q[i].id : i \in 1..n}
    BY <1>2, <1>3, <2>2 DEF Ids
  <2>4. f \in [1..n -> T] /\ \A y \in T : \E i \in 1..n : f[i] = y
    BY <2>1, <2>3
  <2>5. \A i, j \in 1..n : f[i] = f[j] => i = j
    BY <1>2, <1>3, <2>1 DEF Apart
  <2> QED
    BY <1>2, <1>3, <2>2, <2>4, <2>5, CountsEach
<1>7. ASSUME NEW v \in ToSet(views)
      PROVE  /\ Len(v.slots) <= MAX_PANES /\ v.focused \in 1..Clamp(1, Len(v.slots), MAX_PANES)
             /\ v.root = None => v.slots # <<>>
             /\ \A i \in Editors(v) : LET s == v.slots[i] IN
                  /\ s.tabs # <<>> /\ Len(s.tabs) <= MaxTabs /\ s.active \in DOMAIN s.tabs
                  /\ Cardinality(ToSet(s.tabs)) = Len(s.tabs)
  <2>1. v \in GoodViews /\ ~Bare(v)
    BY <1>1, TabsAre DEF Filled
  <2>2. PICK m \in Nat : m = Len(v.slots) /\ m <= 4
    BY <2>1, GoodViewIs
  <2>3. v.focused \in 1..4 /\ (v.focused = 1 \/ v.focused <= m)
    BY <2>1, <2>2 DEF GoodViews, InFocus
  <2>4. Clamp(1, m, 4) = IF m < 1 THEN 1 ELSE m
    BY <2>2 DEF Clamp
  <2>5. v.focused \in 1..Clamp(1, m, 4)
    BY <2>2, <2>3, <2>4
  <2>6. ASSUME NEW i \in Editors(v), NEW s, s = v.slots[i]
        PROVE  s.tabs # <<>> /\ Len(s.tabs) <= MaxTabs /\ s.active \in DOMAIN s.tabs /\ Cardinality(ToSet(s.tabs)) = Len(s.tabs)
    <3>1. Strip(s) /\ s.tabs \in Seq(Files \cup Diffs) /\ DOMAIN s.tabs = 1..Len(s.tabs)
      BY <2>1, <2>6, EditorOf
    <3>2. PICK t \in Seq(Files \cup Diffs) : t = s.tabs
      BY <3>1
    <3>3. Cardinality(ToSet(t)) = Len(t)
      BY <3>1, <3>2, SequenceCounts DEF Strip
    <3> QED
      BY <3>1, <3>2, <3>3 DEF Strip
  <2> QED
    BY <2>1, <2>2, <2>5, <2>6 DEF Bare, MAX_PANES
<1> QED
  BY <1>1, <1>4, <1>5, <1>6, <1>7 DEF ArrangementSound

(* The arrangement stays one that the grid can draw (state-views.ts,       *)
(* state-editor.ts), for any number of sessions, tabs, panes and files.    *)
THEOREM ArrangementIsSound == Spec => []ArrangementSound
<1>1. Arranged /\ Pending => ArrangementSound
  BY SoundArrangement
<1> QED
  BY <1>1, Standing, PTL

(* A reload in the same run shows what was on the screen (loadUi,          *)
(* state-persist.ts): what is stored is always the arrangement shown.      *)
THEOREM ReloadIsSame == Spec => []ReloadShowsTheSame
<1>1. Arranged /\ Pending => ReloadShowsTheSame
  BY ReloadIsTheSame DEF Arranged, Pending
<1> QED
  BY <1>1, Standing, PTL

(* No step but the answer of a relaunch leaves unsaved text without a tab  *)
(* that shows its file (pruneOrphanEdits, state-editor.ts).                *)
THEOREM EditsStay == Spec => EditsKeepTabs
<1>1. (Arranged /\ Pending) /\ [Next]_vars => [EditsHaveTabs /\ ~RelaunchAnswers => EditsHaveTabs']_vars
  BY EveryStep DEF Advances
<1> QED
  BY <1>1, Standing, PTL DEF Spec, EditsKeepTabs

-----------------------------------------------------------------------------
(***************************************************************************)
(* A drop and its undoing: whatever stands in a view, and wherever a pane  *)
(* is dropped, closing that pane restores the view. The grid is written    *)
(* case by case for one to four panes, and so is the proof.                *)
(***************************************************************************)
(* Two sequences of the same few elements are equal.                       *)
LEMMA FewElements ==
  ASSUME NEW S, NEW s \in Seq(S)
  PROVE  /\ Len(s) = 1 => s = <<s[1]>>
         /\ Len(s) = 2 => s = <<s[1], s[2]>>
         /\ Len(s) = 3 => s = <<s[1], s[2], s[3]>>
  OBVIOUS

(* A pane leaves a view of two or of three.                                *)
LEMMA RemoveFromTwo ==
  ASSUME NEW a, NEW b
  PROVE  RemoveAt(<<a, b>>, 1) = <<b>> /\ RemoveAt(<<a, b>>, 2) = <<a>>
<1> DEFINE S == {a, b}
           t == <<a, b>>
<1>1. t \in Seq(S) /\ Len(t) = 2 /\ {1, 2} \subseteq 1..Len(t) /\ t[1] = a /\ t[2] = b
  OBVIOUS
<1> HIDE DEF t, S
<1>2. /\ \A i \in 1..Len(t) : RemoveAt(t, i) \in Seq(S) /\ Len(RemoveAt(t, i)) = Len(t) - 1
      /\ \A i \in 1..Len(t) : \A j \in 1..Len(t) - 1 : RemoveAt(t, i)[j] = IF j < i THEN t[j] ELSE t[j + 1]
  BY <1>1, RemoveAtElements
<1>3. RemoveAt(t, 1) = <<b>> /\ RemoveAt(t, 2) = <<a>>
  BY <1>1, <1>2, FewElements
<1> QED
  BY <1>3 DEF t

LEMMA RemoveFromThree ==
  ASSUME NEW a, NEW b, NEW c
  PROVE  /\ RemoveAt(<<a, b, c>>, 1) = <<b, c>>
         /\ RemoveAt(<<a, b, c>>, 2) = <<a, c>>
         /\ RemoveAt(<<a, b, c>>, 3) = <<a, b>>
<1> DEFINE S == {a, b, c}
           t == <<a, b, c>>
<1>1. t \in Seq(S) /\ Len(t) = 3 /\ 1..3 = 1..Len(t) /\ t[1] = a /\ t[2] = b /\ t[3] = c
  OBVIOUS
<1> HIDE DEF t, S
<1>2. /\ \A i \in 1..Len(t) : RemoveAt(t, i) \in Seq(S) /\ Len(RemoveAt(t, i)) = Len(t) - 1
      /\ \A i \in 1..Len(t) : \A j \in 1..Len(t) - 1 : RemoveAt(t, i)[j] = IF j < i THEN t[j] ELSE t[j + 1]
  BY <1>1, RemoveAtElements
<1>3. /\ RemoveAt(t, 1) = <<b, c>>
      /\ RemoveAt(t, 2) = <<a, c>>
      /\ RemoveAt(t, 3) = <<a, b>>
  BY <1>1, <1>2, FewElements
<1> QED
  BY <1>3 DEF t

(* Only a view of four changes when a pane leaves it.                      *)
LEMMA CloseFew ==
  ASSUME NEW u, NEW i, "slots" \in DOMAIN u, Len(u.slots) # 4
  PROVE  Close(u, i).slots = RemoveAt(u.slots, i)
  BY DEF Close

(* One drop and its undoing.                                               *)
LEMMA DropThenClose ==
  ASSUME NEW S, NEW I, NEW R, NEW x, NEW s \in Seq(S),
         NEW v, v \in [id : I, root : R, slots : Seq(S), focused : Nat, l3 : {"L", "R"}], v.slots = s,
         \A j \in DOMAIN s : s[j] # x,
         NEW slot \in DOMAIN s, NEW zone \in DropZonesFor(v, slot, 1),
         NEW w, w = Arrange(v, slot, zone, <<x>>),
         NEW i \in DOMAIN w.slots, w.slots[i] = x
  PROVE  Close(w, i).slots = s /\ (Len(s) = 3 => Close(w, i).l3 = v.l3)
<1> DEFINE T == S \cup {x}
<1>1. Len(s) \in Nat /\ DOMAIN s = 1..Len(s) /\ v.l3 \in {"L", "R"}
  OBVIOUS
<1>2. w.slots[i] = x /\ i \in DOMAIN w.slots
  OBVIOUS
<1>3. Len(s) \in {1, 2, 3} /\ zone # "fill"
  BY SMTT(40), <1>1 DEF DropZonesFor, MAX_PANES
<1>4. \A j \in DOMAIN s : s[j] \in T /\ s[j] # x
  OBVIOUS
<1>5. "slots" \in DOMAIN w
  BY <1>3 DEF Arrange
<1>6. CASE Len(s) = 1
  <2>1. PICK a \in T : s = <<a>> /\ a # x
    BY <1>1, <1>4, <1>6, FewElements
  <2>2. (w.slots = <<x, a>> \/ w.slots = <<a, x>>) /\ Len(w.slots) # 4
    BY <2>1, <1>1, <1>3, <1>6 DEF Arrange, MAX_PANES
  <2>3. Close(w, i).slots = RemoveAt(w.slots, i)
    BY ONLY <2>2, <1>5, CloseFew
  <2>4. CASE w.slots = <<x, a>>
    <3>1. i = 1
      BY ONLY <2>1, <2>4, <1>2
    <3>2. RemoveAt(w.slots, 1) = <<a>>
      BY ONLY <2>4, RemoveFromTwo
    <3> QED
      BY ONLY <3>1, <3>2, <2>1, <2>3
  <2>5. CASE w.slots = <<a, x>>
    <3>1. i = 2
      BY ONLY <2>1, <2>5, <1>2
    <3>2. RemoveAt(w.slots, 2) = <<a>>
      BY ONLY <2>5, RemoveFromTwo
    <3> QED
      BY ONLY <3>1, <3>2, <2>1, <2>3
  <2> QED
    BY <2>2, <2>4, <2>5
<1>7. CASE Len(s) = 2
  <2>1. PICK a \in T, b \in T : s = <<a, b>> /\ a # x /\ b # x
    BY <1>1, <1>4, <1>7, FewElements
  <2>2. (w.slots = <<x, a, b>> \/ w.slots = <<a, x, b>> \/ w.slots = <<a, b, x>>) /\ Len(w.slots) # 4
    BY <2>1, <1>1, <1>3, <1>7 DEF Arrange, MAX_PANES
  <2>3. Close(w, i).slots = RemoveAt(w.slots, i)
    BY ONLY <2>2, <1>5, CloseFew
  <2>4. CASE w.slots = <<x, a, b>>
    <3>1. i = 1
      BY ONLY <2>1, <2>4, <1>2
    <3>2. RemoveAt(w.slots, 1) = <<a, b>>
      BY ONLY <2>4, RemoveFromThree
    <3> QED
      BY ONLY <3>1, <3>2, <2>1, <2>3
  <2>5. CASE w.slots = <<a, x, b>>
    <3>1. i = 2
      BY ONLY <2>1, <2>5, <1>2
    <3>2. RemoveAt(w.slots, 2) = <<a, b>>
      BY ONLY <2>5, RemoveFromThree
    <3> QED
      BY ONLY <3>1, <3>2, <2>1, <2>3
  <2>6. CASE w.slots = <<a, b, x>>
    <3>1. i = 3
      BY ONLY <2>1, <2>6, <1>2
    <3>2. RemoveAt(w.slots, 3) = <<a, b>>
      BY ONLY <2>6, RemoveFromThree
    <3> QED
      BY ONLY <3>1, <3>2, <2>1, <2>3
  <2> QED
    BY <2>2, <2>4, <2>5, <2>6
<1>8. CASE Len(s) = 3
  <2>1. s = <<s[1], s[2], s[3]>> /\ s[1] # x /\ s[2] # x /\ s[3] # x
    BY <1>1, <1>4, <1>8, FewElements
  <2>2. CASE v.l3 = "L"
    <3>1. w.slots = <<x, s[2], s[1], s[3]>> \/ w.slots = <<s[1], s[2], x, s[3]>>
      BY <1>1, <1>3, <1>8, <2>2 DEF Arrange, MAX_PANES
    <3>2. i \in {1, 3} /\ (i = 1 <=> w.slots = <<x, s[2], s[1], s[3]>>)
      BY <3>1, <2>1, <1>2
    <3>3. Close(w, i).slots = <<s[1], s[2], s[3]>> /\ Close(w, i).l3 = "L"
      BY <3>1, <3>2, <2>2, <1>8, <1>3 DEF Close, Arrange, MAX_PANES
    <3> QED
      BY <3>3, <2>1, <2>2
  <2>3. CASE v.l3 = "R"
    <3>1. w.slots = <<s[1], x, s[2], s[3]>> \/ w.slots = <<s[1], s[3], s[2], x>>
      BY <1>1, <1>3, <1>8, <2>3 DEF Arrange, MAX_PANES
    <3>2. i \in {2, 4} /\ (i = 2 <=> w.slots = <<s[1], x, s[2], s[3]>>)
      BY <3>1, <2>1, <1>2
    <3>3. Close(w, i).slots = <<s[1], s[2], s[3]>> /\ Close(w, i).l3 = "R"
      BY <3>1, <3>2, <2>3, <1>8, <1>3 DEF Close, Arrange, MAX_PANES
    <3> QED
      BY <3>3, <2>1, <2>3
  <2> QED
    BY <1>1, <2>2, <2>3
<1> QED
  BY <1>3, <1>6, <1>7, <1>8

(* DropUndone holds of every view: what insertSlots does with one pane,    *)
(* removeAtSlot undoes (state-views.ts:52-114).                            *)
THEOREM DropIsUndone ==
  ASSUME NEW S, NEW I, NEW R, NEW x,
         NEW v \in [id : I, root : R, slots : Seq(S), focused : Nat, l3 : {"L", "R"}],
         \A i \in DOMAIN v.slots : v.slots[i] # x
  PROVE  DropUndone(v, x)
<1>1. v.slots \in Seq(S)
  OBVIOUS
<1> QED
  BY <1>1, DropThenClose DEF DropUndone

(* What a drop did, closing the pane it made undoes, in every view that is *)
(* shown (state-views.ts:52-114).                                          *)
THEOREM DropsAreUndone == Spec => []DropsUndone
<1>1. ASSUME Arranged PROVE DropsUndone
  <2>1. PICK v \in GoodViews : v = Shows
    BY <1>1, ShowsIs
  <2>2. PICK x : x = SessionSlot(None)
    OBVIOUS
  <2>3. \A i \in DOMAIN v.slots : v.slots[i] # x
    <3>1. x.id \notin Keys
      BY <2>2, WorkspaceAssumption DEF SessionSlot, Keys
    <3> QED
      BY <3>1, GoodViewIs, SlotOf DEF GoodSlots, SlotT
  <2>4. v \in [id : Nat, root : Roots, slots : Seq(GoodSlots), focused : Nat, l3 : {"L", "R"}]
    BY DEF GoodViews, ViewsOf
  <2>5. DropUndone(v, x)
    BY <2>3, <2>4, DropIsUndone
  <2> QED
    BY <2>1, <2>2, <2>5 DEF DropsUndone
<1>2. Arranged /\ Pending => DropsUndone
  BY <1>1
<1> QED
  BY <1>2, Standing, PTL
=============================================================================
