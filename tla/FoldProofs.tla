----------------------------- MODULE FoldProofs -----------------------------
(***************************************************************************)
(* Induction over the naturals, from the least element of a set of them    *)
(* (WFMin of the library), and with it what a fold over a sequence         *)
(* computes. A module that proves about a fold takes an instance for the   *)
(* operator that it folds; its first argument is what the step reads       *)
(* besides, and stays as it is.                                            *)
(***************************************************************************)
EXTENDS Integers, Sequences, Folds, WellFoundedInduction, TLAPS

CONSTANT Op(_, _, _)  \* what is folded

(* FoldLeft and Max of the library, written out: their modules would come  *)
(* with every instance of this one.                                        *)
Greatest(S) == CHOOSE x \in S : \A y \in S : x >= y
Folded(c, a, s) == MapThenFoldSet(LAMBDA x, y : Op(c, y, x), a, LAMBDA i : s[i], LAMBDA S : Greatest(S), DOMAIN s)

(* A set of naturals that is not empty has a least member.                 *)
Less == {p \in Nat \X Nat : p[1] < p[2]}
LEMMA LeastNatural ==
  ASSUME NEW T, T \subseteq Nat, T # {}
  PROVE  \E x \in T : \A y \in T : x <= y
<1>1. IsWellFoundedOn(Less, Nat)
  BY NatLessThanWellFounded DEF OpToRel, Less
<1>2. PICK x \in T : \A y \in T : ~(<<y, x>> \in Less)
  BY <1>1, WFMin, Zenon
<1>3. ASSUME NEW y \in T PROVE x <= y
  <2>1. x \in Nat /\ y \in Nat
    OBVIOUS
  <2>2. ~(y < x)
    BY <1>2, <2>1 DEF Less
  <2> QED
    BY <2>1, <2>2
<1> QED
  BY <1>3

(* Induction, over the set of the naturals that have a property.           *)
LEMMA Induction ==
  ASSUME NEW T, 0 \in T, \A n \in Nat : n \in T => n + 1 \in T
  PROVE  Nat \subseteq T
<1> DEFINE R == Nat \ T
<1> SUFFICES ASSUME R # {} PROVE FALSE
  OBVIOUS
<1>1. R \subseteq Nat
  OBVIOUS
<1> HIDE DEF R
<1>2. PICK n \in R : \A m \in R : n <= m
  BY <1>1, LeastNatural
<1> USE DEF R
<1>3. n \in Nat /\ n # 0 /\ n \notin T
  OBVIOUS
<1>4. n - 1 \in Nat /\ n - 1 \in T
  BY <1>2, <1>3
<1>5. (n - 1) + 1 \in T
  BY <1>4
<1> QED
  BY <1>3, <1>5

LEMMA GreatestIs ==
  ASSUME NEW n \in Nat, NEW t \in SUBSET (1..(n + 1)), n + 1 \in t
  PROVE  Greatest(t) = n + 1
<1>1. n + 1 \in t /\ \A m \in t : n + 1 >= m
  OBVIOUS
<1>2. \A x \in t : (\A y \in t : x >= y) => x = n + 1
  <2> TAKE x \in t
  <2> HAVE \A y \in t : x >= y
  <2>1. x >= n + 1 /\ n + 1 >= x /\ x \in Int /\ n + 1 \in Int
    BY <1>1
  <2> QED
    BY <2>1
<1> QED
  BY <1>1, <1>2 DEF Greatest

LEMMA GreatestIn ==
  ASSUME NEW n \in Nat, NEW t \in SUBSET (1..n), t # {}
  PROVE  Greatest(t) \in t
<1> DEFINE T == {k \in 0..n : n - k \in t}
<1>1. T \subseteq Nat /\ T # {}
  <2>1. PICK x \in t : TRUE
    OBVIOUS
  <2>2. n - x \in 0..n /\ n - (n - x) = x
    OBVIOUS
  <2>3. n - x \in T
    BY <2>2
  <2> HIDE DEF T
  <2>4. T \subseteq Nat
    BY DEF T
  <2> QED
    BY <2>3, <2>4
<1> HIDE DEF T
<1>2. PICK k \in T : \A j \in T : k <= j
  BY <1>1, LeastNatural
<1>3. n - k \in t
  BY DEF T
<1>4. ASSUME NEW y \in t PROVE n - k >= y
  <2>1. n - y \in T
    BY DEF T
  <2>2. k <= n - y /\ k \in Nat /\ y \in Nat
    BY <2>1, <1>1, <1>2
  <2> QED
    BY <2>2
<1> QED
  BY <1>3, <1>4 DEF Greatest

(***************************************************************************)
(* The library takes the last element of a set of indices off: h is the    *)
(* function of such sets, and there is one.                                *)
(***************************************************************************)
TakesLast(h, c, a, s, I) ==
  h = [t \in SUBSET I |-> IF t = {} THEN a ELSE Op(c, h[t \ {Greatest(t)}], s[Greatest(t)])]

LEMMA FoldExists ==
  ASSUME NEW c, NEW a, NEW s, NEW m \in Nat
  PROVE  \E h : TakesLast(h, c, a, s, 1..m)
<1> DEFINE T == {n \in Nat : \E h : TakesLast(h, c, a, s, 1..n)}
<1>1. 0 \in T
  <2> DEFINE h == [t \in SUBSET (1..0) |-> a]
  <2>1. 1..0 = {}
    OBVIOUS
  <2>2. h = [t \in SUBSET (1..0) |-> IF t = {} THEN a ELSE Op(c, h[t \ {Greatest(t)}], s[Greatest(t)])]
    BY <2>1
  <2> HIDE DEF h
  <2> QED
    BY <2>2 DEF TakesLast
<1>2. ASSUME NEW n \in Nat, n \in T PROVE n + 1 \in T
  <2>1. PICK h : TakesLast(h, c, a, s, 1..n)
    BY <1>2
  <2> DEFINE k == [t \in SUBSET (1..(n + 1)) |-> IF n + 1 \in t THEN Op(c, h[t \ {n + 1}], s[n + 1]) ELSE h[t]]
  <2>2. \A t \in SUBSET (1..(n + 1)) : t \ {n + 1} \in SUBSET (1..n)
    BY <1>2
  <2>3. ASSUME NEW t \in SUBSET (1..(n + 1))
        PROVE  k[t] = IF t = {} THEN a ELSE Op(c, k[t \ {Greatest(t)}], s[Greatest(t)])
    <3>1. CASE n + 1 \in t
      <4>1. Greatest(t) = n + 1
        BY <3>1, GreatestIs
      <4>2. k[t \ {n + 1}] = h[t \ {n + 1}]
        BY <2>2
      <4>3. k[t] = Op(c, h[t \ {n + 1}], s[n + 1])
        BY <3>1
      <4> HIDE DEF k
      <4> QED
        BY <3>1, <4>1, <4>2, <4>3
    <3>2. CASE n + 1 \notin t
      <4>1. t \in SUBSET (1..n)
        BY <2>2, <3>2
      <4>2. k[t] = h[t] /\ \A m1 : t \ {m1} \in SUBSET (1..n) /\ k[t \ {m1}] = h[t \ {m1}]
        BY <3>2, <4>1
      <4>3. h[t] = IF t = {} THEN a ELSE Op(c, h[t \ {Greatest(t)}], s[Greatest(t)])
        BY <2>1, <4>1 DEF TakesLast
      <4> HIDE DEF k
      <4> QED
        BY <4>2, <4>3
    <3> QED
      BY <3>1, <3>2
  <2>4. k = [t \in SUBSET (1..(n + 1)) |-> k[t]]
    OBVIOUS
  <2> HIDE DEF k
  <2>5. TakesLast(k, c, a, s, 1..(n + 1))
    BY <2>3, <2>4 DEF TakesLast
  <2> QED
    BY <2>5
<1>3. Nat \subseteq T
  <2> HIDE DEF T
  <2> QED
    BY <1>1, <1>2, Induction
<1> QED
  BY <1>3

(* The initial segments of the indices.                                    *)
LEMMA InitialSegments ==
  ASSUME NEW E, NEW s \in Seq(E)
  PROVE  /\ {} \in SUBSET DOMAIN s /\ 1..0 = {} /\ DOMAIN s = 1..Len(s)
         /\ \A n \in 1..Len(s) : /\ 1..n \in SUBSET DOMAIN s /\ 1..n # {}
                                 /\ Greatest(1..n) = n /\ 1..n \ {n} = 1..(n - 1)
                                 /\ 1..(n - 1) \in SUBSET DOMAIN s
<1>1. ASSUME NEW n \in 1..Len(s) PROVE Greatest(1..n) = n
  <2>1. n - 1 \in Nat /\ (n - 1) + 1 = n /\ 1..n \in SUBSET (1..((n - 1) + 1)) /\ (n - 1) + 1 \in 1..n
    OBVIOUS
  <2>2. Greatest(1..n) = (n - 1) + 1
    BY ONLY <2>1, GreatestIs
  <2> QED
    BY <2>1, <2>2
<1>2. DOMAIN s = 1..Len(s) /\ Len(s) \in Nat /\ 1..0 = {} /\ {} \in SUBSET DOMAIN s
  OBVIOUS
<1>3. ASSUME NEW n \in 1..Len(s)
      PROVE  /\ 1..n \ {n} = 1..(n - 1) /\ 1..n # {}
             /\ 1..n \in SUBSET DOMAIN s /\ 1..(n - 1) \in SUBSET DOMAIN s
  <2>1. n \in Nat /\ n - 1 \in Nat /\ n \in 1..n
    OBVIOUS
  <2>2. 1..n \ {n} = 1..(n - 1)
    BY <2>1
  <2>3. 1..n \subseteq 1..Len(s) /\ 1..(n - 1) \subseteq 1..Len(s)
    BY <1>2
  <2> QED
    BY <1>2, <2>1, <2>2, <2>3
<1> QED
  BY <1>1, <1>2, <1>3

(* What a fold of Op accumulates, element by element.                      *)
Accumulates(c, f, a, s) == f[0] = a /\ \A n \in 1..Len(s) : f[n] = Op(c, f[n - 1], s[n])
LEMMA FoldGoes ==
  ASSUME NEW c, NEW E, NEW a, NEW s \in Seq(E)
  PROVE  \E f : Accumulates(c, f, a, s) /\ Folded(c, a, s) = f[Len(s)]
<1> DEFINE iter == CHOOSE h : h = [t \in SUBSET DOMAIN s |-> IF t = {} THEN a ELSE Op(c, h[t \ {Greatest(t)}], s[Greatest(t)])]
           f == [n \in 0..Len(s) |-> iter[1..n]]
<1>1. Folded(c, a, s) = iter[DOMAIN s]
  BY Zenon DEF Folded, MapThenFoldSet
<1>2. Len(s) \in Nat /\ DOMAIN s = 1..Len(s)
  OBVIOUS
<1>3. \E h : h = [t \in SUBSET DOMAIN s |-> IF t = {} THEN a ELSE Op(c, h[t \ {Greatest(t)}], s[Greatest(t)])]
  <2>1. \E h : TakesLast(h, c, a, s, DOMAIN s)
    BY <1>2, FoldExists, Zenon
  <2> QED
    BY <2>1, Zenon DEF TakesLast
<1>4. iter = [t \in SUBSET DOMAIN s |-> IF t = {} THEN a ELSE Op(c, iter[t \ {Greatest(t)}], s[Greatest(t)])]
  BY <1>3
<1> HIDE DEF iter
<1>5. iter[{}] = a
  BY <1>4, InitialSegments
<1>6. ASSUME NEW n \in 1..Len(s) PROVE iter[1..n] = Op(c, iter[1..(n - 1)], s[n])
  <2>1. iter[1..n] = Op(c, iter[1..n \ {Greatest(1..n)}], s[Greatest(1..n)])
    BY ONLY <1>4, n \in 1..Len(s), s \in Seq(E), InitialSegments
  <2>2. 1..n \ {Greatest(1..n)} = 1..(n - 1) /\ Greatest(1..n) = n
    BY InitialSegments
  <2> QED
    BY <2>1, <2>2
<1>7. f[0] = a /\ f[Len(s)] = iter[DOMAIN s]
  BY <1>2, <1>5, InitialSegments
<1>8. ASSUME NEW n \in 1..Len(s) PROVE f[n] = Op(c, f[n - 1], s[n])
  <2>1. n \in 0..Len(s) /\ n - 1 \in 0..Len(s)
    OBVIOUS
  <2> QED
    BY <1>6, <2>1
<1> HIDE DEF f
<1> QED
  BY <1>1, <1>7, <1>8 DEF Accumulates

(* With what Op stays in, S, for elements of E.                            *)
Keeps(c, S, E) == \A x \in S : \A y \in E : Op(c, x, y) \in S
LEMMA FoldRuns ==
  ASSUME NEW c, NEW S, NEW E, Keeps(c, S, E), NEW a \in S, NEW s \in Seq(E)
  PROVE  \E f \in [0..Len(s) -> S] : Accumulates(c, f, a, s) /\ Folded(c, a, s) = f[Len(s)]
<1>1. PICK g : Accumulates(c, g, a, s) /\ Folded(c, a, s) = g[Len(s)]
  BY FoldGoes
<1> DEFINE T == {n \in Nat : n <= Len(s) => g[n] \in S}
<1>2. 0 \in T
  BY <1>1 DEF Accumulates
<1>3. ASSUME NEW n \in Nat, n \in T PROVE n + 1 \in T
  <2> SUFFICES ASSUME n + 1 <= Len(s) PROVE g[n + 1] \in S
    OBVIOUS
  <2>1. n + 1 \in 1..Len(s) /\ (n + 1) - 1 = n /\ n <= Len(s)
    OBVIOUS
  <2>2. g[n] \in S /\ s[n + 1] \in E
    BY <1>3, <2>1
  <2>3. g[n + 1] = Op(c, g[n], s[n + 1])
    BY <1>1, <2>1 DEF Accumulates
  <2> QED
    BY <2>2, <2>3 DEF Keeps
<1>4. Nat \subseteq T
  <2> HIDE DEF T
  <2> QED
    BY <1>2, <1>3, Induction
<1>5. \A n \in 0..Len(s) : g[n] \in S
  BY <1>4
<1> DEFINE f == [n \in 0..Len(s) |-> g[n]]
<1>6. f \in [0..Len(s) -> S]
  BY <1>5
<1>7. f[0] = a /\ f[Len(s)] = g[Len(s)]
  BY <1>1 DEF Accumulates
<1>8. ASSUME NEW n \in 1..Len(s) PROVE f[n] = Op(c, f[n - 1], s[n])
  <2>1. n \in 0..Len(s) /\ n - 1 \in 0..Len(s)
    OBVIOUS
  <2>2. g[n] = Op(c, g[n - 1], s[n])
    BY <1>1 DEF Accumulates
  <2> QED
    BY <2>1, <2>2
<1> HIDE DEF f
<1> QED
  BY <1>1, <1>6, <1>7, <1>8 DEF Accumulates

(* What Op stays in, the fold stays in.                                    *)
LEMMA FoldStays ==
  ASSUME NEW c, NEW S, NEW E, Keeps(c, S, E), NEW a \in S, NEW s \in Seq(E)
  PROVE  Folded(c, a, s) \in S
<1>1. PICK f \in [0..Len(s) -> S] : Accumulates(c, f, a, s) /\ Folded(c, a, s) = f[Len(s)]
  BY FoldRuns
<1> QED
  BY <1>1
=============================================================================
