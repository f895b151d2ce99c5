-------------------------- MODULE ObserversProofs --------------------------
(***************************************************************************)
(* The theorems about the observers: the safety of the release check, that *)
(* the scan of the output hears what a terminal hears, that the sweep folds*)
(* every line of a transcript once, and that the output reaches the windows*)
(* whole. The releases come first, for any set of versions: the conjunction*)
(* of the invariants of ReleaseCheck is inductive, since the pair in memory*)
(* comes from an answer or from the file, the pair in the file from memory.*)
(***************************************************************************)
EXTENDS MCObservers, SequenceTheorems, FiniteSetTheorems, TLAPS

IInv == TypeOK /\ PairsAgree /\ ScheduleGoesOn /\ WindowRespected

(* What a payload is gated to is a version or nothing.                     *)
LEMMA GatedIsAVersion == \A p \in Tags : Gated(p) \in Versions \cup {0}
BY DEF Tags, Payloads, NoTag, Gated

(* An ETag in memory or in the file is sent as it is: no tag is no payload.*)
LEMMA NoTagIsNoPayload == NoTag \notin Payloads
BY VersionsAreOrdered DEF NoTag, Payloads

(* Whether it succeeds or fails, persist leaves a file of the right type   *)
(* whose ETag vouches for its release.                                     *)
LEMMA PersistKeepsPair ==
  ASSUME TypeOK, PairsAgree, NEW tag \in Tags, NEW l \in Versions \cup {0},
         tag # NoTag => l = Gated(tag), Persist(tag, l)
  PROVE  /\ cache' \in {NoCache} \cup [etag : Payloads, latest : Versions \cup {0}]
         /\ cache'.etag # NoTag => cache'.latest = Gated(cache'.etag)
<1>1. CASE cache' = cache
  BY <1>1 DEF TypeOK, PairsAgree
<1>2. CASE tag = NoTag /\ cache' = NoCache
  BY <1>2 DEF NoCache
<1>3. CASE tag # NoTag /\ cache' = [etag |-> tag, latest |-> l]
  BY <1>3 DEF Tags
<1> QED BY <1>1, <1>2, <1>3 DEF Persist

(* The initial states satisfy the invariant.                               *)
LEMMA InitSafe == Init => IInv
<1> SUFFICES ASSUME Init PROVE IInv
  OBVIOUS
<1>1. TypeOK
  BY DEF Init, TypeOK, Tags
<1>2. cache.etag = NoTag
  BY DEF Init, NoCache
<1> QED BY <1>1, <1>2 DEF Init, IInv, PairsAgree, ScheduleGoesOn, WindowRespected

(* Every step keeps it.                                                    *)
LEMMA StepSafe == IInv /\ [Next]_vars => IInv'
<1> SUFFICES ASSUME IInv, [Next]_vars PROVE IInv'
  OBVIOUS
<1> USE DEF IInv
<1>1. ASSUME NEW v \in Versions, Boot(v) PROVE IInv'
  <2>1. etag' \in Tags /\ latest' \in Versions \cup {0}
    BY <1>1 DEF Boot, TypeOK, NoCache, Tags
  <2>2. TypeOK'
    BY <1>1, <2>1 DEF Boot, TypeOK
  <2>3. PairsAgree'
    BY <1>1 DEF Boot, PairsAgree, Gated
  <2> QED BY <1>1, <2>2, <2>3 DEF Boot, ScheduleGoesOn, WindowRespected
<1>2. CASE Start
  BY <1>2 DEF Start, TypeOK, PairsAgree, Gated, ScheduleGoesOn, WindowRespected
<1>3. ASSUME NEW armed \in BOOLEAN, RunShared(armed), armed \in {FALSE, timer},
             started \/ timer, armed = timer \/ timer = TRUE,
             UNCHANGED <<pub, memory, etag, latest, window, cache>>
      PROVE  IInv'
  <2>1. CASE asking
    BY <1>3, <2>1 DEF RunShared, memory, TypeOK, PairsAgree, Gated, ScheduleGoesOn, WindowRespected
  <2>2. CASE ~asking /\ MayAsk
    BY <1>3, <2>2 DEF RunShared, MayAsk, memory, TypeOK, PairsAgree, Gated, ScheduleGoesOn,
                      WindowRespected
  <2>3. CASE ~asking /\ ~MayAsk
    BY <1>3, <2>3 DEF RunShared, Arm, memory, TypeOK, PairsAgree, Gated, ScheduleGoesOn,
                      WindowRespected
  <2> QED BY <2>1, <2>2, <2>3
<1>4. CASE TimerFires
  BY <1>4, <1>3 DEF TimerFires
<1>5. CASE CheckNow
  BY <1>5, <1>3 DEF CheckNow, TypeOK
<1>6. CASE AnswerFails \/ AnswerLimited
  BY <1>6 DEF AnswerFails, AnswerLimited, Arm, memory, TypeOK, PairsAgree, Gated, ScheduleGoesOn,
              WindowRespected
<1>7. CASE AnswerNotModified
  <2>1. /\ cache' \in {NoCache} \cup [etag : Payloads, latest : Versions \cup {0}]
        /\ cache'.etag # NoTag => cache'.latest = Gated(cache'.etag)
    <3>1. Persist(etag, latest) /\ etag \in Tags /\ latest \in Versions \cup {0}
      BY <1>7 DEF AnswerNotModified, TypeOK
    <3>2. etag # NoTag => latest = Gated(etag)
      BY DEF PairsAgree
    <3> QED BY <3>1, <3>2, PersistKeepsPair
  <2> QED BY <1>7, <2>1 DEF AnswerNotModified, Arm, memory, TypeOK, PairsAgree, Gated,
                            ScheduleGoesOn, WindowRespected
<1>8. ASSUME NEW valid \in BOOLEAN, AnswerNew(valid) PROVE IInv'
  <2>1. etag' \in Tags /\ latest' \in Versions \cup {0} /\ (etag' # NoTag => latest' = Gated(etag'))
    BY <1>8, GatedIsAVersion DEF AnswerNew, TypeOK, Tags
  <2>2. /\ cache' \in {NoCache} \cup [etag : Payloads, latest : Versions \cup {0}]
        /\ cache'.etag # NoTag => cache'.latest = Gated(cache'.etag)
    <3>1. Persist(etag', latest')
      BY <1>8 DEF AnswerNew
    <3> QED BY <2>1, <3>1, PersistKeepsPair
  <2>3. PairsAgree'
    BY <2>1, <2>2 DEF PairsAgree, Gated
  <2> QED BY <1>8, <2>1, <2>2, <2>3 DEF AnswerNew, Arm, memory, TypeOK, ScheduleGoesOn,
                                        WindowRespected
<1>9. CASE WindowPasses
  BY <1>9 DEF WindowPasses, memory, TypeOK, PairsAgree, Gated, ScheduleGoesOn, WindowRespected
<1>10. ASSUME NEW p \in Payloads, Publish(p) PROVE IInv'
  BY <1>10 DEF Publish, memory, TypeOK, PairsAgree, Gated, ScheduleGoesOn, WindowRespected
<1>11. CASE Stop
  BY <1>11 DEF Stop, TypeOK, PairsAgree, Gated, ScheduleGoesOn, WindowRespected
<1>12. CASE ProcessEnds
  BY <1>12 DEF ProcessEnds, TypeOK, PairsAgree, Gated, ScheduleGoesOn, WindowRespected, Tags
<1>13. CASE UNCHANGED vars
  BY <1>13 DEF vars, TypeOK, PairsAgree, Gated, ScheduleGoesOn, WindowRespected
<1> QED
  BY <1>1, <1>2, <1>4, <1>5, <1>6, <1>7, <1>8, <1>9, <1>10, <1>11, <1>12, <1>13 DEF Next, Answers

(* For any versions and any history of answers, failed writes, stops and   *)
(* processes: a kept ETag vouches for the kept release, a started checker  *)
(* goes on, and the window of a rate limit is respected.                   *)
THEOREM ReleaseCheckSafe ==
  Spec => [](TypeOK /\ PairsAgree /\ ScheduleGoesOn /\ WindowRespected)
BY InitSafe, StepSafe, PTL DEF Spec, IInv

(* The part a downgrade depends on.                                        *)
THEOREM KeptPairsAgree == Spec => []PairsAgree
BY ReleaseCheckSafe, PTL

-----------------------------------------------------------------------------
(***************************************************************************)
(* The scan and the terminal, character by character.                      *)
(***************************************************************************)
Bodies == Seq(Titles!Chars)

(* What the scan knows of the body of an OSC string.                       *)
Dropping(b) == Len(b) > TitleMax + 2 \/ \E i \in 3..Len(b) : b[i] \in {"ctl", "esc"}
Idle(b) == Len(b) >= 3 /\ b[3] = "idle" /\ (Len(b) >= 4 => b[4] = "sp")
Phase(b) ==
  IF Titles!NoTitle(b) THEN "other"
  ELSE IF Len(b) = 0 THEN "start" ELSE IF Len(b) = 1 THEN "zero"
  ELSE IF Dropping(b) THEN "dropped" ELSE "title"
Knows(s, b) ==
  /\ Phase(b) = "other" => s.osc = "skip" \/ (s.osc = "num" /\ s.oscNum = "9")
  /\ Phase(b) = "start" => s.osc = "num" /\ s.oscNum = "" /\ s.titleLen = 0 /\ s.titleIdle = FALSE
  /\ Phase(b) = "zero" => s.osc = "num" /\ s.oscNum = "0" /\ s.titleLen = 0 /\ s.titleIdle = FALSE
  /\ Phase(b) = "dropped" => s.osc = "dropped"
  /\ Phase(b) = "title" => /\ s.osc = "title" /\ s.titleLen = Len(b) - 2
                           /\ s.titleIdle = Idle(b)

(* The bound on a title.                                                   *)
LEMMA TitleBound == TitleMax \in Nat /\ TitleMax >= 2
BY ObserverAssumption DEF Titles!ScanBounds

(* How long a body is, for case distinctions.                              *)
LEMMA Lengths ==
  ASSUME NEW b, Len(b) \in Nat
  PROVE  /\ Len(b) = 0 \/ Len(b) = 1 \/ Len(b) >= 2
         /\ Len(b) >= 2 => Len(b) = 2 \/ Len(b) = 3 \/ Len(b) >= 4
         /\ Len(b) = 1 => ~(Len(b) >= 2)
         /\ Len(b) = 0 => ~(Len(b) >= 1)
         /\ Len(b) >= 2 => Len(b) >= 1 /\ Len(b) # 0 /\ Len(b) # 1
<1>1. PICK n \in Nat : n = Len(b)
  OBVIOUS
<1>2. /\ n = 0 \/ n = 1 \/ n >= 2
      /\ n >= 2 => n = 2 \/ n = 3 \/ n >= 4
      /\ n = 1 => ~(n >= 2)
      /\ n = 0 => ~(n >= 1)
      /\ n >= 2 => n >= 1 /\ n # 0 /\ n # 1
  OBVIOUS
<1> QED
  BY <1>1, <1>2, Zenon

(* d is b with c at its end.                                               *)
Grown(b, c, d) ==
  /\ b \in Bodies /\ d \in Bodies /\ c \in Titles!Chars /\ Len(b) \in Nat /\ Len(d) = Len(b) + 1
  /\ d[Len(b) + 1] = c /\ \A i \in 1..Len(b) : d[i] = b[i]

(* Append makes such a body.                                               *)
LEMMA Appended ==
  ASSUME NEW b \in Bodies, NEW c \in Titles!Chars
  PROVE  Grown(b, c, Append(b, c))
BY DEF Bodies, Grown

(* What a character at its end does to a body, one aspect after another.   *)
LEMMA NoTitleStays ==
  ASSUME NEW b, NEW c, NEW d, Grown(b, c, d)
  PROVE  /\ Titles!NoTitle(b) => Titles!NoTitle(d)
         /\ Len(b) = 0 => (Titles!NoTitle(d) <=> c # "0")
         /\ Len(b) = 1 /\ ~Titles!NoTitle(b) => (Titles!NoTitle(d) <=> c # ";")
         /\ Len(b) >= 2 => (Titles!NoTitle(d) <=> Titles!NoTitle(b))
<1>1. Len(b) \in Nat /\ Len(d) = Len(b) + 1 /\ Len(d) \in Nat
  BY DEF Grown
<1>2. d[Len(b) + 1] = c /\ \A i \in 1..Len(b) : d[i] = b[i]
  BY DEF Grown
<1>3. Titles!NoTitle(d) <=> (Len(d) >= 1 /\ d[1] # "0") \/ (Len(d) >= 2 /\ d[2] # ";")
  BY DEF Titles!NoTitle
<1>4. Titles!NoTitle(b) <=> (Len(b) >= 1 /\ b[1] # "0") \/ (Len(b) >= 2 /\ b[2] # ";")
  BY DEF Titles!NoTitle
<1>5. CASE Len(b) = 0
  <2>1. d[1] = c /\ Len(d) >= 1 /\ ~(Len(d) >= 2) /\ ~(Len(b) >= 1) /\ ~(Len(b) >= 2) /\ Len(b) # 1
    BY <1>1, <1>2, <1>5
  <2> QED
    BY <1>3, <1>4, <1>5, <2>1, Zenon
<1>6. CASE Len(b) = 1
  <2>1. d[1] = b[1] /\ Len(d) >= 1 /\ Len(d) >= 2 /\ d[2] = c /\ Len(b) >= 1 /\ ~(Len(b) >= 2)
    BY <1>1, <1>2, <1>6
  <2>2. Titles!NoTitle(b) => Titles!NoTitle(d)
    BY <1>3, <1>4, <1>6, <2>1, Zenon
  <2>3. ~Titles!NoTitle(b) => (Titles!NoTitle(d) <=> c # ";")
    BY <1>3, <1>4, <1>6, <2>1, Zenon
  <2>4. Len(b) # 0
    BY <1>6
  <2> QED
    BY <1>6, <2>1, <2>2, <2>3, <2>4, Zenon
<1>7. CASE Len(b) >= 2
  <2>1. d[1] = b[1] /\ d[2] = b[2] /\ Len(d) >= 2 /\ Len(b) >= 1 /\ Len(d) >= 1
    BY <1>1, <1>2, <1>7
  <2>2. Titles!NoTitle(d) <=> Titles!NoTitle(b)
    BY <1>3, <1>4, <1>7, <2>1, Zenon
  <2>3. Len(b) # 0 /\ Len(b) # 1
    BY <1>1, <1>7
  <2> QED
    BY <2>2, <2>3, Zenon
<1>8. Len(b) = 0 \/ Len(b) = 1 \/ Len(b) >= 2
  BY <1>1, Lengths
<1> QED
  BY <1>5, <1>6, <1>7, <1>8

LEMMA DroppingGrows ==
  ASSUME NEW b, NEW c, NEW d, Grown(b, c, d), Len(b) >= 2
  PROVE  Dropping(d) <=> Dropping(b) \/ c \in {"ctl", "esc"} \/ Len(b) >= TitleMax + 2
<1> USE DEF Grown
<1>2. 3..Len(b) \subseteq 1..Len(b) /\ 3..(Len(b) + 1) = 3..Len(b) \cup {Len(b) + 1}
  OBVIOUS
<1>3. (\E i \in 3..Len(d) : d[i] \in {"ctl", "esc"})
        <=> (\E i \in 3..Len(b) : b[i] \in {"ctl", "esc"}) \/ c \in {"ctl", "esc"}
  BY <1>2
<1>4. (Len(d) > TitleMax + 2 <=> Len(b) >= TitleMax + 2) /\ (Len(b) > TitleMax + 2 => Len(b) >= TitleMax + 2)
  BY TitleBound
<1> QED
  BY <1>3, <1>4 DEF Dropping

LEMMA IdleGrows ==
  ASSUME NEW b, NEW c, NEW d, Grown(b, c, d), Len(b) >= 2
  PROVE  /\ Len(b) = 2 => Idle(d) = (c = "idle")
         /\ Len(b) = 3 => Idle(d) = (Idle(b) /\ c = "sp")
         /\ Len(b) >= 4 => Idle(d) = Idle(b)
<1> USE DEF Grown
<1>1. CASE Len(b) = 2
  BY <1>1 DEF Idle
<1>2. CASE Len(b) = 3
  <2>1. d[3] = b[3] /\ d[4] = c /\ Len(d) = 4
    BY <1>2
  <2> QED
    BY <1>2, <2>1 DEF Idle
<1>3. CASE Len(b) >= 4
  <2>1. d[3] = b[3] /\ d[4] = b[4] /\ Len(d) >= 4
    BY <1>3
  <2>2. Idle(d) = Idle(b)
    BY <1>3, <2>1 DEF Idle
  <2> QED
    BY <1>3, <2>2
<1>4. Len(b) = 2 \/ Len(b) = 3 \/ Len(b) >= 4
  <2>1. Len(b) \in Nat
    BY DEF Grown
  <2> QED
    BY <2>1, Lengths
<1> QED
  BY <1>1, <1>2, <1>3, <1>4

LEMMA PhaseGrows ==
  ASSUME NEW b, NEW c, NEW d, Grown(b, c, d)
  PROVE  /\ Phase(b) = "other" => Phase(d) = "other"
         /\ Phase(b) = "start" => Phase(d) = IF c = "0" THEN "zero" ELSE "other"
         /\ Phase(b) = "zero" => Phase(d) = IF c = ";" THEN "title" ELSE "other"
         /\ Phase(b) = "dropped" => Phase(d) = "dropped"
         /\ Phase(b) = "title" => Phase(d) = IF c \in {"ctl", "esc"} \/ Len(b) >= TitleMax + 2 THEN "dropped" ELSE "title"
<1>1. PICK n \in Nat : n = Len(b) /\ n + 1 = Len(d)
  BY DEF Grown
<1>2. CASE Titles!NoTitle(b)
  <2>1. Titles!NoTitle(d)
    BY <1>2, NoTitleStays
  <2> QED
    BY <1>2, <2>1 DEF Phase
<1>3. CASE ~Titles!NoTitle(b) /\ n = 0
  <2>1. Titles!NoTitle(d) <=> c # "0"
    BY <1>1, <1>3, NoTitleStays
  <2>2. Phase(b) = "start" /\ Len(d) = 1 /\ Len(d) # 0
    BY <1>1, <1>3 DEF Phase
  <2>3. Phase(d) = IF c = "0" THEN "zero" ELSE "other"
    BY <2>1, <2>2, Zenon DEF Phase
  <2> QED
    BY <2>2, <2>3
<1>4. CASE ~Titles!NoTitle(b) /\ n = 1
  <2>1. Titles!NoTitle(d) <=> c # ";"
    BY <1>1, <1>4, NoTitleStays
  <2>2. Phase(b) = "zero" /\ Len(d) = 2 /\ Len(d) # 0 /\ Len(d) # 1
    BY <1>1, <1>4 DEF Phase
  <2>3. ~Dropping(d)
    BY <2>2, TitleBound DEF Dropping
  <2> QED
    BY <2>1, <2>2, <2>3, Zenon DEF Phase
<1>5. CASE ~Titles!NoTitle(b) /\ n >= 2
  <2>1. ~Titles!NoTitle(d)
    BY <1>1, <1>5, NoTitleStays
  <2>2. Phase(b) = (IF Dropping(b) THEN "dropped" ELSE "title") /\ Phase(d) = (IF Dropping(d) THEN "dropped" ELSE "title")
    <3>1. n # 0 /\ n # 1 /\ n + 1 # 0 /\ n + 1 # 1
      BY <1>5
    <3> QED
      BY <3>1, <1>1, <1>5, <2>1, Zenon DEF Phase
  <2>3. Dropping(d) <=> Dropping(b) \/ c \in {"ctl", "esc"} \/ Len(b) >= TitleMax + 2
    BY <1>1, <1>5, DroppingGrows
  <2>4. Phase(b) \in {"dropped", "title"} /\ (Phase(b) = "dropped" <=> Dropping(b))
    BY <2>2
  <2>5. Phase(b) # "other" /\ Phase(b) # "start" /\ Phase(b) # "zero"
    BY <2>4
  <2>6. Phase(b) = "dropped" => Phase(d) = "dropped"
    BY <2>2, <2>3, <2>4
  <2>7. ASSUME Phase(b) = "title"
        PROVE  Phase(d) = IF c \in {"ctl", "esc"} \/ Len(b) >= TitleMax + 2 THEN "dropped" ELSE "title"
    <3>1. ~Dropping(b)
      BY <2>4, <2>7
    <3> QED
      BY <2>2, <2>3, <3>1, Zenon
  <2> QED
    BY <2>5, <2>6, <2>7, Zenon
<1>6. n = 0 \/ n = 1 \/ n >= 2
  OBVIOUS
<1> QED
  BY <1>2, <1>3, <1>4, <1>5, <1>6

Phases == {"other", "start", "zero", "dropped", "title"}

(* A character of the body that is no ESC.                                 *)
LEMMA KnowsMore ==
  ASSUME NEW s \in Titles!ScanStates, NEW b, NEW c, NEW d, Grown(b, c, d), c # "esc", Knows(s, b)
  PROVE  Knows(Titles!OscChar(s, c), d)
<1> DEFINE u == Titles!OscChar(s, c)
<1>1. Phase(b) \in Phases
  BY DEF Phase, Phases
<1>2. CASE Phase(b) = "other"
  <2>1. Phase(d) = "other"
    BY <1>2, PhaseGrows
  <2>2. u.osc = "skip" \/ (u.osc = "num" /\ u.oscNum = "9")
    BY <1>2 DEF Knows, Titles!OscChar, Titles!NumChar, Titles!ScanStates
  <2> QED
    BY <2>1, <2>2 DEF Knows
<1>3. CASE Phase(b) = "start"
  <2>1. Phase(d) = IF c = "0" THEN "zero" ELSE "other"
    BY <1>3, PhaseGrows
  <2>2. /\ u.osc = (IF c \in {"0", "9"} THEN "num" ELSE "skip") /\ (c \in {"0", "9"} => u.oscNum = c)
        /\ u.titleLen = 0 /\ u.titleIdle = FALSE
    BY <1>3 DEF Knows, Titles!OscChar, Titles!NumChar, Titles!ScanStates
  <2> QED
    BY <2>1, <2>2 DEF Knows
<1>4. CASE Phase(b) = "zero"
  <2>1. Phase(d) = IF c = ";" THEN "title" ELSE "other"
    BY <1>4, PhaseGrows
  <2>2. s.osc = "num" /\ s.oscNum = "0" /\ s.titleLen = 0 /\ s.titleIdle = FALSE
    BY <1>4 DEF Knows
  <2>3. CASE c = ";"
    <3>1. u.osc = "title" /\ u.titleLen = 0 /\ u.titleIdle = FALSE
      BY <2>2, <2>3 DEF Titles!OscChar, Titles!NumChar, Titles!ScanStates
    <3>2. Len(d) - 2 = 0 /\ Idle(d) = FALSE
      <4>1. Len(b) = 1 /\ Len(b) \in Nat /\ Len(d) = Len(b) + 1
        BY <1>4 DEF Phase, Grown
      <4>2. Len(d) = 2
        BY <4>1
      <4> QED
        BY <4>2 DEF Idle
    <3> QED
      BY <2>1, <2>3, <3>1, <3>2 DEF Knows
  <2>4. CASE c # ";"
    <3>1. u.osc = "skip" \/ (u.osc = "num" /\ u.oscNum = "9")
      BY <2>2, <2>4 DEF Titles!OscChar, Titles!NumChar, Titles!ScanStates
    <3> QED
      BY <2>1, <2>4, <3>1 DEF Knows
  <2> QED
    BY <2>3, <2>4
<1>5. CASE Phase(b) = "dropped"
  <2>1. Phase(d) = "dropped"
    BY <1>5, PhaseGrows
  <2>2. u.osc = "dropped"
    BY <1>5 DEF Knows, Titles!OscChar, Titles!ScanStates
  <2> QED
    BY <2>1, <2>2 DEF Knows
<1>6. CASE Phase(b) = "title"
  <2>1. PICK n \in Nat : n = Len(b) - 2 /\ Len(b) = n + 2 /\ Len(d) - 2 = n + 1 /\ Len(b) >= 2
    <3>1. PICK m \in Nat : m = Len(b) /\ Len(d) = m + 1 /\ m # 0 /\ m # 1
      BY <1>6 DEF Phase, Grown
    <3>2. m - 2 \in Nat
      BY <3>1
    <3> QED
      BY <3>1, <3>2
  <2>2. s.osc = "title" /\ s.titleLen = n /\ s.titleIdle = Idle(b)
    BY <1>6, <2>1 DEF Knows
  <2>3. Phase(d) = IF c = "ctl" \/ n >= TitleMax THEN "dropped" ELSE "title"
    <3>1. Len(b) >= TitleMax + 2 <=> n >= TitleMax
      BY <2>1, TitleBound
    <3> QED
      BY <1>6, <3>1, PhaseGrows
  <2>4. u = Titles!TitleChar(s, c)
    BY <2>2 DEF Titles!OscChar
  <2>5. CASE c = "ctl" \/ n >= TitleMax
    <3>1. u.osc = "dropped"
      <4>1. CASE c = "ctl"
        BY <2>4, <4>1 DEF Titles!TitleChar, Titles!ScanStates
      <4>2. CASE c # "ctl" /\ n >= TitleMax
        <5>1. s.titleLen + 1 > TitleMax
          BY <2>2, <4>2, TitleBound
        <5> QED
          BY <2>4, <4>2, <5>1 DEF Titles!TitleChar, Titles!ScanStates
      <4> QED
        BY <2>5, <4>1, <4>2
    <3> QED
      BY <2>3, <2>5, <3>1 DEF Knows
  <2>6. CASE ~(c = "ctl" \/ n >= TitleMax)
    <3>1. u = [s EXCEPT !.titleLen = s.titleLen + 1,
                        !.titleIdle = IF s.titleLen + 1 = 1 THEN c = "idle" ELSE IF s.titleLen + 1 = 2 THEN @ /\ c = "sp" ELSE @]
      <4>1. c # "ctl" /\ ~(s.titleLen + 1 > TitleMax)
        BY <2>2, <2>6, TitleBound
      <4> QED
        BY <2>4, <4>1, Zenon DEF Titles!TitleChar
    <3>2. u.osc = "title" /\ u.titleLen = Len(d) - 2
      BY <2>1, <2>2, <3>1 DEF Titles!ScanStates
    <3>3. u.titleIdle = Idle(d)
      <4>0. /\ u.titleIdle = IF s.titleLen + 1 = 1 THEN c = "idle" ELSE IF s.titleLen + 1 = 2 THEN s.titleIdle /\ c = "sp" ELSE s.titleIdle
            /\ s.titleLen = n /\ s.titleIdle = Idle(b)
        BY <2>2, <3>1 DEF Titles!ScanStates
      <4>1. CASE n = 0
        <5>1. Len(b) = 2 /\ u.titleIdle = (c = "idle")
          BY <4>0, <4>1, <2>1
        <5>2. Idle(d) = (c = "idle")
          BY <5>1, <2>1, IdleGrows
        <5> QED
          BY <5>1, <5>2
      <4>2. CASE n = 1
        <5>1. Len(b) = 3 /\ u.titleIdle = (Idle(b) /\ c = "sp")
          BY <4>0, <4>2, <2>1
        <5>2. Idle(d) = (Idle(b) /\ c = "sp")
          BY <5>1, <2>1, IdleGrows
        <5> QED
          BY <5>1, <5>2
      <4>3. CASE n >= 2
        <5>1. Len(b) >= 4 /\ u.titleIdle = Idle(b)
          BY <4>0, <4>3, <2>1
        <5>2. Idle(d) = Idle(b)
          BY <5>1, <2>1, IdleGrows
        <5> QED
          BY <5>1, <5>2
      <4> QED
        BY <4>1, <4>2, <4>3
    <3> QED
      BY <2>3, <2>6, <3>2, <3>3 DEF Knows
  <2> QED
    BY <2>5, <2>6
<1> QED
  BY <1>1, <1>2, <1>3, <1>4, <1>5, <1>6 DEF Phases

(* An ESC in the body.                                                     *)
LEMMA KnowsEsc ==
  ASSUME NEW s \in Titles!ScanStates, NEW b \in Bodies, Knows(s, b)
  PROVE  Knows(Titles!DropOsc(s), Append(b, "esc"))
<1> DEFINE d == Append(b, "esc")
           u == Titles!DropOsc(s)
<1>1. Grown(b, "esc", d)
  BY Appended DEF Titles!Chars
<1> HIDE DEF d
<1>2. Phase(b) \in Phases
  BY DEF Phase, Phases
<1>3. CASE Phase(b) \in {"other", "start", "zero"}
  <2>1. Phase(d) = "other"
    BY <1>1, <1>3, PhaseGrows
  <2>2. u.osc = "skip"
    BY <1>3 DEF Knows, Titles!DropOsc, Titles!ScanStates
  <2> QED
    BY <2>1, <2>2 DEF Knows, d
<1>4. CASE Phase(b) \in {"dropped", "title"}
  <2>1. Phase(d) = "dropped"
    BY <1>1, <1>4, PhaseGrows
  <2>2. u.osc = "dropped"
    BY <1>4 DEF Knows, Titles!DropOsc, Titles!ScanStates
  <2> QED
    BY <2>1, <2>2 DEF Knows, d
<1> QED
  BY <1>2, <1>3, <1>4 DEF Phases

(* What the terminal keeps of a body is all there is to know of it.        *)
LEMMA KeptKnown ==
  ASSUME NEW b \in Bodies
  PROVE  /\ Titles!Kept(b) \in Bodies
         /\ Phase(Titles!Kept(b)) = Phase(b)
         /\ Phase(b) = "title" => Len(Titles!Kept(b)) = Len(b) /\ Idle(Titles!Kept(b)) = Idle(b)
<1> DEFINE k == Titles!Kept(b)
           m == IF Len(b) > TitleMax + 3 THEN TitleMax + 3 ELSE Len(b)
<1>1. PICK n \in Nat : n = Len(b)
  BY DEF Bodies
<1>2. CASE Titles!NoTitle(b)
  <2>1. k = <<"x">>
    BY <1>2 DEF Titles!Kept
  <2>2. k[1] = "x" /\ Len(k) >= 1 /\ "x" \in Titles!Chars
    BY <2>1 DEF Titles!Chars
  <2>3. Titles!NoTitle(k)
    BY <2>2 DEF Titles!NoTitle
  <2>4. k \in Bodies
    BY <2>1, <2>2 DEF Bodies
  <2> QED
    BY <1>2, <2>3, <2>4 DEF Phase
<1>3. CASE ~Titles!NoTitle(b)
  <2>1. k = [i \in 1..m |-> IF i < 3 \/ b[i] \in {"idle", "sp", "ctl", "esc"} THEN b[i] ELSE "x"]
    BY <1>3 DEF Titles!Kept
  <2>2. m \in Nat /\ m = (IF n > TitleMax + 3 THEN TitleMax + 3 ELSE n) /\ m <= n
    BY <1>1, TitleBound
  <2> HIDE DEF m
  <2>3. ASSUME NEW i \in 1..m PROVE b[i] \in Titles!Chars
    BY <1>1, <2>2 DEF Bodies
  <2>4. k \in Bodies /\ Len(k) = m
    <3>1. "x" \in Titles!Chars
      BY DEF Titles!Chars
    <3>2. \A i \in 1..m : (IF i < 3 \/ b[i] \in {"idle", "sp", "ctl", "esc"} THEN b[i] ELSE "x") \in Titles!Chars
      BY <2>3, <3>1
    <3> QED
      BY <2>1, <2>2, <3>2 DEF Bodies
  <2>5. \A i \in 1..m : k[i] = IF i < 3 \/ b[i] \in {"idle", "sp", "ctl", "esc"} THEN b[i] ELSE "x"
    BY <2>1
  <2> HIDE DEF k
  <2>6. CASE n < 2
    <3>1. m = n
      BY <2>2, <2>6, TitleBound
    <3>2. n = 0 \/ n = 1
      BY <2>6
    <3>3. Titles!NoTitle(k) <=> Titles!NoTitle(b)
      <4>1. Len(k) = n /\ Len(b) = n /\ ~(n >= 2) /\ (n >= 1 => k[1] = b[1])
        BY <1>1, <2>4, <2>5, <3>1, <3>2
      <4> QED
        BY <4>1, Zenon DEF Titles!NoTitle
    <3> QED
      BY <1>1, <1>3, <2>4, <3>1, <3>2, <3>3 DEF Phase, k
  <2>7. CASE n >= 2
    <3>1. m >= 2 /\ k[1] = b[1] /\ k[2] = b[2]
      BY <2>2, <2>5, <2>7, TitleBound
    <3>2. ~Titles!NoTitle(k)
      <4>1. ~((n >= 1 /\ b[1] # "0") \/ (n >= 2 /\ b[2] # ";"))
        BY <1>1, <1>3 DEF Titles!NoTitle
      <4>2. b[1] = "0" /\ b[2] = ";"
        <5>1. n >= 1 /\ n >= 2
          BY <2>7
        <5> QED
          BY <4>1, <5>1, Zenon
      <4> QED
        BY <3>1, <4>2, Zenon DEF Titles!NoTitle
    <3>3. \A i \in 3..m : k[i] \in {"ctl", "esc"} <=> b[i] \in {"ctl", "esc"}
      BY <2>2, <2>5
    <3>4. CASE n <= TitleMax + 2
      <4>1. m = n
        BY <2>2, <3>4, TitleBound
      <4>2. Dropping(k) <=> Dropping(b)
        BY <1>1, <2>4, <3>3, <4>1 DEF Dropping
      <4>3. Idle(k) = Idle(b)
        <5>1. m >= 3 => (k[3] = "idle" <=> b[3] = "idle")
          BY <2>2, <2>5
        <5>2. m >= 4 => (k[4] = "sp" <=> b[4] = "sp")
          BY <2>2, <2>5
        <5> QED
          BY <1>1, <2>2, <2>4, <4>1, <5>1, <5>2 DEF Idle
      <4>4. m # 0 /\ m # 1
        BY <2>2, <3>1
      <4>5. Phase(k) = Phase(b)
        BY <1>1, <1>3, <2>4, <3>2, <4>1, <4>2, <4>4, Zenon DEF Phase
      <4> QED
        BY <1>1, <2>4, <4>1, <4>3, <4>5 DEF k
    <3>5. CASE n > TitleMax + 2
      <4>1. m > TitleMax + 2 /\ m # 0 /\ m # 1 /\ n # 0 /\ n # 1
        BY <2>2, <3>5, TitleBound
      <4>2. Dropping(k) /\ Dropping(b)
        BY <1>1, <2>4, <3>5, <4>1 DEF Dropping
      <4>3. Phase(k) = "dropped" /\ Phase(b) = "dropped"
        BY <1>1, <1>3, <2>4, <3>2, <4>1, <4>2, Zenon DEF Phase
      <4> QED
        BY <2>4, <4>3 DEF k
    <3> QED
      BY <3>4, <3>5, TitleBound
  <2> QED
    BY <2>6, <2>7
<1> QED
  BY <1>2, <1>3

(* A scan that knows a body knows what the terminal keeps of it.           *)
LEMMA KeptKnows ==
  ASSUME NEW s, NEW b \in Bodies, Knows(s, b)
  PROVE  Knows(s, Titles!Kept(b)) /\ Titles!Kept(b) \in Bodies
BY KeptKnown DEF Knows

(* The title a terminal takes a finished string for, and what it is in the *)
(* scan.                                                                   *)
LEMMA TitleIs ==
  ASSUME NEW b \in Bodies
  PROVE  Titles!Title(b) = CASE Phase(b) \in {"other", "start", "zero"} -> "none"
                             [] Phase(b) = "dropped" -> "busy"
                             [] Phase(b) = "title" -> IF Idle(b) THEN "idle" ELSE "busy"
<1>1. PICK n \in Nat : n = Len(b)
  BY DEF Bodies
<1>2. CASE Titles!NoTitle(b)
  BY <1>2 DEF Titles!Title, Phase
<1>3. CASE ~Titles!NoTitle(b) /\ n < 2
  <2>1. Len(b) < 2 /\ (Len(b) = 0 \/ Len(b) = 1)
    BY <1>1, <1>3
  <2>2. Phase(b) \in {"start", "zero"}
    BY <1>3, <2>1 DEF Phase
  <2>3. Titles!Title(b) = "none"
    BY <1>3, <2>1 DEF Titles!Title
  <2> QED
    BY <2>2, <2>3
<1>4. CASE ~Titles!NoTitle(b) /\ n >= 2
  <2> DEFINE e == SubSeq(b, 3, Len(b))
             good == /\ Len(e) \in 1..TitleMax
                     /\ \A i \in 1..Len(e) : e[i] \notin {"ctl", "esc"}
                     /\ e[1] = "idle" /\ (Len(e) >= 2 => e[2] = "sp")
  <2>1. Titles!Title(b) = IF good THEN "idle" ELSE "busy"
    <3>1. ~(Len(b) < 2)
      BY <1>1, <1>4
    <3> QED
      BY <1>4, <3>1 DEF Titles!Title
  <2>2. Phase(b) = IF Dropping(b) THEN "dropped" ELSE "title"
    <3>1. n # 0 /\ n # 1
      BY <1>4
    <3> QED
      BY <1>1, <1>4, <3>1, Zenon DEF Phase
  <2>3. Len(e) = n - 2 /\ \A i \in 1..(n - 2) : e[i] = b[i + 2]
    BY <1>1, <1>4 DEF Bodies
  <2> HIDE DEF e
  <2>4. good <=> ~Dropping(b) /\ Idle(b)
    <3>1. Len(e) <= TitleMax <=> ~(n > TitleMax + 2)
      BY <2>3, TitleBound
    <3>2. (\A i \in 1..Len(e) : e[i] \notin {"ctl", "esc"}) <=> ~ \E i \in 3..Len(b) : b[i] \in {"ctl", "esc"}
      <4>1. ASSUME NEW i \in 3..n PROVE i - 2 \in 1..(n - 2) /\ e[i - 2] = b[i]
        BY <2>3
      <4>2. ASSUME NEW i \in 1..(n - 2) PROVE i + 2 \in 3..n /\ e[i] = b[i + 2]
        BY <2>3
      <4> QED
        BY <1>1, <2>3, <4>1, <4>2
    <3>3. Len(e) >= 1 <=> n >= 3
      BY <2>3
    <3>4. n >= 3 => (e[1] = b[3] /\ (Len(e) >= 2 <=> n >= 4) /\ (n >= 4 => e[2] = b[4]))
      BY <2>3
    <3>5. Len(e) \in 1..TitleMax <=> n >= 3 /\ ~(n > TitleMax + 2)
      BY <2>3, <3>1, <3>3, TitleBound
    <3> QED
      BY <1>1, <3>2, <3>4, <3>5, Zenon DEF Dropping, Idle
  <2> HIDE DEF good
  <2> QED
    BY <2>1, <2>2, <2>4
<1>5. n < 2 \/ n >= 2
  OBVIOUS
<1> QED
  BY <1>2, <1>3, <1>4, <1>5, Zenon

(* At its end both take the string for the same title.                     *)
LEMMA EndHeard ==
  ASSUME NEW s \in Titles!ScanStates, NEW b \in Bodies, Knows(s, b), NEW o \in Titles!Said
  PROVE  Titles!EndOsc(s, o).o = [o EXCEPT !.title = IF Titles!Title(b) # "none" THEN Titles!Title(b) ELSE o.title]
<1>1. Phase(b) \in Phases
  BY DEF Phase, Phases
<1> DEFINE x == CASE s.osc = "title" -> (IF s.titleIdle THEN "idle" ELSE "busy")
                  [] s.osc = "dropped" -> "busy"
                  [] OTHER -> o.title
<1>2. Titles!EndOsc(s, o).o = [o EXCEPT !.title = x]
  BY DEF Titles!EndOsc, Titles!Run
<1>3. x = IF Titles!Title(b) # "none" THEN Titles!Title(b) ELSE o.title
  <2>1. CASE Phase(b) \in {"other", "start", "zero"}
    BY <2>1, TitleIs DEF Knows
  <2>2. CASE Phase(b) = "dropped"
    BY <2>2, TitleIs DEF Knows
  <2>3. CASE Phase(b) = "title"
    BY <2>3, TitleIs DEF Knows
  <2> QED
    BY <1>1, <2>1, <2>2, <2>3 DEF Phases
<1> QED
  BY <1>2, <1>3

(***************************************************************************)
(* What scan and terminal have in common. A pending ESC of the terminal is *)
(* one the scan has carried over (Pending), one it has looked past because *)
(* the next character completes nothing (Follows), or one it has read with *)
(* the character after it (the terminal is one character behind).          *)
(***************************************************************************)
InOsc(t) == t.mode \in {"osc", "oscEsc"}
Body(t) == IF t.mode = "oscEsc" THEN Append(t.body, "esc") ELSE t.body
Completes(t, c) == (t.mode = "esc" /\ c = "rb") \/ (t.mode = "oscEsc" /\ c = "bs")
Resting(t) == t.mode \in {"text", "osc"}

Follows(s, t) == s.esc = FALSE /\ s.inOsc = InOsc(t) /\ (InOsc(t) => Knows(s, Body(t)))
Pending(s, t) ==
  /\ s.esc = TRUE /\ ~Resting(t)
  /\ s.inOsc = InOsc(t) /\ (InOsc(t) => Knows(s, t.body))

Together(r, t, o) == r.skip = FALSE /\ r.o = o /\ Follows(r.s, t)
Ahead(r, t, o, next) ==
  /\ r.skip = TRUE /\ Completes(t, next)
  /\ r.o = Titles!Hears(t, o, next) /\ Follows(r.s, Titles!Reads(t, next))
Matches(r, t, o, last, next) ==
  IF last THEN \/ Together(r, t, o) /\ Resting(t)
               \/ r.skip = FALSE /\ r.o = o /\ Pending(r.s, t)
  ELSE (Together(r, t, o) /\ ~Completes(t, next)) \/ Ahead(r, t, o, next)

Scans == {s \in Titles!ScanStates : s.osc \in {"num", "title"} => s.titleLen <= TitleMax}
Runs == [s : Scans, o : Titles!Said, skip : BOOLEAN]

(* The functions of the scan stay in their types.                          *)
LEMMA ScanTypes ==
  ASSUME NEW s \in Scans, NEW o \in Titles!Said, NEW c \in Titles!Chars
  PROVE  /\ Titles!StartOsc(s) \in Scans /\ Titles!DropOsc(s) \in Scans
         /\ Titles!OscChar(s, c) \in Scans
         /\ Titles!EndOsc(s, o) \in Runs
<1> DEFINE L == 0..TitleMax + 1
<1>0. /\ 0 \in L /\ 0 <= TitleMax /\ s \in Titles!ScanStates /\ s.titleLen \in L
      /\ s.osc \in {"num", "title"} => s.titleLen <= TitleMax /\ s.titleLen + 1 \in L
  <2>1. 0 \in L /\ 0 <= TitleMax
    BY TitleBound
  <2>2. s \in Titles!ScanStates /\ (s.osc \in {"num", "title"} => s.titleLen <= TitleMax)
    BY DEF Scans
  <2>3. s.titleLen \in L
    BY <2>2 DEF Titles!ScanStates
  <2>4. \A n \in L : n <= TitleMax => n + 1 \in L
    BY TitleBound
  <2> HIDE DEF L
  <2> QED
    BY <2>1, <2>2, <2>3, <2>4
<1>1. Titles!StartOsc(s) \in Scans
  <2>1. Titles!StartOsc(s) \in Titles!ScanStates
    BY <1>0 DEF Titles!StartOsc, Titles!ScanStates
  <2>2. Titles!StartOsc(s).titleLen = 0
    BY <1>0 DEF Titles!StartOsc, Titles!ScanStates
  <2> QED
    BY <1>0, <2>1, <2>2 DEF Scans
<1>2. Titles!DropOsc(s) \in Scans
  <2>1. Titles!DropOsc(s) \in Titles!ScanStates
    BY <1>0 DEF Titles!DropOsc, Titles!ScanStates
  <2>2. Titles!DropOsc(s).osc \notin {"num", "title"}
    BY <1>0 DEF Titles!DropOsc, Titles!ScanStates
  <2> QED
    BY <2>1, <2>2 DEF Scans
<1>3. Titles!OscChar(s, c) \in Scans
  <2>1. CASE s.osc = "num"
    <3>1. Titles!OscChar(s, c) = Titles!NumChar(s, c)
      BY <2>1, Zenon DEF Titles!OscChar
    <3>2. Titles!NumChar(s, c) \in Titles!ScanStates /\ Titles!NumChar(s, c).titleLen = s.titleLen
      BY <1>0 DEF Titles!NumChar, Titles!ScanStates
    <3> QED
      BY <1>0, <2>1, <3>1, <3>2 DEF Scans
  <2>2. CASE s.osc = "title"
    <3> DEFINE n == s.titleLen + 1
    <3>0. Titles!OscChar(s, c) = Titles!TitleChar(s, c)
      BY <2>2 DEF Titles!OscChar
    <3>1. CASE c = "ctl" \/ n > TitleMax
      <4>1. Titles!TitleChar(s, c) \in Titles!ScanStates /\ Titles!TitleChar(s, c).osc = "dropped"
        BY <1>0, <2>2, <3>1 DEF Titles!TitleChar, Titles!ScanStates
      <4> QED
        BY <3>0, <4>1 DEF Scans
    <3>2. CASE c # "ctl" /\ ~(n > TitleMax)
      <4> DEFINE idle == IF n = 1 THEN c = "idle" ELSE IF n = 2 THEN s.titleIdle /\ c = "sp" ELSE s.titleIdle
      <4>1. Titles!TitleChar(s, c) = [s EXCEPT !.titleLen = n, !.titleIdle = idle]
        BY <3>2, Zenon DEF Titles!TitleChar
      <4>2. idle \in BOOLEAN /\ n \in L /\ n <= TitleMax
        <5>1. s.titleIdle \in BOOLEAN
          BY <1>0 DEF Titles!ScanStates
        <5>2. n \in L
          BY <1>0, <2>2
        <5>3. n \in Int
          BY <5>2, TitleBound
        <5>4. n <= TitleMax
          BY <3>2, <5>3, TitleBound
        <5> QED
          BY <5>1, <5>2, <5>4
      <4> HIDE DEF idle, n, L
      <4>3. Titles!TitleChar(s, c) \in Titles!ScanStates /\ Titles!TitleChar(s, c).titleLen = n
        BY <1>0, <4>1, <4>2 DEF Titles!ScanStates, L
      <4> QED
        BY <3>0, <4>2, <4>3 DEF Scans
    <3> QED
      BY <3>1, <3>2
  <2>3. CASE s.osc \notin {"num", "title"}
    <3>1. Titles!OscChar(s, c) = s
      BY <2>3 DEF Titles!OscChar
    <3> QED
      BY <3>1
  <2> QED
    BY <2>1, <2>2, <2>3
<1>4. Titles!EndOsc(s, o) \in Runs
  <2> DEFINE u == [s EXCEPT !.inOsc = FALSE, !.osc = "skip"]
             x == CASE s.osc = "title" -> (IF s.titleIdle THEN "idle" ELSE "busy")
                  [] s.osc = "dropped" -> "busy"
                  [] OTHER -> o.title
  <2>1. Titles!EndOsc(s, o) = [s |-> u, o |-> [o EXCEPT !.title = x], skip |-> FALSE]
    BY DEF Titles!EndOsc, Titles!Run
  <2>2. u \in Scans
    BY <1>0 DEF Titles!ScanStates, Scans
  <2>3. [o EXCEPT !.title = x] \in Titles!Said
    BY DEF Titles!Said
  <2> HIDE DEF u, x
  <2> QED
    BY <2>1, <2>2, <2>3 DEF Runs
<1> QED
  BY <1>1, <1>2, <1>3, <1>4

(* The reading of one character, case by case.                             *)
Ends(t, c) == c = "bel" \/ (t.mode = "oscEsc" /\ c = "bs")
LEMMA ReadsIs ==
  ASSUME NEW t \in Titles!Terminals, NEW c \in Titles!Chars
  PROVE  /\ InOsc(t) /\ Ends(t, c) => Titles!Reads(t, c) = Titles!NewTerminal
         /\ InOsc(t) /\ ~Ends(t, c) /\ c = "esc" =>
              Titles!Reads(t, c) = [mode |-> "oscEsc", body |-> Titles!Kept(Body(t))]
         /\ InOsc(t) /\ ~Ends(t, c) /\ c # "esc" =>
              Titles!Reads(t, c) = [mode |-> "osc", body |-> Titles!Kept(Append(Titles!Kept(Body(t)), c))]
         /\ t.mode = "esc" /\ c = "rb" => Titles!Reads(t, c) = [mode |-> "osc", body |-> <<>>]
         /\ ~InOsc(t) /\ ~Completes(t, c) =>
              Titles!Reads(t, c) = [mode |-> IF c = "esc" THEN "esc" ELSE "text", body |-> <<>>]
<1>1. t.body \in Bodies /\ t.mode \in {"text", "esc", "osc", "oscEsc"}
  BY DEF Titles!Terminals, Bodies
<1>2. t.body \o (IF t.mode = "oscEsc" THEN <<"esc">> ELSE <<>>) = Body(t)
  <2>1. \A b \in Bodies : b \o <<>> = b /\ b \o <<"esc">> = Append(b, "esc")
    BY DEF Bodies
  <2> QED
    BY <1>1, <2>1 DEF Body
<1>3. Titles!Reads(t, c) =
        CASE InOsc(t) /\ Ends(t, c) -> Titles!NewTerminal
          [] InOsc(t) /\ ~Ends(t, c) /\ c = "esc" -> [mode |-> "oscEsc", body |-> Titles!Kept(Body(t))]
          [] InOsc(t) /\ ~Ends(t, c) /\ c # "esc" -> [mode |-> "osc", body |-> Titles!Kept(Append(Titles!Kept(Body(t)), c))]
          [] t.mode = "esc" /\ c = "rb" -> [mode |-> "osc", body |-> <<>>]
          [] OTHER -> [Titles!NewTerminal EXCEPT !.mode = IF c = "esc" THEN "esc" ELSE "text"]
  BY <1>2, Zenon DEF Titles!Reads, InOsc, Ends
<1>4. [Titles!NewTerminal EXCEPT !.mode = IF c = "esc" THEN "esc" ELSE "text"] = [mode |-> IF c = "esc" THEN "esc" ELSE "text", body |-> <<>>]
  BY DEF Titles!NewTerminal
<1>5. t.mode = "esc" => ~InOsc(t)
  BY DEF InOsc
<1>6. (t.mode = "esc" /\ c = "rb") => Completes(t, c)
  BY DEF Completes
<1> QED
  BY <1>3, <1>4, <1>5, <1>6, Zenon

(* The terminal stays one, and what it hears is what a scan can say.       *)
LEMMA ReadsTypes ==
  ASSUME NEW t \in Titles!Terminals, NEW o \in Titles!Said, NEW c \in Titles!Chars
  PROVE  Titles!Reads(t, c) \in Titles!Terminals /\ Titles!Hears(t, o, c) \in Titles!Said
<1>1. t.body \in Bodies /\ "esc" \in Titles!Chars /\ t.mode \in {"text", "esc", "osc", "oscEsc"}
  BY DEF Titles!Terminals, Bodies, Titles!Chars
<1>2. \A b \in Bodies : Titles!Kept(b) \in Bodies /\ Append(b, c) \in Bodies /\ Append(b, "esc") \in Bodies
                        /\ Titles!Title(b) \in {"none", "idle", "busy"}
  <2> TAKE b \in Bodies
  <2>1. Titles!Kept(b) \in Bodies
    BY KeptKnown
  <2>2. Append(b, c) \in Bodies /\ Append(b, "esc") \in Bodies
    BY <1>1, Appended DEF Grown
  <2>3. Phase(b) \in Phases
    BY DEF Phase, Phases
  <2>4. Titles!Title(b) \in {"none", "idle", "busy"}
    BY <2>3, TitleIs DEF Phases
  <2> QED
    BY <2>1, <2>2, <2>4
<1>3. Body(t) \in Bodies /\ <<>> \in Bodies
  BY <1>1, <1>2 DEF Body, Bodies
<1>4. \A b \in Bodies : \A m \in {"text", "esc", "osc", "oscEsc"} : [mode |-> m, body |-> b] \in Titles!Terminals
  BY DEF Titles!Terminals, Bodies
<1>5. Titles!Reads(t, c) \in Titles!Terminals
  <2>1. CASE InOsc(t) /\ Ends(t, c)
    BY <1>3, <1>4, <2>1, ReadsIs DEF Titles!NewTerminal
  <2>2. CASE InOsc(t) /\ ~Ends(t, c) /\ c = "esc"
    BY <1>2, <1>3, <1>4, <2>2, ReadsIs
  <2>3. CASE InOsc(t) /\ ~Ends(t, c) /\ c # "esc"
    BY <1>2, <1>3, <1>4, <2>3, ReadsIs
  <2>4. CASE t.mode = "esc" /\ c = "rb"
    BY <1>3, <1>4, <2>4, ReadsIs
  <2>5. CASE ~InOsc(t) /\ ~(t.mode = "esc" /\ c = "rb")
    <3>1. ~Completes(t, c)
      BY <2>5 DEF Completes, InOsc
    <3> QED
      BY <1>3, <1>4, <2>5, <3>1, ReadsIs
  <2> QED
    BY <2>1, <2>2, <2>3, <2>4, <2>5
<1>6. Titles!Hears(t, o, c) \in Titles!Said
  <2> DEFINE body == IF t.mode = "oscEsc" /\ c # "bs" THEN Append(t.body, "esc") ELSE t.body
             ends == t.mode \in {"osc", "oscEsc"} /\ (c = "bel" \/ (t.mode = "oscEsc" /\ c = "bs"))
             name == Titles!Title(Titles!Kept(body))
  <2>1. Titles!Hears(t, o, c) =
          [bell |-> o.bell \/ (c = "bel" /\ t.mode \in {"text", "esc"}),
           title |-> IF ends /\ name # "none" THEN name ELSE o.title]
    BY DEF Titles!Hears
  <2>2. name \in {"none", "idle", "busy"}
    BY <1>1, <1>2
  <2>3. o.title \in {"none", "idle", "busy"} /\ o.bell \in BOOLEAN
    BY DEF Titles!Said
  <2> HIDE DEF name
  <2> QED
    BY <2>1, <2>2, <2>3 DEF Titles!Said
<1> QED
  BY <1>5, <1>6

(* What a character of the output says to the terminal, case by case.      *)
LEMMA HearsIs ==
  ASSUME NEW t \in Titles!Terminals, NEW o \in Titles!Said, NEW c \in Titles!Chars
  PROVE  /\ ~InOsc(t) => Titles!Hears(t, o, c) = IF c = "bel" THEN [o EXCEPT !.bell = TRUE] ELSE o
         /\ InOsc(t) /\ ~Ends(t, c) => Titles!Hears(t, o, c) = o
         /\ InOsc(t) /\ c = "bel" =>
              LET name == Titles!Title(Titles!Kept(Body(t))) IN
              Titles!Hears(t, o, c) = [o EXCEPT !.title = IF name # "none" THEN name ELSE o.title]
         /\ t.mode = "oscEsc" /\ c = "bs" =>
              LET name == Titles!Title(Titles!Kept(t.body)) IN
              Titles!Hears(t, o, c) = [o EXCEPT !.title = IF name # "none" THEN name ELSE o.title]
<1> DEFINE body == IF t.mode = "oscEsc" /\ c # "bs" THEN Append(t.body, "esc") ELSE t.body
           ends == t.mode \in {"osc", "oscEsc"} /\ (c = "bel" \/ (t.mode = "oscEsc" /\ c = "bs"))
           name == Titles!Title(Titles!Kept(body))
<1>1. Titles!Hears(t, o, c) =
        [bell |-> o.bell \/ (c = "bel" /\ t.mode \in {"text", "esc"}),
         title |-> IF ends /\ name # "none" THEN name ELSE o.title]
  BY DEF Titles!Hears
<1>2. t.mode \in {"text", "esc", "osc", "oscEsc"} /\ o.bell \in BOOLEAN /\ o = [bell |-> o.bell, title |-> o.title]
  BY DEF Titles!Terminals, Titles!Said
<1>3. ASSUME NEW x PROVE [o EXCEPT !.title = x] = [bell |-> o.bell, title |-> x]
  BY DEF Titles!Said
<1>4. [o EXCEPT !.bell = TRUE] = [bell |-> TRUE, title |-> o.title]
  <2>1. \A b : [o EXCEPT !.bell = b] = [bell |-> b, title |-> o.title]
    BY DEF Titles!Said
  <2> QED
    BY <2>1, Zenon
<1>5. ~InOsc(t) => Titles!Hears(t, o, c) = IF c = "bel" THEN [o EXCEPT !.bell = TRUE] ELSE o
  BY <1>1, <1>2, <1>4 DEF InOsc
<1>6. InOsc(t) /\ ~Ends(t, c) => Titles!Hears(t, o, c) = o
  BY <1>1, <1>2 DEF InOsc, Ends
<1>7. InOsc(t) => (o.bell \/ (c = "bel" /\ t.mode \in {"text", "esc"})) = o.bell
  BY <1>2 DEF InOsc
<1>8. InOsc(t) /\ c = "bel" => body = Body(t) /\ ends
  BY DEF InOsc, Body
<1>9. t.mode = "oscEsc" /\ c = "bs" => body = t.body /\ ends /\ InOsc(t)
  BY DEF InOsc
<1> HIDE DEF body, ends
<1>10. ASSUME ends, InOsc(t)
       PROVE  Titles!Hears(t, o, c) = [o EXCEPT !.title = IF name # "none" THEN name ELSE o.title]
  BY <1>1, <1>3, <1>7, <1>10
<1> QED
  BY <1>5, <1>6, <1>8, <1>9, <1>10

(* The parts of a run, and what endOsc makes of it.                        *)
LEMMA RunIs == \A s, o : Titles!Run(s, o).s = s /\ Titles!Run(s, o).o = o /\ Titles!Run(s, o).skip = FALSE
BY DEF Titles!Run

LEMMA EndIs ==
  ASSUME NEW s \in Titles!ScanStates, NEW o
  PROVE  /\ Titles!EndOsc(s, o).skip = FALSE /\ Titles!EndOsc(s, o).s.inOsc = FALSE
         /\ Titles!EndOsc(s, o).s.esc = s.esc
<1> DEFINE x == CASE s.osc = "title" -> (IF s.titleIdle THEN "idle" ELSE "busy")
                  [] s.osc = "dropped" -> "busy"
                  [] OTHER -> o.title
           u == [s EXCEPT !.inOsc = FALSE, !.osc = "skip"]
<1>1. Titles!EndOsc(s, o) = Titles!Run(u, [o EXCEPT !.title = x])
  BY Zenon DEF Titles!EndOsc
<1>2. u.inOsc = FALSE /\ u.esc = s.esc
  BY DEF Titles!ScanStates
<1> HIDE DEF x, u
<1> QED
  BY <1>1, <1>2, RunIs

(* What to show of a scan without and with an ESC pending.                 *)
LEMMA FollowsIs ==
  ASSUME NEW s, NEW t, s.esc = FALSE
  PROVE  /\ s.inOsc = FALSE /\ ~InOsc(t) => Follows(s, t)
         /\ s.inOsc = TRUE /\ InOsc(t) /\ Knows(s, Body(t)) => Follows(s, t)
<1>1. InOsc(t) \in BOOLEAN
  BY DEF InOsc
<1> QED
  BY <1>1 DEF Follows
LEMMA PendingIs ==
  ASSUME NEW s, NEW t, s.esc = TRUE, ~Resting(t)
  PROVE  /\ s.inOsc = FALSE /\ ~InOsc(t) => Pending(s, t)
         /\ s.inOsc = TRUE /\ InOsc(t) /\ Knows(s, t.body) => Pending(s, t)
<1>1. InOsc(t) \in BOOLEAN
  BY DEF InOsc
<1> QED
  BY <1>1 DEF Pending

(* A character that completes no pending ESC.                              *)
LEMMA PlainMatches ==
  ASSUME NEW s \in Scans, NEW t \in Titles!Terminals, NEW o \in Titles!Said,
         NEW c \in Titles!Chars, NEW next \in Titles!Chars, NEW last \in BOOLEAN,
         Follows(s, t), ~Completes(t, c),
         NEW r, r = Titles!Plain(s, o, c, last, next),
         NEW u, u = Titles!Reads(t, c), NEW p, p = Titles!Hears(t, o, c)
  PROVE  r \in Runs /\ Matches(r, u, p, last, next)
<1>1. t.mode \in {"text", "esc", "osc", "oscEsc"} /\ s.inOsc \in BOOLEAN /\ s \in Titles!ScanStates
  BY DEF Titles!Terminals, Scans, Titles!ScanStates
<1>2. /\ s.esc = FALSE /\ s.inOsc = InOsc(t) /\ (InOsc(t) => Knows(s, Body(t)))
      /\ (InOsc(t) => s.inOsc = TRUE) /\ (~InOsc(t) => s.inOsc = FALSE)
  <2>1. InOsc(t) \in BOOLEAN
    BY DEF InOsc
  <2> QED
    BY <2>1 DEF Follows
<1>3. Body(t) \in Bodies
  <2>1. t.body \in Bodies /\ "esc" \in Titles!Chars
    BY DEF Titles!Terminals, Bodies, Titles!Chars
  <2> QED
    BY <2>1, Appended DEF Body, Grown
<1>4. InOsc(t) => (Ends(t, c) <=> c = "bel")
  BY DEF Completes, Ends
<1>5. CASE c = "bel" /\ InOsc(t)
  <2>1. r = Titles!EndOsc(s, o)
    BY <1>2, <1>5 DEF Titles!Plain
  <2>2. u = Titles!NewTerminal
    BY <1>4, <1>5, ReadsIs
  <2>3. Titles!Kept(Body(t)) \in Bodies /\ Knows(s, Titles!Kept(Body(t)))
    BY <1>2, <1>3, <1>5, KeptKnows
  <2>4. r.o = p
    BY <1>1, <1>5, <2>1, <2>3, EndHeard, HearsIs
  <2>5. r \in Runs /\ r.skip = FALSE /\ r.s.inOsc = FALSE /\ r.s.esc = FALSE
    <3>1. r \in Runs
      BY <2>1, ScanTypes
    <3>2. Titles!EndOsc(s, o).skip = FALSE /\ Titles!EndOsc(s, o).s.inOsc = FALSE /\ Titles!EndOsc(s, o).s.esc = s.esc
      BY <1>1, EndIs
    <3>3. s.esc = FALSE
      BY <1>2
    <3> QED
      BY <2>1, <3>1, <3>2, <3>3, Zenon
  <2>6. Resting(u) /\ ~Completes(u, next) /\ ~InOsc(u)
    BY <2>2 DEF Resting, Completes, InOsc, Titles!NewTerminal
  <2> QED
    BY <2>4, <2>5, <2>6, FollowsIs DEF Matches, Together
<1>6. CASE c # "esc" /\ ~InOsc(t)
  <2>1. r = Titles!Run(s, IF c = "bel" THEN [o EXCEPT !.bell = TRUE] ELSE o)
    BY <1>2, <1>6 DEF Titles!Plain
  <2>2. u = [mode |-> "text", body |-> <<>>]
    BY <1>6, ReadsIs
  <2>3. p = (IF c = "bel" THEN [o EXCEPT !.bell = TRUE] ELSE o) /\ p \in Titles!Said
    BY <1>6, HearsIs, ReadsTypes
  <2>4. r \in Runs /\ r.skip = FALSE /\ r.o = p /\ r.s = s
    BY <2>1, <2>3 DEF Titles!Run, Runs
  <2>5. Resting(u) /\ ~Completes(u, next) /\ ~InOsc(u)
    BY <2>2 DEF Resting, Completes, InOsc
  <2> QED
    BY <1>2, <1>6, <2>4, <2>5, FollowsIs DEF Matches, Together
<1>7. CASE c \notin {"esc", "bel"} /\ InOsc(t)
  <2> DEFINE q == Titles!OscChar(s, c)
  <2>1. r = Titles!Run(q, o)
    BY <1>2, <1>7 DEF Titles!Plain
  <2>2. u = [mode |-> "osc", body |-> Titles!Kept(Append(Titles!Kept(Body(t)), c))]
    BY <1>4, <1>7, ReadsIs
  <2>3. p = o
    BY <1>4, <1>7, HearsIs
  <2>4. r \in Runs /\ r.skip = FALSE /\ r.o = p /\ r.s = q
    BY <2>1, <2>3, ScanTypes DEF Titles!Run, Runs
  <2>5. Resting(u) /\ ~Completes(u, next) /\ InOsc(u) /\ Body(u) = u.body
    BY <2>2 DEF Resting, Completes, InOsc, Body
  <2>6. q.esc = s.esc /\ q.inOsc = s.inOsc
    BY <1>1 DEF Titles!OscChar, Titles!NumChar, Titles!TitleChar, Titles!ScanStates
  <2>7. Knows(q, u.body)
    <3>1. Titles!Kept(Body(t)) \in Bodies /\ Knows(s, Titles!Kept(Body(t)))
      BY <1>2, <1>3, <1>7, KeptKnows
    <3>2. Grown(Titles!Kept(Body(t)), c, Append(Titles!Kept(Body(t)), c))
      BY <3>1, Appended
    <3>3. Knows(q, Append(Titles!Kept(Body(t)), c)) /\ Append(Titles!Kept(Body(t)), c) \in Bodies
      BY <1>1, <1>7, <3>1, <3>2, KnowsMore DEF Grown
    <3> HIDE DEF q
    <3> QED
      BY <2>2, <3>3, KeptKnows
  <2> HIDE DEF q
  <2> QED
    BY <1>2, <1>7, <2>4, <2>5, <2>6, <2>7, FollowsIs DEF Matches, Together
<1>8. CASE c = "esc" /\ InOsc(t)
  <2>1. u = [mode |-> "oscEsc", body |-> Titles!Kept(Body(t))] /\ p = o
    BY <1>4, <1>8, ReadsIs, HearsIs
  <2>2. u.mode = "oscEsc" /\ u.body \in Bodies /\ Knows(s, u.body) /\ InOsc(u) /\ ~Resting(u)
    BY <1>2, <1>3, <1>8, <2>1, KeptKnows DEF InOsc, Resting
  <2>3. CASE last
    <3>1. r = Titles!Run([s EXCEPT !.esc = TRUE], o)
      BY <1>2, <1>8, <2>3 DEF Titles!Plain
    <3>2. [s EXCEPT !.esc = TRUE] \in Scans
      BY <1>1 DEF Scans, Titles!ScanStates
    <3>3. r \in Runs /\ r.skip = FALSE /\ r.o = p /\ r.s = [s EXCEPT !.esc = TRUE]
      BY <2>1, <3>1, <3>2 DEF Titles!Run, Runs
    <3>4. r.s.esc = TRUE /\ r.s.inOsc = s.inOsc /\ Knows(r.s, u.body)
      BY <1>1, <2>2, <3>3 DEF Titles!ScanStates, Knows
    <3> QED
      BY <1>2, <1>8, <2>2, <2>3, <3>3, <3>4, PendingIs DEF Matches
  <2>4. CASE ~last /\ next = "bs"
    <3>1. r = [Titles!EndOsc(s, o) EXCEPT !.skip = TRUE]
      BY <1>2, <1>8, <2>4 DEF Titles!Plain
    <3>2. Titles!EndOsc(s, o) \in Runs
      BY ScanTypes
    <3>3. r \in Runs /\ r.skip = TRUE /\ r.s = Titles!EndOsc(s, o).s /\ r.o = Titles!EndOsc(s, o).o
      BY <3>1, <3>2 DEF Runs
    <3>4. r.s.esc = FALSE /\ r.s.inOsc = FALSE
      BY <1>1, <1>2, <3>3 DEF Titles!EndOsc, Titles!Run, Titles!ScanStates
    <3>5. u \in Titles!Terminals /\ p \in Titles!Said
      BY ReadsTypes
    <3>6. Titles!Reads(u, next) = Titles!NewTerminal
      <4>1. Ends(u, next)
        BY <2>2, <2>4 DEF Ends
      <4> QED
        BY <2>2, <3>5, <4>1, ReadsIs
    <3>7. Titles!Hears(u, p, next) = r.o
      <4>1. Titles!Kept(u.body) \in Bodies /\ Knows(s, Titles!Kept(u.body))
        BY <2>2, KeptKnows
      <4>2. Titles!EndOsc(s, o).o = [o EXCEPT !.title = IF Titles!Title(Titles!Kept(u.body)) # "none" THEN Titles!Title(Titles!Kept(u.body)) ELSE o.title]
        BY <1>1, <4>1, EndHeard
      <4> QED
        BY <2>1, <2>2, <2>4, <3>3, <3>5, <4>2, HearsIs
    <3>8. Completes(u, next) /\ ~InOsc(Titles!NewTerminal)
      BY <2>2, <2>4 DEF Completes, InOsc, Titles!NewTerminal
    <3> QED
      BY <2>4, <3>3, <3>4, <3>6, <3>7, <3>8, FollowsIs DEF Matches, Ahead
  <2>5. CASE ~last /\ next # "bs"
    <3> DEFINE q == Titles!DropOsc(s)
    <3>1. r = Titles!Run(q, o)
      BY <1>2, <1>8, <2>5 DEF Titles!Plain
    <3>2. r \in Runs /\ r.skip = FALSE /\ r.o = p /\ r.s = q
      BY <2>1, <3>1, ScanTypes DEF Titles!Run, Runs
    <3>3. q.esc = FALSE /\ q.inOsc = s.inOsc
      BY <1>1, <1>2 DEF Titles!DropOsc, Titles!ScanStates
    <3>4. Knows(q, Body(u))
      BY <1>1, <2>2, KnowsEsc DEF Body
    <3>5. ~Completes(u, next)
      BY <2>2, <2>5 DEF Completes
    <3> HIDE DEF q
    <3> QED
      BY <1>2, <1>8, <2>2, <2>5, <3>2, <3>3, <3>4, <3>5, FollowsIs DEF Matches, Together
  <2> QED
    BY <2>3, <2>4, <2>5
<1>9. CASE c = "esc" /\ ~InOsc(t)
  <2>1. u = [mode |-> "esc", body |-> <<>>] /\ p = o
    BY <1>9, ReadsIs, HearsIs
  <2>2. u.mode = "esc" /\ ~InOsc(u) /\ ~Resting(u)
    BY <2>1 DEF InOsc, Resting
  <2>3. CASE last
    <3>1. r = Titles!Run([s EXCEPT !.esc = TRUE], o)
      BY <1>2, <1>9, <2>3 DEF Titles!Plain
    <3>2. [s EXCEPT !.esc = TRUE] \in Scans
      BY <1>1 DEF Scans, Titles!ScanStates
    <3>3. r \in Runs /\ r.skip = FALSE /\ r.o = p /\ r.s = [s EXCEPT !.esc = TRUE]
      BY <2>1, <3>1, <3>2 DEF Titles!Run, Runs
    <3>4. r.s.esc = TRUE /\ r.s.inOsc = s.inOsc
      BY <1>1, <3>3 DEF Titles!ScanStates
    <3> QED
      BY <1>2, <1>9, <2>2, <2>3, <3>3, <3>4, PendingIs DEF Matches
  <2>4. CASE ~last /\ next = "rb"
    <3>1. r = [Titles!Run(Titles!StartOsc(s), o) EXCEPT !.skip = TRUE]
      BY <1>2, <1>9, <2>4 DEF Titles!Plain
    <3>2. r \in Runs /\ r.skip = TRUE /\ r.s = Titles!StartOsc(s) /\ r.o = o
      BY <3>1, ScanTypes DEF Runs, Titles!Run
    <3>3. /\ r.s.esc = FALSE /\ r.s.inOsc = TRUE
          /\ r.s.osc = "num" /\ r.s.oscNum = "" /\ r.s.titleLen = 0 /\ r.s.titleIdle = FALSE
      BY <1>1, <1>2, <3>2 DEF Titles!StartOsc, Titles!ScanStates
    <3>4. u \in Titles!Terminals /\ p \in Titles!Said
      BY ReadsTypes
    <3>5. Titles!Reads(u, next) = [mode |-> "osc", body |-> <<>>] /\ Titles!Hears(u, p, next) = p
      BY <2>2, <2>4, <3>4, ReadsIs, HearsIs
    <3>6. Phase(<<>>) = "start"
      BY DEF Phase, Titles!NoTitle
    <3>7. Completes(u, next)
      BY <2>2, <2>4 DEF Completes
    <3>8. Follows(r.s, [mode |-> "osc", body |-> <<>>])
      BY <3>3, <3>6 DEF Follows, InOsc, Body, Knows
    <3> QED
      BY <2>1, <2>4, <3>2, <3>5, <3>7, <3>8 DEF Matches, Ahead
  <2>5. CASE ~last /\ next # "rb"
    <3>1. r = Titles!Run(s, o)
      BY <1>2, <1>9, <2>5 DEF Titles!Plain
    <3>2. r \in Runs /\ r.skip = FALSE /\ r.o = p /\ r.s = s
      BY <2>1, <3>1 DEF Titles!Run, Runs
    <3>3. ~Completes(u, next)
      BY <2>2, <2>5 DEF Completes
    <3> QED
      BY <1>2, <1>9, <2>2, <2>5, <3>2, <3>3, FollowsIs DEF Matches, Together
  <2> QED
    BY <2>3, <2>4, <2>5
<1> QED
  BY <1>5, <1>6, <1>7, <1>8, <1>9

(* The scan stays in its types.                                            *)
LEMMA PlainTypes ==
  ASSUME NEW s \in Scans, NEW o \in Titles!Said, NEW c \in Titles!Chars,
         NEW next \in Titles!Chars, NEW last \in BOOLEAN
  PROVE  Titles!Plain(s, o, c, last, next) \in Runs
<1>1. \A x \in Scans : \A p \in Titles!Said : Titles!Run(x, p) \in Runs
  BY DEF Titles!Run, Runs
<1>2. \A r \in Runs : [r EXCEPT !.skip = TRUE] \in Runs
  BY DEF Runs
<1>3. Titles!EndOsc(s, o) \in Runs /\ Titles!StartOsc(s) \in Scans /\ Titles!DropOsc(s) \in Scans /\ Titles!OscChar(s, c) \in Scans
  BY ScanTypes
<1>4. [o EXCEPT !.bell = TRUE] \in Titles!Said
  BY DEF Titles!Said
<1>5. [s EXCEPT !.esc = TRUE] \in Scans
  BY DEF Scans, Titles!ScanStates
<1>6. (IF s.inOsc /\ c # "esc" THEN Titles!OscChar(s, c) ELSE s) \in Scans
  BY <1>3
<1> QED
  BY <1>1, <1>2, <1>3, <1>4, <1>5, <1>6, Zenon DEF Titles!Plain

(* The flag of a pending ESC, cleared.                                     *)
Cleared(s) == [s EXCEPT !.esc = FALSE]
LEMMA EscCleared ==
  ASSUME NEW s \in Scans
  PROVE  /\ Cleared(s) \in Scans /\ Cleared(s).esc = FALSE
         /\ Cleared(s).inOsc = s.inOsc
         /\ s.esc = FALSE => Cleared(s) = s
         /\ \A b : Knows(s, b) => Knows(Cleared(s), b)
<1>1. s \in Titles!ScanStates /\ (s.osc = "title" => s.titleLen <= TitleMax)
  BY DEF Scans
<1> DEFINE v == Cleared(s)
<1>2. /\ v \in Titles!ScanStates /\ v.esc = FALSE /\ v.inOsc = s.inOsc /\ v.osc = s.osc
      /\ v.oscNum = s.oscNum /\ v.titleLen = s.titleLen /\ v.titleIdle = s.titleIdle
  BY <1>1 DEF Titles!ScanStates, Cleared
<1>3. s.esc = FALSE => v = s
  BY <1>1 DEF Titles!ScanStates, Cleared
<1> HIDE DEF v
<1>4. v \in Scans
  BY <1>1, <1>2 DEF Scans
<1>5. \A b : Knows(s, b) => Knows(v, b)
  BY <1>2 DEF Knows
<1> QED
  BY <1>2, <1>3, <1>4, <1>5 DEF v

(* A character of a chunk, by what the ESC before it is.                   *)
LEMMA StepIs ==
  ASSUME NEW s \in Scans, NEW o \in Titles!Said, NEW c \in Titles!Chars,
         NEW next \in Titles!Chars, NEW last \in BOOLEAN
  PROVE  /\ s.esc = FALSE => Titles!Step(s, o, c, last, next) = Titles!Plain(s, o, c, last, next)
         /\ s.esc = TRUE /\ s.inOsc = TRUE /\ c = "bs" => Titles!Step(s, o, c, last, next) = Titles!EndOsc(Cleared(s), o)
         /\ s.esc = TRUE /\ s.inOsc = TRUE /\ c # "bs" =>
              Titles!Step(s, o, c, last, next) = Titles!Plain(Titles!DropOsc(Cleared(s)), o, c, last, next)
         /\ s.esc = TRUE /\ s.inOsc = FALSE /\ c = "rb" =>
              Titles!Step(s, o, c, last, next) = Titles!Run(Titles!StartOsc(Cleared(s)), o)
         /\ s.esc = TRUE /\ s.inOsc = FALSE /\ c # "rb" =>
              Titles!Step(s, o, c, last, next) = Titles!Plain(Cleared(s), o, c, last, next)
<1>1. Titles!Step(s, o, c, last, next) =
        CASE s.esc /\ s.inOsc /\ c = "bs" -> Titles!EndOsc(Cleared(s), o)
          [] s.esc /\ ~s.inOsc /\ c = "rb" -> Titles!Run(Titles!StartOsc(Cleared(s)), o)
          [] s.esc /\ s.inOsc /\ c # "bs" -> Titles!Plain(Titles!DropOsc(Cleared(s)), o, c, last, next)
          [] OTHER -> Titles!Plain(Cleared(s), o, c, last, next)
  BY Zenon DEF Titles!Step, Cleared
<1>2. s.esc = FALSE => Cleared(s) = s
  BY EscCleared
<1>3. s.esc = FALSE => Titles!Step(s, o, c, last, next) = Titles!Plain(s, o, c, last, next)
  BY <1>1, <1>2
<1>4. s.esc = TRUE /\ s.inOsc = TRUE /\ c = "bs" => Titles!Step(s, o, c, last, next) = Titles!EndOsc(Cleared(s), o)
  BY <1>1
<1>5. s.esc = TRUE /\ s.inOsc = TRUE /\ c # "bs" =>
        Titles!Step(s, o, c, last, next) = Titles!Plain(Titles!DropOsc(Cleared(s)), o, c, last, next)
  BY <1>1
<1>6. s.esc = TRUE /\ s.inOsc = FALSE /\ c = "rb" =>
        Titles!Step(s, o, c, last, next) = Titles!Run(Titles!StartOsc(Cleared(s)), o)
  BY <1>1
<1>7. s.esc = TRUE /\ s.inOsc = FALSE /\ c # "rb" =>
        Titles!Step(s, o, c, last, next) = Titles!Plain(Cleared(s), o, c, last, next)
  BY <1>1
<1> QED
  BY <1>3, <1>4, <1>5, <1>6, <1>7

(* A step stays among the runs.                                            *)
LEMMA StepTypes ==
  ASSUME NEW s \in Scans, NEW o \in Titles!Said, NEW c \in Titles!Chars,
         NEW next \in Titles!Chars, NEW last \in BOOLEAN
  PROVE  Titles!Step(s, o, c, last, next) \in Runs
<1> DEFINE v == Cleared(s)
<1>1. v \in Scans /\ s.esc \in BOOLEAN /\ s.inOsc \in BOOLEAN
  BY EscCleared DEF Scans, Titles!ScanStates
<1>2. Titles!DropOsc(v) \in Scans /\ Titles!StartOsc(v) \in Scans /\ Titles!EndOsc(v, o) \in Runs
  BY <1>1, ScanTypes
<1>3. Titles!Run(Titles!StartOsc(v), o) \in Runs
  BY <1>2 DEF Titles!Run, Runs
<1>4. /\ Titles!Plain(s, o, c, last, next) \in Runs
      /\ Titles!Plain(v, o, c, last, next) \in Runs
      /\ Titles!Plain(Titles!DropOsc(v), o, c, last, next) \in Runs
  BY <1>1, <1>2, PlainTypes
<1> HIDE DEF v
<1>5. CASE s.esc = FALSE
  BY <1>4, <1>5, StepIs
<1>6. CASE s.esc = TRUE /\ s.inOsc = TRUE
  <2>1. c = "bs" => Titles!Step(s, o, c, last, next) = Titles!EndOsc(v, o)
    BY <1>6, StepIs DEF v
  <2>2. c # "bs" => Titles!Step(s, o, c, last, next) = Titles!Plain(Titles!DropOsc(v), o, c, last, next)
    BY <1>6, StepIs DEF v
  <2> QED
    BY <1>2, <1>4, <2>1, <2>2
<1>7. CASE s.esc = TRUE /\ s.inOsc = FALSE
  <2>1. c = "rb" => Titles!Step(s, o, c, last, next) = Titles!Run(Titles!StartOsc(v), o)
    BY <1>7, StepIs DEF v
  <2>2. c # "rb" => Titles!Step(s, o, c, last, next) = Titles!Plain(v, o, c, last, next)
    BY <1>7, StepIs DEF v
  <2> QED
    BY <1>3, <1>4, <2>1, <2>2
<1> QED
  BY <1>1, <1>5, <1>6, <1>7

(* Between two chunks the terminal rests, or both have an ESC pending.     *)
Boundary(s, t) == (Resting(t) /\ Follows(s, t)) \/ Pending(s, t)

(* A terminal at rest needs no lookahead; the first character of a chunk   *)
(* and every further one keep both together.                               *)
LEMMA RestMatches ==
  ASSUME NEW r, NEW u, NEW p, NEW next, NEW last \in BOOLEAN, Together(r, u, p), Resting(u)
  PROVE  Matches(r, u, p, last, next)
<1>1. ~Completes(u, next)
  BY DEF Resting, Completes
<1> QED
  BY <1>1 DEF Matches

(* The first character of a chunk.                                         *)
LEMMA FirstMatches ==
  ASSUME NEW s \in Scans, NEW t \in Titles!Terminals, NEW o \in Titles!Said,
         NEW c \in Titles!Chars, NEW next \in Titles!Chars, NEW last \in BOOLEAN, Boundary(s, t)
  PROVE  Matches(Titles!Step(s, o, c, last, next), Titles!Reads(t, c), Titles!Hears(t, o, c), last, next)
<1> DEFINE r == Titles!Step(s, o, c, last, next)
           u == Titles!Reads(t, c)
           p == Titles!Hears(t, o, c)
           v == Cleared(s)
<1>1. CASE Resting(t) /\ Follows(s, t)
  <2>1. ~Completes(t, c)
    BY <1>1 DEF Resting, Completes
  <2>2. r = Titles!Plain(s, o, c, last, next)
    BY <1>1, StepIs DEF Follows
  <2> HIDE DEF r, u, p
  <2>3. Matches(r, u, p, last, next)
    BY <1>1, <2>1, <2>2, PlainMatches DEF u, p
  <2> QED
    BY <2>3 DEF r, u, p
<1>2. CASE Pending(s, t)
  <2>1. t.mode \in {"esc", "oscEsc"} /\ s.esc = TRUE /\ s.inOsc = InOsc(t) /\ (InOsc(t) => Knows(s, t.body))
    BY <1>2 DEF Pending, Resting, Titles!Terminals
  <2>2. v \in Scans /\ v.esc = FALSE /\ v.inOsc = s.inOsc /\ (InOsc(t) => Knows(v, t.body)) /\ v \in Titles!ScanStates
    BY <2>1, EscCleared DEF Scans
  <2>3. t.body \in Bodies /\ "esc" \in Titles!Chars
    BY DEF Titles!Terminals, Bodies, Titles!Chars
  <2>4. CASE t.mode = "oscEsc"
    <3>1. InOsc(t) /\ s.inOsc = TRUE /\ Body(t) = Append(t.body, "esc")
      <4>1. InOsc(t) = TRUE
        BY <2>4 DEF InOsc
      <4> QED
        BY <2>1, <2>4, <4>1 DEF Body
    <3>2. CASE c = "bs"
      <4>1. r = Titles!EndOsc(v, o)
        BY <2>1, <3>1, <3>2, StepIs
      <4>2. u = Titles!NewTerminal
        BY <2>4, <3>1, <3>2, ReadsIs DEF Ends
      <4>3. Titles!Kept(t.body) \in Bodies /\ Knows(v, Titles!Kept(t.body))
        BY <2>2, <2>3, <3>1, KeptKnows
      <4>4. Titles!EndOsc(v, o).o = p
        BY <2>2, <2>4, <3>2, <4>3, EndHeard, HearsIs
      <4>5. r.skip = FALSE /\ r.s.inOsc = FALSE /\ r.s.esc = FALSE
        BY <2>2, <4>1, EndIs
      <4>7. Resting(u) /\ ~InOsc(u)
        BY <4>2 DEF Resting, InOsc, Titles!NewTerminal
      <4> HIDE DEF r, u, p, v
      <4>8. Together(r, u, p)
        BY <4>1, <4>4, <4>5, <4>7, FollowsIs DEF Together
      <4>9. Matches(r, u, p, last, next)
        BY <4>7, <4>8, RestMatches
      <4> QED
        BY <4>9 DEF r, u, p
    <3>3. CASE c # "bs"
      <4> DEFINE d == Titles!DropOsc(v)
      <4>1. r = Titles!Plain(d, o, c, last, next)
        BY <2>1, <3>1, <3>3, StepIs
      <4>2. d \in Scans
        BY <2>2, <2>3, ScanTypes
      <4>3. d.esc = FALSE /\ d.inOsc = TRUE
        <5> HIDE DEF v
        <5> QED
          BY <2>2, <3>1 DEF Titles!DropOsc, Titles!ScanStates
      <4>4. Knows(d, Body(t))
        BY <2>2, <2>3, <3>1, KnowsEsc
      <4> HIDE DEF d, r, u, p, v
      <4>5. Follows(d, t)
        BY <3>1, <4>3, <4>4, FollowsIs
      <4>6. ~Completes(t, c)
        BY <2>4, <3>3 DEF Completes
      <4>7. Matches(r, u, p, last, next)
        BY <4>1, <4>2, <4>5, <4>6, PlainMatches DEF u, p
      <4> QED
        BY <4>7 DEF r, u, p
    <3> QED
      BY <3>2, <3>3
  <2>5. CASE t.mode = "esc"
    <3>1. ~InOsc(t) /\ s.inOsc = FALSE
      <4>1. InOsc(t) = FALSE
        BY <2>5 DEF InOsc
      <4> QED
        BY <2>1, <4>1
    <3>2. CASE c = "rb"
      <4>1. r = Titles!Run(Titles!StartOsc(v), o)
        BY <2>1, <3>1, <3>2, StepIs
      <4>2. r.s = Titles!StartOsc(v) /\ r.o = o /\ r.skip = FALSE
        BY <4>1 DEF Titles!Run
      <4>3. u = [mode |-> "osc", body |-> <<>>] /\ p = o
        BY <2>5, <3>1, <3>2, ReadsIs, HearsIs
      <4> HIDE DEF r, u, p, v
      <4>4. /\ r.s.esc = FALSE /\ r.s.inOsc = TRUE
            /\ r.s.osc = "num" /\ r.s.oscNum = "" /\ r.s.titleLen = 0 /\ r.s.titleIdle = FALSE
        BY <2>2, <4>2 DEF Titles!StartOsc, Titles!ScanStates
      <4>5. Phase(<<>>) = "start"
        BY DEF Phase, Titles!NoTitle
      <4>6. InOsc(u) /\ Body(u) = <<>> /\ Resting(u)
        BY <4>3 DEF InOsc, Body, Resting
      <4>7. Knows(r.s, Body(u))
        BY <4>4, <4>5, <4>6 DEF Knows
      <4>8. Together(r, u, p)
        BY <4>2, <4>3, <4>4, <4>6, <4>7, FollowsIs DEF Together
      <4>9. Matches(r, u, p, last, next)
        BY <4>6, <4>8, RestMatches
      <4> QED
        BY <4>9 DEF r, u, p
    <3>3. CASE c # "rb"
      <4>1. r = Titles!Plain(v, o, c, last, next)
        BY <2>1, <3>1, <3>3, StepIs
      <4> HIDE DEF r, u, p, v
      <4>2. Follows(v, t)
        BY <2>2, <3>1, FollowsIs
      <4>3. ~Completes(t, c)
        BY <2>5, <3>3 DEF Completes
      <4>4. Matches(r, u, p, last, next)
        BY <2>2, <4>1, <4>2, <4>3, PlainMatches DEF u, p
      <4> QED
        BY <4>4 DEF r, u, p
    <3> QED
      BY <3>2, <3>3
  <2> QED
    BY <2>1, <2>4, <2>5
<1> QED
  BY <1>1, <1>2 DEF Boundary

(* The next character of a chunk.                                          *)
LEMMA NextMatches ==
  ASSUME NEW r \in Runs, NEW t \in Titles!Terminals, NEW o \in Titles!Said,
         NEW e \in [c : Titles!Chars, last : BOOLEAN, next : Titles!Chars],
         Matches(r, t, o, FALSE, e.c)
  PROVE  Matches(Titles!ScanChar(r, e), Titles!Reads(t, e.c), Titles!Hears(t, o, e.c), e.last, e.next)
<1> DEFINE q == Titles!ScanChar(r, e)
           u == Titles!Reads(t, e.c)
           p == Titles!Hears(t, o, e.c)
<1>1. e.c \in Titles!Chars /\ e.last \in BOOLEAN /\ e.next \in Titles!Chars
  OBVIOUS
<1>2. r.s \in Scans /\ r.o \in Titles!Said
  BY DEF Runs
<1>3. CASE Together(r, t, o) /\ ~Completes(t, e.c)
  <2>1. r.skip = FALSE /\ r.o = o /\ Follows(r.s, t)
    BY <1>3 DEF Together
  <2>2. q = Titles!Step(r.s, o, e.c, e.last, e.next)
    BY <2>1 DEF Titles!ScanChar
  <2>3. q = Titles!Plain(r.s, o, e.c, e.last, e.next)
    <3>1. r.s.esc = FALSE
      BY <2>1 DEF Follows
    <3> QED
      BY <1>1, <1>2, <2>2, <3>1, StepIs
  <2> HIDE DEF q, u, p
  <2>4. Matches(q, u, p, e.last, e.next)
    BY <1>1, <1>2, <1>3, <2>1, <2>3, PlainMatches DEF u, p
  <2> QED
    BY <2>4 DEF q, u, p
<1>4. CASE Ahead(r, t, o, e.c)
  <2>1. r.skip = TRUE /\ Completes(t, e.c) /\ r.o = p /\ Follows(r.s, u)
    BY <1>4 DEF Ahead
  <2>2. q = Titles!Run(r.s, r.o)
    BY <2>1 DEF Titles!ScanChar
  <2>3. Resting(u)
    <3>1. CASE t.mode = "esc" /\ e.c = "rb"
      BY <1>1, <3>1, ReadsIs DEF Resting
    <3>2. CASE t.mode = "oscEsc" /\ e.c = "bs"
      BY <1>1, <3>2, ReadsIs DEF Resting, InOsc, Ends, Titles!NewTerminal
    <3> QED
      BY <2>1, <3>1, <3>2 DEF Completes
  <2> HIDE DEF q, u, p
  <2>4. Together(q, u, p)
    BY <2>1, <2>2 DEF Together, Titles!Run
  <2>5. Matches(q, u, p, e.last, e.next)
    BY <1>1, <2>3, <2>4, RestMatches
  <2> QED
    BY <2>5 DEF q, u, p
<1> QED
  BY <1>3, <1>4 DEF Matches

(***************************************************************************)
(* A whole chunk: the two folds side by side.                              *)
(***************************************************************************)
ScanStep(r, e) == Titles!ScanChar(r, e)
ListenStep(r, c) == Titles!Listened(r, c)
ScanFold == INSTANCE FoldProofs WITH Op <- LAMBDA c, x, y : ScanStep(x, y)
ListenFold == INSTANCE FoldProofs WITH Op <- LAMBDA c, x, y : ListenStep(x, y)

(* What the folds run over, and what the terminal accumulates.             *)
Entries == [c : Titles!Chars, last : BOOLEAN, next : Titles!Chars]
Listeners == [t : Titles!Terminals, o : Titles!Said]

(* Both are folds of FoldProofs.                                           *)
LEMMA ScanIsAFold == \A data, s : Titles!ScanOutput(data, s) = ScanFold!Folded(0, Titles!Run(s, Titles!Silence), Titles!WithNext(data))
BY Zenon DEF Titles!ScanOutput, ScanStep, ScanFold!Folded, Titles!FoldLeft, Titles!MapThenFoldSet, Titles!Max,
             ScanFold!MapThenFoldSet, ScanFold!Greatest
LEMMA ListenIsAFold == \A data, t : Titles!Listen(data, t) = ListenFold!Folded(0, [t |-> t, o |-> Titles!Silence], data)
BY Zenon DEF Titles!Listen, ListenStep, ListenFold!Folded, Titles!FoldLeft, Titles!MapThenFoldSet, Titles!Max,
             ListenFold!MapThenFoldSet, ListenFold!Greatest

(* A chunk is a sequence with a character in it, and so is what WithNext   *)
(* makes of it.                                                            *)
LEMMA ChunkIs ==
  ASSUME NEW data \in Titles!Chunks
  PROVE  data \in Seq(Titles!Chars) /\ Len(data) \in Nat /\ Len(data) >= 1
<1>1. MaxChunk \in Nat
  BY ObserverAssumption DEF Titles!ScanBounds
<1>2. PICK n \in 1..MaxChunk : data \in [1..n -> Titles!Chars]
  BY DEF Titles!Chunks
<1> QED
  BY <1>1, <1>2

LEMMA WithNextIs ==
  ASSUME NEW data \in Seq(Titles!Chars), NEW w, w = Titles!WithNext(data)
  PROVE  /\ w \in Seq(Entries) /\ Len(w) = Len(data)
         /\ \A i \in 1..Len(data) : w[i].c = data[i]
         /\ \A i \in 1..Len(data) : i < Len(data) => w[i].last = FALSE /\ w[i].next = data[i + 1]
         /\ Len(data) \in 1..Len(data) => w[Len(data)].last = TRUE
<1>1. w = [i \in 1..Len(data) |-> [c |-> data[i], last |-> i = Len(data), next |-> data[IF i = Len(data) THEN i ELSE i + 1]]]
  BY DEF Titles!WithNext
<1>2. ASSUME NEW i \in 1..Len(data)
      PROVE  [c |-> data[i], last |-> i = Len(data), next |-> data[IF i = Len(data) THEN i ELSE i + 1]] \in Entries
  <2>1. (IF i = Len(data) THEN i ELSE i + 1) \in 1..Len(data)
    OBVIOUS
  <2>2. data[i] \in Titles!Chars /\ data[IF i = Len(data) THEN i ELSE i + 1] \in Titles!Chars /\ (i = Len(data)) \in BOOLEAN
    BY <2>1
  <2> QED
    BY <2>2 DEF Entries
<1>3. w \in [1..Len(data) -> Entries] /\ Len(data) \in Nat
  BY <1>1, <1>2
<1>4. w \in Seq(Entries) /\ Len(w) = Len(data)
  BY <1>3
<1>5. \A i \in 1..Len(data) : w[i] = [c |-> data[i], last |-> i = Len(data), next |-> data[IF i = Len(data) THEN i ELSE i + 1]]
  BY <1>1
<1>6. ASSUME NEW i \in 1..Len(data) PROVE w[i].c = data[i]
  <2>1. w[i] = [c |-> data[i], last |-> i = Len(data), next |-> data[IF i = Len(data) THEN i ELSE i + 1]]
    BY <1>5
  <2> QED
    BY <2>1
<1>7. ASSUME NEW i \in 1..Len(data), i < Len(data) PROVE w[i].last = FALSE /\ w[i].next = data[i + 1]
  <2>1. w[i] = [c |-> data[i], last |-> i = Len(data), next |-> data[IF i = Len(data) THEN i ELSE i + 1]]
    BY <1>5
  <2>2. (i = Len(data)) = FALSE /\ (IF i = Len(data) THEN i ELSE i + 1) = i + 1
    BY <1>7
  <2>3. w[i] = [c |-> data[i], last |-> FALSE, next |-> data[i + 1]]
    BY <2>1, <2>2, Zenon
  <2> QED
    BY <2>3
<1>8. ASSUME Len(data) \in 1..Len(data) PROVE w[Len(data)].last = TRUE
  <2>1. w[Len(data)] = [c |-> data[Len(data)], last |-> TRUE, next |-> data[Len(data)]]
    BY <1>5, <1>8
  <2> QED
    BY <2>1
<1> QED
  BY <1>4, <1>6, <1>7, <1>8

(* The run of each fold over a chunk.                                      *)
LEMMA ScanRuns ==
  ASSUME NEW a \in Runs, NEW w \in Seq(Entries)
  PROVE  \E f \in [0..Len(w) -> Runs] : ScanFold!Accumulates(0, f, a, w) /\ ScanFold!Folded(0, a, w) = f[Len(w)]
<1>1. ScanFold!Keeps(0, Runs, Entries)
  <2> SUFFICES ASSUME NEW x \in Runs, NEW e \in Entries PROVE ScanStep(x, e) \in Runs
    BY DEF ScanFold!Keeps
  <2>1. e.c \in Titles!Chars /\ e.last \in BOOLEAN /\ e.next \in Titles!Chars
    BY DEF Entries
  <2>2. x.s \in Scans /\ x.o \in Titles!Said
    BY DEF Runs
  <2>3. Titles!Step(x.s, x.o, e.c, e.last, e.next) \in Runs
    BY <2>1, <2>2, StepTypes
  <2>4. Titles!Run(x.s, x.o) \in Runs
    BY <2>2 DEF Titles!Run, Runs
  <2> QED
    BY <2>3, <2>4 DEF ScanStep, Titles!ScanChar
<1> QED
  BY <1>1, ScanFold!FoldRuns

(* The runs of the two folds over a chunk.                                 *)
LEMMA ListenRuns ==
  ASSUME NEW b \in Listeners, NEW data \in Seq(Titles!Chars)
  PROVE  \E g \in [0..Len(data) -> Listeners] :
            ListenFold!Accumulates(0, g, b, data) /\ ListenFold!Folded(0, b, data) = g[Len(data)]
<1>1. ListenFold!Keeps(0, Listeners, Titles!Chars)
  <2> SUFFICES ASSUME NEW x \in Listeners, NEW c \in Titles!Chars PROVE ListenStep(x, c) \in Listeners
    BY DEF ListenFold!Keeps
  <2>1. x.t \in Titles!Terminals /\ x.o \in Titles!Said
    BY DEF Listeners
  <2>2. Titles!Reads(x.t, c) \in Titles!Terminals /\ Titles!Hears(x.t, x.o, c) \in Titles!Said
    BY <2>1, ReadsTypes
  <2> QED
    BY <2>2 DEF ListenStep, Titles!Listened, Listeners
<1> QED
  BY <1>1, ListenFold!FoldRuns

(* However a chunk goes, the scan has heard what the terminal has heard,   *)
(* and both are ready for the next one.                                    *)
LEMMA ChunkHeard ==
  ASSUME NEW data \in Titles!Chunks, NEW s \in Scans, NEW t \in Titles!Terminals, Boundary(s, t),
         NEW r, r = Titles!ScanOutput(data, s), NEW l, l = Titles!Listen(data, t)
  PROVE  r \in Runs /\ l \in Listeners /\ r.o = l.o /\ Boundary(r.s, l.t)
<1> DEFINE w == Titles!WithNext(data)
           L == Len(data)
           a == Titles!Run(s, Titles!Silence)
           b == [t |-> t, o |-> Titles!Silence]
<1>1. data \in Seq(Titles!Chars) /\ L \in Nat /\ L >= 1
  BY ChunkIs
<1>2. /\ w \in Seq(Entries) /\ Len(w) = L
      /\ \A i \in 1..L : w[i].c = data[i]
      /\ \A i \in 1..L : i < L => w[i].last = FALSE /\ w[i].next = data[i + 1]
      /\ L \in 1..L => w[L].last = TRUE
  BY <1>1, WithNextIs
<1>3. Titles!Silence \in Titles!Said
  BY DEF Titles!Silence, Titles!Said
<1>4. a \in Runs /\ a.s = s /\ a.o = Titles!Silence /\ a.skip = FALSE
  BY <1>3 DEF Titles!Run, Runs
<1>5. b \in Listeners /\ b.t = t /\ b.o = Titles!Silence
  BY <1>3 DEF Listeners
<1> HIDE DEF w, L, a, b
<1>8. PICK f \in [0..Len(w) -> Runs] : ScanFold!Accumulates(0, f, a, w) /\ ScanFold!Folded(0, a, w) = f[Len(w)]
  BY <1>2, <1>4, ScanRuns
<1>9. PICK g \in [0..Len(data) -> Listeners] : ListenFold!Accumulates(0, g, b, data) /\ ListenFold!Folded(0, b, data) = g[Len(data)]
  BY <1>1, <1>5, ListenRuns
<1>10. r = f[L] /\ l = g[L]
  BY <1>2, <1>8, <1>9, ScanIsAFold, ListenIsAFold DEF w, L, a, b
<1>11. f[0] = a /\ g[0] = b /\ f \in [0..L -> Runs] /\ g \in [0..L -> Listeners]
  BY <1>2, <1>8, <1>9 DEF L, ScanFold!Accumulates, ListenFold!Accumulates
<1>12. ASSUME NEW n \in 1..L
       PROVE  /\ f[n] = Titles!ScanChar(f[n - 1], w[n])
              /\ g[n].t = Titles!Reads(g[n - 1].t, data[n]) /\ g[n].o = Titles!Hears(g[n - 1].t, g[n - 1].o, data[n])
              /\ w[n] \in Entries /\ data[n] \in Titles!Chars
  <2>1. f[n] = ScanStep(f[n - 1], w[n])
    BY <1>2, <1>8 DEF ScanFold!Accumulates
  <2>2. g[n] = ListenStep(g[n - 1], data[n])
    BY <1>9 DEF ListenFold!Accumulates, L
  <2>3. w[n] \in Entries /\ data[n] \in Titles!Chars
    BY <1>1, <1>2 DEF L
  <2> QED
    BY <2>1, <2>2, <2>3 DEF ScanStep, ListenStep, Titles!Listened
<1> DEFINE T == {n \in Nat : n < L => Matches(f[n + 1], g[n + 1].t, g[n + 1].o, w[n + 1].last, w[n + 1].next)}
<1>13. 0 \in T
  <2>1. 1 \in 1..L
    BY <1>1
  <2>2. /\ f[1] = Titles!ScanChar(f[0], w[1])
        /\ g[1].t = Titles!Reads(g[0].t, data[1]) /\ g[1].o = Titles!Hears(g[0].t, g[0].o, data[1])
        /\ w[1] \in Entries /\ data[1] \in Titles!Chars /\ w[1].c = data[1]
    BY <1>2, <1>12, <2>1
  <2>3. f[1] = Titles!Step(s, Titles!Silence, w[1].c, w[1].last, w[1].next)
    BY <1>4, <1>11, <2>2 DEF Titles!ScanChar
  <2>4. w[1].c \in Titles!Chars /\ w[1].last \in BOOLEAN /\ w[1].next \in Titles!Chars
    BY <2>2 DEF Entries
  <2>5. Matches(f[1], g[1].t, g[1].o, w[1].last, w[1].next)
    BY <1>3, <1>5, <1>11, <2>2, <2>3, <2>4, FirstMatches
  <2> QED
    BY <2>5
<1>14. ASSUME NEW n \in Nat, n \in T PROVE n + 1 \in T
  <2> SUFFICES ASSUME n + 1 < L
               PROVE  Matches(f[(n + 1) + 1], g[(n + 1) + 1].t, g[(n + 1) + 1].o, w[(n + 1) + 1].last, w[(n + 1) + 1].next)
    OBVIOUS
  <2>1. n + 1 \in 1..L /\ (n + 1) + 1 \in 1..L /\ ((n + 1) + 1) - 1 = n + 1 /\ n < L /\ n + 1 \in 0..L /\ n + 1 < L /\ n + 1 # L
    BY <1>1
  <2> DEFINE m == n + 1
             k == (n + 1) + 1
  <2>2. Matches(f[m], g[m].t, g[m].o, w[m].last, w[m].next)
    BY <1>14, <2>1
  <2>3. w[m].last = FALSE /\ w[m].next = data[k] /\ w[k].c = data[k]
    BY <1>2, <2>1
  <2>4. f[m] \in Runs /\ g[m].t \in Titles!Terminals /\ g[m].o \in Titles!Said
    BY <1>11, <2>1 DEF Listeners
  <2>5. /\ f[k] = Titles!ScanChar(f[m], w[k])
        /\ g[k].t = Titles!Reads(g[m].t, data[k]) /\ g[k].o = Titles!Hears(g[m].t, g[m].o, data[k])
        /\ w[k] \in Entries
    BY <1>12, <2>1
  <2> HIDE DEF m, k
  <2>6. Matches(f[m], g[m].t, g[m].o, FALSE, w[k].c)
    BY <2>2, <2>3
  <2>7. Matches(f[k], g[k].t, g[k].o, w[k].last, w[k].next)
    BY <2>3, <2>4, <2>5, <2>6, NextMatches DEF Entries
  <2> QED
    BY <2>7 DEF k
<1>15. Nat \subseteq T
  <2> HIDE DEF T
  <2> QED
    BY <1>13, <1>14, ScanFold!Induction
<1>16. Matches(f[L], g[L].t, g[L].o, TRUE, w[L].next)
  <2>1. L - 1 \in Nat /\ L - 1 < L /\ (L - 1) + 1 = L /\ L \in 1..L
    BY <1>1
  <2>2. L - 1 \in T
    BY <1>15, <2>1
  <2>3. w[L].last = TRUE
    BY <1>2, <2>1
  <2> QED
    BY <2>1, <2>2, <2>3
<1>17. f[L] \in Runs /\ g[L] \in Listeners
  BY <1>1, <1>11
<1>18. f[L].o = g[L].o /\ Boundary(f[L].s, g[L].t)
  BY <1>16 DEF Matches, Together, Boundary
<1> QED
  BY <1>10, <1>17, <1>18

(***************************************************************************)
(* Between two chunks the scan knows what the terminal will make of the    *)
(* rest.                                                                   *)
(***************************************************************************)
ScanInv ==
  /\ scan \in Scans /\ term \in Titles!Terminals /\ said \in Titles!Said /\ heard \in Titles!Said
  /\ said = heard /\ Boundary(scan, term)

(* Both begin together, and every chunk leaves them so.                    *)
LEMMA ScanStarts == MCInit => ScanInv
<1> SUFFICES ASSUME MCInit PROVE ScanInv
  OBVIOUS
<1>1. scan = Titles!NewOutputScan /\ said = Titles!Silence /\ term = Titles!NewTerminal /\ heard = Titles!Silence
  BY DEF MCInit, Titles!Init
<1>2. Titles!Silence \in Titles!Said
  BY DEF Titles!Silence, Titles!Said
<1>3. Titles!NewTerminal \in Titles!Terminals /\ Resting(Titles!NewTerminal) /\ ~InOsc(Titles!NewTerminal)
  BY DEF Titles!NewTerminal, Titles!Terminals, Resting, InOsc
<1>4. Titles!NewOutputScan \in Scans
  <2>1. 0 \in 0..TitleMax + 1
    BY TitleBound
  <2> QED
    BY <2>1 DEF Titles!NewOutputScan, Scans, Titles!ScanStates
<1>5. Titles!NewOutputScan.esc = FALSE /\ Titles!NewOutputScan.inOsc = FALSE
  BY DEF Titles!NewOutputScan
<1>6. Follows(Titles!NewOutputScan, Titles!NewTerminal)
  BY <1>3, <1>5, FollowsIs
<1> QED
  BY <1>1, <1>2, <1>3, <1>4, <1>6 DEF ScanInv, Boundary

LEMMA ScanGoesOn == ScanInv /\ [MCNext]_MCVars => ScanInv'
<1> SUFFICES ASSUME ScanInv, [MCNext]_MCVars PROVE ScanInv'
  OBVIOUS
<1>1. CASE UNCHANGED scanVars
  BY <1>1 DEF ScanInv, scanVars
<1>2. ASSUME NEW data \in Titles!Chunks, Titles!Chunk(data) PROVE ScanInv'
  <2> DEFINE r == Titles!ScanOutput(data, scan)
             l == Titles!Listen(data, term)
  <2>1. scan' = r.s /\ said' = r.o /\ term' = l.t /\ heard' = l.o
    BY <1>2 DEF Titles!Chunk
  <2> HIDE DEF r, l
  <2>2. r \in Runs /\ l \in Listeners /\ r.o = l.o /\ Boundary(r.s, l.t)
    BY ChunkHeard DEF ScanInv, r, l
  <2> QED
    BY <2>1, <2>2 DEF ScanInv, Runs, Listeners
<1> QED
  BY <1>1, <1>2 DEF MCNext, MCVars, Titles!Next, scanVars

(* The title and the bell a session reports are what its terminal shows,   *)
(* however its output is cut into chunks.                                  *)
THEOREM ScanHears == MCSpec => []ScanHearsTheTerminal
<1>1. ScanInv => ScanHearsTheTerminal
  BY DEF ScanInv, ScanHearsTheTerminal, Titles!ScanHearsTheTerminal
<1> QED
  BY <1>1, ScanStarts, ScanGoesOn, PTL DEF MCSpec

-----------------------------------------------------------------------------
(***************************************************************************)
(* The sweep of the transcripts: the budget, the order, and what has been  *)
(* read of each file.                                                      *)
(***************************************************************************)
TFiles == Transcripts!Files
(* What SweepBounds says.                                                  *)
LEMMA SweepConstants ==
  /\ Tracked \in Seq(Seq(TFiles)) /\ Len(Tracked) \in Nat \ {0}
  /\ MaxLine \in Nat /\ TailBytes \in Nat /\ PerPoll \in Nat /\ PerTick \in Nat
<1>1. /\ Tracked \in Seq(Seq(TFiles)) /\ Tracked # <<>>
      /\ MaxLine \in Nat /\ TailBytes \in Nat /\ PerPoll \in Nat /\ PerTick \in Nat
  BY ObserverAssumption DEF Transcripts!SweepBounds, TFiles
<1> HIDE DEF TFiles
<1>2. Len(Tracked) \in Nat \ {0}
  BY <1>1, EmptySeq
<1> QED
  BY <1>1, <1>2

(* The budget.                                                             *)
Spend(left, g) == left - Transcripts!Wanted(g, left)
SpendFold == INSTANCE FoldProofs WITH Op <- LAMBDA c, x, y : Spend(x, y)

(* Left is a fold of the spending.                                         *)
LEMMA LeftIsAFold ==
  ASSUME NEW order, NEW f
  PROVE  Transcripts!Left(order, f)
           = SpendFold!Folded(0, PerTick, SubSeq(order, 1, (CHOOSE j \in DOMAIN order : order[j] = f) - 1))
BY Zenon DEF Transcripts!Left, Spend, SpendFold!Folded, Transcripts!FoldLeft, Transcripts!MapThenFoldSet, Transcripts!Max,
             SpendFold!MapThenFoldSet, SpendFold!Greatest

-----------------------------------------------------------------------------
Join(text, chunk) == text \o chunk
JoinFold == INSTANCE FoldProofs WITH Op <- LAMBDA c, x, y : Join(x, y)
Collects(f, s) == f[0] = <<>> /\ \A n \in 1..Len(s) : f[n] = f[n - 1] \o s[n]

(* Every sequence of sequences has a collection.                           *)
LEMMA FlatteningExists ==
  ASSUME NEW S, NEW s \in Seq(Seq(S))
  PROVE  \E f \in [0..Len(s) -> Seq(S)] : Collects(f, s)
<1>1. JoinFold!Keeps(0, Seq(S), Seq(S))
  <2>1. \A x \in Seq(S), y \in Seq(S) : x \o y \in Seq(S)
    BY ConcatProperties
  <2> QED
    BY <2>1 DEF JoinFold!Keeps, Join
<1>2. <<>> \in Seq(S) /\ s \in Seq(Seq(S))
  OBVIOUS
<1>3. PICK f \in [0..Len(s) -> Seq(S)] : JoinFold!Accumulates(0, f, <<>>, s)
  BY <1>1, <1>2, JoinFold!FoldRuns
<1> QED
  BY <1>3 DEF JoinFold!Accumulates, Collects, Join

(* FlattenSeq of the library is the last of it.                            *)
LEMMA FlatteningIs ==
  ASSUME NEW S, NEW s \in Seq(Seq(S)), NEW f, Collects(f, s)
  PROVE  Transcripts!FlattenSeq(s) = f[Len(s)]
<1>0. Len(s) \in Nat /\ \A i \in 1..Len(s) : s[i] \in Seq(S)
  OBVIOUS
<1>1. CASE Len(s) = 0
  <2>1. s = <<>>
    BY <1>1
  <2> QED
    BY <1>1, <2>1 DEF Collects, Transcripts!FlattenSeq
<1>2. CASE Len(s) # 0
  <2> DEFINE flatten == CHOOSE h : h = [i \in 1..Len(s) |-> IF i = 1 THEN s[i] ELSE h[i - 1] \o s[i]]
  <2>1. Transcripts!FlattenSeq(s) = flatten[Len(s)]
    BY <1>2 DEF Transcripts!FlattenSeq
  <2> DEFINE g == [i \in 1..Len(s) |-> f[i]]
  <2>2. ASSUME NEW i \in 1..Len(s) PROVE g[i] = IF i = 1 THEN s[i] ELSE g[i - 1] \o s[i]
    <3>1. f[i] = f[i - 1] \o s[i]
      BY DEF Collects
    <3>2. CASE i = 1
      <4>1. f[i - 1] = <<>> /\ s[i] \in Seq(S)
        BY <1>0, <3>2 DEF Collects
      <4>2. <<>> \o s[i] = s[i]
        BY <4>1, ConcatEmptySeq
      <4> QED
        BY <3>1, <3>2, <4>1, <4>2
    <3>3. CASE i # 1
      <4>1. i - 1 \in 1..Len(s)
        BY <3>3, <1>0
      <4> QED
        BY <3>1, <3>3, <4>1
    <3> QED
      BY <3>2, <3>3
  <2>3. g = [i \in 1..Len(s) |-> IF i = 1 THEN s[i] ELSE g[i - 1] \o s[i]]
    BY <2>2
  <2> HIDE DEF g
  <2>4. flatten = [i \in 1..Len(s) |-> IF i = 1 THEN s[i] ELSE flatten[i - 1] \o s[i]]
    BY <2>3
  <2> HIDE DEF flatten
  <2> DEFINE T == {k \in Nat : k >= 1 /\ k <= Len(s) => flatten[k] = f[k]}
  <2>5. 0 \in T
    OBVIOUS
  <2>6. ASSUME NEW k \in Nat, k \in T PROVE k + 1 \in T
    <3> SUFFICES ASSUME k + 1 <= Len(s) PROVE flatten[k + 1] = f[k + 1]
      OBVIOUS
    <3>1. k + 1 \in 1..Len(s) /\ (k + 1) - 1 = k
      BY <1>0
    <3>2. f[k + 1] = f[k] \o s[k + 1]
      BY <3>1 DEF Collects
    <3>3. CASE k = 0
      <4>1. flatten[1] = s[1] /\ s[1] \in Seq(S)
        BY <2>4, <3>1, <3>3, <1>0
      <4>2. <<>> \o s[1] = s[1]
        BY <4>1, ConcatEmptySeq
      <4>3. f[0] = <<>>
        BY DEF Collects
      <4> HIDE DEF T
      <4>4. f[1] = f[0] \o s[1] /\ k + 1 = 1
        <5>1. k + 1 = 1
          BY <3>3
        <5> QED
          BY <3>2, <3>3, <5>1
      <4> QED
        BY <4>1, <4>2, <4>3, <4>4
    <3>4. CASE k # 0
      <4>1. flatten[k + 1] = flatten[k] \o s[k + 1] /\ k >= 1 /\ k <= Len(s)
        <5>1. k + 1 # 1 /\ k >= 1 /\ k <= Len(s)
          BY <3>1, <3>4, <1>0
        <5>2. flatten[k + 1] = flatten[(k + 1) - 1] \o s[k + 1]
          BY <2>4, <3>1, <5>1
        <5> QED
          BY <3>1, <5>1, <5>2
      <4> QED
        BY <2>6, <3>2, <4>1
    <3> QED
      BY <3>3, <3>4
  <2>7. Nat \subseteq T
    <3> HIDE DEF T
    <3> QED
      BY <2>5, <2>6, JoinFold!Induction
  <2>8. flatten[Len(s)] = f[Len(s)]
    BY <2>7, <1>0, <1>2
  <2> QED
    BY <2>1, <2>8
<1> QED
  BY <1>1, <1>2

(* What a sequence lists, and a concatenation of two.                      *)
Lists(s, x) == \E j \in 1..Len(s) : s[j] = x
LEMMA ConcatLists ==
  ASSUME NEW S, NEW a \in Seq(S), NEW b \in Seq(S), NEW x
  PROVE  Lists(a \o b, x) <=> Lists(a, x) \/ Lists(b, x)
<1>1. PICK l \in Nat, m \in Nat : l = Len(a) /\ m = Len(b)
  OBVIOUS
<1>2. PICK c : c = a \o b
  OBVIOUS
<1>3. Len(c) = l + m /\ \A j \in 1..(l + m) : c[j] = IF j <= l THEN a[j] ELSE b[j - l]
  BY <1>1, <1>2, ConcatProperties
<1>4. ASSUME NEW j \in 1..Len(c), c[j] = x PROVE Lists(a, x) \/ Lists(b, x)
  <2>1. CASE j <= l
    BY <1>1, <1>3, <1>4, <2>1 DEF Lists
  <2>2. CASE j > l
    <3>1. j - l \in 1..m /\ b[j - l] = x
      BY <1>3, <1>4, <2>2
    <3> QED
      BY <1>1, <3>1 DEF Lists
  <2> QED
    BY <2>1, <2>2, <1>3
<1>5. ASSUME NEW k \in 1..l, a[k] = x PROVE Lists(c, x)
  <2>1. k \in 1..(l + m) /\ c[k] = x
    BY <1>3, <1>5
  <2> QED
    BY <1>3, <2>1 DEF Lists
<1>6. ASSUME NEW k \in 1..m, b[k] = x PROVE Lists(c, x)
  <2>1. k + l \in 1..(l + m) /\ ~(k + l <= l) /\ (k + l) - l = k
    OBVIOUS
  <2>2. c[k + l] = x
    BY <1>3, <1>6, <2>1
  <2> QED
    BY <1>3, <2>1, <2>2 DEF Lists
<1> QED
  BY <1>1, <1>2, <1>4, <1>5, <1>6 DEF Lists

(* FlattenSeq lists what one of the sequences lists.                       *)
LEMMA FlatteningLists ==
  ASSUME NEW S, NEW s \in Seq(Seq(S))
  PROVE  /\ Transcripts!FlattenSeq(s) \in Seq(S)
         /\ \A x : Lists(Transcripts!FlattenSeq(s), x) <=> \E q : Lists(s, q) /\ Lists(q, x)
<1>1. PICK f \in [0..Len(s) -> Seq(S)] : Collects(f, s)
  BY FlatteningExists
<1>2. Transcripts!FlattenSeq(s) = f[Len(s)]
  BY <1>1, FlatteningIs
<1>3. Len(s) \in Nat /\ \A i \in 1..Len(s) : s[i] \in Seq(S)
  OBVIOUS
<1> DEFINE P(n) == \A x : Lists(f[n], x) <=> \E i \in 1..n : Lists(s[i], x)
           T == {n \in Nat : n <= Len(s) => P(n)}
<1>4. P(0)
  BY <1>1 DEF Collects, Lists
<1>5. ASSUME NEW n \in Nat, P(n), n + 1 <= Len(s) PROVE P(n + 1)
  <2>1. n + 1 \in 1..Len(s) /\ (n + 1) - 1 = n /\ n \in 0..Len(s)
    <3> HIDE DEF P
    <3> QED
      BY <1>3, <1>5
  <2>2. f[n] \in Seq(S) /\ s[n + 1] \in Seq(S)
    BY <1>3, <2>1
  <2>3. f[n + 1] = f[n] \o s[n + 1]
    BY <1>1, <2>1 DEF Collects
  <2>4. \A x : Lists(f[n + 1], x) <=> Lists(f[n], x) \/ Lists(s[n + 1], x)
    BY <2>2, <2>3, ConcatLists
  <2>5. \A i : i \in 1..(n + 1) <=> i \in 1..n \/ i = n + 1
    OBVIOUS
  <2> QED
    BY <1>5, <2>4, <2>5
<1> HIDE DEF P
<1>6. 0 \in T /\ \A n \in Nat : n \in T => n + 1 \in T
  BY <1>3, <1>4, <1>5
<1>7. Nat \subseteq T
  <2> HIDE DEF T
  <2> QED
    BY <1>6, JoinFold!Induction
<1>8. P(Len(s))
  BY <1>3, <1>7
<1>9. f[Len(s)] \in Seq(S)
  BY <1>3
<1>10. \A x : Lists(f[Len(s)], x) <=> \E i \in 1..Len(s) : Lists(s[i], x)
  BY <1>8 DEF P
<1>11. \A x : (\E q : Lists(s, q) /\ Lists(q, x)) <=> \E i \in 1..Len(s) : Lists(s[i], x)
  BY DEF Lists
<1> QED
  BY <1>2, <1>9, <1>10, <1>11

(* The transcripts of the session map, and the round robin over it.        *)
LEMMA FilesAre == \A f : f \in TFiles <=> \E q : Lists(Tracked, q) /\ Lists(q, f)
<1>1. Tracked \in Seq(Seq(TFiles))
  BY SweepConstants
<1>2. PICK s : s = Transcripts!FlattenSeq(Tracked)
  OBVIOUS
<1>3. \A f : f \in TFiles <=> \E j \in DOMAIN s : s[j] = f
  BY <1>2 DEF TFiles, Transcripts!Files, Transcripts!ToSet
<1> HIDE DEF TFiles
<1>4. s \in Seq(TFiles) /\ \A f : Lists(s, f) <=> \E q : Lists(Tracked, q) /\ Lists(q, f)
  BY <1>1, <1>2, FlatteningLists
<1>5. DOMAIN s = 1..Len(s)
  BY <1>4
<1> QED
  BY <1>3, <1>4, <1>5 DEF Lists

(* The round robin comes to every transcript.                              *)
LEMMA OrderIs ==
  ASSUME NEW t \in 0..Len(Tracked) - 1
  PROVE  /\ Transcripts!Order(t) \in Seq(TFiles)
         /\ \A f \in TFiles : Lists(Transcripts!Order(t), f)
<1>0. PICK n : n = Len(Tracked)
  OBVIOUS
<1> DEFINE a == SubSeq(Tracked, t + 1, n)
           b == SubSeq(Tracked, 1, t)
           Q == Seq(TFiles)
<1>1. Tracked \in Seq(Q) /\ n \in Nat \ {0} /\ t \in Nat /\ t + 1 <= n
  BY <1>0, SweepConstants
<1>2. \A i \in 1..n : Tracked[i] \in Q
  BY <1>0, <1>1
<1>3. Transcripts!Order(t) = Transcripts!FlattenSeq(a \o b)
  BY <1>0 DEF Transcripts!Order
<1> HIDE DEF Q
<1>4. a \in Seq(Q) /\ Len(a) = n - t /\ \A i \in 1..(n - t) : a[i] = Tracked[t + i]
  <2>1. \A i \in (t + 1)..n : Tracked[i] \in Q
    BY <1>1, <1>2
  <2>2. a \in Seq(Q) /\ Len(a) = n - (t + 1) + 1 /\ \A i \in 1..n - (t + 1) + 1 : a[i] = Tracked[(t + 1) + i - 1]
    BY <1>1, <2>1, SubSeqProperties
  <2>3. n - (t + 1) + 1 = n - t /\ \A i \in 1..(n - t) : (t + 1) + i - 1 = t + i
    BY <1>1
  <2> HIDE DEF a
  <2> QED
    BY <2>2, <2>3
<1>5. b \in Seq(Q) /\ Len(b) = t /\ \A i \in 1..t : b[i] = Tracked[i]
  <2>1. \A i \in 1..t : Tracked[i] \in Q
    BY <1>1, <1>2
  <2> QED
    BY <1>1, <2>1, SubSeqProperties
<1> HIDE DEF a, b
<1>6. ASSUME NEW q, Lists(Tracked, q) PROVE Lists(a \o b, q)
  <2>1. PICK i \in 1..n : Tracked[i] = q
    BY <1>0, <1>6 DEF Lists
  <2>2. CASE i <= t
    <3>1. i \in 1..t
      BY <1>1, <2>2
    <3>2. Lists(b, q)
      BY <1>5, <2>1, <3>1 DEF Lists
    <3> QED
      BY <1>4, <1>5, <3>2, ConcatLists
  <2>3. CASE i > t
    <3>1. i - t \in 1..(n - t) /\ t + (i - t) = i
      BY <1>1, <2>3
    <3>2. a[i - t] = q
      BY <1>4, <2>1, <3>1
    <3>3. Lists(a, q)
      BY <1>4, <3>1, <3>2 DEF Lists
    <3> QED
      BY <1>4, <1>5, <3>3, ConcatLists
  <2> QED
    BY <2>2, <2>3, <1>1
<1>7. a \o b \in Seq(Seq(TFiles))
  BY <1>4, <1>5, ConcatProperties DEF Q
<1>8. PICK s \in Seq(Seq(TFiles)) : s = a \o b
  BY <1>7
<1>9. \A f : Lists(Transcripts!Order(t), f) <=> \E q : Lists(s, q) /\ Lists(q, f)
  BY <1>3, <1>8, FlatteningLists
<1>10. Transcripts!Order(t) \in Seq(TFiles)
  BY <1>3, <1>8, FlatteningLists
<1>11. ASSUME NEW f \in TFiles PROVE Lists(Transcripts!Order(t), f)
  <2>1. PICK q : Lists(Tracked, q) /\ Lists(q, f)
    BY FilesAre
  <2> QED
    BY <1>6, <1>8, <1>9, <2>1
<1> QED
  BY <1>10, <1>11

-----------------------------------------------------------------------------
(* One file's transcript: where its newlines are, the byte after which the *)
(* line of the i-th begins, and the lines that count.                      *)
Breaks(c, n) == {i \in 1..n : c[i] = "n"}
LineStart(c, i) == Transcripts!Max(Breaks(c, i - 1) \cup {0})
Counted(c, g, n) == {i \in Breaks(c, n) : LineStart(c, i) >= g /\ i - 1 - LineStart(c, i) <= MaxLine}
Rank(W, i) == Cardinality({j \in W : j <= i})
Listing(c, g, n, lines) ==
  LET W == Counted(c, g, n) IN
  Len(lines) = Cardinality(W) /\ \A i \in W : lines[Rank(W, i)] = i - 1 - LineStart(c, i)

(* A line begins where the last newline was, and nowhere later.            *)
LEMMA LineStartMoves ==
  ASSUME NEW c, NEW n \in Nat
  PROVE  /\ LineStart(c, 1) = 0 /\ LineStart(c, n + 1) \in 0..n
         /\ LineStart(c, (n + 1) + 1) = IF c[n + 1] = "n" THEN n + 1 ELSE LineStart(c, n + 1)
<1> DEFINE T == {k \in Nat : LineStart(c, k + 1) \in 0..k}
<1>1. LineStart(c, 1) = 0
  <2>1. Breaks(c, 1 - 1) = {}
    BY DEF Breaks
  <2> QED
    BY <2>1 DEF LineStart, Transcripts!Max
<1>2. ASSUME NEW k \in Nat PROVE LineStart(c, (k + 1) + 1) = IF c[k + 1] = "n" THEN k + 1 ELSE LineStart(c, k + 1)
  <2>0. ((k + 1) + 1) - 1 = k + 1 /\ (k + 1) - 1 = k
    OBVIOUS
  <2>1. CASE c[k + 1] = "n"
    <3>1. k + 1 \in Breaks(c, k + 1) /\ \A j \in Breaks(c, k + 1) : j \in Nat /\ j <= k + 1
      BY <2>1 DEF Breaks
    <3>2. PICK B : B = Breaks(c, k + 1) \cup {0}
      OBVIOUS
    <3>3. k + 1 \in B /\ \A j \in B : j \in Nat /\ k + 1 >= j
      BY <3>1, <3>2
    <3>4. \A x \in B : (\A y \in B : x >= y) => x = k + 1
      <4> TAKE x \in B
      <4> HAVE \A y \in B : x >= y
      <4>1. x >= k + 1 /\ k + 1 >= x /\ x \in Nat
        BY <3>3
      <4> QED
        BY <4>1
    <3>5. Transcripts!Max(B) = k + 1
      BY <3>3, <3>4 DEF Transcripts!Max
    <3> QED
      BY <2>0, <2>1, <3>2, <3>5 DEF LineStart
  <2>2. CASE c[k + 1] # "n"
    <3>1. Breaks(c, k + 1) = Breaks(c, k)
      BY <2>2 DEF Breaks
    <3> QED
      BY <2>0, <2>2, <3>1 DEF LineStart
  <2> QED
    BY <2>1, <2>2
<1>3. 0 \in T
  BY <1>1
<1>4. ASSUME NEW k \in Nat, k \in T PROVE k + 1 \in T
  BY <1>2, <1>4
<1>5. Nat \subseteq T
  <2> HIDE DEF T
  <2> QED
    BY <1>3, <1>4, JoinFold!Induction
<1> QED
  BY <1>1, <1>2, <1>5
(* The lines that count, one byte further.                                 *)
Counts(c, g, n) == c[n] = "n" /\ LineStart(c, n) >= g /\ n - 1 - LineStart(c, n) <= MaxLine
LEMMA CountedGrows ==
  ASSUME NEW c, NEW g, NEW n \in Nat
  PROVE  /\ Counted(c, g, 0) = {}
         /\ Counted(c, g, n + 1) = IF Counts(c, g, n + 1) THEN Counted(c, g, n) \cup {n + 1} ELSE Counted(c, g, n)
         /\ Counted(c, g, n) \subseteq 1..n
<1>1. \A i : i \in 1..(n + 1) <=> i \in 1..n \/ i = n + 1
  OBVIOUS
<1>2. \A i : i \in Breaks(c, n + 1) <=> i \in Breaks(c, n) \/ (i = n + 1 /\ c[n + 1] = "n")
  BY <1>1 DEF Breaks
<1>3. \A i : i \in Counted(c, g, n + 1) <=> i \in Counted(c, g, n) \/ (i = n + 1 /\ Counts(c, g, n + 1))
  BY <1>2 DEF Counted, Counts
<1>4. Counted(c, g, n + 1) = IF Counts(c, g, n + 1) THEN Counted(c, g, n) \cup {n + 1} ELSE Counted(c, g, n)
  BY <1>3
<1>5. Counted(c, g, 0) = {} /\ Counted(c, g, n) \subseteq 1..n
  BY DEF Counted, Breaks
<1> QED
  BY <1>4, <1>5

(* A newline more leaves the ranks of those before it.                     *)
LEMMA RankIs ==
  ASSUME NEW n \in Nat, NEW W \in SUBSET (1..n)
  PROVE  /\ Cardinality(W) \in Nat
         /\ \A i \in W : Rank(W, i) \in 1..Cardinality(W)
         /\ Cardinality(W \cup {n + 1}) = Cardinality(W) + 1
         /\ Rank(W \cup {n + 1}, n + 1) = Cardinality(W) + 1
         /\ \A i \in W : Rank(W \cup {n + 1}, i) = Rank(W, i)
<1>1. IsFiniteSet(W) /\ Cardinality(W) \in Nat
  <2>1. IsFiniteSet(1..n)
    BY FS_Interval
  <2>2. IsFiniteSet(W)
    BY <2>1, FS_Subset
  <2> QED
    BY <2>2, FS_CardinalityType
<1>2. ASSUME NEW i \in W PROVE Rank(W, i) \in 1..Cardinality(W)
  <2> DEFINE V == {j \in W : j <= i}
  <2>1. V \subseteq W /\ i \in V
    OBVIOUS
  <2>2. IsFiniteSet(V) /\ Cardinality(V) \in Nat /\ Cardinality(V) <= Cardinality(W)
    BY <1>1, <2>1, FS_Subset, FS_CardinalityType
  <2>3. Cardinality(V) # 0
    BY <2>1, <2>2, FS_EmptySet
  <2> QED
    BY <1>1, <2>2, <2>3 DEF Rank
<1>3. n + 1 \notin W
  OBVIOUS
<1>4. Cardinality(W \cup {n + 1}) = Cardinality(W) + 1
  BY <1>1, <1>3, FS_AddElement
<1>5. {j \in W \cup {n + 1} : j <= n + 1} = W \cup {n + 1}
  <2>1. \A j \in W \cup {n + 1} : j <= n + 1
    OBVIOUS
  <2> QED
    BY <2>1
<1>6. \A i \in W : {j \in W \cup {n + 1} : j <= i} = {j \in W : j <= i}
  OBVIOUS
<1> QED
  BY <1>1, <1>2, <1>4, <1>5, <1>6 DEF Rank

(* So the line that it ends is one more in the list.                       *)
LEMMA ListingGrows ==
  ASSUME NEW c, NEW g, NEW n \in Nat, NEW lines \in Seq(Nat), Listing(c, g, n, lines)
  PROVE  IF Counts(c, g, n + 1) THEN Listing(c, g, n + 1, Append(lines, n - LineStart(c, n + 1)))
                                ELSE Listing(c, g, n + 1, lines)
<1>1. PICK W \in SUBSET (1..n) : W = Counted(c, g, n)
  BY CountedGrows
<1>2. PICK l \in Nat : l = Len(lines) /\ l = Cardinality(W) /\ \A i \in W : lines[Rank(W, i)] = i - 1 - LineStart(c, i)
  BY <1>1 DEF Listing
<1>3. CASE Counts(c, g, n + 1)
  <2>1. PICK V : V = W \cup {n + 1}
    OBVIOUS
  <2>2. PICK d : d = n - LineStart(c, n + 1)
    OBVIOUS
  <2>3. PICK m : m = Append(lines, d)
    OBVIOUS
  <2>4. Len(m) = l + 1 /\ m[l + 1] = d /\ \A i \in 1..l : m[i] = lines[i]
    <3>1. d \in Int
      BY <2>2, LineStartMoves
    <3>2. lines \in Seq(Int) /\ Len(lines) = l
      BY <1>2
    <3> QED
      BY <2>3, <3>1, <3>2, AppendProperties
  <2>5. ASSUME NEW i \in V PROVE m[Rank(V, i)] = i - 1 - LineStart(c, i)
    <3>1. CASE i = n + 1
      <4>1. Rank(V, i) = l + 1
        BY <1>2, <2>1, <3>1, RankIs
      <4>2. (n + 1) - 1 = n
        OBVIOUS
      <4> QED
        BY <2>2, <2>4, <3>1, <4>1, <4>2
    <3>2. CASE i \in W
      <4>1. Rank(V, i) = Rank(W, i) /\ Rank(W, i) \in 1..l
        BY <1>2, <2>1, <3>2, RankIs
      <4> QED
        BY <1>2, <2>4, <3>2, <4>1
    <3> QED
      BY <2>1, <3>1, <3>2
  <2>6. Counted(c, g, n + 1) = V
    BY <1>1, <1>3, <2>1, CountedGrows
  <2>7. Cardinality(V) = l + 1
    BY <1>2, <2>1, RankIs
  <2>8. Listing(c, g, n + 1, m)
    BY <2>4, <2>5, <2>6, <2>7 DEF Listing
  <2> QED
    BY <1>3, <2>2, <2>3, <2>8
<1>4. CASE ~Counts(c, g, n + 1)
  <2>1. Counted(c, g, n + 1) = Counted(c, g, n)
    BY <1>4, CountedGrows
  <2> QED
    BY <1>4, <2>1 DEF Listing
<1> QED
  BY <1>3, <1>4
-----------------------------------------------------------------------------
(* splitLines, byte by byte: what a line that goes on has come to, after n *)
(* bytes of c of which those from g on count.                              *)
Bytes == {"c", "n"}
Readers == [offset : Int, carry : Nat, resyncing : BOOLEAN, lines : Seq(Nat)]
Mid(c, g, n, r) ==
  /\ n + 1 >= g
  /\ r.resyncing = TRUE => r.carry = 0 /\ (LineStart(c, n + 1) < g \/ n - LineStart(c, n + 1) > MaxLine)
  /\ r.resyncing = FALSE => LineStart(c, n + 1) >= g /\ r.carry = n - LineStart(c, n + 1)
  /\ Listing(c, g, n, r.lines)

Skipped(s, b, r) == r.carry = s.carry /\ r.lines = s.lines /\ (b = "n" => r.resyncing = FALSE) /\ (b # "n" => r.resyncing = TRUE)
Longer(s, r) == r.resyncing = FALSE /\ r.carry = s.carry + 1 /\ r.lines = s.lines
Ended(s, r) ==
  /\ r.resyncing = FALSE /\ r.carry = 0
  /\ s.carry > MaxLine => r.lines = s.lines
  /\ s.carry <= MaxLine => r.lines = Append(s.lines, s.carry)

(* What a byte does to the reader.                                         *)
LEMMA ByteIs ==
  ASSUME NEW s \in Readers, NEW b \in Bytes
  PROVE  LET r == Transcripts!Byte(s, b) IN
         /\ r \in Readers /\ r.offset = s.offset
         /\ \/ s.resyncing = TRUE /\ Skipped(s, b, r)
            \/ s.resyncing = FALSE /\ b # "n" /\ Longer(s, r)
            \/ s.resyncing = FALSE /\ b = "n" /\ Ended(s, r)
<1> DEFINE r == Transcripts!Byte(s, b)
<1>0. s.carry \in Nat /\ s.lines \in Seq(Nat) /\ s.offset \in Int /\ s.resyncing \in BOOLEAN /\ MaxLine \in Nat
  BY SweepConstants DEF Readers
<1>1. CASE s.resyncing = TRUE /\ b = "n"
  <2>1. r = [s EXCEPT !.resyncing = FALSE]
    BY <1>1 DEF Transcripts!Byte
  <2> HIDE DEF r
  <2>2. r \in Readers /\ r.offset = s.offset /\ r.carry = s.carry /\ r.lines = s.lines /\ r.resyncing = FALSE
    BY <2>1 DEF Readers
  <2> QED
    BY <1>1, <2>2 DEF Skipped, r
<1>2. CASE s.resyncing = TRUE /\ b # "n"
  <2>1. r = s
    BY <1>2 DEF Transcripts!Byte
  <2> HIDE DEF r
  <2> QED
    BY <1>2, <2>1 DEF Skipped, r
<1>3. CASE s.resyncing = FALSE /\ b = "n"
  <2>1. PICK l : l = IF s.carry > MaxLine THEN s.lines ELSE Append(s.lines, s.carry)
    OBVIOUS
  <2>2. r = [s EXCEPT !.carry = 0, !.lines = l]
    BY <1>3, <2>1 DEF Transcripts!Byte
  <2>3. l \in Seq(Nat) /\ 0 \in Nat
    BY <1>0, <2>1, AppendProperties
  <2> HIDE DEF r
  <2>4. r \in Readers /\ r.offset = s.offset /\ r.carry = 0 /\ r.lines = l /\ r.resyncing = s.resyncing
    BY <2>2, <2>3 DEF Readers
  <2>5. /\ s.carry > MaxLine => l = s.lines
        /\ s.carry <= MaxLine => l = Append(s.lines, s.carry)
    BY <1>0, <2>1
  <2>6. Ended(s, r)
    BY <1>3, <2>4, <2>5 DEF Ended
  <2> QED
    BY <1>3, <2>4, <2>6 DEF r
<1>4. CASE s.resyncing = FALSE /\ b # "n"
  <2>1. PICK k \in Nat : k = s.carry + 1
    BY <1>0
  <2>2. r = [s EXCEPT !.carry = k]
    BY <1>4, <2>1 DEF Transcripts!Byte
  <2> HIDE DEF r
  <2>3. r \in Readers /\ r.offset = s.offset /\ r.carry = k /\ r.lines = s.lines /\ r.resyncing = s.resyncing
    BY <2>2 DEF Readers
  <2>4. Longer(s, r)
    BY <1>4, <2>1, <2>3 DEF Longer
  <2> QED
    BY <1>4, <2>3, <2>4 DEF r
<1> QED
  BY <1>0, <1>1, <1>2, <1>3, <1>4

(* A byte more of the transcript is read.                                  *)
LEMMA ByteReads ==
  ASSUME NEW c, NEW g \in Nat, NEW n \in Nat, c[n + 1] \in Bytes,
         NEW s \in Readers, Mid(c, g, n, s)
  PROVE  Mid(c, g, n + 1, Transcripts!Byte(s, c[n + 1]))
<1>1. PICK r : r = Transcripts!Byte(s, c[n + 1])
  OBVIOUS
<1>2. PICK b \in 0..n : b = LineStart(c, n + 1)
  BY LineStartMoves
<1>3. PICK e : e = LineStart(c, (n + 1) + 1) /\ e = IF c[n + 1] = "n" THEN n + 1 ELSE b
  BY <1>2, LineStartMoves
<1>4. MaxLine \in Nat /\ s.carry \in Nat /\ s.lines \in Seq(Nat) /\ s.resyncing \in BOOLEAN
  BY SweepConstants DEF Readers
<1>5. n + 1 >= g /\ Listing(c, g, n, s.lines)
  BY DEF Mid
<1>6. Counts(c, g, n + 1) <=> c[n + 1] = "n" /\ b >= g /\ n - b <= MaxLine
  <2>1. (n + 1) - 1 = n
    OBVIOUS
  <2> QED
    BY <1>2, <2>1 DEF Counts
<1>7. IF Counts(c, g, n + 1) THEN Listing(c, g, n + 1, Append(s.lines, n - b)) ELSE Listing(c, g, n + 1, s.lines)
  BY <1>2, <1>4, <1>5, ListingGrows
<1>8. CASE s.resyncing = TRUE
  <2>1. s.carry = 0 /\ (b < g \/ n - b > MaxLine)
    BY <1>2, <1>8 DEF Mid
  <2>2. Skipped(s, c[n + 1], r)
    BY <1>1, <1>8, ByteIs
  <2>3. ~Counts(c, g, n + 1)
    BY <1>4, <1>6, <2>1
  <2>4. Listing(c, g, n + 1, r.lines)
    BY <1>7, <2>2, <2>3 DEF Skipped
  <2>5. c[n + 1] # "n" => e < g \/ (n + 1) - e > MaxLine
    BY <1>3, <1>4, <2>1
  <2>6. c[n + 1] = "n" => e >= g /\ 0 = (n + 1) - e
    BY <1>3, <1>5
  <2> QED
    BY <1>1, <1>3, <1>5, <2>1, <2>2, <2>4, <2>5, <2>6 DEF Mid, Skipped
<1>9. CASE s.resyncing = FALSE
  <2>1. b >= g /\ s.carry = n - b
    BY <1>2, <1>9 DEF Mid
  <2>3. CASE c[n + 1] = "n"
    <3>1. Ended(s, r)
      BY <1>1, <1>9, <2>3, ByteIs
    <3>2. Listing(c, g, n + 1, r.lines)
      <4>1. CASE s.carry > MaxLine
        <5>1. ~Counts(c, g, n + 1) /\ r.lines = s.lines
          BY <1>4, <1>6, <2>1, <3>1, <4>1 DEF Ended
        <5> QED
          BY <1>7, <5>1
      <4>2. CASE s.carry <= MaxLine
        <5>1. Counts(c, g, n + 1) /\ r.lines = Append(s.lines, n - b)
          BY <1>6, <2>1, <2>3, <3>1, <4>2 DEF Ended
        <5> QED
          BY <1>7, <5>1
      <4> QED
        BY <1>4, <4>1, <4>2
    <3>3. e >= g /\ 0 = (n + 1) - e
      BY <1>3, <1>5, <2>3
    <3> QED
      BY <1>1, <1>3, <1>5, <3>1, <3>2, <3>3 DEF Mid, Ended
  <2>4. CASE c[n + 1] # "n"
    <3>1. Longer(s, r)
      BY <1>1, <1>9, <2>4, ByteIs
    <3>2. Listing(c, g, n + 1, r.lines)
      BY <1>6, <1>7, <2>4, <3>1 DEF Longer
    <3>3. e >= g /\ s.carry + 1 = (n + 1) - e
      BY <1>3, <2>1, <2>4
    <3> QED
      BY <1>1, <1>3, <1>5, <3>1, <3>2, <3>3 DEF Mid, Longer
  <2> QED
    BY <2>3, <2>4
<1> QED
  BY <1>4, <1>8, <1>9
(* A chunk of it, from byte n + 1 to byte n + m.                           *)
ByteStep(s, b) == Transcripts!Byte(s, b)
ByteFold == INSTANCE FoldProofs WITH Op <- LAMBDA c, x, y : ByteStep(x, y)
(* splitLines is a fold of it.                                             *)
LEMMA BytesAreAFold == \A s, chunk : Transcripts!FoldLeft(Transcripts!Byte, s, chunk) = ByteFold!Folded(0, s, chunk)
BY Zenon DEF ByteStep, ByteFold!Folded, Transcripts!FoldLeft, Transcripts!MapThenFoldSet, Transcripts!Max,
             ByteFold!MapThenFoldSet, ByteFold!Greatest

Reads(c, g, n, r) == r \in Readers /\ Mid(c, g, n, r)
(* A chunk is read.                                                        *)
LEMMA ChunkReads ==
  ASSUME NEW c \in Seq(Bytes), NEW g \in Nat, NEW n \in Nat, NEW m \in Nat, n + m <= Len(c),
         NEW s \in Readers, Mid(c, g, n, s)
  PROVE  LET r == Transcripts!SplitLines(s, SubSeq(c, n + 1, n + m)) IN Reads(c, g, n + m, r)
<1>1. PICK chunk : chunk = SubSeq(c, n + 1, n + m)
  OBVIOUS
<1>2. chunk \in Seq(Bytes) /\ Len(chunk) = m /\ \A k \in 1..m : chunk[k] = c[n + k]
  <2>1. Len(c) \in Nat /\ \A i \in (n + 1)..(n + m) : c[i] \in Bytes
    OBVIOUS
  <2>2. /\ chunk \in Seq(Bytes) /\ (n + 1 <= n + m + 1 => Len(chunk) = n + m - (n + 1) + 1)
        /\ \A k \in 1..(n + m - (n + 1) + 1) : chunk[k] = c[(n + 1) + k - 1]
    BY <1>1, <2>1, SubSeqProperties
  <2>3. n + m - (n + 1) + 1 = m /\ \A k \in 1..m : (n + 1) + k - 1 = n + k
    OBVIOUS
  <2> QED
    BY <2>2, <2>3
<1>3. ByteFold!Keeps(0, Readers, Bytes)
  BY ByteIs DEF ByteFold!Keeps, ByteStep
<1>4. PICK f \in [0..m -> Readers] : ByteFold!Accumulates(0, f, s, chunk) /\ ByteFold!Folded(0, s, chunk) = f[m]
  <2>1. PICK f \in [0..Len(chunk) -> Readers] :
               ByteFold!Accumulates(0, f, s, chunk) /\ ByteFold!Folded(0, s, chunk) = f[Len(chunk)]
    <3>1. s \in Readers /\ chunk \in Seq(Bytes)
      BY <1>2
    <3> QED
      BY <1>3, <3>1, ByteFold!FoldRuns
  <2>2. Len(chunk) = m
    BY <1>2
  <2> QED
    BY <2>1, <2>2
<1>5. f[0] = s /\ \A k \in 1..m : f[k] = Transcripts!Byte(f[k - 1], chunk[k])
  BY <1>2, <1>4 DEF ByteFold!Accumulates, ByteStep
<1> DEFINE P(k) == Mid(c, g, n + k, f[k])
           T == {k \in Nat : k <= m => P(k)}
<1>6. P(0)
  <2>1. n + 0 = n
    OBVIOUS
  <2> QED
    BY <1>5, <2>1
<1>7. ASSUME NEW k \in Nat, P(k), k + 1 <= m PROVE P(k + 1)
  <2>1. k + 1 \in 1..m /\ (k + 1) - 1 = k /\ k \in 0..m /\ n + k \in Nat /\ (n + k) + 1 = n + (k + 1)
    <3> HIDE DEF P
    <3> QED
      BY <1>7
  <2>2. f[k] \in Readers /\ f[k + 1] = Transcripts!Byte(f[k], c[n + (k + 1)])
    BY <1>2, <1>5, <2>1
  <2>3. c[n + (k + 1)] \in Bytes
    <3>1. Len(c) \in Nat /\ n + (k + 1) \in 1..Len(c)
      BY <2>1
    <3> QED
      BY <3>1
  <2>4. Mid(c, g, (n + k) + 1, Transcripts!Byte(f[k], c[(n + k) + 1]))
    BY <1>7, <2>1, <2>2, <2>3, ByteReads
  <2> QED
    BY <2>1, <2>2, <2>4
<1> HIDE DEF P
<1>8. 0 \in T /\ \A k \in Nat : k \in T => k + 1 \in T
  BY <1>6, <1>7
<1>9. Nat \subseteq T
  <2> HIDE DEF T
  <2> QED
    BY <1>8, ByteFold!Induction
<1>10. PICK p \in Readers : p = f[m] /\ Mid(c, g, n + m, p)
  BY <1>4, <1>9 DEF P
<1>11. p = Transcripts!FoldLeft(Transcripts!Byte, s, chunk)
  BY <1>4, <1>10, BytesAreAFold
<1>12. PICK r : r = Transcripts!SplitLines(s, chunk)
  OBVIOUS
<1>13. r = IF p.resyncing \/ p.carry > MaxLine THEN [p EXCEPT !.carry = 0, !.resyncing = TRUE] ELSE p
  BY <1>11, <1>12 DEF Transcripts!SplitLines
<1>14. MaxLine \in Nat /\ p.carry \in Nat /\ p.resyncing \in BOOLEAN /\ p.offset \in Int /\ p.lines \in Seq(Nat)
  BY <1>10, SweepConstants DEF Readers
<1>15. CASE p.resyncing = FALSE /\ p.carry <= MaxLine
  <2>1. r = p
    BY <1>13, <1>14, <1>15
  <2> QED
    BY <1>1, <1>10, <1>12, <1>15, <2>1 DEF Reads
<1>16. CASE p.resyncing = TRUE \/ p.carry > MaxLine
  <2>1. r = [p EXCEPT !.carry = 0, !.resyncing = TRUE]
    BY <1>13, <1>14, <1>16
  <2>2. r \in Readers /\ r.carry = 0 /\ r.resyncing = TRUE /\ r.lines = p.lines
    <3>1. 0 \in Nat /\ TRUE \in BOOLEAN
      OBVIOUS
    <3> QED
      BY <2>1, <3>1 DEF Readers
  <2>3. LineStart(c, (n + m) + 1) < g \/ (n + m) - LineStart(c, (n + m) + 1) > MaxLine
    BY <1>10, <1>14, <1>16 DEF Mid
  <2>4. Mid(c, g, n + m, r)
    BY <1>10, <2>2, <2>3 DEF Mid
  <2> QED
    BY <1>1, <1>12, <1>14, <2>2, <2>4 DEF Reads
<1>17. (p.resyncing = FALSE /\ p.carry <= MaxLine) \/ p.resyncing = TRUE \/ p.carry > MaxLine
  BY <1>14
<1> QED
  BY <1>15, <1>16, <1>17
(* What was read of a transcript does not depend on what follows.          *)
Same(c, d, n) == \A i \in 1..n : c[i] = d[i]
LEMMA MidOfTheSame ==
  ASSUME NEW c, NEW d, NEW n \in Nat, Same(c, d, n), NEW g, NEW r, Mid(c, g, n, r)
  PROVE  Mid(d, g, n, r)
<1>1. \A i \in 0..n : Breaks(c, i) = Breaks(d, i)
  <2> TAKE i \in 0..n
  <2>1. \A j \in 1..i : j \in 1..n
    OBVIOUS
  <2> QED
    BY <2>1 DEF Breaks, Same
<1>2. \A i \in 1..(n + 1) : LineStart(c, i) = LineStart(d, i)
  <2> TAKE i \in 1..(n + 1)
  <2>1. i - 1 \in 0..n
    OBVIOUS
  <2> QED
    BY <1>1, <2>1 DEF LineStart
<1>3. Breaks(c, n) = Breaks(d, n) /\ Breaks(c, n) \subseteq 1..(n + 1) /\ n + 1 \in 1..(n + 1)
  BY <1>1 DEF Breaks
<1>4. Counted(c, g, n) = Counted(d, g, n) /\ Counted(c, g, n) \subseteq 1..(n + 1)
  BY <1>2, <1>3 DEF Counted
<1>5. \A lines : Listing(c, g, n, lines) => Listing(d, g, n, lines)
  BY <1>2, <1>4 DEF Listing
<1> QED
  BY <1>2, <1>3, <1>5 DEF Mid

-----------------------------------------------------------------------------
(* The reader of a transcript is where the file is, and has what Mid says, *)
(* unless the file was replaced: then it is beyond its end.                *)
Text(f) == IF content[f] = Transcripts!Missing THEN <<>> ELSE content[f]
FileIsRead(f) ==
  /\ state[f].offset >= -1
  /\ f \in swapped => state[f].offset > 0 /\ Len(Text(f)) < state[f].offset
  /\ f \notin swapped /\ state[f].offset >= 0 =>
       /\ from[f] \in Nat /\ state[f].offset <= Len(Text(f))
       /\ Mid(Text(f), from[f], state[f].offset, state[f])
SweepTypes ==
  /\ content \in [TFiles -> Seq(Bytes) \cup {Transcripts!Missing}]
  /\ state \in [TFiles -> Readers] /\ from \in [TFiles -> Int]
  /\ tick \in 0..Len(Tracked) - 1 /\ swapped \subseteq TFiles
SweepInv == SweepTypes /\ \A f \in TFiles : FileIsRead(f)

(* The bytes of a transcript.                                              *)
LEMMA TextIs ==
  ASSUME SweepTypes, NEW f \in TFiles
  PROVE  /\ Text(f) \in Seq(Bytes) /\ Transcripts!Size(f) = Len(Text(f)) /\ Len(Text(f)) \in Nat
         /\ content[f] # Transcripts!Missing => Text(f) = content[f]
<1>1. content[f] \in Seq(Bytes) \cup {Transcripts!Missing}
  BY DEF SweepTypes
<1>2. <<>> \in Seq(Bytes) /\ Len(<<>>) = 0
  OBVIOUS
<1>3. Text(f) \in Seq(Bytes)
  BY <1>1, <1>2 DEF Text
<1> QED
  BY <1>2, <1>3 DEF Text, Transcripts!Size

(* What a sweep opens: the file as it is, from the byte it is told.        *)
FromNext(f) ==
  IF Transcripts!Begins(f)
  THEN IF f \in Transcripts!Mains /\ Transcripts!Size(f) > TailBytes THEN Transcripts!Size(f) - TailBytes ELSE 0
  ELSE from[f]

(* A reader that begins has folded no line, and none counts yet.           *)
LEMMA NothingRead ==
  /\ Transcripts!NotRead \in Readers /\ Transcripts!NotRead.offset = -1 /\ Transcripts!NotRead.carry = 0
  /\ Transcripts!NotRead.resyncing = FALSE /\ Transcripts!NotRead.lines = <<>>
  /\ \A c : \A g \in Int : \A n \in Nat : n < g => Listing(c, g, n, <<>>)
  /\ \A c : Listing(c, 0, 0, <<>>)
<1>1. -1 \in Int /\ 0 \in Nat /\ <<>> \in Seq(Nat) /\ Len(<<>>) = 0 /\ Cardinality({}) = 0
  BY FS_EmptySet
<1>2. /\ Transcripts!NotRead \in Readers /\ Transcripts!NotRead.offset = -1 /\ Transcripts!NotRead.carry = 0
      /\ Transcripts!NotRead.resyncing = FALSE /\ Transcripts!NotRead.lines = <<>>
  BY <1>1 DEF Transcripts!NotRead, Readers
<1>3. ASSUME NEW c, NEW g, NEW n \in Nat, Counted(c, g, n) = {} PROVE Listing(c, g, n, <<>>)
  BY <1>1, <1>3 DEF Listing
<1>4. ASSUME NEW c, NEW g \in Int, NEW n \in Nat, n < g PROVE Counted(c, g, n) = {}
  <2> SUFFICES ASSUME NEW i \in 1..n, LineStart(c, i) >= g PROVE FALSE
    BY DEF Counted, Breaks
  <2>1. i - 1 \in Nat /\ (i - 1) + 1 = i
    OBVIOUS
  <2>2. LineStart(c, i) \in 0..(i - 1)
    BY <2>1, LineStartMoves
  <2> QED
    BY <1>4, <2>2
<1>5. \A c : Counted(c, 0, 0) = {}
  BY CountedGrows
<1> QED
  BY <1>2, <1>3, <1>4, <1>5
(* First sight: no line that counts begins before it.                      *)
LEMMA FirstSightIs ==
  ASSUME NEW f, NEW l \in Nat, NEW c, NEW s, s = Transcripts!FirstSight(f, l)
  PROVE  \E g \in Nat : /\ g = IF f \in Transcripts!Mains /\ l > TailBytes THEN l - TailBytes ELSE 0
                        /\ s \in Readers /\ s.offset \in 0..l /\ Mid(c, g, s.offset, s)
<1>1. TailBytes \in Nat
  BY SweepConstants
<1>2. CASE f \in Transcripts!Mains /\ l > TailBytes
  <2>1. PICK g \in Nat : g = l - TailBytes /\ g >= 1
    BY <1>1, <1>2
  <2>2. PICK n \in Nat : n = l - TailBytes - 1 /\ n + 1 = g /\ n < g /\ n \in 0..l
    BY <1>1, <1>2, <2>1
  <2>3. s = [Transcripts!NotRead EXCEPT !.offset = n, !.resyncing = TRUE]
    BY <1>2, <2>2 DEF Transcripts!FirstSight
  <2>4. s \in Readers /\ s.offset = n /\ s.resyncing = TRUE /\ s.carry = 0 /\ s.lines = <<>>
    <3>1. n \in Int /\ TRUE \in BOOLEAN
      OBVIOUS
    <3> QED
      BY <2>3, <3>1, NothingRead DEF Readers
  <2>5. LineStart(c, n + 1) < g
    BY <2>2, LineStartMoves
  <2>6. Listing(c, g, n, <<>>)
    BY <2>2, NothingRead
  <2>7. Mid(c, g, n, s)
    BY <2>2, <2>4, <2>5, <2>6 DEF Mid
  <2>8. g = IF f \in Transcripts!Mains /\ l > TailBytes THEN l - TailBytes ELSE 0
    BY <1>2, <2>1
  <2> QED
    BY <2>2, <2>4, <2>7, <2>8
<1>3. CASE ~(f \in Transcripts!Mains /\ l > TailBytes)
  <2>1. s = [Transcripts!NotRead EXCEPT !.offset = 0]
    BY <1>3 DEF Transcripts!FirstSight
  <2>2. s \in Readers /\ s.offset = 0 /\ s.resyncing = FALSE /\ s.carry = 0 /\ s.lines = <<>>
    <3>1. 0 \in Int
      OBVIOUS
    <3> QED
      BY <2>1, <3>1, NothingRead DEF Readers
  <2>3. LineStart(c, 0 + 1) = 0
    BY LineStartMoves
  <2>4. Mid(c, 0, 0, s)
    BY <2>2, <2>3, NothingRead DEF Mid
  <2>5. 0 \in Nat /\ 0 \in 0..l /\ 0 = IF f \in Transcripts!Mains /\ l > TailBytes THEN l - TailBytes ELSE 0
    BY <1>3
  <2> QED
    BY <2>2, <2>4, <2>5
<1> QED
  BY <1>2, <1>3

(* What a sweep opens.                                                     *)
LEMMA OpenedIs ==
  ASSUME SweepTypes, NEW f \in TFiles, FileIsRead(f), content[f] # Transcripts!Missing,
         NEW s, s = Transcripts!Opened(f)
  PROVE  /\ s \in Readers /\ s.offset \in 0..Len(Text(f))
         /\ FromNext(f) \in Nat /\ Mid(Text(f), FromNext(f), s.offset, s)
         /\ f \in swapped => Transcripts!Begins(f)
<1>1. PICK l \in Nat : l = Len(Text(f)) /\ Transcripts!Size(f) = l
  BY TextIs
<1>2. state[f] \in Readers /\ state[f].offset \in Int
  BY DEF SweepTypes, Readers
<1>3. CASE Transcripts!Begins(f)
  <2>1. s = Transcripts!FirstSight(f, l)
    BY <1>1, <1>3 DEF Transcripts!Opened
  <2>2. FromNext(f) = IF f \in Transcripts!Mains /\ l > TailBytes THEN l - TailBytes ELSE 0
    BY <1>1, <1>3 DEF FromNext
  <2> QED
    BY <1>1, <1>3, <2>1, <2>2, FirstSightIs
<1>4. CASE ~Transcripts!Begins(f)
  <2>1. s = state[f] /\ FromNext(f) = from[f]
    BY <1>4 DEF Transcripts!Opened, FromNext
  <2>2. state[f].offset >= 0 /\ state[f].offset <= l
    BY <1>1, <1>2, <1>4 DEF Transcripts!Begins
  <2>3. f \notin swapped
    BY <1>1, <1>2, <2>2 DEF FileIsRead
  <2> QED
    BY <1>1, <1>2, <2>1, <2>2, <2>3 DEF FileIsRead
<1> QED
  BY <1>3, <1>4

(* What a file takes of the budget is there, and in the file.              *)
LEMMA WantedIs ==
  ASSUME SweepTypes, NEW f \in TFiles, FileIsRead(f), NEW left \in Nat
  PROVE  /\ Transcripts!Wanted(f, left) \in Nat /\ left - Transcripts!Wanted(f, left) \in Nat
         /\ content[f] # Transcripts!Missing =>
              Transcripts!Opened(f).offset + Transcripts!Wanted(f, left) <= Len(Text(f))
<1>1. CASE content[f] = Transcripts!Missing
  <2>1. Transcripts!Wanted(f, left) = 0
    BY <1>1 DEF Transcripts!Wanted
  <2> QED
    BY <1>1, <2>1
<1>2. CASE content[f] # Transcripts!Missing
  <2>1. PICK l \in Nat : l = Len(Text(f)) /\ Transcripts!Size(f) = l
    BY TextIs
  <2>2. PICK p \in 0..l : p = Transcripts!Opened(f).offset
    BY <1>2, <2>1, OpenedIs
  <2>3. Transcripts!Wanted(f, left) = Transcripts!Least(Transcripts!Least(l - p, PerPoll), left)
    BY <1>2, <2>1, <2>2 DEF Transcripts!Wanted
  <2>4. PerPoll \in Nat
    BY SweepConstants
  <2>5. PICK w \in Nat : w = Transcripts!Wanted(f, left) /\ w <= left /\ w <= l - p
    BY <2>3, <2>4 DEF Transcripts!Least
  <2> QED
    BY <2>1, <2>2, <2>5
<1> QED
  BY <1>1, <1>2

(* The budget that a file finds is never below nothing.                    *)
LEMMA LeftIs ==
  ASSUME SweepInv, NEW f \in TFiles
  PROVE  Transcripts!Left(Transcripts!Order(tick), f) \in Nat
<1>1. PICK order \in Seq(TFiles) : order = Transcripts!Order(tick) /\ Lists(order, f)
  BY OrderIs DEF SweepInv, SweepTypes
<1>2. PICK i : i = CHOOSE j \in DOMAIN order : order[j] = f
  OBVIOUS
<1>3. i \in 1..Len(order)
  <2>1. \E j \in DOMAIN order : order[j] = f
    BY <1>1 DEF Lists
  <2>2. i \in DOMAIN order
    BY <1>2, <2>1
  <2> QED
    BY <2>2
<1>4. PICK s \in Seq(TFiles) : s = SubSeq(order, 1, i - 1)
  <2>1. \A j \in 1..(i - 1) : order[j] \in TFiles
    BY <1>3
  <2>2. 1 \in Int /\ i - 1 \in Int
    BY <1>3
  <2> QED
    BY <1>1, <2>1, <2>2, SubSeqProperties
<1>5. SpendFold!Keeps(0, Nat, TFiles)
  <2>1. ASSUME NEW left \in Nat, NEW g \in TFiles PROVE left - Transcripts!Wanted(g, left) \in Nat
    BY WantedIs DEF SweepInv
  <2> QED
    BY <2>1 DEF SpendFold!Keeps, Spend
<1>6. PerTick \in Nat
  BY SweepConstants
<1>7. SpendFold!Folded(0, PerTick, s) \in Nat
  BY <1>4, <1>5, <1>6, SpendFold!FoldStays
<1>8. Transcripts!Left(order, f) = SpendFold!Folded(0, PerTick, s)
  BY <1>2, <1>4, LeftIsAFold
<1> QED
  BY <1>1, <1>7, <1>8
-----------------------------------------------------------------------------
(* The readers begin with nothing.                                         *)
LEMMA SweepStarts == MCInit => SweepInv
<1> SUFFICES ASSUME MCInit PROVE SweepInv
  OBVIOUS
<1>1. /\ content = [f \in TFiles |-> Transcripts!Missing] /\ state = [f \in TFiles |-> Transcripts!NotRead]
      /\ tick = 0 /\ from = [f \in TFiles |-> -1] /\ swapped = {}
  BY DEF MCInit, Transcripts!SweepInit, TFiles
<1>2. 0 \in 0..Len(Tracked) - 1
  BY SweepConstants
<1>3. SweepTypes
  BY <1>1, <1>2, NothingRead DEF SweepTypes
<1>4. ASSUME NEW f \in TFiles PROVE FileIsRead(f)
  <2>1. state[f].offset = -1 /\ f \notin swapped
    BY <1>1, NothingRead
  <2> QED
    BY <2>1 DEF FileIsRead
<1> QED
  BY <1>3, <1>4 DEF SweepInv

(* Claude Code writes, or removes, a transcript.                           *)
LEMMA AppendsTakes ==
  ASSUME SweepInv, NEW f \in TFiles, NEW b \in Bytes, Transcripts!Appends(f, b)
  PROVE  SweepInv'
<1>1. PICK t \in Seq(Bytes) : t = Text(f) /\ Transcripts!Size(f) = Len(t) /\ Len(t) \in Nat
  BY TextIs DEF SweepInv
<1>2. PICK c : c = Append(t, b)
  OBVIOUS
<1>3. c \in Seq(Bytes) /\ Len(c) = Len(t) + 1 /\ \A i \in 1..Len(t) : c[i] = t[i]
  BY <1>1, <1>2, AppendProperties
<1>4. c = IF content[f] = Transcripts!Missing THEN <<b>> ELSE Append(content[f], b)
  BY <1>1, <1>2 DEF Text
<1>5. /\ content' = [content EXCEPT ![f] = c] /\ UNCHANGED <<state, tick, from, swapped>>
      /\ f \in swapped => Len(t) < state[f].offset - 1
  BY <1>1, <1>4 DEF Transcripts!Appends
<1>6. SweepTypes'
  BY <1>3, <1>5 DEF SweepInv, SweepTypes
<1>7. c # Transcripts!Missing
  <2>1. c = Transcripts!Missing => c[1] = "missing" /\ Len(c) = 1
    BY DEF Transcripts!Missing
  <2>2. Len(c) = 1 => c[1] \in Bytes
    BY <1>3
  <2> QED
    BY <2>1, <2>2 DEF Bytes
<1>8. /\ \A g \in TFiles : g # f => Text(g)' = Text(g)
      /\ Text(f)' = c
  BY <1>5, <1>7 DEF Text, SweepInv, SweepTypes
<1>9. ASSUME NEW g \in TFiles PROVE FileIsRead(g)'
  <2>1. FileIsRead(g)
    BY DEF SweepInv
  <2>2. CASE g # f
    <3>1. Text(g)' = Text(g)
      BY <1>8, <2>2
    <3> QED
      BY <1>5, <2>1, <3>1 DEF FileIsRead
  <2>3. CASE g = f
    <3>1. PICK n \in Int : n = state[f].offset
      BY DEF SweepInv, SweepTypes, Readers
    <3>2. f \in swapped => Len(c) < n
      BY <1>1, <1>3, <1>5, <3>1
    <3>3. ASSUME f \notin swapped, n >= 0 PROVE n <= Len(c) /\ Mid(c, from[f], n, state[f])
      <4>1. n <= Len(t) /\ Mid(t, from[f], n, state[f])
        BY <1>1, <2>1, <2>3, <3>1, <3>3 DEF FileIsRead
      <4>2. Same(t, c, n)
        BY <1>3, <4>1, <1>1 DEF Same
      <4>3. n \in Nat /\ n <= Len(c)
        BY <1>1, <1>3, <3>3, <4>1
      <4> QED
        BY <4>1, <4>2, <4>3, MidOfTheSame
    <3> QED
      BY <1>5, <1>8, <2>1, <2>3, <3>1, <3>2, <3>3 DEF FileIsRead
  <2> QED
    BY <2>2, <2>3
<1> QED
  BY <1>6, <1>9 DEF SweepInv

(* A transcript that goes away.                                            *)
LEMMA RemovedTakes ==
  ASSUME SweepInv, NEW f \in TFiles, Transcripts!Removed(f)
  PROVE  SweepInv'
<1>1. /\ content' = [content EXCEPT ![f] = Transcripts!Missing] /\ UNCHANGED <<state, tick, from>>
      /\ swapped' = IF state[f].offset > 0 THEN swapped \cup {f} ELSE swapped
  BY DEF Transcripts!Removed
<1>2. SweepTypes'
  BY <1>1 DEF SweepInv, SweepTypes
<1>3. /\ \A g \in TFiles : g # f => Text(g)' = Text(g)
      /\ Text(f)' = <<>> /\ Len(<<>>) = 0
  BY <1>1 DEF Text, SweepInv, SweepTypes
<1>4. ASSUME NEW g \in TFiles PROVE FileIsRead(g)'
  <2>1. FileIsRead(g)
    BY DEF SweepInv
  <2>2. CASE g # f
    <3>1. Text(g)' = Text(g) /\ (g \in swapped' <=> g \in swapped)
      BY <1>1, <1>3, <2>2
    <3> QED
      BY <1>1, <2>1, <3>1 DEF FileIsRead
  <2>3. CASE g = f
    <3>1. PICK n \in Int : n = state[f].offset
      BY DEF SweepInv, SweepTypes, Readers
    <3>2. n > 0 => f \in swapped'
      BY <1>1, <3>1
    <3>3. f \in swapped' => n > 0
      BY <1>1, <2>1, <2>3, <3>1 DEF FileIsRead
    <3>4. ASSUME n >= 0, ~(n > 0) PROVE from[f] \in Nat /\ n = 0 /\ Mid(<<>>, from[f], 0, state[f])
      <4>1. n = 0 /\ f \notin swapped
        BY <3>1, <3>4, <2>1, <2>3 DEF FileIsRead
      <4>2. from[f] \in Nat /\ Mid(Text(f), from[f], 0, state[f])
        BY <2>1, <2>3, <3>1, <3>4, <4>1 DEF FileIsRead
      <4>3. Same(Text(f), <<>>, 0)
        BY DEF Same
      <4> QED
        BY <4>1, <4>2, <4>3, MidOfTheSame
    <3> QED
      BY <1>1, <1>3, <2>1, <2>3, <3>1, <3>2, <3>3, <3>4 DEF FileIsRead
  <2> QED
    BY <2>2, <2>3
<1> QED
  BY <1>2, <1>4 DEF SweepInv
(* A sweep reads a transcript: on from where the reader is, or anew.       *)
LEMMA FileIsSwept ==
  ASSUME SweepInv, NEW f \in TFiles, NEW left \in Nat, content[f] # Transcripts!Missing,
         NEW r, r = Transcripts!ReadFile(f, left)
  PROVE  /\ r \in Readers /\ r.offset \in 0..Len(Text(f))
         /\ FromNext(f) \in Nat /\ Mid(Text(f), FromNext(f), r.offset, r)
         /\ f \in swapped => Transcripts!Begins(f)
<1>0. SweepTypes /\ FileIsRead(f)
  BY DEF SweepInv
<1>1. PICK s \in Readers : s = Transcripts!Opened(f)
  BY <1>0, OpenedIs
<1>2. PICK c \in Seq(Bytes) : c = Text(f) /\ c = content[f] /\ Len(c) \in Nat
  BY <1>0, TextIs
<1>3. PICK g \in Nat, n \in Nat : g = FromNext(f) /\ n = s.offset /\ n <= Len(c) /\ Mid(c, g, n, s)
  <2>1. FromNext(f) \in Nat /\ s.offset \in 0..Len(Text(f)) /\ Mid(Text(f), FromNext(f), s.offset, s)
    BY <1>0, <1>1, OpenedIs
  <2>2. s.offset \in Nat /\ s.offset <= Len(c) /\ Mid(c, FromNext(f), s.offset, s)
    BY <1>2, <2>1
  <2> QED
    BY <2>1, <2>2
<1>4. f \in swapped => Transcripts!Begins(f)
  BY <1>0, <1>1, OpenedIs
<1>5. PICK m \in Nat : m = Transcripts!Wanted(f, left) /\ n + m <= Len(c)
  BY <1>0, <1>1, <1>2, <1>3, WantedIs
<1>6. PICK p : p = Transcripts!SplitLines(s, SubSeq(c, n + 1, n + m))
  OBVIOUS
<1>7. p \in Readers /\ Mid(c, g, n + m, p)
  BY <1>3, <1>5, <1>6, ChunkReads DEF Reads
<1>8. r = [p EXCEPT !.offset = n + m]
  BY <1>1, <1>2, <1>3, <1>5, <1>6 DEF Transcripts!ReadFile
<1>9. /\ r \in Readers /\ r.offset = n + m /\ n + m \in 0..Len(c)
      /\ r.carry = p.carry /\ r.resyncing = p.resyncing /\ r.lines = p.lines
  <2>1. n + m \in Int /\ n + m \in 0..Len(c)
    BY <1>2, <1>5
  <2> QED
    BY <1>7, <1>8, <2>1 DEF Readers
<1>10. Mid(c, g, n + m, r)
  BY <1>7, <1>9 DEF Mid
<1> QED
  BY <1>2, <1>3, <1>4, <1>9, <1>10

(* A sweep reads every transcript on.                                      *)
LEMMA SweepTakes == SweepInv /\ Transcripts!Sweep => SweepInv'
<1> SUFFICES ASSUME SweepInv, Transcripts!Sweep PROVE SweepInv'
  OBVIOUS
<1>0. SweepTypes
  BY DEF SweepInv
<1>1. /\ state' = [f \in TFiles |-> Transcripts!ReadFile(f, Transcripts!Left(Transcripts!Order(tick), f))]
      /\ tick' = (tick + 1) % Len(Tracked)
      /\ from' = [f \in TFiles |-> IF Transcripts!Begins(f) /\ content[f] # Transcripts!Missing
                                   THEN IF f \in Transcripts!Mains /\ Transcripts!Size(f) > TailBytes
                                        THEN Transcripts!Size(f) - TailBytes ELSE 0
                                   ELSE from[f]]
      /\ swapped' = {f \in swapped : IF content[f] = Transcripts!Missing THEN f \notin Transcripts!Mains
                                                                        ELSE ~Transcripts!Begins(f)}
      /\ content' = content
  BY Zenon DEF Transcripts!Sweep, TFiles
<1>2. tick' \in 0..Len(Tracked) - 1 /\ swapped' \subseteq TFiles
  <2>1. Len(Tracked) \in Nat \ {0} /\ tick \in Nat
    BY <1>0, SweepConstants DEF SweepTypes
  <2> QED
    BY <1>0, <1>1, <2>1 DEF SweepTypes
<1>3. ASSUME NEW f \in TFiles
      PROVE  state'[f] \in Readers /\ from'[f] \in Int /\ FileIsRead(f)'
  <2>1. PICK left \in Nat : left = Transcripts!Left(Transcripts!Order(tick), f)
    BY LeftIs
  <2>2. PICK r : r = Transcripts!ReadFile(f, left) /\ state'[f] = r
    BY <1>1, <2>1
  <2>3. Text(f)' = Text(f)
    BY <1>1 DEF Text
  <2>4. FileIsRead(f) /\ state[f] \in Readers /\ from[f] \in Int
    BY <1>0 DEF SweepInv, SweepTypes
  <2>5. CASE content[f] # Transcripts!Missing
    <3>1. from'[f] = FromNext(f)
      BY <1>1, <2>5 DEF FromNext
    <3>2. /\ r \in Readers /\ r.offset \in 0..Len(Text(f))
          /\ FromNext(f) \in Nat /\ Mid(Text(f), FromNext(f), r.offset, r)
      BY <2>2, <2>5, FileIsSwept
    <3>3. f \notin swapped'
      BY <1>1, <2>2, <2>5, FileIsSwept
    <3>4. Len(Text(f)) \in Nat
      BY <1>0, TextIs
    <3> QED
      BY <2>2, <2>3, <3>1, <3>2, <3>3, <3>4 DEF FileIsRead
  <2>6. CASE content[f] = Transcripts!Missing /\ f \in Transcripts!Mains
    <3>1. state'[f] = Transcripts!NotRead /\ from'[f] = from[f] /\ f \notin swapped'
      BY <1>1, <2>2, <2>6 DEF Transcripts!ReadFile
    <3>2. state'[f] \in Readers /\ state'[f].offset = -1
      BY <3>1, NothingRead
    <3> QED
      BY <2>4, <3>1, <3>2 DEF FileIsRead
  <2>7. CASE content[f] = Transcripts!Missing /\ f \notin Transcripts!Mains
    <3>1. state'[f] = state[f] /\ from'[f] = from[f] /\ (f \in swapped' <=> f \in swapped)
      BY <1>1, <2>2, <2>7 DEF Transcripts!ReadFile
    <3> QED
      BY <2>3, <2>4, <3>1 DEF FileIsRead
  <2> QED
    BY <2>5, <2>6, <2>7
<1>4. state' \in [TFiles -> Readers] /\ from' \in [TFiles -> Int]
  <2>1. DOMAIN state' = TFiles /\ state' = [f \in TFiles |-> state'[f]]
    BY <1>1
  <2>2. DOMAIN from' = TFiles /\ from' = [f \in TFiles |-> from'[f]]
    BY <1>1
  <2> QED
    BY <1>3, <2>1, <2>2
<1> QED
  BY <1>0, <1>1, <1>2, <1>3, <1>4 DEF SweepInv, SweepTypes

(* Every step of the observers keeps it.                                   *)
LEMMA SweepGoesOn == SweepInv /\ [MCNext]_MCVars => SweepInv'
<1> SUFFICES ASSUME SweepInv, [MCNext]_MCVars PROVE SweepInv'
  OBVIOUS
<1>1. CASE UNCHANGED sweepVars
  BY <1>1 DEF SweepInv, SweepTypes, FileIsRead, Text, sweepVars
<1>2. CASE Transcripts!SweepNext
  <2>1. Written \subseteq TFiles
    BY ObserverAssumption DEF Transcripts!SweepBounds, TFiles
  <2>2. CASE Transcripts!Sweep
    BY <2>2, SweepTakes
  <2>3. ASSUME NEW f \in Written, Transcripts!Removed(f) PROVE SweepInv'
    BY <2>1, <2>3, RemovedTakes
  <2>4. ASSUME NEW f \in Written, NEW b \in {"c", "n"}, Transcripts!Appends(f, b) PROVE SweepInv'
    BY <2>1, <2>4, AppendsTakes DEF Bytes
  <2> QED
    BY <1>2, <2>2, <2>3, <2>4 DEF Transcripts!SweepNext
<1> QED
  BY <1>1, <1>2 DEF MCNext, MCVars, sweepVars

(* What Mid says of the lines is what the property asks.                   *)
LEMMA SweepShows == SweepInv => FoldsEveryLineOnce
<1> SUFFICES ASSUME SweepInv, NEW f \in TFiles,
                    state[f].offset > 0, content[f] # Transcripts!Missing, f \notin swapped
             PROVE  Transcripts!LinesAreRead(f)
  BY DEF FoldsEveryLineOnce, Transcripts!FoldsEveryLineOnce, TFiles
<1>0. SweepTypes /\ FileIsRead(f)
  BY DEF SweepInv
<1>1. PICK n \in Nat : n = state[f].offset
  BY <1>0 DEF SweepTypes, Readers
<1>2. PICK c : c = content[f] /\ c = Text(f)
  BY <1>0, TextIs
<1>3. Listing(c, from[f], n, state[f].lines)
  BY <1>0, <1>1, <1>2 DEF FileIsRead, Mid
<1>4. \A u : Transcripts!Newlines(f, u) = Breaks(c, u)
  BY <1>2 DEF Transcripts!Newlines, Breaks
<1>5. \A i : Transcripts!Begun(f, i) = LineStart(c, i)
  BY <1>4 DEF Transcripts!Begun, LineStart
<1>6. Transcripts!Whole(f) = Counted(c, from[f], n)
  BY <1>1, <1>4, <1>5 DEF Transcripts!Whole, Counted
<1>7. \A S : Transcripts!Cardinality(S) = Cardinality(S)
  BY Zenon DEF Transcripts!Cardinality, Cardinality, Transcripts!IsFiniteSet, IsFiniteSet
<1> QED
  BY <1>3, <1>5, <1>6, <1>7 DEF Listing, Rank, Transcripts!LinesAreRead

(* Each transcript's lines are folded whole and once, whatever cuts them.  *)
THEOREM FoldsTheLines == MCSpec => []FoldsEveryLineOnce
<1> QED
  BY SweepStarts, SweepGoesOn, SweepShows, PTL DEF MCSpec

-----------------------------------------------------------------------------
(***************************************************************************)
(* Texts. A program writes 1, 2, 3, ..., so a part of its output without a *)
(* hole is known by where it ends and by its length.                       *)
(***************************************************************************)
LEMMA OutputConstants ==
  /\ MaxOutput \in Nat \ {0} /\ Cap \in Nat \ {0} /\ ReplayLines \in Nat \ {0} /\ ReadSize \in Nat \ {0}
  /\ DrainSize \in Nat \ {0} /\ DrainReads \in Nat \ {0} /\ NewlineAt \subseteq 1..MaxOutput
BY ObserverAssumption DEF Output!OutputBounds

(* d follows the first `base' characters; t ends with the character `to'.  *)
After(d, base) == d \in Seq(Nat) /\ \A i \in 1..Len(d) : d[i] = base + i
Ending(t, to) == Len(t) <= to /\ \A i \in 1..Len(t) : t[i] = to - Len(t) + i

(* A run of the program's output is such an end, and what is read of it    *)
(* follows.                                                                *)
LEMMA RunIsEnding ==
  ASSUME NEW t \in Seq(Nat), NEW to \in Nat
  PROVE  Output!IsRunUpTo(t, to) <=> Ending(t, to)
<1> DEFINE n == Len(t)
           r == Output!Run(to - n + 1, to)
<1>1. n \in Nat /\ t \in [1..n -> Nat]
  OBVIOUS
<1>2. ASSUME n <= to
      PROVE  r = [i \in 1..n |-> to - n + i]
  <2>1. (IF to < to - n + 1 THEN 0 ELSE to - (to - n + 1) + 1) = n
    BY <1>1, <1>2
  <2>2. r = [i \in 1..n |-> (to - n + 1) + i - 1]
    BY <2>1 DEF Output!Run
  <2>3. \A i \in 1..n : (to - n + 1) + i - 1 = to - n + i
    BY <1>1
  <2> QED
    BY <2>2, <2>3
<1>3. n <= to => (t = r <=> \A i \in 1..n : t[i] = to - n + i)
  BY <1>1, <1>2
<1> QED
  BY <1>3 DEF Output!IsRunUpTo, Ending

LEMMA NewRun ==
  ASSUME NEW base \in Nat, NEW n \in Nat, NEW d, d = Output!Run(base + 1, base + n)
  PROVE  d \in Seq(Nat) /\ Len(d) = n /\ \A i \in 1..n : d[i] = base + i
<1>1. (IF base + n < base + 1 THEN 0 ELSE base + n - (base + 1) + 1) = n
  OBVIOUS
<1>2. d = [i \in 1..n |-> base + 1 + i - 1]
  BY <1>1 DEF Output!Run
<1>3. \A i \in 1..n : base + 1 + i - 1 = base + i /\ base + i \in Nat
  OBVIOUS
<1>4. d \in [1..n -> Nat] /\ \A i \in 1..n : d[i] = base + i
  BY <1>2, <1>3
<1>5. d \in Seq(Nat) /\ Len(d) = n
  BY <1>4
<1> QED
  BY <1>4, <1>5

(* What follows can be added to an end of the output, and an end of an end *)
(* is one.                                                                 *)
LEMMA EndingGrows ==
  ASSUME NEW t \in Seq(Nat), NEW to \in Nat, Ending(t, to), NEW d, After(d, to)
  PROVE  Ending(t \o d, to + Len(d)) /\ Len(t \o d) = Len(t) + Len(d)
<1>0. d \in Seq(Nat)
  BY DEF After
<1>1. PICK l \in Nat, n \in Nat : l = Len(t) /\ n = Len(d)
  BY <1>0
<1>4. \A i \in 1..n : d[i] = to + i
  BY <1>1 DEF After
<1>2. Len(t \o d) = l + n /\ \A i \in 1..(l + n) : (t \o d)[i] = IF i <= l THEN t[i] ELSE d[i - l]
  BY <1>0, <1>1, ConcatProperties
<1>3. ASSUME NEW i \in 1..(l + n) PROVE (t \o d)[i] = to + n - (l + n) + i
  <2>1. CASE i <= l
    BY <1>1, <1>2, <2>1 DEF Ending
  <2>2. CASE i > l
    <3>1. i \in Int /\ i <= l + n /\ ~(i <= l) /\ i - l \in 1..n
      BY <2>2
    <3>2. (t \o d)[i] = d[i - l] /\ d[i - l] = to + (i - l)
      BY <1>2, <1>4, <3>1
    <3> QED
      BY <3>1, <3>2
  <2>3. i \in Int /\ l \in Int /\ (i <= l \/ i > l)
    OBVIOUS
  <2> QED
    BY <2>1, <2>2, <2>3
<1> QED
  BY <1>1, <1>2, <1>3 DEF Ending

LEMMA EndingOfConcat ==
  ASSUME NEW a \in Seq(Nat), NEW b \in Seq(Nat), NEW to \in Nat, Ending(a \o b, to)
  PROVE  Ending(b, to)
<1>1. PICK l \in Nat, n \in Nat : l = Len(a) /\ n = Len(b)
  OBVIOUS
<1>2. Len(a \o b) = l + n /\ \A i \in 1..(l + n) : (a \o b)[i] = IF i <= l THEN a[i] ELSE b[i - l]
  BY <1>1, ConcatProperties
<1>3. ASSUME NEW i \in 1..n PROVE b[i] = to - n + i
  <2>1. l + i \in 1..(l + n) /\ (l + i) - l = i /\ ~(l + i <= l)
    OBVIOUS
  <2>2. (a \o b)[l + i] = b[i]
    BY <1>2, <2>1
  <2>3. (a \o b)[l + i] = to - (l + n) + (l + i)
    BY <1>2, <2>1 DEF Ending
  <2> QED
    BY <2>2, <2>3
<1>4. n <= to
  BY <1>2 DEF Ending
<1> QED
  BY <1>1, <1>3, <1>4 DEF Ending

LEMMA EndingOfEnd ==
  ASSUME NEW t \in Seq(Nat), NEW to \in Nat, Ending(t, to), NEW k \in 1..(Len(t) + 1)
  PROVE  /\ Ending(SubSeq(t, k, Len(t)), to) /\ SubSeq(t, k, Len(t)) \in Seq(Nat)
         /\ Len(SubSeq(t, k, Len(t))) = Len(t) - k + 1
<1>1. PICK l \in Nat : l = Len(t)
  OBVIOUS
<1> DEFINE u == SubSeq(t, k, l)
<1>2. u \in Seq(Nat) /\ Len(u) = l - k + 1 /\ \A i \in 1..(l - k + 1) : u[i] = t[k + i - 1]
  <2>1. \A i \in k..l : t[i] \in Nat
    BY <1>1
  <2> QED
    BY <1>1, <2>1, SubSeqProperties
<1> HIDE DEF u
<1>3. ASSUME NEW i \in 1..(l - k + 1) PROVE u[i] = to - (l - k + 1) + i
  <2>1. k + i - 1 \in 1..l
    BY <1>1
  <2>2. t[k + i - 1] = to - l + (k + i - 1)
    BY <1>1, <2>1 DEF Ending
  <2> QED
    BY <1>1, <1>2, <2>2
<1>4. l - k + 1 <= to
  BY <1>1 DEF Ending
<1> QED
  BY <1>1, <1>2, <1>3, <1>4 DEF Ending, u

(***************************************************************************)
(* Contents, the texts of the chunks one after the other.                  *)
(***************************************************************************)
Pieces == Seq(Seq(Nat))
Collections(s) == [0..Len(s) -> Seq(Nat)]

(* Every sequence of chunks has a collection.                              *)
LEMMA CollectionExists ==
  ASSUME NEW s \in Pieces
  PROVE  \E f \in Collections(s) : Collects(f, s)
<1>1. s \in Seq(Seq(Nat))
  BY DEF Pieces
<1> QED
  BY <1>1, FlatteningExists DEF Collections

(* Up to where two sequences agree, so do their collections.               *)
Agree(s, t, n) == n <= Len(s) /\ n <= Len(t) /\ \A i \in 1..n : s[i] = t[i]
LEMMA CollectionsAgree ==
  ASSUME NEW s \in Pieces, NEW t \in Pieces, NEW n \in Nat, Agree(s, t, n),
         NEW f, Collects(f, s), NEW g, Collects(g, t)
  PROVE  f[n] = g[n]
<1> DEFINE T == {k \in Nat : k <= n => f[k] = g[k]}
<1>0. Len(s) \in Nat /\ Len(t) \in Nat
  BY DEF Pieces
<1>1. 0 \in T
  BY DEF Collects
<1>2. ASSUME NEW k \in Nat, k \in T PROVE k + 1 \in T
  <2> SUFFICES ASSUME k + 1 <= n PROVE f[k + 1] = g[k + 1]
    OBVIOUS
  <2>1. k + 1 \in 1..Len(s) /\ k + 1 \in 1..Len(t) /\ k + 1 \in 1..n /\ (k + 1) - 1 = k /\ k <= n
    BY <1>0 DEF Agree
  <2>3. s[k + 1] = t[k + 1]
    BY <2>1 DEF Agree
  <2>2. f[k + 1] = f[k] \o s[k + 1] /\ g[k + 1] = g[k] \o t[k + 1]
    BY <2>1 DEF Collects
  <2> QED
    BY <1>2, <2>1, <2>2, <2>3
<1>3. Nat \subseteq T
  <2> HIDE DEF T
  <2> QED
    BY <1>1, <1>2, JoinFold!Induction
<1> QED
  BY <1>3

(* FlattenSeq of the library is the last of a collection.                  *)
LEMMA ContentsIs ==
  ASSUME NEW s \in Pieces, NEW f \in Collections(s), Collects(f, s)
  PROVE  Output!Contents(s) = f[Len(s)]
<1>1. Output!Contents(s) = Transcripts!FlattenSeq(s)
  BY Zenon DEF Output!Contents, Output!FlattenSeq, Transcripts!FlattenSeq
<1>2. s \in Seq(Seq(Nat))
  BY DEF Pieces
<1> QED
  BY <1>1, <1>2, FlatteningIs

(* Contents is a text; of one chunk it is the chunk, of a concatenation    *)
(* the concatenation.                                                      *)
LEMMA ContentsIsText ==
  ASSUME NEW s \in Pieces
  PROVE  Output!Contents(s) \in Seq(Nat)
<1>1. PICK f \in Collections(s) : Collects(f, s)
  BY CollectionExists
<1>2. f[Len(s)] \in Seq(Nat)
  BY DEF Collections, Pieces
<1> QED
  BY <1>1, <1>2, ContentsIs

LEMMA ContentsOfFew ==
  /\ Output!Contents(<<>>) = <<>>
  /\ \A t \in Seq(Nat) : Output!Contents(<<t>>) = t
<1>1. Output!Contents(<<>>) = <<>>
  BY DEF Output!Contents, Output!FlattenSeq
<1>2. ASSUME NEW t \in Seq(Nat) PROVE Output!Contents(<<t>>) = t
  <2>1. <<t>> \in Pieces /\ Len(<<t>>) = 1 /\ <<t>>[1] = t
    BY DEF Pieces
  <2>2. PICK f \in Collections(<<t>>) : Collects(f, <<t>>)
    BY <2>1, CollectionExists
  <2>3. f[1] = <<>> \o t
    <3>1. 1 \in 1..Len(<<t>>) /\ 1 - 1 = 0
      BY <2>1
    <3>2. f[1] = f[1 - 1] \o <<t>>[1]
      BY <2>2, <3>1 DEF Collects
    <3>3. f[0] = <<>>
      BY <2>2 DEF Collects
    <3> QED
      BY <2>1, <3>1, <3>2, <3>3
  <2>4. <<>> \o t = t
    BY ConcatEmptySeq
  <2> QED
    BY <2>1, <2>2, <2>3, <2>4, ContentsIs
<1> QED
  BY <1>1, <1>2

LEMMA ContentsOfConcat ==
  ASSUME NEW a \in Pieces, NEW b \in Pieces
  PROVE  Output!Contents(a \o b) = Output!Contents(a) \o Output!Contents(b) /\ a \o b \in Pieces
<1>1. PICK l \in Nat, m \in Nat : l = Len(a) /\ m = Len(b)
  BY DEF Pieces
<1>2. /\ a \o b \in Pieces /\ Len(a \o b) = l + m
      /\ \A i \in 1..(l + m) : (a \o b)[i] = IF i <= l THEN a[i] ELSE b[i - l]
  BY <1>1, ConcatProperties DEF Pieces
<1>3. PICK f \in Collections(a) : Collects(f, a)
  BY CollectionExists
<1>4. PICK g \in Collections(b) : Collects(g, b)
  BY CollectionExists
<1>5. PICK h \in Collections(a \o b) : Collects(h, a \o b)
  BY <1>2, CollectionExists
<1>6. h[l] = f[l]
  <2>1. \A i \in 1..l : (a \o b)[i] = a[i]
    BY <1>2
  <2>2. Agree(a \o b, a, l)
    BY <1>1, <1>2, <2>1 DEF Agree
  <2> QED
    BY <1>2, <1>3, <1>5, <2>2, CollectionsAgree
<1> DEFINE P(k) == h[l + k] = f[l] \o g[k]
           T == {k \in Nat : k <= m => P(k)}
<1>7. f[l] \in Seq(Nat) /\ \A k \in 0..m : g[k] \in Seq(Nat)
  <2>1. f \in [0..l -> Seq(Nat)] /\ g \in [0..m -> Seq(Nat)]
    BY <1>1 DEF Collections
  <2> HIDE DEF T
  <2> QED
    BY <2>1
<1>8. 0 \in T
  <2>1. f[l] \o <<>> = f[l]
    BY <1>7, ConcatEmptySeq
  <2>2. g[0] = <<>> /\ l + 0 = l
    BY <1>4 DEF Collects
  <2>3. P(0)
    BY <1>6, <2>1, <2>2
  <2> HIDE DEF P
  <2> QED
    BY <2>3
<1>9. ASSUME NEW k \in Nat, k \in T PROVE k + 1 \in T
  <2> SUFFICES ASSUME k + 1 <= m PROVE P(k + 1)
    <3> HIDE DEF P
    <3> QED
      OBVIOUS
  <2>1. /\ l + (k + 1) \in 1..(l + m) /\ (l + (k + 1)) - 1 = l + k /\ (l + (k + 1)) - l = k + 1
        /\ ~(l + (k + 1) <= l) /\ k + 1 \in 1..m /\ (k + 1) - 1 = k /\ k \in 0..m /\ k <= m
    OBVIOUS
  <2>2. h[l + (k + 1)] = h[l + k] \o b[k + 1]
    BY <1>2, <1>5, <2>1 DEF Collects
  <2>3. g[k + 1] = g[k] \o b[k + 1]
    BY <1>1, <1>4, <2>1 DEF Collects
  <2>4. b[k + 1] \in Seq(Nat)
    BY <1>1, <2>1 DEF Pieces
  <2>5. (f[l] \o g[k]) \o b[k + 1] = f[l] \o (g[k] \o b[k + 1])
    <3>1. \A x, y, z \in Seq(Nat) : (x \o y) \o z = x \o (y \o z)
      BY ConcatAssociative
    <3>2. g[k] \in Seq(Nat) /\ f[l] \in Seq(Nat)
      BY <1>7, <2>1
    <3> HIDE DEF T
    <3> QED
      BY <2>4, <3>1, <3>2
  <2>6. P(k)
    <3> HIDE DEF P
    <3> QED
      BY <1>9, <2>1
  <2>7. h[l + (k + 1)] = h[l + k] \o b[k + 1]
    BY <2>1, <2>2
  <2> HIDE DEF T
  <2> QED
    BY <2>3, <2>5, <2>6, <2>7
<1>10. Nat \subseteq T
  <2> HIDE DEF T
  <2> QED
    BY <1>8, <1>9, JoinFold!Induction
<1>11. h[l + m] = f[l] \o g[m]
  <2> HIDE DEF P
  <2>1. P(m)
    BY <1>10
  <2> QED
    BY <2>1 DEF P
<1> QED
  BY <1>1, <1>2, <1>3, <1>4, <1>5, <1>11, ContentsIs

(***************************************************************************)
(* The ring: append and its trimming.                                      *)
(***************************************************************************)
LEMMA PieceIs ==
  Output!Piece \in Nat \ {0} /\ ReadSize <= Output!Piece /\ DrainSize <= Output!Piece
BY OutputConstants DEF Output!Piece

(* What append trims, and the ring it leaves, when `to' has been read.     *)
Parts(s) == s \in Pieces /\ \A i \in 1..Len(s) : Len(s[i]) <= Output!Piece
Loose(s, to) ==
  /\ Parts(s) /\ Ending(Output!Contents(s), to)
  /\ Len(Output!Contents(s)) = to \/ Len(Output!Contents(s)) + Output!Piece > Cap
Held(s, to) == Loose(s, to) /\ Len(Output!Contents(s)) <= Cap

Rest(s, i) == SubSeq(s, i, Len(s))
Fits(s, i) == i = Len(s) \/ Len(Output!Contents(Rest(s, i))) <= Cap

(* The oldest chunk that stays is the first from which the rest fits.      *)
LEMMA TrimIs ==
  ASSUME NEW s \in Pieces, Len(s) >= 1
  PROVE  \E k \in 1..Len(s) : /\ Output!Trim(s) = Rest(s, k) /\ Fits(s, k)
                              /\ \A j \in 1..(k - 1) : ~Fits(s, j)
<1>0. Len(s) \in Nat
  BY DEF Pieces
<1> DEFINE Is(k) == k \in 1..Len(s) /\ Fits(s, k) /\ \A j \in 1..(k - 1) : ~Fits(s, j)
           T == {i \in 1..Len(s) : Fits(s, i)}
           first == CHOOSE i \in 1..Len(s) : Fits(s, i) /\ \A j \in 1..(i - 1) : ~Fits(s, j)
<1>1. \E k : Is(k)
  <2>1. T \subseteq Nat /\ Len(s) \in T
    BY <1>0 DEF Fits
  <2>2. PICK k \in T : \A j \in T : k <= j
    BY <2>1, JoinFold!LeastNatural
  <2>3. ASSUME NEW j \in 1..(k - 1) PROVE ~Fits(s, j)
    <3>1. j \in 1..Len(s) /\ ~(k <= j)
      BY <1>0, <2>1
    <3> QED
      BY <2>2, <3>1
  <2> QED
    BY <2>3
<1>2. Is(first)
  BY <1>1
<1>3. Output!Trim(s) = Rest(s, first)
  BY Zenon DEF Output!Trim, Fits, Rest
<1> HIDE DEF first
<1> QED
  BY <1>2, <1>3

(* The rest of the chunks is an end of the text.                           *)
LEMMA RestIs ==
  ASSUME NEW s \in Pieces, NEW k \in 1..Len(s)
  PROVE  /\ Rest(s, k) \in Pieces /\ Len(Rest(s, k)) = Len(s) - k + 1
         /\ \A i \in 1..(Len(s) - k + 1) : Rest(s, k)[i] = s[k + i - 1]
         /\ \E t \in Seq(Nat) : Output!Contents(s) = t \o Output!Contents(Rest(s, k))
         /\ k > 1 => Len(Output!Contents(Rest(s, k - 1))) = Len(s[k - 1]) + Len(Output!Contents(Rest(s, k)))
<1>0. Len(s) \in Nat /\ s \in Seq(Seq(Nat)) /\ k \in Nat /\ k >= 1 /\ k <= Len(s)
  BY DEF Pieces
<1>1. \A i \in k..Len(s) : s[i] \in Seq(Nat)
  BY <1>0
<1>2. /\ Rest(s, k) \in Seq(Seq(Nat)) /\ Len(Rest(s, k)) = Len(s) - k + 1
      /\ \A i \in 1..(Len(s) - k + 1) : Rest(s, k)[i] = s[k + i - 1]
  BY <1>0, <1>1, SubSeqProperties DEF Rest
<1>3. \E t \in Seq(Nat) : Output!Contents(s) = t \o Output!Contents(Rest(s, k))
  <2> DEFINE u == SubSeq(s, 1, k - 1)
  <2>1. u \in Pieces
    <3>1. \A i \in 1..(k - 1) : s[i] \in Seq(Nat)
      BY <1>0
    <3> QED
      BY <1>0, <3>1, SubSeqProperties DEF Pieces
  <2>2. u \o Rest(s, k) = s
    <3>1. 1 \in 1..(Len(s) + 1) /\ k - 1 \in (1 - 1)..Len(s) /\ Len(s) \in (k - 1)..Len(s) /\ (k - 1) + 1 = k
      BY <1>0
    <3>2. SubSeq(s, 1, k - 1) \o SubSeq(s, (k - 1) + 1, Len(s)) = SubSeq(s, 1, Len(s))
      BY <1>0, <3>1, ConcatAdjacentSubSeq
    <3>3. SubSeq(s, 1, Len(s)) = s
      BY <1>0, SubSeqFull
    <3> QED
      BY <3>1, <3>2, <3>3 DEF Rest
  <2> HIDE DEF u
  <2>3. Output!Contents(s) = Output!Contents(u) \o Output!Contents(Rest(s, k))
    BY <1>2, <2>1, <2>2, ContentsOfConcat DEF Pieces
  <2>4. Output!Contents(u) \in Seq(Nat)
    BY <2>1, ContentsIsText
  <2> QED
    BY <2>3, <2>4
<1>4. ASSUME k > 1
      PROVE  Len(Output!Contents(Rest(s, k - 1))) = Len(s[k - 1]) + Len(Output!Contents(Rest(s, k)))
  <2>1. k - 1 \in 1..Len(s) /\ Len(s) \in (k - 1)..Len(s) /\ (k - 1) + 1 = k
    BY <1>0, <1>4
  <2>2. Rest(s, k - 1) = <<s[k - 1]>> \o Rest(s, k)
    <3>1. SubSeq(s, k - 1, Len(s)) = <<s[k - 1]>> \o SubSeq(s, (k - 1) + 1, Len(s))
      BY <1>0, <2>1, SubSeqRecursiveFirst
    <3> QED
      BY <2>1, <3>1 DEF Rest
  <2>3. s[k - 1] \in Seq(Nat) /\ <<s[k - 1]>> \in Pieces /\ Rest(s, k) \in Pieces
    BY <1>0, <1>2, <2>1 DEF Pieces
  <2>4. Output!Contents(Rest(s, k - 1)) = s[k - 1] \o Output!Contents(Rest(s, k))
    BY <2>2, <2>3, ContentsOfConcat, ContentsOfFew
  <2>5. Output!Contents(Rest(s, k)) \in Seq(Nat)
    BY <2>3, ContentsIsText
  <2> QED
    BY <2>3, <2>4, <2>5, ConcatProperties
<1> QED
  BY <1>2, <1>3, <1>4 DEF Pieces

(* What is trimmed to the cap gives up less than a chunk too much.         *)
LEMMA TrimHolds ==
  ASSUME NEW s, NEW to \in Nat, Loose(s, to), Len(s) >= 1, Len(s[Len(s)]) <= Cap
  PROVE  Held(Output!Trim(s), to)
<1>1. s \in Pieces /\ Parts(s) /\ s \in Seq(Seq(Nat)) /\ Len(s) \in Nat
  BY DEF Loose, Parts, Pieces
<1>2. PICK k \in 1..Len(s) : /\ Output!Trim(s) = Rest(s, k) /\ Fits(s, k)
                             /\ \A j \in 1..(k - 1) : ~Fits(s, j)
  BY <1>1, TrimIs
<1> DEFINE r == Rest(s, k)
<1>3. /\ r \in Pieces /\ Len(r) = Len(s) - k + 1
      /\ \A i \in 1..(Len(s) - k + 1) : r[i] = s[k + i - 1]
  BY <1>1, RestIs
<1>4. PICK t \in Seq(Nat) : Output!Contents(s) = t \o Output!Contents(r)
  BY <1>1, RestIs
<1>5. Output!Contents(r) \in Seq(Nat) /\ Output!Contents(s) \in Seq(Nat)
  BY <1>1, <1>3, ContentsIsText
<1>6. PICK m \in Nat, l \in Nat : m = Len(Output!Contents(r)) /\ l = Len(Output!Contents(s))
  BY <1>5
<1> HIDE DEF r
<1>7. Ending(Output!Contents(r), to)
  BY <1>4, <1>5, EndingOfConcat DEF Loose
<1>8. Parts(r)
  <2>1. ASSUME NEW i \in 1..Len(r) PROVE Len(r[i]) <= Output!Piece
    <3>1. i \in 1..(Len(s) - k + 1) /\ k + i - 1 \in 1..Len(s)
      BY <1>1, <1>3
    <3> QED
      BY <1>1, <1>3, <3>1 DEF Parts
  <2> QED
    BY <1>3, <2>1 DEF Parts
<1>9. m <= Cap
  <2>1. CASE k = Len(s)
    <3>1. r = <<s[Len(s)]>> /\ s[Len(s)] \in Seq(Nat)
      BY <1>1, <1>3, <2>1 DEF Pieces
    <3> QED
      BY <1>6, <3>1, ContentsOfFew
  <2>2. CASE k # Len(s)
    BY <1>2, <1>6, <2>2 DEF Fits, r
  <2> QED
    BY <2>1, <2>2
<1>10. m = to \/ m + Output!Piece > Cap
  <2>1. CASE k = 1
    <3>1. r = s
      BY <1>1, <2>1, SubSeqFull DEF r, Rest
    <3> QED
      BY <1>6, <3>1 DEF Loose
  <2>2. CASE k # 1
    <3>1. k > 1 /\ k - 1 \in 1..(k - 1) /\ k - 1 # Len(s) /\ k - 1 \in 1..Len(s)
      BY <1>1, <2>2
    <3>2. ~(Len(Output!Contents(Rest(s, k - 1))) <= Cap)
      BY <1>2, <3>1 DEF Fits
    <3>3. Len(Output!Contents(Rest(s, k - 1))) = Len(s[k - 1]) + m
      BY <1>1, <1>6, <3>1, RestIs DEF r
    <3>4. Len(s[k - 1]) <= Output!Piece /\ Len(s[k - 1]) \in Nat
      BY <1>1, <3>1 DEF Parts
    <3> QED
      BY <3>2, <3>3, <3>4, PieceIs, OutputConstants
  <2> QED
    BY <2>1, <2>2
<1>11. Held(r, to)
  BY <1>6, <1>7, <1>8, <1>9, <1>10 DEF Held, Loose
<1> QED
  BY <1>2, <1>11 DEF r

(* append keeps the newest output.                                         *)
LEMMA RingAppendHolds ==
  ASSUME NEW s, NEW to \in Nat, Held(s, to), NEW d, After(d, to), Len(d) <= Output!Piece
  PROVE  Held(Output!RingAppend(s, d), to + Len(d))
<1>1. d \in Seq(Nat) /\ \A i \in 1..Len(d) : d[i] = to + i
  BY DEF After
<1>2. PICK n \in Nat : n = Len(d)
  BY <1>1
<1>3. Cap \in Nat /\ Cap >= 1 /\ Output!Piece \in Nat /\ Output!Piece >= 1
  BY OutputConstants, PieceIs
<1>4. CASE n > Cap
  <2> DEFINE e == SubSeq(d, n - Cap + 1, n)
  <2>1. Ending(d, to + n)
    BY <1>1, <1>2 DEF Ending
  <2>2. n - Cap + 1 \in 1..(Len(d) + 1)
    BY <1>2, <1>3, <1>4
  <2>3. e \in Seq(Nat) /\ Ending(e, to + n) /\ Len(e) = Cap
    <3>1. n - (n - Cap + 1) + 1 = Cap /\ to + n \in Nat
      BY <1>3
    <3> QED
      BY <1>1, <1>2, <2>1, <2>2, <3>1, EndingOfEnd
  <2>4. Output!RingAppend(s, d) = Output!Trim(<<e>>)
    BY <1>2, <1>4 DEF Output!RingAppend, Output!LastPart
  <2> HIDE DEF e
  <2>5. <<e>> \in Pieces /\ Len(<<e>>) = 1 /\ <<e>>[1] = e /\ Output!Contents(<<e>>) = e
    BY <2>3, ContentsOfFew DEF Pieces
  <2>6. Parts(<<e>>)
    BY <1>2, <1>3, <1>4, <2>3, <2>5 DEF Parts
  <2>7. Loose(<<e>>, to + n)
    BY <1>3, <2>3, <2>5, <2>6 DEF Loose
  <2>8. Held(Output!Trim(<<e>>), to + n)
    <3>1. to + n \in Nat /\ Len(<<e>>) >= 1 /\ Len(<<e>>[Len(<<e>>)]) <= Cap
      BY <1>3, <2>3, <2>5
    <3> QED
      BY <2>7, <3>1, TrimHolds
  <2> QED
    BY <1>2, <2>4, <2>8
<1>5. CASE ~(n > Cap)
  <2> DEFINE b == Append(s, d)
  <2>1. Output!RingAppend(s, d) = Output!Trim(b)
    BY <1>2, <1>5 DEF Output!RingAppend
  <2>2. s \in Pieces /\ Parts(s) /\ Output!Contents(s) \in Seq(Nat)
    BY ContentsIsText DEF Held, Loose, Parts
  <2>3. PICK l \in Nat, m \in Nat : l = Len(s) /\ m = Len(Output!Contents(s))
    BY <2>2 DEF Pieces
  <2>4. /\ b \in Pieces /\ Len(b) = l + 1 /\ b[l + 1] = d /\ b = s \o <<d>> /\ <<d>> \in Pieces
        /\ \A i \in 1..l : b[i] = s[i]
    BY <1>1, <2>2, <2>3, AppendProperties, AppendIsConcat DEF Pieces
  <2>5. Output!Contents(b) = Output!Contents(s) \o d
    <3> HIDE DEF b
    <3>1. Output!Contents(s \o <<d>>) = Output!Contents(s) \o Output!Contents(<<d>>)
      BY <2>2, <2>4, ContentsOfConcat
    <3> QED
      BY <1>1, <2>4, <3>1, ContentsOfFew
  <2> HIDE DEF b
  <2>6. Ending(Output!Contents(b), to + n) /\ Len(Output!Contents(b)) = m + n
    <3>1. Ending(Output!Contents(s), to)
      BY DEF Held, Loose
    <3> QED
      BY <1>2, <2>2, <2>3, <2>5, <3>1, EndingGrows
  <2>7. Parts(b)
    <3>1. ASSUME NEW i \in 1..Len(b) PROVE Len(b[i]) <= Output!Piece
      <4>1. i \in 1..l \/ i = l + 1
        BY <2>4
      <4> QED
        BY <2>2, <2>3, <2>4, <4>1 DEF Parts
    <3> QED
      BY <2>4, <3>1 DEF Parts
  <2>8. m = to \/ m + Output!Piece > Cap
    BY <2>3 DEF Held, Loose
  <2>9. Loose(b, to + n)
    <3>1. m + n = to + n \/ (m + n) + Output!Piece > Cap
      BY <1>3, <2>8
    <3> QED
      BY <2>6, <2>7, <3>1 DEF Loose
  <2>10. Held(Output!Trim(b), to + n)
    <3>1. to + n \in Nat /\ Len(b) >= 1 /\ Len(b[Len(b)]) <= Cap
      BY <1>2, <1>3, <1>5, <2>4
    <3> QED
      BY <2>9, <3>1, TrimHolds
  <2> QED
    BY <1>2, <2>1, <2>10
<1> QED
  BY <1>4, <1>5

(* Texts that follow one another.                                          *)
LEMMA AfterJoins ==
  ASSUME NEW a \in Seq(Nat), NEW base \in Nat, After(a, base), NEW b, After(b, base + Len(a))
  PROVE  After(a \o b, base) /\ Len(a \o b) = Len(a) + Len(b)
<1>0. b \in Seq(Nat)
  BY DEF After
<1>1. PICK l \in Nat, n \in Nat : l = Len(a) /\ n = Len(b)
  BY <1>0
<1>2. /\ a \o b \in Seq(Nat) /\ Len(a \o b) = l + n
      /\ \A i \in 1..(l + n) : (a \o b)[i] = IF i <= l THEN a[i] ELSE b[i - l]
  BY <1>0, <1>1, ConcatProperties
<1>3. ASSUME NEW i \in 1..(l + n) PROVE (a \o b)[i] = base + i
  <2>1. CASE i <= l
    BY <1>1, <1>2, <2>1 DEF After
  <2>2. CASE ~(i <= l)
    <3>1. i \in Int /\ i - l \in 1..n
      BY <2>2
    <3>2. (a \o b)[i] = b[i - l] /\ b[i - l] = (base + l) + (i - l)
      BY <1>1, <1>2, <2>2, <3>1 DEF After
    <3> QED
      BY <3>1, <3>2
  <2> QED
    BY <2>1, <2>2
<1> QED
  BY <1>1, <1>2, <1>3 DEF After

(* And the second of two joined texts follows the first.                   *)
LEMMA AfterSplits ==
  ASSUME NEW a \in Seq(Nat), NEW b \in Seq(Nat), NEW base \in Nat, After(a \o b, base)
  PROVE  After(b, base + Len(a))
<1>1. PICK l \in Nat, n \in Nat : l = Len(a) /\ n = Len(b)
  OBVIOUS
<1>2. Len(a \o b) = l + n /\ \A i \in 1..(l + n) : (a \o b)[i] = IF i <= l THEN a[i] ELSE b[i - l]
  BY <1>1, ConcatProperties
<1>3. ASSUME NEW i \in 1..n PROVE b[i] = base + l + i
  <2>1. l + i \in 1..(l + n) /\ (l + i) - l = i /\ ~(l + i <= l)
    OBVIOUS
  <2>2. (a \o b)[l + i] = b[i]
    BY <1>2, <2>1
  <2>3. (a \o b)[l + i] = base + (l + i)
    BY <1>2, <2>1 DEF After
  <2> QED
    BY <2>2, <2>3
<1> QED
  BY <1>1, <1>3 DEF After

(***************************************************************************)
(* handleOutput, for chunks that follow one another after `base': the    *)
(* ring goes on holding the newest output.                                 *)
(***************************************************************************)
Following(f, s, base) ==
  /\ f \in Collections(s) /\ Collects(f, s)
  /\ \A n \in 0..Len(s) : After(f[n], base)

AppendStep(chunks, data) == Output!RingAppend(chunks, data)
RingFold == INSTANCE FoldProofs WITH Op <- LAMBDA c, x, y : AppendStep(x, y)
(* The ring after handleOutput is such a fold, and append a step of it.    *)
LEMMA RingIsAFold ==
  ASSUME NEW chunks, Output!HandleOutput(chunks)
  PROVE  ring' = RingFold!Folded(0, ring, chunks)
BY Zenon DEF Output!HandleOutput, AppendStep, RingFold!Folded, Output!FoldLeft, Output!MapThenFoldSet,
             Output!Max, RingFold!MapThenFoldSet, RingFold!Greatest

LEMMA RingKeeps == RingFold!Keeps(0, Pieces, Seq(Nat))
<1> SUFFICES ASSUME NEW s \in Pieces, NEW d \in Seq(Nat) PROVE Output!RingAppend(s, d) \in Pieces
  BY DEF RingFold!Keeps, AppendStep
<1>1. ASSUME NEW b \in Pieces, Len(b) >= 1 PROVE Output!Trim(b) \in Pieces
  <2>1. PICK k \in 1..Len(b) : Output!Trim(b) = Rest(b, k)
    BY <1>1, TrimIs
  <2> QED
    BY <2>1, RestIs
<1>2. CASE Len(d) > Cap
  <2> DEFINE e == SubSeq(d, Len(d) - Cap + 1, Len(d))
  <2>1. e \in Seq(Nat)
    <3>1. Len(d) - Cap + 1 \in Int /\ Len(d) \in Int /\ \A i \in (Len(d) - Cap + 1)..Len(d) : d[i] \in Nat
      BY <1>2, OutputConstants
    <3> QED
      BY <3>1, SubSeqProperties
  <2>2. Output!RingAppend(s, d) = Output!Trim(<<e>>)
    BY <1>2 DEF Output!RingAppend, Output!LastPart
  <2> HIDE DEF e
  <2>3. <<e>> \in Pieces /\ Len(<<e>>) >= 1
    BY <2>1 DEF Pieces
  <2> QED
    BY <1>1, <2>2, <2>3
<1>3. CASE ~(Len(d) > Cap)
  <2>1. Output!RingAppend(s, d) = Output!Trim(Append(s, d))
    BY <1>3 DEF Output!RingAppend
  <2>2. Append(s, d) \in Pieces /\ Len(Append(s, d)) >= 1
    BY DEF Pieces
  <2> QED
    BY <1>1, <2>1, <2>2
<1> QED
  BY <1>2, <1>3

(* Chunk by chunk the ring takes what follows.                             *)
LEMMA RingTakes ==
  ASSUME NEW s, NEW base \in Nat, Held(s, base), NEW chunks, Parts(chunks),
         NEW f, Following(f, chunks, base)
  PROVE  Held(RingFold!Folded(0, s, chunks), base + Len(f[Len(chunks)]))
<1>1. /\ chunks \in Pieces /\ chunks \in Seq(Seq(Nat)) /\ s \in Pieces
      /\ f \in [0..Len(chunks) -> Seq(Nat)]
  BY DEF Parts, Held, Loose, Pieces, Following, Collections
<1>2. PICK n \in Nat : n = Len(chunks)
  BY <1>1
<1>3. PICK r \in [0..n -> Pieces] :
        RingFold!Accumulates(0, r, s, chunks) /\ RingFold!Folded(0, s, chunks) = r[n]
  BY <1>1, <1>2, RingKeeps, RingFold!FoldRuns
<1> DEFINE P(k) == Held(r[k], base + Len(f[k]))
           T == {k \in Nat : k <= n => P(k)}
<1>4. P(0)
  <2>1. r[0] = s /\ f[0] = <<>> /\ Len(<<>>) = 0 /\ base + 0 = base
    BY <1>3 DEF RingFold!Accumulates, Following, Collects
  <2> QED
    BY <2>1
<1>5. ASSUME NEW k \in Nat, k + 1 <= n, P(k) PROVE P(k + 1)
  <2>1. k + 1 \in 1..n /\ (k + 1) - 1 = k /\ k \in 0..n /\ k + 1 \in 0..n
    BY <1>5
  <2>2. r[k + 1] = Output!RingAppend(r[k], chunks[k + 1])
    BY <1>2, <1>3, <2>1 DEF RingFold!Accumulates, AppendStep
  <2>3. f[k + 1] = f[k] \o chunks[k + 1]
    BY <1>2, <2>1 DEF Following, Collects
  <2>4. PICK a, c : a = f[k] /\ c = chunks[k + 1]
    OBVIOUS
  <2>5. a \in Seq(Nat) /\ c \in Seq(Nat) /\ Len(c) <= Output!Piece
    <3>1. chunks[k + 1] \in Seq(Nat) /\ f[k] \in Seq(Nat)
      <4>1. \A i \in 1..n : chunks[i] \in Seq(Nat)
        BY <1>1, <1>2, ElementOfSeq
      <4>2. \A i \in 0..n : f[i] \in Seq(Nat)
        BY <1>1, <1>2
      <4> QED
        BY <2>1, <4>1, <4>2
    <3>2. Len(chunks[k + 1]) <= Output!Piece
      BY <1>2, <2>1 DEF Parts
    <3> QED
      BY <2>4, <3>1, <3>2
  <2>6. After(a \o c, base)
    BY <1>2, <2>1, <2>3, <2>4 DEF Following
  <2>7. After(c, base + Len(a))
    BY <2>5, <2>6, AfterSplits
  <2>8. Held(Output!RingAppend(r[k], c), (base + Len(a)) + Len(c))
    <3>1. base + Len(a) \in Nat
      BY <2>5
    <3> QED
      BY <1>5, <2>4, <2>5, <2>7, <3>1, RingAppendHolds
  <2>9. (base + Len(a)) + Len(c) = base + Len(a \o c)
    BY <2>5, ConcatProperties
  <2> QED
    BY <2>2, <2>3, <2>4, <2>8, <2>9
<1> HIDE DEF P
<1>6. 0 \in T /\ \A k \in Nat : k \in T => k + 1 \in T
  <2>1. ASSUME NEW k \in Nat, k \in T, k + 1 <= n PROVE P(k + 1)
    <3>1. k <= n
      BY <2>1
    <3> QED
      BY <1>5, <2>1, <3>1
  <2> QED
    BY <1>4, <2>1
<1>7. Nat \subseteq T
  <2> HIDE DEF T
  <2> QED
    BY <1>6, JoinFold!Induction
<1>8. P(n)
  BY <1>7
<1> QED
  BY <1>2, <1>3, <1>8 DEF P

(***************************************************************************)
(* The rescue: its reads follow one another, and they are all of it unless *)
(* it makes all the reads it may.                                          *)
(***************************************************************************)
(* Arithmetic of the reads: a quotient rounded up, a factor cancelled.     *)
LEMMA Quotient ==
  ASSUME NEW a \in Nat, NEW b \in Nat \ {0}
  PROVE  a \div b \in Nat /\ (a \div b) * b <= a /\ a < (a \div b) * b + b
OBVIOUS

LEMMA Cancel ==
  ASSUME NEW a \in Nat, NEW b \in Nat, NEW c \in Nat \ {0}, a * c < b * c + c
  PROVE  a <= b
<1> SUFFICES ASSUME a >= b + 1 PROVE FALSE
  OBVIOUS
<1>1. PICK d \in Nat : a = b + 1 + d
  <2>1. a - b - 1 \in Nat /\ a = b + 1 + (a - b - 1)
    OBVIOUS
  <2> QED
    BY <2>1
<1>2. a * c = b * c + c + d * c /\ d * c \in Nat /\ b * c \in Nat
  BY <1>1
<1> QED
  BY <1>2

LEMMA Multiples ==
  ASSUME NEW n \in Nat, NEW b \in Nat \ {0}
  PROVE  n * b \in Nat /\ (n + 1) * b = n * b + b /\ 0 * b = 0 /\ ((n + 1) - 1) * b = n * b
OBVIOUS

(* What a read returns follows what was read.                              *)
LEMMA RunAfter ==
  ASSUME NEW base \in Nat, NEW to \in Nat
  PROVE  /\ After(Output!Run(base + 1, to), base)
         /\ Len(Output!Run(base + 1, to)) = IF to < base THEN 0 ELSE to - base
<1>1. CASE to < base
  <2>1. (IF to < base + 1 THEN 0 ELSE to - (base + 1) + 1) = 0
    BY <1>1
  <2>2. Output!Run(base + 1, to) = [i \in 1..0 |-> base + 1 + i - 1]
    BY <2>1 DEF Output!Run
  <2>3. Output!Run(base + 1, to) = <<>>
    BY <2>2
  <2>4. PICK d : d = Output!Run(base + 1, to)
    OBVIOUS
  <2>5. d \in Seq(Nat) /\ Len(d) = 0 /\ \A i \in 1..0 : d[i] = base + i
    <3>1. d = <<>> /\ 1..0 = {}
      BY <2>3, <2>4
    <3>2. <<>> \in Seq(Nat) /\ Len(<<>>) = 0
      OBVIOUS
    <3> QED
      BY <3>1, <3>2
  <2>6. After(d, base)
    BY <2>5 DEF After
  <2> QED
    BY <1>1, <2>4, <2>5, <2>6
<1>2. CASE ~(to < base)
  <2>1. PICK n \in Nat : to = base + n
    <3>1. to - base \in Nat /\ to = base + (to - base)
      BY <1>2
    <3> QED
      BY <3>1
  <2>2. PICK d : d = Output!Run(base + 1, base + n)
    OBVIOUS
  <2>3. d \in Seq(Nat) /\ Len(d) = n /\ \A i \in 1..n : d[i] = base + i
    BY ONLY <2>2, base \in Nat, n \in Nat, NewRun
  <2>4. After(d, base)
    BY <2>3 DEF After
  <2> QED
    BY <1>2, <2>1, <2>2, <2>3, <2>4
<1> QED
  BY <1>1, <1>2

(* What the first i reads return.                                          *)
To(i) == IF i * DrainSize > Output!Drained THEN Output!Drained ELSE i * DrainSize
Told == Len(Output!DrainedChunks)

(* How many reads the rescue makes, and what each returns.                 *)
LEMMA DrainedIs ==
  ASSUME read \in Nat, written \in Nat, read <= written
  PROVE  /\ Output!Drained \in Nat /\ read + Output!Drained <= written
         /\ Told \in Nat /\ Output!DrainedChunks \in [1..Told -> Seq(Nat)]
         /\ \A n \in Nat : n + 1 <= Told =>
              LET d == Output!DrainedChunks[n + 1]
              IN  d = Output!Run((read + n * DrainSize) + 1, read + To(n + 1))
         /\ To(0) = 0 /\ To(Told) = Output!Drained
         /\ Told # DrainReads => read + Output!Drained = written
<1>1. DrainSize \in Nat \ {0} /\ DrainReads \in Nat \ {0}
  BY OutputConstants
<1> DEFINE D == Output!Drained
           q == (D + DrainSize - 1) \div DrainSize
<1>2. PICK budget \in Nat : budget = DrainSize * DrainReads
  BY <1>1
<1>3. D = IF written - read > budget THEN budget ELSE written - read
  BY <1>2 DEF Output!Drained
<1>4. D \in Nat /\ read + D <= written /\ (D = budget \/ read + D = written)
  BY <1>3
<1> HIDE DEF D
<1>5. /\ q \in Nat /\ q * DrainSize <= D + DrainSize - 1 /\ D + DrainSize - 1 < q * DrainSize + DrainSize
  <2>1. D + DrainSize - 1 \in Nat
    BY <1>1, <1>4
  <2> QED
    BY <1>1, <2>1, Quotient
<1> DEFINE chunk(i) == Output!Run(read + (i - 1) * DrainSize + 1,
                                  IF i * DrainSize > D THEN read + D ELSE read + i * DrainSize)
<1>6. Output!DrainedChunks = [i \in 1..q |-> chunk(i)]
  BY DEF Output!DrainedChunks, D
<1> HIDE DEF q
<1>7. ASSUME NEW n \in Nat
      PROVE  chunk(n + 1) = Output!Run((read + n * DrainSize) + 1, read + To(n + 1))
  BY <1>1, <1>4, <1>7, Multiples DEF To, D
<1>8. ASSUME NEW i \in 1..q PROVE chunk(i) \in Seq(Nat)
  <2>1. PICK n \in Nat : i = n + 1
    <3>1. i - 1 \in Nat /\ i = (i - 1) + 1
      OBVIOUS
    <3> QED
      BY <3>1
  <2>2. read + n * DrainSize \in Nat /\ read + To(n + 1) \in Nat
    <3>1. n * DrainSize \in Nat /\ (n + 1) * DrainSize \in Nat
      BY <1>1, Multiples
    <3> QED
      BY <1>4, <3>1 DEF To, D
  <2> HIDE DEF chunk
  <2> QED
    BY <1>7, <2>1, <2>2, RunAfter DEF After
<1> HIDE DEF chunk
<1>9. Output!DrainedChunks \in [1..q -> Seq(Nat)] /\ Told = q
  BY <1>5, <1>6, <1>8 DEF Told
<1>10. ASSUME NEW n \in Nat, n + 1 <= Told PROVE Output!DrainedChunks[n + 1] = chunk(n + 1)
  <2>1. n + 1 \in 1..q
    BY <1>5, <1>9, <1>10
  <2> QED
    BY <1>6, <2>1
<1>11. To(0) = 0
  BY <1>1, <1>4, Multiples DEF To, D
<1>12. To(Told) = D
  BY <1>1, <1>4, <1>5, <1>9 DEF To, D
<1>13. D = budget => Told = DrainReads
  <2> SUFFICES ASSUME D = budget PROVE q = DrainReads
    BY <1>9
  <2>1. D = DrainReads * DrainSize
    BY <1>1, <1>2
  <2>2. q * DrainSize < DrainReads * DrainSize + DrainSize
    BY <1>1, <1>4, <1>5, <2>1
  <2>3. DrainReads * DrainSize < q * DrainSize + DrainSize
    BY <1>1, <1>4, <1>5, <2>1
  <2>4. q <= DrainReads /\ DrainReads <= q
    BY <1>1, <1>5, <2>2, <2>3, Cancel
  <2> QED
    BY <1>1, <1>5, <2>4
<1> QED
  BY <1>4, <1>5, <1>7, <1>9, <1>10, <1>11, <1>12, <1>13 DEF D

(* The reads of the rescue, the first k of them, one after the other.      *)
LEMMA RescueFollows ==
  ASSUME read \in Nat, written \in Nat, read <= written, NEW k \in 0..Told
  PROVE  LET told == SubSeq(Output!DrainedChunks, 1, k)
         IN  /\ Parts(told) /\ Len(told) = k
             /\ \E f : /\ Following(f, told, read) /\ read + Len(f[k]) <= written
                       /\ k = Told /\ k # DrainReads => read + Len(f[k]) = written
<1> DEFINE told == SubSeq(Output!DrainedChunks, 1, k)
<1>1. DrainSize \in Nat \ {0} /\ DrainReads \in Nat \ {0}
  BY OutputConstants
<1>2. PICK D \in Nat : D = Output!Drained
  BY DrainedIs
<1>3. read + D <= written /\ Told \in Nat /\ Output!DrainedChunks \in [1..Told -> Seq(Nat)]
  BY <1>2, DrainedIs
<1>4. told \in Seq(Seq(Nat)) /\ Len(told) = k /\ \A i \in 1..k : told[i] = Output!DrainedChunks[i]
  <2>1. \A i \in 1..k : Output!DrainedChunks[i] \in Seq(Nat)
    BY <1>3
  <2> QED
    BY <1>3, <2>1, SubSeqProperties
<1> HIDE DEF told
<1>5. ASSUME NEW n \in Nat PROVE To(n) \in Nat /\ To(n) <= D /\ (To(n) = n * DrainSize \/ (To(n) = D /\ D < n * DrainSize))
  <2>1. n * DrainSize \in Nat
    BY <1>1, Multiples
  <2> QED
    BY <1>2, <2>1 DEF To
<1>6. ASSUME NEW n \in Nat, n + 1 <= k
      PROVE  /\ After(told[n + 1], read + To(n)) /\ Len(told[n + 1]) = To(n + 1) - To(n)
             /\ To(n) <= To(n + 1) /\ To(n + 1) - To(n) <= DrainSize
  <2>1. n + 1 \in 1..k /\ n + 1 <= Told
    BY <1>3, <1>6
  <2>2. told[n + 1] = Output!Run((read + n * DrainSize) + 1, read + To(n + 1))
    BY <1>4, <2>1, DrainedIs
  <2>3. PICK p \in Nat : p = n * DrainSize /\ (n + 1) * DrainSize = p + DrainSize
    BY <1>1, Multiples
  <2>4. PICK v \in Nat : v = To(n + 1) /\ v <= D /\ (v = p + DrainSize \/ (v = D /\ D < p + DrainSize))
    <3>1. n + 1 \in Nat
      OBVIOUS
    <3> QED
      BY <1>5, <2>3, <3>1
  <2>5. To(n) = IF p > D THEN D ELSE p
    BY <1>2, <2>3 DEF To
  <2>0. PICK c : c = told[n + 1]
    OBVIOUS
  <2>6. PICK start \in Nat, a \in Nat : start = read /\ a = To(n)
    BY <1>5
  <2>7. c = Output!Run((start + p) + 1, start + v)
    BY <2>0, <2>2, <2>3, <2>4, <2>6
  <2>8. After(c, start + p) /\ Len(c) = IF start + v < start + p THEN 0 ELSE (start + v) - (start + p)
    <3>1. start + p \in Nat /\ start + v \in Nat
      OBVIOUS
    <3> QED
      BY <2>7, <3>1, RunAfter
  <2>9. After(c, start + a) /\ Len(c) = v - a /\ a <= v /\ v - a <= DrainSize
    <3>1. CASE p <= D
      <4>1. a = p /\ v >= p /\ v - p <= DrainSize
        BY <1>1, <2>4, <2>5, <2>6, <3>1
      <4> QED
        BY <2>8, <4>1
    <3>2. CASE p > D
      <4>1. a = D /\ v = D /\ start + v < start + p
        BY <1>1, <2>4, <2>5, <2>6, <3>2
      <4>2. Len(c) = 0
        BY <2>8, <4>1
      <4>3. c \in Seq(Nat) /\ 1..0 = {}
        BY <2>8 DEF After
      <4>4. After(c, start + a)
        BY <4>2, <4>3 DEF After
      <4> QED
        BY <1>1, <4>1, <4>2, <4>4
    <3> QED
      BY <3>1, <3>2
  <2> QED
    BY <2>0, <2>4, <2>6, <2>9
<1>7. told \in Pieces
  BY <1>4 DEF Pieces
<1>8. Parts(told)
  <2>1. ASSUME NEW i \in 1..k PROVE Len(told[i]) <= Output!Piece
    <3>1. i - 1 \in Nat /\ (i - 1) + 1 = i /\ i <= k
      BY <1>3
    <3>2. PICK n \in Nat : n = i - 1
      BY <3>1
    <3>3. n + 1 = i
      BY <3>1, <3>2
    <3>4. Len(told[i]) = To(n + 1) - To(n) /\ To(n + 1) - To(n) <= DrainSize
      BY <1>6, <3>1, <3>3
    <3>5. To(n) \in Nat /\ To(n + 1) \in Nat
      BY <1>5
    <3> QED
      BY <1>1, <3>4, <3>5, PieceIs
  <2> QED
    BY <1>4, <1>7, <2>1 DEF Parts
<1>9. PICK f \in Collections(told) : Collects(f, told)
  BY <1>7, CollectionExists
<1>10. f[0] = <<>> /\ \A n \in Nat : n + 1 <= k => f[n + 1] = f[n] \o told[n + 1]
  <2>1. f[0] = <<>> /\ \A n \in 1..k : f[n] = f[n - 1] \o told[n]
    BY <1>4, <1>9 DEF Collects
  <2>2. ASSUME NEW n \in Nat, n + 1 <= k PROVE f[n + 1] = f[n] \o told[n + 1]
    <3>1. n + 1 \in 1..k /\ (n + 1) - 1 = n
      BY <1>3, <2>2
    <3> QED
      BY <2>1, <3>1
  <2> QED
    BY <2>1, <2>2
<1>11. \A n \in 0..k : f[n] \in Seq(Nat)
  BY <1>4, <1>9 DEF Collections
<1> DEFINE P(n) == After(f[n], read) /\ Len(f[n]) = To(n)
           T == {n \in Nat : n <= k => P(n)}
<1>12. P(0)
  <2>1. f[0] = <<>> /\ To(0) = 0 /\ Len(<<>>) = 0 /\ <<>> \in Seq(Nat) /\ 1..0 = {}
    BY <1>10, DrainedIs
  <2> QED
    BY <2>1 DEF After
<1>13. ASSUME NEW n \in Nat, n + 1 <= k, P(n) PROVE P(n + 1)
  <2>1. PICK a, c : a = f[n] /\ c = told[n + 1]
    OBVIOUS
  <2>2. a \in Seq(Nat) /\ After(a, read) /\ Len(a) = To(n)
    <3>1. n \in 0..k
      BY <1>3, <1>13
    <3> QED
      BY <1>11, <1>13, <2>1, <3>1
  <2>3. After(c, read + Len(a)) /\ Len(c) = To(n + 1) - To(n)
    BY <1>6, <1>13, <2>1, <2>2
  <2>4. After(a \o c, read) /\ Len(a \o c) = Len(a) + Len(c)
    BY <2>2, <2>3, AfterJoins
  <2>5. f[n + 1] = a \o c
    BY <1>10, <1>13, <2>1
  <2>6. To(n) \in Nat /\ To(n + 1) \in Nat
    BY <1>5
  <2> QED
    BY <2>2, <2>3, <2>4, <2>5, <2>6
<1> HIDE DEF P
<1>14. 0 \in T /\ \A n \in Nat : n \in T => n + 1 \in T
  <2>1. ASSUME NEW n \in Nat, n \in T, n + 1 <= k PROVE P(n + 1)
    <3>1. n <= k
      BY <1>3, <2>1
    <3> QED
      BY <1>13, <2>1, <3>1
  <2> QED
    BY <1>12, <2>1
<1>15. Nat \subseteq T
  <2> HIDE DEF T
  <2> QED
    BY <1>14, JoinFold!Induction
<1>16. \A n \in 0..k : P(n)
  BY <1>3, <1>15
<1>17. Following(f, told, read)
  BY <1>4, <1>9, <1>16 DEF Following, P
<1>18. read + Len(f[k]) <= written /\ (k = Told /\ k # DrainReads => read + Len(f[k]) = written)
  <2>1. k \in 0..k /\ k \in Nat
    BY <1>3
  <2>2. Len(f[k]) = To(k) /\ To(k) \in Nat /\ To(k) <= D
    BY <1>5, <1>16, <2>1 DEF P
  <2>3. To(Told) = D /\ (Told # DrainReads => read + D = written)
    BY <1>2, DrainedIs
  <2> QED
    BY <1>3, <2>2, <2>3
<1> QED
  BY <1>4, <1>8, <1>17, <1>18 DEF told

(***************************************************************************)
(* replayTail: the longest end of a text with fewer newlines than asked.   *)
(***************************************************************************)
BreaksFrom(text, i) == {j \in i..Len(text) : text[j] \in NewlineAt}

(* Cardinality is the same in the instance.                                *)
LEMMA CardinalityIs == \A S : Output!Cardinality(S) = Cardinality(S)
BY Zenon DEF Output!Cardinality, Cardinality, Output!IsFiniteSet, IsFiniteSet

(* The newlines of an end of a text, counted in the text.                  *)
LEMMA BreaksShift ==
  ASSUME NEW text \in Seq(Nat), NEW i \in 1..(Len(text) + 1)
  PROVE  /\ IsFiniteSet(BreaksFrom(text, i))
         /\ Output!Cardinality(Output!Breaks(SubSeq(text, i, Len(text)))) = Cardinality(BreaksFrom(text, i))
<1>1. PICK l \in Nat : l = Len(text)
  OBVIOUS
<1>2. i \in Nat /\ i >= 1 /\ i <= l + 1
  BY <1>1
<1> DEFINE u == SubSeq(text, i, l)
           n == l - i + 1
<1>3. u \in Seq(Nat) /\ Len(u) = n /\ \A j \in 1..n : u[j] = text[i + j - 1]
  <2>1. \A j \in i..l : text[j] \in Nat
    BY <1>1, <1>2
  <2>2. IF i <= l THEN Len(u) = n ELSE Len(u) = 0
    BY <1>2, <2>1, SubSeqProperties
  <2> QED
    BY <1>2, <2>1, <2>2, SubSeqProperties
<1> HIDE DEF u
<1> DEFINE S == Output!Breaks(u)
           B == BreaksFrom(text, i)
           f == [j \in S |-> i + j - 1]
<1>4. S = {j \in 1..n : text[i + j - 1] \in NewlineAt}
  BY <1>3 DEF Output!Breaks
<1>5. B = {j \in i..l : text[j] \in NewlineAt}
  BY <1>1 DEF BreaksFrom
<1> HIDE DEF S, B
<1>6. IsFiniteSet(S) /\ IsFiniteSet(B)
  <2>1. IsFiniteSet(1..n) /\ IsFiniteSet(i..l)
    <3>1. 1 \in Int /\ n \in Int /\ i \in Int /\ l \in Int
      BY <1>2
    <3> QED
      BY <3>1, FS_Interval
  <2>2. S \in SUBSET (1..n) /\ B \in SUBSET (i..l)
    BY <1>4, <1>5
  <2> QED
    BY <2>1, <2>2, FS_Subset
<1>7. f \in [S -> B]
  <2>1. ASSUME NEW j \in S PROVE i + j - 1 \in B
    BY <1>2, <1>4, <1>5
  <2> QED
    BY <2>1
<1>8. \A a, b \in S : f[a] = f[b] => a = b
  BY <1>2, <1>4
<1>9. ASSUME NEW b \in B PROVE \E a \in S : f[a] = b
  <2>1. b \in i..l /\ text[b] \in NewlineAt
    BY <1>5
  <2>2. b - i + 1 \in 1..n /\ i + (b - i + 1) - 1 = b
    BY <1>2, <2>1
  <2>3. b - i + 1 \in S
    BY <1>4, <2>1, <2>2
  <2> QED
    BY <2>2, <2>3
<1> HIDE DEF f
<1>10. f \in Bijection(S, B)
  BY <1>7, <1>8, <1>9 DEF Bijection, Injection, Surjection, IsInjective
<1>11. Cardinality(S) = Cardinality(B)
  BY <1>6, <1>10, FS_Bijection DEF ExistsBijection
<1> QED
  BY <1>1, <1>6, <1>11, CardinalityIs DEF S, B, u

(* lastIndexOf finds the last newline up to a position.                    *)
LEMMA LastNewlineIs ==
  ASSUME NEW text \in Seq(Nat), NEW pos \in Nat, pos <= Len(text)
  PROVE  LET m == Output!LastNewline(text, pos)
         IN  \/ m = 0 /\ \A j \in 1..pos : text[j] \notin NewlineAt
             \/ /\ m \in 1..pos /\ text[m] \in NewlineAt
                /\ \A j \in (m + 1)..pos : text[j] \notin NewlineAt
<1> DEFINE at == {i \in 1..pos : text[i] \in NewlineAt}
           T == {k \in 0..pos : pos - k \in at}
<1>1. Output!LastNewline(text, pos) = IF at = {} THEN 0 ELSE CHOOSE i \in at : \A j \in at : j <= i
  BY DEF Output!LastNewline
<1>2. CASE at = {}
  BY <1>1, <1>2
<1>3. CASE at # {}
  <2>1. T \subseteq Nat
    OBVIOUS
  <2>2. T # {}
    <3>1. PICK i \in at : TRUE
      BY <1>3
    <3>2. pos - i \in 0..pos /\ pos - (pos - i) = i
      OBVIOUS
    <3> QED
      BY <3>2
  <2>3. PICK k \in T : \A j \in T : k <= j
    <3> HIDE DEF T
    <3> QED
      BY <2>1, <2>2, JoinFold!LeastNatural
  <2>4. pos - k \in at
    OBVIOUS
  <2>5. ASSUME NEW j \in at PROVE j <= pos - k
    <3>1. pos - j \in 0..pos /\ pos - (pos - j) = j
      OBVIOUS
    <3>2. pos - j \in T /\ j \in Int /\ k \in Int
      BY <3>1
    <3>3. k <= pos - j
      <4> HIDE DEF T
      <4> QED
        BY <2>3, <3>2
    <3> HIDE DEF at
    <3> QED
      BY <3>2, <3>3
  <2>6. PICK m : m = CHOOSE i \in at : \A j \in at : j <= i
    OBVIOUS
  <2>7. m \in at /\ \A j \in at : j <= m
    <3> HIDE DEF at
    <3> QED
      BY <2>4, <2>5, <2>6
  <2>8. ASSUME NEW j \in (m + 1)..pos PROVE text[j] \notin NewlineAt
    <3>1. j \in 1..pos /\ ~(j <= m)
      BY <2>7
    <3> QED
      BY <2>7, <3>1
  <2>9. Output!LastNewline(text, pos) = m
    BY <1>1, <1>3, <2>6
  <2>10. m \in 1..pos /\ text[m] \in NewlineAt
    BY <2>7
  <2> HIDE DEF at, T
  <2> QED
    BY <2>8, <2>9, <2>10
<1> QED
  BY <1>2, <1>3

(* The search for the newlines from the end of a text.                     *)
Back(pos, text) == IF pos = 0 THEN 0 ELSE Output!LastNewline(text, pos - 1)
BackFold == INSTANCE FoldProofs WITH Op <- LAMBDA c, x, y : Back(x, y)

(* The repetition of the search is a run of that fold.                     *)
LEMMA SearchIs ==
  ASSUME NEW text \in Seq(Nat), NEW n \in Nat
  PROVE  \E f \in [0..n -> 0..(Len(text) + 1)] :
           /\ f[0] = Len(text) + 1 /\ \A k \in 1..n : f[k] = Back(f[k - 1], text)
           /\ Output!NthNewline(text, n) = f[n]
<1> DEFINE S == 0..(Len(text) + 1)
           s == [i \in 1..n |-> text]
<1>1. BackFold!Keeps(0, S, {text})
  <2> SUFFICES ASSUME NEW pos \in S, pos # 0 PROVE Output!LastNewline(text, pos - 1) \in S
    BY DEF BackFold!Keeps, Back
  <2>1. pos - 1 \in Nat /\ pos - 1 <= Len(text)
    OBVIOUS
  <2>2. PICK m : m = Output!LastNewline(text, pos - 1)
    OBVIOUS
  <2>3. m = 0 \/ m \in 1..(pos - 1)
    BY <2>1, <2>2, LastNewlineIs
  <2> QED
    BY <2>1, <2>2, <2>3
<1>2. s \in Seq({text}) /\ Len(s) = n /\ \A k \in 1..n : s[k] = text
  OBVIOUS
<1>3. Len(text) + 1 \in S
  OBVIOUS
<1> HIDE DEF S, s
<1>4. PICK f \in [0..n -> S] : BackFold!Accumulates(0, f, Len(text) + 1, s)
  BY <1>1, <1>2, <1>3, BackFold!FoldRuns
<1>5. f[0] = Len(text) + 1 /\ \A k \in 1..n : f[k] = Back(f[k - 1], text)
  BY <1>2, <1>4 DEF BackFold!Accumulates
<1> DEFINE Search(h) == [i \in 0..n |-> IF i = 0 THEN Len(text) + 1
                           ELSE IF h[i - 1] = 0 THEN 0 ELSE Output!LastNewline(text, h[i - 1] - 1)]
           g == CHOOSE h : h = Search(h)
<1>6. f = Search(f)
  BY <1>4, <1>5 DEF Back
<1>7. Output!NthNewline(text, n) = g[n]
  BY DEF Output!NthNewline
<1>8. g = Search(g)
  BY <1>6
<1> HIDE DEF g
<1>9. g[0] = Len(text) + 1 /\ \A k \in 1..n : g[k] = Back(g[k - 1], text)
  <2>1. g[0] = Len(text) + 1
    <3>1. 0 \in 0..n
      OBVIOUS
    <3> QED
      BY <1>8, <3>1
  <2>2. ASSUME NEW k \in 1..n PROVE g[k] = Back(g[k - 1], text)
    <3>1. k \in 0..n /\ k # 0
      OBVIOUS
    <3>2. Search(g)[k] = IF g[k - 1] = 0 THEN 0 ELSE Output!LastNewline(text, g[k - 1] - 1)
      BY <3>1
    <3> HIDE DEF Search
    <3> QED
      BY <1>8, <3>2 DEF Back
  <2> QED
    BY <2>1, <2>2
<1> DEFINE T == {k \in Nat : k <= n => g[k] = f[k]}
<1>10. 0 \in T /\ \A k \in Nat : k \in T => k + 1 \in T
  <2>1. 0 \in T
    BY <1>5, <1>9
  <2>2. ASSUME NEW k \in Nat, k \in T, k + 1 <= n PROVE g[k + 1] = f[k + 1]
    <3>1. k + 1 \in 1..n /\ (k + 1) - 1 = k /\ k <= n
      BY <2>2
    <3> QED
      BY <1>5, <1>9, <2>2, <3>1
  <2> QED
    BY <2>1, <2>2
<1>11. Nat \subseteq T
  <2> HIDE DEF T
  <2> QED
    BY <1>10, JoinFold!Induction
<1>12. g[n] = f[n]
  BY <1>11
<1> QED
  BY <1>4, <1>5, <1>7, <1>12 DEF S

(* After k newlines from the end, or after all there are.                  *)
Found(text, p, k) ==
  /\ p > 0 => Cardinality(BreaksFrom(text, p)) = k
  /\ p = 0 => Cardinality(BreaksFrom(text, 1)) < k
  /\ p > 0 /\ k > 0 => p <= Len(text) /\ text[p] \in NewlineAt

(* What the repetition has found, by induction.                            *)
LEMMA Searched ==
  ASSUME NEW text \in Seq(Nat), NEW n \in Nat,
         NEW f \in [0..n -> 0..(Len(text) + 1)],
         f[0] = Len(text) + 1 /\ \A k \in 1..n : f[k] = Back(f[k - 1], text)
  PROVE  Found(text, f[n], n)
<1>1. PICK l \in Nat : l = Len(text)
  OBVIOUS
<1> DEFINE P(k) == Found(text, f[k], k)
           T == {k \in Nat : k <= n => P(k)}
<1>2. P(0)
  <2>1. BreaksFrom(text, l + 1) = {} /\ Cardinality({}) = 0 /\ f[0] = l + 1
    BY <1>1, FS_EmptySet DEF BreaksFrom
  <2>2. ~(l + 1 = 0) /\ ~(0 > 0)
    OBVIOUS
  <2>3. Found(text, l + 1, 0)
    BY <2>1, <2>2, Zenon DEF Found
  <2> QED
    BY <2>1, <2>3
<1>3. ASSUME NEW k \in Nat, k + 1 <= n, P(k) PROVE P(k + 1)
  <2>1. k + 1 \in 1..n /\ (k + 1) - 1 = k /\ k \in 0..n
    BY <1>3
  <2>2. PICK p \in 0..(l + 1) : p = f[k]
    BY <1>1, <2>1
  <2>3. PICK m : m = f[k + 1] /\ m = Back(p, text)
    BY <2>1, <2>2
  <2>4. Found(text, p, k)
    BY <1>3, <2>2
  <2>5. IsFiniteSet(BreaksFrom(text, 1))
    <3>1. 1 \in 1..(Len(text) + 1)
      BY <1>1
    <3> QED
      BY <3>1, BreaksShift
  <2>6. Cardinality(BreaksFrom(text, 1)) \in Nat
    BY <2>5, FS_CardinalityType
  <2>7. CASE p = 0
    <3>1. m = 0 /\ Cardinality(BreaksFrom(text, 1)) < k
      BY <2>3, <2>4, <2>7 DEF Back, Found
    <3>2. Cardinality(BreaksFrom(text, 1)) < k + 1
      BY <2>6, <3>1
    <3> QED
      BY <2>3, <3>1, <3>2 DEF Found
  <2>8. CASE p # 0
    <3>1. p - 1 \in Nat /\ p - 1 <= Len(text) /\ p > 0 /\ p \in 1..(Len(text) + 1)
      BY <1>1, <2>8
    <3>2. m = Output!LastNewline(text, p - 1) /\ Cardinality(BreaksFrom(text, p)) = k
      BY <2>3, <2>4, <2>8, <3>1 DEF Back, Found
    <3>3. \/ m = 0 /\ \A j \in 1..(p - 1) : text[j] \notin NewlineAt
          \/ /\ m \in 1..(p - 1) /\ text[m] \in NewlineAt
             /\ \A j \in (m + 1)..(p - 1) : text[j] \notin NewlineAt
      BY <3>1, <3>2, LastNewlineIs
    <3>4. CASE m = 0 /\ \A j \in 1..(p - 1) : text[j] \notin NewlineAt
      <4>1. ASSUME NEW j \in 1..l, text[j] \in NewlineAt PROVE j \in p..l
        <5>1. ~(j \in 1..(p - 1)) /\ j \in Int
          BY <3>4, <4>1
        <5> QED
          BY <5>1
      <4>2. BreaksFrom(text, 1) = BreaksFrom(text, p)
        BY <1>1, <3>1, <4>1 DEF BreaksFrom
      <4> QED
        BY <2>3, <3>2, <3>4, <4>2 DEF Found
    <3>5. CASE /\ m \in 1..(p - 1) /\ text[m] \in NewlineAt
               /\ \A j \in (m + 1)..(p - 1) : text[j] \notin NewlineAt
      <4>1. m \in 1..l /\ m \in 1..(Len(text) + 1) /\ m > 0 /\ m < p /\ m \in Nat
        BY <1>1, <3>1, <3>5
      <4>2. ASSUME NEW j \in m..l, text[j] \in NewlineAt, j # m PROVE j \in p..l
        <5>1. ~(j \in (m + 1)..(p - 1)) /\ j \in Int /\ j >= m + 1
          BY <3>5, <4>1, <4>2
        <5> QED
          BY <3>1, <4>1, <5>1
      <4>3. BreaksFrom(text, m) = BreaksFrom(text, p) \cup {m} /\ m \notin BreaksFrom(text, p)
        <5>1. ASSUME NEW j PROVE j \in BreaksFrom(text, m) <=> j \in BreaksFrom(text, p) \cup {m}
          <6>1. CASE j = m
            BY <1>1, <3>5, <4>1, <6>1 DEF BreaksFrom
          <6>2. CASE j # m /\ j \in BreaksFrom(text, m)
            BY <1>1, <4>2, <6>2 DEF BreaksFrom
          <6>3. CASE j # m /\ j \in BreaksFrom(text, p)
            BY <1>1, <3>1, <4>1, <6>3 DEF BreaksFrom
          <6> QED
            BY <6>1, <6>2, <6>3
        <5>2. m \notin BreaksFrom(text, p)
          BY <3>1, <4>1 DEF BreaksFrom
        <5> QED
          BY <5>1, <5>2
      <4>4. Cardinality(BreaksFrom(text, m)) = k + 1
        <5>1. IsFiniteSet(BreaksFrom(text, p))
          BY <3>1, BreaksShift
        <5>2. Cardinality(BreaksFrom(text, p) \cup {m}) = Cardinality(BreaksFrom(text, p)) + 1
          BY ONLY <4>3, <5>1, FS_AddElement
        <5> QED
          BY ONLY <3>2, <4>3, <5>2
      <4> QED
        BY <1>1, <2>3, <3>5, <4>1, <4>4 DEF Found
    <3> QED
      BY <3>3, <3>4, <3>5
  <2> QED
    BY <2>7, <2>8
<1> HIDE DEF P
<1>4. 0 \in T /\ \A k \in Nat : k \in T => k + 1 \in T
  <2>1. ASSUME NEW k \in Nat, k \in T, k + 1 <= n PROVE P(k + 1)
    <3>1. k <= n
      BY <2>1
    <3> QED
      BY <1>3, <2>1, <3>1
  <2> QED
    BY <1>2, <2>1
<1>5. Nat \subseteq T
  <2> HIDE DEF T
  <2> QED
    BY <1>4, JoinFold!Induction
<1> QED
  BY <1>5 DEF P

(* So the replay is the longest end with fewer newlines.                   *)
LEMMA ReplayIsLast ==
  ASSUME NEW text \in Seq(Nat)
  PROVE  /\ Output!ReplayTail(text, ReplayLines) = Output!LastLines(text)
         /\ \E k \in 1..(Len(text) + 1) : Output!ReplayTail(text, ReplayLines) = SubSeq(text, k, Len(text))
<1>1. PICK l \in Nat, n \in Nat : l = Len(text) /\ n = ReplayLines /\ n >= 1
  BY OutputConstants
<1>2. PICK f \in [0..n -> 0..(Len(text) + 1)] :
        /\ f[0] = Len(text) + 1 /\ \A k \in 1..n : f[k] = Back(f[k - 1], text)
        /\ Output!NthNewline(text, n) = f[n]
  BY SearchIs
<1>3. PICK p \in 0..(l + 1) : p = Output!NthNewline(text, n)
  BY <1>1, <1>2
<1>4. Found(text, p, n)
  BY <1>2, <1>3, Searched
<1>5. p <= l
  BY <1>1, <1>4 DEF Found
<1> DEFINE Few(i) == Cardinality(BreaksFrom(text, i)) < n
           first == CHOOSE i \in 1..(l + 1) : Few(i) /\ \A j \in 1..(i - 1) : ~Few(j)
<1>6. Few(p + 1)
  <2>1. CASE p = 0
    BY <1>4, <2>1 DEF Found
  <2>2. CASE p # 0
    <3>1. p > 0 /\ p \in 1..(Len(text) + 1)
      BY <1>1, <2>2
    <3>2. Cardinality(BreaksFrom(text, p)) = n /\ text[p] \in NewlineAt /\ IsFiniteSet(BreaksFrom(text, p))
      BY <1>1, <1>4, <3>1, BreaksShift DEF Found
    <3>3. p \in BreaksFrom(text, p) /\ BreaksFrom(text, p + 1) = BreaksFrom(text, p) \ {p}
      BY <1>1, <1>5, <3>1, <3>2 DEF BreaksFrom
    <3>4. Cardinality(BreaksFrom(text, p + 1)) = n - 1
      BY <3>2, <3>3, FS_RemoveElement
    <3> QED
      BY <1>1, <3>4
  <2> QED
    BY <2>1, <2>2
<1>7. ASSUME NEW j \in 1..p PROVE ~Few(j)
  <2>1. p > 0 /\ j \in 1..(Len(text) + 1) /\ p \in 1..(Len(text) + 1)
    BY <1>1, <1>5
  <2>2. Cardinality(BreaksFrom(text, p)) = n /\ IsFiniteSet(BreaksFrom(text, j))
    BY <1>4, <2>1, BreaksShift DEF Found
  <2>3. BreaksFrom(text, p) \in SUBSET BreaksFrom(text, j)
    BY <1>1, <1>5 DEF BreaksFrom
  <2>4. Cardinality(BreaksFrom(text, p)) <= Cardinality(BreaksFrom(text, j)) /\ Cardinality(BreaksFrom(text, j)) \in Nat
    BY <2>2, <2>3, FS_Subset, FS_CardinalityType
  <2> QED
    BY <2>2, <2>4
<1> HIDE DEF Few
<1>8. first = p + 1
  <2>1. p + 1 \in 1..(l + 1) /\ (p + 1) - 1 = p
    BY <1>5
  <2>2. ASSUME NEW i \in 1..(l + 1), Few(i), \A j \in 1..(i - 1) : ~Few(j) PROVE i = p + 1
    <3>1. ~(i \in 1..p) /\ ~(p + 1 \in 1..(i - 1))
      BY <1>6, <1>7, <2>2
    <3> QED
      BY <2>1, <3>1
  <2> QED
    BY <1>6, <1>7, <2>1, <2>2
<1>9. Output!LastLines(text) = SubSeq(text, first, l)
  <2>1. \A i \in 1..(l + 1) :
          Few(i) = (Output!Cardinality(Output!Breaks(SubSeq(text, i, Len(text)))) < ReplayLines)
    BY <1>1, BreaksShift DEF Few
  <2>2. \A i \in 1..(l + 1) : \A j \in 1..(i - 1) : j \in 1..(l + 1)
    OBVIOUS
  <2> DEFINE Fewer(i) == Output!Cardinality(Output!Breaks(SubSeq(text, i, Len(text)))) < ReplayLines
             other == CHOOSE i \in 1..(l + 1) : Fewer(i) /\ \A j \in 1..(i - 1) : ~Fewer(j)
  <2>3. Output!LastLines(text) = SubSeq(text, other, l)
    BY <1>1 DEF Output!LastLines
  <2>4. \A i \in 1..(l + 1) : Few(i) = Fewer(i)
    BY <2>1
  <2> HIDE DEF Fewer
  <2>5. \A i \in 1..(l + 1) : (Fewer(i) /\ \A j \in 1..(i - 1) : ~Fewer(j)) = (Few(i) /\ \A j \in 1..(i - 1) : ~Few(j))
    BY <2>2, <2>4
  <2>6. other = first
    BY <2>5
  <2> QED
    BY <2>3, <2>6
<1>10. Output!ReplayTail(text, ReplayLines) = SubSeq(text, p + 1, l)
  BY <1>1, <1>3 DEF Output!ReplayTail
<1>11. p + 1 \in 1..(Len(text) + 1)
  BY <1>1, <1>5
<1> HIDE DEF first
<1> QED
  BY <1>1, <1>8, <1>9, <1>10, <1>11, Zenon

(***************************************************************************)
(* The way of the output. What the windows show ends where the reading is, *)
(* and so does the ring; what a closed terminal kept back is in the log.   *)
(***************************************************************************)
Views == [Clients -> [on : BOOLEAN, text : Seq(Nat), exit : BOOLEAN]]
OutputInv ==
  /\ read \in Nat /\ written \in Nat /\ read <= written
  /\ Held(ring, read)
  /\ view \in Views /\ \A c \in Clients : view[c].on => Ending(view[c].text, read)
  /\ exited \in BOOLEAN /\ (exited => master = "closed")
  /\ master = "closed" /\ ~cut => read = written

(* An empty ring, and the initial states.                                  *)
LEMMA NothingHeld == Held(<<>>, 0)
<1>1. <<>> \in Pieces /\ Len(<<>>) = 0 /\ 1..0 = {}
  BY DEF Pieces
<1>2. Parts(<<>>) /\ Ending(<<>>, 0)
  BY <1>1 DEF Parts, Ending
<1> QED
  BY <1>1, <1>2, ContentsOfFew, OutputConstants DEF Held, Loose

LEMMA OutputStarts == MCInit => OutputInv
<1> SUFFICES ASSUME MCInit PROVE OutputInv
  OBVIOUS
<1>1. /\ written = 0 /\ read = 0 /\ master = "open" /\ exited = FALSE /\ ring = <<>>
      /\ view = [c \in Clients |-> Output!Detached]
  BY DEF MCInit, Output!Init
<1>2. Output!Detached \in [on : BOOLEAN, text : Seq(Nat), exit : BOOLEAN] /\ Output!Detached.on = FALSE
  BY DEF Output!Detached
<1>3. view \in Views /\ \A c \in Clients : ~view[c].on
  BY <1>1, <1>2 DEF Views
<1>4. Held(ring, read)
  BY <1>1, NothingHeld
<1>5. read \in Nat /\ written \in Nat /\ read <= written /\ read = written
  BY <1>1
<1>6. exited \in BOOLEAN /\ ~exited
  BY <1>1, Zenon
<1> QED
  BY <1>3, <1>4, <1>5, <1>6, Zenon DEF OutputInv

(* What handleOutput does to the ring and the windows.                     *)
LEMMA OutputHandled ==
  ASSUME OutputInv, NEW chunks, Parts(chunks), NEW f, Following(f, chunks, read),
         Output!HandleOutput(chunks), NEW n \in Nat, n = Len(f[Len(chunks)]), read' = read + n
  PROVE  /\ Held(ring', read') /\ Output!Contents(chunks) = f[Len(chunks)]
         /\ view' \in Views /\ \A c \in Clients : view'[c].on => Ending(view'[c].text, read')
<1>1. read \in Nat /\ Held(ring, read)
  BY DEF OutputInv
<1>2. Held(ring', read')
  BY <1>1, RingIsAFold, RingTakes
<1>3. chunks \in Pieces /\ Len(chunks) \in Nat
  BY DEF Parts, Pieces
<1>4. Output!Contents(chunks) = f[Len(chunks)]
  BY <1>3, ContentsIs DEF Following
<1>5. After(f[Len(chunks)], read)
  <2>1. Len(chunks) \in 0..Len(chunks)
    BY <1>3
  <2> QED
    BY <2>1 DEF Following
<1>6. PICK d : d = Output!Contents(chunks)
  OBVIOUS
<1>7. After(d, read) /\ Len(d) = n /\ d \in Seq(Nat)
  BY <1>4, <1>5, <1>6 DEF After
<1>8. view' = [c \in Clients |-> IF view[c].on THEN [view[c] EXCEPT !.text = @ \o d] ELSE view[c]]
  BY <1>6 DEF Output!HandleOutput
<1>9. ASSUME NEW c \in Clients
      PROVE  /\ view'[c] \in [on : BOOLEAN, text : Seq(Nat), exit : BOOLEAN]
             /\ view'[c].on => Ending(view'[c].text, read')
  <2>1. PICK v \in [on : BOOLEAN, text : Seq(Nat), exit : BOOLEAN] : v = view[c]
    BY DEF OutputInv, Views
  <2>2. CASE v.on
    <3>1. view'[c] = [v EXCEPT !.text = v.text \o d]
      BY <1>8, <2>1, <2>2
    <3>2. v.text \in Seq(Nat) /\ Ending(v.text, read)
      BY <2>1, <2>2 DEF OutputInv
    <3>3. v.text \o d \in Seq(Nat) /\ Ending(v.text \o d, read + n)
      <4>1. PICK w \in Seq(Nat), at \in Nat : w = v.text /\ at = read
        BY <1>1, <3>2
      <4>2. Ending(w \o d, at + Len(d))
        BY <1>7, <3>2, <4>1, EndingGrows
      <4>3. w \o d \in Seq(Nat)
        BY <1>7, <4>1, ConcatProperties
      <4> QED
        BY <1>7, <4>1, <4>2, <4>3
    <3>4. PICK u \in Seq(Nat) : u = v.text \o d
      BY <3>3
    <3>5. view'[c] = [v EXCEPT !.text = u]
      BY <3>1, <3>4
    <3>6. view'[c].text = u /\ view'[c] \in [on : BOOLEAN, text : Seq(Nat), exit : BOOLEAN]
      BY <3>5
    <3> QED
      BY <3>3, <3>4, <3>6
  <2>3. CASE ~v.on
    BY <1>8, <2>1, <2>3
  <2> QED
    BY <2>2, <2>3
<1>10. view' \in Views
  BY <1>8, <1>9 DEF Views
<1> QED
  BY <1>2, <1>4, <1>9, <1>10

(* One lemma for each kind of step.                                        *)
LEMMA ReadsTakes ==
  ASSUME OutputInv, NEW n \in Nat, Output!Reads(n)
  PROVE  OutputInv'
<1>1. /\ master = "open" /\ n > 0 /\ read + n <= written /\ n <= ReadSize
      /\ Output!HandleOutput(<<Output!Run(read + 1, read + n)>>) /\ read' = read + n
      /\ UNCHANGED <<written, alive, master, cut, exited>>
  BY OutputConstants DEF Output!Reads
<1>2. read \in Nat /\ written \in Nat /\ exited \in BOOLEAN /\ (exited => master = "closed")
  BY DEF OutputInv
<1>3. PICK d : d = Output!Run(read + 1, read + n)
  OBVIOUS
<1>4. After(d, read) /\ Len(d) = n /\ d \in Seq(Nat)
  <2>1. read + n \in Nat /\ ~(read + n < read) /\ (read + n) - read = n
    BY <1>2
  <2> QED
    BY <1>2, <1>3, <2>1, RunAfter DEF After
<1> DEFINE s == <<d>>
           f == [i \in 0..1 |-> IF i = 0 THEN <<>> ELSE d]
<1>5. s \in Pieces /\ Len(s) = 1 /\ s[1] = d
  BY <1>4 DEF Pieces
<1>6. Parts(s)
  <2>1. n <= Output!Piece
    BY <1>1, PieceIs, OutputConstants
  <2> HIDE DEF s
  <2>2. ASSUME NEW i \in 1..1 PROVE Len(s[i]) <= Output!Piece
    <3>1. i = 1
      OBVIOUS
    <3> QED
      BY <1>4, <1>5, <2>1, <3>1
  <2> QED
    BY <1>5, <2>2 DEF Parts
<1>7. f[0] = <<>> /\ f[1] = d /\ f \in [0..1 -> Seq(Nat)]
  <2>1. <<>> \in Seq(Nat)
    OBVIOUS
  <2> QED
    BY <1>4, <2>1
<1> HIDE DEF s, f
<1>8. Following(f, s, read)
  <2>1. After(<<>>, read)
    <3>1. <<>> \in Seq(Nat) /\ Len(<<>>) = 0 /\ 1..0 = {}
      OBVIOUS
    <3> QED
      BY <3>1 DEF After
  <2>2. <<>> \o d = d
    BY <1>4, ConcatEmptySeq
  <2>3. Collects(f, s)
    <3>1. ASSUME NEW i \in 1..1 PROVE f[i] = f[i - 1] \o s[i]
      <4>1. i = 1 /\ i - 1 = 0
        OBVIOUS
      <4> QED
        BY <1>5, <1>7, <2>2, <4>1
    <3> QED
      BY <1>5, <1>7, <3>1 DEF Collects
  <2>4. \A i \in 0..1 : After(f[i], read)
    <3>1. \A i \in 0..1 : i = 0 \/ i = 1
      OBVIOUS
    <3> QED
      BY <1>4, <1>7, <2>1, <3>1
  <2> QED
    BY <1>5, <1>7, <2>3, <2>4 DEF Following, Collections
<1>9. /\ Held(ring', read')
      /\ view' \in Views /\ \A c \in Clients : view'[c].on => Ending(view'[c].text, read')
  <2>1. Output!HandleOutput(s) /\ n = Len(f[Len(s)])
    BY <1>1, <1>3, <1>4, <1>5, <1>7 DEF s
  <2> QED
    BY <1>1, <1>6, <1>8, <2>1, OutputHandled
<1> QED
  BY <1>1, <1>2, <1>9 DEF OutputInv

LEMMA DestroyTakes ==
  ASSUME OutputInv, Output!Destroy
  PROVE  OutputInv'
<1>0. read \in Nat /\ written \in Nat /\ read <= written /\ exited \in BOOLEAN /\ (exited => master = "closed")
  BY DEF OutputInv
<1>1. /\ master = "open" /\ master' = "closed" /\ UNCHANGED <<written, alive, exited>>
  BY DEF Output!Destroy
<1>2. PICK k \in 0..Told : LET told == SubSeq(Output!DrainedChunks, 1, k)
                           IN  /\ Output!HandleOutput(told)
                               /\ read' = read + Len(Output!Contents(told))
                               /\ cut' = (k < Told \/ k = DrainReads)
  BY DEF Output!Destroy, Told
<1> DEFINE told == SubSeq(Output!DrainedChunks, 1, k)
<1>3. Parts(told) /\ Len(told) = k
  BY <1>0, RescueFollows
<1>4. PICK f : /\ Following(f, told, read) /\ read + Len(f[k]) <= written
               /\ k = Told /\ k # DrainReads => read + Len(f[k]) = written
  BY <1>0, RescueFollows
<1>5. Output!HandleOutput(told) /\ read' = read + Len(Output!Contents(told)) /\ cut' = (k < Told \/ k = DrainReads)
  BY <1>2
<1> HIDE DEF told
<1>6. told \in Pieces
  BY <1>3 DEF Parts
<1>7. Output!Contents(told) = f[k]
  BY <1>3, <1>4, <1>6, ContentsIs DEF Following
<1>8. PICK n \in Nat : n = Len(f[k])
  <2>1. Output!Contents(told) \in Seq(Nat)
    BY <1>6, ContentsIsText
  <2> QED
    BY <1>7, <2>1
<1>9. read' = read + n /\ n = Len(f[Len(told)])
  BY <1>3, <1>5, <1>7, <1>8
<1>10. /\ Held(ring', read')
       /\ view' \in Views /\ \A c \in Clients : view'[c].on => Ending(view'[c].text, read')
  BY <1>3, <1>4, <1>5, <1>9, OutputHandled
<1>11. ~cut' => read' = written
  <2>1. ASSUME ~cut' PROVE read' = written
    <3>1. ~(k < Told) /\ k # DrainReads
      BY <1>5, <2>1
    <3>2. Told \in Nat
      BY <1>0, DrainedIs
    <3>3. k = Told
      BY <3>1, <3>2
    <3> QED
      BY <1>4, <1>8, <1>9, <3>1, <3>3
  <2> QED
    BY <2>1
<1>12. read' \in Nat /\ read' <= written
  BY <1>0, <1>4, <1>8, <1>9
<1> QED
  BY <1>0, <1>1, <1>10, <1>11, <1>12 DEF OutputInv

LEMMA AttachTakes ==
  ASSUME OutputInv, NEW c \in Clients, Output!Attach(c)
  PROVE  OutputInv' /\ view'[c].text = Output!LastLines(Output!Contents(ring)) /\ \A d \in Clients \ {c} : view'[d] = view[d]
<1> DEFINE t == Output!Contents(ring)
           u == Output!ReplayTail(t, ReplayLines)
<1>1. /\ view' = [view EXCEPT ![c] = [on |-> TRUE, text |-> u, exit |-> exited]]
      /\ UNCHANGED <<written, alive, read, master, cut, exited, ring>>
  BY DEF Output!Attach
<1>2. read \in Nat /\ view \in Views /\ ring \in Pieces /\ Ending(t, read)
  BY DEF OutputInv, Held, Loose, Parts
<1>3. t \in Seq(Nat)
  BY <1>2, ContentsIsText
<1> HIDE DEF t
<1>4. u = Output!LastLines(t)
  BY <1>3, ReplayIsLast
<1>5. PICK k \in 1..(Len(t) + 1) : u = SubSeq(t, k, Len(t))
  BY <1>3, ReplayIsLast
<1> HIDE DEF u
<1>6. u \in Seq(Nat) /\ Ending(u, read)
  BY <1>2, <1>3, <1>5, EndingOfEnd
<1>7. [on |-> TRUE, text |-> u, exit |-> exited] \in [on : BOOLEAN, text : Seq(Nat), exit : BOOLEAN]
  BY <1>6 DEF OutputInv
<1>8. PICK x \in [on : BOOLEAN, text : Seq(Nat), exit : BOOLEAN] :
        x = [on |-> TRUE, text |-> u, exit |-> exited] /\ x.text = u
  BY <1>7
<1>9. view' = [view EXCEPT ![c] = x]
  BY <1>1, <1>8
<1>10. view' \in Views /\ view'[c] = x /\ \A d \in Clients \ {c} : view'[d] = view[d]
  BY <1>2, <1>9 DEF Views
<1>11. \A d \in Clients : view'[d].on => Ending(view'[d].text, read)
  <2>1. \A d \in Clients : view[d].on => Ending(view[d].text, read)
    BY DEF OutputInv
  <2> QED
    BY <1>6, <1>8, <1>10, <2>1
<1>12. OutputInv'
  BY <1>1, <1>10, <1>11 DEF OutputInv
<1> QED
  BY <1>4, <1>8, <1>10, <1>12 DEF t

LEMMA ExitTakes ==
  ASSUME OutputInv, Output!Exit
  PROVE  OutputInv' /\ \A c \in Clients : view'[c].on = view[c].on
<1>1. /\ master = "closed" /\ exited' = TRUE
      /\ view' = [c \in Clients |-> [view[c] EXCEPT !.exit = view[c].on]]
      /\ UNCHANGED <<written, alive, read, master, cut, ring>>
  BY DEF Output!Exit
<1>2. ASSUME NEW c \in Clients
      PROVE  /\ view'[c] \in [on : BOOLEAN, text : Seq(Nat), exit : BOOLEAN]
             /\ view'[c].on = view[c].on /\ view'[c].text = view[c].text
  <2>1. PICK v \in [on : BOOLEAN, text : Seq(Nat), exit : BOOLEAN] : v = view[c]
    BY DEF OutputInv, Views
  <2>2. view'[c] = [v EXCEPT !.exit = v.on]
    BY <1>1, <2>1
  <2> QED
    BY <2>1, <2>2
<1>3. view' \in Views
  BY <1>1, <1>2 DEF Views
<1>4. \A c \in Clients : view'[c].on => Ending(view'[c].text, read)
  BY <1>2 DEF OutputInv
<1>5. OutputInv'
  BY <1>1, <1>3, <1>4 DEF OutputInv
<1> QED
  BY <1>2, <1>5

LEMMA ClosesTakes ==
  ASSUME OutputInv, NEW c \in Clients, Output!Closes(c)
  PROVE  OutputInv' /\ \A d \in Clients : view'[d].on => view[d].on
<1>1. /\ view' = [view EXCEPT ![c] = Output!Detached]
      /\ UNCHANGED <<written, alive, read, master, cut, exited, ring>>
  BY DEF Output!Closes
<1>2. PICK x \in [on : BOOLEAN, text : Seq(Nat), exit : BOOLEAN] : x = Output!Detached /\ x.on = FALSE
  <2>1. <<>> \in Seq(Nat)
    OBVIOUS
  <2>2. Output!Detached \in [on : BOOLEAN, text : Seq(Nat), exit : BOOLEAN] /\ Output!Detached.on = FALSE
    BY <2>1 DEF Output!Detached
  <2> QED
    BY <2>2
<1>3. view \in Views
  BY DEF OutputInv
<1>4. view' \in Views /\ view'[c] = x /\ \A d \in Clients \ {c} : view'[d] = view[d]
  BY <1>1, <1>2, <1>3 DEF Views
<1>5. \A d \in Clients : view'[d].on => view[d].on /\ Ending(view'[d].text, read)
  <2>1. \A d \in Clients : view[d].on => Ending(view[d].text, read)
    BY DEF OutputInv
  <2> QED
    BY <1>2, <1>4, <2>1
<1>6. OutputInv'
  BY <1>1, <1>4, <1>5 DEF OutputInv
<1> QED
  BY <1>5, <1>6

(* A replay as a step of the output shows it.                              *)
Replays == \A c \in Clients : ~view[c].on /\ view'[c].on
                                => view'[c].text = Output!LastLines(Output!Contents(ring))

(* Output attaches no window.                                              *)
LEMMA HandledKeepsOn ==
  ASSUME OutputInv, NEW chunks, Output!HandleOutput(chunks)
  PROVE  \A c \in Clients : view'[c].on => view[c].on
<1>1. PICK d : d = Output!Contents(chunks)
  OBVIOUS
<1>2. view' = [c \in Clients |-> IF view[c].on THEN [view[c] EXCEPT !.text = @ \o d] ELSE view[c]]
  BY <1>1 DEF Output!HandleOutput
<1> QED
  BY <1>2

(* Every step keeps the invariant, and every step that attaches replays.   *)
LEMMA OutputGoesOn ==
  ASSUME OutputInv, [MCNext]_MCVars
  PROVE  OutputInv' /\ (Replays \/ UNCHANGED outputVars)
<1>1. CASE UNCHANGED outputVars
  <2>1. OutputInv'
    BY <1>1 DEF outputVars, OutputInv
  <2> QED
    BY <1>1, <2>1
<1>2. ASSUME NEW n \in 1..MaxOutput, Output!Writes(n) PROVE OutputInv' /\ Replays
  <2>1. /\ master = "open" /\ written' = written + n
        /\ UNCHANGED <<alive, read, master, cut, exited, ring, view>>
    BY <1>2 DEF Output!Writes
  <2>2. written' \in Nat /\ read <= written'
    BY <2>1, OutputConstants DEF OutputInv
  <2>3. OutputInv'
    BY <2>1, <2>2 DEF OutputInv
  <2> QED
    BY <2>1, <2>3 DEF Replays
<1>3. ASSUME NEW n \in 1..MaxOutput, Output!Reads(n) PROVE OutputInv' /\ Replays
  <2>1. n \in Nat
    BY OutputConstants
  <2>2. \E chunks : Output!HandleOutput(chunks)
    BY <1>3 DEF Output!Reads
  <2> QED
    BY <1>3, <2>1, <2>2, ReadsTakes, HandledKeepsOn DEF Replays
<1>4. CASE Output!LeaderEnds
  BY <1>4 DEF Output!LeaderEnds, OutputInv, Replays
<1>5. CASE Output!Destroy
  <2>1. \E chunks : Output!HandleOutput(chunks)
    BY <1>5 DEF Output!Destroy
  <2> QED
    BY <1>5, <2>1, DestroyTakes, HandledKeepsOn DEF Replays
<1>6. CASE Output!Exit
  BY <1>6, ExitTakes DEF Replays
<1>7. ASSUME NEW c \in Clients, Output!Attach(c) PROVE OutputInv' /\ Replays
  BY <1>7, AttachTakes DEF Replays
<1>8. ASSUME NEW c \in Clients, Output!Closes(c) PROVE OutputInv' /\ Replays
  BY <1>8, ClosesTakes DEF Replays
<1>9. Output!Next \/ UNCHANGED outputVars
  BY DEF MCNext, MCVars
<1> QED
  BY <1>1, <1>2, <1>3, <1>4, <1>5, <1>6, <1>7, <1>8, <1>9 DEF Output!Next

(* The invariant says what is checked.                                     *)
LEMMA OutputShows ==
  ASSUME OutputInv
  PROVE  Output!RingIsRecentOutput /\ Output!WindowsShowTheOutput /\ Output!FinalOutputKept
<1>1. read \in Nat /\ Held(ring, read)
  BY DEF OutputInv
<1>2. Output!Contents(ring) \in Seq(Nat)
  BY <1>1, ContentsIsText DEF Held, Loose, Parts
<1>3. Output!RingIsRecentOutput
  BY <1>1, <1>2, RunIsEnding DEF Held, Loose, Output!RingIsRecentOutput
<1>4. ASSUME NEW c \in Clients, view[c].on PROVE Output!IsRunUpTo(view[c].text, read)
  <2>1. view[c].text \in Seq(Nat) /\ Ending(view[c].text, read)
    BY <1>4 DEF OutputInv, Views
  <2> QED
    BY <1>1, <2>1, RunIsEnding
<1>5. Output!FinalOutputKept
  BY DEF OutputInv, Output!FinalOutputKept
<1> QED
  BY <1>3, <1>4, <1>5 DEF Output!WindowsShowTheOutput

(* However writes, reads, an end and its rescue, windows that come and go  *)
(* and an exit cross: ring and windows hold the output up to where it was  *)
(* read without a hole, a replay is its last lines, and what an exit       *)
(* leaves untold is in the log.                                            *)
THEOREM OutputStaysWhole == MCSpec => OutputIsWhole
<1>1. OutputInv /\ [MCNext]_MCVars => OutputInv'
  BY OutputGoesOn
<1>2. OutputInv /\ [MCNext]_MCVars => [Replays]_Output!vars
  BY OutputGoesOn DEF Output!vars, outputVars
<1>3. OutputInv => Output!RingIsRecentOutput /\ Output!WindowsShowTheOutput /\ Output!FinalOutputKept
  BY OutputShows
<1>4. MCSpec => []OutputInv
  BY OutputStarts, <1>1, PTL DEF MCSpec
<1>5. MCSpec => [][Replays]_Output!vars
  BY <1>2, <1>4, PTL DEF MCSpec
<1> QED
  BY <1>3, <1>4, <1>5, PTL DEF OutputIsWhole, Output!ReplayIsTheLastLines, Replays
=============================================================================
