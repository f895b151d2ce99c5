---------------------------- MODULE BackendProofs ----------------------------
(***************************************************************************)
(* The safety of the machines of MCBackend for every value of their        *)
(* constants, each by an inductive invariant of its own: the lifecycle     *)
(* controller, the update, the restart, which implements Handoff, and the  *)
(* launch and history routes, which keep the session manager's invariant   *)
(* although they read the history before an await and launch after it. A   *)
(* machine is addressed by the name it has in MCBackend.                   *)
(***************************************************************************)
EXTENDS MCBackend, SessionsProofs, FiniteSetTheorems

-----------------------------------------------------------------------------
(***************************************************************************)
(* The lifecycle controller                                                *)
(***************************************************************************)

(* The inductive invariant: beside what the run checks, that a socket is   *)
(* gone once its close event came, that the sockets which hold a counter   *)
(* are finitely many, and that stop() and the end of serving are one.      *)
IdleInv ==
  /\ Idle!TypeOK /\ Idle!CountersExact /\ Idle!TimerWhenIdle
  /\ IsFiniteSet(Idle!Held("presence")) /\ IsFiniteSet(Idle!Held("session"))
  /\ \A c \in Viewers : socket[c].channel = "none" <=> socket[c] = Idle!NoSocket
  /\ stopped <=> process \in {"handoff", "exited"}
  /\ process = "boot" => Idle!Held("presence") \cup Idle!Held("session") = {}

(* Lifecycle counts with the Cardinality that MCBackend has.               *)
LEMMA SameCount == \A S : Idle!Cardinality(S) = Cardinality(S)
BY DEF Cardinality, Idle!Cardinality, IsFiniteSet, Idle!IsFiniteSet

(* #evaluate, case by case.                                                *)
LEMMA EvaluateEffect ==
  ASSUME NEW t \in {"off", "startup", "grace"}, NEW p \in Nat, NEW a \in Nat, NEW e \in BOOLEAN,
         stopped \in BOOLEAN, Idle!Evaluate(t, p, a, e)
  PROVE  /\ timer' \in {"off", "startup", "grace"}
         /\ stopped => timer' = t
         /\ ~stopped /\ p + a > 0 => timer' = "off"
         /\ ~stopped /\ p + a = 0 =>
              timer' = IF t # "off" THEN t ELSE IF e THEN "grace" ELSE "startup"
<1>1. p + a > 0 \/ p + a = 0
  OBVIOUS
<1>2. CASE stopped
  BY <1>2 DEF Idle!Evaluate
<1>3. CASE ~stopped /\ p + a > 0
  BY <1>3 DEF Idle!Evaluate
<1>4. CASE ~stopped /\ p + a = 0
  <2>1. timer' = IF t # "off" THEN t ELSE IF e THEN "grace" ELSE "startup"
    BY <1>4 DEF Idle!Evaluate
  <2> QED BY <2>1, <1>4
<1> QED BY <1>1, <1>2, <1>3, <1>4

(* Who holds a counter after a socket opened, and after one let go.        *)
LEMMA OpenedIsHeld ==
  ASSUME NEW c \in Viewers, NEW channel \in Idle!Channels, Idle!TypeOK,
         socket[c] = Idle!NoSocket,
         socket' = [socket EXCEPT ![c] = [channel |-> channel, released |-> FALSE]]
  PROVE  /\ c \notin Idle!Held(channel)
         /\ Idle!Held(channel)' = Idle!Held(channel) \cup {c}
         /\ \A other \in Idle!Channels \ {channel} : Idle!Held(other)' = Idle!Held(other)
BY DEF Idle!Held, Idle!TypeOK, Idle!NoSocket, Idle!Channels, Idle!Sockets

LEMMA LetGoIsNotHeld ==
  ASSUME NEW c \in Viewers, Idle!TypeOK, NEW after, after.channel = "none" \/ after.released,
         socket' = [socket EXCEPT ![c] = after]
  PROVE  \A channel \in Idle!Channels : Idle!Held(channel)' = Idle!Held(channel) \ {c}
BY DEF Idle!Held, Idle!TypeOK, Idle!Channels

(* A counter that counts a finite set follows it.                          *)
LEMMA CountUp ==
  ASSUME NEW S, IsFiniteSet(S), NEW c, c \notin S
  PROVE  IsFiniteSet(S \cup {c}) /\ Cardinality(S \cup {c}) = Cardinality(S) + 1
BY FS_AddElement

LEMMA CountDown ==
  ASSUME NEW S, IsFiniteSet(S), NEW c
  PROVE  /\ IsFiniteSet(S \ {c})
         /\ c \in S => Cardinality(S \ {c}) = Idle!Decrement(Cardinality(S))
         /\ c \notin S => Cardinality(S \ {c}) = Cardinality(S)
<1>1. /\ IsFiniteSet(S \ {c})
      /\ Cardinality(S \ {c}) = IF c \in S THEN Cardinality(S) - 1 ELSE Cardinality(S)
  BY FS_RemoveElement
<1>2. c \in S => Cardinality(S) # 0
  BY FS_EmptySet
<1> QED BY <1>1, <1>2 DEF Idle!Decrement

LEMMA ConnectStep ==
  ASSUME IdleInv, NEW c \in Viewers, NEW channel \in Idle!Channels, Idle!Connect(c, channel)
  PROVE  IdleInv'
<1> DEFINE opened == [channel |-> channel, released |-> FALSE]
           p == IF channel = "presence" THEN presence + 1 ELSE presence
           a == IF channel = "session" THEN attached + 1 ELSE attached
           e == ever \/ channel = "presence"
<1>1. /\ process = "listening" /\ process' = "listening" /\ socket[c] = Idle!NoSocket
      /\ socket' = [socket EXCEPT ![c] = opened]
      /\ presence' = p /\ attached' = a /\ ever' = e /\ Idle!Evaluate(timer, p, a, e)
      /\ stopped' = stopped /\ update' = update
  BY DEF Idle!Connect, IdleInv
<1>2. /\ Idle!TypeOK /\ Idle!CountersExact /\ Idle!TimerWhenIdle /\ ~stopped
      /\ channel \in {"presence", "session"}
  BY <1>1 DEF IdleInv, Idle!Channels
<1>3. /\ c \notin Idle!Held(channel) /\ Idle!Held(channel)' = Idle!Held(channel) \cup {c}
      /\ \A other \in Idle!Channels \ {channel} : Idle!Held(other)' = Idle!Held(other)
  BY <1>1, <1>2, OpenedIsHeld
<1>4. p \in Nat /\ a \in Nat /\ p + a > 0 /\ e \in BOOLEAN
  BY <1>2 DEF Idle!TypeOK
<1>5. timer' = "off"
  <2> HIDE DEF p, a, e
  <2> QED BY <1>1, <1>2, <1>4, EvaluateEffect DEF Idle!TypeOK
<1>6. Idle!TypeOK'
  <2>1. opened \in Idle!Sockets
    BY DEF Idle!Sockets
  <2>2. socket' \in [Viewers -> Idle!Sockets]
    BY <1>1, <1>2, <2>1 DEF Idle!TypeOK
  <2> QED BY <1>1, <1>2, <1>4, <1>5, <2>2 DEF Idle!TypeOK
<1>7. /\ Idle!CountersExact'
      /\ IsFiniteSet(Idle!Held("presence"))' /\ IsFiniteSet(Idle!Held("session"))'
  <2> DEFINE P == Idle!Held("presence")
             S == Idle!Held("session")
  <2>1. /\ IsFiniteSet(P) /\ IsFiniteSet(S)
        /\ presence = Cardinality(P) /\ attached = Cardinality(S)
    BY SameCount DEF IdleInv, Idle!CountersExact
  <2>2. SUFFICES /\ IsFiniteSet(P') /\ p = Cardinality(P')
                 /\ IsFiniteSet(S') /\ a = Cardinality(S')
    BY <1>1, SameCount DEF Idle!CountersExact
  <2>3. CASE channel = "presence"
    <3>1. P' = P \cup {c} /\ c \notin P /\ S' = S
      BY <1>3, <2>3 DEF Idle!Channels
    <3> QED BY <2>1, <2>3, <3>1, CountUp
  <2>4. CASE channel = "session"
    <3>1. S' = S \cup {c} /\ c \notin S /\ P' = P
      BY <1>3, <2>4 DEF Idle!Channels
    <3> QED BY <2>1, <2>4, <3>1, CountUp
  <2> QED BY <1>2, <2>3, <2>4
<1>8. Idle!TimerWhenIdle'
  BY <1>1, <1>2, <1>3, <1>5 DEF Idle!TimerWhenIdle
<1>9. \A o \in Viewers : (socket[o].channel = "none" <=> socket[o] = Idle!NoSocket)'
  BY <1>1, <1>2 DEF IdleInv, Idle!TypeOK, Idle!NoSocket, Idle!Channels
<1> QED BY <1>1, <1>2, <1>6, <1>7, <1>8, <1>9 DEF IdleInv

(* release(), when the socket `c' is out of both counts after it.          *)
LEMMA ReleaseStep ==
  ASSUME IdleInv, NEW c \in Viewers, Idle!Release(c),
         process \in {"listening", "handoff"}, socket[c].channel # "none",
         \A channel \in Idle!Channels : Idle!Held(channel)' = Idle!Held(channel) \ {c},
         UNCHANGED <<process, ever, stopped>>
  PROVE  /\ presence' \in Nat /\ attached' \in Nat /\ timer' \in {"off", "startup", "grace"}
         /\ Idle!CountersExact' /\ Idle!TimerWhenIdle'
         /\ IsFiniteSet(Idle!Held("presence"))' /\ IsFiniteSet(Idle!Held("session"))'
<1> DEFINE P == Idle!Held("presence")
           S == Idle!Held("session")
<1>1. /\ Idle!TypeOK /\ IsFiniteSet(P) /\ IsFiniteSet(S)
      /\ presence = Cardinality(P) /\ attached = Cardinality(S)
      /\ presence \in Nat /\ attached \in Nat
  BY SameCount DEF IdleInv, Idle!TypeOK, Idle!CountersExact
<1>2. /\ ever \in BOOLEAN /\ stopped \in BOOLEAN
      /\ timer \in {"off", "startup", "grace"} /\ Idle!TimerWhenIdle
  BY DEF IdleInv, Idle!TypeOK
<1>3. stopped <=> process \in {"handoff", "exited"}
  BY DEF IdleInv
<1>4. P' = P \ {c} /\ S' = S \ {c}
  BY DEF Idle!Channels
<1>5. IsFiniteSet(P') /\ IsFiniteSet(S')
  BY <1>1, <1>4, CountDown
<1>6. CASE socket[c].released
  <2>1. c \notin P /\ c \notin S
    BY <1>6 DEF Idle!Held
  <2>2. P' = P /\ S' = S
    BY <1>4, <2>1
  <2>3. presence' = presence /\ attached' = attached /\ timer' = timer
    BY <1>6 DEF Idle!Release
  <2>4. Idle!TimerWhenIdle'
    BY <1>2, <2>2, <2>3 DEF Idle!TimerWhenIdle
  <2>5. Idle!CountersExact'
    BY <1>1, <2>2, <2>3, SameCount DEF Idle!CountersExact
  <2> QED BY <1>2, <1>1, <1>5, <2>3, <2>4, <2>5
<1>7. CASE ~socket[c].released
  <2> DEFINE p == IF socket[c].channel = "presence" THEN Idle!Decrement(presence) ELSE presence
             a == IF socket[c].channel = "session" THEN Idle!Decrement(attached) ELSE attached
  <2>1. presence' = p /\ attached' = a /\ Idle!Evaluate(timer, p, a, ever)
    BY <1>7 DEF Idle!Release
  <2>2. /\ c \in P <=> socket[c].channel = "presence"
        /\ c \in S <=> socket[c].channel = "session"
    BY <1>7 DEF Idle!Held
  <2>3. p = Cardinality(P') /\ a = Cardinality(S')
    BY <1>1, <1>4, <2>2, CountDown
  <2>4. p \in Nat /\ a \in Nat
    BY <1>1 DEF Idle!Decrement
  <2> HIDE DEF p, a
  <2>5. p + a = 0 <=> P' \cup S' = {}
    <3>1. p = 0 <=> P' = {}
      BY <1>5, <2>3, FS_EmptySet
    <3>2. a = 0 <=> S' = {}
      BY <1>5, <2>3, FS_EmptySet
    <3>3. p + a = 0 <=> p = 0 /\ a = 0
      BY <2>4
    <3> QED BY <3>1, <3>2, <3>3
  <2>6. /\ timer' \in {"off", "startup", "grace"}
        /\ stopped => timer' = timer
        /\ ~stopped /\ p + a > 0 => timer' = "off"
        /\ ~stopped /\ p + a = 0 =>
             timer' = IF timer # "off" THEN timer ELSE IF ever THEN "grace" ELSE "startup"
    BY <1>2, <2>1, <2>4, EvaluateEffect
  <2>7. p + a > 0 <=> p + a # 0
    BY <2>4
  <2>8. Idle!TimerWhenIdle'
    <3>1. CASE stopped
      BY <1>2, <1>3, <2>6, <3>1 DEF Idle!TimerWhenIdle
    <3>2. CASE ~stopped /\ p + a = 0
      BY <1>2, <1>3, <2>5, <2>6, <3>2 DEF Idle!TimerWhenIdle
    <3>3. CASE ~stopped /\ p + a # 0
      BY <1>2, <1>3, <2>5, <2>6, <2>7, <3>3 DEF Idle!TimerWhenIdle
    <3> QED BY <3>1, <3>2, <3>3
  <2>9. Idle!CountersExact'
    BY <2>1, <2>3, SameCount DEF Idle!CountersExact
  <2> QED BY <1>5, <2>1, <2>4, <2>6, <2>8, <2>9
<1> QED BY <1>6, <1>7

(* A socket's `error' and `close' events.                                  *)
LEMMA SocketLetsGo ==
  ASSUME IdleInv, NEW c \in Viewers, NEW after \in Idle!Sockets,
         after.channel = "none" \/ after.released, after.channel = "none" <=> after = Idle!NoSocket,
         Idle!Release(c), process \in {"listening", "handoff"}, socket[c].channel # "none",
         socket' = [socket EXCEPT ![c] = after],
         UNCHANGED <<process, ever, stopped, update>>
  PROVE  IdleInv'
<1>1. Idle!TypeOK
  BY DEF IdleInv
<1>2. \A channel \in Idle!Channels : Idle!Held(channel)' = Idle!Held(channel) \ {c}
  BY <1>1, LetGoIsNotHeld
<1>3. /\ presence' \in Nat /\ attached' \in Nat /\ timer' \in {"off", "startup", "grace"}
      /\ Idle!CountersExact' /\ Idle!TimerWhenIdle'
      /\ IsFiniteSet(Idle!Held("presence"))' /\ IsFiniteSet(Idle!Held("session"))'
  BY <1>2, ReleaseStep
<1>4. socket' \in [Viewers -> Idle!Sockets]
  BY <1>1 DEF Idle!TypeOK
<1>5. Idle!TypeOK'
  BY <1>1, <1>3, <1>4 DEF Idle!TypeOK
<1>6. \A o \in Viewers : (socket[o].channel = "none" <=> socket[o] = Idle!NoSocket)'
  BY <1>1 DEF IdleInv, Idle!TypeOK
<1>7. process # "boot"
  OBVIOUS
<1>8. (stopped <=> process \in {"handoff", "exited"})'
  BY DEF IdleInv
<1> QED BY <1>3, <1>5, <1>6, <1>7, <1>8 DEF IdleInv

(* What neither moves a socket nor a counter keeps who holds them.         *)
LEMMA HeldStays ==
  ASSUME IdleInv, UNCHANGED <<presence, attached, socket>>
  PROVE  /\ \A channel : Idle!Held(channel)' = Idle!Held(channel)
         /\ Idle!CountersExact'
         /\ IsFiniteSet(Idle!Held("presence"))' /\ IsFiniteSet(Idle!Held("session"))'
         /\ \A c \in Viewers : (socket[c].channel = "none" <=> socket[c] = Idle!NoSocket)'
<1>1. \A channel : Idle!Held(channel)' = Idle!Held(channel)
  BY DEF Idle!Held
<1> QED BY <1>1 DEF IdleInv, Idle!CountersExact

(* Nothing is held where both counters stand at zero, and the other way.   *)
LEMMA NoneHeld ==
  ASSUME IdleInv
  PROVE  /\ presence + attached = 0 <=> Idle!Held("presence") \cup Idle!Held("session") = {}
         /\ presence \in Nat /\ attached \in Nat
<1>1. presence = 0 <=> Idle!Held("presence") = {}
  BY SameCount, FS_EmptySet DEF IdleInv, Idle!CountersExact
<1>2. attached = 0 <=> Idle!Held("session") = {}
  BY SameCount, FS_EmptySet DEF IdleInv, Idle!CountersExact
<1>3. presence \in Nat /\ attached \in Nat
  BY DEF IdleInv, Idle!TypeOK
<1>4. presence + attached = 0 <=> presence = 0 /\ attached = 0
  BY <1>3
<1> QED BY <1>1, <1>2, <1>3, <1>4

LEMMA IdleInit == Idle!Init => IdleInv
<1> SUFFICES ASSUME Idle!Init PROVE IdleInv
  OBVIOUS
<1>1. /\ process = "boot" /\ presence = 0 /\ attached = 0 /\ timer = "off"
      /\ socket = [c \in Viewers |-> Idle!NoSocket] /\ update = "idle"
  BY DEF Idle!Init
<1>2. ever = FALSE /\ stopped = FALSE
  BY DEF Idle!Init
<1>3. Idle!Held("presence") = {} /\ Idle!Held("session") = {}
  BY <1>1 DEF Idle!Held, Idle!NoSocket
<1>4. Idle!CountersExact /\ IsFiniteSet(Idle!Held("presence")) /\ IsFiniteSet(Idle!Held("session"))
  BY <1>1, <1>3, SameCount, FS_EmptySet DEF Idle!CountersExact
<1>5. Idle!TypeOK
  <2>1. socket \in [Viewers -> Idle!Sockets]
    BY <1>1 DEF Idle!NoSocket, Idle!Sockets
  <2>2. ever \in BOOLEAN /\ stopped \in BOOLEAN
    BY <1>2
  <2> QED BY <1>1, <2>1, <2>2 DEF Idle!TypeOK
<1>6. Idle!TimerWhenIdle
  BY <1>1 DEF Idle!TimerWhenIdle
<1>7. \A c \in Viewers : socket[c].channel = "none" <=> socket[c] = Idle!NoSocket
  BY <1>1 DEF Idle!NoSocket
<1>8. stopped <=> process \in {"handoff", "exited"}
  BY <1>1, <1>2
<1> QED BY <1>3, <1>4, <1>5, <1>6, <1>7, <1>8 DEF IdleInv

LEMMA ExitStep ==
  ASSUME IdleInv, Idle!Exit
  PROVE  IdleInv'
<1>1. /\ process' = "exited" /\ stopped' = TRUE /\ timer' = "off" /\ socket' = socket
      /\ ever' = ever /\ presence' = presence /\ attached' = attached /\ update' = update
  BY DEF Idle!Exit
<1>2. Idle!TypeOK'
  <2>1. stopped' \in BOOLEAN
    BY <1>1
  <2> QED BY <1>1, <2>1 DEF IdleInv, Idle!TypeOK
<1>3. Idle!TimerWhenIdle'
  BY <1>1 DEF Idle!TimerWhenIdle
<1>4. (stopped <=> process \in {"handoff", "exited"})'
  BY <1>1
<1> QED BY <1>1, <1>2, <1>3, <1>4, HeldStays DEF IdleInv

(* The timer where a handler of an idle or booting backend evaluates.      *)
LEMMA TimerStep ==
  ASSUME IdleInv, ~stopped, NEW t \in {"off", "startup", "grace"},
         t = "startup" => ~ever, t = "grace" => ever,
         Idle!Evaluate(t, presence, attached, ever), process' = "listening",
         UNCHANGED <<presence, attached, ever, stopped, socket, update>>
  PROVE  IdleInv'
<1>1. \A channel : Idle!Held(channel)' = Idle!Held(channel)
  BY HeldStays
<1>2. /\ presence + attached = 0 <=> Idle!Held("presence") \cup Idle!Held("session") = {}
      /\ presence \in Nat /\ attached \in Nat
  BY NoneHeld
<1>3. ever \in BOOLEAN /\ stopped \in BOOLEAN
  BY DEF IdleInv, Idle!TypeOK
<1>4. /\ timer' \in {"off", "startup", "grace"}
      /\ presence + attached > 0 => timer' = "off"
      /\ presence + attached = 0 =>
           timer' = IF t # "off" THEN t ELSE IF ever THEN "grace" ELSE "startup"
  BY <1>2, <1>3, EvaluateEffect
<1>5. presence + attached > 0 <=> presence + attached # 0
  BY <1>2
<1>6. Idle!TypeOK'
  BY <1>4 DEF IdleInv, Idle!TypeOK
<1>7. Idle!TimerWhenIdle'
  BY <1>1, <1>2, <1>4, <1>5 DEF Idle!TimerWhenIdle
<1>8. (stopped <=> process \in {"handoff", "exited"})'
  OBVIOUS
<1> QED BY <1>6, <1>7, <1>8, HeldStays DEF IdleInv

(* The grace only expires where no socket holds the backend.               *)
LEMMA ExpiresIdle ==
  ASSUME IdleInv, Idle!GraceExpires
  PROVE  /\ Idle!Held("presence") \cup Idle!Held("session") = {}
         /\ update = "working" => process' = "listening"
         /\ update # "working" => Idle!Exit
BY DEF Idle!GraceExpires, IdleInv, Idle!TimerWhenIdle

LEMMA IdleStep ==
  ASSUME IdleInv, [Idle!Next]_(Idle!vars)
  PROVE  IdleInv'
<1>1. /\ ~stopped <=> process \in {"boot", "listening"}
      /\ timer \in {"off", "startup", "grace"} /\ Idle!TimerWhenIdle
  BY DEF IdleInv, Idle!TypeOK
<1>2. CASE Idle!Listen
  <2>1. ~stopped /\ process' = "listening" /\ Idle!Evaluate(timer, presence, attached, ever)
    BY <1>1, <1>2 DEF Idle!Listen
  <2> QED BY <1>1, <1>2, <2>1, TimerStep DEF Idle!Listen, Idle!TimerWhenIdle
<1>3. ASSUME NEW c \in Viewers, NEW channel \in Idle!Channels, Idle!Connect(c, channel)
      PROVE  IdleInv'
  BY <1>3, ConnectStep
<1>4. ASSUME NEW c \in Viewers, Idle!SocketErrors(c)
      PROVE  IdleInv'
  <2> DEFINE after == [socket[c] EXCEPT !.released = TRUE]
  <2>1. socket \in [Viewers -> Idle!Sockets] /\ socket[c].channel # "none"
    BY <1>4 DEF IdleInv, Idle!TypeOK, Idle!SocketErrors
  <2>2. after \in Idle!Sockets /\ after.released /\ after.channel = socket[c].channel
    BY <2>1 DEF Idle!Sockets
  <2>3. after.channel = "none" <=> after = Idle!NoSocket
    BY <2>1, <2>2 DEF Idle!NoSocket
  <2>4. /\ socket' = [socket EXCEPT ![c] = after] /\ Idle!Release(c)
        /\ process \in {"listening", "handoff"}
        /\ UNCHANGED <<process, ever, stopped, update>>
    BY <1>4, <2>1 DEF Idle!SocketErrors
  <2> HIDE DEF after
  <2> QED BY <2>1, <2>2, <2>3, <2>4, SocketLetsGo
<1>5. ASSUME NEW c \in Viewers, Idle!SocketCloses(c)
      PROVE  IdleInv'
  <2>1. /\ Idle!NoSocket \in Idle!Sockets /\ Idle!NoSocket.channel = "none"
    BY DEF Idle!NoSocket, Idle!Sockets
  <2>2. /\ socket' = [socket EXCEPT ![c] = Idle!NoSocket] /\ Idle!Release(c)
        /\ process \in {"listening", "handoff"} /\ socket[c].channel # "none"
        /\ UNCHANGED <<process, ever, stopped, update>>
    BY <1>5 DEF Idle!SocketCloses
  <2> QED BY <2>1, <2>2, SocketLetsGo
<1>6. CASE Idle!GraceExpires
  <2>1. CASE update = "working"
    BY <1>1, <1>6, <2>1, TimerStep DEF Idle!GraceExpires
  <2>2. CASE update # "working"
    BY <1>6, <2>2, ExpiresIdle, ExitStep
  <2> QED BY <2>1, <2>2
<1>7. CASE Idle!Signal
  BY <1>7, ExitStep DEF Idle!Signal
<1>8. CASE Idle!RestartTeardown
  <2>1. /\ process' = "handoff" /\ stopped' = TRUE /\ timer' = "off" /\ socket' = socket
        /\ ever' = ever /\ presence' = presence /\ attached' = attached /\ update' = update
    BY <1>8 DEF Idle!RestartTeardown
  <2>2. stopped' \in BOOLEAN
    BY <2>1
  <2>3. Idle!TypeOK'
    BY <2>1, <2>2 DEF IdleInv, Idle!TypeOK
  <2>4. Idle!TimerWhenIdle' /\ (stopped <=> process \in {"handoff", "exited"})'
    BY <2>1 DEF Idle!TimerWhenIdle
  <2> QED BY <2>1, <2>3, <2>4, HeldStays DEF IdleInv
<1>9. CASE UNCHANGED <<process, presence, attached, ever, timer, stopped, socket>>
           /\ update' \in {"idle", "working", "overdue"}
  <2>1. Idle!TypeOK' /\ Idle!TimerWhenIdle'
    BY <1>1, <1>9, HeldStays DEF IdleInv, Idle!TypeOK, Idle!TimerWhenIdle
  <2>2. (stopped <=> process \in {"handoff", "exited"})'
    BY <1>9 DEF IdleInv
  <2> QED BY <1>9, <2>1, <2>2, HeldStays DEF IdleInv
<1>10. CASE Idle!UpdateStarts \/ Idle!UpdateEnds \/ Idle!CeilingPasses \/ UNCHANGED Idle!vars
  BY <1>9, <1>10 DEF Idle!UpdateStarts, Idle!UpdateEnds, Idle!CeilingPasses, Idle!vars,
                     IdleInv, Idle!TypeOK
<1> QED BY <1>2, <1>3, <1>4, <1>5, <1>6, <1>7, <1>8, <1>10 DEF Idle!Next

(* For every set of windows: sockets are counted exactly however their     *)
(* `error' and `close' events come, the grace runs exactly while nothing   *)
(* holds a serving backend, and ends neither a backend that a window holds *)
(* nor one whose update is at work within the ceiling.                     *)
THEOREM IdleExitsRightly == Idle!Spec => IdleExitIsRight
<1>1. IdleInv => Idle!CountersExact /\ Idle!TimerWhenIdle
  BY DEF IdleInv
<1>2. ASSUME IdleInv, [Idle!Next]_(Idle!vars)
      PROVE  [Idle!GraceExpires /\ process' = "exited" =>
                Idle!Held("presence") \cup Idle!Held("session") = {} /\ update # "working"]_(Idle!vars)
  BY <1>2, ExpiresIdle
<1> QED
  BY <1>1, <1>2, IdleInit, IdleStep, PTL
     DEF Idle!Spec, IdleExitIsRight, Idle!NoIdleExitWhileHeld

-----------------------------------------------------------------------------
(***************************************************************************)
(* The update                                                              *)
(***************************************************************************)

(* A controller between two turns: a launch under way is waited for or     *)
(* held, it is held once nobody waits for it, and the flight is taken for  *)
(* exactly as long as there is a pipeline or a launch.                     *)
Sound(c) ==
  /\ c \in Updates!Controller
  /\ c.launch # "none" => c.pc \in {"wait", "none"}
  /\ c.pc = "wait" => c.launch # "none"
  /\ c.held = (c.pc = "none" /\ c.launch # "none")
  /\ c.running = (c.pc # "none" \/ c.launch # "none")

(* The inductive invariant: beside the controllers, that each Setup on     *)
(* Windows is the one launch of the process that started it, if that still *)
(* lives, and that the restart under way is one of a live process with its *)
(* replacement in standby (so that nobody who is gone comes back).         *)
UpdateInv ==
  /\ life \in [Updates!Boots -> {"none", "standby", "up", "leaving", "gone"}]
  /\ win \in [Updates!Setups -> Updates!Launch]
  /\ ctl \in [Updates!Boots -> Updates!Controller]
  /\ \A b \in Updates!Boots : Sound(ctl[b])
  /\ Updates!OnlyVerifiedRuns
  /\ \A w \in Updates!Setups : win[w].phase # "unused" =>
       /\ win[w].boot \in Updates!Boots
       /\ life[win[w].boot] \in {"up", "leaving", "gone"}
  /\ \A w \in Updates!OnWindows : Updates!Alive(win[w].boot) => ctl[win[w].boot].launch = "spawned"
  /\ \A w, o \in Updates!OnWindows :
       win[w].boot = win[o].boot /\ Updates!Alive(win[w].boot) => w = o
  /\ restart # 0 =>
       /\ restart \in Updates!Boots /\ restart + 1 \in Updates!Boots
       /\ life[restart] = "up" /\ life[restart + 1] = "standby"

(* What the steps of a controller leave behind.                            *)
LEMMA FailedIsSound ==
  ASSUME NEW c, Sound(c), c.pc \notin {"none", "wait"}
  PROVE  Sound(Updates!Failed(c)) /\ c.launch = "none" /\ Updates!Failed(c).launch = "none"
BY DEF Sound, Updates!Failed, Updates!Controller, Updates!States

LEMMA HeldIsSound ==
  ASSUME NEW c, Sound(c), c.pc = "wait"
  PROVE  /\ Sound(Updates!Failed([c EXCEPT !.held = TRUE]))
         /\ Updates!Failed([c EXCEPT !.held = TRUE]).launch = c.launch
BY DEF Sound, Updates!Failed, Updates!Controller, Updates!States

LEMMA SettledIsSound ==
  ASSUME NEW c, Sound(c), c.launch # "none", NEW ok \in BOOLEAN
  PROVE  Sound(Updates!Settled(c, ok)) /\ Updates!Settled(c, ok).launch = "none"
<1>1. CASE c.pc = "wait" /\ ok
  BY <1>1 DEF Sound, Updates!Settled, Updates!Failed, Updates!Controller, Updates!States
<1>2. CASE c.pc = "wait" /\ ~ok
  BY <1>2 DEF Sound, Updates!Settled, Updates!Failed, Updates!Controller, Updates!States
<1>3. CASE c.pc # "wait"
  BY <1>3 DEF Sound, Updates!Settled, Updates!Failed, Updates!Controller, Updates!States
<1> QED BY <1>1, <1>2, <1>3

LEMMA GoesOnSoundly ==
  ASSUME NEW c, Sound(c), c.pc \notin {"none", "wait"}, NEW state \in Updates!States,
         NEW pc2 \in {"space", "fetch", "reject", "rename"}
  PROVE  /\ Sound([c EXCEPT !.pc = pc2]) /\ [c EXCEPT !.pc = pc2].launch = c.launch
         /\ Sound([c EXCEPT !.state = state, !.pc = pc2])
         /\ [c EXCEPT !.state = state, !.pc = pc2].launch = c.launch
BY DEF Sound, Updates!Controller, Updates!States

(* A step of one controller that leaves a launch where it was, or changes  *)
(* one that has not reached Windows.                                       *)
LEMMA ControllerStep ==
  ASSUME UpdateInv, NEW b \in Updates!Boots, NEW c, Sound(c),
         ctl[b].launch = "spawned" => c.launch = "spawned",
         ctl' = [ctl EXCEPT ![b] = c], UNCHANGED <<life, restart, win>>
  PROVE  UpdateInv'
BY DEF UpdateInv, Sound, Updates!OnlyVerifiedRuns, Updates!OnWindows, Updates!Alive

LEMMA RequestSound ==
  ASSUME UpdateInv, NEW b \in Updates!Boots, NEW v \in Updates!Versions, Updates!Request(b, v)
  PROVE  UpdateInv'
<1> DEFINE c == [ctl[b] EXCEPT !.state = "downloading", !.version = v, !.running = TRUE,
                               !.pc = "sums"]
<1>1. Sound(ctl[b]) /\ ctl[b] \in Updates!Controller /\ ctl \in [Updates!Boots -> Updates!Controller]
  BY DEF UpdateInv
<1>2. ~ctl[b].running /\ ctl' = [ctl EXCEPT ![b] = c] /\ UNCHANGED <<life, restart, win>>
  BY <1>1 DEF Updates!Request
<1>3. ctl[b].pc = "none" /\ ctl[b].launch = "none" /\ ctl[b].held = FALSE
  BY <1>1, <1>2 DEF Sound
<1>4. v \in 0..MaxVersion
  BY BackendAssumption DEF Updates!UpdateBounds, Updates!Versions
<1>5. c \in Updates!Controller
  BY <1>1, <1>4 DEF Updates!Controller, Updates!States
<1>6. Sound(c) /\ c.launch = ctl[b].launch
  BY <1>1, <1>3, <1>5 DEF Sound, Updates!Controller
<1> HIDE DEF c
<1> QED BY <1>2, <1>6, ControllerStep

LEMMA PipelineSound ==
  ASSUME UpdateInv, NEW b \in Updates!Boots, Updates!Pipeline(b)
  PROVE  UpdateInv'
<1>1. Sound(ctl[b]) /\ ctl \in [Updates!Boots -> Updates!Controller]
  BY DEF UpdateInv
<1>2. UNCHANGED <<life, restart, win>>
  BY DEF Updates!Pipeline, Updates!SumsEnd, Updates!SpaceEnds, Updates!FetchEnds,
         Updates!FetchFails, Updates!Reject, Updates!Rename, Updates!SetupTimesOut,
         Updates!PollSucceeds, Updates!PollTimesOut,
         Updates!OnlyController, Updates!ControllerAndDir
<1>3. ASSUME Updates!Fails(b), ctl[b].pc \notin {"none", "wait"}
      PROVE  UpdateInv'
  BY <1>1, <1>2, <1>3, FailedIsSound, ControllerStep DEF Updates!Fails
<1>4. ASSUME NEW pc2 \in {"space", "fetch"}, Updates!Goes(b, pc2), ctl[b].pc \notin {"none", "wait"}
      PROVE  UpdateInv'
  <2> DEFINE c == [ctl[b] EXCEPT !.pc = pc2]
  <2>1. ctl' = [ctl EXCEPT ![b] = c]
    BY <1>1, <1>4 DEF Updates!Goes
  <2>2. Sound(c) /\ c.launch = ctl[b].launch
    BY <1>1, <1>4, GoesOnSoundly DEF Updates!States
  <2> HIDE DEF c
  <2> QED BY <1>2, <2>1, <2>2, ControllerStep
<1>5. CASE Updates!SumsEnd(b)
  BY <1>3, <1>4, <1>5 DEF Updates!SumsEnd, Updates!At
<1>6. CASE Updates!SpaceEnds(b)
  BY <1>3, <1>4, <1>6 DEF Updates!SpaceEnds, Updates!At
<1>7. CASE Updates!FetchFails(b) \/ Updates!Reject(b) \/ Updates!PollTimesOut(b)
  BY <1>3, <1>7 DEF Updates!FetchFails, Updates!Reject, Updates!PollTimesOut, Updates!At
<1>8. ASSUME NEW data \in {"good", "bad"}, Updates!FetchEnds(b, data)
      PROVE  UpdateInv'
  <2> DEFINE next2 == IF data = "good" THEN "rename" ELSE "reject"
             c == [ctl[b] EXCEPT !.state = "verifying", !.pc = next2]
  <2>1. ctl' = [ctl EXCEPT ![b] = c] /\ ctl[b].pc = "fetch"
    BY <1>1, <1>8 DEF Updates!FetchEnds, Updates!At
  <2>2. Sound(c) /\ c.launch = ctl[b].launch
    BY <1>1, <2>1, GoesOnSoundly DEF Updates!States
  <2> HIDE DEF c
  <2> QED BY <1>2, <2>1, <2>2, ControllerStep
<1>9. CASE Updates!Rename(b)
  <2>1. ctl[b].pc = "rename"
    BY <1>9 DEF Updates!Rename, Updates!At
  <2>2. CASE Updates!Fails(b)
    BY <1>3, <2>1, <2>2
  <2>3. CASE ~Updates!Fails(b)
    <3> DEFINE c == [ctl[b] EXCEPT !.state = "installing", !.pc = "wait", !.launch = "staging"]
    <3>1. ctl' = [ctl EXCEPT ![b] = c]
      BY <1>1, <1>9, <2>3 DEF Updates!Rename
    <3>2. Sound(c) /\ ctl[b].launch = "none"
      BY <1>1, <2>1 DEF Sound, Updates!Controller, Updates!States
    <3> HIDE DEF c
    <3> QED BY <1>2, <3>1, <3>2, ControllerStep
  <2> QED BY <2>2, <2>3
<1>10. CASE Updates!SetupTimesOut(b)
  <2> DEFINE c == Updates!Failed([ctl[b] EXCEPT !.held = TRUE])
  <2>1. ctl' = [ctl EXCEPT ![b] = c] /\ ctl[b].pc = "wait"
    BY <1>1, <1>10 DEF Updates!SetupTimesOut, Updates!At
  <2>2. Sound(c) /\ c.launch = ctl[b].launch
    BY <1>1, <2>1, HeldIsSound
  <2> HIDE DEF c
  <2> QED BY <1>2, <2>1, <2>2, ControllerStep
<1>11. CASE Updates!PollSucceeds(b)
  <2> DEFINE c == [ctl[b] EXCEPT !.state = "installed", !.pc = "none", !.running = FALSE]
  <2>1. ctl' = [ctl EXCEPT ![b] = c] /\ ctl[b].pc = "poll"
    BY <1>1, <1>11 DEF Updates!PollSucceeds, Updates!At
  <2>2. Sound(c) /\ c.launch = ctl[b].launch
    BY <1>1, <2>1 DEF Sound, Updates!Controller, Updates!States
  <2> HIDE DEF c
  <2> QED BY <1>2, <2>1, <2>2, ControllerStep
<1> QED BY <1>5, <1>6, <1>7, <1>8, <1>9, <1>10, <1>11 DEF Updates!Pipeline

LEMMA StagingSound ==
  ASSUME UpdateInv, NEW b \in Updates!Boots,
         Updates!StageFails(b) \/ \E w \in Updates!Setups : Updates!Stage(b, w)
  PROVE  UpdateInv'
<1>1. Sound(ctl[b]) /\ ctl \in [Updates!Boots -> Updates!Controller] /\ ctl[b].launch = "staging"
  BY DEF UpdateInv, Updates!StageFails, Updates!Stage
<1>2. CASE Updates!StageFails(b)
  <2>1. ctl' = [ctl EXCEPT ![b] = Updates!Settled(@, FALSE)] /\ UNCHANGED <<life, restart, win>>
    BY <1>2 DEF Updates!StageFails
  <2>2. Sound(Updates!Settled(ctl[b], FALSE)) /\ Updates!Settled(ctl[b], FALSE).launch = "none"
    BY <1>1, SettledIsSound
  <2> QED BY <1>1, <2>1, <2>2, ControllerStep
<1>3. ASSUME NEW w \in Updates!Setups, Updates!Stage(b, w)
      PROVE  UpdateInv'
  <2> DEFINE c == [ctl[b] EXCEPT !.launch = "spawned"]
             l == [phase |-> "script", boot |-> b, ver |-> ctl[b].version, data |-> "none"]
  <2>1. /\ ctl' = [ctl EXCEPT ![b] = c] /\ win' = [win EXCEPT ![w] = l]
        /\ UNCHANGED <<life, restart>> /\ Updates!Alive(b)
    BY <1>1, <1>3 DEF Updates!Stage
  <2>2. Sound(c) /\ c.launch = "spawned"
    BY <1>1 DEF Sound, Updates!Controller
  <2>3. l \in Updates!Launch /\ l.phase = "script" /\ l.boot = b
    BY <1>1 DEF Sound, Updates!Controller, Updates!Launch, Updates!Boots, Updates!Data
  <2>4. \A o \in Updates!OnWindows : win[o].boot # b
    BY <1>1, <2>1 DEF UpdateInv
  <2> HIDE DEF c, l
  <2>5. Updates!OnWindows' = Updates!OnWindows \cup {w}
    BY <2>1, <2>3 DEF Updates!OnWindows, UpdateInv
  <2>6. /\ win' \in [Updates!Setups -> Updates!Launch]
        /\ ctl' \in [Updates!Boots -> Updates!Controller]
        /\ \A o \in Updates!Boots : Sound(ctl'[o])
        /\ \A o \in Updates!Setups : win'[o] = IF o = w THEN l ELSE win[o]
        /\ ctl'[b].launch = "spawned" /\ \A o \in Updates!Boots \ {b} : ctl'[o] = ctl[o]
    BY <2>1, <2>2, <2>3 DEF UpdateInv, Sound
  <2>7. Updates!OnlyVerifiedRuns'
    BY <2>3, <2>6 DEF UpdateInv, Updates!OnlyVerifiedRuns
  <2>8. \A o \in Updates!Setups : win'[o].phase # "unused" =>
          win'[o].boot \in Updates!Boots /\ life'[win'[o].boot] \in {"up", "leaving", "gone"}
    BY <2>1, <2>3, <2>6 DEF UpdateInv, Updates!Alive
  <2>9. \A o \in Updates!OnWindows' :
          Updates!Alive(win[o].boot)' => ctl'[win'[o].boot].launch = "spawned"
    BY <2>1, <2>3, <2>5, <2>6 DEF UpdateInv, Updates!Alive, Updates!OnWindows
  <2>10. \A o, q \in Updates!OnWindows' :
           win'[o].boot = win'[q].boot /\ Updates!Alive(win[o].boot)' => o = q
    BY <2>1, <2>3, <2>4, <2>5, <2>6 DEF UpdateInv, Updates!Alive, Updates!OnWindows
  <2> QED BY <2>1, <2>6, <2>7, <2>8, <2>9, <2>10 DEF UpdateInv
<1> QED BY <1>2, <1>3

LEMMA ScriptStartsSound ==
  ASSUME UpdateInv, NEW w \in Updates!Setups, Updates!ScriptStarts(w)
  PROVE  UpdateInv'
<1> DEFINE l == [win[w] EXCEPT !.phase = "running", !.data = "good"]
<1>1. /\ win \in [Updates!Setups -> Updates!Launch] /\ win[w].phase = "script"
      /\ win' = [win EXCEPT ![w] = l] /\ UNCHANGED <<life, restart, ctl>>
  BY DEF UpdateInv, Updates!ScriptStarts, Updates!ScriptAccepts
<1>2. l \in Updates!Launch /\ l.phase = "running" /\ l.data = "good" /\ l.boot = win[w].boot
  BY <1>1 DEF Updates!Launch, Updates!Data
<1> HIDE DEF l
<1>3. /\ win' \in [Updates!Setups -> Updates!Launch]
      /\ \A o \in Updates!Setups : win'[o] = IF o = w THEN l ELSE win[o]
      /\ Updates!OnWindows' = Updates!OnWindows /\ w \in Updates!OnWindows
  BY <1>1, <1>2 DEF Updates!OnWindows
<1>4. Updates!OnlyVerifiedRuns'
  BY <1>2, <1>3 DEF UpdateInv, Updates!OnlyVerifiedRuns
<1>5. \A o \in Updates!OnWindows : win'[o].boot = win[o].boot
  BY <1>2, <1>3 DEF Updates!OnWindows
<1> QED BY <1>1, <1>2, <1>3, <1>4, <1>5 DEF UpdateInv, Updates!Alive, Updates!OnWindows

(* A launch ends: its process settles the one promise it has, or is gone.  *)
LEMMA LaunchEndsSound ==
  ASSUME UpdateInv, NEW w \in Updates!OnWindows, NEW ok \in BOOLEAN,
         win' = [win EXCEPT ![w].phase = "exited"], Updates!ExitReaches(win[w].boot, ok),
         UNCHANGED <<life, restart>>
  PROVE  UpdateInv'
<1> DEFINE b == win[w].boot
           l == [win[w] EXCEPT !.phase = "exited"]
<1>1. /\ win \in [Updates!Setups -> Updates!Launch] /\ w \in Updates!Setups
      /\ win[w].phase \in {"script", "running"} /\ win' = [win EXCEPT ![w] = l]
  BY DEF UpdateInv, Updates!OnWindows
<1>2. b \in Updates!Boots
  BY <1>1 DEF UpdateInv
<1>3. l \in Updates!Launch /\ l.phase = "exited" /\ l.boot = b
  BY <1>1 DEF Updates!Launch
<1>4. /\ ctl' \in [Updates!Boots -> Updates!Controller]
      /\ \A o \in Updates!Boots : Sound(ctl'[o])
      /\ \A o \in Updates!Boots \ {b} : ctl'[o] = ctl[o]
  <2>1. CASE ctl[b].launch = "spawned"
    <3>1. ctl' = [ctl EXCEPT ![b] = Updates!Settled(ctl[b], ok)]
      BY <1>2, <2>1 DEF Updates!ExitReaches, UpdateInv
    <3>2. Sound(Updates!Settled(ctl[b], ok))
      BY <1>2, <2>1, SettledIsSound DEF UpdateInv
    <3> QED BY <1>2, <3>1, <3>2 DEF UpdateInv, Sound
  <2>2. CASE ctl[b].launch # "spawned"
    BY <2>2 DEF Updates!ExitReaches, UpdateInv
  <2> QED BY <2>1, <2>2
<1> HIDE DEF b, l
<1>5. /\ win' \in [Updates!Setups -> Updates!Launch]
      /\ \A o \in Updates!Setups : win'[o] = IF o = w THEN l ELSE win[o]
      /\ Updates!OnWindows' = Updates!OnWindows \ {w}
  BY <1>1, <1>3 DEF Updates!OnWindows
<1>6. Updates!OnlyVerifiedRuns'
  BY <1>3, <1>5 DEF UpdateInv, Updates!OnlyVerifiedRuns
<1>7. \A o \in Updates!Setups : win'[o].phase # "unused" =>
        win'[o].boot \in Updates!Boots /\ life'[win'[o].boot] \in {"up", "leaving", "gone"}
  BY <1>1, <1>3, <1>5 DEF UpdateInv, b
<1>8. \A o \in Updates!OnWindows' : Updates!Alive(win[o].boot)' =>
        win'[o].boot # b /\ ctl'[win'[o].boot].launch = "spawned"
  BY <1>4, <1>5, <1>7 DEF UpdateInv, Updates!Alive, Updates!OnWindows, b
<1>9. \A o, q \in Updates!OnWindows' :
        win'[o].boot = win'[q].boot /\ Updates!Alive(win[o].boot)' => o = q
  BY <1>5 DEF UpdateInv, Updates!Alive, Updates!OnWindows
<1> QED BY <1>4, <1>5, <1>6, <1>7, <1>8, <1>9 DEF UpdateInv

LEMMA WindowsSound ==
  ASSUME UpdateInv, Updates!Windows
  PROVE  UpdateInv'
<1>1. ASSUME NEW w \in Updates!Setups, Updates!ScriptRefuses(w)
      PROVE  UpdateInv'
  BY <1>1, LaunchEndsSound DEF Updates!ScriptRefuses, Updates!OnWindows
<1>2. ASSUME NEW w \in Updates!Setups, NEW ok \in BOOLEAN, Updates!SetupExits(w, ok)
      PROVE  UpdateInv'
  BY <1>2, LaunchEndsSound DEF Updates!SetupExits, Updates!OnWindows
<1> QED BY <1>1, <1>2, ScriptStartsSound DEF Updates!Windows

(* Processes come and go: nobody who launched a Setup comes back, and who  *)
(* stays alive keeps its controller.                                       *)
LEMMA LivesSound ==
  ASSUME UpdateInv, win' = win,
         life' \in [Updates!Boots -> {"none", "standby", "up", "leaving", "gone"}],
         ctl' \in [Updates!Boots -> Updates!Controller],
         \A b \in Updates!Boots :
           /\ Sound(ctl'[b])
           /\ life[b] \in {"up", "leaving", "gone"} => life'[b] \in {"up", "leaving", "gone"}
           /\ Updates!Alive(b)' => /\ ctl'[b] = ctl[b]
                                   /\ Updates!Alive(b) \/ life[b] \in {"none", "standby"},
         restart' # 0 =>
           /\ restart' \in Updates!Boots /\ restart' + 1 \in Updates!Boots
           /\ life'[restart'] = "up" /\ life'[restart' + 1] = "standby"
  PROVE  UpdateInv'
<1>1. \A w \in Updates!Setups : win[w].phase # "unused" =>
        /\ win[w].boot \in Updates!Boots
        /\ life'[win[w].boot] \in {"up", "leaving", "gone"}
        /\ Updates!Alive(win[w].boot)' =>
             Updates!Alive(win[w].boot) /\ ctl'[win[w].boot] = ctl[win[w].boot]
  BY DEF UpdateInv, Updates!Alive
<1>2. Updates!OnWindows' = Updates!OnWindows
      /\ \A w \in Updates!OnWindows : w \in Updates!Setups /\ win[w].phase # "unused"
  BY DEF Updates!OnWindows
<1> QED BY <1>1, <1>2 DEF UpdateInv, Updates!OnlyVerifiedRuns, Updates!Alive

LEMMA ProcessesSound ==
  ASSUME UpdateInv, NEW b \in Updates!Boots,
         \/ Updates!RestartBegins(b) \/ Updates!RestartRefused(b) \/ Updates!RestartCommits(b)
         \/ Updates!ChildTakes(b) \/ Updates!ProcessEnds(b) \/ Updates!Boot(b)
  PROVE  UpdateInv'
<1>1. /\ life \in [Updates!Boots -> {"none", "standby", "up", "leaving", "gone"}]
      /\ ctl \in [Updates!Boots -> Updates!Controller]
      /\ \A o \in Updates!Boots : Sound(ctl[o]) /\ o \in Nat /\ o # 0
      /\ restart # 0 =>
           /\ restart \in Updates!Boots /\ restart + 1 \in Updates!Boots
           /\ life[restart] = "up" /\ life[restart + 1] = "standby"
  BY BackendAssumption DEF UpdateInv, Updates!UpdateBounds, Updates!Boots
<1>2. CASE Updates!RestartBegins(b)
  <2>1. /\ life[b] = "up" /\ b + 1 \in Updates!Boots /\ life[b + 1] = "none" /\ restart' = b
        /\ life' = [life EXCEPT ![b + 1] = "standby"] /\ ctl' = ctl /\ win' = win
    BY <1>2 DEF Updates!RestartBegins
  <2> QED BY <1>1, <2>1, LivesSound DEF Updates!Alive
<1>3. CASE Updates!RestartRefused(b)
  <2>1. /\ restart = b /\ restart' = 0 /\ ctl' = ctl /\ win' = win
        /\ life' = [life EXCEPT ![b + 1] = "none"]
    BY <1>3 DEF Updates!RestartRefused
  <2> QED BY <1>1, <2>1, LivesSound DEF Updates!Alive
<1>4. CASE Updates!RestartCommits(b)
  <2>1. /\ restart = b /\ restart' = 0 /\ ctl' = ctl /\ win' = win
        /\ life' = [life EXCEPT ![b] = "leaving"]
    BY <1>4 DEF Updates!RestartCommits
  <2> QED BY <1>1, <2>1, LivesSound DEF Updates!Alive
<1>5. CASE Updates!ChildTakes(b)
  <2>1. /\ life[b] = "standby" /\ life[b - 1] = "leaving" /\ UNCHANGED <<restart, ctl, win>>
        /\ life' = [life EXCEPT ![b] = "up"]
    BY <1>5 DEF Updates!ChildTakes
  <2>2. restart # 0 => b # restart /\ b # restart + 1
    BY <1>1, <2>1
  <2> QED BY <1>1, <2>1, <2>2, LivesSound DEF Updates!Alive
<1>6. CASE Updates!ProcessEnds(b)
  <2>1. /\ Updates!Alive(b) /\ ctl' = [ctl EXCEPT ![b] = Updates!IdleController] /\ win' = win
        /\ life' = [o \in Updates!Boots |->
                      IF o = b THEN "gone"
                      ELSE IF o = b + 1 /\ life[o] = "standby" THEN "none" ELSE life[o]]
        /\ restart' = IF restart = b THEN 0 ELSE restart
    BY <1>6 DEF Updates!ProcessEnds
  <2>2. Sound(Updates!IdleController)
    <3>1. /\ Updates!IdleController.state \in Updates!States
          /\ Updates!IdleController.version \in 0..MaxVersion
      BY BackendAssumption DEF Updates!IdleController, Updates!States, Updates!UpdateBounds
    <3> QED BY <3>1 DEF Sound, Updates!IdleController, Updates!Controller
  <2>3. restart' # 0 =>
          /\ restart' \in Updates!Boots /\ restart' + 1 \in Updates!Boots
          /\ life'[restart'] = "up" /\ life'[restart' + 1] = "standby"
    BY <1>1, <2>1 DEF Updates!Alive
  <2>4. ctl' \in [Updates!Boots -> Updates!Controller] /\ \A o \in Updates!Boots : Sound(ctl'[o])
    BY <1>1, <2>1, <2>2 DEF Sound
  <2>5. life' \in [Updates!Boots -> {"none", "standby", "up", "leaving", "gone"}]
    BY <1>1, <2>1
  <2>6. \A o \in Updates!Boots :
          /\ life[o] \in {"up", "leaving", "gone"} => life'[o] \in {"up", "leaving", "gone"}
          /\ Updates!Alive(o)' => ctl'[o] = ctl[o] /\ Updates!Alive(o)
    BY <1>1, <2>1 DEF Updates!Alive
  <2> QED BY <2>1, <2>3, <2>4, <2>5, <2>6, LivesSound
<1>7. CASE Updates!Boot(b)
  <2>1. /\ life[b] = "none" /\ life' = [life EXCEPT ![b] = "up"] /\ UNCHANGED <<restart, ctl, win>>
    BY <1>7 DEF Updates!Boot
  <2> QED BY <1>1, <2>1, LivesSound DEF Updates!Alive
<1> QED BY <1>2, <1>3, <1>4, <1>5, <1>6, <1>7

LEMMA UpdateInit == Updates!Init => UpdateInv
<1> SUFFICES ASSUME Updates!Init PROVE UpdateInv
  OBVIOUS
<1>1. /\ life = [b \in Updates!Boots |-> IF b = 1 THEN "up" ELSE "none"] /\ restart = 0
      /\ ctl = [b \in Updates!Boots |-> Updates!IdleController]
      /\ win = [w \in Updates!Setups |-> Updates!Unused]
  BY DEF Updates!Init
<1>2. Sound(Updates!IdleController)
  <2>1. /\ Updates!IdleController.state \in Updates!States
        /\ Updates!IdleController.version \in 0..MaxVersion
    BY BackendAssumption DEF Updates!IdleController, Updates!States, Updates!UpdateBounds
  <2> QED BY <2>1 DEF Sound, Updates!IdleController, Updates!Controller
<1>3. Updates!Unused \in Updates!Launch /\ Updates!Unused.phase = "unused"
  BY BackendAssumption DEF Updates!Unused, Updates!Launch, Updates!Data, Updates!UpdateBounds
<1>4. Updates!OnWindows = {}
  BY <1>1, <1>3 DEF Updates!OnWindows
<1> QED BY <1>1, <1>2, <1>3, <1>4 DEF UpdateInv, Sound, Updates!OnlyVerifiedRuns

(* For every number of releases, processes and launches: Windows only runs *)
(* what matched the release's sums, whatever two processes do in one       *)
(* directory; a living backend's Setup keeps its flight; and a press is    *)
(* refused for a pipeline or an unsettled launch only.                     *)
THEOREM UpdatesSoundly == Updates!Spec => []UpdateIsSound
<1>1. UpdateInv => UpdateIsSound
  <2>1. UpdateInv => Updates!HeldUntilExit
    BY DEF UpdateInv, Updates!HeldUntilExit, Updates!OnWindows, Sound
  <2>2. UpdateInv => Updates!RefusesForAReason
    BY DEF UpdateInv, Updates!RefusesForAReason, Sound
  <2> QED BY <2>1, <2>2 DEF UpdateInv, UpdateIsSound
<1>2. UpdateInv /\ [Updates!Next]_(Updates!vars) => UpdateInv'
  <2>1. ASSUME UpdateInv, UNCHANGED Updates!vars
        PROVE  UpdateInv'
    BY <2>1 DEF UpdateInv, Updates!vars, Updates!OnlyVerifiedRuns, Updates!OnWindows, Updates!Alive
  <2> QED BY <2>1, RequestSound, PipelineSound, StagingSound, WindowsSound, ProcessesSound
             DEF Updates!Next
<1> QED BY <1>1, <1>2, UpdateInit, PTL DEF Updates!Spec

-----------------------------------------------------------------------------
(***************************************************************************)
(* The restart                                                             *)
(***************************************************************************)
Handed == {"sent", "waiting", "leaving", "gone"}   \* the parent has let go

(* What the disk and the parent hold at each step of the parent.           *)
Preflight ==
  pc \in {"serving", "building", "spawning", "ready"} =>
    /\ dist \in {"none", "old"} /\ prev \in {"none", "old"} /\ (dist # "none" => prev = "none")
    /\ running = TRUE /\ stamp = "live" /\ runtime = "parent" /\ port = "parent"
    /\ pc = "serving" => next = "none"
    /\ pc \in {"spawning", "ready"} => next = "new"

Swapping ==
  pc \in {"aside", "swapped"} =>
    /\ prev = IF swapped THEN "old" ELSE "none"
    /\ running = TRUE /\ stamp = "live" /\ runtime = "parent" /\ port = "parent"
    /\ pc = "aside" => dist = "none" /\ next = "new"
    /\ pc = "swapped" => dist = "new" /\ next = "none"

TearingDown ==
  /\ pc \in {"stamped", "killed", "closed", "sent", "waiting", "leaving"} =>
       dist = "new" /\ next = "none" /\ stamp = "shutdown"
  /\ pc \in {"killed", "closed", "sent", "waiting"} => running = FALSE
  /\ pc \in {"closed", "sent", "waiting"} => port # "parent"

(* `go' reaches the child of this restart only, after the teardown.        *)
GoIsLast ==
  /\ go \subseteq {cur} /\ \A c \in Children : Restarts!Owning(c) => c \in go
  /\ go # {} => pc \in Handed /\ dist = "new" /\ next = "none" /\ stamp = "shutdown"
                /\ running = FALSE

(* The inductive invariant.                                                *)
RestartInv ==
  /\ Restarts!TypeOK /\ Preflight /\ Swapping /\ TearingDown /\ GoIsLast
  /\ pc \notin {"serving", "building", "gone"} => cur \in Children
  /\ stamp # "crash" /\ runtime \in {"parent", "none"} \cup go
  /\ Restarts!ScreensNeverLost /\ Restarts!ListeningChildIsDiscoverable
  /\ Restarts!AcceptedMeansHandedOver
  /\ resp = "202" => pc \in {"leaving", "gone"}

(* A step of the parent.                                                   *)
LEMMA ParentStep ==
  ASSUME RestartInv,
         \/ Restarts!Request \/ Restarts!BuildFails
         \/ Restarts!StandbyFails \/ Restarts!StandbyReports
         \/ Restarts!FoundDeadBeforeSwap \/ Restarts!ParentSwaps
         \/ Restarts!FoundDeadBeforeTeardown \/ Restarts!ParentTearsDown
         \/ Restarts!GoThrows \/ Restarts!SendGo \/ Restarts!Commit
         \/ Restarts!ChildIsHealthy \/ Restarts!WaitTimesOut \/ Restarts!Leave
         \/ Restarts!Shutdown \/ Restarts!DeathNoticed
  PROVE  RestartInv'
<1> USE DEF RestartInv, Restarts!TypeOK, Preflight, Swapping, TearingDown, GoIsLast, Restarts!ScreensNeverLost,
      Restarts!ListeningChildIsDiscoverable, Restarts!AcceptedMeansHandedOver, Restarts!Owning,
      Restarts!parentVars, Restarts!diskVars, Restarts!Build, Restarts!Steps, Handed
<1>1. CASE Restarts!Request
  BY <1>1 DEF Restarts!Request
<1>2. CASE Restarts!BuildFails
  BY <1>2 DEF Restarts!BuildFails
<1>3. CASE Restarts!StandbyFails
  BY <1>3 DEF Restarts!StandbyFails, Restarts!Refuse
<1>4. CASE Restarts!StandbyReports
  BY <1>4 DEF Restarts!StandbyReports
<1>5. CASE Restarts!FoundDeadBeforeSwap
  BY <1>5 DEF Restarts!FoundDeadBeforeSwap, Restarts!Refuse
<1>6. CASE Restarts!SwapRefuses
  BY <1>6 DEF Restarts!SwapRefuses, Restarts!Refuse
<1>7. CASE Restarts!SwapAside
  BY <1>7 DEF Restarts!SwapAside
<1>8. CASE Restarts!SwapIn
  BY <1>8 DEF Restarts!SwapIn
<1>9. CASE Restarts!FoundDeadBeforeTeardown
  BY <1>9 DEF Restarts!FoundDeadBeforeTeardown
<1>10. CASE Restarts!TeardownStamps
  BY <1>10 DEF Restarts!TeardownStamps
<1>11. CASE Restarts!TeardownKills
  BY <1>11 DEF Restarts!TeardownKills
<1>12. CASE Restarts!TeardownCloses
  BY <1>12 DEF Restarts!TeardownCloses
<1>13. CASE Restarts!TeardownThrows
  BY <1>13 DEF Restarts!TeardownThrows
<1>14. CASE Restarts!GoThrows
  BY <1>14 DEF Restarts!GoThrows
<1>15. CASE Restarts!SendGo
  BY <1>15 DEF Restarts!SendGo
<1>16. CASE Restarts!Commit
  BY <1>16 DEF Restarts!Commit
<1>17. CASE Restarts!ChildIsHealthy
  BY <1>17 DEF Restarts!ChildIsHealthy
<1>18. CASE Restarts!WaitTimesOut
  BY <1>18 DEF Restarts!WaitTimesOut
<1>19. CASE Restarts!Leave
  BY <1>19 DEF Restarts!Leave, Restarts!Released
<1>20. CASE Restarts!Shutdown
  BY <1>20 DEF Restarts!Shutdown, Restarts!Released, Restarts!InProgress
<1>21. CASE Restarts!DeathNoticed
  BY <1>21 DEF Restarts!DeathNoticed
<1> QED BY <1>1, <1>2, <1>3, <1>4, <1>5, <1>6, <1>7, <1>8, <1>9, <1>10, <1>11, <1>12, <1>13, <1>14,
           <1>15, <1>16, <1>17, <1>18, <1>19, <1>20, <1>21
           DEF Restarts!ParentSwaps, Restarts!ParentTearsDown

LEMMA BuildDoneStep ==
  ASSUME RestartInv, NEW c \in Children, Restarts!BuildDone(c)
  PROVE  RestartInv'
BY DEF RestartInv, Restarts!TypeOK, Preflight, Swapping, TearingDown, GoIsLast,
       Restarts!ScreensNeverLost, Restarts!ListeningChildIsDiscoverable,
       Restarts!AcceptedMeansHandedOver, Restarts!Owning, Restarts!Build, Restarts!Steps, Handed,
       Restarts!BuildDone

(* The parent dies at any step.                                            *)
LEMMA CrashStep ==
  ASSUME RestartInv, NEW tidy \in BOOLEAN, Restarts!Crash(tidy)
  PROVE  RestartInv'
BY DEF RestartInv, Restarts!TypeOK, Preflight, Swapping, TearingDown, GoIsLast,
       Restarts!ScreensNeverLost, Restarts!ListeningChildIsDiscoverable,
       Restarts!AcceptedMeansHandedOver, Restarts!Owning, Restarts!Build, Restarts!Steps, Handed,
       Restarts!diskVars, Restarts!Crash, Restarts!InProgress, Restarts!Released

(* A step of a child.                                                      *)
LEMMA ChildStep ==
  ASSUME RestartInv, NEW c \in Children,
         \/ Restarts!ChildReports(c) \/ Restarts!ChildTakes(c) \/ Restarts!ChildListens(c)
         \/ Restarts!ChildLeaves(c) \/ Restarts!ChildTimesOut(c) \/ Restarts!ChildDies(c)
  PROVE  RestartInv'
<1> USE DEF RestartInv, Restarts!TypeOK, Preflight, Swapping, TearingDown, GoIsLast,
      Restarts!ScreensNeverLost, Restarts!ListeningChildIsDiscoverable,
      Restarts!AcceptedMeansHandedOver, Restarts!Owning, Restarts!parentVars,
      Restarts!diskVars, Restarts!Build, Restarts!Steps, Handed
<1>1. CASE Restarts!ChildReports(c)
  BY <1>1 DEF Restarts!ChildReports
<1>2. CASE Restarts!ChildTakes(c)
  BY <1>2 DEF Restarts!ChildTakes
<1>3. c # "parent"
  BY BackendAssumption DEF Restarts!RestartAssumption
<1>4. CASE Restarts!ChildListens(c)
  BY <1>3, <1>4 DEF Restarts!ChildListens
<1>5. CASE Restarts!Ends(c)
  BY <1>3, <1>5 DEF Restarts!Ends
<1> QED BY <1>1, <1>2, <1>4, <1>5
           DEF Restarts!ChildLeaves, Restarts!ChildTimesOut, Restarts!ChildDies

LEMMA RestartInit == Restarts!Init => RestartInv
<1> SUFFICES ASSUME Restarts!Init PROVE RestartInv
  OBVIOUS
<1>1. /\ pc = "serving" /\ resp = "none" /\ cur = NoChild /\ child = [c \in Children |-> "none"]
      /\ late = {} /\ known = {} /\ doomed = {} /\ go = {}
      /\ dist \in {"none", "old"} /\ next = "none" /\ prev = "none"
      /\ runtime = "parent" /\ port = "parent" /\ stamp = "live"
  BY DEF Restarts!Init
<1>2. crashed = FALSE /\ swapped = FALSE /\ running = TRUE
  BY DEF Restarts!Init
<1>3. Restarts!TypeOK
  BY <1>1, <1>2 DEF Restarts!TypeOK, Restarts!Build, Restarts!Steps
<1>4. Preflight /\ Swapping /\ TearingDown /\ GoIsLast
  BY <1>1, <1>2 DEF Preflight, Swapping, TearingDown, GoIsLast, Restarts!Owning
<1>5. /\ Restarts!ScreensNeverLost /\ Restarts!ListeningChildIsDiscoverable
      /\ Restarts!AcceptedMeansHandedOver
  BY <1>1, <1>2 DEF Restarts!ScreensNeverLost, Restarts!ListeningChildIsDiscoverable,
                    Restarts!AcceptedMeansHandedOver
<1> QED BY <1>1, <1>3, <1>4, <1>5 DEF RestartInv

LEMMA RestartStep == RestartInv /\ [Restarts!Next]_(Restarts!vars) => RestartInv'
<1>1. ASSUME RestartInv, UNCHANGED Restarts!vars
      PROVE  RestartInv'
  BY <1>1 DEF RestartInv, Restarts!TypeOK, Preflight, Swapping, TearingDown, GoIsLast,
       Restarts!ScreensNeverLost, Restarts!ListeningChildIsDiscoverable,
       Restarts!AcceptedMeansHandedOver, Restarts!Owning, Restarts!vars, Restarts!parentVars,
       Restarts!diskVars
<1> QED BY <1>1, ParentStep, BuildDoneStep, CrashStep, ChildStep DEF Restarts!Next

(* For every set of replacements, and wherever the parent and its children *)
(* are killed: a refused restart leaves no trace, the served directory or  *)
(* its backup is there, and new screens come with the new backend only.    *)
THEOREM ScreensFollow == Restarts!Spec => []ScreensFollowTheBackend
<1>1. RestartInv => ScreensFollowTheBackend
  <2>1. RestartInv => Restarts!RefusalChangesNothing
    BY DEF RestartInv, Preflight, Restarts!RefusalChangesNothing
  <2>2. RestartInv => Restarts!ChildServesNewScreens
    BY DEF RestartInv, GoIsLast, Restarts!ChildServesNewScreens
  <2> QED BY <2>1, <2>2 DEF RestartInv, ScreensFollowTheBackend
<1> QED BY <1>1, RestartInit, RestartStep, PTL DEF Restarts!Spec

(* The record of a handoff is true: a crash stamp tells of a crash, a      *)
(* listening child is the one runtime.json names, and a 202 is sent for a  *)
(* replacement that has its `go', after the old sessions were ended.       *)
THEOREM HandoffTellsTheTruth == Restarts!Spec => []HandoffIsHonest
<1>1. RestartInv => HandoffIsHonest
  BY DEF RestartInv, HandoffIsHonest, Restarts!CrashStampIsHonest
<1> QED BY <1>1, RestartInit, RestartStep, PTL DEF Restarts!Spec

(* Who owns the data directory, by the step of the parent and by whether   *)
(* the child that has its `go' took it.                                    *)
LEMMA OwnerIs ==
  /\ (\E c \in Children : Restarts!Owning(c)) => Restarts!Owner = "new"
  /\ ~(\E c \in Children : Restarts!Owning(c)) =>
       Restarts!Owner = IF pc \in Handed THEN "nobody" ELSE "old"
BY DEF Restarts!Owner, Handed

LEMMA OwnerWillBe ==
  /\ (\E c \in Children : Restarts!Owning(c)') => Restarts!Owner' = "new"
  /\ ~(\E c \in Children : Restarts!Owning(c)') =>
       Restarts!Owner' = IF pc' \in Handed THEN "nobody" ELSE "old"
BY DEF Restarts!Owner, Handed, Restarts!Owning

LEMMA HandoffInit == Restarts!Init => Restarts!Promise!Init
BY OwnerIs DEF Restarts!Init, Restarts!Promise!Init, Restarts!Owning, Handed

(* Before `go' no child owns anything.                                     *)
LEMMA NobodyOwnsBeforeGo ==
  ASSUME RestartInv, pc \notin Handed
  PROVE  ~(\E c \in Children : Restarts!Owning(c)) /\ Restarts!Owner = "old"
<1>1. ~(\E c \in Children : Restarts!Owning(c))
  BY DEF RestartInv, GoIsLast
<1> QED BY <1>1, OwnerIs

(* The parent's steps with the children at rest.                           *)
LEMMA ParentHandsOver ==
  ASSUME RestartInv,
         \A c \in Children : Restarts!Owning(c)' <=> Restarts!Owning(c),
         pc \in Handed => pc' \in Handed
  PROVE  /\ pc \in Handed => Restarts!Owner' = Restarts!Owner
         /\ pc \notin Handed => Restarts!Owner = "old"
         /\ pc \notin Handed => Restarts!Owner' = IF pc' \in Handed THEN "nobody" ELSE "old"
<1>1. CASE pc \in Handed
  BY <1>1, OwnerIs, OwnerWillBe
<1>2. CASE pc \notin Handed
  BY <1>2, NobodyOwnsBeforeGo, OwnerWillBe
<1> QED BY <1>1, <1>2

LEMMA ParentImplementsHandoff ==
  ASSUME RestartInv,
         \/ Restarts!Request \/ Restarts!BuildFails \/ (\E c \in Children : Restarts!BuildDone(c))
         \/ Restarts!StandbyFails \/ Restarts!StandbyReports
         \/ Restarts!FoundDeadBeforeSwap \/ Restarts!ParentSwaps
         \/ Restarts!FoundDeadBeforeTeardown \/ Restarts!ParentTearsDown
         \/ Restarts!GoThrows \/ Restarts!SendGo \/ Restarts!Commit
         \/ Restarts!ChildIsHealthy \/ Restarts!WaitTimesOut \/ Restarts!Leave
         \/ Restarts!Shutdown \/ (\E tidy \in BOOLEAN : Restarts!Crash(tidy))
         \/ Restarts!DeathNoticed
  PROVE  [Restarts!Promise!Next]_(Restarts!Promise!handoffVars)
<1> USE DEF Restarts!Promise!Next, Restarts!Promise!handoffVars, Restarts!Promise!EndSessions,
      Restarts!Promise!Yield, Restarts!Promise!EndAndYield
<1>1. CASE \/ Restarts!Request \/ Restarts!BuildFails
           \/ Restarts!StandbyFails \/ Restarts!StandbyReports
           \/ Restarts!FoundDeadBeforeSwap \/ Restarts!ParentSwaps
           \/ Restarts!FoundDeadBeforeTeardown \/ Restarts!TeardownKills
           \/ Restarts!TeardownCloses \/ Restarts!DeathNoticed
  <2>1. pc \notin Handed /\ pc' \notin Handed /\ UNCHANGED <<child, stamp>>
    BY <1>1 DEF Handed, Restarts!Request, Restarts!BuildFails, Restarts!StandbyFails,
         Restarts!StandbyReports, Restarts!FoundDeadBeforeSwap, Restarts!ParentSwaps,
         Restarts!SwapRefuses, Restarts!SwapAside, Restarts!SwapIn, Restarts!Refuse,
         Restarts!FoundDeadBeforeTeardown, Restarts!TeardownKills, Restarts!TeardownCloses,
         Restarts!DeathNoticed
  <2> QED BY <2>1, ParentHandsOver DEF Restarts!Owning
<1>2. ASSUME NEW c \in Children, Restarts!BuildDone(c)
      PROVE  [Restarts!Promise!Next]_(Restarts!Promise!handoffVars)
  <2>1. /\ pc = "building" /\ pc' = "spawning" /\ child[c] = "none" /\ stamp' = stamp
        /\ child' = [child EXCEPT ![c] = "booting"] /\ child \in [Children ->
             {"none", "booting", "ready", "owning", "listening", "dead"}]
    BY <1>2 DEF Restarts!BuildDone, RestartInv, Restarts!TypeOK
  <2>2. \A o \in Children : Restarts!Owning(o)' <=> Restarts!Owning(o)
    BY <2>1 DEF Restarts!Owning
  <2> QED BY <2>1, <2>2, ParentHandsOver DEF Handed
<1>3. CASE Restarts!TeardownStamps
  <2>1. pc = "swapped" /\ pc' = "stamped" /\ stamp' = "shutdown" /\ child' = child /\ stamp = "live"
    BY <1>3 DEF Restarts!TeardownStamps, RestartInv, Swapping
  <2> QED BY <2>1, ParentHandsOver DEF Restarts!Owning, Handed
<1>4. CASE Restarts!TeardownThrows \/ Restarts!GoThrows \/ Restarts!SendGo
  <2>1. pc \notin Handed /\ pc' \in Handed /\ UNCHANGED <<child, stamp>>
    BY <1>4 DEF Restarts!TeardownThrows, Restarts!GoThrows, Restarts!SendGo, Handed
  <2> QED BY <2>1, ParentHandsOver DEF Restarts!Owning
<1>5. CASE Restarts!Commit \/ Restarts!ChildIsHealthy \/ Restarts!WaitTimesOut \/ Restarts!Leave
  <2>1. pc \in Handed /\ pc' \in Handed /\ UNCHANGED <<child, stamp>>
    BY <1>5 DEF Restarts!Commit, Restarts!ChildIsHealthy, Restarts!WaitTimesOut, Restarts!Leave,
         Handed
  <2> QED BY <2>1, ParentHandsOver DEF Restarts!Owning
<1>6. CASE Restarts!Shutdown
  <2>1. pc' \in Handed /\ child' = child
    BY <1>6 DEF Restarts!Shutdown, Handed
  <2>2. CASE pc \in Handed
    <3>1. stamp' = stamp
      BY <1>6, <2>2 DEF Restarts!Shutdown, Restarts!InProgress, Handed
    <3> QED BY <2>1, <2>2, <3>1, ParentHandsOver DEF Restarts!Owning
  <2>3. CASE pc \notin Handed
    <3>1. stamp = "live" /\ stamp' = "shutdown"
      BY <1>6, <2>3 DEF Restarts!Shutdown, Restarts!InProgress, Handed, RestartInv, Preflight
    <3> QED BY <2>1, <2>3, <3>1, ParentHandsOver DEF Restarts!Owning
  <2> QED BY <2>2, <2>3
<1>7. ASSUME NEW tidy \in BOOLEAN, Restarts!Crash(tidy)
      PROVE  [Restarts!Promise!Next]_(Restarts!Promise!handoffVars)
  <2>1. pc' \in Handed /\ UNCHANGED <<child, stamp>>
    BY <1>7 DEF Restarts!Crash, Handed
  <2> QED BY <2>1, ParentHandsOver DEF Restarts!Owning
<1> QED BY <1>1, <1>2, <1>3, <1>4, <1>5, <1>6, <1>7 DEF Restarts!ParentTearsDown

LEMMA ChildImplementsHandoff ==
  ASSUME RestartInv, NEW c \in Children,
         \/ Restarts!ChildReports(c) \/ Restarts!ChildTakes(c) \/ Restarts!ChildListens(c)
         \/ Restarts!ChildLeaves(c) \/ Restarts!ChildTimesOut(c) \/ Restarts!ChildDies(c)
  PROVE  [Restarts!Promise!Next]_(Restarts!Promise!handoffVars)
<1> USE DEF Restarts!Promise!Next, Restarts!Promise!handoffVars, Restarts!Promise!Take,
      Restarts!Promise!Drop
<1>1. /\ child \in [Children -> {"none", "booting", "ready", "owning", "listening", "dead"}]
      /\ \A o \in Children : Restarts!Owning(o) => o \in go
      /\ go \subseteq {cur} /\ (go # {} => pc \in Handed)
  BY DEF RestartInv, Restarts!TypeOK, GoIsLast
<1>2. CASE Restarts!ChildReports(c) \/ Restarts!ChildListens(c)
  <2>1. pc' = pc /\ stamp' = stamp /\ \A o \in Children : Restarts!Owning(o)' <=> Restarts!Owning(o)
    BY <1>1, <1>2 DEF Restarts!ChildReports, Restarts!ChildListens, Restarts!Owning
  <2>2. Restarts!Owner' = Restarts!Owner
    BY <2>1, OwnerIs, OwnerWillBe
  <2> QED BY <2>1, <2>2
<1>3. CASE Restarts!ChildTakes(c)
  <2>1. /\ child[c] = "ready" /\ c \in go /\ child' = [child EXCEPT ![c] = "owning"]
        /\ stamp' = IF stamp = "live" THEN "crash" ELSE stamp
    BY <1>3 DEF Restarts!ChildTakes
  <2>2. ~(\E o \in Children : Restarts!Owning(o)) /\ pc \in Handed
    BY <1>1, <2>1 DEF Restarts!Owning
  <2>3. Restarts!Owning(c)'
    BY <1>1, <2>1 DEF Restarts!Owning
  <2> QED BY <2>1, <2>2, <2>3, OwnerIs, OwnerWillBe
<1>4. CASE Restarts!Ends(c)
  <2>1. child' = [child EXCEPT ![c] = "dead"] /\ pc' = pc /\ stamp' = stamp
    BY <1>4 DEF Restarts!Ends
  <2>2. CASE Restarts!Owning(c)
    <3>1. ~(\E o \in Children : Restarts!Owning(o)') /\ pc' \in Handed
      BY <1>1, <2>1, <2>2 DEF Restarts!Owning
    <3> QED BY <2>1, <2>2, <3>1, OwnerIs, OwnerWillBe
  <2>3. CASE ~Restarts!Owning(c)
    <3>1. \A o \in Children : Restarts!Owning(o)' <=> Restarts!Owning(o)
      BY <1>1, <2>1, <2>3 DEF Restarts!Owning
    <3>2. Restarts!Owner' = Restarts!Owner
      BY <2>1, <3>1, OwnerIs, OwnerWillBe
    <3> QED BY <2>1, <3>2
  <2> QED BY <2>2, <2>3
<1> QED BY <1>2, <1>3, <1>4 DEF Restarts!ChildLeaves, Restarts!ChildTimesOut, Restarts!ChildDies

(* The restart implements Handoff, wherever its processes are killed: the  *)
(* data directory is the old backend's, then nobody's, then the new one's, *)
(* and the old sessions are stamped once.                                  *)
THEOREM RestartHandsOver == Restarts!Spec => HandsOver
<1>1. ASSUME RestartInv, [Restarts!Next]_(Restarts!vars)
      PROVE  [Restarts!Promise!Next]_(Restarts!Promise!handoffVars)
  <2>1. CASE UNCHANGED Restarts!vars
    BY <2>1 DEF Restarts!vars, Restarts!Promise!handoffVars, Restarts!Owner, Restarts!Owning
  <2> QED BY <1>1, <2>1, ParentImplementsHandoff, ChildImplementsHandoff DEF Restarts!Next
<1> QED BY <1>1, HandoffInit, RestartInit, RestartStep, PTL
        DEF Restarts!Spec, HandsOver, Restarts!HandsOver, Restarts!Promise!Spec

-----------------------------------------------------------------------------
(***************************************************************************)
(* The routes                                                              *)
(***************************************************************************)


(* A resume under way names a key, whatever became of its entry since.     *)
RequestsNameKeys ==
  /\ req \in [Requests -> Request]
  /\ \A r \in Requests : req[r] # NoRequest => req[r].key \in Keys

(* Launches are numbered by the clock, which is ahead of all of them.      *)
LaunchesAreOrdered ==
  /\ conv \in [Sids -> Keys \cup {NoKey}] /\ born \in [Sids -> Nat]
  /\ \A s \in Sids : born[s] < clock
  /\ \A s \in ptys : conv[s] \in Keys

(* The inductive invariant of the routes.                                  *)
ApiInv ==
  /\ Inv
  /\ RequestsNameKeys
  /\ LaunchesAreOrdered
  /\ LatestLaunchIsRemembered

-----------------------------------------------------------------------------
(* Steps that start no session: those that keep their PTY keep their live  *)
(* entry too, and nothing else of the invariant is disturbed.              *)
LEMMA NoLaunchStep ==
  ASSUME ApiInv, Inv', clock' = clock, created \subseteq created', ptys' \subseteq ptys,
         \A s \in ptys', k \in Keys :
           hist[k].sid = s /\ hist[k].ended = "live" => hist'[k] = hist[k],
         RequestsNameKeys', UNCHANGED <<conv, born>>
  PROVE  ApiInv'
<1>1. LaunchesAreOrdered'
  BY DEF ApiInv, LaunchesAreOrdered
<1>2. LatestLaunchIsRemembered'
  BY DEF ApiInv, LatestLaunchIsRemembered, LaunchesAreOrdered
<1> QED BY <1>1, <1>2 DEF ApiInv

(* A launch: the entry of its conversation is the new session's, and every *)
(* session that held it has a newer launch to answer to.                   *)
LEMMA LaunchKeepsApiInv ==
  ASSUME ApiInv, NEW s \in Sids, NEW key \in Keys, Launch(s, key), RequestsNameKeys'
  PROVE  ApiInv'
<1> TypeOK
  BY DEF ApiInv, Inv
<1>1. CASE \E sl \in BOOLEAN : Create(s, key, sl)
  <2>1. PICK sl \in BOOLEAN : Create(s, key, sl)
    BY <1>1
  <2>2. Inv'
    BY <2>1, CreateStep DEF ApiInv
  <2>3. /\ s \notin created /\ created' = created \cup {s} /\ ptys' = ptys \cup {s}
        /\ s \in listed' /\ clock \in Nat /\ clock' = clock + 1
        /\ hist' = RecordCreate(hist, key, s, clock)
    BY <2>1 DEF Create, TypeOK
  <2>4. conv' = [conv EXCEPT ![s] = key] /\ born' = [born EXCEPT ![s] = clock]
    BY <2>3 DEF Launch
  <2>5. /\ hist'[key].sid = s /\ hist'[key].ended = "live"
        /\ \A k \in Keys \ {key} : hist[k].ended = "live" => hist'[k] = hist[k]
    BY <2>3, RecordCreateEffect DEF TypeOK
  <2>6. /\ conv'[s] = key /\ born'[s] = clock
        /\ \A t \in Sids \ {s} : conv'[t] = conv[t] /\ born'[t] = born[t]
    BY <2>4 DEF ApiInv, LaunchesAreOrdered
  <2>7. LaunchesAreOrdered'
    <3>1. conv' \in [Sids -> Keys \cup {NoKey}] /\ born' \in [Sids -> Nat]
      BY <2>3, <2>4 DEF ApiInv, LaunchesAreOrdered
    <3>2. \A t \in Sids : born'[t] < clock'
      BY <2>3, <2>6 DEF ApiInv, LaunchesAreOrdered
    <3> QED BY <3>1, <3>2, <2>3, <2>6 DEF ApiInv, LaunchesAreOrdered, TypeOK
  <2>8. LatestLaunchIsRemembered'
    <3> SUFFICES ASSUME NEW t \in ptys'
                 PROVE  \/ hist'[conv'[t]].sid = t /\ hist'[conv'[t]].ended = "live"
                        \/ \E u \in created' : conv'[u] = conv'[t] /\ born'[u] > born'[t]
      BY DEF LatestLaunchIsRemembered
    <3>1. CASE t = s
      BY <3>1, <2>5, <2>6
    <3>2. CASE t # s
      <4>1. t \in ptys /\ t \in Sids /\ conv'[t] = conv[t] /\ born'[t] = born[t]
        BY <3>2, <2>3, <2>6 DEF TypeOK
      <4>2. CASE conv[t] = key
        BY <4>1, <4>2, <2>3, <2>6 DEF ApiInv, LaunchesAreOrdered
      <4>3. CASE conv[t] # key
        <5>1. conv[t] \in Keys \ {key}
          BY <4>1, <4>3 DEF ApiInv, LaunchesAreOrdered
        <5>2. \A u \in created : u # s /\ u \in Sids
          BY <2>3 DEF TypeOK
        <5> QED BY <4>1, <5>1, <5>2, <2>3, <2>5, <2>6 DEF ApiInv, LatestLaunchIsRemembered
      <4> QED BY <4>2, <4>3
    <3> QED BY <3>1, <3>2
  <2> QED BY <2>2, <2>7, <2>8 DEF ApiInv
<1>2. CASE \E sl \in BOOLEAN : CreateFails(s, sl)
  <2>1. Inv'
    BY <1>2, CreateFailsStep DEF ApiInv
  <2>2. s \notin listed'
    BY <1>2 DEF CreateFails, TypeOK
  <2> QED BY <1>2, <2>1, <2>2, NoLaunchStep DEF Launch, CreateFails
<1> QED BY <1>1, <1>2 DEF Launch

(* The routes.  ResumeEnds may launch a key whose entry was forgotten while*)
(* the body was awaited, so a launched key is a key and no more than that. *)
LEMMA PostSessionStep ==
  ASSUME ApiInv, NEW s \in Sids, NEW key \in Keys, PostSession(s, key)
  PROVE  ApiInv'
<1>1. RequestsNameKeys'
  BY DEF PostSession, ApiInv, RequestsNameKeys
<1> QED BY <1>1, LaunchKeepsApiInv DEF PostSession

LEMMA ResumeBeginsStep ==
  ASSUME ApiInv, NEW r \in Requests, NEW key \in Keys, ResumeBegins(r, key)
  PROVE  ApiInv'
<1>1. RequestsNameKeys'
  BY DEF ResumeBegins, ApiInv, RequestsNameKeys, Request
<1>2. Inv'
  BY DEF ResumeBegins, ApiInv, Inv, vars, TypeOK, PtyIffRunning, UnspawnedIsBlank, Blank,
         HistorySids, LiveEntryHasSession, ArtifactsOfRunningOnly, NoLeaderLeaked,
         LadderBookkeeping, UserKillFollowedThrough
<1> QED BY <1>1, <1>2, NoLaunchStep DEF ResumeBegins, vars

LEMMA ResumeEndsStep ==
  ASSUME ApiInv, NEW r \in Requests, NEW s \in Sids, ResumeEnds(r, s)
  PROVE  ApiInv'
<1>1. RequestsNameKeys'
  BY DEF ResumeEnds, ApiInv, RequestsNameKeys, Request, NoRequest
<1>2. CASE req[r].live
  <2>1. UNCHANGED vars /\ UNCHANGED <<conv, born>>
    BY <1>2 DEF ResumeEnds
  <2>2. Inv'
    BY <2>1, NextInv DEF ApiInv
  <2> QED BY <1>1, <2>1, <2>2, NoLaunchStep DEF vars
<1>3. CASE ~req[r].live
  <2>1. req[r].key \in Keys /\ Launch(s, req[r].key)
    BY <1>3 DEF ResumeEnds, ApiInv, RequestsNameKeys
  <2> QED BY <1>1, <2>1, LaunchKeepsApiInv
<1> QED BY <1>2, <1>3

LEMMA ResumeAbortsStep ==
  ASSUME ApiInv, NEW r \in Requests, ResumeAborts(r)
  PROVE  ApiInv'
<1>1. RequestsNameKeys'
  BY DEF ResumeAborts, ApiInv, RequestsNameKeys, Request, NoRequest
<1>2. Inv'
  BY NextInv DEF ResumeAborts, ApiInv
<1> QED BY <1>1, <1>2, NoLaunchStep DEF ResumeAborts, vars

(* Forgetting drops ended entries only.                                    *)
LEMMA ForgetEntriesStep ==
  ASSUME ApiInv, NEW gone \in SUBSET Keys, ForgetEntries(gone)
  PROVE  ApiInv'
<1> TypeOK /\ HistorySids
  BY DEF ApiInv, Inv
<1>1. /\ hist' \in [Keys -> Entry]
      /\ \A k \in Keys : /\ hist'[k] \in {hist[k], NoEntry}
                         /\ hist[k].ended = "live" => hist'[k] = hist[k]
  BY DEF ForgetEntries, Forget, TypeOK, Ended, Reasons, NoEntry, Entry
<1>2. UNCHANGED <<up, clock, created, listed, info, ptys, pid, lastPid, procs, killTimer,
                  escalating, settings, tracked, sock, view, req, conv, born>>
  BY DEF ForgetEntries
<1>3. \A k \in Keys : hist'[k] = hist[k] \/ (hist'[k].sid = NoSid /\ hist'[k].ended = "absent")
  BY <1>1 DEF NoEntry
<1>4. Inv'
  <2>1. TypeOK' /\ PtyIffRunning' /\ ArtifactsOfRunningOnly' /\ NoLeaderLeaked' /\ LadderBookkeeping'
    BY <1>1, <1>2 DEF ApiInv, Inv, TypeOK, PtyIffRunning, ArtifactsOfRunningOnly, NoLeaderLeaked,
                      LadderBookkeeping
  <2>2. UnspawnedIsBlank'
    BY <1>2, <1>3, HistoryAssumption DEF ApiInv, Inv, UnspawnedIsBlank, Blank
  <2>3. HistorySids' /\ LiveEntryHasSession' /\ UserKillFollowedThrough'
    BY <1>2, <1>3 DEF ApiInv, Inv, HistorySids, LiveEntryHasSession, UserKillFollowedThrough
  <2> QED BY <2>1, <2>2, <2>3 DEF Inv
<1>5. RequestsNameKeys'
  BY <1>2 DEF ApiInv, RequestsNameKeys
<1> QED BY <1>1, <1>2, <1>4, <1>5, NoLaunchStep

(* The manager's own steps: an entry is stamped only for the session that  *)
(* loses its PTY in the same step.                                         *)
LEMMA ManagerStep ==
  ASSUME ApiInv,
         \/ \E s \in Sids : BrowserStep(s) \/ EngineStep(s)
         \/ \E c \in Clients : SocketStep(c)
         \/ Shutdown,
         UNCHANGED <<req, conv, born>>
  PROVE  ApiInv'
<1> TypeOK
  BY DEF ApiInv, Inv
<1>1. Inv'
  BY NextInv DEF ApiInv, Next
<1>2. RequestsNameKeys'
  BY DEF ApiInv, RequestsNameKeys
<1> DEFINE Keeps == /\ clock' = clock /\ created' = created /\ ptys' \subseteq ptys
                    /\ \A s \in ptys', k \in Keys :
                         hist[k].sid = s /\ hist[k].ended = "live" => hist'[k] = hist[k]
<1>3. ASSUME NEW s \in Sids, BrowserStep(s) PROVE Keeps
  <2>1. CASE Destroy(s)
    <3>1. /\ clock' = clock /\ created' = created /\ ptys' = ptys \ {s}
          /\ hist' \in {hist, MarkEnded(hist, s, "user-kill")}
      BY <2>1 DEF Destroy
    <3>2. \A k \in Keys : hist[k].sid # s => hist'[k] = hist[k]
      BY <3>1, MarkEndedEffect DEF TypeOK, Reasons
    <3> QED BY <3>1, <3>2
  <2> QED BY <1>3, <2>1 DEF BrowserStep, MarkSeen, Upgrade
<1>4. ASSUME NEW s \in Sids, EngineStep(s) PROVE Keeps
  <2>1. CASE \E e \in BOOLEAN : OnExit(s, e)
    <3>1. /\ clock' = clock /\ created' = created /\ ptys' = ptys \ {s}
          /\ hist' = MarkEnded(hist, s, "exit")
      BY <2>1 DEF OnExit
    <3>2. \A k \in Keys : hist[k].sid # s => hist'[k] = hist[k]
      BY <3>1, MarkEndedEffect DEF TypeOK, Reasons
    <3> QED BY <3>1, <3>2
  <2>2. CASE UNCHANGED <<clock, created, ptys, hist>>
    BY <2>2
  <2> HIDE DEF Keeps
  <2> QED BY <1>4, <2>1, <2>2 DEF EngineStep, WorkerForks, ProcessEnds, HandleOutput, Telemetry,
                                  SetReport, TermFires, KillFires
<1>5. ASSUME NEW c \in Clients, SocketStep(c) PROVE Keeps
  BY <1>5 DEF SocketStep, Attach, ClientCloses
<1>6. ASSUME Shutdown PROVE Keeps
  <2>1. ptys' = {} /\ UNCHANGED <<clock, created>>
    BY <1>6 DEF Shutdown, ApiInv, Inv, ArtifactsOfRunningOnly, TypeOK
  <2> QED BY <2>1
<1>7. Keeps
  <2> HIDE DEF Keeps
  <2> QED BY <1>3, <1>4, <1>5, <1>6
<1> QED BY <1>1, <1>2, <1>7, NoLaunchStep

-----------------------------------------------------------------------------
LEMMA ApiInitInv == ApiInit => ApiInv
<1> SUFFICES ASSUME ApiInit PROVE ApiInv
  OBVIOUS
<1>1. Inv
  BY InitInv DEF ApiInit
<1>2. RequestsNameKeys
  BY DEF ApiInit, RequestsNameKeys, NoRequest, Request
<1>3. LaunchesAreOrdered /\ LatestLaunchIsRemembered
  BY DEF ApiInit, Init, LaunchesAreOrdered, LatestLaunchIsRemembered
<1> QED BY <1>1, <1>2, <1>3 DEF ApiInv

LEMMA ApiNextInv == ApiInv /\ [ApiNext]_apiVars => ApiInv'
<1> SUFFICES ASSUME ApiInv, [ApiNext]_apiVars PROVE ApiInv'
  OBVIOUS
<1>1. CASE UNCHANGED apiVars
  <2>1. Inv' /\ RequestsNameKeys'
    BY <1>1, NextInv DEF apiVars, ApiInv, RequestsNameKeys
  <2> QED BY <1>1, <2>1, NoLaunchStep DEF apiVars, vars
<1> QED BY <1>1, PostSessionStep, ResumeBeginsStep, ResumeEndsStep, ResumeAbortsStep,
           ForgetEntriesStep, ManagerStep DEF ApiNext

(* The manager's invariant holds whatever the routes do around it, resumes *)
(* of forgotten entries included.                                          *)
THEOREM ApiSafety == ApiSpec => []ApiInv
BY ApiInitInv, ApiNextInv, PTL DEF ApiSpec

(* A running session is in the history as live, or a newer launch on its   *)
(* conversation is: no forget, prune, bound or stamp takes the entry away. *)
THEOREM LatestLaunchStays == ApiSpec => []LatestLaunchIsRemembered
<1>1. ApiInv => LatestLaunchIsRemembered
  BY DEF ApiInv
<1> QED BY <1>1, ApiSafety, PTL
=============================================================================
