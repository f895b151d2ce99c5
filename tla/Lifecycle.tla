----------------------------- MODULE Lifecycle -----------------------------
(***************************************************************************)
(* When the backend leaves by itself: the LifecycleController of           *)
(* server/lifecycle.ts, the sockets of server/ws.ts that move its counters,*)
(* and the idle callback of server/index.ts, which lets a working update   *)
(* hold the process for a bounded time.                                    *)
(***************************************************************************)
EXTENDS Naturals, FiniteSets

CONSTANT Clients   \* WebSockets of browser windows, on either channel

VARIABLES
  process,     \* "boot", "listening", "handoff" (restart teardown ran), "exited"
  presence,    \* #presenceCount
  attached,    \* #attachedCount
  ever,        \* #everHadPresence
  timer,       \* #timer: "off", or the grace it was armed with
  stopped,     \* #stopped
  sock,        \* each socket: its channel, and whether release() has run
  update       \* the updater: "idle", "working" within the ceiling, "overdue"

vars == <<process, presence, attached, ever, timer, stopped, sock, update>>

Channels == {"presence", "session"}
Sockets == [channel : Channels \cup {"none"}, released : BOOLEAN]
NoSocket == [channel |-> "none", released |-> TRUE]

(* Mutants of Evaluate: the kind of the grace ignores #everHadPresence; a  *)
(* client that connects does not cancel the timer.                         *)
EvaluateOneKind(t, p, a, e) ==
  timer' = CASE stopped -> t
             [] ~stopped /\ p + a > 0 -> "off"
             [] ~stopped /\ p + a = 0 -> IF t # "off" THEN t ELSE "grace"
EvaluateKeepsTimer(t, p, a, e) ==
  timer' = IF ~stopped /\ p + a = 0 /\ t = "off"
             THEN (IF e THEN "grace" ELSE "startup") ELSE t

(* #evaluate, on the timer, counters and flag a handler leaves behind: no  *)
(* timer with a client connected, and an armed one is not restarted.       *)
Evaluate(t, p, a, e) ==
  timer' = CASE stopped -> t
             [] ~stopped /\ p + a > 0 -> "off"
             [] OTHER -> IF t # "off" THEN t ELSE IF e THEN "grace" ELSE "startup"

(* `listening': the startup grace opens.                                   *)
Listen ==
  /\ process = "boot" /\ process' = "listening"
  /\ Evaluate(timer, presence, attached, ever)
  /\ UNCHANGED <<presence, attached, ever, stopped, sock, update>>

(* presenceConnected and sessionAttached, from attachPresence and          *)
(* attachClient.                                                           *)
Connect(c, channel) ==
  /\ process = "listening" /\ sock[c] = NoSocket
  /\ sock' = [sock EXCEPT ![c] = [channel |-> channel, released |-> FALSE]]
  /\ LET p == IF channel = "presence" THEN presence + 1 ELSE presence
         a == IF channel = "session" THEN attached + 1 ELSE attached
         e == ever \/ channel = "presence"
     IN  /\ presence' = p /\ attached' = a /\ ever' = e
         /\ Evaluate(timer, p, a, e)
  /\ UNCHANGED <<process, stopped, update>>

(* Mutants of Release: no `released' flag; no flag and no Math.max either. *)
ReleaseEachTime(c) ==
  LET p == IF sock[c].channel = "presence" /\ presence > 0 THEN presence - 1 ELSE presence
      a == IF sock[c].channel = "session" /\ attached > 0 THEN attached - 1 ELSE attached
  IN  presence' = p /\ attached' = a /\ Evaluate(timer, p, a, ever)
ReleaseUnbounded(c) ==
  LET p == IF sock[c].channel = "presence" THEN presence - 1 ELSE presence
      a == IF sock[c].channel = "session" THEN attached - 1 ELSE attached
  IN  presence' = p /\ attached' = a /\ Evaluate(timer, p, a, ever)

(* release(): presenceDisconnected or sessionDetached, once per socket.    *)
Decrement(n) == IF n = 0 THEN 0 ELSE n - 1
Release(c) ==
  IF sock[c].released THEN UNCHANGED <<presence, attached, timer>>
  ELSE LET p == IF sock[c].channel = "presence" THEN Decrement(presence) ELSE presence
           a == IF sock[c].channel = "session" THEN Decrement(attached) ELSE attached
       IN  presence' = p /\ attached' = a /\ Evaluate(timer, p, a, ever)

(* The socket's `error' event; a `close' event still follows it.           *)
SocketErrors(c) ==
  /\ process \in {"listening", "handoff"} /\ sock[c].channel # "none"
  /\ Release(c)
  /\ sock' = [sock EXCEPT ![c].released = TRUE]
  /\ UNCHANGED <<process, ever, stopped, update>>

SocketCloses(c) ==
  /\ process \in {"listening", "handoff"} /\ sock[c].channel # "none"
  /\ Release(c)
  /\ sock' = [sock EXCEPT ![c] = NoSocket]
  /\ UNCHANGED <<process, ever, stopped, update>>

(* shutdown(): stop() and process.exit().                                  *)
Exit ==
  /\ process' = "exited" /\ stopped' = TRUE /\ timer' = "off"
  /\ UNCHANGED <<presence, attached, ever, sock, update>>

(* Mutant of GraceExpires: an update holds the process without a ceiling.  *)
GraceExpiresDefersAlways ==
  /\ process = "listening" /\ timer # "off"
  /\ IF update # "idle"
       THEN /\ Evaluate("off", presence, attached, ever)
            /\ UNCHANGED <<process, presence, attached, ever, stopped, sock, update>>
       ELSE Exit

(* The grace expires: defer while an update works, else shut down.         *)
GraceExpires ==
  /\ process = "listening" /\ timer # "off"
  /\ IF update = "working"
       THEN /\ Evaluate("off", presence, attached, ever)
            /\ UNCHANGED <<process, presence, attached, ever, stopped, sock, update>>
       ELSE Exit

(* SIGINT or SIGTERM; during a handoff it only leaves.                     *)
Signal == process \in {"listening", "handoff"} /\ Exit

(* The restart teardown: stop(), then every socket is told to close, and   *)
(* the process lives on until it has answered.                             *)
RestartTeardown ==
  /\ process = "listening"
  /\ process' = "handoff" /\ stopped' = TRUE /\ timer' = "off"
  /\ UNCHANGED <<presence, attached, ever, sock, update>>

UpdateStarts ==
  /\ process = "listening" /\ update = "idle" /\ update' = "working"
  /\ UNCHANGED <<process, presence, attached, ever, timer, stopped, sock>>

UpdateEnds ==
  /\ process = "listening" /\ update # "idle" /\ update' = "idle"
  /\ UNCHANGED <<process, presence, attached, ever, timer, stopped, sock>>

(* heldFor reaches IDLE_DEFER_MAX_MS.                                      *)
CeilingPasses ==
  /\ process = "listening" /\ update = "working" /\ update' = "overdue"
  /\ UNCHANGED <<process, presence, attached, ever, timer, stopped, sock>>

Init ==
  /\ process = "boot" /\ presence = 0 /\ attached = 0 /\ ever = FALSE
  /\ timer = "off" /\ stopped = FALSE
  /\ sock = [c \in Clients |-> NoSocket]
  /\ update = "idle"

Next ==
  \/ Listen
  \/ \E c \in Clients : \/ \E channel \in Channels : Connect(c, channel)
                        \/ SocketErrors(c)
                        \/ SocketCloses(c)
  \/ GraceExpires \/ Signal \/ RestartTeardown
  \/ UpdateStarts \/ UpdateEnds \/ CeilingPasses

Spec == Init /\ [][Next]_vars

(* The event loop runs, armed timers fire, and the clock passes the        *)
(* ceiling of an update that does not end.  Nothing is assumed of windows. *)
FairSpec == Spec /\ WF_vars(Listen) /\ WF_vars(GraceExpires) /\ WF_vars(CeilingPasses)
-----------------------------------------------------------------------------
Held(channel) == {c \in Clients : sock[c].channel = channel /\ ~sock[c].released}

TypeOK ==
  /\ process \in {"boot", "listening", "handoff", "exited"}
  /\ presence \in Nat /\ attached \in Nat
  /\ ever \in BOOLEAN /\ stopped \in BOOLEAN
  /\ timer \in {"off", "startup", "grace"}
  /\ sock \in [Clients -> Sockets]
  /\ update \in {"idle", "working", "overdue"}

(* Each counter is the number of sockets of its channel that still hold    *)
(* it, however `error' and `close' events come: no leak that would keep    *)
(* the backend for ever, no double decrement that would end it early.      *)
CountersExact ==
  /\ presence = Cardinality(Held("presence"))
  /\ attached = Cardinality(Held("session"))

(* The shutdown timer runs exactly while a serving backend has no socket,  *)
(* and its kind is right: the startup grace only before the first presence.*)
TimerWhenIdle ==
  /\ process = "listening" =>
       (timer # "off" <=> Held("presence") \cup Held("session") = {})
  /\ timer = "startup" => ~ever
  /\ timer = "grace" => ever
  /\ process \in {"handoff", "exited"} => timer = "off"

(* The grace never ends a backend that a window still holds, nor one whose *)
(* update is at work within the ceiling.                                   *)
NoIdleExitWhileHeld ==
  [][GraceExpires /\ process' = "exited" =>
       Held("presence") \cup Held("session") = {} /\ update # "working"]_vars

(* A backend all windows have left for good stops, update or no update:    *)
(* "an update is installing" never becomes an immortal backend.  An update *)
(* that is started over and over needs windows to start it.                *)
Abandoned == \A c \in Clients : sock[c] = NoSocket
IdleBackendStops ==
  <>[](Abandoned /\ process # "handoff") /\ <>[][~UpdateStarts]_vars => <>(process = "exited")
=============================================================================
