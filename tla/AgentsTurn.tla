----------------------------- MODULE AgentsTurn -----------------------------
(***************************************************************************)
(* What one session is said to be doing: the fold of its transcript        *)
(* (server/agents-fold.ts), the rows of its subagents and the report of    *)
(* the poll (server/agents.ts), the verdict (server/agents-verdict.ts) and *)
(* the life of a workflow run (server/agents-workflows.ts). Around it runs *)
(* the Claude Code process that writes the files the poll reads.           *)
(*                                                                         *)
(* Times are ages, in ticks of the clock, as far as they are told apart.   *)
(***************************************************************************)
EXTENDS Naturals, Sequences, SequencesExt, FiniteSets

CONSTANTS Uses,         \* ids of launching tool calls
          Workers,      \* subagents and workflow runs
          Workflows,    \* those of Workers that are workflow runs
          MaxLaunches,  \* MAX_LAUNCHES
          StaleAge,     \* STALE_MS
          GraceAge,     \* FINISH_GRACE_MS
          IdleAge,      \* TITLE_IDLE_MS
          MaxUnread,    \* lines written between two polls
          None

TurnBounds == /\ Workflows \subseteq Workers /\ MaxLaunches \in Nat \ {0}
                     /\ StaleAge \in Nat /\ GraceAge \in 1..StaleAge /\ IdleAge \in 1..StaleAge

VARIABLES
  claude,  \* what the program really does: "idle", "turn", "asking", "prompting"
  work,    \* worker -> what it really does and what its files say
  made,    \* tool call -> what became of it
  unread,  \* lines written after the last poll
  title,   \* age of the idle title, Never while the title is not idle
  fold,    \* TurnFold and TurnState.workingSince
  report   \* the verdict of the poll, "stale" once anything has happened since

vars == <<claude, work, made, unread, title, fold, report>>

Ages == 0..StaleAge
Never == StaleAge + 1
OlderTo(n, a) == IF a < n THEN a + 1 ELSE a
Older(a) == OlderTo(StaleAge, a)

(* `sign' is the mtime of the newest file; `end' the stamp of the end      *)
(* marker, Never without one.                                               *)
Resting == [state |-> "none", sign |-> Never, end |-> Never]
Work == [state : {"none", "running", "over"}, sign : Ages \cup {Never}, end : Ages \cup {Never}]
Lines == [kind : {"user", "local", "use", "asks", "ends", "launched", "foreground", "notice", "queued"},
          use : Uses \cup {None}, ref : Workers \cup {None}, age : Ages]
Line(k, u, r) == [kind |-> k, use |-> u, ref |-> r, age |-> 0]
Entries == [use : Uses, ref : Workers \cup {None}, age : Ages]

NewTurnFold == [turn |-> "unknown", asking |-> FALSE, pending |-> <<>>, launches |-> <<>>, since |-> Never]

TypeOK ==
  /\ claude \in {"idle", "turn", "asking", "prompting"} /\ work \in [Workers -> Work]
  /\ made \in [Uses -> [by : {"none", "asked", "running", "closed"}, ref : Workers \cup {None}]]
  /\ unread \in Seq(Lines) /\ Len(unread) <= MaxUnread
  /\ title \in Ages \cup {Never}
  /\ fold \in [turn : {"unknown", "working", "waiting"}, asking : BOOLEAN, pending : Seq(Entries),
               launches : Seq(Entries), since : Ages \cup {Never}]
  /\ Len(fold.pending) <= MaxLaunches /\ Len(fold.launches) <= MaxLaunches
  /\ report \in {"stale", "unknown", "working", "waiting"}

-----------------------------------------------------------------------------
(* One line of the transcript.                                             *)
Without(m, u) == SelectSeq(m, LAMBDA e : e.use # u)
Has(m, u) == \E i \in DOMAIN m : m[i].use = u
Entry(m, u) == CHOOSE e \in ToSet(m) : e.use = u
Remember(m, e) ==
  LET n == Append(Without(m, e.use), e) IN
  IF Len(n) > MaxLaunches THEN Tail(n) ELSE n

NoteLaunches(f, l) ==
  CASE l.kind = "use" -> [f EXCEPT !.pending = Remember(@, [use |-> l.use, ref |-> None, age |-> l.age])]
    [] l.kind = "foreground" -> [f EXCEPT !.pending = Without(@, l.use)]
    [] l.kind = "launched" /\ Has(f.pending, l.use) ->
         [f EXCEPT !.pending = Without(@, l.use),
                   !.launches = Remember(@, [Entry(f.pending, l.use) EXCEPT !.ref = l.ref])]
    [] l.kind \in {"notice", "queued"} -> [f EXCEPT !.launches = Without(@, l.use)]
    [] OTHER -> f

TurnOfLine(l) ==
  CASE l.kind \in {"local", "queued"} -> "none"
    [] l.kind = "ends" -> "waiting"
    [] l.kind = "asks" -> "asking"
    [] OTHER -> "working"

FoldTurnLine(f, l) ==
  LET n == NoteLaunches(f, l)
      v == TurnOfLine(l)
      turn == IF v = "asking" THEN "waiting" ELSE v IN
  IF v = "none" THEN n
  ELSE [n EXCEPT !.turn = turn, !.asking = (v = "asking"),
                 !.since = IF turn = "working" /\ f.turn # "working" THEN 0 ELSE @]

-----------------------------------------------------------------------------
(* The rows and the verdict.                                               *)
Subagents == Workers \ Workflows
HasRow(w) == w \in Subagents /\ work[w].sign # Never
FinishedRow(w) == HasRow(w) /\ (work[w].end # Never \/ work[w].sign = StaleAge)
RunningRow(w) == HasRow(w) /\ ~FinishedRow(w)
EndedAge(w) == IF work[w].end # Never THEN work[w].end ELSE work[w].sign
JustFinished(w) == FinishedRow(w) /\ EndedAge(w) < GraceAge
WorkflowAlive(w) == w \in Workflows /\ work[w].sign # Never /\ work[w].sign < StaleAge

(* Mutant of Alive: the launch speaks for itself only.                     *)
AliveByLaunch(e) == e.age < StaleAge
(* Mutant of Alive: a launch that has not reported back runs.              *)
AliveUntilReported(e) == e.ref \in Workers
Alive(e) ==
  \/ e.age < StaleAge
  \/ e.ref # None /\ (RunningRow(e.ref) \/ JustFinished(e.ref) \/ WorkflowAlive(e.ref))

Later(a, b) == IF b = Never THEN a ELSE IF a < b THEN a ELSE b

SessionTurn(f) ==
  IF f.turn = "working"
  THEN IF title # Never /\ Later(title, f.since) >= IdleAge THEN "waiting" ELSE "working"
  ELSE IF f.turn = "waiting" /\ ~f.asking /\ \E i \in DOMAIN f.launches : Alive(f.launches[i])
       THEN "working" ELSE f.turn

-----------------------------------------------------------------------------
Init ==
  /\ claude = "idle" /\ work = [w \in Workers |-> Resting]
  /\ made = [u \in Uses |-> [by |-> "none", ref |-> None]]
  /\ unread = <<>> /\ title = Never /\ fold = NewTurnFold
  /\ report = "stale"

(* Claude Code writes a line.                                              *)
Writes(l) == /\ Len(unread) < MaxUnread
             /\ unread' = Append(unread, l)
             /\ report' = "stale"

Prompt == /\ claude = "idle" /\ claude' = "turn" /\ Writes(Line("user", None, None))
          /\ UNCHANGED <<work, made, title, fold>>

Remarks == /\ claude = "idle" /\ Writes(Line("local", None, None))
           /\ UNCHANGED <<claude, work, made, title, fold>>

(* A turn ends, is interrupted or fails.                                   *)
EndTurn == /\ claude = "turn" /\ claude' = "idle"
           /\ Writes(Line("ends", None, None))
           /\ UNCHANGED <<work, made, title, fold>>

(* A question is written down as it is asked, or with its answer, or - a   *)
(* permission prompt - never.                                              *)
Asks == /\ claude = "turn"
        /\ \/ claude' = "asking" /\ Writes(Line("asks", None, None))
           \/ claude' = "prompting" /\ report' = "stale" /\ UNCHANGED unread
        /\ UNCHANGED <<work, made, title, fold>>
Answered == /\ claude \in {"asking", "prompting"} /\ claude' = "turn" /\ Writes(Line("user", None, None))
            /\ UNCHANGED <<work, made, title, fold>>

(* A tool call that may go to the background, and its result: a worker is  *)
(* launched, or a subagent that is over resumed; either writes at once.    *)
CallsTool(u) == /\ claude = "turn" /\ made[u].by = "none"
                /\ made' = [made EXCEPT ![u].by = "asked"]
                /\ Writes(Line("use", u, None))
                /\ UNCHANGED <<claude, work, title, fold>>
Foreground(u) == /\ claude = "turn" /\ made[u].by = "asked"
                 /\ made' = [made EXCEPT ![u] = [by |-> "closed", ref |-> None]]
                 /\ Writes(Line("foreground", u, None))
                 /\ UNCHANGED <<claude, work, title, fold>>
Launched(u, w) ==
  /\ claude = "turn" /\ made[u].by = "asked"
  /\ work[w].state = "none" \/ (w \in Subagents /\ work[w].state = "over" /\ work[w].end # Never)
  /\ \A v \in Uses : ~(made[v].by = "running" /\ made[v].ref = w)
  /\ made' = [made EXCEPT ![u] = [by |-> "running", ref |-> w]]
  /\ work' = [work EXCEPT ![w] = [state |-> "running", sign |-> 0, end |-> Never]]
  /\ Writes(Line("launched", u, w))
  /\ UNCHANGED <<claude, title, fold>>

(* The worker's own files: it writes, ends its work, or is killed, which   *)
(* leaves no marker.                                                       *)
WorkerWrites(w) == /\ work[w].state = "running"
                   /\ work' = [work EXCEPT ![w] = [@ EXCEPT !.sign = 0, !.end = Never]]
                   /\ report' = "stale"
                   /\ UNCHANGED <<claude, made, unread, title, fold>>
WorkerEnds(w) == /\ work[w].state = "running" /\ work[w].sign # Never
                 /\ \/ work' = [work EXCEPT ![w] = [state |-> "over", sign |-> 0, end |-> 0]]
                    \/ work' = [work EXCEPT ![w].state = "over"]
                 /\ report' = "stale"
                 /\ UNCHANGED <<claude, made, unread, title, fold>>
(* The notification starts a turn, or is queued while one runs.            *)
Notified(u) ==
  /\ made[u].by = "running" /\ work[made[u].ref].state = "over" /\ claude \in {"idle", "turn"}
  /\ made' = [made EXCEPT ![u] = [by |-> "closed", ref |-> None]]
  /\ claude' = "turn"
  /\ Writes(Line(IF claude = "turn" THEN "queued" ELSE "notice", u, None))
  /\ UNCHANGED <<work, title, fold>>

(* The title follows with a lag, or shows a question no line tells of.     *)
Titled == /\ title' = IF title = Never THEN 0 ELSE Never
          /\ report' = "stale"
          /\ UNCHANGED <<claude, work, made, unread, fold>>

(* Time passes. A worker that runs writes before its files are stale.      *)
Tick ==
  /\ \A w \in Workers : work[w].state = "running" => work[w].sign \in 0..StaleAge - 2
  /\ work' = [w \in Workers |-> [work[w] EXCEPT !.sign = Older(@), !.end = Older(@)]]
  /\ unread' = [i \in DOMAIN unread |-> [unread[i] EXCEPT !.age = IF unread[i].kind = "use" THEN Older(@) ELSE @]]
  /\ title' = OlderTo(IdleAge, title)
  /\ fold' = [fold EXCEPT !.since = OlderTo(IdleAge, @),
                          !.pending = [i \in DOMAIN @ |-> [@[i] EXCEPT !.age = Older(@)]],
                          !.launches = [i \in DOMAIN @ |-> [@[i] EXCEPT !.age = Older(@)]]]
  /\ report' = "stale"
  /\ UNCHANGED <<claude, made>>

(* The poll reads the lines and reports.                                   *)
Poll ==
  /\ report = "stale"
  /\ fold' = FoldLeft(FoldTurnLine, fold, unread)
  /\ unread' = <<>>
  /\ report' = SessionTurn(fold')
  /\ UNCHANGED <<claude, work, made, title>>

ClaudeNext ==
  \/ Prompt \/ Remarks \/ EndTurn \/ Asks \/ Answered
  \/ \E u \in Uses : CallsTool(u) \/ Foreground(u) \/ Notified(u) \/ \E w \in Workers : Launched(u, w)
  \/ \E w \in Workers : WorkerWrites(w) \/ WorkerEnds(w)

Next == ClaudeNext \/ Titled \/ Tick \/ Poll

Spec == Init /\ [][Next]_vars
-----------------------------------------------------------------------------
(* A report made this moment calls a session whose turn is over working    *)
(* while any work it left in the background still runs - launched long ago *)
(* or resumed after it had ended once -, and over the moment between its   *)
(* last line and its notification (sessionTurn, noteLaunches, remember).   *)
Running(w) == work[w].state = "running" \/ (w \in Subagents /\ work[w].state = "over" /\ work[w].end < GraceAge)
BackgroundWorkShows ==
  report # "stale" /\ claude = "idle" /\ (\E u \in Uses : made[u].by = "running" /\ Running(made[u].ref))
  => report = "working"

(* A session at rest is not called working for ever: when no turn runs and *)
(* nothing it launched has given a sign for StaleAge, reported back or not,*)
(* the report says waiting; so does it while a question is open, whatever  *)
(* runs. A question that was answered holds nothing back.                  *)
AtRest ==
  \/ claude = "asking"
  \/ claude = "prompting" /\ title # Never /\ Later(title, fold.since) >= IdleAge
  \/ /\ claude = "idle" /\ \A w \in Workers : work[w].sign \in {Never, StaleAge}
     /\ \A i \in DOMAIN fold.launches : fold.launches[i].age = StaleAge
RestReadsWaiting == report # "stale" /\ AtRest => report \in {"waiting", "unknown"}
=============================================================================
