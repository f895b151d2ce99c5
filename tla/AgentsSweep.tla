---------------------------- MODULE AgentsSweep ----------------------------
(***************************************************************************)
(* The sweep of AgentsWatcher (server/agents.ts): every tick reads what    *)
(* was appended to the transcripts of the tracked sessions, within one     *)
(* budget of bytes, and folds the complete lines. A transcript is a        *)
(* sequence of bytes, "c" or the newline "n"; a folded line is its length. *)
(***************************************************************************)
EXTENDS Integers, Sequences, SequencesExt, FiniteSetsExt

CONSTANTS Tracked,    \* the session map: per session its own transcript, then its subagents'
          Written,    \* those that Claude Code ever writes
          MaxLine,    \* MAX_LINE
          TailBytes,  \* TURN_TAIL_BYTES
          PerPoll,    \* MAX_READ_PER_POLL
          PerTick,    \* MAX_READ_PER_TICK
          MaxSize     \* transcript -> its bytes here, at most

VARIABLES
  content,  \* transcript -> its bytes, Missing without a file
  state,    \* transcript -> FileState or TurnState
  tick,     \* #tick, as far as the start of a sweep tells it
  from,     \* transcript -> the first byte at which a line counts
  swapped   \* the transcripts replaced since, unnoticed

sweepVars == <<content, state, tick, from, swapped>>

Files == ToSet(FlattenSeq(Tracked))
Mains == {Tracked[i][1] : i \in DOMAIN Tracked}
Missing == <<"missing">>

SweepBounds ==
  /\ Tracked \in Seq(Seq(Files)) /\ Tracked # <<>> /\ \A i \in DOMAIN Tracked : Tracked[i] # <<>>
  /\ Written \subseteq Files /\ MaxSize \in [Files -> Nat]
  /\ {MaxLine, TailBytes, PerPoll, PerTick} \subseteq Nat
Size(f) == IF content[f] = Missing THEN 0 ELSE Len(content[f])

NotRead == [offset |-> -1, carry |-> 0, resyncing |-> FALSE, lines |-> <<>>]

SweepTypeOK ==
  /\ content \in [Files -> Seq({"c", "n"}) \cup {Missing}] /\ \A f \in Files : Size(f) <= MaxSize[f]
  /\ state \in [Files -> [offset : Int, carry : 0..MaxLine, resyncing : BOOLEAN, lines : Seq(0..MaxLine)]]
  /\ \A f \in Files : state[f].offset \in -1..MaxSize[f] /\ from[f] \in -1..MaxSize[f]
  /\ tick \in 0..Len(Tracked) - 1 /\ swapped \subseteq Files

-----------------------------------------------------------------------------
(* splitLines, byte by byte: the carry is the length of the line so far.   *)
Byte(s, b) ==
  CASE b = "n" /\ s.resyncing -> [s EXCEPT !.resyncing = FALSE]
    [] b = "n" /\ ~s.resyncing -> [s EXCEPT !.carry = 0, !.lines = IF s.carry > MaxLine THEN @ ELSE Append(@, s.carry)]
    [] OTHER -> IF s.resyncing THEN s ELSE [s EXCEPT !.carry = @ + 1]
SplitLines(s, chunk) ==
  LET r == FoldLeft(Byte, s, chunk) IN
  IF r.resyncing \/ r.carry > MaxLine THEN [r EXCEPT !.carry = 0, !.resyncing = TRUE] ELSE r

(* Mutant of FirstSight: the tail begins at its first byte.                *)
FirstSightAtTail(f, size) ==
  IF f \in Mains /\ size > TailBytes
  THEN [NotRead EXCEPT !.offset = size - TailBytes, !.resyncing = TRUE]
  ELSE [NotRead EXCEPT !.offset = 0]
(* First sight: the tail of a session's own transcript, from one byte      *)
(* before it; the whole of a subagent's.                                   *)
FirstSight(f, size) ==
  IF f \in Mains /\ size > TailBytes
  THEN [NotRead EXCEPT !.offset = size - TailBytes - 1, !.resyncing = TRUE]
  ELSE [NotRead EXCEPT !.offset = 0]

(* A file that shrank is read anew, and so is a session's own that was     *)
(* away.                                                                   *)
Begins(f) == state[f].offset < 0 \/ state[f].offset > Size(f)
Opened(f) == IF Begins(f) THEN FirstSight(f, Size(f)) ELSE state[f]

Least(a, b) == IF a < b THEN a ELSE b
Wanted(f, left) ==
  IF content[f] = Missing THEN 0 ELSE Least(Least(Size(f) - Opened(f).offset, PerPoll), left)
ReadFile(f, left) ==
  LET s == Opened(f)
      n == Wanted(f, left) IN
  IF content[f] = Missing THEN IF f \in Mains THEN NotRead ELSE state[f]
  ELSE [SplitLines(s, SubSeq(content[f], s.offset + 1, s.offset + n)) EXCEPT !.offset = s.offset + n]

(* Mutant of Order: every sweep starts at the first session.               *)
SameOrder(t) == FlattenSeq(Tracked)
(* The round robin, and the budget each file finds in it.                  *)
Order(t) == FlattenSeq(SubSeq(Tracked, t + 1, Len(Tracked)) \o SubSeq(Tracked, 1, t))
Left(order, f) ==
  LET i == CHOOSE j \in DOMAIN order : order[j] = f IN
  FoldLeft(LAMBDA left, g : left - Wanted(g, left), PerTick, SubSeq(order, 1, i - 1))

-----------------------------------------------------------------------------
SweepInit ==
  /\ content = [f \in Files |-> Missing] /\ state = [f \in Files |-> NotRead]
  /\ tick = 0 /\ from = [f \in Files |-> -1] /\ swapped = {}

(* #pollAll, with #readMain and #readTranscript of every session.          *)
Sweep ==
  LET order == Order(tick) IN
  /\ state' = [f \in Files |-> ReadFile(f, Left(order, f))]
  /\ tick' = (tick + 1) % Len(Tracked)
  /\ from' = [f \in Files |-> IF Begins(f) /\ content[f] # Missing 
                      THEN IF f \in Mains /\ Size(f) > TailBytes THEN Size(f) - TailBytes ELSE 0
                      ELSE from[f]]
  /\ swapped' = {f \in swapped : IF content[f] = Missing THEN f \notin Mains ELSE ~Begins(f)}
  /\ UNCHANGED content

(* Claude Code appends; a transcript is removed, and may be written anew.  *)
(* One that outgrows the old between two sweeps cannot be told from it, and*)
(* is left out.                                                            *)
Appends(f, b) == /\ Size(f) < IF f \in swapped THEN state[f].offset - 1 ELSE MaxSize[f]
                 /\ content' = [content EXCEPT ![f] = IF @ = Missing THEN <<b>> ELSE Append(@, b)]
                 /\ UNCHANGED <<state, tick, from, swapped>>
Removed(f) == /\ content[f] # Missing
              /\ content' = [content EXCEPT ![f] = Missing]
              /\ swapped' = IF state[f].offset > 0 THEN swapped \cup {f} ELSE swapped
              /\ UNCHANGED <<state, tick, from>>

SweepNext == Sweep \/ \E f \in Written : Removed(f) \/ \E b \in {"c", "n"} : Appends(f, b)

(* The interval goes on - a sweep is always possible, so this is its weak  *)
(* fairness -; what Claude Code does, nobody promises.                     *)
SweepSpec == SweepInit /\ [][SweepNext]_sweepVars /\ []<><<Sweep>>_sweepVars
-----------------------------------------------------------------------------
(* However the appends, the caps and the budget cut a transcript, what was *)
(* folded is exactly the lines that begin in the part that is read: no     *)
(* line torn, lost, repeated or joined to another file's, and none longer  *)
(* than the bound. (splitLines, #readMain, #readTranscript).                *)
Newlines(f, upto) == {i \in 1..upto : content[f][i] = "n"}
Begun(f, i) == Max(Newlines(f, i - 1) \cup {0})
Whole(f) ==
  {i \in Newlines(f, state[f].offset) : Begun(f, i) >= from[f] /\ i - 1 - Begun(f, i) <= MaxLine}
LinesAreRead(f) ==
  /\ Len(state[f].lines) = Cardinality(Whole(f))
  /\ \A i \in Whole(f) : state[f].lines[Cardinality({j \in Whole(f) : j <= i})] = i - 1 - Begun(f, i)
FoldsEveryLineOnce ==
  \A f \in Files : state[f].offset > 0 /\ content[f] # Missing /\ f \notin swapped
                    => LinesAreRead(f)

(* A transcript that has come to rest is read to its end, however much the *)
(* others write: no session starves another of the budget (#pollAll).      *)
Quiet(f) == content'[f] = content[f]
CaughtUp(f) == content[f] # Missing => state[f].offset = Size(f)
CatchesUp == \A f \in Written : <>[][Quiet(f)]_sweepVars => <>[]CaughtUp(f)
=============================================================================
