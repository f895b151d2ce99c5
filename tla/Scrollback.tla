----------------------------- MODULE Scrollback -----------------------------
(***************************************************************************)
(* The way of a program's output: the pty, node-pty's read stream, the ring*)
(* buffer, the windows. From server/sessions-output.ts (RingBuffer,        *)
(* replayTail, rescueFinalOutput) and, in server/sessions.ts, handleOutput,*)
(* attach and the exit. The program writes the characters 1, 2, 3, ... so  *)
(* that a text shows what is missing in it; Newlines are those that end a  *)
(* line.                                                                   *)
(***************************************************************************)
EXTENDS Naturals, FiniteSets, Sequences, SequencesExt

CONSTANTS MaxOutput,     \* characters the program writes
          Newlines,      \* those of them that are a `\n'
          Cap,           \* SCROLLBACK_MAX_BYTES
          Lines,         \* REPLAY_MAX_LINES
          ReadSize,      \* what one read of the stream returns at most
          DrainSize,     \* TAIL_DRAIN_CHUNK_BYTES
          DrainReads,    \* TAIL_DRAIN_MAX_READS
          Clients        \* windows

OutputBounds ==
  /\ {MaxOutput, Cap, Lines, ReadSize, DrainSize, DrainReads} \subseteq Nat \ {0}
  /\ Newlines \subseteq 1..MaxOutput

VARIABLES
  written,   \* characters the program has written
  alive,     \* whether the leader lives; its workers can go on writing
  read,      \* characters taken from the pty
  master,    \* the master side: "open" or "closed"
  cut,       \* whether the log says that the rescue may be incomplete
  exited,    \* onExit ran
  ring,      \* RingBuffer.#chunks
  view       \* each window: the text it shows, and whether it has the exit

vars == <<written, alive, read, master, cut, exited, ring, view>>

Texts == Seq(1..MaxOutput)
Run(from, to) == [i \in 1..(IF to < from THEN 0 ELSE to - from + 1) |-> from + i - 1]
Detached == [on |-> FALSE, text |-> <<>>, exit |-> FALSE]
LastPart(text, n) == SubSeq(text, (IF Len(text) > n THEN Len(text) - n ELSE 0) + 1, Len(text))

-----------------------------------------------------------------------------
(* toBuffer.                                                               *)
Contents(chunks) == FlattenSeq(chunks)

(* Mutant of Trim: the newest chunk can be dropped too.                    *)
TrimAll(chunks) ==
  LET Fits(i) == Len(Contents(SubSeq(chunks, i, Len(chunks)))) <= Cap
      first == CHOOSE i \in 1..Len(chunks) : Fits(i) /\ \A j \in 1..(i - 1) : ~Fits(j)
  IN  SubSeq(chunks, first + 1, Len(chunks))

(* The loop of append: the oldest chunks go until the rest fits, or one is *)
(* left.                                                                   *)
Trim(chunks) ==
  LET Fits(i) == i = Len(chunks) \/ Len(Contents(SubSeq(chunks, i, Len(chunks)))) <= Cap
      first == CHOOSE i \in 1..Len(chunks) : Fits(i) /\ \A j \in 1..(i - 1) : ~Fits(j)
  IN  SubSeq(chunks, first, Len(chunks))

(* append: of a chunk beyond the whole cap only the end stays.             *)
RingAppend(chunks, data) ==
  Trim(IF Len(data) > Cap THEN <<LastPart(data, Cap)>> ELSE Append(chunks, data))

(* lastIndexOf, 0 for -1, and its repetition.                              *)
LastNewline(text, pos) ==
  LET at == {i \in 1..pos : text[i] \in Newlines}
  IN  IF at = {} THEN 0 ELSE CHOOSE i \in at : \A j \in at : j <= i
NthNewline(text, n) ==
  LET f[i \in 0..n] == IF i = 0 THEN Len(text) + 1
                       ELSE IF f[i - 1] = 0 THEN 0 ELSE LastNewline(text, f[i - 1] - 1)
  IN  f[n]

(* Mutant of ReplayTail: the cut keeps the newline it was made at.         *)
ReplayFromNewline(text, maxLines) ==
  LET nl == NthNewline(text, maxLines) IN IF nl = 0 THEN text ELSE SubSeq(text, nl, Len(text))

(* replayTail: what follows the newline that is maxLines from the end, or  *)
(* the whole ring.                                                         *)
ReplayTail(text, maxLines) == SubSeq(text, NthNewline(text, maxLines) + 1, Len(text))

(* Mutant of HandleOutput: the windows get what came last.                 *)
HandleOutputLast(chunks) ==
  /\ ring' = FoldLeft(RingAppend, ring, chunks)
  /\ view' = [c \in Clients |-> IF view[c].on /\ chunks # <<>>
                                THEN [view[c] EXCEPT !.text = @ \o chunks[Len(chunks)]]
                                ELSE view[c]]

(* handleOutput for each of the chunks: the ring, then the windows.        *)
HandleOutput(chunks) ==
  /\ ring' = FoldLeft(RingAppend, ring, chunks)
  /\ view' = [c \in Clients |-> IF view[c].on THEN [view[c] EXCEPT !.text = @ \o Contents(chunks)]
                                              ELSE view[c]]

-----------------------------------------------------------------------------
Init ==
  /\ written = 0 /\ alive = TRUE /\ read = 0 /\ master = "open"
  /\ cut = FALSE /\ exited = FALSE /\ ring = <<>>
  /\ view = [c \in Clients |-> Detached]

Writes(n) ==
  /\ master = "open" /\ written + n <= MaxOutput /\ written' = written + n
  /\ UNCHANGED <<alive, read, master, cut, exited, ring, view>>

LeaderEnds ==
  /\ alive /\ alive' = FALSE
  /\ UNCHANGED <<written, read, master, cut, exited, ring, view>>

(* onData: the stream read n characters, all there were or a full buffer.  *)
Reads(n) ==
  /\ master = "open" /\ n > 0 /\ read + n <= written
  /\ n = ReadSize \/ (n < ReadSize /\ read + n = written)
  /\ HandleOutput(<<Run(read + 1, read + n)>>)
  /\ read' = read + n
  /\ UNCHANGED <<written, alive, master, cut, exited>>

(* The reads of drainPtyMaster, at most DrainReads of them.                *)
Drained == LET budget == DrainSize * DrainReads
           IN  IF written - read > budget THEN budget ELSE written - read
DrainedChunks ==
  [i \in 1..((Drained + DrainSize - 1) \div DrainSize) |->
     Run(read + (i - 1) * DrainSize + 1,
         IF i * DrainSize > Drained THEN read + Drained ELSE read + i * DrainSize)]

(* Mutant of Destroy: the socket is destroyed and nothing is rescued.      *)
DestroyAtOnce ==
  /\ ~alive /\ master = "open" /\ master' = "closed"
  /\ UNCHANGED <<written, alive, read, cut, exited, ring, view>>

(* destroy() of the read socket, by the end of file that libuv makes up    *)
(* after a short read, or by node-pty's timer after the exit: the rescue   *)
(* drains the pty first. Without the fd, or when an emit throws, only the  *)
(* first k chunks are told, and the log has it, as it has a rescue that    *)
(* used all its reads.                                                     *)
Destroy ==
  /\ ~alive /\ master = "open" /\ master' = "closed"
  /\ \E k \in 0..Len(DrainedChunks) :
       LET told == SubSeq(DrainedChunks, 1, k)
       IN  /\ HandleOutput(told)
           /\ read' = read + Len(Contents(told))
           /\ cut' = (k < Len(DrainedChunks) \/ k = DrainReads)
  /\ UNCHANGED <<written, alive, exited>>

(* onExit, from the `close' of the socket.                                 *)
Exit ==
  /\ master = "closed" /\ ~exited /\ exited' = TRUE
  /\ view' = [c \in Clients |-> [view[c] EXCEPT !.exit = view[c].on]]
  /\ UNCHANGED <<written, alive, read, master, cut, ring>>

(* attach: the replay, and the exit if there was one.                      *)
Attach(c) ==
  /\ ~view[c].on
  /\ view' = [view EXCEPT ![c] = [on |-> TRUE, text |-> ReplayTail(Contents(ring), Lines),
                                  exit |-> exited]]
  /\ UNCHANGED <<written, alive, read, master, cut, exited, ring>>

Closes(c) ==
  /\ view[c].on /\ view' = [view EXCEPT ![c] = Detached]
  /\ UNCHANGED <<written, alive, read, master, cut, exited, ring>>

Next ==
  \/ \E n \in 1..MaxOutput : Writes(n) \/ Reads(n)
  \/ LeaderEnds \/ Destroy \/ Exit
  \/ \E c \in Clients : Attach(c) \/ Closes(c)

Spec == Init /\ [][Next]_vars

-----------------------------------------------------------------------------
(* Every variable has its type.                                            *)
TypeOK ==
  /\ read \in 0..written /\ written \in 0..MaxOutput
  /\ alive \in BOOLEAN /\ cut \in BOOLEAN /\ exited \in BOOLEAN /\ master \in {"open", "closed"}
  /\ ring \in Seq(Texts)
  /\ view \in [Clients -> [on : BOOLEAN, text : Texts, exit : BOOLEAN]]

IsRunUpTo(text, to) == Len(text) <= to /\ text = Run(to - Len(text) + 1, to)
Piece == IF DrainSize > ReadSize THEN DrainSize ELSE ReadSize

(* The ring holds the newest output without a gap, within its cap, and     *)
(* gives up less than one chunk more than the cap makes it.                *)
RingIsRecentOutput ==
  LET text == Contents(ring)
  IN  /\ IsRunUpTo(text, read) /\ Len(text) <= Cap
      /\ Len(text) = read \/ Len(text) + Piece > Cap

(* A window that attaches at any moment shows the output from some point on*)
(* up to now: nothing is lost or shown twice between the replay and what   *)
(* follows it.                                                             *)
WindowsShowTheOutput == \A c \in Clients : view[c].on => IsRunUpTo(view[c].text, read)

(* "Reattaching shows you what you left": when the exit is told, all that  *)
(* the program wrote has been told before, unless the log says otherwise.  *)
FinalOutputKept == exited /\ ~cut => read = written

(* A replay is the longest end of the ring with fewer than Lines newlines. *)
Breaks(text) == {i \in 1..Len(text) : text[i] \in Newlines}
LastLines(text) ==
  LET Few(i) == Cardinality(Breaks(SubSeq(text, i, Len(text)))) < Lines
  IN  SubSeq(text, CHOOSE i \in 1..(Len(text) + 1) : Few(i) /\ \A j \in 1..(i - 1) : ~Few(j), Len(text))
ReplayIsTheLastLines ==
  [][\A c \in Clients : ~view[c].on /\ view'[c].on
                          => view'[c].text = LastLines(Contents(ring))]_vars
=============================================================================
