----------------------------- MODULE OutputScan -----------------------------
(***************************************************************************)
(* scanOutput of server/sessions-output.ts: bells and window titles in the *)
(* output of a session, chunk by chunk, with one character of lookahead    *)
(* inside a chunk and a flag for an ESC at its end. Beside it runs the     *)
(* terminal's own reading of the same output, one character at a time.     *)
(***************************************************************************)
EXTENDS Naturals, Sequences, SequencesExt

CONSTANTS TitleMax,   \* TITLE_MAX
          MaxChunk    \* characters in one chunk

ScanBounds == TitleMax \in Nat /\ TitleMax >= 2 /\ MaxChunk \in Nat \ {0}

VARIABLES
  scan,   \* OutputScanState of the session
  said,   \* what the last chunk said: OutputScan
  term,   \* the terminal
  heard   \* what the last chunk said to the terminal

vars == <<scan, said, term, heard>>

(* The characters told apart; "0" stands for 0 and 2, "9" for other digits,*)
(* "idle" is the idle glyph, "ctl" any other control character.            *)
Chars == {"esc", "bel", "bs", "rb", "0", "9", ";", "idle", "sp", "ctl", "x"}
Chunks == UNION {[1..n -> Chars] : n \in 1..MaxChunk}

-----------------------------------------------------------------------------
(* oscNum is empty, "0" or "2", or any other number.                       *)
ScanStates == [inOsc : BOOLEAN, esc : BOOLEAN, osc : {"num", "title", "dropped", "skip"},
               oscNum : {"", "0", "9"}, titleLen : 0..TitleMax + 1, titleIdle : BOOLEAN]
NewOutputScan == [inOsc |-> FALSE, esc |-> FALSE, osc |-> "skip",
                  oscNum |-> "", titleLen |-> 0, titleIdle |-> FALSE]

Said == [bell : BOOLEAN, title : {"none", "idle", "busy"}]
Silence == [bell |-> FALSE, title |-> "none"]

(* A run over one chunk: the state, what was said, and whether the next    *)
(* character has been consumed by a lookahead.                             *)
Run(s, o) == [s |-> s, o |-> o, skip |-> FALSE]

StartOsc(s) == [s EXCEPT !.inOsc = TRUE, !.osc = "num", !.oscNum = "",
                         !.titleLen = 0, !.titleIdle = FALSE]

NumChar(s, c) ==
  IF c \in {"0", "9"} THEN [s EXCEPT !.oscNum = IF @ = "" THEN c ELSE "9"]
  ELSE [s EXCEPT !.osc = IF c = ";" /\ s.oscNum = "0" THEN "title" ELSE "skip"]

(* `++titleLen' counts the character that is one too many, but not a       *)
(* control character, which is looked at first.                            *)
TitleChar(s, c) ==
  LET n == s.titleLen + 1 IN
  CASE c = "ctl" -> [s EXCEPT !.osc = "dropped"]
    [] c # "ctl" /\ n > TitleMax -> [s EXCEPT !.osc = "dropped", !.titleLen = n]
    [] OTHER -> [s EXCEPT !.titleLen = n,
                          !.titleIdle = IF n = 1 THEN c = "idle" ELSE IF n = 2 THEN @ /\ c = "sp" ELSE @]

OscChar(s, c) ==
  CASE s.osc = "num" -> NumChar(s, c)
    [] s.osc = "title" -> TitleChar(s, c)
    [] OTHER -> s

DropOsc(s) == [s EXCEPT !.osc = IF @ = "title" THEN "dropped" ELSE IF @ = "num" THEN "skip" ELSE @]

(* endOsc: the last title of the chunk wins; a discarded one is not idle.  *)
EndOsc(s, o) ==
  Run([s EXCEPT !.inOsc = FALSE, !.osc = "skip"],
      [o EXCEPT !.title = CASE s.osc = "title" -> (IF s.titleIdle THEN "idle" ELSE "busy")
                            [] s.osc = "dropped" -> "busy"
                            [] OTHER -> @])

(* A character that completes no ESC of the chunk before, with the one     *)
(* after it.                                                               *)
Plain(s, o, c, last, next) ==
  CASE c = "bel" /\ s.inOsc -> EndOsc(s, o)
    [] c = "bel" /\ ~s.inOsc -> Run(s, [o EXCEPT !.bell = TRUE])
    [] c = "esc" /\ last -> Run([s EXCEPT !.esc = TRUE], o)
    [] c = "esc" /\ ~last /\ s.inOsc /\ next = "bs" -> [EndOsc(s, o) EXCEPT !.skip = TRUE]
    [] c = "esc" /\ ~last /\ s.inOsc /\ next # "bs" -> Run(DropOsc(s), o)
    [] c = "esc" /\ ~last /\ ~s.inOsc /\ next = "rb" -> [Run(StartOsc(s), o) EXCEPT !.skip = TRUE]
    [] OTHER -> Run(IF s.inOsc /\ c # "esc" THEN OscChar(s, c) ELSE s, o)

(* Mutant of Step: the flag of an ESC outlives the character after it.     *)
StepKeepsEsc(s, o, c, last, next) ==
  LET t == [s EXCEPT !.esc = FALSE] IN
  CASE s.esc /\ s.inOsc /\ c = "bs" -> EndOsc(t, o)
    [] s.esc /\ ~s.inOsc /\ c = "rb" -> Run(StartOsc(t), o)
    [] OTHER -> Plain(s, o, c, last, next)

(* The same, with an ESC carried over from the chunk before.               *)
Step(s, o, c, last, next) ==
  LET t == [s EXCEPT !.esc = FALSE] IN
  CASE s.esc /\ s.inOsc /\ c = "bs" -> EndOsc(t, o)
    [] s.esc /\ ~s.inOsc /\ c = "rb" -> Run(StartOsc(t), o)
    [] s.esc /\ s.inOsc /\ c # "bs" -> Plain(DropOsc(t), o, c, last, next)
    [] OTHER -> Plain(t, o, c, last, next)

(* scanOutput: the state it leaves and what it says.                       *)
WithNext(data) ==
  [i \in 1..Len(data) |-> [c |-> data[i], last |-> i = Len(data), next |-> data[IF i = Len(data) THEN i ELSE i + 1]]]
ScanChar(r, e) == IF r.skip THEN Run(r.s, r.o) ELSE Step(r.s, r.o, e.c, e.last, e.next)
ScanOutput(data, s) == FoldLeft(ScanChar, Run(s, Silence), WithNext(data))

-----------------------------------------------------------------------------
(* The terminal: it has read plain text, an ESC, the body of an OSC string,*)
(* or an ESC in it. Of the body it keeps what can still be a title, with   *)
(* an "x" for every character of a title that is like another.             *)
Terminals == [mode : {"text", "esc", "osc", "oscEsc"}, body : Seq(Chars)]
NewTerminal == [mode |-> "text", body |-> <<>>]

NoTitle(b) == (Len(b) >= 1 /\ b[1] # "0") \/ (Len(b) >= 2 /\ b[2] # ";")
Kept(b) ==
  IF NoTitle(b) THEN <<"x">>
  ELSE [i \in 1..(IF Len(b) > TitleMax + 3 THEN TitleMax + 3 ELSE Len(b)) |->
          IF i < 3 \/ b[i] \in {"idle", "sp", "ctl", "esc"} THEN b[i] ELSE "x"]

(* What a finished OSC string is: an OSC 0 or 2 is a title. It is Claude's *)
(* idle one when it was read whole and is the glyph, or the glyph, a space *)
(* and more.                                                               *)
Title(b) ==
  LET t == SubSeq(b, 3, Len(b)) IN
  CASE NoTitle(b) \/ Len(b) < 2 -> "none"
    [] OTHER -> IF /\ Len(t) \in 1..TitleMax
                   /\ \A i \in 1..Len(t) : t[i] \notin {"ctl", "esc"}
                   /\ t[1] = "idle" /\ (Len(t) >= 2 => t[2] = "sp")
                  THEN "idle" ELSE "busy"

Reads(t, c) ==
  LET body == Kept(t.body \o (IF t.mode = "oscEsc" THEN <<"esc">> ELSE <<>>))
      inOsc == t.mode \in {"osc", "oscEsc"}
      ends == c = "bel" \/ (t.mode = "oscEsc" /\ c = "bs") IN
  CASE inOsc /\ ends -> NewTerminal
    [] inOsc /\ ~ends /\ c = "esc" -> [mode |-> "oscEsc", body |-> body]
    [] inOsc /\ ~ends /\ c # "esc" -> [mode |-> "osc", body |-> Kept(Append(body, c))]
    [] t.mode = "esc" /\ c = "rb" -> [mode |-> "osc", body |-> <<>>]
    [] OTHER -> [NewTerminal EXCEPT !.mode = IF c = "esc" THEN "esc" ELSE "text"]

Hears(t, o, c) ==
  LET body == IF t.mode = "oscEsc" /\ c # "bs" THEN Append(t.body, "esc") ELSE t.body
      ends == t.mode \in {"osc", "oscEsc"} /\ (c = "bel" \/ (t.mode = "oscEsc" /\ c = "bs"))
  IN  [bell |-> o.bell \/ (c = "bel" /\ t.mode \in {"text", "esc"}),
       title |-> IF ends /\ Title(Kept(body)) # "none" THEN Title(Kept(body)) ELSE o.title]

Listened(r, c) == [t |-> Reads(r.t, c), o |-> Hears(r.t, r.o, c)]
Listen(data, t) == FoldLeft(Listened, [t |-> t, o |-> Silence], data)

-----------------------------------------------------------------------------
Init == scan = NewOutputScan /\ said = Silence /\ term = NewTerminal /\ heard = Silence

(* handleOutput hands a chunk to the scan.                                 *)
Chunk(data) ==
  /\ scan' = ScanOutput(data, scan).s /\ said' = ScanOutput(data, scan).o
  /\ term' = Listen(data, term).t /\ heard' = Listen(data, term).o

Next == \E data \in Chunks : Chunk(data)
Spec == Init /\ [][Next]_vars

(* Every variable has its type.                                            *)
TypeOK == scan \in ScanStates /\ {said, heard} \subseteq Said /\ term \in Terminals

(* However the output is cut into chunks, the scan reports the bells and   *)
(* the last title that a terminal sees in it.                              *)
ScanHearsTheTerminal == said = heard
=============================================================================
