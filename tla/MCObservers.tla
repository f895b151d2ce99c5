---------------------------- MODULE MCObservers ----------------------------
(***************************************************************************)
(* What the backend learns of the world outside it: the releases on GitHub *)
(* (EXTENDS), what Claude Code leaves in transcripts and in the snapshots  *)
(* of its status line, and what a program writes to its terminal. The      *)
(* observers share no variable, so a behaviour is one of them at work and  *)
(* the others at rest in one of their initial states.                      *)
(***************************************************************************)
EXTENDS ReleaseCheck

CONSTANTS
  Uses, Workers, Workflows, MaxLaunches, StaleAge, GraceAge, IdleAge, MaxUnread, None,
  Tracked, Written, MaxLine, TailBytes, PerPoll, PerTick, MaxSize,
  MaxVersion, NoFile, TitleMax, MaxChunk,
  MaxOutput, NewlineAt, Cap, ReplayLines, ReadSize, DrainSize, DrainReads, Clients

VARIABLES
  claude, work, made, unread, title, fold, report,
  content, state, tick, from, swapped,
  snapshot, instant, watching, event, debounce, seen, shown,
  scan, said, term, heard,
  written, alive, read, master, cut, exited, ring, view,
  atWork  \* the observer of this behaviour

Turns == INSTANCE AgentsTurn
Transcripts == INSTANCE AgentsSweep
Snapshots == INSTANCE Telemetry
Titles == INSTANCE OutputScan
Output == INSTANCE Scrollback WITH Newlines <- NewlineAt, Lines <- ReplayLines

ASSUME ObserverAssumption ==
  Turns!TurnBounds /\ Transcripts!SweepBounds /\ Titles!ScanBounds /\ Output!OutputBounds

MCTracked == <<<<"m1">>, <<"m2", "a2">>>>
MCMaxSize == [m1 |-> 4, m2 |-> 0, a2 |-> 2]

turnVars == <<claude, work, made, unread, title, fold, report>>
sweepVars == <<content, state, tick, from, swapped>>
teleVars == <<snapshot, instant, watching, event, debounce, seen, shown>>
scanVars == <<scan, said, term, heard>>
outputVars == <<written, alive, read, master, cut, exited, ring, view>>
MCVars == <<vars, turnVars, sweepVars, teleVars, scanVars, outputVars, atWork>>

MCInit ==
  /\ atWork \in {"releases", "turns", "transcripts", "snapshots", "titles", "output"}
  /\ Init /\ (atWork # "releases" => ~pub.ok /\ \A v \in Versions : pub.ver <= v)
  /\ Turns!Init /\ Transcripts!SweepInit /\ Titles!Init /\ Output!Init
  /\ Snapshots!TelemetryInit /\ (atWork # "snapshots" => watching)

MCNext ==
  /\ UNCHANGED atWork
  /\ \/ /\ atWork = "releases" /\ Next
        /\ UNCHANGED <<turnVars, sweepVars, teleVars, scanVars, outputVars>>
     \/ /\ atWork = "turns" /\ Turns!Next
        /\ UNCHANGED <<vars, sweepVars, teleVars, scanVars, outputVars>>
     \/ /\ atWork = "transcripts" /\ Transcripts!SweepNext
        /\ UNCHANGED <<vars, turnVars, teleVars, scanVars, outputVars>>
     \/ /\ atWork = "snapshots" /\ Snapshots!TelemetryNext
        /\ UNCHANGED <<vars, turnVars, sweepVars, scanVars, outputVars>>
     \/ /\ atWork = "titles" /\ Titles!Next
        /\ UNCHANGED <<vars, turnVars, sweepVars, teleVars, outputVars>>
     \/ /\ atWork = "output" /\ Output!Next
        /\ UNCHANGED <<vars, turnVars, sweepVars, teleVars, scanVars>>

(* The fairness of each observer, asked of it when it is at work.          *)
On(observer, action) == atWork = observer /\ action
MCSpec ==
  /\ MCInit /\ [][MCNext]_MCVars
  /\ WF_vars(On("releases", TimerFires)) /\ WF_vars(On("releases", WindowPasses))
  /\ SF_vars(On("releases", Answers))
  /\ atWork = "transcripts" => []<><<Transcripts!Sweep>>_sweepVars
  /\ WF_teleVars(On("snapshots", Snapshots!Event)) /\ WF_teleVars(On("snapshots", Snapshots!PollOnce))
  /\ WF_teleVars(On("snapshots", Snapshots!Deliver))
-----------------------------------------------------------------------------
TypesOK ==
  /\ TypeOK /\ Turns!TypeOK /\ Transcripts!SweepTypeOK /\ Snapshots!TelemetryTypeOK
  /\ Titles!TypeOK /\ Output!TypeOK

(* A report of the poll calls a session working while work it left in the  *)
(* background runs, and waiting once all it started has come to rest.      *)
TurnIsHonest == Turns!BackgroundWorkShows /\ Turns!RestReadsWaiting

(* Each transcript's lines are folded whole and once, whatever cuts them.  *)
FoldsEveryLineOnce == Transcripts!FoldsEveryLineOnce

(* The title and the bell a session reports are what its terminal shows.   *)
ScanHearsTheTerminal == Titles!ScanHearsTheTerminal

(* A window shows a run of the output without a hole or a repetition, a    *)
(* replay begins at a line, and the exit comes after the last output.      *)
OutputIsWhole ==
  /\ [](Output!RingIsRecentOutput /\ Output!WindowsShowTheOutput /\ Output!FinalOutputKept)
  /\ Output!ReplayIsTheLastLines

(* What lasts outside is known inside in the end: the release to offer,    *)
(* every line of every tracked transcript, the latest snapshot.            *)
OffersTheRelease == atWork = "releases" => OfferConverges
CatchesUp == atWork = "transcripts" => Transcripts!CatchesUp
SnapshotIsShown == atWork = "snapshots" => Snapshots!SnapshotIsShown
ObserversKeepUp == OffersTheRelease /\ CatchesUp /\ SnapshotIsShown
=============================================================================
