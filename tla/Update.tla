------------------------------- MODULE Update -------------------------------
(***************************************************************************)
(* The in-app update: the UpdateController of server/update-install.ts and *)
(* its launcher, in every backend process of one data directory, with what *)
(* interrupts it: the restart gate of server/api-app.ts, the handoff, exits*)
(* and boots. The Setups run on Windows and outlive the backend that       *)
(* started them; the script launcher/run-update.ps1 starts them.           *)
(***************************************************************************)
EXTENDS Naturals, FiniteSets

CONSTANTS MaxVersion,   \* releases 2..MaxVersion follow the installed one, 1
          MaxBoots,     \* backend processes, one after the other
          MaxSetups,    \* times the script is started on Windows
          Crashes       \* whether a process may end with an update in its hands

UpdateBounds == {MaxVersion, MaxBoots, MaxSetups} \subseteq Nat \ {0} /\ Crashes \in BOOLEAN

VARIABLES
  life,      \* each process: "none", "standby", "up", "leaving", "gone"
  mine,      \* the version each process runs
  restart,   \* the process whose restart preflight is running, 0 for none
  ctl,       \* the UpdateController of each process
  dir,       \* <dataDir>/updates
  stage,     \* the staging directory of each version under %TEMP%
  win,       \* the Windows side of each launch
  current    \* the version <app>/current points at

vars == <<life, mine, restart, ctl, dir, stage, win, current>>

Versions == 1..MaxVersion
Boots == 1..MaxBoots
Setups == 1..MaxSetups
Data == {"none", "partial", "good", "bad"}   \* "good" matches the release's sums
States == {"idle", "downloading", "verifying", "installing", "installed", "failed"}

(* state, #running, #heldFlight; pc is the await #run stands at; launch is *)
(* where the promise of launchSetup stands, which the pipeline may have    *)
(* given up on.                                                            *)
Controller == [state : States, version : 0..MaxVersion, running : BOOLEAN, held : BOOLEAN,
               pc : {"none", "sums", "space", "fetch", "reject", "rename", "wait", "poll"},
               launch : {"none", "staging", "spawned"}]
IdleController == [state |-> "idle", version |-> 0, running |-> FALSE, held |-> FALSE,
                   pc |-> "none", launch |-> "none"]

(* The directory of one version: the .part, who opened it, and the .exe.   *)
Directory == [ver : 0..MaxVersion, part : Data, by : 0..MaxBoots, exe : Data]
NoDirectory == [ver |-> 0, part |-> "none", by |-> 0, exe |-> "none"]

Launch == [phase : {"unused", "script", "running", "exited"},
           boot : 0..MaxBoots, ver : 0..MaxVersion, data : Data]
Unused == [phase |-> "unused", boot |-> 0, ver |-> 0, data |-> "none"]

Alive(b) == life[b] \in {"up", "leaving"}
OnWindows == {w \in Setups : win[w].phase \in {"script", "running"}}

(* holdsProcess.                                                           *)
HoldsProcess(b) == ctl[b].state \in {"downloading", "verifying", "installing"}

-----------------------------------------------------------------------------
(* POST /api/update with release v on offer, up to the first await of #run:*)
(* #prepareDir leaves the directory of v, empty.                           *)
Request(b, v) ==
  /\ life[b] = "up" /\ ~ctl[b].running /\ v > mine[b]
  /\ ctl' = [ctl EXCEPT ![b].state = "downloading", ![b].version = v, ![b].running = TRUE,
                        ![b].pc = "sums"]
  /\ dir' = [NoDirectory EXCEPT !.ver = v]
  /\ UNCHANGED <<life, mine, restart, stage, win, current>>

(* Mutant of Failed: the state stays what it was.                          *)
FailedUnnoticed(c) == [c EXCEPT !.pc = "none", !.running = c.held]

(* #fail, with #run at its end: the flight ends unless it is held.         *)
Failed(c) == [c EXCEPT !.state = "failed", !.pc = "none", !.running = c.held]

At(b, pc) == Alive(b) /\ ctl[b].pc = pc
OwnDir(b) == dir.ver = ctl[b].version
Goes(b, pc) == ctl' = [ctl EXCEPT ![b].pc = pc]
Fails(b) == ctl' = [ctl EXCEPT ![b] = Failed(@)]
OnlyController == UNCHANGED <<life, mine, restart, dir, stage, win, current>>
ControllerAndDir == UNCHANGED <<life, mine, restart, stage, win, current>>

(* The sums file arrives and names the Setup once, or not.                 *)
SumsEnd(b) == At(b, "sums") /\ (Goes(b, "space") \/ Fails(b)) /\ OnlyController

(* #assertSpace, then `open(dest, 'w')': the .part is there, empty, if the *)
(* directory still is.                                                     *)
SpaceEnds(b) ==
  /\ At(b, "space")
  /\ \/ /\ OwnDir(b) /\ Goes(b, "fetch")
        /\ dir' = [dir EXCEPT !.part = "partial", !.by = b]
     \/ Fails(b) /\ UNCHANGED dir
  /\ ControllerAndDir

(* The last byte: what landed in the .part this process has open, and the  *)
(* verdict on the bytes it hashed.                                         *)
FetchEnds(b, data) ==
  /\ At(b, "fetch")
  /\ ctl' = [ctl EXCEPT ![b].state = "verifying",
                        ![b].pc = IF data = "good" THEN "rename" ELSE "reject"]
  /\ dir' = IF dir.by = b /\ dir.part # "none" THEN [dir EXCEPT !.part = data] ELSE dir
  /\ ControllerAndDir

(* unlink(partPath): by its name, whoever wrote it.                        *)
UnlinkPart(b) == dir' = IF OwnDir(b) THEN [dir EXCEPT !.part = "none", !.by = 0] ELSE dir

(* A short, long, slow or broken body; and the hash that did not match.    *)
FetchFails(b) == At(b, "fetch") /\ UnlinkPart(b) /\ Fails(b) /\ ControllerAndDir
Reject(b)     == At(b, "reject") /\ UnlinkPart(b) /\ Fails(b) /\ ControllerAndDir

(* The .part gets its runnable name, and launchSetup begins to stage it.   *)
Rename(b) ==
  /\ At(b, "rename")
  /\ IF OwnDir(b) /\ dir.part # "none"
       THEN /\ dir' = [dir EXCEPT !.exe = dir.part, !.part = "none", !.by = 0]
            /\ ctl' = [ctl EXCEPT ![b].state = "installing", ![b].pc = "wait",
                                  ![b].launch = "staging"]
       ELSE UNCHANGED dir /\ Fails(b)
  /\ ControllerAndDir

-----------------------------------------------------------------------------
(* Mutant of Settled: a held flight is never given back.                   *)
SettledStaysHeld(c, ok) ==
  IF c.pc = "wait" THEN IF ok THEN [c EXCEPT !.launch = "none", !.pc = "poll"]
                              ELSE [Failed(c) EXCEPT !.launch = "none"]
  ELSE [c EXCEPT !.launch = "none"]

(* The promise of launchSetup settles: #run judges the exit code if it     *)
(* still waits; a held flight is released whatever the outcome.            *)
Settled(c, ok) ==
  CASE c.pc = "wait" /\ ok  -> [c EXCEPT !.launch = "none", !.pc = "poll"]
    [] c.pc = "wait" /\ ~ok -> [Failed(c) EXCEPT !.launch = "none"]
    [] OTHER -> [c EXCEPT !.launch = "none", !.held = FALSE, !.running = FALSE]

(* Windows keeps the file of a running program.                            *)
Locked(v) == \E w \in Setups : win[w].phase = "running" /\ win[w].ver = v

(* createInteropLauncher: the exe is copied to a fresh staging directory   *)
(* and the script is spawned on it, detached.                              *)
Stage(b, w) ==
  LET v == ctl[b].version IN
  /\ Alive(b) /\ ctl[b].launch = "staging" /\ win[w] = Unused
  /\ OwnDir(b) /\ dir.exe # "none" /\ ~Locked(v)
  /\ stage' = [stage EXCEPT ![v] = dir.exe]
  /\ win' = [win EXCEPT ![w] = [phase |-> "script", boot |-> b, ver |-> v, data |-> "none"]]
  /\ ctl' = [ctl EXCEPT ![b].launch = "spawned"]
  /\ UNCHANGED <<life, mine, restart, dir, current>>

(* No temp directory, a failed copy or spawn: what was staged is removed   *)
(* if it can be.                                                           *)
StageFails(b) ==
  LET v == ctl[b].version IN
  /\ Alive(b) /\ ctl[b].launch = "staging"
  /\ stage' \in IF Locked(v) THEN {stage} ELSE {stage, [stage EXCEPT ![v] = "none"]}
  /\ ctl' = [ctl EXCEPT ![b] = Settled(@, FALSE)]
  /\ UNCHANGED <<life, mine, restart, dir, win, current>>

(* Mutant of SetupTimesOut: the wait ends like any other failed one.       *)
SetupTimesOutFree(b) ==
  At(b, "wait") /\ ctl' = [ctl EXCEPT ![b] = Failed([@ EXCEPT !.held = FALSE])] /\ OnlyController

(* #launch gives up the wait and #holdFlight keeps the flight.             *)
SetupTimesOut(b) ==
  At(b, "wait") /\ ctl' = [ctl EXCEPT ![b] = Failed([@ EXCEPT !.held = TRUE])] /\ OnlyController

(* The exit of the script reaches the process that started it, if there.   *)
ExitReaches(b, ok) ==
  ctl' = IF ctl[b].launch = "spawned" THEN [ctl EXCEPT ![b] = Settled(@, ok)] ELSE ctl

(* Mutant of ScriptAccepts: run what is there.                             *)
ScriptAcceptsAny(data) == data # "none"

(* run-update.ps1 hashes the staged file once more.                        *)
ScriptAccepts(data) == data = "good"

(* The Setup takes the installer's mutex.                                  *)
ScriptStarts(w) ==
  LET l == win[w] IN
  /\ l.phase = "script" /\ ScriptAccepts(stage[l.ver])
  /\ \A o \in Setups : win[o].phase # "running"
  /\ win' = [win EXCEPT ![w].phase = "running", ![w].data = stage[l.ver]]
  /\ UNCHANGED <<life, mine, restart, ctl, dir, stage, current>>

(* It refuses (2 and 3), or the Setup finds the mutex taken and gives up;  *)
(* the script removes the staging directory it ran from.                   *)
ScriptRefuses(w) ==
  LET l == win[w] IN
  /\ l.phase = "script"
  /\ win' = [win EXCEPT ![w].phase = "exited"]
  /\ stage' = IF Locked(l.ver) THEN stage ELSE [stage EXCEPT ![l.ver] = "none"]
  /\ ExitReaches(l.boot, FALSE)
  /\ UNCHANGED <<life, mine, restart, dir, current>>

(* The Setup ends, with exit code 0 or another; 0 does not prove that      *)
(* `current' moved.                                                        *)
SetupExits(w, ok) ==
  LET l == win[w] IN
  /\ l.phase = "running"
  /\ win' = [win EXCEPT ![w].phase = "exited"]
  /\ stage' = [stage EXCEPT ![l.ver] = "none"]
  /\ current' \in IF ok THEN {current, l.ver} ELSE {current}
  /\ ExitReaches(l.boot, ok)
  /\ UNCHANGED <<life, mine, restart, dir>>

(* installedCheck: `current' is not the version this process runs.         *)
Available(b) == current # mine[b]

(* #awaitInstalled sees a new version, or its deadline passes.             *)
PollSucceeds(b) ==
  /\ At(b, "poll") /\ Available(b)
  /\ ctl' = [ctl EXCEPT ![b].state = "installed", ![b].pc = "none", ![b].running = FALSE]
  /\ OnlyController
PollTimesOut(b) == At(b, "poll") /\ ~Available(b) /\ Fails(b) /\ OnlyController

-----------------------------------------------------------------------------
(* POST /api/restart: the gate, then the await of the preflight, in which  *)
(* the replacement boots from the bundle `current' names.                  *)
RestartBegins(b) ==
  /\ life[b] = "up" /\ restart = 0 /\ ~HoldsProcess(b)
  /\ b + 1 \in Boots /\ life[b + 1] = "none"
  /\ restart' = b
  /\ life' = [life EXCEPT ![b + 1] = "standby"]
  /\ mine' = [mine EXCEPT ![b + 1] = current]
  /\ UNCHANGED <<ctl, dir, stage, win, current>>

RestartRefused(b) ==
  /\ restart = b /\ restart' = 0
  /\ life' = [life EXCEPT ![b + 1] = "none"]
  /\ UNCHANGED <<mine, ctl, dir, stage, win, current>>

(* The teardown and `go'.                                                  *)
RestartCommits(b) ==
  /\ restart = b /\ restart' = 0
  /\ life' = [life EXCEPT ![b] = "leaving"]
  /\ UNCHANGED <<mine, ctl, dir, stage, win, current>>

(* `go' at the replacement: resetUpdateArtifacts, then it listens.         *)
ChildTakes(b) ==
  /\ life[b] = "standby" /\ b > 1 /\ life[b - 1] = "leaving"
  /\ life' = [life EXCEPT ![b] = "up"]
  /\ dir' = NoDirectory
  /\ UNCHANGED <<mine, restart, ctl, stage, win, current>>

(* A process ends: idle when no update holds it, after a handoff once the  *)
(* replacement has its `go', or at any time by a signal, a crash or the    *)
(* ceiling of the idle callback. Its controller is memory; its standby     *)
(* leaves with it.                                                         *)
ProcessEnds(b) ==
  /\ Alive(b) /\ (HoldsProcess(b) => Crashes \/ life[b] = "leaving")
  /\ life[b] = "leaving" => life[b + 1] # "standby"
  /\ life' = [o \in Boots |-> IF o = b THEN "gone"
                              ELSE IF o = b + 1 /\ life[o] = "standby" THEN "none" ELSE life[o]]
  /\ ctl' = [ctl EXCEPT ![b] = IdleController]
  /\ restart' = IF restart = b THEN 0 ELSE restart
  /\ UNCHANGED <<mine, dir, stage, win, current>>

(* An ordinary boot clears <dataDir>/updates.                              *)
Boot(b) ==
  /\ life[b] = "none" /\ \A o \in Boots : life[o] = (IF o < b THEN "gone" ELSE "none")
  /\ life' = [life EXCEPT ![b] = "up"]
  /\ mine' = [mine EXCEPT ![b] = current]
  /\ dir' = NoDirectory
  /\ UNCHANGED <<restart, ctl, stage, win, current>>

Init ==
  /\ life = [b \in Boots |-> IF b = 1 THEN "up" ELSE "none"]
  /\ mine = [b \in Boots |-> 1]
  /\ restart = 0
  /\ ctl = [b \in Boots |-> IdleController]
  /\ dir = NoDirectory
  /\ stage = [v \in Versions |-> "none"]
  /\ win = [w \in Setups |-> Unused]
  /\ current = 1

(* What #run goes on with by itself: every await has a timer behind it.    *)
Pipeline(b) ==
  \/ SumsEnd(b) \/ SpaceEnds(b) \/ FetchFails(b) \/ Reject(b) \/ Rename(b)
  \/ \E data \in {"good", "bad"} : FetchEnds(b, data)
  \/ SetupTimesOut(b) \/ PollSucceeds(b) \/ PollTimesOut(b)

Windows == \E w \in Setups : ScriptStarts(w) \/ ScriptRefuses(w)
                             \/ \E ok \in BOOLEAN : SetupExits(w, ok)

Next ==
  \/ \E b \in Boots : \/ Pipeline(b) \/ StageFails(b)
                      \/ \E v \in Versions : Request(b, v)
                      \/ \E w \in Setups : Stage(b, w)
                      \/ RestartBegins(b) \/ RestartRefused(b) \/ RestartCommits(b)
                      \/ ChildTakes(b) \/ ProcessEnds(b) \/ Boot(b)
  \/ Windows

Spec == Init /\ [][Next]_vars
FairSpec == Spec /\ \A b \in Boots : WF_vars(Pipeline(b))

-----------------------------------------------------------------------------
(* Every variable has its type.                                            *)
TypeOK ==
  /\ life \in [Boots -> {"none", "standby", "up", "leaving", "gone"}]
  /\ mine \in [Boots -> Versions]
  /\ restart \in 0..MaxBoots
  /\ ctl \in [Boots -> Controller]
  /\ dir \in Directory
  /\ stage \in [Versions -> Data]
  /\ win \in [Setups -> Launch]
  /\ current \in Versions

(* What Windows executes is a file that matched the release's sums, even   *)
(* when two processes work in one directory during a handoff and a rename  *)
(* by path takes the other's half of a download.                           *)
OnlyVerifiedRuns == \A w \in Setups : win[w].phase = "running" => win[w].data = "good"

(* As long as a backend serves, a Setup it started keeps its flight: no    *)
(* second press is accepted beside it, after the timeout of the wait too.  *)
HeldUntilExit == \A w \in OnWindows : Alive(win[w].boot) => ctl[win[w].boot].running

(* A held flight is given back: a process refuses presses for a pipeline   *)
(* that works, or for a launch that has not settled, and for nothing else. *)
RefusesForAReason ==
  \A b \in Boots : ctl[b].running <=> (ctl[b].pc # "none" \/ ctl[b].launch # "none")

(* An update stops holding the process by itself, whatever the network and *)
(* Windows do.                                                             *)
WorkEnds == \A b \in Boots : HoldsProcess(b) ~> ~HoldsProcess(b)

(* api-app.ts: "an install in flight outranks a restart": no handoff is    *)
(* under way while the old process downloads, verifies or installs.        *)
InstallOutranksRestart == \A b \in Boots : life[b] = "leaving" => ~HoldsProcess(b)

(* The installer script: the backend "holds its own single flight until    *)
(* the child really exits", so that no second Setup is started beside it.  *)
OneSetupAtATime == Cardinality(OnWindows) <= 1

(* "Believe the disk, not the exit code": an update is reported installed  *)
(* when `current' has moved to it.                                         *)
InstalledMeansMoved ==
  [][\A b \in Boots : ctl[b].state # "installed" /\ ctl'[b].state = "installed"
                      => current = ctl[b].version]_vars
=============================================================================
