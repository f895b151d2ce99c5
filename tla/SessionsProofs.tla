---------------------------- MODULE SessionsProofs ----------------------------
(***************************************************************************)
(* The safety of module Sessions for every number of sessions, clients,    *)
(* conversations and process numbers.                                      *)
(*                                                                         *)
(* `Inv' is the inductive invariant.  It is the conjunction of the state   *)
(* properties the runs check on small instances and of HistorySids, which  *)
(* says where the `sid' of a history entry can come from.  What the        *)
(* windows know rests on it and on `WindowsInv', further down.             *)
(***************************************************************************)
EXTENDS Sessions, TLAPS

(* An entry names a session that was created, or none: then it was loaded  *)
(* from an earlier run and has ended, or is not stored at all.             *)
HistorySids ==
  \A k \in Keys :
    /\ hist[k].sid \in created \cup {NoSid}
    /\ hist[k].sid = NoSid => hist[k].ended \in {"absent", "crash"}

(* The inductive invariant.                                                *)
Inv ==
  /\ TypeOK
  /\ PtyIffRunning
  /\ UnspawnedIsBlank
  /\ HistorySids
  /\ LiveEntryHasSession
  /\ ArtifactsOfRunningOnly
  /\ NoLeaderLeaked
  /\ LadderBookkeeping
  /\ UserKillFollowedThrough

-----------------------------------------------------------------------------
(***************************************************************************)
(* The history operators                                                   *)
(***************************************************************************)

(* A stored time is a natural number, a key keeps its entry or loses it,   *)
(* and #enforceBound never drops a live one.                               *)
LEMMA EnforceBoundKeepsLive ==
  ASSUME NEW h \in [Keys -> Entry]
  PROVE  /\ EnforceBound(h) \in [Keys -> Entry]
         /\ \A k \in Keys : EnforceBound(h)[k] \in {h[k], NoEntry}
         /\ \A k \in Keys : h[k].ended = "live" => EnforceBound(h)[k] = h[k]
<1>1. NoEntry \in Entry
  BY DEF NoEntry, Entry
<1>2. \A k \in Keys : h[k].ended = "live" => k \notin Ended(h)
  BY DEF Ended, Reasons
<1>3. EnforceBound(h) = [k \in Keys |-> IF k \in Ended(h) /\ k \in Surplus(h)
                                           THEN NoEntry ELSE h[k]]
  BY DEF EnforceBound
<1> QED BY <1>1, <1>2, <1>3

(* recordCreate makes the launched key live for s, and every other entry   *)
(* stays or, unless it is live, may be dropped.                            *)
LEMMA RecordCreateEffect ==
  ASSUME NEW h \in [Keys -> Entry], NEW key \in Keys, NEW s \in Sids, NEW now \in Nat
  PROVE  /\ RecordCreate(h, key, s, now) \in [Keys -> Entry]
         /\ RecordCreate(h, key, s, now)[key].sid = s
         /\ RecordCreate(h, key, s, now)[key].ended = "live"
         /\ \A k \in Keys \ {key} :
              /\ RecordCreate(h, key, s, now)[k] \in {h[k], NoEntry}
              /\ h[k].ended = "live" => RecordCreate(h, key, s, now)[k] = h[k]
<1> DEFINE launched == [h EXCEPT ![key] = [sid |-> s, ended |-> "live", used |-> now]]
<1>1. launched \in [Keys -> Entry]
  BY DEF Entry
<1>2. /\ launched[key].sid = s /\ launched[key].ended = "live"
      /\ \A k \in Keys \ {key} : launched[k] = h[k]
  OBVIOUS
<1>3. RecordCreate(h, key, s, now) \in {launched, EnforceBound(launched)}
  BY DEF RecordCreate
<1> HIDE DEF launched
<1>4. /\ EnforceBound(launched) \in [Keys -> Entry]
      /\ \A k \in Keys : EnforceBound(launched)[k] \in {launched[k], NoEntry}
      /\ \A k \in Keys : launched[k].ended = "live" => EnforceBound(launched)[k] = launched[k]
  BY <1>1, EnforceBoundKeepsLive
<1> QED BY <1>1, <1>2, <1>3, <1>4

(* markEnded changes nothing but the reason, and only on the live entry of *)
(* the session it is called for.                                           *)
LEMMA MarkEndedEffect ==
  ASSUME NEW h \in [Keys -> Entry], NEW s \in Sids, NEW why \in Reasons
  PROVE  /\ MarkEnded(h, s, why) \in [Keys -> Entry]
         /\ \A k \in Keys :
              /\ MarkEnded(h, s, why)[k].sid = h[k].sid
              /\ IF h[k].sid = s /\ h[k].ended = "live"
                   THEN MarkEnded(h, s, why)[k].ended = why
                   ELSE MarkEnded(h, s, why)[k] = h[k]
BY DEF MarkEnded, Entry

(* endAllLive leaves no entry live and every other one as it was.          *)
LEMMA EndAllLiveEffect ==
  ASSUME NEW h \in [Keys -> Entry], NEW why \in Reasons
  PROVE  /\ EndAllLive(h, why) \in [Keys -> Entry]
         /\ \A k \in Keys :
              /\ EndAllLive(h, why)[k].sid = h[k].sid
              /\ EndAllLive(h, why)[k].ended =
                   IF h[k].ended = "live" THEN why ELSE h[k].ended
              /\ h[k].ended # "live" => EndAllLive(h, why)[k] = h[k]
BY DEF EndAllLive, Entry

-----------------------------------------------------------------------------
(***************************************************************************)
(* Session records and frames                                              *)
(***************************************************************************)

(* The records create starts from are session records.                     *)
LEMMA FreshInfo ==
  /\ NoInfo \in Info /\ NoInfo.status = "none"
  /\ Running \in Info /\ Running.status = "running"
BY DEF NoInfo, Running, Info

(* syncPending touches neither the status nor the shape of a record.       *)
LEMMA SyncPendingKeepsStatus ==
  ASSUME NEW i \in Info
  PROVE  SyncPending(i) \in Info /\ SyncPending(i).status = i.status
BY DEF SyncPending, Info

(* onExit leaves a record that says "exited".                              *)
LEMMA ExitedInfoIsExited ==
  ASSUME NEW i \in Info, NEW e \in BOOLEAN
  PROVE  ExitedInfo(i, e) \in Info /\ ExitedInfo(i, e).status = "exited"
<1> DEFINE a == IF i.agents = "running" THEN "finished" ELSE i.agents
           j == [i EXCEPT !.status = "exited", !.turn = "unknown", !.turnEnded = FALSE,
                          !.titleIdle = FALSE, !.early = e, !.agents = a]
<1>1. j \in Info /\ j.status = "exited"
  BY DEF Info
<1>2. ExitedInfo(i, e) = SyncPending(j)
  BY DEF ExitedInfo, Info
<1> QED BY <1>1, <1>2, SyncPendingKeepsStatus

(* What a client was told stays a view, whatever frame reaches it.         *)
LEMMA ViewType ==
  /\ NoView \in View
  /\ \A i \in Info, a \in BOOLEAN, x \in BOOLEAN :
       [info |-> Wire(i), attention |-> a, exit |-> x] \in View
  /\ \A w \in View, i \in Info, a \in BOOLEAN :
       [w EXCEPT !.info = Wire(i), !.attention = a] \in View
  /\ \A w \in View, a \in BOOLEAN :
       /\ [w EXCEPT !.attention = a] \in View
       /\ [w EXCEPT !.exit = a] \in View
<1>1. NoInfo \in Info
  BY FreshInfo
<1> QED BY <1>1 DEF View, NoView

(* An info frame for s leaves every client a view.                         *)
LEMMA InfoFrameType ==
  ASSUME view \in [Clients -> View], NEW s \in Sids, NEW i \in Info
  PROVE  InfoFrame(s, i) \in [Clients -> View]
<1>1. i.attention \in BOOLEAN
  BY DEF Info
<1> QED BY <1>1, ViewType DEF InfoFrame

-----------------------------------------------------------------------------
(***************************************************************************)
(* The inductive step, action by action                                    *)
(***************************************************************************)

(* Steps that rewrite session records without starting or ending a session *)
(* (output, telemetry, reports, markSeen) and steps of the sockets.        *)
LEMMA RecordStep ==
  ASSUME Inv,
         info' \in [Sids -> Info],
         \A t \in Sids : info'[t].status = info[t].status,
         \A t \in Sids : info[t].status = "none" => info'[t] = info[t],
         \A t \in tracked' : t \in tracked \/ (t \in listed /\ info[t].status = "running"),
         sock' \in [Clients -> Socket], view' \in [Clients -> View],
         UNCHANGED <<up, clock, created, listed, ptys, pid, lastPid, procs,
                     killTimer, escalating, settings, hist>>
  PROVE  Inv'
<1> USE DEF Inv
<1>1. TypeOK'
  BY DEF TypeOK
<1>2. PtyIffRunning'
  BY DEF PtyIffRunning
<1>3. UnspawnedIsBlank'
  <2> SUFFICES ASSUME NEW t \in Sids, t \notin created \/ info[t].status = "none"
               PROVE  Blank(t)'
    BY DEF UnspawnedIsBlank
  <2>1. Blank(t)
    BY DEF UnspawnedIsBlank
  <2>2. info[t].status = "none"
    BY <2>1, FreshInfo DEF Blank
  <2>3. t \notin tracked'
    BY <2>1, <2>2 DEF Blank
  <2> QED BY <2>1, <2>2, <2>3 DEF Blank
<1>4. HistorySids' /\ LiveEntryHasSession' /\ NoLeaderLeaked' /\ UserKillFollowedThrough'
  BY DEF HistorySids, LiveEntryHasSession, NoLeaderLeaked, UserKillFollowedThrough
<1>5. ArtifactsOfRunningOnly'
  BY DEF ArtifactsOfRunningOnly, TypeOK
<1>6. LadderBookkeeping'
  BY DEF LadderBookkeeping
<1> QED BY <1>1, <1>2, <1>3, <1>4, <1>5, <1>6

(* Output, a telemetry snapshot, a report and markSeen.                    *)
LEMMA HandleOutputStep ==
  ASSUME Inv, NEW s \in Sids, NEW o \in Outputs, HandleOutput(s, o)
  PROVE  Inv'
<1> TypeOK /\ UnspawnedIsBlank
  BY DEF Inv
<1> DEFINE i == info[s]
           rung == [i EXCEPT !.attention = TRUE]
           belled == IF o.bell THEN SyncPending(rung) ELSE i
           idle == CASE o.title = "idle" -> TRUE
                     [] o.title = "busy" -> FALSE
                     [] OTHER -> i.titleIdle
           j == [belled EXCEPT !.titleIdle = idle]
<1>1. i \in Info /\ i.status = "running"
  BY DEF HandleOutput, TypeOK
<1>2. rung \in Info /\ rung.status = "running"
  BY <1>1 DEF Info
<1>3. belled \in Info /\ belled.status = "running"
  BY <1>1, <1>2, SyncPendingKeepsStatus
<1>4. idle \in BOOLEAN
  BY <1>1 DEF Info
<1>5. j \in Info /\ j.status = "running"
  <2> HIDE DEF belled, idle
  <2> QED BY <1>3, <1>4 DEF Info
<1>6. info' = [info EXCEPT ![s] = j]
  BY DEF HandleOutput
<1> HIDE DEF j, i
<1>7. /\ info' \in [Sids -> Info]
      /\ \A t \in Sids : info'[t].status = info[t].status
      /\ \A t \in Sids : info[t].status = "none" => info'[t] = info[t]
  BY <1>1, <1>5, <1>6 DEF TypeOK, i
<1>8. view' \in [Clients -> View]
  BY ViewType DEF HandleOutput, TypeOK
<1> QED BY <1>7, <1>8, RecordStep DEF HandleOutput, TypeOK

LEMMA TelemetryStep ==
  ASSUME Inv, NEW s \in Sids, NEW v \in Teles, NEW transcript \in BOOLEAN,
         Telemetry(s, v, transcript)
  PROVE  Inv'
<1> TypeOK /\ UnspawnedIsBlank
  BY DEF Inv
<1> DEFINE i == [info[s] EXCEPT !.tele = v]
<1>1. i \in Info /\ i.status = info[s].status
  BY DEF TypeOK, Info
<1>2. info[s].status = "none" => s \notin listed
  BY DEF UnspawnedIsBlank, Blank
<1>3. info' \in {info, [info EXCEPT ![s] = i]} /\ (info' # info => s \in listed)
  BY DEF Telemetry
<1>4. view' \in [Clients -> View]
  <2> HIDE DEF i
  <2>1. view' \in {view, InfoFrame(s, i)}
    BY DEF Telemetry, i
  <2> QED BY <2>1, <1>1, InfoFrameType DEF TypeOK
<1>5. /\ info' \in [Sids -> Info]
      /\ \A t \in Sids : info'[t].status = info[t].status
      /\ \A t \in Sids : info[t].status = "none" => info'[t] = info[t]
  <2> HIDE DEF i
  <2> QED BY <1>1, <1>2, <1>3 DEF TypeOK
<1>6. \A t \in tracked' : t \in tracked \/ (t \in listed /\ info[t].status = "running")
  BY DEF Telemetry
<1> QED BY <1>4, <1>5, <1>6, RecordStep DEF Telemetry, TypeOK

LEMMA SetReportStep ==
  ASSUME Inv, NEW s \in Sids, NEW r \in Reports, SetReport(s, r)
  PROVE  Inv'
<1> TypeOK /\ UnspawnedIsBlank
  BY DEF Inv
<1> DEFINE i == info[s]
           news == CASE i.turn = "working" /\ r.turn = "waiting" -> TRUE
                     [] r.turn = "working" -> FALSE
                     [] OTHER -> i.turnEnded
           reported == [i EXCEPT !.agents = r.agents, !.turn = r.turn, !.turnEnded = news]
           j == SyncPending(reported)
<1>1. i \in Info /\ r \in [agents : {"none", "running", "finished"},
                            turn : {"unknown", "working", "waiting"}]
  BY SessionsAssumption DEF TypeOK
<1>2. news \in BOOLEAN
  BY <1>1 DEF Info
<1>3. reported \in Info /\ reported.status = i.status
  <2> HIDE DEF news, i
  <2> QED BY <1>1, <1>2 DEF Info
<1>4. j \in Info /\ j.status = info[s].status
  BY <1>3, SyncPendingKeepsStatus
<1>5. info' = [info EXCEPT ![s] = j] /\ view' = InfoFrame(s, j)
  BY DEF SetReport
<1>6. info[s].status # "none"
  BY DEF SetReport, UnspawnedIsBlank, Blank
<1> HIDE DEF j
<1>7. /\ info' \in [Sids -> Info]
      /\ \A t \in Sids : info'[t].status = info[t].status
      /\ \A t \in Sids : info[t].status = "none" => info'[t] = info[t]
  BY <1>4, <1>5, <1>6 DEF TypeOK
<1>8. view' \in [Clients -> View]
  BY <1>4, <1>5, InfoFrameType DEF TypeOK
<1> QED BY <1>7, <1>8, RecordStep DEF SetReport, TypeOK

LEMMA MarkSeenStep ==
  ASSUME Inv, NEW s \in Sids, MarkSeen(s)
  PROVE  Inv'
<1> TypeOK /\ UnspawnedIsBlank
  BY DEF Inv
<1> DEFINE seen == [info[s] EXCEPT !.attention = FALSE]
           j == SyncPending(seen)
<1>1. seen \in Info /\ seen.status = info[s].status
  <2>1. info[s] \in Info
    BY DEF TypeOK
  <2> QED BY <2>1 DEF Info
<1>2. j \in Info /\ j.status = info[s].status
  BY <1>1, SyncPendingKeepsStatus
<1>3. info' = [info EXCEPT ![s] = j]
  BY DEF MarkSeen
<1>4. info[s].status # "none"
  BY DEF MarkSeen, UnspawnedIsBlank, Blank
<1> HIDE DEF j
<1>5. /\ info' \in [Sids -> Info]
      /\ \A t \in Sids : info'[t].status = info[t].status
      /\ \A t \in Sids : info[t].status = "none" => info'[t] = info[t]
  BY <1>2, <1>3, <1>4 DEF TypeOK
<1> QED BY <1>5, RecordStep DEF MarkSeen, TypeOK

(* The upgrade, the attach and the close of a client's socket.             *)
LEMMA UpgradeStep ==
  ASSUME Inv, NEW c \in Clients, NEW s \in Sids, Upgrade(c, s)
  PROVE  Inv'
<1> TypeOK
  BY DEF Inv
<1>1. sock' \in [Clients -> Socket]
  BY DEF Upgrade, TypeOK, Socket
<1> QED BY <1>1, RecordStep DEF Upgrade, TypeOK

LEMMA AttachStep ==
  ASSUME Inv, NEW c \in Clients, Attach(c)
  PROVE  Inv'
<1> TypeOK
  BY DEF Inv
<1> DEFINE s == sock[c].sid
           replayed == [info |-> Wire(info[s]), attention |-> info[s].attention,
                        exit |-> info[s].status = "exited"]
<1>1. sock' \in [Clients -> Socket]
  BY DEF Attach, TypeOK, Socket
<1>2. s \in listed => replayed \in View
  <2> SUFFICES ASSUME s \in listed PROVE replayed \in View
    OBVIOUS
  <2>1. info[s] \in Info
    BY DEF TypeOK
  <2>2. info[s].attention \in BOOLEAN
    BY <2>1 DEF Info
  <2> QED BY <2>1, <2>2, ViewType
<1>3. \/ s \in listed /\ view' = [view EXCEPT ![c] = replayed]
      \/ view' = view
  BY DEF Attach
<1> HIDE DEF replayed
<1>4. view' \in [Clients -> View]
  BY <1>2, <1>3 DEF TypeOK
<1> QED BY <1>1, <1>4, RecordStep DEF Attach, TypeOK

LEMMA ClientClosesStep ==
  ASSUME Inv, NEW c \in Clients, ClientCloses(c)
  PROVE  Inv'
<1> TypeOK
  BY DEF Inv
<1>1. sock' \in [Clients -> Socket]
  BY DEF ClientCloses, TypeOK, Socket, IdleSocket
<1>2. view' \in [Clients -> View]
  BY ViewType DEF ClientCloses, TypeOK
<1> QED BY <1>1, <1>2, RecordStep DEF ClientCloses, TypeOK

(* Processes come and go behind the manager's back.  A group that gained a *)
(* worker had a live leader, and NoLeaderLeaked says who holds that one.   *)
LEMMA WorkerForksStep ==
  ASSUME Inv, NEW s \in Sids, WorkerForks(s)
  PROVE  Inv'
<1> USE DEF Inv, WorkerForks
<1>1. TypeOK'
  BY DEF TypeOK
<1>2. PtyIffRunning' /\ HistorySids' /\ LiveEntryHasSession' /\ ArtifactsOfRunningOnly'
      /\ LadderBookkeeping'
  BY DEF PtyIffRunning, HistorySids, LiveEntryHasSession, ArtifactsOfRunningOnly,
         LadderBookkeeping
<1>3. UnspawnedIsBlank'
  BY DEF UnspawnedIsBlank, Blank, TypeOK
<1>4. NoLeaderLeaked'
  BY DEF NoLeaderLeaked, TypeOK
<1>5. UserKillFollowedThrough'
  <2> SUFFICES ASSUME NEW k \in Keys, hist[k].ended = "user-kill", hist[k].sid = s
               PROVE  s \in escalating
    BY DEF UserKillFollowedThrough, TypeOK, HistorySids
  <2> QED BY DEF UserKillFollowedThrough, NoLeaderLeaked
<1> QED BY <1>1, <1>2, <1>3, <1>4, <1>5

LEMMA ProcessEndsStep ==
  ASSUME Inv, NEW s \in Sids, NEW p \in {"leader", "worker"}, ProcessEnds(s, p)
  PROVE  Inv'
<1> USE DEF Inv, ProcessEnds
<1>1. TypeOK'
  BY DEF TypeOK
<1>2. PtyIffRunning' /\ HistorySids' /\ LiveEntryHasSession' /\ ArtifactsOfRunningOnly'
      /\ LadderBookkeeping'
  BY DEF PtyIffRunning, HistorySids, LiveEntryHasSession, ArtifactsOfRunningOnly,
         LadderBookkeeping
<1>3. \A t \in Sids : procs'[t] \subseteq procs[t]
  BY DEF TypeOK
<1>4. UnspawnedIsBlank' /\ NoLeaderLeaked'
  BY <1>3 DEF UnspawnedIsBlank, Blank, NoLeaderLeaked
<1>5. UserKillFollowedThrough'
  <2> SUFFICES ASSUME NEW k \in Keys, hist[k].ended = "user-kill",
                      procs[hist[k].sid] = {}
               PROVE  procs'[hist[k].sid] = {}
    BY DEF UserKillFollowedThrough
  <2>1. hist[k].sid \in Sids
    BY DEF HistorySids, TypeOK
  <2> QED BY <1>3, <2>1
<1> QED BY <1>1, <1>2, <1>4, <1>5

(* create.  The new session was blank, so no entry names it yet; the entry *)
(* it takes over becomes live for a session with a PTY.                    *)
LEMMA CreateStep ==
  ASSUME Inv, NEW s \in Sids, NEW key \in Keys, NEW sl \in BOOLEAN, Create(s, key, sl)
  PROVE  Inv'
<1> USE DEF Inv
<1>2. /\ hist' = RecordCreate(hist, key, s, clock)
      /\ hist' \in [Keys -> Entry]
      /\ hist'[key].sid = s /\ hist'[key].ended = "live"
      /\ \A k \in Keys \ {key} : hist'[k] \in {hist[k], NoEntry}
  BY RecordCreateEffect DEF Create, TypeOK
<1>3. \A k \in Keys \ {key} :
        /\ hist'[k].sid \in {hist[k].sid, NoSid}
        /\ hist'[k].ended \in {hist[k].ended, "absent"}
        /\ hist'[k].sid = NoSid => hist'[k].ended \in {"absent", "crash"}
        /\ hist'[k].ended # "absent" => hist'[k] = hist[k]
  BY <1>2 DEF NoEntry, HistorySids
<1>4. s \notin created /\ Blank(s) /\ up = "up" /\ up' = "up"
  BY DEF Create, UnspawnedIsBlank
<1>5. /\ created' = created \cup {s} /\ listed' = listed \cup {s}
      /\ ptys' = ptys \cup {s}
      /\ info' = [info EXCEPT ![s] = Running]
      /\ procs' = [procs EXCEPT ![s] = {"leader"}]
      /\ settings' \subseteq settings \cup {s}
      /\ UNCHANGED <<killTimer, escalating, tracked>>
  BY DEF Create
<1>6. info'[s].status = "running" /\ \A t \in Sids \ {s} : info'[t] = info[t]
  BY <1>5, FreshInfo DEF TypeOK
<1>7. TypeOK'
  <2>1. pid' \in [Sids -> Pids \cup {0}] /\ lastPid' \in Pids
    BY DEF Create, TypeOK, NextPids, FreePids
  <2>2. clock' \in Nat \ {0}
    BY DEF Create, TypeOK
  <2>3. info' \in [Sids -> Info]
    BY <1>5, FreshInfo DEF TypeOK
  <2>4. UNCHANGED <<sock, view>>
    BY DEF Create
  <2> QED BY <1>2, <1>4, <1>5, <2>1, <2>2, <2>3, <2>4 DEF TypeOK
<1>8. PtyIffRunning'
  BY <1>5, <1>6 DEF PtyIffRunning
<1>9. UnspawnedIsBlank'
  <2> SUFFICES ASSUME NEW t \in Sids, t \notin created' \/ info'[t].status = "none"
               PROVE  Blank(t)'
    BY DEF UnspawnedIsBlank
  <2>1. t # s
    BY <1>5, <1>6
  <2>2. Blank(t)
    BY <2>1, <1>5, <1>6 DEF UnspawnedIsBlank
  <2>3. \A k \in Keys : hist'[k].sid # t
    BY <2>1, <2>2, <1>2, <1>3, HistoryAssumption DEF Blank
  <2> QED BY <2>1, <2>2, <2>3, <1>5, <1>6 DEF Blank, TypeOK
<1>10. HistorySids'
  BY <1>2, <1>3, <1>5, HistoryAssumption DEF HistorySids
<1>11. LiveEntryHasSession'
  BY <1>2, <1>3, <1>4, <1>5 DEF LiveEntryHasSession
<1>12. ArtifactsOfRunningOnly'
  BY <1>4, <1>5, <1>6 DEF ArtifactsOfRunningOnly, TypeOK, Blank
<1>13. NoLeaderLeaked'
  BY <1>4, <1>5 DEF NoLeaderLeaked, TypeOK
<1>14. LadderBookkeeping'
  BY <1>4, <1>5 DEF LadderBookkeeping, TypeOK
<1>15. UserKillFollowedThrough'
  <2> SUFFICES ASSUME NEW k \in Keys, hist'[k].ended = "user-kill"
               PROVE  \/ procs'[hist'[k].sid] = {} \/ hist'[k].sid \in escalating'
    BY DEF UserKillFollowedThrough
  <2>1. k # key /\ hist'[k] = hist[k]
    BY <1>2, <1>3
  <2>2. hist[k].sid # s /\ hist[k].sid \in Sids
    BY <1>4, <2>1 DEF Blank, HistorySids, TypeOK
  <2> QED BY <1>4, <1>5, <2>1, <2>2 DEF UserKillFollowedThrough, TypeOK
<1> QED BY <1>7, <1>8, <1>9, <1>10, <1>11, <1>12, <1>13, <1>14, <1>15

(* The keys a launch can end up with are keys.                             *)
LEMMA LaunchKeysAreKeys == \A s \in Sids : LaunchKeys(s) \subseteq Keys
BY DEF LaunchKeys, Keys, Stored

(* create whose spawn throws leaves nothing but a used id behind.          *)
LEMMA CreateFailsStep ==
  ASSUME Inv, NEW s \in Sids, NEW sl \in BOOLEAN, CreateFails(s, sl)
  PROVE  Inv'
<1> USE DEF Inv
<1>1. Blank(s)
  BY DEF CreateFails, UnspawnedIsBlank
<1>2. settings' = settings
  BY <1>1 DEF CreateFails, Blank
<1>3. TypeOK'
  BY <1>2 DEF CreateFails, TypeOK
<1>4. UnspawnedIsBlank'
  BY <1>1, <1>2 DEF CreateFails, UnspawnedIsBlank, Blank
<1>5. HistorySids' /\ PtyIffRunning' /\ LiveEntryHasSession' /\ NoLeaderLeaked'
  BY DEF CreateFails, HistorySids, PtyIffRunning, LiveEntryHasSession, NoLeaderLeaked
<1>6. ArtifactsOfRunningOnly' /\ LadderBookkeeping' /\ UserKillFollowedThrough'
  BY <1>2 DEF CreateFails, ArtifactsOfRunningOnly, LadderBookkeeping, UserKillFollowedThrough
<1> QED BY <1>3, <1>4, <1>5, <1>6

(* onExit: the leader is gone, so letting go of the PTY leaks nothing; the *)
(* ladder is called off only when the rest of the group is gone too.       *)
LEMMA OnExitStep ==
  ASSUME Inv, NEW s \in Sids, NEW e \in BOOLEAN, OnExit(s, e)
  PROVE  Inv'
<1> USE DEF Inv
<1> DEFINE off == killTimer[s] # "off" /\ GroupGone(s)
           j == ExitedInfo(info[s], e)
           told == IF ExitChanged(info[s], e) THEN InfoFrame(s, j) ELSE view
<1>1. /\ up = "up" /\ up' = "up" /\ info[s].status = "running" /\ "leader" \notin procs[s]
      /\ killTimer' = IF off THEN [killTimer EXCEPT ![s] = "off"] ELSE killTimer
      /\ escalating' = IF off THEN escalating \ {s} ELSE escalating
      /\ info' = [info EXCEPT ![s] = j]
      /\ ptys' = ptys \ {s} /\ settings' = settings \ {s} /\ tracked' = tracked \ {s}
      /\ hist' = MarkEnded(hist, s, "exit")
      /\ UNCHANGED <<clock, created, listed, pid, lastPid, procs, sock>>
  BY DEF OnExit
<1>2. j \in Info /\ j.status = "exited"
  BY ExitedInfoIsExited DEF TypeOK
<1>3. view' \in [Clients -> View]
  <2>1. told \in [Clients -> View]
    BY <1>2, InfoFrameType DEF TypeOK
  <2>2. view' = [c \in Clients |-> IF c \in ClientsOf(s)
                   THEN [told[c] EXCEPT !.exit = TRUE] ELSE told[c]]
    BY DEF OnExit
  <2> HIDE DEF told
  <2>3. \A c \in Clients : told[c] \in View
    BY <2>1
  <2>4. \A c \in Clients : [told[c] EXCEPT !.exit = TRUE] \in View
    BY <2>3, ViewType
  <2> QED BY <2>2, <2>3, <2>4
<1>4. off => procs[s] = {}
  BY <1>1, FreshInfo DEF GroupGone, GroupAlive, UnspawnedIsBlank, Blank
<1> HIDE DEF off, j, told
<1>5. /\ info' \in [Sids -> Info] /\ info'[s].status = "exited"
      /\ \A t \in Sids \ {s} : info'[t] = info[t]
  BY <1>1, <1>2 DEF TypeOK
<1>6. /\ hist' \in [Keys -> Entry]
      /\ \A k \in Keys :
           /\ hist'[k].sid = hist[k].sid
           /\ IF hist[k].sid = s /\ hist[k].ended = "live"
                THEN hist'[k].ended = "exit" ELSE hist'[k] = hist[k]
  BY <1>1, MarkEndedEffect DEF TypeOK, Reasons
<1>7. TypeOK'
  BY <1>1, <1>3, <1>5, <1>6 DEF TypeOK
<1>8. PtyIffRunning'
  BY <1>1, <1>5 DEF PtyIffRunning
<1>9. UnspawnedIsBlank'
  BY <1>1, <1>5, <1>6, FreshInfo DEF UnspawnedIsBlank, Blank, TypeOK
<1>10. HistorySids'
  BY <1>1, <1>6, HistoryAssumption DEF HistorySids
<1>11. LiveEntryHasSession'
  BY <1>1, <1>6 DEF LiveEntryHasSession
<1>12. ArtifactsOfRunningOnly'
  BY <1>1, <1>5 DEF ArtifactsOfRunningOnly, TypeOK
<1>13. NoLeaderLeaked'
  BY <1>1 DEF NoLeaderLeaked
<1>14. LadderBookkeeping'
  BY <1>1 DEF LadderBookkeeping, TypeOK
<1>15. UserKillFollowedThrough'
  <2> SUFFICES ASSUME NEW k \in Keys, hist'[k].ended = "user-kill"
               PROVE  procs[hist[k].sid] = {} \/ hist[k].sid \in escalating'
    BY <1>1, <1>6 DEF UserKillFollowedThrough
  <2>1. hist[k].ended = "user-kill"
    BY <1>6
  <2> QED BY <1>1, <1>4, <2>1 DEF UserKillFollowedThrough
<1> QED BY <1>7, <1>8, <1>9, <1>10, <1>11, <1>12, <1>13, <1>14, <1>15

(* destroy: a session that still has its PTY moves to the ladder in the    *)
(* step that stamps its entry.                                             *)
LEMMA DestroyStep ==
  ASSUME Inv, NEW s \in Sids, Destroy(s)
  PROVE  Inv'
<1> USE DEF Inv
<1>1. /\ up = "up" /\ up' = "up" /\ s \in listed /\ listed' = listed \ {s}
      /\ settings' = settings \ {s} /\ tracked' = tracked \ {s} /\ ptys' = ptys \ {s}
      /\ UNCHANGED <<clock, created, info, pid, lastPid, procs, view>>
  BY DEF Destroy
<1>2. \/ /\ s \in ptys /\ hist' = MarkEnded(hist, s, "user-kill")
         /\ killTimer' = [killTimer EXCEPT ![s] = "term"]
         /\ escalating' = escalating \cup {s}
      \/ s \notin ptys /\ UNCHANGED <<hist, killTimer, escalating>>
  BY DEF Destroy
<1>3. /\ hist' \in [Keys -> Entry]
      /\ \A k \in Keys :
           /\ hist'[k].sid = hist[k].sid
           /\ hist'[k] = hist[k] \/ (/\ s \in ptys /\ hist[k].sid = s
                                   /\ hist[k].ended = "live"
                                   /\ hist'[k].ended = "user-kill")
           /\ (hist'[k].ended = "live") => (hist[k].ended = "live" /\ hist[k].sid # s)
  <2>1. CASE s \in ptys
    BY <2>1, <1>2, MarkEndedEffect DEF TypeOK, Reasons
  <2>2. CASE s \notin ptys
    BY <2>2, <1>2 DEF TypeOK, LiveEntryHasSession
  <2> QED BY <2>1, <2>2
<1>4. TypeOK'
  <2>1. sock' \in [Clients -> Socket]
    BY DEF Destroy, TypeOK, Socket
  <2> QED BY <1>1, <1>2, <1>3, <2>1 DEF TypeOK
<1>5. PtyIffRunning'
  BY <1>1 DEF PtyIffRunning
<1>6. UnspawnedIsBlank'
  BY <1>1, <1>2, <1>3 DEF UnspawnedIsBlank, Blank, TypeOK
<1>7. HistorySids'
  BY <1>1, <1>3, HistoryAssumption DEF HistorySids
<1>8. LiveEntryHasSession'
  BY <1>1, <1>3 DEF LiveEntryHasSession
<1>9. ArtifactsOfRunningOnly'
  BY <1>1 DEF ArtifactsOfRunningOnly
<1>10. NoLeaderLeaked'
  BY <1>1, <1>2 DEF NoLeaderLeaked
<1>11. LadderBookkeeping'
  BY <1>1, <1>2 DEF LadderBookkeeping, TypeOK
<1>12. UserKillFollowedThrough'
  BY <1>1, <1>2, <1>3 DEF UserKillFollowedThrough
<1> QED BY <1>4, <1>5, <1>6, <1>7, <1>8, <1>9, <1>10, <1>11, <1>12

(* The two timers of the ladder: s leaves it only with its group.          *)
LEMMA TermFiresStep ==
  ASSUME Inv, NEW s \in Sids, TermFires(s)
  PROVE  Inv'
<1> USE DEF Inv
<1>1. /\ killTimer[s] = "term" /\ s \in escalating /\ s \in created
      /\ killTimer' = [killTimer EXCEPT ![s] = IF GroupGone(s) THEN "off" ELSE "kill"]
      /\ escalating' = IF GroupGone(s) THEN escalating \ {s} ELSE escalating
      /\ UNCHANGED <<up, clock, created, listed, info, ptys, pid, lastPid, procs,
                     settings, tracked, hist, sock, view>>
  BY DEF TermFires, LadderBookkeeping, TypeOK
<1>2. GroupGone(s) => procs[s] = {}
  BY <1>1 DEF GroupGone, GroupAlive
<1> HIDE DEF GroupGone
<1>3. TypeOK' /\ PtyIffRunning' /\ HistorySids' /\ LiveEntryHasSession' /\ ArtifactsOfRunningOnly'
  BY <1>1 DEF TypeOK, PtyIffRunning, HistorySids, LiveEntryHasSession, ArtifactsOfRunningOnly
<1>4. UnspawnedIsBlank'
  BY <1>1 DEF UnspawnedIsBlank, Blank, TypeOK
<1>5. NoLeaderLeaked'
  BY <1>1, <1>2 DEF NoLeaderLeaked
<1>6. LadderBookkeeping'
  BY <1>1 DEF LadderBookkeeping, TypeOK
<1>7. UserKillFollowedThrough'
  BY <1>1, <1>2 DEF UserKillFollowedThrough
<1> QED BY <1>3, <1>4, <1>5, <1>6, <1>7

LEMMA KillFiresStep ==
  ASSUME Inv, NEW s \in Sids, KillFires(s)
  PROVE  Inv'
<1> USE DEF Inv
<1>1. /\ killTimer[s] = "kill" /\ s \in escalating /\ s \in created
      /\ killTimer' = [killTimer EXCEPT ![s] = "off"]
      /\ escalating' = escalating \ {s}
      /\ UNCHANGED <<up, clock, created, listed, info, ptys, pid, lastPid,
                     settings, tracked, hist, sock, view>>
  BY DEF KillFires, LadderBookkeeping, TypeOK
<1>2. /\ procs' \in [Sids -> SUBSET {"leader", "worker"}]
      /\ \A t \in Sids : procs'[t] \in {procs[t], {}}
      /\ procs'[s] = {}
  BY <1>1 DEF KillFires, KillGroup, GroupGone, GroupAlive, TypeOK
<1>3. TypeOK' /\ PtyIffRunning' /\ HistorySids' /\ LiveEntryHasSession' /\ ArtifactsOfRunningOnly'
  BY <1>1, <1>2 DEF TypeOK, PtyIffRunning, HistorySids, LiveEntryHasSession,
                    ArtifactsOfRunningOnly
<1>4. UnspawnedIsBlank'
  BY <1>1, <1>2 DEF UnspawnedIsBlank, Blank, TypeOK
<1>5. NoLeaderLeaked'
  BY <1>1, <1>2 DEF NoLeaderLeaked
<1>6. LadderBookkeeping'
  BY <1>1 DEF LadderBookkeeping, TypeOK
<1>7. UserKillFollowedThrough'
  <2> SUFFICES ASSUME NEW k \in Keys, hist[k].ended = "user-kill"
               PROVE  \/ procs'[hist[k].sid] = {} \/ hist[k].sid \in escalating'
                      \/ up' = "down"
    BY <1>1 DEF UserKillFollowedThrough
  <2>1. hist[k].sid \in Sids
    BY DEF HistorySids, TypeOK
  <2> QED BY <1>1, <1>2, <2>1 DEF UserKillFollowedThrough
<1> QED BY <1>3, <1>4, <1>5, <1>6, <1>7

(* shutdown: the groups destroyAll signals hold every live leader.         *)
LEMMA ShutdownStep ==
  ASSUME Inv, Shutdown
  PROVE  Inv'
<1> USE DEF Inv
<1>1. /\ up' = "down" /\ listed' = {} /\ escalating' = {} /\ tracked' = {}
      /\ ptys' = ptys \ listed /\ settings' = settings \ listed
      /\ killTimer' = [s \in Sids |-> "off"]
      /\ procs' = [t \in Sids |-> IF pid[t] \in ShutdownVictims THEN {} ELSE procs[t]]
      /\ UNCHANGED <<clock, created, info, pid, lastPid>>
  BY DEF Shutdown
<1>2. /\ hist' \in [Keys -> Entry]
      /\ \A k \in Keys :
           /\ hist'[k].sid = hist[k].sid
           /\ hist'[k].ended = IF hist[k].ended = "live" THEN "shutdown" ELSE hist[k].ended
  BY EndAllLiveEffect DEF Shutdown, TypeOK, Reasons
<1>3. settings' = {} /\ ptys' = {}
  BY <1>1 DEF ArtifactsOfRunningOnly, TypeOK
<1>4. TypeOK'
  <2>1. sock' \in [Clients -> Socket] /\ view' \in [Clients -> View]
    BY ViewType, HistoryAssumption DEF Shutdown, Socket, IdleSocket
  <2> QED BY <1>1, <1>2, <1>3, <2>1 DEF TypeOK
<1>5. PtyIffRunning'
  BY <1>1, <1>3 DEF PtyIffRunning
<1>6. UnspawnedIsBlank'
  BY <1>1, <1>2, <1>3 DEF UnspawnedIsBlank, Blank, TypeOK
<1>7. HistorySids'
  BY <1>1, <1>2 DEF HistorySids
<1>8. LiveEntryHasSession'
  BY <1>2 DEF LiveEntryHasSession
<1>9. ArtifactsOfRunningOnly' /\ LadderBookkeeping'
  BY <1>1, <1>3 DEF ArtifactsOfRunningOnly, LadderBookkeeping
<1>10. NoLeaderLeaked'
  <2> SUFFICES ASSUME NEW t \in Sids, "leader" \in procs'[t]
               PROVE  FALSE
    BY DEF NoLeaderLeaked
  <2>1. "leader" \in procs[t] /\ pid[t] \notin ShutdownVictims
    BY <1>1
  <2>2. t \in (listed \cap ptys) \cup escalating
    BY <2>1 DEF NoLeaderLeaked, TypeOK
  <2> QED BY <2>1, <2>2 DEF ShutdownVictims
<1>11. UserKillFollowedThrough'
  BY <1>1 DEF UserKillFollowedThrough
<1> QED BY <1>4, <1>5, <1>6, <1>7, <1>8, <1>9, <1>10, <1>11

-----------------------------------------------------------------------------
(***************************************************************************)
(* The theorems                                                            *)
(***************************************************************************)

(* Every run starts in a state of the invariant: nothing was spawned yet,  *)
(* and the entries of earlier runs were stamped 'crash' on load.           *)
LEMMA InitInv == Init => Inv
<1> SUFFICES ASSUME Init PROVE Inv
  OBVIOUS
<1>1. PICK old \in SUBSET Convs : hist = LoadedHistory(old)
  BY DEF Init
<1>2. /\ hist \in [Keys -> Entry]
      /\ \A k \in Keys : hist[k].sid = NoSid /\ hist[k].ended \in {"absent", "crash"}
  BY <1>1 DEF LoadedHistory, NoEntry, Entry, Reasons
<1>3. TypeOK
  <2>1. NPids \in Pids
    BY SessionsAssumption DEF Pids
  <2>2. IdleSocket \in Socket
    BY DEF IdleSocket, Socket
  <2>3. info \in [Sids -> Info] /\ view \in [Clients -> View] /\ sock \in [Clients -> Socket]
    BY <2>2, FreshInfo, ViewType DEF Init
  <2>4. clock \in Nat \ {0} /\ lastPid \in Pids /\ pid \in [Sids -> Pids \cup {0}]
    BY <2>1 DEF Init
  <2> QED BY <1>2, <2>3, <2>4 DEF Init, TypeOK
<1>4. UnspawnedIsBlank
  BY <1>2, HistoryAssumption DEF Init, UnspawnedIsBlank, Blank
<1>5. HistorySids /\ LiveEntryHasSession /\ UserKillFollowedThrough
  BY <1>2 DEF HistorySids, LiveEntryHasSession, UserKillFollowedThrough
<1>6. PtyIffRunning /\ ArtifactsOfRunningOnly /\ NoLeaderLeaked /\ LadderBookkeeping
  BY DEF Init, PtyIffRunning, ArtifactsOfRunningOnly, NoLeaderLeaked, LadderBookkeeping
<1> QED BY <1>3, <1>4, <1>5, <1>6 DEF Inv

(* No step leaves the invariant.                                           *)
LEMMA NextInv == Inv /\ [Next]_vars => Inv'
<1> SUFFICES ASSUME Inv, [Next]_vars PROVE Inv'
  OBVIOUS
<1>1. ASSUME NEW s \in Sids, LaunchStep(s) PROVE Inv'
  BY <1>1, LaunchKeysAreKeys, CreateStep, CreateFailsStep DEF LaunchStep
<1>2. ASSUME NEW s \in Sids, BrowserStep(s) PROVE Inv'
  BY <1>2, MarkSeenStep, DestroyStep, UpgradeStep DEF BrowserStep
<1>3. ASSUME NEW s \in Sids, EngineStep(s) PROVE Inv'
  BY <1>3, WorkerForksStep, ProcessEndsStep, HandleOutputStep, OnExitStep, TelemetryStep,
     SetReportStep, TermFiresStep, KillFiresStep DEF EngineStep
<1>4. ASSUME NEW c \in Clients, SocketStep(c) PROVE Inv'
  BY <1>4, AttachStep, ClientClosesStep DEF SocketStep
<1>5. CASE Shutdown
  BY <1>5, ShutdownStep
<1>6. CASE UNCHANGED vars
  BY <1>6 DEF vars, Inv, TypeOK, PtyIffRunning, UnspawnedIsBlank, Blank, HistorySids,
     LiveEntryHasSession, ArtifactsOfRunningOnly, NoLeaderLeaked, LadderBookkeeping,
     UserKillFollowedThrough
<1> QED BY <1>1, <1>2, <1>3, <1>4, <1>5, <1>6 DEF Next

(* The invariant holds in every reachable state.                           *)
THEOREM Safety == Spec => []Inv
BY InitInv, NextInv, PTL DEF Spec

(* Every variable keeps its type.                                          *)
THEOREM TypeCorrect == Spec => []TypeOK
<1>1. Inv => TypeOK
  BY DEF Inv
<1> QED BY <1>1, Safety, PTL

(* The history never calls a session running that the manager has no PTY   *)
(* for: onExit, destroy and shutdown stamp the entry in time.              *)
THEOREM LiveEntriesAreRunning == Spec => [](LiveEntryHasSession /\ PtyIffRunning)
<1>1. Inv => LiveEntryHasSession /\ PtyIffRunning
  BY DEF Inv
<1> QED BY <1>1, Safety, PTL

(* No program the manager started escapes it: its leader is listed or on   *)
(* the ladder of signals while the backend serves, and dead afterwards.    *)
THEOREM NoProgramEscapes == Spec => [](NoLeaderLeaked /\ LadderBookkeeping)
<1>1. Inv => NoLeaderLeaked /\ LadderBookkeeping
  BY DEF Inv
<1> QED BY <1>1, Safety, PTL

(* A session the user ended is pursued until its whole group is gone.      *)
THEOREM UserKillIsPursued == Spec => []UserKillFollowedThrough
<1>1. Inv => UserKillFollowedThrough
  BY DEF Inv
<1> QED BY <1>1, Safety, PTL

(* Settings files and transcript polls are only ever a running session's,  *)
(* and a launch that failed leaves nothing behind.                         *)
THEOREM NothingLeftBehind == Spec => [](ArtifactsOfRunningOnly /\ UnspawnedIsBlank)
<1>1. Inv => ArtifactsOfRunningOnly /\ UnspawnedIsBlank
  BY DEF Inv
<1> QED BY <1>1, Safety, PTL

(* The first stamp wins: markEnded and endAllLive pass over an entry that  *)
(* has ended, and only a launch by a new session makes it live again.      *)
THEOREM StampsAreFinal == Spec => FirstStampWins
<1> DEFINE Kept == \A k \in Keys : hist[k].ended \in Reasons /\ hist'[k] # hist[k] =>
                     \/ hist'[k] = NoEntry
                     \/ hist'[k].ended = "live" /\ hist'[k].sid \notin created
<1>1. ASSUME Inv, [Next]_vars PROVE [Kept]_vars
  <2> hist \in [Keys -> Entry]
    BY <1>1 DEF Inv, TypeOK
  <2>1. ASSUME NEW s \in Sids, NEW key \in LaunchKeys(s), NEW sl \in BOOLEAN,
               Create(s, key, sl)
        PROVE  Kept
    <3>1. key \in Keys
      BY DEF LaunchKeys, Keys, Stored
    <3>2. clock \in Nat
      BY <1>1 DEF Inv, TypeOK
    <3> QED BY <2>1, <3>1, <3>2, RecordCreateEffect DEF Create
  <2>2. ASSUME NEW s \in Sids, NEW e \in BOOLEAN, OnExit(s, e) PROVE Kept
    <3>1. hist' = MarkEnded(hist, s, "exit")
      BY <2>2 DEF OnExit
    <3> QED BY <3>1, MarkEndedEffect DEF Reasons
  <2>3. ASSUME NEW s \in Sids, Destroy(s) PROVE Kept
    <3>1. hist' \in {hist, MarkEnded(hist, s, "user-kill")}
      BY <2>3 DEF Destroy
    <3> QED BY <3>1, MarkEndedEffect DEF Reasons
  <2>4. CASE Shutdown
    BY <2>4, EndAllLiveEffect DEF Shutdown, Reasons
  <2>5. ASSUME hist' = hist PROVE Kept
    BY <2>5
  <2>6. ASSUME NEW s \in Sids, LaunchStep(s) \/ BrowserStep(s) PROVE Kept
    BY <2>6, <2>1, <2>3, <2>5 DEF LaunchStep, BrowserStep, CreateFails, MarkSeen, Upgrade
  <2>7. ASSUME NEW s \in Sids, EngineStep(s) PROVE Kept
    <3>1. CASE \E e \in BOOLEAN : OnExit(s, e)
      BY <3>1, <2>2
    <3>2. CASE hist' = hist
      BY <3>2, <2>5
    <3> QED BY <2>7, <3>1, <3>2 DEF EngineStep, WorkerForks, ProcessEnds, HandleOutput,
                                   Telemetry, SetReport, TermFires, KillFires
  <2>8. ASSUME NEW c \in Clients, SocketStep(c) PROVE Kept
    BY <2>8, <2>5 DEF SocketStep, Attach, ClientCloses
  <2> HIDE DEF Kept
  <2> QED BY <1>1, <2>4, <2>6, <2>7, <2>8 DEF Next
<1> QED BY <1>1, Safety, PTL DEF Spec, FirstStampWins
-----------------------------------------------------------------------------
(***************************************************************************)
(* What the windows know                                                   *)
(***************************************************************************)

(* The inductive invariant of the windows: an open socket belongs to a     *)
(* session that was created, and the early-exit verdict falls with the     *)
(* exit only, so that an exit without it changes nothing the windows show. *)
WindowsInv ==
  /\ \A c \in Clients : sock[c].st = "open" => sock[c].sid \in created
  /\ \A s \in Sids : info[s].status = "running" => ~info[s].early
  /\ WindowsKnowTheSession

(* An info frame says all that a window is told of a record.               *)
LEMMA WireOfSame ==
  ASSUME NEW i \in Info, NEW j \in Info,
         j.turn = i.turn, j.turnEnded = i.turnEnded, j.agents = i.agents,
         j.tele = i.tele, j.early = i.early
  PROVE  Wire(j) = Wire(i)
BY DEF Wire, WireFields, Info

(* An info frame reaches the windows of its session and no other.          *)
LEMMA InfoFrameEffect ==
  ASSUME view \in [Clients -> View], NEW s \in Sids, NEW i \in Info, NEW c \in Clients
  PROVE  /\ c \in ClientsOf(s) => /\ InfoFrame(s, i)[c].info = Wire(i)
                                  /\ InfoFrame(s, i)[c].attention = i.attention
                                  /\ InfoFrame(s, i)[c].exit = view[c].exit
         /\ c \notin ClientsOf(s) => InfoFrame(s, i)[c] = view[c]
BY DEF InfoFrame, View

(* syncPending sets the mark and nothing else.                             *)
LEMMA SyncPendingFields ==
  ASSUME NEW i \in Info
  PROVE  LET j == SyncPending(i) IN
         /\ j \in Info /\ j.pending = (i.attention \/ i.turnEnded)
         /\ j.status = i.status /\ j.turn = i.turn /\ j.turnEnded = i.turnEnded
         /\ j.attention = i.attention /\ j.agents = i.agents /\ j.tele = i.tele
         /\ j.titleIdle = i.titleIdle /\ j.early = i.early
BY DEF SyncPending, Info

(* The record onExit leaves, field by field.                               *)
LEMMA ExitedInfoFields ==
  ASSUME NEW i \in Info, NEW e \in BOOLEAN
  PROVE  LET j == ExitedInfo(i, e) IN
         /\ j.attention = i.attention /\ j.tele = i.tele /\ j.early = e
         /\ j.turn = "unknown" /\ ~j.turnEnded /\ ~j.titleIdle
         /\ j.pending = i.attention
         /\ j.agents = IF i.agents = "running" THEN "finished" ELSE i.agents
<1> DEFINE a == IF i.agents = "running" THEN "finished" ELSE i.agents
           k == [i EXCEPT !.status = "exited", !.turn = "unknown", !.turnEnded = FALSE,
                          !.titleIdle = FALSE, !.early = e, !.agents = a]
<1>1. /\ k \in Info /\ k.attention = i.attention /\ k.tele = i.tele /\ k.early = e
      /\ k.turn = "unknown" /\ ~k.turnEnded /\ ~k.titleIdle /\ k.agents = a
  BY DEF Info
<1>2. ExitedInfo(i, e) = SyncPending(k)
  BY DEF ExitedInfo, Info
<1> HIDE DEF k
<1> QED BY <1>1, <1>2 DEF SyncPending, Info

(* The shape of most steps: one record of a created session changes, its   *)
(* windows hear of it or do not need to, and everybody else is left alone. *)
LEMMA OneRecordStep ==
  ASSUME Inv, WindowsInv, NEW s \in Sids, NEW j \in Info, s \in created,
         info' = [info EXCEPT ![s] = j],
         j.status = "running" => ~j.early,
         j.pending <=> j.attention \/ j.turnEnded,
         j.turnEnded => j.turn # "working",
         j.status = "exited" =>
           j.turn = "unknown" /\ ~j.turnEnded /\ j.agents # "running" /\ ~j.titleIdle,
         s \in listed => \A c \in ClientsOf(s) :
           /\ view'[c].info = Wire(j)
           /\ view'[c].exit <=> j.status = "exited"
           /\ j.attention => view'[c].attention,
         \A c \in Clients \ ClientsOf(s) : view'[c] = view[c],
         UNCHANGED <<created, listed, sock>>
  PROVE  WindowsInv'
<1> TypeOK
  BY DEF Inv
<1>1. info'[s] = j /\ \A t \in Sids \ {s} : info'[t] = info[t]
  BY DEF TypeOK
<1>2. \A t \in Sids : ClientsOf(t)' = ClientsOf(t)
  BY DEF ClientsOf
<1>3. ClientsUpToDate'
  <2> SUFFICES ASSUME NEW t \in listed, NEW c \in ClientsOf(t)
               PROVE  /\ view'[c].info = Wire(info'[t])
                      /\ view'[c].exit <=> info'[t].status = "exited"
                      /\ info'[t].attention => view'[c].attention
    BY <1>2 DEF ClientsUpToDate, Wire, TypeOK
  <2>1. t \in Sids /\ c \in Clients
    BY DEF TypeOK, ClientsOf
  <2>2. CASE t = s
    BY <2>2, <1>1
  <2>3. CASE t # s
    <3>1. c \notin ClientsOf(s)
      BY <2>3 DEF ClientsOf
    <3> QED BY <2>1, <2>3, <3>1, <1>1 DEF WindowsInv, WindowsKnowTheSession, ClientsUpToDate
  <2> QED BY <2>2, <2>3
<1>4. NewsIsConsistent'
  BY <1>1 DEF WindowsInv, WindowsKnowTheSession, NewsIsConsistent, TypeOK
<1> QED BY <1>1, <1>3, <1>4 DEF WindowsInv, WindowsKnowTheSession

LEMMA HandleOutputWindows ==
  ASSUME Inv, WindowsInv, NEW s \in Sids, NEW o \in Outputs, HandleOutput(s, o)
  PROVE  WindowsInv'
<1> TypeOK /\ UnspawnedIsBlank
  BY DEF Inv
<1> DEFINE i == info[s]
           rung == [i EXCEPT !.attention = TRUE]
           belled == IF o.bell THEN SyncPending(rung) ELSE i
           idle == CASE o.title = "idle" -> TRUE
                     [] o.title = "busy" -> FALSE
                     [] OTHER -> i.titleIdle
           j == [belled EXCEPT !.titleIdle = idle]
<1>1. i \in Info /\ i.status = "running" /\ s \in created
  BY FreshInfo DEF HandleOutput, TypeOK, UnspawnedIsBlank, Blank
<1>2. /\ i.pending <=> i.attention \/ i.turnEnded
      /\ i.turnEnded => i.turn # "working"
      /\ ~i.early
  BY <1>1 DEF WindowsInv, WindowsKnowTheSession, NewsIsConsistent
<1>3. /\ rung \in Info /\ rung.attention /\ rung.status = i.status /\ rung.turn = i.turn
      /\ rung.turnEnded = i.turnEnded /\ rung.agents = i.agents /\ rung.tele = i.tele
      /\ rung.early = i.early
  BY <1>1 DEF Info
<1>4. /\ belled \in Info /\ belled.status = i.status /\ belled.turn = i.turn
      /\ belled.turnEnded = i.turnEnded /\ belled.agents = i.agents /\ belled.tele = i.tele
      /\ belled.early = i.early /\ (belled.pending <=> belled.attention \/ belled.turnEnded)
      /\ belled.attention => o.bell \/ i.attention
  BY <1>1, <1>2, <1>3, SyncPendingFields
<1>5. idle \in BOOLEAN
  BY <1>1 DEF Info
<1>6. /\ j \in Info /\ j.status = belled.status /\ j.turn = belled.turn
      /\ j.turnEnded = belled.turnEnded /\ j.agents = belled.agents /\ j.tele = belled.tele
      /\ j.early = belled.early /\ j.pending = belled.pending /\ j.attention = belled.attention
  <2> HIDE DEF belled, idle
  <2> QED BY <1>4, <1>5 DEF Info
<1>7. info' = [info EXCEPT ![s] = j] /\ UNCHANGED <<created, listed, sock>>
  BY DEF HandleOutput
<1> HIDE DEF j, belled, idle, rung
<1>8. Wire(j) = Wire(i)
  BY <1>1, <1>4, <1>6, WireOfSame
<1>9. ASSUME s \in listed, NEW c \in ClientsOf(s)
      PROVE  /\ view'[c].info = Wire(j)
             /\ view'[c].exit <=> j.status = "exited"
             /\ j.attention => view'[c].attention
  <2>1. c \in Clients /\ view[c] \in View
    BY DEF ClientsOf, TypeOK
  <2>2. /\ view[c].info = Wire(i) /\ (view[c].exit <=> i.status = "exited")
        /\ i.attention => view[c].attention
    BY <1>9 DEF WindowsInv, WindowsKnowTheSession, ClientsUpToDate
  <2>3. /\ view'[c].info = view[c].info /\ view'[c].exit = view[c].exit
        /\ view'[c].attention = (o.bell \/ view[c].attention)
    <3>1. CASE o.bell
      BY <3>1, <2>1 DEF HandleOutput, View
    <3>2. CASE ~o.bell
      BY <3>2, <2>1 DEF HandleOutput, View
    <3> QED BY <3>1, <3>2
  <2> QED BY <2>2, <2>3, <1>1, <1>4, <1>6, <1>8
<1>10. \A c \in Clients \ ClientsOf(s) : view'[c] = view[c]
  BY DEF HandleOutput, TypeOK
<1> QED BY <1>1, <1>2, <1>4, <1>6, <1>7, <1>9, <1>10, OneRecordStep

LEMMA OnExitWindows ==
  ASSUME Inv, WindowsInv, NEW s \in Sids, NEW e \in BOOLEAN, OnExit(s, e)
  PROVE  WindowsInv'
<1> TypeOK /\ UnspawnedIsBlank
  BY DEF Inv
<1> DEFINE i == info[s]
           j == ExitedInfo(i, e)
           told == IF ExitChanged(i, e) THEN InfoFrame(s, j) ELSE view
<1>1. i \in Info /\ i.status = "running" /\ s \in created
  BY FreshInfo DEF OnExit, TypeOK, UnspawnedIsBlank, Blank
<1>2. /\ j \in Info /\ j.status = "exited"
      /\ j.attention = i.attention /\ j.tele = i.tele /\ j.early = e
      /\ j.turn = "unknown" /\ ~j.turnEnded /\ ~j.titleIdle
      /\ j.pending = i.attention
      /\ j.agents = IF i.agents = "running" THEN "finished" ELSE i.agents
  BY <1>1, ExitedInfoFields, ExitedInfoIsExited
<1>3. ~i.early
  BY <1>1 DEF WindowsInv
<1>4. /\ info' = [info EXCEPT ![s] = j] /\ UNCHANGED <<created, listed, sock>>
      /\ view' = [c \in Clients |-> IF c \in ClientsOf(s)
                    THEN [told[c] EXCEPT !.exit = TRUE] ELSE told[c]]
  BY DEF OnExit
<1> HIDE DEF j
<1>5. ASSUME s \in listed, NEW c \in ClientsOf(s)
      PROVE  /\ view'[c].info = Wire(j)
             /\ view'[c].exit <=> j.status = "exited"
             /\ j.attention => view'[c].attention
  <2>1. c \in Clients /\ view[c] \in View
    BY DEF ClientsOf, TypeOK
  <2>2. /\ view[c].info = Wire(i) /\ (i.attention => view[c].attention)
    BY <1>5 DEF WindowsInv, WindowsKnowTheSession, ClientsUpToDate
  <2>3. told[c] \in View /\ told[c].info = Wire(j) /\ (j.attention => told[c].attention)
    <3>1. CASE ExitChanged(i, e)
      <4>1. told = InfoFrame(s, j)
        BY <3>1
      <4>2. InfoFrame(s, j) \in [Clients -> View]
        BY <1>2, InfoFrameType DEF TypeOK
      <4> QED BY <4>1, <4>2, <2>1, <1>2, InfoFrameEffect DEF TypeOK
    <3>2. CASE ~ExitChanged(i, e)
      <4>1. Wire(j) = Wire(i)
        <5>1. j.turn = i.turn /\ j.turnEnded = i.turnEnded /\ j.agents = i.agents
          BY <3>2, <1>1, <1>2 DEF ExitChanged, Info
        <5>2. j.early = i.early
          BY <3>2, <1>1, <1>2, <1>3 DEF ExitChanged, Info
        <5> QED BY <5>1, <5>2, <1>1, <1>2, WireOfSame
      <4> QED BY <3>2, <4>1, <2>1, <2>2, <1>2
    <3> QED BY <3>1, <3>2
  <2> HIDE DEF told
  <2>4. /\ view'[c].info = told[c].info /\ view'[c].attention = told[c].attention
        /\ view'[c].exit = TRUE
    BY <1>4, <2>1, <2>3 DEF View
  <2> QED BY <2>3, <2>4, <1>2
<1>6. \A c \in Clients \ ClientsOf(s) : view'[c] = view[c]
  <2>1. \A c \in Clients \ ClientsOf(s) : told[c] = view[c]
    BY <1>2, InfoFrameEffect DEF TypeOK
  <2> HIDE DEF told
  <2> QED BY <2>1, <1>4
<1> QED
  <2>1. j.agents # "running" /\ (j.pending <=> j.attention \/ j.turnEnded)
    BY <1>1, <1>2 DEF Info
  <2> QED BY <2>1, <1>1, <1>2, <1>4, <1>5, <1>6, OneRecordStep

LEMMA TelemetryWindows ==
  ASSUME Inv, WindowsInv, NEW s \in Sids, NEW v \in Teles, NEW transcript \in BOOLEAN,
         Telemetry(s, v, transcript)
  PROVE  WindowsInv'
<1> TypeOK /\ UnspawnedIsBlank
  BY DEF Inv
<1> DEFINE j == [info[s] EXCEPT !.tele = v]
<1>1. CASE s \in listed /\ info[s].tele # v
  <2>1. /\ info' = [info EXCEPT ![s] = j] /\ view' = InfoFrame(s, j)
        /\ UNCHANGED <<created, listed, sock>>
    BY <1>1 DEF Telemetry
  <2>2. s \in created /\ info[s] \in Info
    BY <1>1 DEF TypeOK
  <2>3. /\ j \in Info /\ j.status = info[s].status /\ j.turn = info[s].turn
        /\ j.turnEnded = info[s].turnEnded /\ j.agents = info[s].agents
        /\ j.early = info[s].early /\ j.pending = info[s].pending
        /\ j.attention = info[s].attention /\ j.titleIdle = info[s].titleIdle
    BY <2>2 DEF Info
  <2> HIDE DEF j
  <2>4. ASSUME NEW c \in ClientsOf(s)
        PROVE  /\ view'[c].info = Wire(j)
               /\ view'[c].exit <=> j.status = "exited"
               /\ j.attention => view'[c].attention
    <3>1. c \in Clients
      BY DEF ClientsOf
    <3> QED BY <1>1, <2>1, <2>3, <3>1, InfoFrameEffect
            DEF TypeOK, WindowsInv, WindowsKnowTheSession, ClientsUpToDate
  <2>5. \A c \in Clients \ ClientsOf(s) : view'[c] = view[c]
    BY <2>1, <2>3, InfoFrameEffect DEF TypeOK
  <2>6. /\ j.status = "running" => ~j.early
        /\ j.pending <=> j.attention \/ j.turnEnded
        /\ j.turnEnded => j.turn # "working"
        /\ j.status = "exited" =>
             j.turn = "unknown" /\ ~j.turnEnded /\ j.agents # "running" /\ ~j.titleIdle
    BY <2>2, <2>3 DEF WindowsInv, WindowsKnowTheSession, NewsIsConsistent, TypeOK
  <2> QED BY <2>1, <2>2, <2>3, <2>4, <2>5, <2>6, OneRecordStep
<1>2. CASE ~(s \in listed /\ info[s].tele # v)
  <2>1. UNCHANGED <<info, view, created, listed, sock>>
    BY <1>2 DEF Telemetry
  <2> QED BY <2>1 DEF WindowsInv, WindowsKnowTheSession, ClientsUpToDate, NewsIsConsistent, ClientsOf,
                      Wire
<1> QED BY <1>1, <1>2

LEMMA SetReportWindows ==
  ASSUME Inv, WindowsInv, NEW s \in Sids, NEW r \in Reports, SetReport(s, r)
  PROVE  WindowsInv'
<1> TypeOK /\ UnspawnedIsBlank
  BY DEF Inv
<1> DEFINE i == info[s]
           news == CASE i.turn = "working" /\ r.turn = "waiting" -> TRUE
                     [] r.turn = "working" -> FALSE
                     [] OTHER -> i.turnEnded
           reported == [i EXCEPT !.agents = r.agents, !.turn = r.turn, !.turnEnded = news]
           j == SyncPending(reported)
<1>1. /\ i \in Info /\ i.status # "exited" /\ s \in listed /\ s \in created
      /\ r \in [agents : {"none", "running", "finished"}, turn : {"unknown", "working", "waiting"}]
  BY SessionsAssumption DEF SetReport, TypeOK
<1>2. news \in BOOLEAN /\ (news => r.turn # "working")
  BY <1>1 DEF Info
<1>3. /\ reported \in Info /\ reported.status = i.status /\ reported.turn = r.turn
      /\ reported.turnEnded = news /\ reported.early = i.early
  <2> HIDE DEF news, i
  <2> QED BY <1>1, <1>2 DEF Info
<1> HIDE DEF reported, news
<1>4. /\ j \in Info /\ j.status = i.status /\ j.turn = r.turn /\ j.turnEnded = news
      /\ j.early = i.early /\ (j.pending <=> j.attention \/ j.turnEnded)
  BY <1>3, SyncPendingFields
<1>5. /\ info' = [info EXCEPT ![s] = j] /\ view' = InfoFrame(s, j)
      /\ UNCHANGED <<created, listed, sock>>
  BY DEF SetReport, reported, news
<1> HIDE DEF j
<1>6. ASSUME NEW c \in ClientsOf(s)
      PROVE  /\ view'[c].info = Wire(j)
             /\ view'[c].exit <=> j.status = "exited"
             /\ j.attention => view'[c].attention
  <2>1. c \in Clients
    BY DEF ClientsOf
  <2> QED BY <1>1, <1>4, <1>5, <2>1, InfoFrameEffect
          DEF TypeOK, WindowsInv, WindowsKnowTheSession, ClientsUpToDate
<1>7. \A c \in Clients \ ClientsOf(s) : view'[c] = view[c]
  BY <1>4, <1>5, InfoFrameEffect DEF TypeOK
<1>8. j.status = "running" => ~j.early
  BY <1>4 DEF WindowsInv
<1> QED BY <1>1, <1>2, <1>4, <1>5, <1>6, <1>7, <1>8, OneRecordStep

LEMMA MarkSeenWindows ==
  ASSUME Inv, WindowsInv, NEW s \in Sids, MarkSeen(s)
  PROVE  WindowsInv'
<1> TypeOK
  BY DEF Inv
<1> DEFINE i == info[s]
           seen == [i EXCEPT !.attention = FALSE]
           j == SyncPending(seen)
<1>1. i \in Info /\ s \in listed /\ s \in created
  BY DEF MarkSeen, TypeOK
<1>2. /\ seen \in Info /\ ~seen.attention /\ seen.status = i.status /\ seen.turn = i.turn
      /\ seen.turnEnded = i.turnEnded /\ seen.agents = i.agents /\ seen.tele = i.tele
      /\ seen.titleIdle = i.titleIdle /\ seen.early = i.early
  BY <1>1 DEF Info
<1> HIDE DEF seen
<1>3. /\ j \in Info /\ ~j.attention /\ j.status = i.status /\ j.turn = i.turn
      /\ j.turnEnded = i.turnEnded /\ j.agents = i.agents /\ j.tele = i.tele
      /\ j.titleIdle = i.titleIdle /\ j.early = i.early
      /\ j.pending <=> j.attention \/ j.turnEnded
  BY <1>2, SyncPendingFields
<1>4. info' = [info EXCEPT ![s] = j] /\ UNCHANGED <<created, listed, sock, view>>
  BY DEF MarkSeen, seen
<1> HIDE DEF j
<1>5. Wire(j) = Wire(i)
  BY <1>1, <1>3, WireOfSame
<1>6. ASSUME NEW c \in ClientsOf(s)
      PROVE  /\ view'[c].info = Wire(j) /\ (view'[c].exit <=> j.status = "exited")
             /\ j.attention => view'[c].attention
  BY <1>1, <1>3, <1>4, <1>5 DEF WindowsInv, WindowsKnowTheSession, ClientsUpToDate
<1>7. /\ j.status = "running" => ~j.early
      /\ j.turnEnded => j.turn # "working"
      /\ j.status = "exited" =>
           j.turn = "unknown" /\ ~j.turnEnded /\ j.agents # "running" /\ ~j.titleIdle
  BY <1>1, <1>3 DEF WindowsInv, WindowsKnowTheSession, NewsIsConsistent
<1> QED BY <1>1, <1>3, <1>4, <1>6, <1>7, OneRecordStep

(* A new session has no window yet: an open socket names a created one.    *)
LEMMA CreateWindows ==
  ASSUME Inv, WindowsInv, NEW s \in Sids, NEW key \in Keys, NEW sl \in BOOLEAN,
         Create(s, key, sl)
  PROVE  WindowsInv'
<1> TypeOK
  BY DEF Inv
<1>1. /\ s \notin created /\ created' = created \cup {s} /\ listed' = listed \cup {s}
      /\ info' = [info EXCEPT ![s] = Running] /\ UNCHANGED <<sock, view>>
  BY DEF Create
<1>2. info'[s] = Running /\ \A t \in Sids \ {s} : info'[t] = info[t]
  BY <1>1 DEF TypeOK
<1>3. ClientsUpToDate'
  <2> SUFFICES ASSUME NEW t \in listed', NEW c \in Clients, sock[c].st = "open", sock[c].sid = t
               PROVE  /\ view[c].info = Wire(info'[t])
                      /\ view[c].exit <=> info'[t].status = "exited"
                      /\ info'[t].attention => view[c].attention
    BY <1>1 DEF ClientsUpToDate, Wire, ClientsOf
  <2>1. t \in created /\ t # s /\ t \in listed /\ c \in ClientsOf(t)
    BY <1>1 DEF WindowsInv, ClientsOf
  <2> QED BY <2>1, <1>2 DEF WindowsInv, WindowsKnowTheSession, ClientsUpToDate, TypeOK
<1>4. NewsIsConsistent'
  BY <1>1, <1>2 DEF WindowsInv, WindowsKnowTheSession, NewsIsConsistent, Running, NoInfo, TypeOK
<1> QED BY <1>1, <1>2, <1>3, <1>4 DEF WindowsInv, WindowsKnowTheSession, Running, NoInfo

(* Steps after which no open socket is left but those that were, and every *)
(* record and every view is what it was.                                   *)
LEMMA FewerWindows ==
  ASSUME Inv, WindowsInv, UNCHANGED <<info, view>>,
         created \subseteq created', listed' \subseteq listed,
         \A s \in created' \ created : s \in Sids /\ info[s] = NoInfo,
         \A c \in Clients : sock'[c].st = "open" => sock'[c] = sock[c]
  PROVE  WindowsInv'
<1> TypeOK
  BY DEF Inv
<1>1. ClientsUpToDate'
  BY DEF WindowsInv, WindowsKnowTheSession, ClientsUpToDate, ClientsOf, Wire
<1>2. NewsIsConsistent'
  BY DEF WindowsInv, WindowsKnowTheSession, NewsIsConsistent, NoInfo
<1> QED BY <1>1, <1>2 DEF WindowsInv, WindowsKnowTheSession

LEMMA AttachWindows ==
  ASSUME Inv, WindowsInv, NEW c \in Clients, Attach(c)
  PROVE  WindowsInv'
<1> TypeOK
  BY DEF Inv
<1> DEFINE s == sock[c].sid
<1>1. CASE s \in listed
  <2>1. /\ sock' = [sock EXCEPT ![c].st = "open"] /\ UNCHANGED <<created, listed, info>>
        /\ view' = [view EXCEPT ![c] = [info |-> Wire(info[s]), attention |-> info[s].attention,
                                        exit |-> info[s].status = "exited"]]
    BY <1>1 DEF Attach
  <2>2. sock'[c].sid = s /\ \A b \in Clients \ {c} : sock'[b] = sock[b] /\ view'[b] = view[b]
    BY <2>1 DEF TypeOK, Socket
  <2>3. ClientsUpToDate'
    <3> SUFFICES ASSUME NEW t \in listed, NEW b \in Clients, sock'[b].st = "open", sock'[b].sid = t
                 PROVE  /\ view'[b].info = Wire(info[t])
                        /\ view'[b].exit <=> info[t].status = "exited"
                        /\ info[t].attention => view'[b].attention
      BY <2>1 DEF ClientsUpToDate, Wire, ClientsOf
    <3>1. CASE b = c
      BY <3>1, <2>1, <2>2 DEF TypeOK
    <3>2. CASE b # c
      BY <3>2, <2>2 DEF WindowsInv, WindowsKnowTheSession, ClientsUpToDate, ClientsOf
    <3> QED BY <3>1, <3>2
  <2>4. NewsIsConsistent'
    BY <2>1 DEF WindowsInv, WindowsKnowTheSession, NewsIsConsistent
  <2> QED BY <1>1, <2>1, <2>2, <2>3, <2>4 DEF WindowsInv, WindowsKnowTheSession, TypeOK
<1>2. CASE s \notin listed
  <2>1. \A b \in Clients : sock'[b].st = "open" => sock'[b] = sock[b]
    BY <1>2 DEF Attach, TypeOK, Socket
  <2> QED BY <1>2, <2>1, FewerWindows DEF Attach
<1> QED BY <1>1, <1>2

LEMMA ClientClosesWindows ==
  ASSUME Inv, WindowsInv, NEW c \in Clients, ClientCloses(c)
  PROVE  WindowsInv'
<1> TypeOK
  BY DEF Inv
<1>1. /\ sock'[c].st = "idle" /\ UNCHANGED <<created, listed, info>>
      /\ \A b \in Clients \ {c} : sock'[b] = sock[b] /\ view'[b] = view[b]
  BY DEF ClientCloses, TypeOK, IdleSocket
<1>2. ClientsUpToDate'
  BY <1>1 DEF WindowsInv, WindowsKnowTheSession, ClientsUpToDate, ClientsOf, Wire
<1>3. NewsIsConsistent'
  BY <1>1 DEF WindowsInv, WindowsKnowTheSession, NewsIsConsistent
<1> QED BY <1>1, <1>2, <1>3 DEF WindowsInv, WindowsKnowTheSession

LEMMA ShutdownWindows ==
  ASSUME Inv, WindowsInv, Shutdown
  PROVE  WindowsInv'
<1>1. listed' = {} /\ UNCHANGED <<created, info>> /\ \A c \in Clients : sock'[c].st = "idle"
  BY DEF Shutdown, IdleSocket
<1>2. ClientsUpToDate' /\ NewsIsConsistent'
  BY <1>1 DEF WindowsInv, WindowsKnowTheSession, ClientsUpToDate, NewsIsConsistent
<1> QED BY <1>1, <1>2 DEF WindowsInv, WindowsKnowTheSession

(* The windows are told in every reachable state.                          *)
LEMMA InitWindows == Init => WindowsInv
<1> SUFFICES ASSUME Init PROVE WindowsInv
  OBVIOUS
<1> QED BY DEF Init, WindowsInv, WindowsKnowTheSession, ClientsUpToDate, NewsIsConsistent,
               IdleSocket, NoInfo

LEMMA NextWindows == Inv /\ WindowsInv /\ [Next]_vars => WindowsInv'
<1> SUFFICES ASSUME Inv, WindowsInv, [Next]_vars PROVE WindowsInv'
  OBVIOUS
<1> TypeOK /\ UnspawnedIsBlank
  BY DEF Inv
<1>1. ASSUME NEW s \in Sids, LaunchStep(s) PROVE WindowsInv'
  <2>1. CASE \E sl \in BOOLEAN : CreateFails(s, sl)
    BY <2>1, FewerWindows DEF CreateFails, UnspawnedIsBlank, Blank
  <2> QED BY <1>1, <2>1, LaunchKeysAreKeys, CreateWindows DEF LaunchStep
<1>2. ASSUME NEW s \in Sids, Destroy(s) PROVE WindowsInv'
  <2>1. \A c \in Clients : sock'[c].st = "open" => sock'[c] = sock[c]
    BY <1>2 DEF Destroy, TypeOK, Socket
  <2> QED BY <1>2, <2>1, FewerWindows DEF Destroy
<1>3. ASSUME NEW s \in Sids, NEW c \in Clients, Upgrade(c, s) PROVE WindowsInv'
  <2>1. \A b \in Clients : sock'[b].st = "open" => sock'[b] = sock[b]
    BY <1>3 DEF Upgrade, TypeOK, Socket
  <2> QED BY <1>3, <2>1, FewerWindows DEF Upgrade
<1>4. ASSUME NEW s \in Sids, BrowserStep(s) PROVE WindowsInv'
  BY <1>4, <1>2, <1>3, MarkSeenWindows DEF BrowserStep
<1>5. ASSUME UNCHANGED <<created, listed, info, sock, view>> PROVE WindowsInv'
  BY <1>5, FewerWindows
<1>6. ASSUME NEW s \in Sids, EngineStep(s) PROVE WindowsInv'
  <2>1. CASE \/ WorkerForks(s) \/ TermFires(s) \/ KillFires(s)
             \/ \E p \in {"leader", "worker"} : ProcessEnds(s, p)
    BY <2>1, <1>5 DEF WorkerForks, TermFires, KillFires, ProcessEnds
  <2> QED BY <1>6, <2>1, HandleOutputWindows, OnExitWindows, TelemetryWindows, SetReportWindows
          DEF EngineStep
<1>7. ASSUME NEW c \in Clients, SocketStep(c) PROVE WindowsInv'
  BY <1>7, AttachWindows, ClientClosesWindows DEF SocketStep
<1>8. CASE UNCHANGED vars
  BY <1>8, <1>5 DEF vars
<1> QED BY <1>1, <1>4, <1>6, <1>7, <1>8, ShutdownWindows DEF Next

(* What an attached window was last told of a session is what the session  *)
(* is, for any number of windows that come and go in any order.            *)
THEOREM WindowsAreTold == Spec => []WindowsKnowTheSession
<1>1. Spec => []WindowsInv
  BY InitWindows, InitInv, NextWindows, Safety, PTL DEF Spec
<1>2. WindowsInv => WindowsKnowTheSession
  BY DEF WindowsInv
<1> QED BY <1>1, <1>2, PTL
=============================================================================
