---------------------------- MODULE ReleaseCheck ----------------------------
(***************************************************************************)
(* The periodic release check of server/update-release.ts: one request to  *)
(* GitHub at a time, shared by the timer and by POST /api/update/check,    *)
(* conditional on the ETag of the last answer, whose release is kept in    *)
(* memory and in update-check.json for the next process, which may run     *)
(* another version.                                                        *)
(***************************************************************************)
EXTENDS Naturals

CONSTANT Versions   \* of releases and of backends
ASSUME VersionsAreOrdered == Versions \subseteq Nat \ {0}

VARIABLES
  pub,        \* what releases/latest answers with
  mine,       \* the version of the running backend, 0 for none
  etag,       \* etag
  latest,     \* latest, 0 for undefined
  asking,     \* inFlightRun: whether a request is out
  sent,       \* its If-None-Match
  timer,      \* whether the timer is armed
  started,    \* start() was called
  stopped,    \* stopped
  window,     \* now() < notBeforeMs
  cache       \* update-check.json

vars == <<pub, mine, etag, latest, asking, sent, timer, started, stopped, window, cache>>
memory == <<mine, started, stopped>>

(* A payload: its tag, and whether it passes every other gate. An ETag     *)
(* stands for the payload it validates.                                    *)
Payloads == [ver : Versions, ok : BOOLEAN]
NoTag == [ver |-> 0, ok |-> FALSE]
Tags == Payloads \cup {NoTag}

(* Mutant of Gated: the verdict "newer than what runs" is kept instead.    *)
GatedVerdict(p) == IF p.ok /\ p.ver > mine THEN p.ver ELSE 0

(* gateLatestRelease, without a look at the running version.               *)
Gated(p) == IF p.ok THEN p.ver ELSE 0

(* offer: derived at every use.                                            *)
Offer == IF latest > mine THEN latest ELSE 0

NoCache == [etag |-> NoTag, latest |-> 0]

(* Mutant of Persist: the new validator is kept beside the release of the  *)
(* old one.                                                                *)
PersistOldRelease(tag, l) ==
  cache' \in {cache, IF tag = NoTag THEN NoCache ELSE [cache EXCEPT !.etag = tag]}

(* persist: write the pair, or remove the file when there is no ETag; both *)
(* can fail, and are only logged.                                          *)
Persist(tag, l) ==
  cache' \in {cache, IF tag = NoTag THEN NoCache ELSE [etag |-> tag, latest |-> l]}

(* Mutant of Arm: no timer is armed in the window of a rate limit.         *)
ArmUnlessLimited == timer' = (~stopped /\ ~window)

(* arm: every run ends with it, unless the checker is stopped.             *)
Arm == timer' = ~stopped

(* createReleaseChecker: the file is adopted before the first request.     *)
Boot(v) ==
  /\ mine = 0 /\ mine' = v
  /\ etag' = cache.etag /\ latest' = cache.latest
  /\ UNCHANGED <<pub, asking, sent, timer, started, stopped, window, cache>>

(* start(), from the `listening' handler.                                  *)
Start ==
  /\ mine # 0 /\ ~started /\ ~stopped /\ started' = TRUE /\ timer' = TRUE
  /\ UNCHANGED <<pub, mine, etag, latest, asking, sent, stopped, window, cache>>

(* The window of a rate limit is respected.                                *)
MayAsk == ~window

(* runShared: a run in flight is joined. A new one sends its request, or   *)
(* waits out the window of a rate limit.                                   *)
RunShared(armed) ==
  CASE asking -> timer' = armed /\ UNCHANGED <<asking, sent>>
    [] ~asking /\ MayAsk -> asking' = TRUE /\ sent' = etag /\ timer' = armed
    [] OTHER -> Arm /\ UNCHANGED <<asking, sent>>

TimerFires ==
  /\ timer /\ RunShared(FALSE)
  /\ UNCHANGED <<pub, memory, etag, latest, window, cache>>

(* POST /api/update/check.                                                 *)
CheckNow ==
  /\ started /\ RunShared(timer)
  /\ UNCHANGED <<pub, memory, etag, latest, window, cache>>

(* No answer, an error status, a body that is too long or no JSON.         *)
AnswerFails ==
  /\ asking /\ asking' = FALSE /\ Arm
  /\ UNCHANGED <<pub, memory, etag, latest, sent, window, cache>>

(* 304: what we know is what is published.                                 *)
AnswerNotModified ==
  /\ asking /\ sent # NoTag /\ sent = pub
  /\ asking' = FALSE /\ Arm
  /\ Persist(etag, latest)
  /\ UNCHANGED <<pub, memory, etag, latest, sent, window>>

(* 403 or 429: nothing is asked before the window ends.                    *)
AnswerLimited ==
  /\ asking /\ asking' = FALSE /\ window' = TRUE /\ Arm
  /\ UNCHANGED <<pub, memory, etag, latest, sent, cache>>

(* 200, with an ETag that has the shape of one or not.                     *)
AnswerNew(valid) ==
  /\ asking /\ asking' = FALSE /\ Arm
  /\ etag' = IF valid THEN pub ELSE NoTag
  /\ latest' = Gated(pub)
  /\ Persist(etag', latest')
  /\ UNCHANGED <<pub, memory, sent, window>>

WindowPasses ==
  /\ window /\ window' = FALSE
  /\ UNCHANGED <<pub, memory, etag, latest, asking, sent, timer, cache>>

Publish(p) ==
  /\ pub' = p
  /\ UNCHANGED <<memory, etag, latest, asking, sent, timer, window, cache>>

(* stop(): a request that is out is not called back.                       *)
Stop ==
  /\ mine # 0 /\ ~stopped /\ stopped' = TRUE /\ timer' = FALSE
  /\ UNCHANGED <<pub, mine, etag, latest, asking, sent, started, window, cache>>

ProcessEnds ==
  /\ mine # 0 /\ mine' = 0
  /\ etag' = NoTag /\ latest' = 0 /\ sent' = NoTag
  /\ asking' = FALSE /\ timer' = FALSE /\ started' = FALSE /\ stopped' = FALSE /\ window' = FALSE
  /\ UNCHANGED <<pub, cache>>

Init ==
  /\ pub \in Payloads /\ mine = 0 /\ etag = NoTag /\ latest = 0 /\ sent = NoTag
  /\ asking = FALSE /\ timer = FALSE /\ started = FALSE /\ stopped = FALSE /\ window = FALSE
  /\ cache = NoCache

Answers == AnswerNotModified \/ (\E valid \in BOOLEAN : AnswerNew(valid))

Next ==
  \/ \E v \in Versions : Boot(v)
  \/ Start \/ TimerFires \/ CheckNow
  \/ AnswerFails \/ AnswerLimited \/ Answers \/ WindowPasses
  \/ \E p \in Payloads : Publish(p)
  \/ Stop \/ ProcessEnds

Spec == Init /\ [][Next]_vars

(* The event loop runs the timer, and the clock passes a window; a server  *)
(* that is asked for ever answers in the end.                              *)
FairSpec == Spec /\ WF_vars(TimerFires) /\ WF_vars(WindowPasses) /\ SF_vars(Answers)

-----------------------------------------------------------------------------
(* Every variable has its type.                                            *)
TypeOK ==
  /\ pub \in Payloads /\ mine \in Versions \cup {0}
  /\ etag \in Tags /\ sent \in Tags /\ latest \in Versions \cup {0}
  /\ asking \in BOOLEAN /\ timer \in BOOLEAN /\ window \in BOOLEAN
  /\ started \in BOOLEAN /\ stopped \in BOOLEAN
  /\ cache \in {NoCache} \cup [etag : Payloads, latest : Versions \cup {0}]

(* The ETag that is sent, in memory or in the file, is the one of the      *)
(* payload the kept release was read from: a 304 never confirms a release  *)
(* it does not speak of, whatever failed to be written and whichever       *)
(* version wrote it.                                                       *)
PairsAgree ==
  /\ etag # NoTag => latest = Gated(etag)
  /\ cache.etag # NoTag => cache.latest = Gated(cache.etag)

(* A started checker always has a next run: the timer is armed or a        *)
(* request is out that will arm it, after every kind of answer.            *)
ScheduleGoesOn == started /\ ~stopped => timer \/ asking

(* In the window of a rate limit nothing is asked, by the button either.   *)
WindowRespected == asking => ~window

(* A backend that keeps running under an unchanged release comes to offer  *)
(* it if it is newer, and nothing if not: after a downgrade too.           *)
OfferConverges ==
  \A p \in Payloads, v \in Versions :
    <>[](pub = p /\ mine = v /\ started /\ ~stopped)
      => <>[](Offer = IF p.ok /\ p.ver > v THEN p.ver ELSE 0)
=============================================================================
