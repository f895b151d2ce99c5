----------------------------- MODULE SessionApi -----------------------------
(***************************************************************************)
(* The launch and history routes of server/api-sessions.ts over the session*)
(* manager.  POST /api/sessions decides and launches in one go, after its  *)
(* body has arrived; POST /api/history/:id/resume reads the history entry  *)
(* BEFORE it awaits the body and decides on that copy afterwards.  Any     *)
(* other handler can run in between.                                       *)
(***************************************************************************)
EXTENDS Sessions

CONSTANTS
  Requests,  \* resume requests that can be in flight at once
  NoKey      \* no conversation

ASSUME ApiAssumption == NoKey \notin Keys

VARIABLES
  req,       \* each resume request: the entry copied before the await
  conv,      \* the conversation a session's argv names (--resume/--session-id)
  born       \* its place in the order of launches

apiVars == <<vars, req, conv, born>>

NoRequest == [key |-> NoKey, live |-> FALSE]
Request == [key : Keys \cup {NoKey}, live : BOOLEAN]

(* resumeSpawn and planConversation agree on the conversation: the entry's *)
(* key is what the new process is told to write to.                        *)
Launch(s, key) ==
  /\ \/ \E sl \in BOOLEAN : Create(s, key, sl)
     \/ \E sl \in BOOLEAN : CreateFails(s, sl)
  /\ conv' = IF s \in listed' THEN [conv EXCEPT ![s] = key] ELSE conv
  /\ born' = IF s \in listed' THEN [born EXCEPT ![s] = clock] ELSE born

(* POST /api/sessions: an adopted conversation whose entry is live is      *)
(* refused with 409; the check and the launch share one turn.              *)
PostSession(s, key) ==
  /\ key = s \/ hist[key].ended # "live"
  /\ Launch(s, key)
  /\ UNCHANGED req

(* POST /api/history/:id/resume up to the await: 404 when unknown.         *)
ResumeBegins(r, key) ==
  /\ up = "up" /\ req[r] = NoRequest /\ key \in Stored(hist)
  /\ req' = [req EXCEPT ![r] = [key |-> key, live |-> hist[key].ended = "live"]]
  /\ UNCHANGED <<vars, conv, born>>

(* ... and after it: the copy says live, 409; otherwise launch its key.    *)
ResumeEnds(r, s) ==
  /\ up = "up" /\ req[r] # NoRequest
  /\ req' = [req EXCEPT ![r] = NoRequest]
  /\ IF req[r].live THEN UNCHANGED <<vars, conv, born>> ELSE Launch(s, req[r].key)

(* The body never arrives, or its dimensions are refused with 400.         *)
ResumeAborts(r) ==
  /\ req[r] # NoRequest
  /\ req' = [req EXCEPT ![r] = NoRequest]
  /\ UNCHANGED <<vars, conv, born>>

(* DELETE /api/history/:id (409 when live), DELETE /api/history, and the   *)
(* prune GET /api/history starts with: which transcripts are provably      *)
(* absent is up to Claude Code.                                            *)
ForgetEntries(gone) ==
  /\ up = "up"
  /\ hist' = Forget(hist, gone)
  /\ UNCHANGED <<up, clock, created, listed, info, ptys, pid, lastPid, procs,
                 killTimer, escalating, settings, tracked, sock, view, req, conv, born>>

ApiInit ==
  /\ Init
  /\ req = [r \in Requests |-> NoRequest]
  /\ conv = [s \in Sids |-> NoKey]
  /\ born = [s \in Sids |-> 0]

ApiNext ==
  \/ \E s \in Sids, key \in Keys : key \in LaunchKeys(s) /\ PostSession(s, key)
  \/ \E r \in Requests, key \in Keys : ResumeBegins(r, key)
  \/ \E r \in Requests, s \in Sids : ResumeEnds(r, s)
  \/ \E r \in Requests : ResumeAborts(r)
  \/ \E gone \in SUBSET Keys : ForgetEntries(gone)
  \/ /\ \/ \E s \in Sids : BrowserStep(s) \/ EngineStep(s)
        \/ \E c \in Clients : SocketStep(c)
        \/ Shutdown
     /\ UNCHANGED <<req, conv, born>>

ApiSpec == ApiInit /\ [][ApiNext]_apiVars
FairApiSpec == ApiSpec /\ LadderFairness
-----------------------------------------------------------------------------
ApiTypeOK ==
  /\ TypeOK
  /\ req \in [Requests -> Request]
  /\ conv \in [Sids -> Keys \cup {NoKey}]
  /\ born \in [Sids -> Nat]

(* A running session stays in the history as live: it cannot be forgotten, *)
(* pruned, pushed out by the bound or stamped with an end, unless a newer  *)
(* launch on its conversation took the entry over.                         *)
LatestLaunchIsRemembered ==
  \A s \in ptys :
    LET e == hist[conv[s]] IN
    \/ e.sid = s /\ e.ended = "live"
    \/ \E t \in created : conv[t] = conv[s] /\ born[t] > born[s]

(* api-sessions.ts: a launch on a conversation must be refused while that  *)
(* conversation is still running, as POST /api/history/:id/resume refuses. *)
OneSessionPerConversation ==
  \A s, t \in ptys : conv[s] = conv[t] => s = t

(* api-sessions.ts: two claude processes on one transcript corrupt it.     *)
OneProcessPerConversation ==
  \A s, t \in created :
    "leader" \in procs[s] /\ "leader" \in procs[t] /\ conv[s] = conv[t] => s = t
=============================================================================
