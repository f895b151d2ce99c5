------------------------------- MODULE Github -------------------------------
(***************************************************************************)
(* The connection to GitHub (server/github.ts): one credential, come by    *)
(* the device flow or pasted, kept in memory and, mostly, in github.json.  *)
(* Every request to GitHub is an await, and other requests of the browser  *)
(* are handled meanwhile. The token that device code c gives is c itself;  *)
(* a pasted one is negative.                                               *)
(***************************************************************************)
EXTENDS Integers, FiniteSets

CONSTANTS Pasted,      \* the tokens a user may paste
          MaxGestures, \* bound: what the user asks for
          MaxPolls,    \* MAX_POLLS, 300 in the code
          MaxRestarts  \* bound: backends that are replaced

VARIABLES
  state,     \* "disconnected", "connecting", "connected"
  token,     \* #token
  device,    \* #device: the code that is shown, Nothing without one
  expired,   \* its minutes are over
  gen, polls,\* #gen and #pollCount
  timer,     \* the generation #pollTimer polls for, Nothing when it is not set
  persisted, \* #persisted
  file,      \* github.json: a token, Nothing, or Refused
  flights,   \* requests to GitHub under way
  revoked,   \* tokens GitHub answers 401
  codes, gestures, restarts

connection == <<state, token, device, gen, polls, timer, persisted, file>>
github == <<expired, revoked, codes>>
vars == <<connection, github, flights, gestures, restarts>>

Nothing == 0
Refused == -1000
Tokens == Pasted \cup 1..codes

(* What a user pastes is neither of these, nor what a flow can give.       *)
TokensApart == Pasted \subseteq {t \in Int : t < 0} \ {Refused} /\ MaxPolls \in Nat

GithubTypeOK ==
  /\ state \in {"disconnected", "connecting", "connected"}
  /\ token \in Tokens \cup {Nothing} /\ file \in Tokens \cup {Nothing, Refused}
  /\ (device # Nothing) = (state = "connecting") /\ (token # Nothing) = (state = "connected")

(* #load, at the start of a backend.                                       *)
Loads == /\ state' = IF file \in Tokens THEN "connected" ELSE "disconnected"
         /\ token' = IF file \in Tokens THEN file ELSE Nothing
         /\ persisted' = (file \in Tokens)
         /\ device' = Nothing /\ gen' = 0 /\ polls' = 0 /\ timer' = Nothing /\ UNCHANGED file
Init ==
  /\ file \in Pasted \cup {Nothing, Refused}
  /\ state = (IF file \in Pasted THEN "connected" ELSE "disconnected")
  /\ token = (IF file \in Pasted THEN file ELSE Nothing)
  /\ persisted = (file \in Pasted)
  /\ device = Nothing /\ gen = 0 /\ polls = 0 /\ timer = Nothing
  /\ expired = FALSE /\ revoked = {} /\ flights = {} /\ codes = 0 /\ gestures = 0 /\ restarts = 0

-----------------------------------------------------------------------------
Flight(op, t) == [op |-> op, token |-> t, gen |-> gen, remember |-> FALSE]
Flying(op) == {f \in flights : f.op = op}
Current(f) == f.gen = gen /\ state = "connecting"
Gesture == gestures < MaxGestures /\ gestures' = gestures + 1
Sends(f) == f \notin flights /\ flights' = flights \cup {f}
Returns(f) == flights' = flights \ {f}

(* #persist; a refused file is set aside first, and a failed write leaves  *)
(* the file that was there.                                                *)
Persists(t, written) ==
  file' = IF written THEN t ELSE IF file = Refused THEN Nothing ELSE file
(* #toDisconnected, with #removeStore.                                     *)
ToDisconnected ==
  /\ state' = "disconnected" /\ token' = Nothing /\ device' = Nothing /\ timer' = Nothing
  /\ persisted' = FALSE /\ file' = Nothing
  /\ UNCHANGED polls
Rest == UNCHANGED <<github, gestures, restarts>>

-----------------------------------------------------------------------------
(* connectWithToken: GET /user and the probe of the repositories, and the  *)
(* commit when GitHub takes the token in both.                             *)
Pastes(t, remember) ==
  /\ Gesture /\ Sends([Flight("paste", t) EXCEPT !.remember = remember, !.gen = 0])
  /\ UNCHANGED <<connection, github, restarts>>
PasteIsTaken == \E f \in Flying("paste") : \E written \in BOOLEAN :
  /\ f.token \notin revoked /\ Returns(f)
  /\ gen' = gen + 1 /\ polls' = 0 /\ timer' = Nothing /\ device' = Nothing
  /\ token' = f.token /\ state' = "connected"
  /\ IF f.remember THEN Persists(f.token, written) /\ persisted' = written
     ELSE file' = Nothing /\ persisted' = FALSE
  /\ Rest
PasteFails == \E f \in Flying("paste") :
  /\ Returns(f) /\ UNCHANGED connection /\ Rest

(* startDeviceFlow: a code that is shown and not over is shown again. The  *)
(* store of a credential that is dropped here is left where it is.         *)
AsksForCode ==
  /\ Gesture /\ ~(state = "connecting" /\ ~expired)
  /\ Sends([Flight("code", Nothing) EXCEPT !.gen = 0])
  /\ UNCHANGED <<connection, github, restarts>>
CodeComes == \E f \in Flying("code") :
  /\ Returns(f)
  /\ codes' = codes + 1 /\ expired' = FALSE
  /\ gen' = gen + 1 /\ polls' = 0 /\ timer' = gen + 1
  /\ token' = Nothing /\ device' = codes + 1 /\ state' = "connecting"
  /\ UNCHANGED <<persisted, file, revoked, gestures, restarts>>
CodeFails == \E f \in Flying("code") :
  /\ Returns(f) /\ UNCHANGED connection /\ Rest

-----------------------------------------------------------------------------
(* #poll: the timer of a generation that is over finds nothing to do.      *)
Sleeps == UNCHANGED <<state, token, device, gen, persisted, file>>
AsksGithub == timer' = Nothing /\ Sends(Flight("poll", device)) /\ Sleeps
(* Mutant of Polls: the polls are not counted.                             *)
PollsUncounted ==
  /\ timer # Nothing
  /\ IF timer # gen \/ state # "connecting" THEN timer' = Nothing /\ Sleeps /\ UNCHANGED <<polls, flights>>
     ELSE IF expired THEN ToDisconnected /\ UNCHANGED <<gen, flights>>
     ELSE AsksGithub /\ UNCHANGED polls
  /\ Rest
Polls ==
  /\ timer # Nothing
  /\ IF timer # gen \/ state # "connecting" THEN timer' = Nothing /\ Sleeps /\ UNCHANGED <<polls, flights>>
     ELSE IF expired \/ polls = MaxPolls THEN ToDisconnected /\ UNCHANGED <<gen, flights>>
     ELSE AsksGithub /\ polls' = polls + 1
  /\ Rest
Schedules(g) == timer' = g /\ Sleeps /\ UNCHANGED polls
(* Mutant of PollGoesOn: a poll that got no answer is not repeated.        *)
PollGoesOnAnswered == \E f \in Flying("poll") : \E answered \in BOOLEAN :
  /\ Returns(f)
  /\ IF Current(f) /\ answered THEN Schedules(f.gen) ELSE UNCHANGED connection
  /\ Rest
(* No answer, "authorization_pending" or "slow_down".                      *)
PollGoesOn == \E f \in Flying("poll") :
  /\ Returns(f)
  /\ IF Current(f) THEN Schedules(f.gen) ELSE UNCHANGED connection
  /\ Rest
PollEndsFlow == \E f \in Flying("poll") :
  /\ Returns(f)
  /\ IF Current(f) THEN ToDisconnected /\ UNCHANGED gen ELSE UNCHANGED connection
  /\ Rest
PollIsGranted == \E f \in Flying("poll") :
  /\ f.token \notin revoked
  /\ flights' = (flights \ {f}) \cup (IF Current(f) THEN {[f EXCEPT !.op = "user"]} ELSE {})
  /\ UNCHANGED connection /\ Rest
(* #onToken, after GET /user came back or did not. Mutant: the generation  *)
(* is not looked at again.                                                 *)
Connects(f, written) ==
  /\ timer' = Nothing /\ token' = f.token /\ device' = Nothing /\ state' = "connected"
  /\ Persists(f.token, written) /\ persisted' = written
  /\ UNCHANGED <<gen, polls>>
OnTokenAny == \E f \in Flying("user") : \E written \in BOOLEAN :
  /\ Returns(f) /\ Connects(f, written) /\ Rest
OnToken == \E f \in Flying("user") : \E written \in BOOLEAN :
  /\ Returns(f)
  /\ IF f.gen = gen THEN Connects(f, written) ELSE UNCHANGED connection
  /\ Rest

-----------------------------------------------------------------------------
(* listRepos and createRepo: a 401 drops the connection. Mutant of         *)
(* Disconnects: the store outlives the connection.                         *)
Uses ==
  /\ Gesture /\ state = "connected"
  /\ Sends([Flight("use", token) EXCEPT !.gen = 0])
  /\ UNCHANGED <<connection, github, restarts>>
UseReturns == \E f \in Flying("use") :
  /\ Returns(f)
  /\ IF f.token \in revoked THEN gen' = gen + 1 /\ ToDisconnected ELSE UNCHANGED connection
  /\ Rest
DisconnectsInMemory ==
  /\ Gesture /\ gen' = gen + 1
  /\ state' = "disconnected" /\ token' = Nothing /\ device' = Nothing /\ timer' = Nothing /\ persisted' = FALSE
  /\ UNCHANGED <<file, polls, flights, github, restarts>>
Disconnects ==
  /\ Gesture /\ gen' = gen + 1 /\ ToDisconnected
  /\ UNCHANGED <<flights, github, restarts>>

-----------------------------------------------------------------------------
(* GitHub: the minutes of the code that is shown pass, a token is revoked. *)
Expires ==
  /\ state = "connecting" /\ ~expired /\ expired' = TRUE
  /\ UNCHANGED <<connection, revoked, codes, flights, gestures, restarts>>
Revokes(t) ==
  /\ t \notin revoked /\ revoked' = revoked \cup {t}
  /\ UNCHANGED <<connection, expired, codes, flights, gestures, restarts>>
(* Another backend takes over: requests under way are lost.                *)
Restarts ==
  /\ restarts < MaxRestarts /\ restarts' = restarts + 1
  /\ Loads /\ flights' = {}
  /\ UNCHANGED <<github, gestures>>

GithubNext ==
  \/ \E t \in Pasted, remember \in BOOLEAN : Pastes(t, remember)
  \/ PasteIsTaken \/ PasteFails \/ AsksForCode \/ CodeComes \/ CodeFails
  \/ Polls \/ PollGoesOn \/ PollEndsFlow \/ PollIsGranted \/ OnToken
  \/ Uses \/ UseReturns \/ Disconnects
  \/ Expires \/ \E t \in Tokens : Revokes(t)
  \/ Restarts

(* The timer of the poll fires and a request to GitHub ends, in failure at *)
(* the latest with its timeout.                                            *)
GithubFairness == WF_vars(Polls) /\ WF_vars(PollGoesOn \/ PollEndsFlow \/ PollIsGranted) /\ WF_vars(OnToken)

GithubSpec == Init /\ [][GithubNext]_vars /\ GithubFairness

-----------------------------------------------------------------------------
(* A flow that is shown is polled for, by one poll and no more: the timer  *)
(* or one request of its generation. A flow that is over, replaced or      *)
(* beaten by a pasted token leaves no poll that could still land.          *)
OnePollPerFlow ==
  Cardinality({f \in Flying("poll") \cup Flying("user") : f.gen = gen}) + (IF timer = gen /\ gen # 0 THEN 1 ELSE 0)
    = (IF state = "connecting" THEN 1 ELSE 0)

(* A token of the device flow lands only while its code is the one shown   *)
(* (#onToken; "the two paths can never both land a credential").           *)
LandsWhileShown == [][token' # token /\ token' > 0 /\ restarts' = restarts => device = token']_vars

(* What status() tells is what the next start finds: a credential said to  *)
(* be kept is the one in github.json, and after a disconnect, a refusal or *)
(* an end of the flow there is none.                                       *)
RestartFindsWhatIsTold ==
  /\ state = "connected" /\ persisted => file = token
  /\ state = "disconnected" => file \notin Tokens

(* A flow comes to an end: connected, over, or another one (MAX_POLLS).    *)
FlowsEnd == \A c \in 1..MaxGestures : device = c ~> device # c

(* github.ts:821: "401 on a repos/create call: the credential is dead -    *)
(* drop it". What is dropped is the one GitHub refused.                    *)
DropsTheRefused ==
  [][state = "connected" /\ state' = "disconnected" =>
       token \in revoked \/ gestures' # gestures \/ restarts' # restarts]_vars
=============================================================================
