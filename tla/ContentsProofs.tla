--------------------------- MODULE ContentsProofs ---------------------------
(***************************************************************************)
(* The safety of machines of MCContents for every value of their           *)
(* constants. A machine is addressed by the name it has in MCContents.     *)
(***************************************************************************)
EXTENDS MCContents, FiniteSetTheorems, SequenceTheorems, TLAPS

-----------------------------------------------------------------------------
(***************************************************************************)
(* The GitHub tab                                                          *)
(***************************************************************************)

Conns ==
  [state : {"disconnected", "connecting", "connected", "unknown"}, who : Accounts \cup {None}, kept : BOOLEAN]
Searches == [token : Nat, reply : {"none", "list", "error"}, who : Accounts \cup {None}]
PanelPages ==
  [status : Conns, tab : BOOLEAN, timer : BOOLEAN, dropped : BOOLEAN, lost : BOOLEAN,
   repos : Accounts \cup {None}, repoState : {"idle", "loading", "loaded", "error"},
   token : Nat, shown : Nat, loads : SUBSET Searches]

(* A list that is shown answers the last search, and nothing but the       *)
(* answer to a search shows a list.                                        *)
Answering(p) == p \in PanelPages /\ (p.repoState = "loaded" => p.shown = p.token)
PanelInv == server \in Conns /\ Answering(page)

LEMMA StatusesAreConns ==
  /\ Account!Statuses \subseteq Conns /\ Account!Off \in Conns /\ Account!Connecting \in Conns
  /\ Account!Unknown \in Conns
  /\ \A a \in Accounts, k \in BOOLEAN : Account!On(a, k) \in Conns
<1>1. Account!Off \in Conns
  BY DEF Account!Off, Conns
<1>2. Account!Connecting \in Conns /\ Account!Unknown \in Conns
  BY <1>1 DEF Account!Connecting, Account!Unknown, Conns
<1>3. \A a \in Accounts, k \in BOOLEAN : Account!On(a, k) \in Conns
  BY DEF Account!On, Conns
<1> QED BY <1>1, <1>2, <1>3 DEF Account!Statuses

(* What github-state.ts does to a page.                                    *)
LEMMA PageFunctions ==
  ASSUME NEW p, Answering(p)
  PROVE  /\ Answering(Account!syncTimer(p)) /\ Answering(Account!loadRepos(p))
         /\ \A next \in Conns : Answering(Account!applyStatus(p, next))
<1>1. \A q : Answering(q) => Answering(Account!syncTimer(q))
  <2> SUFFICES ASSUME NEW q, Answering(q) PROVE Answering(Account!syncTimer(q))
    OBVIOUS
  <2>1. Account!pollIntervalMs(q) \in BOOLEAN
    BY DEF Account!pollIntervalMs, Answering, PanelPages
  <2> QED BY <2>1 DEF Account!syncTimer, Answering, PanelPages
<1>2. \A q : Answering(q) => Answering(Account!loadRepos(q))
  <2> SUFFICES ASSUME NEW q, Answering(q) PROVE Answering(Account!loadRepos(q))
    OBVIOUS
  <2> DEFINE s == [token |-> q.token + 1, reply |-> "none", who |-> None]
  <2>1. q.token + 1 \in Nat /\ s \in Searches
    BY DEF Answering, PanelPages, Searches
  <2>2. q.loads \cup {s} \in SUBSET Searches
    BY <2>1 DEF Answering, PanelPages
  <2>3. Account!loadRepos(q) =
          [q EXCEPT !.token = q.token + 1, !.repoState = "loading", !.loads = q.loads \cup {s}]
    BY DEF Account!loadRepos, Answering, PanelPages
  <2> HIDE DEF s
  <2> QED BY <2>1, <2>2, <2>3 DEF Answering, PanelPages
<1>3. ASSUME NEW next \in Conns PROVE Answering(Account!applyStatus(p, next))
  <2> DEFINE q == [p EXCEPT !.status = next]
             found == [q EXCEPT !.lost = FALSE]
             forgets == [q EXCEPT !.repos = None, !.repoState = "idle", !.dropped = FALSE,
                                  !.lost = ~p.dropped /\ p.status.kept]
             r == IF Account!Connects(p, next) THEN Account!loadRepos(found)
                  ELSE IF Account!Leaves(p, next) THEN forgets ELSE q
  <2>1. Answering(q)
    BY DEF Answering, PanelPages
  <2>2. Answering(found)
    BY <2>1 DEF Answering, PanelPages
  <2>3. Answering(forgets)
    <3>1. (~p.dropped /\ p.status.kept) \in BOOLEAN
      OBVIOUS
    <3>2. q \in PanelPages
      BY <2>1 DEF Answering
    <3> HIDE DEF q
    <3>3. forgets \in PanelPages /\ forgets.repoState = "idle"
      BY <3>1, <3>2 DEF PanelPages
    <3> QED BY <3>3 DEF Answering
  <2>4. Account!applyStatus(p, next) = Account!syncTimer(r)
    BY DEF Account!applyStatus
  <2> HIDE DEF q, found, forgets
  <2>5. Answering(r)
    BY <2>1, <2>2, <2>3, <1>2
  <2> QED BY <2>4, <2>5, <1>1
<1> QED BY <1>1, <1>2, <1>3

LEMMA PanelStep == ASSUME PanelInv, [Account!PanelNext]_(Account!panelVars) PROVE PanelInv'
<1> USE DEF PanelInv
<1>1. CASE UNCHANGED Account!panelVars
  BY <1>1 DEF Account!panelVars
<1>2. ASSUME NEW open \in BOOLEAN, Account!setActive(open) PROVE PanelInv'
  <2> DEFINE q == [page EXCEPT !.tab = open]
  <2>1. Answering(q)
    BY DEF Answering, PanelPages
  <2>2. Answering(Account!syncTimer(q)) /\ Answering(Account!loadRepos(Account!syncTimer(q)))
    BY <2>1, PageFunctions
  <2>3. server' = server /\ page' \in {Account!syncTimer(q), Account!loadRepos(Account!syncTimer(q))}
    BY <1>2 DEF Account!setActive
  <2> QED BY <2>2, <2>3
<1>3. CASE UNCHANGED page /\ server' \in Conns
  BY <1>3
<1>4. CASE server' = server /\ \E next \in Conns : page' = Account!applyStatus(page, next)
  BY <1>4, PageFunctions
<1>5. CASE server' = server /\ page' = Account!loadRepos(page)
  BY <1>5, PageFunctions
<1>6. CASE Account!Interval \/ Account!onConnect \/ Account!submitToken \/ Account!startClone
           \/ Account!toggleNewForm \/ Account!submitNewRepo \/ Account!CloneAnswers
  BY <1>6, <1>3 DEF Account!Interval, Account!onConnect, Account!submitToken, Account!startClone,
       Account!toggleNewForm, Account!submitNewRepo, Account!CloneAnswers, Account!HomeReturns, Account!CloneReturns
<1>7. CASE Account!World
  BY <1>7, <1>3, StatusesAreConns DEF Account!World
<1>8. CASE Account!drop
  BY <1>8 DEF Account!drop, Answering, PanelPages
<1>9. CASE Account!search
  BY <1>9, <1>5 DEF Account!search
<1>10. CASE Account!Answers
  <2>1. CASE Account!PollServed \/ Account!DeviceServed \/ Account!TokenServed \/ Account!DropServed \/ Account!CreateReturns
    BY <2>1, <1>3, StatusesAreConns DEF Account!PollServed, Account!DeviceServed, Account!TokenServed,
         Account!DropServed, Account!CreateReturns
  <2>2. CASE Account!PollReturns
    BY <2>2, <1>4, StatusesAreConns DEF Account!PollReturns, Account!Takes
  <2>3. CASE Account!DeviceReturns
    BY <2>3, <1>4, StatusesAreConns DEF Account!DeviceReturns, Account!Takes
  <2>4. CASE Account!TokenReturns
    <3> DEFINE q == [page EXCEPT !.lost = FALSE]
    <3>1. Answering(q)
      BY DEF Answering, PanelPages
    <3>2. server' = server /\ (page' = page \/ (paste \in Account!Statuses /\ page' = Account!applyStatus(q, paste)))
      BY <2>4 DEF Account!TokenReturns
    <3> HIDE DEF q
    <3> QED BY <3>1, <3>2, PageFunctions, StatusesAreConns
  <2>5. CASE Account!DropReturns
    BY <2>5 DEF Account!DropReturns, Answering, PanelPages
  <2>6. CASE Account!NewCloneReturns
    BY <2>6, <1>5 DEF Account!NewCloneReturns
  <2> QED BY <1>10, <2>1, <2>2, <2>3, <2>4, <2>5, <2>6 DEF Account!Answers
<1>11. ASSUME NEW l \in page.loads, Account!ReposServed(l) PROVE PanelInv'
  <2> DEFINE reply == [l EXCEPT !.reply = IF server.state = "connected" THEN "list" ELSE "error", !.who = server.who]
  <2>1. l \in Searches /\ server.who \in Accounts \cup {None}
    BY DEF Answering, PanelPages, Conns
  <2>2. reply \in Searches
    BY <2>1 DEF Searches
  <2>3. (page.loads \ {l}) \cup {reply} \in SUBSET Searches
    BY <2>2 DEF Answering, PanelPages
  <2>4. server' = server /\ page' = [page EXCEPT !.loads = (page.loads \ {l}) \cup {reply}]
    BY <1>11 DEF Account!ReposServed, Answering, PanelPages
  <2> HIDE DEF reply
  <2> QED BY <2>3, <2>4 DEF Answering, PanelPages
<1>12. ASSUME NEW l \in page.loads, Account!ReposReturn(l) PROVE PanelInv'
  <2> DEFINE rest == [page EXCEPT !.loads = page.loads \ {l}]
             shown == [rest EXCEPT !.repos = l.who, !.repoState = "loaded", !.shown = l.token]
             failed == [rest EXCEPT !.repoState = "error"]
  <2>1. l \in Searches
    BY DEF Answering, PanelPages
  <2>2. Answering(rest) /\ rest.token = page.token
    BY DEF Answering, PanelPages
  <2>3. server' = server /\ page' = IF ~Account!IsLatest(l) THEN rest ELSE IF l.reply = "list" THEN shown ELSE failed
    BY <1>12 DEF Account!ReposReturn, Answering, PanelPages
  <2> HIDE DEF rest
  <2>4. Account!IsLatest(l) => Answering(shown)
    BY <2>1, <2>2 DEF Answering, PanelPages, Searches, Account!IsLatest
  <2>5. Answering(failed)
    BY <2>2 DEF Answering, PanelPages
  <2> QED BY <2>2, <2>3, <2>4, <2>5
<1> QED BY <1>1, <1>2, <1>6, <1>7, <1>8, <1>9, <1>10, <1>11, <1>12 DEF Account!PanelNext, Account!LoadAnswers

(* For any accounts: the list of repositories that is shown is the answer  *)
(* to the last search, however searches, sign-ins, clones and their        *)
(* answers cross (github-state.ts).                                        *)
THEOREM SearchesAreAnswered == Account!PanelSpec => []LatestQueryWins
<1>1. Account!PanelInit => PanelInv
  <2> SUFFICES ASSUME Account!PanelInit PROVE PanelInv
    OBVIOUS
  <2>1. server \in Conns
    BY StatusesAreConns DEF Account!PanelInit
  <2>2. page = [status |-> Account!Unknown, tab |-> FALSE, timer |-> FALSE, dropped |-> FALSE, lost |-> FALSE,
                repos |-> None, repoState |-> "idle", token |-> 0, shown |-> 0, loads |-> {}]
    BY DEF Account!PanelInit
  <2> QED BY <2>1, <2>2, StatusesAreConns DEF PanelInv, Answering, PanelPages
<1>2. PanelInv => LatestQueryWins
  BY DEF PanelInv, Answering, LatestQueryWins, Account!LatestQueryWins
<1>3. ASSUME PanelInv, [Account!PanelNext]_(Account!panelVars) PROVE PanelInv'
  BY <1>3, PanelStep
<1> QED BY <1>1, <1>2, <1>3, PTL DEF Account!PanelSpec

-----------------------------------------------------------------------------
(***************************************************************************)
(* The connection to GitHub                                                *)
(***************************************************************************)

Flyings == [op : {"paste", "code", "poll", "user", "use"}, token : Int, gen : Nat, remember : BOOLEAN]

(* The requests of a flow that are of generation g.                        *)
OfFlow(fs, g) == {f \in fs : f.op \in {"poll", "user"} /\ f.gen = g}

(* What a flow has under way: the timer, or one request with its code.     *)
OneIsOut ==
  \/ timer = gen /\ OfFlow(flights, gen) = {}
  \/ timer = Connection!Nothing /\ \E f \in flights : OfFlow(flights, gen) = {f} /\ f.token = device
ConnTypes ==
  /\ state \in {"disconnected", "connecting", "connected"} /\ persisted \in BOOLEAN
  /\ gen \in Nat /\ codes \in Nat /\ device \in 0..codes /\ timer \in {Connection!Nothing, gen}
  /\ token \in Connection!Tokens \cup {Connection!Nothing}
  /\ file \in Connection!Tokens \cup {Connection!Nothing, Connection!Refused}
  /\ flights \subseteq Flyings

(* The inductive invariant: no request of a flow is of a generation to     *)
(* come, so that a new generation begins with none; and a flow that is     *)
(* over has neither a timer nor a request of its own generation.           *)
ConnInv ==
  /\ ConnTypes
  /\ \A f \in flights : f.op \in {"poll", "user"} => f.gen \in 1..gen
  /\ \A f \in flights : f.op = "paste" => f.token \in Pasted
  /\ state = "connecting" => gen > 0 /\ OneIsOut
  /\ state # "connecting" => timer = Connection!Nothing /\ OfFlow(flights, gen) = {}
  /\ Connection!RestartFindsWhatIsTold

Lands == token' # token /\ token' > 0 /\ restarts' = restarts => device = token'

LEMMA TokenFacts ==
  /\ Connection!Nothing = 0 /\ Connection!Refused = -1000
  /\ \A t \in Pasted : t \in Int /\ t < 0 /\ t # -1000
  /\ MaxPolls \in Nat
BY ContentsAssumption DEF Connection!TokensApart, Connection!Nothing, Connection!Refused

LEMMA NoTokens ==
  ASSUME codes \in Nat
  PROVE  Connection!Nothing \notin Connection!Tokens /\ Connection!Refused \notin Connection!Tokens
BY TokenFacts DEF Connection!Tokens

(* A request that knows no generation.                                     *)
LEMMA FlightFacts ==
  ASSUME gen \in Nat, NEW op \in {"code", "use"}, NEW t \in Int
  PROVE  LET g == [Connection!Flight(op, t) EXCEPT !.gen = 0] IN g \in Flyings /\ g.op = op
<1> DEFINE w == Connection!Flight(op, t)
<1>1. w \in Flyings /\ w.op = op
  BY DEF Connection!Flight, Flyings
<1> HIDE DEF w
<1>2. [w EXCEPT !.gen = 0] \in Flyings
  BY <1>1 DEF Flyings
<1> QED BY <1>1, <1>2 DEF Flyings, w

(* A request that is no flow's is sent, or comes back for nothing.         *)
LEMMA AsideStep ==
  ASSUME ConnInv, UNCHANGED <<state, token, device, gen, timer, persisted, file, codes>>,
         flights' \subseteq Flyings,
         \A f \in flights' \ flights : f.op \notin {"poll", "user"} /\ (f.op = "paste" => f.token \in Pasted),
         \A f \in flights \ flights' : f.op \notin {"poll", "user"} \/ f.gen # gen
  PROVE  ConnInv' /\ Lands
<1>1. OfFlow(flights', gen) = OfFlow(flights, gen)
  BY DEF OfFlow
<1>2. OneIsOut => OneIsOut'
  <2>1. ASSUME NEW f \in flights, OfFlow(flights, gen) = {f} PROVE f \in flights'
    BY <2>1 DEF OfFlow
  <2> QED BY <1>1, <2>1 DEF OneIsOut
<1> QED BY <1>1, <1>2 DEF ConnInv, ConnTypes, Connection!Tokens, Connection!RestartFindsWhatIsTold, Lands

(* The connection is dropped, with its store, and so is the flow's last    *)
(* request when there is one.                                              *)
LEMMA DropStep ==
  ASSUME ConnInv, Connection!ToDisconnected, codes' = codes, flights' \subseteq flights,
         \/ gen' = gen + 1
         \/ gen' = gen /\ OfFlow(flights', gen) = {}
  PROVE  ConnInv' /\ Lands
<1>1. gen' \in Nat /\ OfFlow(flights', gen') = {}
  BY DEF ConnInv, ConnTypes, OfFlow
<1>2. \A f \in flights' : f.op \in {"poll", "user"} => f.gen \in 1..gen'
  BY DEF ConnInv, ConnTypes
<1>3. /\ state' = "disconnected" /\ token' = Connection!Nothing /\ device' = Connection!Nothing
      /\ timer' = Connection!Nothing /\ persisted' = FALSE /\ file' = Connection!Nothing
  BY DEF Connection!ToDisconnected
<1>4. Connection!RestartFindsWhatIsTold'
  BY <1>3, NoTokens DEF Connection!RestartFindsWhatIsTold, Connection!Tokens, ConnInv, ConnTypes
<1>5. ConnTypes'
  <2>1. codes' \in Nat /\ device' \in 0..codes' /\ flights' \subseteq Flyings
    BY <1>3, TokenFacts DEF ConnInv, ConnTypes
  <2> QED BY <2>1, <1>1, <1>3 DEF ConnTypes
<1> QED BY <1>1, <1>2, <1>3, <1>4, <1>5, TokenFacts DEF ConnInv, Lands

(* A request of the flow that is shown comes back: it is the only one.     *)
LEMMA FlowReturns ==
  ASSUME ConnInv, NEW f \in flights, f.op \in {"poll", "user"}, f.gen = gen
  PROVE  /\ state = "connecting" /\ timer = Connection!Nothing /\ f.token = device /\ gen > 0
         /\ OfFlow(flights, gen) = {f} /\ OfFlow(flights \ {f}, gen) = {}
<1>1. f \in OfFlow(flights, gen)
  BY DEF OfFlow
<1>2. state = "connecting" /\ gen > 0 /\ OneIsOut
  BY <1>1 DEF ConnInv
<1>3. PICK g \in flights : OfFlow(flights, gen) = {g} /\ g.token = device /\ timer = Connection!Nothing
  BY <1>1, <1>2 DEF OneIsOut
<1>4. f = g
  BY <1>1, <1>3
<1> QED BY <1>2, <1>3, <1>4 DEF OfFlow

LEMMA ConnStep == ASSUME ConnInv, [Connection!GithubNext]_(Connection!vars) PROVE ConnInv' /\ Lands
<1>1. CASE UNCHANGED Connection!vars
  BY <1>1, AsideStep DEF Connection!vars, Connection!connection, Connection!github, ConnInv, ConnTypes
<1>2. ASSUME NEW t \in Pasted, NEW remember \in BOOLEAN, Connection!Pastes(t, remember) PROVE ConnInv' /\ Lands
  <2> DEFINE f == [Connection!Flight("paste", t) EXCEPT !.remember = remember, !.gen = 0]
  <2>1. f \in Flyings /\ f.op = "paste" /\ f.token = t
    <3> DEFINE w == Connection!Flight("paste", t)
    <3>1. w \in Flyings /\ w.op = "paste" /\ w.token = t
      BY TokenFacts DEF Connection!Flight, Flyings, ConnInv, ConnTypes
    <3>2. f = [w EXCEPT !.remember = remember, !.gen = 0]
      OBVIOUS
    <3> HIDE DEF w, f
    <3> QED BY <3>1, <3>2 DEF Flyings
  <2>2. flights' = flights \cup {f} /\ UNCHANGED <<state, token, device, gen, timer, persisted, file, codes>>
    BY <1>2 DEF Connection!Pastes, Connection!Sends, Connection!connection, Connection!github
  <2> HIDE DEF f
  <2> QED BY <2>1, <2>2, AsideStep DEF ConnInv, ConnTypes
<1>3. ASSUME NEW f \in Connection!Flying("paste"), NEW written \in BOOLEAN, f.token \notin revoked,
             Connection!Returns(f), gen' = gen + 1, timer' = Connection!Nothing, device' = Connection!Nothing,
             token' = f.token, state' = "connected", codes' = codes,
             IF f.remember THEN Connection!Persists(f.token, written) /\ persisted' = written
             ELSE file' = Connection!Nothing /\ persisted' = FALSE
      PROVE  ConnInv' /\ Lands
  <2>1. f \in flights /\ f \in Flyings /\ f.token \in Pasted /\ flights' = flights \ {f}
    BY <1>3 DEF Connection!Flying, Connection!Returns, ConnInv, ConnTypes
  <2>2. f.token \in Connection!Tokens /\ f.token \in Int /\ f.token < 0
    BY <2>1, TokenFacts DEF Connection!Tokens
  <2>3. /\ file' \in Connection!Tokens \cup {Connection!Nothing, Connection!Refused}
        /\ persisted' \in BOOLEAN /\ (persisted' => file' = f.token)
    BY <1>3, <2>2 DEF Connection!Persists, ConnInv, ConnTypes
  <2>4. OfFlow(flights', gen') = {} /\ gen' \in Nat
    BY <1>3, <2>1 DEF ConnInv, ConnTypes, OfFlow
  <2>5. ConnTypes'
    BY <1>3, <2>1, <2>2, <2>3, <2>4, TokenFacts DEF ConnTypes, ConnInv, Connection!Tokens
  <2>6. \A g \in flights' : /\ g.op \in {"poll", "user"} => g.gen \in 1..gen'
                            /\ g.op = "paste" => g.token \in Pasted
    BY <1>3, <2>1 DEF ConnInv, ConnTypes
  <2>7. Connection!RestartFindsWhatIsTold' /\ Lands
    BY <1>3, <2>2, <2>3 DEF Connection!RestartFindsWhatIsTold, Lands
  <2> QED BY <1>3, <2>4, <2>5, <2>6, <2>7 DEF ConnInv
<1>4. CASE Connection!PasteFails \/ Connection!CodeFails
  <2>1. PICK f \in flights :
          /\ f.op \in {"paste", "code"} /\ flights' = flights \ {f}
          /\ UNCHANGED <<state, token, device, gen, timer, persisted, file, codes>>
    BY <1>4 DEF Connection!PasteFails, Connection!CodeFails, Connection!Flying, Connection!Returns, Connection!Rest,
       Connection!connection, Connection!github
  <2> QED BY <2>1, AsideStep DEF ConnInv, ConnTypes
<1>5. CASE Connection!AsksForCode
  <2> DEFINE f == [Connection!Flight("code", Connection!Nothing) EXCEPT !.gen = 0]
  <2>1. f \in Flyings /\ f.op = "code"
    <3>1. Connection!Nothing \in Int /\ gen \in Nat /\ "code" \in {"code", "use"}
      BY TokenFacts DEF ConnInv, ConnTypes
    <3> QED BY <3>1, FlightFacts
  <2>2. flights' = flights \cup {f} /\ UNCHANGED <<state, token, device, gen, timer, persisted, file, codes>>
    BY <1>5 DEF Connection!AsksForCode, Connection!Sends, Connection!connection, Connection!github
  <2> HIDE DEF f
  <2> QED BY <2>1, <2>2, AsideStep DEF ConnInv, ConnTypes
<1>6. CASE Connection!CodeComes
  <2>1. PICK f \in flights :
          /\ flights' = flights \ {f} /\ codes' = codes + 1 /\ gen' = gen + 1 /\ timer' = gen + 1
          /\ token' = Connection!Nothing /\ device' = codes + 1 /\ state' = "connecting"
          /\ UNCHANGED <<persisted, file>>
    BY <1>6 DEF Connection!CodeComes, Connection!Flying, Connection!Returns
  <2>2. OfFlow(flights', gen') = {} /\ gen' \in Nat /\ gen' > 0 /\ timer' = gen'
    BY <2>1 DEF ConnInv, ConnTypes, OfFlow
  <2>3. Connection!Tokens \subseteq Connection!Tokens'
    BY <2>1 DEF Connection!Tokens, ConnInv, ConnTypes
  <2>4. ConnTypes'
    BY <2>1, <2>2, <2>3 DEF ConnTypes, ConnInv
  <2>5. OneIsOut'
    BY <2>2 DEF OneIsOut
  <2>6. \A g \in flights' : /\ g.op \in {"poll", "user"} => g.gen \in 1..gen'
                            /\ g.op = "paste" => g.token \in Pasted
    BY <2>1 DEF ConnInv, ConnTypes
  <2>7. Connection!RestartFindsWhatIsTold' /\ Lands
    BY <2>1, TokenFacts DEF Connection!RestartFindsWhatIsTold, Lands
  <2> QED BY <2>1, <2>2, <2>4, <2>5, <2>6, <2>7 DEF ConnInv
<1>7. CASE Connection!Polls
  <2>1. /\ timer = gen /\ timer # Connection!Nothing /\ state = "connecting" /\ gen > 0
        /\ OfFlow(flights, gen) = {} /\ codes' = codes
    BY <1>7, TokenFacts DEF Connection!Polls, ConnInv, ConnTypes, OneIsOut, Connection!Rest, Connection!github
  <2>2. CASE Connection!ToDisconnected /\ UNCHANGED <<gen, flights>>
    BY <2>1, <2>2, DropStep
  <2>3. CASE Connection!AsksGithub
    <3> DEFINE f == Connection!Flight("poll", device)
    <3>1. f \in Flyings /\ f.op = "poll" /\ f.gen = gen /\ f.token = device
      BY DEF Connection!Flight, Flyings, ConnInv, ConnTypes
    <3>2. /\ timer' = Connection!Nothing /\ flights' = flights \cup {f}
          /\ UNCHANGED <<state, token, device, gen, persisted, file, codes>>
      BY <2>1, <2>3 DEF Connection!AsksGithub, Connection!Sends, Connection!Sleeps
    <3> HIDE DEF f
    <3>3. OfFlow(flights', gen') = {f} /\ f \in flights'
      BY <2>1, <3>1, <3>2 DEF OfFlow
    <3>4. OneIsOut'
      BY <3>1, <3>2, <3>3 DEF OneIsOut
    <3>5. ConnTypes'
      BY <3>1, <3>2 DEF ConnInv, ConnTypes, Connection!Tokens
    <3>6. \A g \in flights' : /\ g.op \in {"poll", "user"} => g.gen \in 1..gen'
                              /\ g.op = "paste" => g.token \in Pasted
      BY <2>1, <3>1, <3>2 DEF ConnInv, ConnTypes
    <3> QED BY <2>1, <3>2, <3>4, <3>5, <3>6
        DEF ConnInv, Lands, Connection!RestartFindsWhatIsTold, Connection!Tokens
  <2> QED BY <1>7, <2>1, <2>2, <2>3 DEF Connection!Polls
<1>8. ASSUME NEW f \in Connection!Flying("poll"), ~Connection!Current(f), flights' = flights \ {f},
             UNCHANGED Connection!connection, codes' = codes
      PROVE  ConnInv' /\ Lands
  <2>1. f \in flights /\ f.op = "poll" /\ f.gen # gen
    BY <1>8, FlowReturns DEF Connection!Flying, Connection!Current
  <2> QED BY <1>8, <2>1, AsideStep DEF Connection!connection, ConnInv, ConnTypes
<1>9. CASE Connection!PollGoesOn
  <2>1. PICK f \in Connection!Flying("poll") :
          /\ flights' = flights \ {f} /\ codes' = codes
          /\ IF Connection!Current(f) THEN Connection!Schedules(f.gen) ELSE UNCHANGED Connection!connection
    BY <1>9 DEF Connection!PollGoesOn, Connection!Returns, Connection!Rest, Connection!github
  <2>2. CASE Connection!Current(f)
    <3>1. f \in flights /\ f.op = "poll" /\ f.gen = gen
      BY <2>2 DEF Connection!Flying, Connection!Current
    <3>2. timer' = gen /\ UNCHANGED <<state, token, device, gen, persisted, file, codes>>
      BY <2>1, <2>2, <3>1 DEF Connection!Schedules, Connection!Sleeps
    <3>3. OfFlow(flights', gen') = {} /\ state = "connecting" /\ gen > 0
      BY <2>1, <3>1, <3>2, FlowReturns
    <3>4. OneIsOut'
      BY <3>2, <3>3 DEF OneIsOut
    <3> QED BY <2>1, <3>2, <3>3, <3>4
        DEF ConnInv, ConnTypes, Lands, Connection!RestartFindsWhatIsTold, Connection!Tokens
  <2> QED BY <2>1, <2>2, <1>8
<1>10. CASE Connection!PollEndsFlow
  <2>1. PICK f \in Connection!Flying("poll") :
          /\ flights' = flights \ {f} /\ codes' = codes
          /\ IF Connection!Current(f) THEN Connection!ToDisconnected /\ UNCHANGED gen ELSE UNCHANGED Connection!connection
    BY <1>10 DEF Connection!PollEndsFlow, Connection!Returns, Connection!Rest, Connection!github
  <2>2. CASE Connection!Current(f)
    <3>1. f \in flights /\ f.op = "poll" /\ f.gen = gen
      BY <2>2 DEF Connection!Flying, Connection!Current
    <3> QED BY <2>1, <2>2, <3>1, FlowReturns, DropStep
  <2> QED BY <2>1, <2>2, <1>8
<1>11. CASE Connection!PollIsGranted
  <2>1. PICK f \in Connection!Flying("poll") :
          /\ flights' = (flights \ {f}) \cup (IF Connection!Current(f) THEN {[f EXCEPT !.op = "user"]} ELSE {})
          /\ UNCHANGED Connection!connection /\ codes' = codes
    BY <1>11 DEF Connection!PollIsGranted, Connection!Rest, Connection!github
  <2>2. CASE Connection!Current(f)
    <3> DEFINE g == [f EXCEPT !.op = "user"]
    <3>1. f \in flights /\ f \in Flyings /\ f.op = "poll" /\ f.gen = gen
      BY <2>2 DEF Connection!Flying, Connection!Current, ConnInv, ConnTypes
    <3>2. g \in Flyings /\ g.op = "user" /\ g.gen = gen /\ g.token = f.token
      BY <3>1 DEF Flyings
    <3>3. /\ flights' = (flights \ {f}) \cup {g}
          /\ UNCHANGED <<state, token, device, gen, timer, persisted, file, codes>>
      BY <2>1, <2>2 DEF Connection!connection
    <3> HIDE DEF g
    <3>4. /\ OfFlow(flights \ {f}, gen) = {} /\ state = "connecting" /\ gen > 0 /\ f.token = device
          /\ timer = Connection!Nothing
      BY <3>1, FlowReturns
    <3>5. OfFlow(flights', gen') = {g} /\ g \in flights'
      BY <3>2, <3>3, <3>4 DEF OfFlow
    <3>6. OneIsOut'
      BY <3>2, <3>3, <3>4, <3>5 DEF OneIsOut
    <3>7. \A h \in flights' : /\ h.op \in {"poll", "user"} => h.gen \in 1..gen'
                              /\ h.op = "paste" => h.token \in Pasted
      BY <3>2, <3>3, <3>4 DEF ConnInv, ConnTypes
    <3> QED BY <3>2, <3>3, <3>4, <3>6, <3>7
        DEF ConnInv, ConnTypes, Lands, Connection!RestartFindsWhatIsTold, Connection!Tokens
  <2> QED BY <2>1, <2>2, <1>8
<1>12. ASSUME NEW f \in Connection!Flying("user"), NEW written \in BOOLEAN, Connection!Returns(f), codes' = codes,
              IF f.gen = gen THEN Connection!Connects(f, written) ELSE UNCHANGED Connection!connection
       PROVE  ConnInv' /\ Lands
  <2>1. f \in flights /\ f \in Flyings /\ f.op = "user" /\ flights' = flights \ {f}
    BY <1>12 DEF Connection!Flying, Connection!Returns, ConnInv, ConnTypes
  <2>2. CASE f.gen = gen
    <3>1. OfFlow(flights', gen) = {} /\ f.token = device /\ gen > 0
      BY <2>1, <2>2, FlowReturns
    <3>2. /\ timer' = Connection!Nothing /\ token' = f.token /\ device' = Connection!Nothing
          /\ state' = "connected" /\ Connection!Persists(f.token, written) /\ persisted' = written /\ gen' = gen
      BY <1>12, <2>2 DEF Connection!Connects
    <3>3. f.token \in Connection!Tokens \cup {Connection!Nothing}
      BY <3>1, TokenFacts DEF ConnInv, ConnTypes, Connection!Tokens
    <3>4. /\ file' \in Connection!Tokens \cup {Connection!Nothing, Connection!Refused}
          /\ (persisted' => file' = f.token)
      BY <3>2, <3>3 DEF Connection!Persists, ConnInv, ConnTypes
    <3>5. ConnTypes'
      BY <1>12, <2>1, <3>2, <3>3, <3>4, TokenFacts DEF ConnInv, ConnTypes, Connection!Tokens
    <3> QED BY <2>1, <3>1, <3>2, <3>4, <3>5 DEF ConnInv, Lands, Connection!RestartFindsWhatIsTold
  <2>3. CASE f.gen # gen
    BY <1>12, <2>1, <2>3, AsideStep DEF Connection!connection, ConnInv, ConnTypes
  <2> QED BY <2>2, <2>3
<1>13. CASE Connection!Uses
  <2> DEFINE f == [Connection!Flight("use", token) EXCEPT !.gen = 0]
  <2>1. token \in Int
    BY TokenFacts DEF ConnInv, ConnTypes, Connection!Tokens
  <2>2. f \in Flyings /\ f.op = "use"
    BY <2>1, FlightFacts DEF ConnInv, ConnTypes
  <2>3. flights' = flights \cup {f} /\ UNCHANGED <<state, token, device, gen, timer, persisted, file, codes>>
    BY <1>13 DEF Connection!Uses, Connection!Sends, Connection!connection, Connection!github
  <2> HIDE DEF f
  <2> QED BY <2>2, <2>3, AsideStep DEF ConnInv, ConnTypes
<1>14. CASE Connection!UseReturns
  <2>1. PICK f \in flights :
          /\ f.op = "use" /\ flights' = flights \ {f} /\ codes' = codes
          /\ (gen' = gen + 1 /\ Connection!ToDisconnected) \/ UNCHANGED Connection!connection
    BY <1>14 DEF Connection!UseReturns, Connection!Flying, Connection!Returns, Connection!Rest, Connection!github
  <2>2. CASE gen' = gen + 1 /\ Connection!ToDisconnected
    BY <2>1, <2>2, DropStep
  <2>3. CASE UNCHANGED Connection!connection
    BY <2>1, <2>3, AsideStep DEF Connection!connection, ConnInv, ConnTypes
  <2> QED BY <2>1, <2>2, <2>3
<1>15. CASE Connection!Disconnects
  BY <1>15, DropStep DEF Connection!Disconnects, Connection!github
<1>16. CASE Connection!Expires \/ \E t \in Connection!Tokens : Connection!Revokes(t)
  BY <1>16, AsideStep DEF Connection!Expires, Connection!Revokes, Connection!connection, ConnInv, ConnTypes
<1>17. CASE Connection!Restarts
  <2>1. /\ flights' = {} /\ gen' = 0 /\ timer' = Connection!Nothing /\ device' = Connection!Nothing
        /\ state' = (IF file \in Connection!Tokens THEN "connected" ELSE "disconnected")
        /\ token' = (IF file \in Connection!Tokens THEN file ELSE Connection!Nothing)
        /\ persisted' = (file \in Connection!Tokens) /\ file' = file /\ codes' = codes /\ restarts' = restarts + 1
    BY <1>17 DEF Connection!Restarts, Connection!Loads, Connection!github
  <2>2. Connection!Tokens' = Connection!Tokens
    BY <2>1 DEF Connection!Tokens
  <2>3. ConnTypes' /\ Connection!RestartFindsWhatIsTold'
    BY <2>1, <2>2, TokenFacts DEF ConnInv, ConnTypes, Connection!RestartFindsWhatIsTold
  <2>4. ConnInv'
    BY <2>1, <2>3 DEF ConnInv, OfFlow
  <2>5. token' > 0 => restarts' # restarts
    BY <2>1, <1>17 DEF Connection!Restarts
  <2> QED BY <2>4, <2>5 DEF Lands
<1> QED
  BY <1>1, <1>2, <1>3, <1>4, <1>5, <1>6, <1>7, <1>9, <1>10, <1>11, <1>12, <1>13, <1>14, <1>15, <1>16, <1>17
  DEF Connection!GithubNext, Connection!PasteIsTaken, Connection!OnToken, Connection!Rest, Connection!github

(* For any tokens, any number of gestures, polls and restarts: a sign-in   *)
(* that is shown is polled for by one poll, what is told of the credential *)
(* is what a restart finds, and a token of a flow lands only while its     *)
(* code is the one shown (github.ts).                                      *)
THEOREM ConnectsSoundly == Connection!GithubSpec => ConnectionIsSound
<1>1. Connection!Init => ConnInv
  <2> SUFFICES ASSUME Connection!Init PROVE ConnInv
    OBVIOUS
  <2>1. file \in Connection!Tokens <=> file \in Pasted
    BY TokenFacts DEF Connection!Init, Connection!Tokens
  <2> QED BY <2>1, TokenFacts
      DEF Connection!Init, ConnInv, ConnTypes, Connection!Tokens, Connection!RestartFindsWhatIsTold, OfFlow
<1>2. ConnInv => Connection!OnePollPerFlow /\ Connection!RestartFindsWhatIsTold
  <2> SUFFICES ASSUME ConnInv PROVE Connection!OnePollPerFlow
    BY DEF ConnInv
  <2> DEFINE out == {f \in Connection!Flying("poll") \cup Connection!Flying("user") : f.gen = gen}
             ticks == IF timer = gen /\ gen # 0 THEN 1 ELSE 0
  <2>1. out = OfFlow(flights, gen)
    BY DEF OfFlow, Connection!Flying
  <2>2. Connection!Cardinality(out) + ticks = IF state = "connecting" THEN 1 ELSE 0
    <3>1. \A S : Connection!Cardinality(S) = Cardinality(S)
      BY DEF Cardinality, Connection!Cardinality, IsFiniteSet, Connection!IsFiniteSet
    <3>2. CASE state = "connecting" /\ timer = gen /\ out = {}
      BY <3>1, <3>2, FS_EmptySet DEF ConnInv
    <3>3. ASSUME NEW f \in flights, state = "connecting", timer = Connection!Nothing, out = {f}
          PROVE  Connection!Cardinality(out) + ticks = IF state = "connecting" THEN 1 ELSE 0
      <4>0. Cardinality({f}) = 1
        BY FS_Singleton
      <4>1. Cardinality(out) = 1 /\ ticks = 0 /\ state = "connecting"
        BY <3>3, <4>0, TokenFacts
      <4>2. Connection!Cardinality(out) = Cardinality(out)
        BY <3>1
      <4> HIDE DEF out, ticks
      <4> QED BY <4>1, <4>2
    <3>4. CASE state # "connecting"
      <4>1. out = {} /\ ticks = 0
        BY <2>1, <3>4, TokenFacts DEF ConnInv
      <4> QED BY <4>1, <3>1, <3>4, FS_EmptySet
    <3> QED BY <2>1, <3>2, <3>3, <3>4 DEF ConnInv, OneIsOut
  <2> QED BY <2>2 DEF Connection!OnePollPerFlow
<1>3. ASSUME ConnInv, [Connection!GithubNext]_(Connection!vars) PROVE ConnInv' /\ Lands
  BY <1>3, ConnStep
<1>4. ConnInv /\ [Connection!GithubNext]_(Connection!vars) => ConnInv' /\ [Lands]_(Connection!vars)
  BY <1>3
<1> QED BY <1>1, <1>2, <1>4, PTL DEF Connection!GithubSpec, ConnectionIsSound, Connection!LandsWhileShown, Lands

-----------------------------------------------------------------------------
(***************************************************************************)
(* The log of a repository                                                 *)
(***************************************************************************)

Watched == {"changes", "page", "more"}
ChangedRecs == [k : {"ready"}, root : Roots, is : BOOLEAN, branch : Branches, head : Nat]
PageRecs ==
  [k : {"ready"}, is : BOOLEAN, branch : Branches \cup {None}, head : Nat, rows : Seq(Nat), more : BOOLEAN]
RequestRecs ==
  [op : Watched \cup {"commit", "diff"}, root : Roots, skip : Nat, from : Nat \cup {None}, here : BOOLEAN,
   step : {"sent", "branch", "answered"}, ok : BOOLEAN, branch : Branches \cup {None},
   res : {Repository!NotAsked} \cup ChangedRecs \cup PageRecs]
Lists ==
  [rows : {None} \cup Seq(Nat), is : BOOLEAN, head : Nat, branch : Branches \cup {None}, more : BOOLEAN, error : BOOLEAN]
Repos == [is : BOOLEAN, head : Nat, top : Nat, branch : Branches, grew : BOOLEAN]
Views == [hash : Nat, root : Roots, repoRoot : Roots \cup {None}]
Stores == [hash : Nat, root : Roots, k : {"loading", "ready", "error"}, diff : {"none", "loading", "ready", "error"}]

(* A page of the log of h, after s rows.                                   *)
Piece(h, s) == SubSeq(Repository!Log(h), s + 1, IF h < s + PageSize THEN h ELSE s + PageSize)

(* What a request brings is of the root and the place it was asked for.    *)
SoundRequest(f) ==
  /\ f.step # "answered" => ~f.ok
  /\ f.op = "changes" /\ f.ok => f.res \in ChangedRecs /\ f.res.root = f.root
  /\ f.op \in {"page", "more"} /\ f.ok =>
       /\ f.res \in PageRecs
       /\ f.res.is => f.res.rows = Piece(f.res.head, f.skip)
  /\ f.op = "page" => f.skip = 0 /\ f.from = None
  /\ f.op = "more" => f.skip # 0 /\ f.from \in Nat \ {0}

PageFlight(f) == f.here /\ f.op \in {"page", "more"}
FlightsFine(fs, r) ==
  /\ fs \subseteq RequestRecs
  /\ \A f \in fs : SoundRequest(f) /\ (f.here /\ f.op \in Watched => f.root = r)
  /\ \A f, g \in fs : PageFlight(f) /\ PageFlight(g) /\ f.op = g.op => f = g

(* While git only commits: a first page on its way is not behind the list, *)
(* and an older page of the list's head follows its last row.              *)
Aligned(f, l, R) ==
  /\ f.step = "answered" => f.ok /\ f.res.is = R.is
  /\ f.step = "branch" => R.is
  /\ f.op = "page" /\ f.step = "answered" /\ R.is => l.head <= f.res.head /\ f.res.head <= R.head
  /\ f.op = "more" =>
       /\ f.from <= l.head
       /\ f.from = l.head => l.rows # None /\ f.skip = Len(l.rows)
       /\ f.step = "answered" => f.res.head = f.from
ListFine(l, R) ==
  /\ l.head <= R.head /\ (l.head > 0 => R.is)
  /\ l.rows # None => Len(l.rows) <= l.head /\ \A i \in 1..Len(l.rows) : l.rows[i] = l.head + 1 - i
AllAligned(fs, l, R) == ListFine(l, R) /\ \A f \in fs : PageFlight(f) => Aligned(f, l, R)

(* A commit that is on its way has a place in the store.                   *)
StoreFine(fs, s) ==
  s \in {None} \cup Stores /\ \A f \in fs : f.here /\ f.op \in {"commit", "diff"} => s \in Stores

RepoTypes ==
  /\ repo \in [Roots -> Repos] /\ panelRoot \in Roots /\ fails \in Nat /\ list \in Lists
  /\ changes \in {Repository!NotAsked, [k |-> "error"]} \cup ChangedRecs
  /\ viewed \in {None} \cup Views
RepoInv ==
  /\ RepoTypes
  /\ \A r \in Roots : repo[r].head <= repo[r].top
  /\ changes.k = "ready" => changes \in ChangedRecs /\ changes.root = panelRoot
  /\ viewed # None => viewed \in Views /\ viewed.repoRoot \in {None, viewed.root}
  /\ FlightsFine(requests, panelRoot) /\ StoreFine(requests, store)
  /\ fails = 0 /\ repo[panelRoot].grew => AllAligned(requests, list, repo[panelRoot])

LEMMA RepoFacts == PageSize \in Nat \ {0} /\ MaxHead \in Nat /\ None \notin Nat
BY ContentsAssumption DEF Repository!PagesOfRows

LEMMA PageRows ==
  ASSUME NEW h \in Nat, NEW s \in Nat
  PROVE  /\ Piece(h, s) \in Seq(Nat)
         /\ s <= h => /\ s + Len(Piece(h, s)) <= h
                      /\ \A i \in 1..Len(Piece(h, s)) : Piece(h, s)[i] = h + 1 - (s + i)
<1> DEFINE n == IF h < s + PageSize THEN h ELSE s + PageSize
           q == SubSeq(Repository!Log(h), s + 1, n)
<1>1. n \in Nat /\ n <= h
  BY RepoFacts
<1>2. \A i \in 1..h : Repository!Log(h)[i] = h + 1 - i /\ Repository!Log(h)[i] \in Nat
  BY DEF Repository!Log
<1> HIDE DEF n
<1>3. /\ q \in Seq(Nat) /\ Len(q) = IF s + 1 <= n THEN n - (s + 1) + 1 ELSE 0
      /\ \A i \in 1..n - (s + 1) + 1 : q[i] = Repository!Log(h)[s + 1 + i - 1]
  <2>1. \A i \in s + 1..n : Repository!Log(h)[i] \in Nat
    BY <1>1, <1>2
  <2> QED BY <2>1, <1>1, SubSeqProperties
<1> HIDE DEF q
<1>4. ASSUME s <= h PROVE s + Len(q) <= h /\ \A i \in 1..Len(q) : q[i] = h + 1 - (s + i)
  <2> DEFINE k == Len(q)
  <2>0. k = IF s + 1 <= n THEN n - (s + 1) + 1 ELSE 0
    BY <1>3
  <2> HIDE DEF k
  <2>1. s + k <= h
    BY <1>1, <2>0, <1>4
  <2>2. ASSUME NEW i \in 1..k PROVE q[i] = h + 1 - (s + i)
    <3>1. i \in Nat /\ i >= 1 /\ i <= k
      BY <2>0
    <3>2. i \in 1..n - (s + 1) + 1 /\ s + 1 + i - 1 = s + i /\ s + i \in 1..h
      BY <1>1, <2>0, <3>1
    <3> QED BY <3>2, <1>2, <1>3
  <2> QED BY <2>1, <2>2 DEF k
<1> QED BY <1>3, <1>4 DEF n, q, Piece

(* Asking.                                                                 *)
LEMMA RequestFacts ==
  ASSUME NEW op \in Watched \cup {"commit", "diff"}, NEW r \in Roots
  PROVE  LET q == Repository!Request(op, r)
         IN /\ q \in RequestRecs /\ q.op = op /\ q.root = r /\ q.here /\ q.step = "sent" /\ ~q.ok
            /\ q.skip = 0 /\ q.from = None
BY DEF Repository!Request, RequestRecs

LEMMA AskFine ==
  ASSUME NEW fs, NEW r \in Roots, FlightsFine(fs, r), NEW q \in RequestRecs, SoundRequest(q),
         q.op \in Watched => q.root = r
  PROVE  FlightsFine(Repository!Ask(fs, q), r) /\ Repository!Ask(fs, q) \subseteq fs \cup {q}
BY DEF FlightsFine, Repository!Ask, Repository!InFlight, PageFlight

LEMMA AskPage ==
  ASSUME NEW fs, NEW r \in Roots, FlightsFine(fs, r)
  PROVE  /\ FlightsFine(Repository!fetchChanges(fs, r), r)
         /\ FlightsFine(Repository!fetchCommits(fs, r, 0), r)
         /\ \A f \in Repository!fetchChanges(fs, r) : PageFlight(f) => f \in fs
         /\ \A s : StoreFine(fs, s) => /\ StoreFine(Repository!fetchChanges(fs, r), s)
                                      /\ StoreFine(Repository!fetchCommits(fs, r, 0), s)
         /\ \A f \in Repository!fetchCommits(fs, r, 0) :
              PageFlight(f) => f \in fs \/ (f.op = "page" /\ f.step = "sent")
<1>1. \A op \in {"changes", "page"} :
        LET q == Repository!Request(op, r)
        IN q \in RequestRecs /\ SoundRequest(q) /\ q.root = r /\ q.op = op /\ q.step = "sent"
  <2> SUFFICES ASSUME NEW op \in {"changes", "page"}
               PROVE  LET q == Repository!Request(op, r)
                      IN q \in RequestRecs /\ SoundRequest(q) /\ q.root = r /\ q.op = op /\ q.step = "sent"
    OBVIOUS
  <2> DEFINE q == Repository!Request(op, r)
  <2>1. op \in Watched \cup {"commit", "diff"}
    BY DEF Watched
  <2>2. q \in RequestRecs /\ q.op = op /\ q.root = r /\ q.step = "sent" /\ ~q.ok /\ q.skip = 0 /\ q.from = None
    BY <2>1, RequestFacts
  <2> HIDE DEF q
  <2>3. SoundRequest(q)
    BY <2>2 DEF SoundRequest
  <2> QED BY <2>2, <2>3 DEF q
<1> DEFINE c == Repository!Request("changes", r)
           p == Repository!Request("page", r)
<1>2. /\ c \in RequestRecs /\ SoundRequest(c) /\ c.root = r /\ c.op = "changes"
      /\ p \in RequestRecs /\ SoundRequest(p) /\ p.root = r /\ p.op = "page" /\ p.step = "sent"
  BY <1>1
<1>3. /\ Repository!fetchChanges(fs, r) = Repository!Ask(fs, c)
      /\ Repository!fetchCommits(fs, r, 0) = Repository!Ask(fs, p)
  BY DEF Repository!fetchChanges, Repository!fetchCommits
<1> HIDE DEF c, p
<1>4. \A s : StoreFine(fs, s) => StoreFine(Repository!Ask(fs, c), s) /\ StoreFine(Repository!Ask(fs, p), s)
  BY <1>2, AskFine DEF StoreFine
<1> QED BY <1>2, <1>3, <1>4, AskFine DEF PageFlight

LEMMA ElsewhereFine ==
  ASSUME NEW fs, NEW r, FlightsFine(fs, r)
  PROVE  /\ LET gs == Repository!Elsewhere(fs, {"commit", "diff"})
            IN /\ FlightsFine(gs, r) /\ \A f \in gs : PageFlight(f) => f \in fs
               /\ \A s \in {None} \cup Stores : StoreFine(gs, s)
         /\ LET gs == Repository!Elsewhere(fs, Watched)
            IN /\ \A t \in Roots : FlightsFine(gs, t) /\ \A f \in gs : ~PageFlight(f)
               /\ \A s : StoreFine(fs, s) => StoreFine(gs, s)
<1>1. ASSUME NEW f \in fs
      PROVE  LET g == [f EXCEPT !.here = FALSE]
             IN g \in RequestRecs /\ SoundRequest(g) /\ ~g.here
  BY DEF FlightsFine, RequestRecs, SoundRequest
<1>2. ASSUME NEW ops
      PROVE  \A g \in Repository!Elsewhere(fs, ops) :
               /\ g \in RequestRecs /\ SoundRequest(g)
               /\ g.here => g \in fs /\ g.op \notin ops
  BY <1>1 DEF Repository!Elsewhere, FlightsFine
<1>3. \A g \in Repository!Elsewhere(fs, Watched) : ~(g.here /\ g.op \in Watched)
  BY <1>2
<1> QED BY <1>2, <1>3 DEF FlightsFine, PageFlight, Watched, StoreFine

(* A step that leaves the repository, the root and the list alone, and     *)
(* whose new requests are a first page, or the page after the rows.        *)
FreshOne(f) ==
  /\ f.step = "sent"
  /\ f.op = "more" => list.rows # None /\ f.from = list.head /\ f.skip = Len(list.rows)
LEMMA QuietStep ==
  ASSUME RepoInv, UNCHANGED <<repo, panelRoot, list, fails>>,
         changes' \in {Repository!NotAsked, [k |-> "error"]} \cup ChangedRecs,
         changes'.k = "ready" => changes' \in ChangedRecs /\ changes'.root = panelRoot,
         viewed' \in {None} \cup Views,
         viewed' # None => viewed' \in Views /\ viewed'.repoRoot \in {None, viewed'.root},
         FlightsFine(requests', panelRoot), StoreFine(requests', store'),
         \A f \in requests' : PageFlight(f) => f \in requests \/ FreshOne(f)
  PROVE  RepoInv'
<1>1. ASSUME fails = 0, repo[panelRoot].grew PROVE AllAligned(requests', list, repo[panelRoot])
  <2>1. AllAligned(requests, list, repo[panelRoot])
    BY <1>1 DEF RepoInv
  <2>2. ASSUME NEW f \in requests', PageFlight(f), FreshOne(f) PROVE Aligned(f, list, repo[panelRoot])
    BY <2>2 DEF Aligned, FreshOne, RepoInv, RepoTypes, Lists, PageFlight
  <2> QED BY <2>1, <2>2 DEF AllAligned
<1> QED BY <1>1 DEF RepoInv, RepoTypes

(* What the render of a panel that stays asks, and what syncCommit does.   *)
LEMMA RenderedFine ==
  ASSUME NEW fs, NEW r \in Roots, FlightsFine(fs, r), panelRoot' = r, NEW c, NEW l, NEW t, NEW returning
  PROVE  LET gs == Repository!Rendered(fs, c, l, t, returning)
         IN /\ FlightsFine(gs, r) /\ \A f \in gs : PageFlight(f) => f \in fs \/ (f.op = "page" /\ f.step = "sent")
            /\ \A s : StoreFine(fs, s) => StoreFine(gs, s)
<1>1. Repository!Rendered(fs, c, l, t, returning) \in {fs, Repository!fetchCommits(fs, r, 0)}
  BY DEF Repository!Rendered
<1> QED BY <1>1, AskPage

LEMMA SyncFine ==
  ASSUME NEW fs, NEW r \in Roots, FlightsFine(fs, r), NEW v \in {None} \cup Views, Repository!syncCommit(v, fs),
         StoreFine(fs, store)
  PROVE  /\ StoreFine(requests', store') /\ viewed' = v /\ FlightsFine(requests', r)
         /\ \A f \in requests' : PageFlight(f) => f \in fs
<1> DEFINE gs == Repository!Elsewhere(fs, {"commit", "diff"})
           q == [Repository!Request("commit", v.root) EXCEPT !.from = v.hash]
           p == [hash |-> v.hash, root |-> v.root, k |-> "loading", diff |-> "none"]
<1>1. /\ FlightsFine(gs, r) /\ \A f \in gs : PageFlight(f) => f \in fs
      /\ \A s \in {None} \cup Stores : StoreFine(gs, s)
  BY ElsewhereFine
<1>2. /\ viewed' = v
      /\ \/ v = None /\ store' = None /\ requests' = gs
         \/ store' = store /\ requests' = fs
         \/ v \in Views /\ store' = p /\ requests' = gs \cup {q}
  BY DEF Repository!syncCommit
<1>3. ASSUME v \in Views PROVE q \in RequestRecs /\ q.op = "commit" /\ SoundRequest(q)
  <2> DEFINE w == Repository!Request("commit", v.root)
  <2>1. v.root \in Roots /\ v.hash \in Nat
    BY <1>3 DEF Views
  <2>2. w \in RequestRecs /\ w.op = "commit" /\ w.step = "sent" /\ ~w.ok
    BY <2>1, RequestFacts
  <2>3. q = [w EXCEPT !.from = v.hash]
    OBVIOUS
  <2> HIDE DEF w, q
  <2>4. q \in RequestRecs /\ q.op = "commit" /\ q.step = "sent" /\ ~q.ok
    BY <2>1, <2>2, <2>3 DEF RequestRecs
  <2> QED BY <2>4 DEF SoundRequest
<1>5. ASSUME v \in Views PROVE p \in Stores
  BY <1>5 DEF Views, Stores
<1> HIDE DEF gs, q, p
<1>4. ASSUME v \in Views
      PROVE  FlightsFine(gs \cup {q}, r) /\ \A f \in gs \cup {q} : PageFlight(f) => f \in fs
  BY <1>1, <1>3, <1>4 DEF FlightsFine, PageFlight, Watched
<1>6. ASSUME v \in Views PROVE StoreFine(gs \cup {q}, p)
  BY <1>5, <1>6 DEF StoreFine
<1> QED BY <1>1, <1>2, <1>4, <1>6

(* The user.                                                               *)
LEMMA UserStep ==
  ASSUME RepoInv,
         \/ \E next \in {"files", "changes", "commits"} : Repository!setTab(next)
         \/ Repository!Hides \/ Repository!ShowMore \/ Repository!closeCommitView \/ Repository!askDiff
         \/ Repository!Polls \/ \E h \in 1..MaxHead : Repository!openCommitView(h)
  PROVE  RepoInv'
<1>0. /\ FlightsFine(requests, panelRoot) /\ StoreFine(requests, store)
      /\ panelRoot \in Roots /\ viewed \in {None} \cup Views
  BY DEF RepoInv, RepoTypes
<1>1. ASSUME UNCHANGED <<repo, panelRoot, list, fails, changes, viewed>>,
             store' = store,
             requests' \in {requests, Repository!fetchChanges(requests, panelRoot),
                            Repository!fetchCommits(requests, panelRoot, 0)}
      PROVE  RepoInv'
  <2>1. /\ FlightsFine(requests', panelRoot) /\ StoreFine(requests', store')
        /\ \A f \in requests' : PageFlight(f) => f \in requests \/ FreshOne(f)
    BY <1>0, <1>1, AskPage DEF FreshOne
  <2> QED BY <1>1, <2>1, QuietStep DEF RepoInv, RepoTypes
<1>2. ASSUME NEW next \in {"files", "changes", "commits"}, Repository!setTab(next) PROVE RepoInv'
  BY <1>1, <1>2 DEF Repository!setTab, Repository!Uses
<1>3. CASE Repository!Hides \/ Repository!Polls
  BY <1>1, <1>3 DEF Repository!Hides, Repository!Polls, Repository!Uses
<1>4. CASE Repository!ShowMore
  <2>1. /\ UNCHANGED <<repo, panelRoot, list, fails, changes, viewed, store>>
        /\ list.rows # None /\ list.head # 0 /\ requests' = Repository!fetchCommits(requests, panelRoot, Len(list.rows))
    BY <1>4 DEF Repository!ShowMore, Repository!Uses
  <2>2. CASE Len(list.rows) = 0
    BY <1>1, <2>1, <2>2
  <2>3. CASE Len(list.rows) # 0
    <3> DEFINE w == Repository!Request("more", panelRoot)
               q == [w EXCEPT !.skip = Len(list.rows), !.from = list.head]
    <3>1. Len(list.rows) \in Nat /\ list.head \in Nat \ {0}
      BY <2>1, LenProperties DEF RepoInv, RepoTypes, Lists
    <3>2. w \in RequestRecs /\ w.op = "more" /\ w.root = panelRoot /\ w.step = "sent" /\ ~w.ok
      BY <1>0, RequestFacts DEF Watched
    <3>3. requests' = Repository!Ask(requests, q)
      BY <2>1, <2>3 DEF Repository!fetchCommits
    <3> HIDE DEF w
    <3>4. /\ q \in RequestRecs /\ q.op = "more" /\ q.root = panelRoot /\ q.step = "sent" /\ ~q.ok
          /\ q.skip = Len(list.rows) /\ q.from = list.head
      BY <3>1, <3>2 DEF RequestRecs
    <3> HIDE DEF q
    <3>5. SoundRequest(q) /\ FreshOne(q)
      BY <2>1, <2>3, <3>1, <3>4 DEF SoundRequest, FreshOne
    <3>6. FlightsFine(requests', panelRoot) /\ requests' \subseteq requests \cup {q}
      BY <1>0, <3>3, <3>4, <3>5, AskFine
    <3>7. StoreFine(requests', store')
      BY <1>0, <2>1, <3>4, <3>6 DEF StoreFine
    <3> QED BY <2>1, <3>5, <3>6, <3>7, QuietStep DEF RepoInv, RepoTypes
  <2> QED BY <2>2, <2>3
<1>5. CASE Repository!closeCommitView
  <2>1. UNCHANGED <<repo, panelRoot, list, fails, changes>> /\ Repository!syncCommit(None, requests)
    BY <1>5 DEF Repository!closeCommitView, Repository!Uses
  <2>2. /\ viewed' = None /\ FlightsFine(requests', panelRoot) /\ StoreFine(requests', store')
        /\ \A f \in requests' : PageFlight(f) => f \in requests
    BY <1>0, <2>1, SyncFine
  <2> QED BY <2>1, <2>2, QuietStep DEF RepoInv, RepoTypes
<1>6. ASSUME NEW h \in 1..MaxHead, Repository!openCommitView(h) PROVE RepoInv'
  <2> DEFINE v == [hash |-> h, root |-> panelRoot,
                   repoRoot |-> IF Repository!Repository(changes) THEN changes.root ELSE None]
  <2>1. UNCHANGED <<repo, panelRoot, list, fails, changes>> /\ Repository!syncCommit(v, requests)
    BY <1>6 DEF Repository!openCommitView, Repository!Uses
  <2>2. v \in Views /\ v.repoRoot \in {None, v.root}
    BY <1>0, RepoFacts DEF Views, RepoInv, RepoTypes, Repository!Repository
  <2> HIDE DEF v
  <2>3. /\ viewed' = v /\ FlightsFine(requests', panelRoot) /\ StoreFine(requests', store')
        /\ \A f \in requests' : PageFlight(f) => f \in requests
    BY <1>0, <2>1, <2>2, SyncFine
  <2> QED BY <2>1, <2>2, <2>3, QuietStep DEF RepoInv, RepoTypes
<1>7. CASE Repository!askDiff
  <2> DEFINE w == Repository!Request("diff", store.root)
             q == [w EXCEPT !.from = store.hash]
             s == [store EXCEPT !.diff = "loading"]
  <2>1. /\ UNCHANGED <<repo, panelRoot, list, fails, changes, viewed>>
        /\ store' = s /\ requests' = Repository!Ask(requests, q) /\ store \in Stores
    BY <1>0, <1>7 DEF Repository!askDiff, StoreFine
  <2>2. store.root \in Roots /\ store.hash \in Nat /\ s \in Stores
    BY <2>1 DEF Stores
  <2>3. w \in RequestRecs /\ w.op = "diff" /\ w.step = "sent" /\ ~w.ok
    BY <2>2, RequestFacts
  <2> HIDE DEF w, s
  <2>4. q \in RequestRecs /\ q.op = "diff" /\ q.step = "sent" /\ ~q.ok
    BY <2>2, <2>3 DEF RequestRecs
  <2> HIDE DEF q
  <2>5. SoundRequest(q) /\ q.op \notin Watched /\ ~PageFlight(q)
    BY <2>4 DEF SoundRequest, Watched, PageFlight
  <2>6. FlightsFine(requests', panelRoot) /\ requests' \subseteq requests \cup {q}
    BY <1>0, <2>1, <2>4, <2>5, AskFine
  <2>7. StoreFine(requests', store')
    BY <2>1, <2>2 DEF StoreFine
  <2> QED BY <2>1, <2>5, <2>6, <2>7, QuietStep DEF RepoInv, RepoTypes
<1> QED BY <1>2, <1>3, <1>4, <1>5, <1>6, <1>7
(* The panel shows a root, the one it shows or another.                    *)
LEMMA ShowsStep ==
  ASSUME RepoInv, NEW r \in Roots, Repository!Shows(r)
  PROVE  RepoInv'
<1> DEFINE here == IF r # panelRoot THEN Repository!Elsewhere(requests, Watched) ELSE requests
           fs == Repository!fetchChanges(here, r)
           gs == Repository!Rendered(fs, changes', list', tab', ~tab.shown)
           v == IF r # panelRoot THEN None ELSE viewed
<1>0. /\ FlightsFine(requests, panelRoot) /\ StoreFine(requests, store)
      /\ panelRoot \in Roots /\ viewed \in {None} \cup Views
  BY DEF RepoInv, RepoTypes
<1>1. /\ UNCHANGED <<repo, fails>> /\ panelRoot' = r /\ Repository!syncCommit(v, gs)
      /\ changes' = IF r # panelRoot THEN Repository!NotAsked ELSE changes
      /\ list' = IF r # panelRoot THEN Repository!NoList ELSE list
  BY DEF Repository!Shows, Repository!Uses, Watched
<1>2. /\ FlightsFine(here, r) /\ StoreFine(here, store)
      /\ \A f \in here : PageFlight(f) => r = panelRoot /\ f \in requests
  BY <1>0, ElsewhereFine
<1> HIDE DEF here
<1>3. FlightsFine(fs, r) /\ StoreFine(fs, store) /\ \A f \in fs : PageFlight(f) => f \in here
  BY <1>2, AskPage
<1> HIDE DEF fs
<1>4. /\ FlightsFine(gs, r) /\ StoreFine(gs, store)
      /\ \A f \in gs : PageFlight(f) => f \in fs \/ (f.op = "page" /\ f.step = "sent")
  BY <1>1, <1>3, RenderedFine
<1> HIDE DEF gs
<1>5. v \in {None} \cup Views
  BY <1>0
<1> HIDE DEF v
<1>6. /\ viewed' = v /\ FlightsFine(requests', r) /\ StoreFine(requests', store')
      /\ \A f \in requests' : PageFlight(f) => f \in gs
  BY <1>1, <1>4, <1>5, SyncFine
<1>7. CASE r # panelRoot
  <2>1. \A f \in requests' : PageFlight(f) => f.op = "page" /\ f.step = "sent"
    BY <1>2, <1>3, <1>4, <1>6, <1>7
  <2>2. list' = Repository!NoList /\ changes' = Repository!NotAsked /\ viewed' = None
    BY <1>1, <1>6, <1>7 DEF v
  <2>3. list'.rows = None /\ list'.head = 0 /\ list' \in Lists /\ changes'.k # "ready"
    BY <2>2 DEF Repository!NoList, Repository!NotAsked, Lists
  <2>4. repo[r].head \in Nat
    BY DEF RepoInv, RepoTypes, Repos
  <2>5. AllAligned(requests', list', repo[r])
    BY <2>1, <2>3, <2>4 DEF AllAligned, ListFine, Aligned
  <2> QED BY <1>1, <1>6, <2>2, <2>3, <2>5 DEF RepoInv, RepoTypes
<1>8. CASE r = panelRoot
  <2>1. \A f \in requests' : PageFlight(f) => f \in requests \/ FreshOne(f)
    BY <1>2, <1>3, <1>4, <1>6 DEF FreshOne
  <2>2. UNCHANGED <<repo, panelRoot, list, fails, changes, viewed>>
    BY <1>1, <1>6, <1>8 DEF v
  <2> QED BY <1>6, <1>8, <2>1, <2>2, QuietStep DEF RepoInv, RepoTypes
<1> QED BY <1>7, <1>8

(* Other programs: a commit leaves every page in line with the list, and   *)
(* any other move of this repository ends what is claimed of it.           *)
LEMMA MovesStep ==
  ASSUME RepoInv, NEW r \in Roots, Repository!Moves(r)
  PROVE  RepoInv'
<1>1. /\ UNCHANGED <<panelRoot, changes, list, viewed, store, requests, fails>>
      /\ repo \in [Roots -> Repos] /\ panelRoot \in Roots
  BY DEF Repository!Moves, RepoInv, RepoTypes
<1>2. /\ repo' \in [Roots -> Repos] /\ \A s \in Roots : repo'[s].head <= repo'[s].top
      /\ repo'[panelRoot].grew =>
           /\ repo[panelRoot].grew /\ repo'[panelRoot].is = repo[panelRoot].is
           /\ repo[panelRoot].head <= repo'[panelRoot].head
  <2>0. repo[r] \in Repos /\ repo[r].head <= repo[r].top /\ \A s \in Roots : repo[s].head <= repo[s].top
    BY <1>1 DEF RepoInv
  <2> DEFINE Fits(n) == /\ n \in Repos /\ n.head <= n.top
                        /\ n.grew => repo[r].grew /\ n.is = repo[r].is /\ repo[r].head <= n.head
  <2>1. ASSUME NEW n, Fits(n), repo' = [repo EXCEPT ![r] = n]
        PROVE  <1>2
    BY <1>1, <2>0, <2>1 DEF Repos
  <2>2. CASE repo' = [repo EXCEPT ![r].head = @ + 1, ![r].top = @ + 1]
    <3> DEFINE m == repo[r]
               n == [m EXCEPT !.head = @ + 1, !.top = @ + 1]
    <3>3. m \in Repos /\ m.head <= m.top /\ m.head + 1 \in Nat /\ m.top + 1 \in Nat
      BY <2>0 DEF Repos
    <3>2. repo' = [repo EXCEPT ![r] = n]
      BY <1>1, <2>2
    <3> HIDE DEF m
    <3>4. n \in Repos /\ n.is = m.is /\ n.grew = m.grew /\ n.head = m.head + 1 /\ n.top = m.top + 1
      BY <3>3 DEF Repos
    <3> HIDE DEF n
    <3>1. Fits(n)
      BY <2>0, <3>3, <3>4 DEF Repos, m
    <3> QED BY <2>1, <3>1, <3>2
  <2>3. ASSUME NEW h \in 1..repo[r].top, NEW b \in Branches,
               repo' = [repo EXCEPT ![r].head = h, ![r].branch = b, ![r].grew = FALSE]
        PROVE  <1>2
    <3> DEFINE m == repo[r]
               n == [m EXCEPT !.head = h, !.branch = b, !.grew = FALSE]
    <3>3. m \in Repos /\ m.head <= m.top /\ h \in Nat /\ h <= m.top
      BY <2>0 DEF Repos
    <3>2. repo' = [repo EXCEPT ![r] = n]
      BY <1>1, <2>3
    <3> HIDE DEF m
    <3>4. n \in Repos /\ ~n.grew /\ n.head = h /\ n.top = m.top
      BY <3>3 DEF Repos
    <3> HIDE DEF n
    <3>1. Fits(n)
      BY <2>0, <3>3, <3>4 DEF Repos, m
    <3> QED BY <2>1, <3>1, <3>2
  <2>4. CASE repo' = [repo EXCEPT ![r].is = ~@, ![r].head = 0, ![r].top = 0, ![r].grew = FALSE]
    <3> DEFINE m == repo[r]
               n == [m EXCEPT !.is = ~@, !.head = 0, !.top = 0, !.grew = FALSE]
    <3>3. m \in Repos /\ m.head <= m.top
      BY <2>0
    <3>2. repo' = [repo EXCEPT ![r] = n]
      BY <1>1, <2>4
    <3> HIDE DEF m
    <3>4. n \in Repos /\ ~n.grew /\ n.head = 0 /\ n.top = 0
      BY <3>3 DEF Repos
    <3> HIDE DEF n
    <3>1. Fits(n)
      BY <2>0, <3>3, <3>4 DEF Repos, m
    <3> QED BY <2>1, <3>1, <3>2
  <2> QED BY <2>2, <2>3, <2>4 DEF Repository!Moves
<1>3. ASSUME fails = 0, repo'[panelRoot].grew PROVE AllAligned(requests, list, repo'[panelRoot])
  <2> DEFINE R == repo[panelRoot]
             S == repo'[panelRoot]
  <2>1. AllAligned(requests, list, R) /\ S.is = R.is /\ R.head <= S.head /\ R \in Repos /\ S \in Repos /\ list \in Lists
    BY <1>1, <1>2, <1>3 DEF RepoInv, RepoTypes
  <2> HIDE DEF R, S
  <2>2. ListFine(list, S)
    BY <2>1 DEF AllAligned, ListFine, Lists, Repos
  <2>3. ASSUME NEW f \in requests, PageFlight(f) PROVE Aligned(f, list, S)
    <3>1. Aligned(f, list, R) /\ f \in RequestRecs /\ SoundRequest(f)
      BY <2>1, <2>3 DEF AllAligned, RepoInv, FlightsFine
    <3>2. f.ok => f.res \in PageRecs
      BY <2>3, <3>1 DEF SoundRequest, PageFlight
    <3> QED BY <2>1, <3>1, <3>2 DEF Aligned, Repos, PageRecs
  <2> QED BY <2>2, <2>3 DEF AllAligned, S
<1> QED BY <1>1, <1>2, <1>3 DEF RepoInv, RepoTypes
(* The routes.                                                             *)
LEMMA ReplaceFine ==
  ASSUME RepoInv, NEW f \in requests, NEW g \in RequestRecs, SoundRequest(g),
         g.op = f.op, g.root = f.root, g.here = f.here,
         UNCHANGED <<repo, panelRoot, changes, list, viewed, store>>, fails' \in Nat, fails' = 0 => fails = 0,
         requests' = (requests \ {f}) \cup {g},
         fails' = 0 /\ repo[panelRoot].grew /\ PageFlight(f) => Aligned(g, list, repo[panelRoot])
  PROVE  RepoInv'
<1>1. FlightsFine(requests', panelRoot)
  BY DEF RepoInv, FlightsFine, PageFlight
<1>2. StoreFine(requests', store')
  BY DEF RepoInv, StoreFine
<1>3. ASSUME fails' = 0, repo[panelRoot].grew PROVE AllAligned(requests', list, repo[panelRoot])
  BY <1>3 DEF RepoInv, AllAligned, PageFlight
<1> QED BY <1>1, <1>2, <1>3 DEF RepoInv, RepoTypes

Answered(f, ok, res) == [f EXCEPT !.step = "answered", !.ok = ok, !.res = res]
LEMMA AnsweredFine ==
  ASSUME NEW f \in RequestRecs, NEW ok \in BOOLEAN, NEW res \in {Repository!NotAsked} \cup ChangedRecs \cup PageRecs
  PROVE  LET g == Answered(f, ok, res)
         IN /\ g \in RequestRecs /\ g.op = f.op /\ g.root = f.root /\ g.here = f.here /\ g.skip = f.skip
            /\ g.from = f.from /\ g.step = "answered" /\ (g.ok <=> ok) /\ g.res = res
<1> DEFINE Res == {Repository!NotAsked} \cup ChangedRecs \cup PageRecs
<1>1. res \in Res /\ f \in [op : Watched \cup {"commit", "diff"}, root : Roots, skip : Nat, from : Nat \cup {None},
        here : BOOLEAN, step : {"sent", "branch", "answered"}, ok : BOOLEAN, branch : Branches \cup {None}, res : Res]
  BY DEF RequestRecs
<1> HIDE DEF Res
<1>2. [f EXCEPT !.step = "answered", !.ok = ok, !.res = res] \in
        [op : Watched \cup {"commit", "diff"}, root : Roots, skip : Nat, from : Nat \cup {None},
         here : BOOLEAN, step : {"sent", "branch", "answered"}, ok : BOOLEAN, branch : Branches \cup {None}, res : Res]
  BY <1>1
<1> QED BY <1>1, <1>2 DEF RequestRecs, Res, Answered

LEMMA PageOfFine ==
  ASSUME RepoInv, NEW f \in requests, NEW h \in Nat
  PROVE  LET p == Repository!PageOf(f, h)
         IN /\ p \in PageRecs /\ p.is = repo[f.root].is /\ p.head = h
            /\ p.rows = Piece(h, f.skip)
<1>1. /\ f.skip \in Nat /\ f.branch \in Branches \cup {None} /\ repo[f.root].is \in BOOLEAN
  BY DEF RepoInv, RepoTypes, FlightsFine, RequestRecs, Repos
<1>2. Piece(h, f.skip) \in Seq(Nat)
  BY <1>1, PageRows
<1>3. Repository!PageOf(f, h) = [k |-> "ready", is |-> repo[f.root].is, branch |-> f.branch, head |-> h,
                                 rows |-> Piece(h, f.skip), more |-> h > f.skip + PageSize]
  BY DEF Repository!PageOf, Piece
<1>4. Repository!PageOf(f, h) \in PageRecs
  BY <1>1, <1>2, <1>3 DEF PageRecs
<1>5. /\ Repository!PageOf(f, h).is = repo[f.root].is /\ Repository!PageOf(f, h).head = h
      /\ Repository!PageOf(f, h).rows = Piece(h, f.skip)
  BY <1>3
<1> QED BY <1>4, <1>5

LEMMA RowsFollow ==
  ASSUME NEW q \in Seq(Nat), NEW r \in Seq(Nat)
  PROVE  /\ Len(q \o r) = Len(q) + Len(r)
         /\ \A i \in 1..Len(q) + Len(r) : (q \o r)[i] = IF i <= Len(q) THEN q[i] ELSE r[i - Len(q)]
BY ConcatProperties

LEMMA ReadsFine ==
  ASSUME RepoInv, NEW f \in requests, f.step # "answered"
  PROVE  LET g == Repository!Reads(f)
         IN /\ g \in RequestRecs /\ SoundRequest(g) /\ g.op = f.op /\ g.root = f.root /\ g.here = f.here
            /\ fails = 0 /\ repo[panelRoot].grew /\ PageFlight(f) => Aligned(g, list, repo[panelRoot])
<1> DEFINE R == repo[f.root]
           Fine(g) == /\ g \in RequestRecs /\ SoundRequest(g) /\ g.op = f.op /\ g.root = f.root /\ g.here = f.here
                      /\ fails = 0 /\ repo[panelRoot].grew /\ PageFlight(f) => Aligned(g, list, repo[panelRoot])
<1>0. /\ f \in RequestRecs /\ SoundRequest(f) /\ R \in Repos /\ R.head <= R.top /\ list \in Lists
      /\ PageFlight(f) => f.root = panelRoot /\ f.op \in {"page", "more"}
      /\ fails = 0 /\ repo[panelRoot].grew /\ PageFlight(f) => Aligned(f, list, R) /\ ListFine(list, R)
  BY DEF RepoInv, RepoTypes, FlightsFine, RequestRecs, PageFlight, Watched, AllAligned
<1>1. f.op \in Watched \cup {"commit", "diff"} /\ f.step \in {"sent", "branch"} /\ f.skip \in Nat
  BY <1>0 DEF RequestRecs
<1>7. f \in RequestRecs
  BY <1>0
<1> SUFFICES Fine(Repository!Reads(f))
  OBVIOUS
<1> HIDE DEF Fine
<1>2. CASE f.op = "changes"
  <2> DEFINE c == Repository!Changed(f.root)
  <2>1. c \in ChangedRecs /\ c.root = f.root
    BY <1>0 DEF Repository!Changed, ChangedRecs, Repos, RequestRecs
  <2>2. Repository!Reads(f) = Answered(f, TRUE, c)
    BY <1>2 DEF Repository!Reads, Answered
  <2> HIDE DEF c
  <2>5. TRUE \in BOOLEAN /\ c \in {Repository!NotAsked} \cup ChangedRecs \cup PageRecs
    BY <2>1
  <2>3. /\ Answered(f, TRUE, c) \in RequestRecs /\ Answered(f, TRUE, c).op = f.op /\ Answered(f, TRUE, c).root = f.root
        /\ Answered(f, TRUE, c).here = f.here /\ Answered(f, TRUE, c).step = "answered" /\ Answered(f, TRUE, c).res = c
    BY <1>7, <2>5, AnsweredFine
  <2>4. SoundRequest(Answered(f, TRUE, c))
    BY <1>2, <2>1, <2>3 DEF SoundRequest
  <2>6. ~PageFlight(f)
    BY <1>2 DEF PageFlight
  <2>7. Fine(Answered(f, TRUE, c))
    BY <2>3, <2>4, <2>6 DEF Fine
  <2> QED BY <2>2, <2>7
<1>3. CASE f.op \in {"commit", "diff"}
  <2>1. Repository!Reads(f) = Answered(f, Repository!Found(f), Repository!NotAsked) /\ Repository!Found(f) \in BOOLEAN
    BY <1>3 DEF Repository!Reads, Answered, Repository!Found
  <2> DEFINE g == Answered(f, Repository!Found(f), Repository!NotAsked)
  <2>2. /\ g \in RequestRecs /\ g.op = f.op /\ g.root = f.root /\ g.here = f.here /\ g.step = "answered"
    BY <1>0, <2>1, AnsweredFine
  <2> HIDE DEF g
  <2>3. SoundRequest(g) /\ ~PageFlight(f)
    BY <1>3, <2>2 DEF SoundRequest, PageFlight
  <2>4. Fine(g)
    BY <2>2, <2>3 DEF Fine
  <2> QED BY <2>1, <2>4 DEF g
<1>4. ASSUME f.op \in {"page", "more"}, NEW h \in Nat,
             f.op = "page" => (h = 0 /\ ~R.is) \/ h = R.head, f.op = "more" /\ R.is => h = f.from
      PROVE  Fine(Answered(f, TRUE, Repository!PageOf(f, h)))
  <2> DEFINE p == Repository!PageOf(f, h)
             g == Answered(f, TRUE, p)
  <2>1. /\ p \in PageRecs /\ p.is = R.is /\ p.head = h
        /\ p.rows = Piece(h, f.skip)
    BY PageOfFine
  <2> HIDE DEF p
  <2>5. TRUE \in BOOLEAN /\ p \in {Repository!NotAsked} \cup ChangedRecs \cup PageRecs
    BY <2>1
  <2>2. /\ g \in RequestRecs /\ g.op = f.op /\ g.root = f.root /\ g.here = f.here /\ g.step = "answered"
        /\ (g.ok <=> TRUE) /\ g.res = p /\ g.skip = f.skip /\ g.from = f.from
    BY <1>7, <2>5, AnsweredFine
  <2> HIDE DEF g
  <2>3. SoundRequest(g)
    BY <1>0, <1>4, <2>1, <2>2 DEF SoundRequest
  <2>4. ASSUME fails = 0, repo[panelRoot].grew, PageFlight(f) PROVE Aligned(g, list, R)
    BY <1>0, <1>4, <2>1, <2>2, <2>4, RepoFacts DEF Aligned, ListFine, SoundRequest, Lists, Repos
  <2>6. Fine(g)
    BY <1>0, <2>2, <2>3, <2>4 DEF Fine
  <2> QED BY <2>6 DEF g, p
<1>5. CASE f.op \in {"page", "more"} /\ f.step = "sent"
  <2>1. CASE R.is
    <3> DEFINE g == [f EXCEPT !.step = "branch", !.branch = R.branch]
    <3>1. Repository!Reads(f) = g
      BY <1>5, <2>1 DEF Repository!Reads, Answered
    <3>2. /\ g \in RequestRecs /\ g.op = f.op /\ g.root = f.root /\ g.here = f.here /\ g.step = "branch" /\ g.ok = f.ok
          /\ g.skip = f.skip /\ g.from = f.from
      BY <1>0 DEF RequestRecs, Repos
    <3> HIDE DEF g
    <3>3. SoundRequest(g) /\ (fails = 0 /\ repo[panelRoot].grew /\ PageFlight(f) => Aligned(g, list, R))
      BY <1>0, <1>5, <2>1, <3>2 DEF SoundRequest, Aligned
    <3>4. Fine(g)
      BY <1>0, <3>2, <3>3 DEF Fine
    <3> QED BY <3>1, <3>4
  <2>2. CASE ~R.is
    <3>1. Repository!Reads(f) = Answered(f, TRUE, Repository!PageOf(f, 0))
      BY <1>5, <2>2 DEF Repository!Reads, Answered
    <3> QED BY <1>4, <1>5, <2>2, <3>1
  <2> QED BY <2>1, <2>2
<1>6. CASE f.op \in {"page", "more"} /\ f.step = "branch"
  <2>1. CASE ~R.is \/ (f.from # None /\ ~Repository!Found(f))
    <3> DEFINE g == Answered(f, FALSE, Repository!NotAsked)
    <3>1. Repository!Reads(f) = g
      BY <1>6, <2>1 DEF Repository!Reads, Answered
    <3>5. FALSE \in BOOLEAN /\ Repository!NotAsked \in {Repository!NotAsked} \cup ChangedRecs \cup PageRecs
      OBVIOUS
    <3>2. /\ g \in RequestRecs /\ g.op = f.op /\ g.root = f.root /\ g.here = f.here /\ g.step = "answered"
          /\ ~g.ok /\ g.skip = f.skip /\ g.from = f.from
      BY <1>7, <3>5, AnsweredFine
    <3> HIDE DEF g
    <3>3. SoundRequest(g)
      BY <1>0, <1>6, <3>2 DEF SoundRequest
    <3>4. ~(fails = 0 /\ repo[panelRoot].grew /\ PageFlight(f))
      BY <1>0, <1>6, <2>1 DEF Aligned, ListFine, SoundRequest, Lists, Repos, Repository!Found
    <3>6. Fine(g)
      BY <3>2, <3>3, <3>4 DEF Fine
    <3> QED BY <3>1, <3>6
  <2>2. CASE R.is /\ (f.from = None \/ Repository!Found(f))
    <3> DEFINE h == IF f.from = None THEN R.head ELSE f.from
    <3>1. Repository!Reads(f) = Answered(f, TRUE, Repository!PageOf(f, h))
      BY <1>6, <2>2 DEF Repository!Reads, Answered
    <3>2. h \in Nat /\ (f.op = "page" => h = R.head) /\ (f.op = "more" => h = f.from)
      BY <1>0, RepoFacts DEF RequestRecs, Repos, SoundRequest
    <3> HIDE DEF h
    <3> QED BY <1>4, <1>6, <3>1, <3>2
  <2> QED BY <2>1, <2>2
<1> QED BY <1>1, <1>2, <1>3, <1>5, <1>6 DEF Watched

LEMMA ServesStep ==
  ASSUME RepoInv, NEW f \in requests, Repository!Serves(f) \/ Repository!Fails(f)
  PROVE  RepoInv'
<1>1. CASE Repository!Serves(f)
  <2> DEFINE g == Repository!Reads(f)
  <2>1. /\ requests' = (requests \ {f}) \cup {g} /\ UNCHANGED <<repo, panelRoot, changes, list, viewed, store, fails>>
        /\ f.step # "answered"
    BY <1>1 DEF Repository!Serves
  <2>2. /\ g \in RequestRecs /\ SoundRequest(g) /\ g.op = f.op /\ g.root = f.root /\ g.here = f.here
        /\ fails = 0 /\ repo[panelRoot].grew /\ PageFlight(f) => Aligned(g, list, repo[panelRoot])
    BY <2>1, ReadsFine
  <2> HIDE DEF g
  <2>3. fails' \in Nat /\ fails' = fails
    BY <2>1 DEF RepoInv, RepoTypes
  <2> QED BY <2>1, <2>2, <2>3, ReplaceFine
<1>2. CASE Repository!Fails(f)
  <2> DEFINE g == [f EXCEPT !.step = "answered"]
  <2>1. /\ requests' = (requests \ {f}) \cup {g} /\ UNCHANGED <<repo, panelRoot, changes, list, viewed, store>>
        /\ f.step # "answered" /\ fails' = fails + 1
    BY <1>2 DEF Repository!Fails
  <2>2. f \in RequestRecs /\ SoundRequest(f) /\ fails' \in Nat \ {0}
    BY <2>1 DEF RepoInv, RepoTypes, FlightsFine
  <2>3. /\ g \in RequestRecs /\ g.op = f.op /\ g.root = f.root /\ g.here = f.here /\ g.step = "answered" /\ ~g.ok
        /\ g.skip = f.skip /\ g.from = f.from
    BY <2>1, <2>2 DEF RequestRecs, SoundRequest
  <2> HIDE DEF g
  <2>4. SoundRequest(g)
    BY <2>2, <2>3 DEF SoundRequest
  <2> QED BY <2>1, <2>2, <2>3, <2>4, ReplaceFine
<1> QED BY <1>1, <1>2
(* The answers. takePage keeps the list a list ...                         *)
LEMMA TakePageTypes ==
  ASSUME RepoInv, NEW res \in PageRecs, NEW skip \in Nat
  PROVE  LET l == Repository!takePage(res, skip)
         IN /\ l \in Lists
            /\ ~res.is => l.head = 0 /\ l.rows = <<>>
            /\ res.is /\ l.rows # list.rows => l.head = res.head
            /\ res.is /\ list.rows # None /\ res.head # list.head /\ skip # 0 =>
                 l.rows = list.rows /\ l.head = list.head
            /\ res.is /\ list.rows # None /\ res.head = list.head =>
                 l.head = list.head /\ l.rows = IF skip = 0 THEN list.rows ELSE list.rows \o res.rows
            /\ res.is /\ list.rows = None /\ skip # 0 => l.rows = None /\ l.head = list.head
            /\ res.is /\ (list.rows = None \/ res.head # list.head) /\ skip = 0 =>
                 l.head = res.head /\ l.rows = res.rows
<1> DEFINE first == [is |-> TRUE, head |-> res.head, branch |-> res.branch, more |-> res.more, error |-> FALSE,
                    rows |-> res.rows]
           kept == [list EXCEPT !.is = TRUE, !.error = FALSE]
           none == [list EXCEPT !.is = FALSE, !.rows = <<>>, !.head = 0, !.more = FALSE, !.error = FALSE]
           longer == [first EXCEPT !.rows = list.rows \o res.rows]
           same == list.rows # None /\ res.head = list.head
<1>1. list \in Lists
  BY DEF RepoInv, RepoTypes
<1>2. first \in Lists /\ first.head = res.head /\ first.rows = res.rows
  BY DEF Lists, PageRecs
<1>3. kept \in Lists /\ kept.head = list.head /\ kept.rows = list.rows
  BY <1>1 DEF Lists
<1>4. none \in Lists /\ none.head = 0 /\ none.rows = <<>>
  <2>1. <<>> \in {None} \cup Seq(Nat)
    BY EmptySeq
  <2> QED BY <1>1, <2>1 DEF Lists
<1>5. ASSUME list.rows # None
      PROVE  longer \in Lists /\ longer.head = res.head /\ longer.rows = list.rows \o res.rows
  <2>1. list.rows \o res.rows \in Seq(Nat)
    BY <1>1, <1>5, ConcatProperties DEF Lists, PageRecs
  <2> DEFINE both == list.rows \o res.rows
  <2> HIDE DEF first, both
  <2>2. [first EXCEPT !.rows = both] \in Lists /\ [first EXCEPT !.rows = both].head = first.head
        /\ [first EXCEPT !.rows = both].rows = both
    BY <1>2, <2>1 DEF Lists, both
  <2> QED BY <1>2, <2>2 DEF both
<1>6. Repository!takePage(res, skip) =
        IF ~res.is THEN none
        ELSE IF skip = 0 THEN (IF same THEN kept ELSE first)
        ELSE IF same THEN longer ELSE kept
  BY DEF Repository!takePage
<1> HIDE DEF first, kept, none, longer
<1> QED BY <1>2, <1>3, <1>4, <1>5, <1>6

(* ... and, while git only commits, the beginning of a log.                *)
LEMMA TakePageAligned ==
  ASSUME RepoInv, NEW f \in requests, PageFlight(f), f.step = "answered", fails = 0, repo[panelRoot].grew
  PROVE  LET l == Repository!takePage(f.res, f.skip)
         IN /\ f.ok /\ ListFine(l, repo[panelRoot])
            /\ \A g \in requests \ {f} : PageFlight(g) => Aligned(g, l, repo[panelRoot])
<1> DEFINE R == repo[panelRoot]
           l == Repository!takePage(f.res, f.skip)
           res == f.res
<1>1. /\ f \in RequestRecs /\ SoundRequest(f) /\ f.op \in {"page", "more"} /\ Aligned(f, list, R) /\ ListFine(list, R)
      /\ R \in Repos /\ list \in Lists /\ f.ok /\ f.skip \in Nat
  BY DEF RepoInv, RepoTypes, FlightsFine, PageFlight, AllAligned, Aligned, RequestRecs
<1>2. res \in PageRecs /\ res.is = R.is /\ res.head \in Nat
  BY <1>1 DEF SoundRequest, Aligned, PageRecs
<1>3. /\ l \in Lists
      /\ ~res.is => l.head = 0 /\ l.rows = <<>>
      /\ res.is /\ list.rows # None /\ res.head # list.head /\ f.skip # 0 => l.rows = list.rows /\ l.head = list.head
      /\ res.is /\ list.rows # None /\ res.head = list.head =>
           l.head = list.head /\ l.rows = IF f.skip = 0 THEN list.rows ELSE list.rows \o res.rows
      /\ res.is /\ list.rows = None /\ f.skip # 0 => l.rows = None /\ l.head = list.head
      /\ res.is /\ (list.rows = None \/ res.head # list.head) /\ f.skip = 0 => l.head = res.head /\ l.rows = res.rows
  BY <1>1, <1>2, TakePageTypes
<1>4. ASSUME NEW g \in requests \ {f}, PageFlight(g)
      PROVE  /\ Aligned(g, list, R) /\ SoundRequest(g) /\ g \in RequestRecs /\ g.op \in {"page", "more"} /\ g.op # f.op
  BY <1>4 DEF RepoInv, FlightsFine, AllAligned, PageFlight
<1> HIDE DEF R, l, res
<1>5. CASE ~res.is
  <2>1. ListFine(l, R)
    BY <1>1, <1>3, <1>5, EmptySeq DEF ListFine, Repos
  <2>2. ASSUME NEW g \in requests \ {f}, PageFlight(g) PROVE Aligned(g, l, R)
    BY <1>1, <1>2, <1>4, <1>5, <2>2 DEF Aligned, ListFine, SoundRequest, Lists
  <2> QED BY <1>1, <2>1, <2>2 DEF l, R, res
<1>6. CASE res.is /\ l.rows = list.rows /\ l.head = list.head
  <2>1. ListFine(l, R)
    BY <1>1, <1>6 DEF ListFine
  <2>2. ASSUME NEW g \in requests \ {f}, PageFlight(g) PROVE Aligned(g, l, R)
    BY <1>4, <1>6, <2>2 DEF Aligned
  <2> QED BY <1>1, <2>1, <2>2 DEF l, R, res
<1>7. CASE res.is /\ f.op = "page" /\ (list.rows = None \/ res.head # list.head)
  <2>1. f.skip = 0 /\ l.head = res.head /\ l.rows = res.rows /\ list.head <= res.head /\ res.head <= R.head /\ R.is
    BY <1>1, <1>2, <1>3, <1>7 DEF SoundRequest, Aligned, res
  <2>2. Len(res.rows) <= res.head /\ \A i \in 1..Len(res.rows) : res.rows[i] = res.head + 1 - i
    <3>1. res.rows = Piece(res.head, 0)
      BY <1>1, <1>7, <2>1 DEF SoundRequest, res
    <3>2. 0 + Len(res.rows) <= res.head /\ \A i \in 1..Len(res.rows) : res.rows[i] = res.head + 1 - (0 + i)
      <4>1. 0 <= res.head /\ 0 \in Nat
        BY <1>2
      <4>2. /\ 0 + Len(Piece(res.head, 0)) <= res.head
            /\ \A i \in 1..Len(Piece(res.head, 0)) : Piece(res.head, 0)[i] = res.head + 1 - (0 + i)
        BY <1>2, <4>1, PageRows
      <4> QED BY <3>1, <4>2
    <3>3. Len(res.rows) \in Nat
      BY <1>2, LenProperties DEF PageRecs
    <3> QED BY <1>2, <3>2, <3>3
  <2>3. ListFine(l, R)
    BY <2>1, <2>2 DEF ListFine
  <2>4. ASSUME NEW g \in requests \ {f}, PageFlight(g) PROVE Aligned(g, l, R)
    <3>1. g.op = "more" /\ Aligned(g, list, R) /\ g.from \in Nat
      BY <1>4, <1>7, <2>4 DEF SoundRequest
    <3>2. list.head \in Nat
      BY <1>1 DEF Lists
    <3>3. g.from < res.head
      BY <1>2, <1>7, <2>1, <3>1, <3>2 DEF Aligned
    <3>4. g.from <= l.head /\ g.from # l.head
      BY <1>2, <2>1, <3>1, <3>3
    <3> QED BY <3>1, <3>4 DEF Aligned
  <2> QED BY <1>1, <2>3, <2>4 DEF l, R, res
<1>8. CASE res.is /\ f.op = "more" /\ list.rows # None /\ res.head = list.head
  <2>1. f.skip # 0 /\ f.skip = Len(list.rows) /\ l.head = list.head /\ l.rows = list.rows \o res.rows
    BY <1>1, <1>2, <1>3, <1>8 DEF SoundRequest, Aligned, res
  <2>2. list.rows \in Seq(Nat) /\ res.rows \in Seq(Nat) /\ list.head \in Nat /\ Len(list.rows) \in Nat
        /\ Len(res.rows) \in Nat
    BY <1>1, <1>2, <1>8, LenProperties DEF Lists, PageRecs
  <2>3. Len(list.rows) <= list.head /\ \A i \in 1..Len(list.rows) : list.rows[i] = list.head + 1 - i
    BY <1>1, <1>8 DEF ListFine
  <2> DEFINE s == Len(list.rows)
             n == Len(res.rows)
  <2>4. s + n <= list.head /\ \A i \in 1..n : res.rows[i] = list.head + 1 - (s + i)
    <3>1. res.rows = Piece(res.head, f.skip)
      BY <1>1, <1>8 DEF SoundRequest, res
    <3>2. f.skip \in Nat /\ f.skip <= res.head /\ s = f.skip
      BY <1>1, <1>8, <2>1, <2>3
    <3> HIDE DEF s
    <3>3. /\ f.skip + Len(res.rows) <= res.head
          /\ \A i \in 1..Len(res.rows) : res.rows[i] = res.head + 1 - (f.skip + i)
      <4>1. /\ f.skip + Len(Piece(res.head, f.skip)) <= res.head
            /\ \A i \in 1..Len(Piece(res.head, f.skip)) :
                 Piece(res.head, f.skip)[i] = res.head + 1 - (f.skip + i)
        BY <1>2, <3>2, PageRows
      <4> QED BY <3>1, <4>1
    <3> QED BY <1>8, <3>2, <3>3
  <2>5. /\ Len(l.rows) = s + n
        /\ \A i \in 1..s + n : l.rows[i] = IF i <= s THEN list.rows[i] ELSE res.rows[i - s]
    <3>1. /\ Len(list.rows \o res.rows) = s + n
          /\ \A i \in 1..s + n : (list.rows \o res.rows)[i] = IF i <= s THEN list.rows[i] ELSE res.rows[i - s]
      BY <2>2, RowsFollow
    <3> QED BY <2>1, <3>1
  <2>9. s \in Nat /\ n \in Nat /\ \A i \in 1..s : list.rows[i] = list.head + 1 - i
    BY <2>2, <2>3
  <2> HIDE DEF s, n
  <2>6. ASSUME NEW i \in 1..s + n PROVE l.rows[i] = l.head + 1 - i
    <3>1. CASE i <= s
      <4>1. l.rows[i] = list.rows[i] /\ i \in 1..s
        BY <2>5, <2>9, <3>1
      <4>2. list.rows[i] = list.head + 1 - i
        BY <2>9, <4>1
      <4> QED BY <2>1, <4>1, <4>2
    <3>2. CASE i > s
      <4>1. i - s \in 1..n /\ list.head + 1 - (s + (i - s)) = list.head + 1 - i
        BY <2>2, <2>9, <3>2
      <4>2. l.rows[i] = res.rows[i - s]
        BY <2>5, <2>9, <3>2
      <4>3. res.rows[i - s] = list.head + 1 - (s + (i - s))
        BY <2>4, <4>1
      <4> QED BY <2>1, <4>1, <4>2, <4>3
    <3> QED BY <2>9, <3>1, <3>2
  <2>7. ListFine(l, R)
    BY <1>1, <2>1, <2>2, <2>4, <2>5, <2>6 DEF ListFine
  <2>8. ASSUME NEW g \in requests \ {f}, PageFlight(g) PROVE Aligned(g, l, R)
    BY <1>4, <1>8, <2>1, <2>8 DEF Aligned
  <2> QED BY <1>1, <2>7, <2>8 DEF l, R, res
<1>9. \/ ~res.is \/ (res.is /\ l.rows = list.rows /\ l.head = list.head)
      \/ res.is /\ f.op = "page" /\ (list.rows = None \/ res.head # list.head)
      \/ res.is /\ f.op = "more" /\ list.rows # None /\ res.head = list.head
  BY <1>1, <1>3 DEF SoundRequest
<1> QED BY <1>5, <1>6, <1>7, <1>8, <1>9
LEMMA TakesStep ==
  ASSUME RepoInv, NEW f \in requests, Repository!Takes(f)
  PROVE  RepoInv'
<1> DEFINE rest == requests \ {f}
<1>0. /\ f \in RequestRecs /\ SoundRequest(f) /\ f.step = "answered" /\ panelRoot \in Roots
      /\ f.here /\ f.op \in Watched => f.root = panelRoot
      /\ FlightsFine(rest, panelRoot) /\ StoreFine(rest, store)
      /\ \A g \in rest : PageFlight(g) => g \in requests
      /\ UNCHANGED <<repo, panelRoot, fails>>
      /\ \/ Repository!TakesChanges(f, rest) \/ Repository!TakesPage(f, rest)
         \/ Repository!TakesCommit(f, rest) \/ Repository!Drops(f, rest)
  BY DEF Repository!Takes, RepoInv, RepoTypes, FlightsFine, StoreFine
<1> HIDE DEF rest
<1>1. CASE Repository!TakesChanges(f, rest)
  <2> DEFINE gs == Repository!Rendered(rest, changes', list, tab, FALSE)
  <2>1. /\ f.op = "changes" /\ f.here /\ changes' = (IF f.ok THEN f.res ELSE [k |-> "error"])
        /\ requests' = gs /\ UNCHANGED <<list, store>>
        /\ viewed' = IF f.ok /\ f.res.is /\ Repository!Notes(f.root) THEN [viewed EXCEPT !.repoRoot = f.root] ELSE viewed
    BY <1>1 DEF Repository!TakesChanges
  <2>2. f.root = panelRoot /\ (f.ok => f.res \in ChangedRecs /\ f.res.root = panelRoot)
    BY <1>0, <2>1 DEF SoundRequest, Watched
  <2>3. /\ changes' \in {Repository!NotAsked, [k |-> "error"]} \cup ChangedRecs
        /\ changes'.k = "ready" => changes' \in ChangedRecs /\ changes'.root = panelRoot
    BY <2>1, <2>2
  <2>4. viewed' \in {None} \cup Views /\ (viewed' # None => viewed' \in Views /\ viewed'.repoRoot \in {None, viewed'.root})
    <3>1. viewed \in {None} \cup Views /\ (viewed # None => viewed \in Views /\ viewed.repoRoot \in {None, viewed.root})
      BY DEF RepoInv, RepoTypes
    <3>2. CASE viewed' = viewed
      BY <3>1, <3>2
    <3>3. CASE Repository!Notes(f.root) /\ viewed' = [viewed EXCEPT !.repoRoot = f.root]
      <4>1. viewed \in Views /\ viewed.root = f.root /\ f.root \in Roots
        BY <1>0, <2>2, <3>1, <3>3 DEF Repository!Notes
      <4>2. viewed' \in Views /\ viewed'.repoRoot = f.root /\ viewed'.root = f.root
        BY <3>3, <4>1 DEF Views
      <4> QED BY <4>2
    <3> QED BY <2>1, <3>2, <3>3
  <2>5. /\ FlightsFine(gs, panelRoot) /\ StoreFine(gs, store)
        /\ \A g \in gs : PageFlight(g) => g \in rest \/ (g.op = "page" /\ g.step = "sent")
    BY <1>0, RenderedFine
  <2> HIDE DEF gs
  <2>6. \A g \in requests' : PageFlight(g) => g \in requests \/ FreshOne(g)
    BY <1>0, <2>1, <2>5 DEF FreshOne
  <2>7. UNCHANGED <<repo, panelRoot, list, fails>> /\ FlightsFine(requests', panelRoot) /\ StoreFine(requests', store')
    BY <1>0, <2>1, <2>5
  <2> QED BY <2>3, <2>4, <2>6, <2>7, QuietStep
<1>2. CASE Repository!TakesPage(f, rest)
  <2> DEFINE l == Repository!takePage(f.res, f.skip)
             bad == [list EXCEPT !.error = TRUE, !.rows = IF f.op = "page" THEN None ELSE @]
             gs == Repository!Rendered(rest, changes, list', tab, FALSE)
  <2>1. /\ PageFlight(f) /\ f.op \in {"page", "more"} /\ requests' = gs /\ UNCHANGED <<changes, viewed, store>>
        /\ list' = IF f.ok THEN l ELSE bad
    BY <1>2 DEF Repository!TakesPage, PageFlight
  <2>2. /\ FlightsFine(gs, panelRoot) /\ StoreFine(gs, store)
        /\ \A g \in gs : PageFlight(g) => g \in rest \/ (g.op = "page" /\ g.step = "sent")
    BY <1>0, RenderedFine
  <2>3. l \in Lists \/ ~f.ok
    <3>1. f.ok => f.res \in PageRecs /\ f.skip \in Nat
      BY <1>0, <2>1 DEF SoundRequest, RequestRecs
    <3> QED BY <3>1, TakePageTypes
  <2>4. bad \in Lists
    BY DEF RepoInv, RepoTypes, Lists
  <2> HIDE DEF l, bad, gs
  <2>5. ASSUME fails = 0, repo[panelRoot].grew PROVE AllAligned(requests', list', repo[panelRoot])
    <3>1. /\ f.ok /\ ListFine(l, repo[panelRoot])
          /\ \A g \in rest : PageFlight(g) => Aligned(g, l, repo[panelRoot])
      BY <1>0, <2>1, <2>5, TakePageAligned DEF l, rest
    <3>2. \A g : g.op = "page" /\ g.step = "sent" => Aligned(g, l, repo[panelRoot])
      BY DEF Aligned
    <3> QED BY <2>1, <2>2, <3>1, <3>2 DEF AllAligned
  <2>6. list' \in Lists /\ FlightsFine(requests', panelRoot) /\ StoreFine(requests', store')
    BY <2>1, <2>2, <2>3, <2>4
  <2> QED BY <1>0, <2>1, <2>5, <2>6 DEF RepoInv, RepoTypes
<1>3. CASE Repository!TakesCommit(f, rest)
  <2> DEFINE k == IF f.ok THEN "ready" ELSE "error"
  <2>1. /\ f.op \in {"commit", "diff"} /\ f.here /\ requests' = rest /\ UNCHANGED <<changes, list, viewed>>
        /\ store' = IF f.op = "commit" THEN [store EXCEPT !.k = k] ELSE [store EXCEPT !.diff = k]
    BY <1>3 DEF Repository!TakesCommit
  <2>2. store \in Stores /\ k \in {"ready", "error"}
    BY <2>1 DEF RepoInv, StoreFine
  <2> HIDE DEF k
  <2>3. store' \in Stores
    BY <2>1, <2>2 DEF Stores
  <2>4. FlightsFine(requests', panelRoot) /\ StoreFine(requests', store')
    BY <1>0, <2>1, <2>3 DEF StoreFine
  <2>5. \A g \in requests' : PageFlight(g) => g \in requests \/ FreshOne(g)
    BY <1>0, <2>1
  <2> QED BY <1>0, <2>1, <2>4, <2>5, QuietStep DEF RepoInv, RepoTypes
<1>4. CASE Repository!Drops(f, rest)
  <2>1. requests' = rest /\ UNCHANGED <<changes, list, viewed, store>>
    BY <1>4 DEF Repository!Drops
  <2>2. \A g \in requests' : PageFlight(g) => g \in requests \/ FreshOne(g)
    BY <1>0, <2>1
  <2>3. FlightsFine(requests', panelRoot) /\ StoreFine(requests', store')
    BY <1>0, <2>1
  <2> QED BY <1>0, <2>1, <2>2, <2>3, QuietStep DEF RepoInv, RepoTypes
<1> QED BY <1>0, <1>1, <1>2, <1>3, <1>4

LEMMA RepoStarts == Repository!GitInit => RepoInv
<1> SUFFICES ASSUME Repository!GitInit PROVE RepoInv
  OBVIOUS
<1> DEFINE start == CHOOSE b \in Branches : TRUE
           q == Repository!Request("changes", panelRoot)
<1>1. start \in Branches /\ panelRoot \in Roots
  BY ContentsAssumption DEF Repository!PagesOfRows, Repository!GitInit
<1>2. repo \in [Roots -> {[is |-> n > 0, head |-> n, top |-> n, branch |-> start, grew |-> TRUE] : n \in {0, 2}}]
  BY DEF Repository!GitInit
<1> HIDE DEF start
<1>3. /\ repo \in [Roots -> Repos] /\ \A r \in Roots : repo[r].head <= repo[r].top
      /\ \A r \in Roots : repo[r].head >= 0
  <2> DEFINE Starts == {[is |-> n > 0, head |-> n, top |-> n, branch |-> start, grew |-> TRUE] : n \in {0, 2}}
  <2>1. ASSUME NEW m \in Starts PROVE m \in Repos /\ m.head <= m.top /\ m.head >= 0
    <3>1. PICK n \in {0, 2} : m = [is |-> n > 0, head |-> n, top |-> n, branch |-> start, grew |-> TRUE]
      OBVIOUS
    <3>2. n \in Nat /\ (n > 0) \in BOOLEAN
      OBVIOUS
    <3>3. m.head = n /\ m.top = n
      BY <3>1
    <3>4. m \in Repos
      BY <1>1, <3>1, <3>2 DEF Repos
    <3> QED BY <3>2, <3>3, <3>4
  <2>2. repo \in [Roots -> Starts]
    BY <1>2
  <2> HIDE DEF Starts
  <2> QED BY <2>1, <2>2
<1>4. /\ changes = Repository!NotAsked /\ list = Repository!NoList /\ viewed = None /\ store = None
      /\ requests = {q} /\ fails = 0
  BY DEF Repository!GitInit
<1>5. q \in RequestRecs /\ q.op = "changes" /\ q.root = panelRoot /\ q.step = "sent" /\ ~q.ok
  BY <1>1, RequestFacts DEF Watched
<1> HIDE DEF q
<1>6. SoundRequest(q) /\ ~PageFlight(q)
  BY <1>5 DEF SoundRequest, PageFlight
<1>7. FlightsFine(requests, panelRoot) /\ StoreFine(requests, store)
  BY <1>4, <1>5, <1>6 DEF FlightsFine, StoreFine
<1>8. list \in Lists /\ list.rows = None /\ list.head = 0
  BY <1>4 DEF Repository!NoList, Lists
<1>9. AllAligned(requests, list, repo[panelRoot])
  BY <1>1, <1>3, <1>4, <1>6, <1>8 DEF AllAligned, ListFine
<1>10. changes.k = "none" /\ viewed = None
  BY <1>4 DEF Repository!NotAsked
<1> QED BY <1>1, <1>3, <1>4, <1>7, <1>8, <1>9, <1>10 DEF RepoInv, RepoTypes

(* The rows of the log are the beginning of it while git only commits and  *)
(* no request fails, whatever pages, polls and roots come and go in        *)
(* between, and a commit that is looked at opens files of its own          *)
(* repository only.                                                        *)
THEOREM LogStaysInOrder == Repository!GitSpec => []LogIsInOrder
<1>1. Repository!GitInit => RepoInv
  BY RepoStarts
<1>2. RepoInv /\ [Repository!GitNext]_(Repository!gitVars) => RepoInv'
  <2> SUFFICES ASSUME RepoInv, [Repository!GitNext]_(Repository!gitVars) PROVE RepoInv'
    OBVIOUS
  <2>1. CASE UNCHANGED Repository!gitVars
    BY <2>1, QuietStep DEF Repository!gitVars, RepoInv, RepoTypes
  <2>2. CASE Repository!GitNext
    BY <2>2, UserStep, ShowsStep, MovesStep, ServesStep, TakesStep DEF Repository!GitNext, Repository!Answers
  <2> QED BY <2>1, <2>2
<1>3. RepoInv => LogIsInOrder
  <2> SUFFICES ASSUME RepoInv PROVE LogIsInOrder
    OBVIOUS
  <2>1. Repository!OpensInItsRepository
    BY DEF RepoInv, Repository!OpensInItsRepository
  <2>2. ASSUME fails = 0, repo[panelRoot].grew, list.rows # None
        PROVE  /\ Len(list.rows) <= list.head
               /\ \A i \in 1..Len(list.rows) : list.rows[i] = Repository!Log(list.head)[i]
    <3>1. ListFine(list, repo[panelRoot]) /\ list.head \in Nat /\ Len(list.rows) \in Nat
      BY <2>2, LenProperties DEF RepoInv, RepoTypes, AllAligned, Lists
    <3>2. \A i \in 1..Len(list.rows) : i \in 1..list.head
      BY <2>2, <3>1 DEF ListFine
    <3> QED BY <2>2, <3>1, <3>2 DEF ListFine, Repository!Log
  <2> QED BY <2>1, <2>2 DEF LogIsInOrder, Repository!RowsAreHistory
<1> QED BY <1>1, <1>2, <1>3, PTL DEF Repository!GitSpec

-----------------------------------------------------------------------------
(***************************************************************************)
(* The text of an open file                                                *)
(***************************************************************************)

(* What a request holds, whatever body sent it.                            *)
Stamps == Int \cup {None}
Asks ==
  [pane : Panes, body : Nat, op : {"first", "write", "load", "follow"}, gen : {0, 1}, sent : Stamps,
   heir : BOOLEAN, text : Stamps, expect : Stamps, over : Stamps,
   state : {"sent", "ok", "gone", "changed", "error"}, got : Stamps]
Bodies ==
  [id : Nat, field : BOOLEAN, stamp : Stamps, shown : Stamps, out : Int, saving : BOOLEAN, gen : {0, 1},
   conflict : BOOLEAN, heir : BOOLEAN]

SeenIn(h) == {h[i] : i \in DOMAIN h}
Later(h, c, d) == \E i, j \in DOMAIN h : i <= j /\ h[i] = c /\ h[j] = d

EdTypes ==
  /\ disk \in Int /\ contents \in Nat /\ built \in Nat /\ history \in Seq(Int)
  /\ edit \in Stamps /\ typedOver \in Stamps
  /\ pane \in [Panes -> Bodies \cup {None}] /\ wire \subseteq Asks

AskTold(r, h, most, bodies) ==
  /\ r.body <= bodies
  /\ r.state = "sent" => r.got = None
  /\ r.op = "write" => r.text \in Int /\ r.text <= most
  /\ r.op = "write" /\ r.state = "ok" => r.text \in SeenIn(h)
  /\ r.op # "write" /\ r.state = "ok" => r.got \in SeenIn(h)
  /\ r.op = "follow" => r.sent \in SeenIn(h)
  /\ r.op = "follow" /\ r.state = "ok" => Later(h, r.sent, r.got)

(* The write the backend is in the middle of is a request under way.       *)
Doing(w, r) == r.op = "write" /\ r.state = "sent" /\ (w = r \/ w = [r EXCEPT !.got = "torn"])

Told ==
  /\ EdTypes
  /\ edit # None => edit <= contents
  /\ disk # Files!Gone => Len(history) > 0 /\ disk = history[Len(history)]
  /\ writing # None => \E r \in wire : Doing(writing, r)
  /\ \A r \in wire : AskTold(r, history, contents, built)
  /\ \A b \in Panes : pane[b] # None => pane[b].id <= built /\ pane[b].stamp \in SeenIn(history) \cup {None}

(* What the body holds against the unsaved text, and against the requests  *)
(* it sent.                                                                *)
Sent(r, x) == x # None /\ x.id = r.body
Own(x) == x # None /\ x.field /\ ~x.heir
TextFits(x, text, over) ==
  Own(x) => /\ x.stamp # None
            /\ IF text # None THEN x.shown = text /\ over = x.stamp ELSE x.shown = x.stamp
AskFits(r, x, text) ==
  /\ r.op = "load" => x = None \/ Sent(r, x)
  /\ r.op = "first" /\ Sent(r, x) => ~x.field
  /\ r.op = "write" /\ Sent(r, x) => x.saving /\ ~x.conflict
  /\ r.op = "write" /\ ~r.heir /\ r.over # None => r.expect = r.over
  /\ r.op = "write" /\ Own(x) => text # IF Sent(r, x) THEN None ELSE r.text
AsksApart(w, x) ==
  \A q, r \in w : Sent(q, x) /\ Sent(r, x) =>
    /\ q.op = r.op /\ q.op \in {"first", "write"} => q = r
    /\ r.op = "write" => q.op \notin {"first", "load"}
Fits(w, x, text, over) == TextFits(x, text, over) /\ AsksApart(w, x) /\ \A r \in w : AskFits(r, x, text)

EditInv == Told /\ \A b \in Panes : Fits(wire, pane[b], edit, typedOver)

LEMMA HistoryGrows ==
  ASSUME NEW h \in Seq(Int), NEW c \in Int
  PROVE  /\ Append(h, c) \in Seq(Int) /\ Len(Append(h, c)) > 0
         /\ Append(h, c)[Len(Append(h, c))] = c
         /\ SeenIn(h) \subseteq SeenIn(Append(h, c)) /\ c \in SeenIn(Append(h, c))
         /\ \A d, e : Later(h, d, e) => Later(Append(h, c), d, e)
<1> DEFINE g == Append(h, c)
<1>1. g \in Seq(Int) /\ Len(g) = Len(h) + 1 /\ g[Len(g)] = c /\ DOMAIN g = 1..Len(g) /\ DOMAIN h = 1..Len(h)
      /\ Len(h) \in Nat
  OBVIOUS
<1>2. \A i \in DOMAIN h : i \in DOMAIN g /\ g[i] = h[i]
  OBVIOUS
<1> HIDE DEF g
<1>3. SeenIn(h) \subseteq SeenIn(g)
  BY <1>2 DEF SeenIn
<1>4. Len(g) \in DOMAIN g
  BY <1>1
<1>5. c \in SeenIn(g)
  BY <1>1, <1>4 DEF SeenIn
<1>6. \A d, e : Later(h, d, e) => Later(g, d, e)
  BY <1>2 DEF Later
<1> QED BY <1>1, <1>3, <1>5, <1>6 DEF g

(* The last of a history is seen, and later than all of it.                *)
LEMMA LastIsLatest ==
  ASSUME NEW h \in Seq(Int), Len(h) > 0
  PROVE  /\ h[Len(h)] \in SeenIn(h)
         /\ \A c \in SeenIn(h) : Later(h, c, h[Len(h)]) /\ Later(h, c, c)
         /\ SeenIn(h) \subseteq Int
<1>1. Len(h) \in DOMAIN h /\ DOMAIN h = 1..Len(h) /\ Len(h) \in Nat /\ \A i \in DOMAIN h : h[i] \in Int
  OBVIOUS
<1>2. \A i \in DOMAIN h : i <= Len(h) /\ i <= i
  BY <1>1
<1> QED BY <1>1, <1>2 DEF SeenIn, Later

LEMMA StaysTold ==
  ASSUME NEW h \in Seq(Int), NEW c \in Int, NEW most \in Nat, NEW more \in Nat, most <= more,
         NEW bodies \in Nat, NEW q \in Nat, bodies <= q,
         NEW r \in Asks, AskTold(r, h, most, bodies)
  PROVE  AskTold(r, Append(h, c), more, q) /\ AskTold(r, h, more, q)
<1>1. r.body \in Nat
  BY DEF Asks
<1>2. r.body <= q
  BY <1>1 DEF AskTold
<1>3. r.op = "write" => r.text \in Int /\ r.text <= more
  BY DEF AskTold
<1> QED BY <1>2, <1>3, HistoryGrows DEF AskTold

(* A request keeps what it is when it is answered.                         *)
Replied(r, s, g) == [r EXCEPT !.state = s, !.got = g]
LEMMA AnswerTypes ==
  ASSUME NEW r \in Asks, NEW s \in {"sent", "ok", "gone", "changed", "error"}, NEW g \in Stamps
  PROVE  LET a == Replied(r, s, g) IN
         /\ a \in Asks /\ a.state = s /\ a.got = g /\ a.op = r.op /\ a.body = r.body /\ a.sent = r.sent
         /\ a.text = r.text /\ a.pane = r.pane /\ a.heir = r.heir /\ a.over = r.over /\ a.expect = r.expect
BY DEF Asks, Replied

LEMMA RefusalTypes ==
  ASSUME NEW r \in Asks, NEW s, s \in {"gone", "changed", "error"}, NEW a, a = Replied(r, s, None)
  PROVE  /\ a \in Asks /\ a.state = s /\ a.got = None /\ a.op = r.op /\ a.body = r.body /\ a.sent = r.sent
         /\ a.text = r.text /\ a.pane = r.pane /\ a.heir = r.heir /\ a.over = r.over /\ a.expect = r.expect
BY DEF Asks, Replied, Stamps

LEMMA AskTypes ==
  ASSUME NEW b \in Panes, NEW x \in Bodies, NEW op \in {"first", "write", "load", "follow"}
  PROVE  LET a == Files!Ask(b, x, op) IN
         /\ a \in Asks /\ a.state = "sent" /\ a.got = None /\ a.op = op /\ a.body = x.id /\ a.sent = x.stamp
         /\ a.text = None /\ a.pane = b /\ a.heir = x.heir /\ a.over = None /\ a.expect = None
BY DEF Files!Ask, Asks, Bodies, Stamps

WriteAsk(b, x, t, e, o) == [Files!Ask(b, x, "write") EXCEPT !.text = t, !.expect = e, !.over = o]
LEMMA WriteTypes ==
  ASSUME NEW b \in Panes, NEW x \in Bodies, NEW t \in Stamps, NEW e \in Stamps, NEW o \in Stamps
  PROVE  LET a == WriteAsk(b, x, t, e, o) IN
         /\ a \in Asks /\ a.state = "sent" /\ a.got = None /\ a.op = "write" /\ a.body = x.id
         /\ a.text = t /\ a.pane = b /\ a.heir = x.heir /\ a.over = o /\ a.expect = e
<1> DEFINE a == Files!Ask(b, x, "write")
<1>1. a \in Asks /\ a.state = "sent" /\ a.got = None /\ a.op = "write" /\ a.body = x.id /\ a.pane = b /\ a.heir = x.heir
  BY AskTypes
<1> HIDE DEF a
<1>2. LET z == [a EXCEPT !.text = t, !.expect = e, !.over = o] IN
      /\ z \in Asks /\ z.state = "sent" /\ z.got = None /\ z.op = "write" /\ z.body = x.id
      /\ z.text = t /\ z.pane = b /\ z.heir = x.heir /\ z.over = o /\ z.expect = e
  BY <1>1 DEF Asks
<1> QED BY <1>2 DEF a, WriteAsk

LEMMA NoneIsNoText == None \notin Int
BY ContentsAssumption DEF Files!TextsApart

(* What the page and the user do: no file changes.                         *)
LEMMA PageStaysTold ==
  ASSUME Told, UNCHANGED <<disk, history, writing>>,
         contents' \in Nat, contents <= contents', built' \in Nat, built <= built',
         edit' \in Stamps, typedOver' \in Stamps, edit' # None => edit' <= contents',
         pane' \in [Panes -> Bodies \cup {None}],
         \A b \in Panes : pane'[b] # None => pane'[b].id <= built' /\ pane'[b].stamp \in SeenIn(history) \cup {None},
         wire' \subseteq Asks, \A r \in wire' : r \in wire \/ AskTold(r, history, contents', built'),
         \A r \in wire : r.state = "sent" => r \in wire'
  PROVE  Told'
<1>1. EdTypes'
  BY DEF Told, EdTypes
<1>2. disk' # Files!Gone => Len(history') > 0 /\ disk' = history'[Len(history')]
  BY DEF Told
<1>3. writing' # None => \E r \in wire' : Doing(writing', r)
  BY DEF Told, Doing
<1>4. ASSUME NEW r \in wire' PROVE AskTold(r, history', contents', built')
  <2>1. CASE r \in wire
    <3>1. AskTold(r, history, contents, built) /\ r \in Asks
      BY <2>1 DEF Told, EdTypes
    <3>2. history \in Seq(Int) /\ contents \in Nat /\ built \in Nat /\ 0 \in Int
      BY DEF Told, EdTypes
    <3>3. AskTold(r, history, contents', built')
      BY <3>1, <3>2, StaysTold
    <3> QED BY <3>3
  <2> QED BY <2>1
<1> QED BY <1>1, <1>2, <1>3, <1>4 DEF Told

LEMMA OneBodyChanges ==
  ASSUME Told, NEW b \in Panes, NEW x \in Bodies \cup {None}, built' \in Nat, built <= built',
         x # None => x.id <= built' /\ x.stamp \in SeenIn(history) \cup {None},
         pane' = [pane EXCEPT ![b] = x]
  PROVE  /\ pane' \in [Panes -> Bodies \cup {None}]
         /\ \A c \in Panes : pane'[c] # None => pane'[c].id <= built' /\ pane'[c].stamp \in SeenIn(history) \cup {None}
<1>1. pane \in [Panes -> Bodies \cup {None}] /\ built \in Nat
  BY DEF Told, EdTypes
<1>2. ASSUME NEW c \in Panes, pane'[c] # None, c # b
      PROVE  pane'[c].id <= built' /\ pane'[c].stamp \in SeenIn(history) \cup {None}
  <2>1. pane'[c] = pane[c] /\ pane[c] \in Bodies
    BY <1>1, <1>2
  <2>2. pane[c].id \in Nat /\ pane[c].id <= built /\ pane[c].stamp \in SeenIn(history) \cup {None}
    BY <1>2, <2>1 DEF Told, Bodies
  <2> QED BY <1>1, <2>1, <2>2
<1> QED BY <1>1, <1>2

(* The answer to a request leaves the requests as they are.                *)
LEMMA AnswerStaysTold ==
  ASSUME Told, NEW r \in wire, wire' = wire \ {r}, r.state # "sent", UNCHANGED <<disk, history, contents, writing, built>>,
         edit' \in {edit, None}, typedOver' \in Stamps,
         \/ pane' = pane
         \/ \E x \in Bodies : x.id <= built /\ x.stamp \in SeenIn(history) \cup {None} /\ pane' = [pane EXCEPT ![r.pane] = x]
  PROVE  Told'
<1>1. contents \in Nat /\ built \in Nat /\ edit \in Stamps /\ (edit # None => edit <= contents)
      /\ wire \subseteq Asks /\ pane \in [Panes -> Bodies \cup {None}]
      /\ \A b \in Panes : pane[b] # None => pane[b].id <= built /\ pane[b].stamp \in SeenIn(history) \cup {None}
  BY DEF Told, EdTypes
<1>2. r.pane \in Panes
  BY <1>1 DEF Asks
<1>3. /\ pane' \in [Panes -> Bodies \cup {None}]
      /\ \A b \in Panes : pane'[b] # None => pane'[b].id <= built' /\ pane'[b].stamp \in SeenIn(history) \cup {None}
  <2>1. CASE pane' = pane
    BY <2>1, <1>1
  <2>2. ASSUME NEW x \in Bodies, x.id <= built, x.stamp \in SeenIn(history) \cup {None}, pane' = [pane EXCEPT ![r.pane] = x]
        PROVE  /\ pane' \in [Panes -> Bodies \cup {None}]
               /\ \A b \in Panes : pane'[b] # None => pane'[b].id <= built' /\ pane'[b].stamp \in SeenIn(history) \cup {None}
    <3>1. built' = built /\ built <= built' /\ x.id <= built' /\ x \in Bodies \cup {None}
      BY <1>1, <2>2
    <3> QED BY <1>1, <1>2, <2>2, <3>1, OneBodyChanges
  <2> QED BY <2>1, <2>2
<1>4. edit' \in Stamps /\ (edit' # None => edit' <= contents') /\ contents' = contents /\ contents <= contents'
      /\ built' = built /\ built <= built'
  BY <1>1 DEF Stamps
<1>5. wire' \subseteq Asks /\ (\A q \in wire' : q \in wire) /\ (\A q \in wire : q.state = "sent" => q \in wire')
  BY <1>1
<1> QED BY <1>1, <1>3, <1>4, <1>5, PageStaysTold

LEMMA RequestStaysTold ==
  ASSUME Told, NEW b \in Panes, NEW x \in Bodies, NEW a \in Asks, AskTold(a, history, contents, built'),
         x.id <= built', x.stamp \in SeenIn(history) \cup {None}, built' \in Nat, built <= built',
         wire' = wire \cup {a}, pane' = [pane EXCEPT ![b] = x],
         UNCHANGED <<disk, history, contents, writing, edit, typedOver>>
  PROVE  Told'
<1>1. contents \in Nat /\ edit \in Stamps /\ typedOver \in Stamps /\ (edit # None => edit <= contents) /\ wire \subseteq Asks
  BY DEF Told, EdTypes
<1>2. contents' = contents /\ contents <= contents' /\ x \in Bodies \cup {None}
  BY <1>1
<1>3. /\ pane' \in [Panes -> Bodies \cup {None}]
      /\ \A c \in Panes : pane'[c] # None => pane'[c].id <= built' /\ pane'[c].stamp \in SeenIn(history) \cup {None}
  BY <1>2, OneBodyChanges
<1>4. wire' \subseteq Asks /\ (\A r \in wire' : r \in wire \/ AskTold(r, history, contents', built'))
      /\ \A r \in wire : r.state = "sent" => r \in wire'
  BY <1>1, <1>2
<1> QED BY <1>1, <1>2, <1>3, <1>4, PageStaysTold

LEMMA UserStaysTold ==
  ASSUME Told, NEW b \in Panes,
         Files!Builds(b) \/ Files!Disposes(b) \/ Files!Types(b) \/ Files!Saves(b) \/ Files!Loads(b) \/ Files!Follows(b)
  PROVE  Told'
<1>0. /\ contents \in Nat /\ built \in Nat /\ edit \in Stamps /\ typedOver \in Stamps /\ (edit # None => edit <= contents)
      /\ wire \subseteq Asks /\ pane \in [Panes -> Bodies \cup {None}]
      /\ pane[b] # None => pane[b] \in Bodies /\ pane[b].id <= built /\ pane[b].stamp \in SeenIn(history) \cup {None}
      /\ SeenIn(history) \cup {None} \subseteq Stamps
  BY LastIsLatest DEF Told, EdTypes, Stamps, SeenIn
<1>1. CASE Files!Builds(b)
  <2> DEFINE x == [id |-> built + 1, field |-> FALSE, stamp |-> None, shown |-> None, out |-> 1, saving |-> FALSE,
                   gen |-> 0, conflict |-> FALSE, heir |-> FALSE]
             a == Files!Ask(b, x, "first")
  <2>1. x \in Bodies /\ x.id = built + 1 /\ x.stamp = None
    BY <1>0 DEF Bodies, Stamps
  <2>2. built' = built + 1 /\ wire' = wire \cup {a} /\ pane' = [pane EXCEPT ![b] = x]
        /\ UNCHANGED <<disk, history, contents, writing, edit, typedOver>>
    BY <1>1 DEF Files!Builds, Files!filing, Files!typist
  <2> HIDE DEF x
  <2>3. a \in Asks /\ a.state = "sent" /\ a.got = None /\ a.op = "first" /\ a.body = x.id
    BY <2>1, AskTypes
  <2> HIDE DEF a
  <2>4. built' \in Nat /\ built <= built' /\ x.id <= built' /\ AskTold(a, history, contents, built')
    BY <1>0, <2>1, <2>2, <2>3 DEF AskTold
  <2> QED BY <2>1, <2>2, <2>3, <2>4, RequestStaysTold
<1>2. CASE Files!Disposes(b)
  <2>1. pane' = [pane EXCEPT ![b] = None] /\ UNCHANGED <<disk, history, contents, writing, edit, typedOver, wire, built>>
    BY <1>2 DEF Files!Disposes, Files!filing, Files!typist
  <2>2. built' \in Nat /\ built <= built' /\ contents' \in Nat /\ contents <= contents' /\ None \in Bodies \cup {None}
    BY <1>0, <2>1
  <2>3. /\ pane' \in [Panes -> Bodies \cup {None}]
        /\ \A c \in Panes : pane'[c] # None => pane'[c].id <= built' /\ pane'[c].stamp \in SeenIn(history) \cup {None}
    BY <2>1, <2>2, OneBodyChanges
  <2> QED BY <1>0, <2>1, <2>2, <2>3, PageStaysTold
<1>3. CASE Files!Types(b)
  <2> DEFINE x == [pane[b] EXCEPT !.shown = contents + 1]
  <2>1. pane[b] # None /\ contents' = contents + 1 /\ edit' = contents + 1 /\ pane' = [pane EXCEPT ![b] = x]
        /\ typedOver' \in {typedOver, pane[b].shown} /\ UNCHANGED <<disk, history, writing, wire, built>>
    BY <1>0, <1>3 DEF Files!Types, Files!Fields, Files!Open, Files!Fresh
  <2>2. x \in Bodies /\ x.id = pane[b].id /\ x.stamp = pane[b].stamp /\ pane[b].shown \in Stamps
    BY <1>0, <2>1 DEF Bodies, Stamps
  <2> HIDE DEF x
  <2>3. built' \in Nat /\ built <= built' /\ contents' \in Nat /\ contents <= contents' /\ x \in Bodies \cup {None}
        /\ x.id <= built' /\ x.stamp \in SeenIn(history) \cup {None} /\ edit' <= contents' /\ edit' \in Stamps
        /\ typedOver' \in Stamps
    BY <1>0, <2>1, <2>2 DEF Stamps
  <2>4. /\ pane' \in [Panes -> Bodies \cup {None}]
        /\ \A c \in Panes : pane'[c] # None => pane'[c].id <= built' /\ pane'[c].stamp \in SeenIn(history) \cup {None}
    BY <2>1, <2>3, OneBodyChanges
  <2> QED BY <1>0, <2>1, <2>3, <2>4, PageStaysTold
<1>4. CASE Files!Saves(b)
  <2>1. PICK withExpect \in BOOLEAN :
          /\ b \in Files!Fields /\ Files!Dirty
          /\ pane' = [pane EXCEPT ![b].saving = TRUE, ![b].gen = 1, ![b].out = @ + 1, ![b].conflict = FALSE]
          /\ wire' = wire \cup {[Files!Ask(b, pane[b], "write") EXCEPT
                                   !.text = edit, !.expect = IF withExpect THEN pane[b].stamp ELSE None,
                                   !.over = IF withExpect THEN typedOver ELSE None]}
          /\ UNCHANGED <<disk, history, contents, writing, edit, typedOver, built>>
    BY <1>4 DEF Files!Saves, Files!filing, Files!typist
  <2> DEFINE x == [pane[b] EXCEPT !.saving = TRUE, !.gen = 1, !.out = @ + 1, !.conflict = FALSE]
             e == IF withExpect THEN pane[b].stamp ELSE None
             o == IF withExpect THEN typedOver ELSE None
             a == WriteAsk(b, pane[b], edit, e, o)
  <2>2. pane[b] # None /\ edit # None
    BY <2>1 DEF Files!Fields, Files!Open, Files!Dirty
  <2>3. pane[b] \in Bodies /\ pane[b].id \in Nat /\ e \in Stamps /\ o \in Stamps
    BY <1>0, <2>2 DEF Bodies, Stamps
  <2>4. x \in Bodies /\ x.id = pane[b].id /\ x.stamp = pane[b].stamp /\ pane' = [pane EXCEPT ![b] = x]
    BY <1>0, <2>1, <2>3 DEF Bodies
  <2>6. wire' = wire \cup {a}
    BY <2>1 DEF WriteAsk
  <2> HIDE DEF x, e, o
  <2>5. a \in Asks /\ a.state = "sent" /\ a.got = None /\ a.op = "write" /\ a.body = pane[b].id /\ a.text = edit
    BY <1>0, <2>3, WriteTypes
  <2> HIDE DEF a
  <2>7. built' \in Nat /\ built <= built' /\ x.id <= built' /\ x.stamp \in SeenIn(history) \cup {None}
    BY <1>0, <2>1, <2>2, <2>4
  <2>8. AskTold(a, history, contents, built')
    BY <1>0, <2>1, <2>2, <2>3, <2>5 DEF AskTold, Stamps
  <2> QED BY <2>1, <2>4, <2>5, <2>6, <2>7, <2>8, RequestStaysTold
<1>5. CASE Files!Loads(b)
  <2> DEFINE x == [pane[b] EXCEPT !.gen = 1, !.out = @ + 1]
             a == Files!Ask(b, pane[b], "load")
  <2>1. /\ pane[b] # None /\ pane' = [pane EXCEPT ![b].gen = 1, ![b].out = @ + 1] /\ wire' = wire \cup {a}
        /\ UNCHANGED <<disk, history, contents, writing, edit, typedOver, built>>
    BY <1>5 DEF Files!Loads, Files!Fields, Files!Open, Files!filing, Files!typist
  <2>2. x \in Bodies /\ x.id = pane[b].id /\ x.stamp = pane[b].stamp /\ pane' = [pane EXCEPT ![b] = x]
    BY <1>0, <2>1 DEF Bodies
  <2>3. a \in Asks /\ a.state = "sent" /\ a.got = None /\ a.op = "load" /\ a.body = pane[b].id
    BY <1>0, <2>1, AskTypes
  <2> HIDE DEF x, a
  <2>4. built' \in Nat /\ built <= built' /\ x.id <= built' /\ x.stamp \in SeenIn(history) \cup {None}
    BY <1>0, <2>1, <2>2
  <2>5. AskTold(a, history, contents, built')
    BY <1>0, <2>1, <2>3 DEF AskTold
  <2> QED BY <2>1, <2>2, <2>3, <2>4, <2>5, RequestStaysTold
<1>6. CASE Files!Follows(b)
  <2> DEFINE x == [pane[b] EXCEPT !.gen = 0, !.out = @ + 1]
             q == Files!Ask(b, pane[b], "follow")
             a == [q EXCEPT !.gen = 0]
  <2>1. /\ pane[b] # None /\ pane[b].stamp # None
        /\ pane' = [pane EXCEPT ![b].gen = 0, ![b].out = @ + 1] /\ wire' = wire \cup {a}
        /\ UNCHANGED <<disk, history, contents, writing, edit, typedOver, built>>
    BY <1>6 DEF Files!Follows, Files!Open, Files!filing, Files!typist
  <2>2. x \in Bodies /\ x.id = pane[b].id /\ x.stamp = pane[b].stamp /\ pane' = [pane EXCEPT ![b] = x]
    BY <1>0, <2>1 DEF Bodies
  <2>3. q \in Asks /\ q.state = "sent" /\ q.got = None /\ q.op = "follow" /\ q.body = pane[b].id /\ q.sent = pane[b].stamp
    BY <1>0, <2>1, AskTypes
  <2> HIDE DEF x, q
  <2>4. a \in Asks /\ a.state = "sent" /\ a.got = None /\ a.op = "follow" /\ a.body = pane[b].id /\ a.sent = pane[b].stamp
    BY <2>3 DEF Asks
  <2> HIDE DEF a
  <2>5. built' \in Nat /\ built <= built' /\ x.id <= built' /\ x.stamp \in SeenIn(history) \cup {None}
    BY <1>0, <2>1, <2>2
  <2>6. AskTold(a, history, contents, built')
    BY <1>0, <2>1, <2>4 DEF AskTold
  <2> QED BY <2>1, <2>2, <2>4, <2>5, <2>6, RequestStaysTold
<1> QED BY <1>1, <1>2, <1>3, <1>4, <1>5, <1>6

LEMMA ReturnedTypes ==
  ASSUME Told, NEW r \in wire, Files!Mine(r)
  PROVE  /\ r.pane \in Panes /\ pane[r.pane] \in Bodies /\ Files!Returned(r) \in Bodies
         /\ Files!Returned(r) = [pane[r.pane] EXCEPT !.out = pane[r.pane].out - 1]
         /\ Files!Returned(r).id = pane[r.pane].id /\ Files!Returned(r).stamp = pane[r.pane].stamp
         /\ Files!Returned(r).shown = pane[r.pane].shown /\ Files!Returned(r).field = pane[r.pane].field
         /\ Files!Returned(r).heir = pane[r.pane].heir /\ Files!Returned(r).saving = pane[r.pane].saving
         /\ Files!Returned(r).conflict = pane[r.pane].conflict
         /\ pane[r.pane].id <= built /\ pane[r.pane].stamp \in SeenIn(history) \cup {None} /\ pane[r.pane].id = r.body
<1>1. r.pane \in Panes /\ pane[r.pane] # None /\ pane[r.pane].id = r.body
  BY DEF Told, EdTypes, Asks, Files!Mine
<1>2. pane[r.pane] \in Bodies /\ pane[r.pane].id <= built /\ pane[r.pane].stamp \in SeenIn(history) \cup {None}
  BY <1>1 DEF Told, EdTypes
<1> QED BY <1>1, <1>2 DEF Files!Returned, Bodies

LEMMA PageStaysToldToo ==
  ASSUME Told, Files!FirstAnswers \/ Files!SaveAnswers \/ Files!LoadAnswers \/ Files!FollowAnswers
  PROVE  Told'
<1>0. /\ edit \in Stamps /\ typedOver \in Stamps /\ wire \subseteq Asks /\ SeenIn(history) \cup {None} \subseteq Stamps
      /\ \A r \in wire : AskTold(r, history, contents, built)
  BY LastIsLatest DEF Told, EdTypes, Stamps, SeenIn
<1>1. ASSUME NEW r \in wire, r.state # "sent", wire' = wire \ {r}, NEW x, Files!BodyAfter(r, x),
             Files!Mine(r) => x \in Bodies /\ x.id = r.body /\ x.stamp \in SeenIn(history) \cup {None},
             UNCHANGED <<disk, history, contents, writing, built>>, edit' \in {edit, None}, typedOver' \in Stamps
      PROVE  Told'
  <2>1. Files!Mine(r) => pane' = [pane EXCEPT ![r.pane] = x] /\ x.id <= built
    BY <1>1, ReturnedTypes DEF Files!BodyAfter
  <2>2. ~Files!Mine(r) => pane' = pane
    BY <1>1 DEF Files!BodyAfter
  <2> QED BY <1>1, <2>1, <2>2, AnswerStaysTold
<1>2. ASSUME NEW r, NEW op \in {"first", "write", "load", "follow"}, r \in Files!Back(op)
      PROVE  r \in wire /\ r.state # "sent" /\ r.op = op
  BY <1>2 DEF Files!Back
<1>3. CASE Files!FirstAnswers
  <2>1. PICK r \in Files!Back("first") :
          /\ wire' = wire \ {r}
          /\ Files!BodyAfter(r, IF r.state = "ok"
                  THEN [Files!Returned(r) EXCEPT !.stamp = r.got, !.field = TRUE, !.heir = Files!Dirty,
                                            !.shown = IF Files!Dirty THEN edit ELSE r.got]
                  ELSE IF Files!Dirty THEN [Files!Returned(r) EXCEPT !.stamp = None, !.conflict = TRUE, !.field = TRUE, !.heir = TRUE,
                                                         !.shown = edit]
                  ELSE Files!Sentence(Files!Returned(r)))
          /\ UNCHANGED <<disk, history, contents, writing, edit, typedOver, built>>
    BY <1>3 DEF Files!FirstAnswers, Files!filing, Files!typist
  <2> DEFINE o == Files!Returned(r)
             x1 == [o EXCEPT !.stamp = r.got, !.field = TRUE, !.heir = Files!Dirty, !.shown = IF Files!Dirty THEN edit ELSE r.got]
             x2 == [o EXCEPT !.stamp = None, !.conflict = TRUE, !.field = TRUE, !.heir = TRUE, !.shown = edit]
             x3 == Files!Sentence(o)
             x == IF r.state = "ok" THEN x1 ELSE IF Files!Dirty THEN x2 ELSE x3
  <2>2. r \in wire /\ r.state # "sent" /\ r.op = "first"
    BY <1>2
  <2>3. Files!BodyAfter(r, x)
    BY <2>1
  <2>4. ASSUME Files!Mine(r) PROVE o \in Bodies /\ o.id = r.body /\ (r.state = "ok" => r.got \in SeenIn(history))
    BY <1>0, <2>2, <2>4, ReturnedTypes DEF AskTold
  <2> HIDE DEF o
  <2>5. Files!Dirty \in BOOLEAN /\ (IF Files!Dirty THEN edit ELSE r.got) \in {edit, r.got}
    BY DEF Files!Dirty
  <2>6. Files!Mine(r) => x \in Bodies /\ x.id = r.body /\ x.stamp \in SeenIn(history) \cup {None}
    BY <1>0, <2>4, <2>5 DEF Bodies, Files!Sentence, Stamps
  <2> HIDE DEF x
  <2> QED BY <1>0, <1>1, <2>1, <2>2, <2>3, <2>6
<1>4. CASE Files!SaveAnswers
  <2>1. PICK r \in Files!Back("write") :
          /\ wire' = wire \ {r}
          /\ Files!BodyAfter(r, IF r.state = "ok" THEN [Files!Returned(r) EXCEPT !.saving = FALSE, !.stamp = r.text]
                  ELSE [Files!Returned(r) EXCEPT !.saving = FALSE, !.conflict = r.state \in {"changed", "gone"}])
          /\ edit' \in {edit, None} /\ typedOver' \in {r.text, typedOver}
          /\ UNCHANGED <<disk, history, contents, writing, built>>
    BY <1>4 DEF Files!SaveAnswers, Files!filing
  <2> DEFINE o == Files!Returned(r)
             x1 == [o EXCEPT !.saving = FALSE, !.stamp = r.text]
             x2 == [o EXCEPT !.saving = FALSE, !.conflict = r.state \in {"changed", "gone"}]
             x == IF r.state = "ok" THEN x1 ELSE x2
  <2>2. r \in wire /\ r.state # "sent" /\ r.op = "write"
    BY <1>2
  <2>3. Files!BodyAfter(r, x)
    BY <2>1
  <2>4. ASSUME Files!Mine(r)
        PROVE  /\ o \in Bodies /\ o.id = r.body /\ o.stamp \in SeenIn(history) \cup {None}
               /\ r.state = "ok" => r.text \in SeenIn(history)
    BY <1>0, <2>2, <2>4, ReturnedTypes DEF AskTold
  <2>7. typedOver' \in Stamps
    BY <1>0, <2>1, <2>2 DEF Asks
  <2> HIDE DEF o
  <2>5. (r.state \in {"changed", "gone"}) \in BOOLEAN
    OBVIOUS
  <2>6. Files!Mine(r) => x \in Bodies /\ x.id = r.body /\ x.stamp \in SeenIn(history) \cup {None}
    BY <1>0, <2>4, <2>5 DEF Bodies, Stamps
  <2> HIDE DEF x
  <2> QED BY <1>0, <1>1, <2>1, <2>2, <2>3, <2>6, <2>7
<1>5. CASE Files!LoadAnswers
  <2>1. PICK r \in Files!Back("load") :
          /\ wire' = wire \ {r}
          /\ Files!BodyAfter(r, IF r.state = "ok" THEN [Files!Returned(r) EXCEPT !.stamp = r.got, !.shown = r.got, !.conflict = FALSE]
                  ELSE [Files!Returned(r) EXCEPT !.conflict = TRUE])
          /\ edit' \in {edit, None}
          /\ UNCHANGED <<disk, history, contents, writing, typedOver, built>>
    BY <1>5 DEF Files!LoadAnswers, Files!filing
  <2> DEFINE o == Files!Returned(r)
             x1 == [o EXCEPT !.stamp = r.got, !.shown = r.got, !.conflict = FALSE]
             x2 == [o EXCEPT !.conflict = TRUE]
             x == IF r.state = "ok" THEN x1 ELSE x2
  <2>2. r \in wire /\ r.state # "sent" /\ r.op = "load"
    BY <1>2
  <2>3. Files!BodyAfter(r, x)
    BY <2>1
  <2>4. ASSUME Files!Mine(r)
        PROVE  /\ o \in Bodies /\ o.id = r.body /\ o.stamp \in SeenIn(history) \cup {None}
               /\ r.state = "ok" => r.got \in SeenIn(history)
    BY <1>0, <2>2, <2>4, ReturnedTypes DEF AskTold
  <2> HIDE DEF o
  <2>6. Files!Mine(r) => x \in Bodies /\ x.id = r.body /\ x.stamp \in SeenIn(history) \cup {None}
    BY <1>0, <2>4 DEF Bodies, Stamps
  <2> HIDE DEF x
  <2> QED BY <1>0, <1>1, <2>1, <2>2, <2>3, <2>6
<1>6. CASE Files!FollowAnswers
  <2>1. PICK r \in Files!Back("follow") :
          /\ wire' = wire \ {r} /\ Files!BodyAfter(r, Files!Followed(r))
          /\ UNCHANGED <<disk, history, contents, writing, edit, typedOver, built>>
    BY <1>6 DEF Files!FollowAnswers, Files!filing, Files!typist
  <2> DEFINE x == Files!Followed(r)
             o == Files!Returned(r)
             x1 == [o EXCEPT !.stamp = r.got, !.shown = r.got]
  <2>2. r \in wire /\ r.state # "sent" /\ r.op = "follow"
    BY <1>2
  <2>4. ASSUME Files!Mine(r)
        PROVE  /\ o \in Bodies /\ o.id = r.body /\ o.stamp \in SeenIn(history) \cup {None}
               /\ r.state = "ok" => r.got \in SeenIn(history)
    BY <1>0, <2>2, <2>4, ReturnedTypes DEF AskTold
  <2>5. x = o \/ x = Files!Sentence(o) \/ (r.state = "ok" /\ x = x1)
    BY DEF Files!Followed
  <2> HIDE DEF o, x
  <2>6. Files!Mine(r) => x \in Bodies /\ x.id = r.body /\ x.stamp \in SeenIn(history) \cup {None}
    BY <1>0, <2>4, <2>5 DEF Bodies, Files!Sentence, Stamps
  <2> QED BY <1>0, <1>1, <2>1, <2>2, <2>6 DEF x
<1> QED BY <1>3, <1>4, <1>5, <1>6

(* What the backend and others do to the file: no body changes.            *)
LEMMA FileStaysTold ==
  ASSUME Told, UNCHANGED <<edit, typedOver, pane, built>>, contents' \in Nat, contents <= contents',
         \/ history' = history /\ disk' \in {disk, Files!Gone}
         \/ disk' \in Int /\ history' = Append(history, disk'),
         wire' \subseteq Asks, \A r \in wire' : r \in wire \/ AskTold(r, history', contents', built),
         writing' # None => \E r \in wire' : Doing(writing', r)
  PROVE  Told'
<1>0. /\ disk \in Int /\ contents \in Nat /\ built \in Nat /\ history \in Seq(Int) /\ edit \in Stamps /\ typedOver \in Stamps
      /\ pane \in [Panes -> Bodies \cup {None}] /\ (edit # None => edit <= contents) /\ wire \subseteq Asks
      /\ \A b \in Panes : pane[b] # None => pane[b].id <= built /\ pane[b].stamp \in SeenIn(history) \cup {None}
  BY DEF Told, EdTypes
<1>1. /\ disk' \in Int /\ history' \in Seq(Int) /\ SeenIn(history) \subseteq SeenIn(history')
      /\ disk' # Files!Gone => Len(history') > 0 /\ disk' = history'[Len(history')]
  <2>1. CASE history' = history /\ disk' \in {disk, Files!Gone}
    BY <1>0, <2>1 DEF Told, Files!Gone
  <2>2. CASE disk' \in Int /\ history' = Append(history, disk')
    BY <1>0, <2>2, HistoryGrows
  <2> QED BY <2>1, <2>2
<1>2. ASSUME NEW r \in wire PROVE AskTold(r, history', contents', built)
  <2>1. AskTold(r, history, contents, built) /\ r \in Asks /\ built <= built
    BY <1>0 DEF Told
  <2>2. CASE history' = history /\ disk' \in {disk, Files!Gone}
    <3>1. 0 \in Int
      OBVIOUS
    <3> QED BY <1>0, <2>1, <2>2, <3>1, StaysTold
  <2>3. CASE disk' \in Int /\ history' = Append(history, disk')
    BY <1>0, <2>1, <2>3, StaysTold
  <2> QED BY <2>2, <2>3
<1>3. EdTypes' /\ (edit' # None => edit' <= contents')
  BY <1>0, <1>1 DEF EdTypes, Stamps
<1>4. \A r \in wire' : AskTold(r, history', contents', built')
  BY <1>2
<1>5. \A b \in Panes : pane'[b] # None => pane'[b].id <= built' /\ pane'[b].stamp \in SeenIn(history') \cup {None}
  BY <1>0, <1>1
<1> QED BY <1>1, <1>3, <1>4, <1>5 DEF Told

LEMMA BackendStaysTold ==
  ASSUME Told, Files!Backend \/ Files!Crashes \/ Files!Elsewhere
  PROVE  Told'
<1>0. /\ disk \in Int /\ contents \in Nat /\ built \in Nat /\ history \in Seq(Int) /\ wire \subseteq Asks
      /\ disk # Files!Gone => Len(history) > 0 /\ disk = history[Len(history)]
      /\ writing # None => \E r \in wire : Doing(writing, r)
      /\ \A r \in wire : AskTold(r, history, contents, built)
  BY DEF Told, EdTypes
<1>8. None \in Stamps /\ disk \in Stamps
  BY <1>0 DEF Stamps
<1>1. CASE Files!HandleRead
  <2>1. PICK r \in Files!Waiting("first") \cup Files!Waiting("load") \cup Files!Waiting("follow") :
          /\ writing = None /\ UNCHANGED <<disk, history, contents, writing, edit, typedOver, pane, built>>
          /\ IF disk = Files!Gone THEN Files!Answer(r, "gone", None) ELSE Files!Answer(r, "ok", disk)
    BY <1>1 DEF Files!HandleRead, Files!Serves, Files!filing, Files!typist
  <2> DEFINE a1 == Replied(r, "gone", None)
             a2 == Replied(r, "ok", disk)
  <2>2. r \in wire /\ r \in Asks /\ r.op # "write" /\ r.state = "sent" /\ AskTold(r, history, contents, built)
    BY <1>0, <2>1 DEF Files!Waiting
  <2>9. r \in Asks
    BY <2>2
  <2>3. CASE disk = Files!Gone
    <3>1. wire' = (wire \ {r}) \cup {a1}
      BY <2>1, <2>3 DEF Files!Answer, Replied
    <3>2. a1 \in Asks /\ a1.state = "gone" /\ a1.got = None /\ a1.op = r.op /\ a1.body = r.body /\ a1.sent = r.sent
          /\ a1.text = r.text
      BY <1>8, <2>9, AnswerTypes
    <3> HIDE DEF a1
    <3>3. AskTold(a1, history, contents, built)
      BY <2>2, <3>2 DEF AskTold
    <3>4. wire' \subseteq Asks /\ (\A q \in wire' : q \in wire \/ AskTold(q, history', contents', built))
      BY <1>0, <2>1, <3>1, <3>2, <3>3
    <3> QED BY <1>0, <2>1, <3>4, FileStaysTold
  <2>4. CASE disk # Files!Gone
    <3>1. wire' = (wire \ {r}) \cup {a2}
      BY <2>1, <2>4 DEF Files!Answer, Replied
    <3>2. a2 \in Asks /\ a2.state = "ok" /\ a2.got = disk /\ a2.op = r.op /\ a2.body = r.body /\ a2.sent = r.sent
          /\ a2.text = r.text
      BY <1>8, <2>9, AnswerTypes
    <3> HIDE DEF a2
    <3>5. disk \in SeenIn(history) /\ \A c \in SeenIn(history) : Later(history, c, disk)
      BY <1>0, <2>4, LastIsLatest
    <3>3. AskTold(a2, history, contents, built)
      BY <2>2, <3>2, <3>5 DEF AskTold
    <3>4. wire' \subseteq Asks /\ (\A q \in wire' : q \in wire \/ AskTold(q, history', contents', built))
      BY <1>0, <2>1, <3>1, <3>2, <3>3
    <3> QED BY <1>0, <2>1, <3>4, FileStaysTold
  <2> QED BY <2>3, <2>4
<1>2. CASE Files!WriteChecks
  <2>1. PICK r \in Files!Waiting("write") :
          /\ writing = None /\ UNCHANGED <<disk, history, contents, edit, typedOver, pane, built>>
          /\ IF Files!Refusal(r) = "none" THEN writing' = r /\ UNCHANGED wire
             ELSE Files!Answer(r, Files!Refusal(r), None) /\ UNCHANGED writing
    BY <1>2 DEF Files!WriteChecks, Files!Serves, Files!typist
  <2>2. r \in wire /\ r \in Asks /\ r.op = "write" /\ r.state = "sent" /\ AskTold(r, history, contents, built)
    BY <1>0, <2>1 DEF Files!Waiting
  <2>9. r \in Asks
    BY <2>2
  <2>3. CASE Files!Refusal(r) = "none"
    <3>1. writing' = r /\ wire' = wire /\ Doing(writing', r)
      BY <2>1, <2>2, <2>3 DEF Doing
    <3> QED BY <1>0, <2>1, <2>2, <3>1, FileStaysTold
  <2>4. CASE Files!Refusal(r) # "none"
    <3> DEFINE s == Files!Refusal(r)
               a == Replied(r, s, None)
    <3>1. s \in {"gone", "changed"}
      BY <2>4 DEF Files!Refusal
    <3>2. wire' = (wire \ {r}) \cup {a} /\ writing' = None
      BY <2>1, <2>4 DEF Files!Answer, Replied
    <3>8. a = Replied(r, s, None)
      OBVIOUS
    <3> HIDE DEF s, a
    <3>3. a \in Asks /\ a.state = s /\ a.got = None /\ a.op = r.op /\ a.body = r.body /\ a.sent = r.sent /\ a.text = r.text
      BY <2>9, <3>1, <3>8, RefusalTypes
    <3> HIDE DEF a
    <3>4. AskTold(a, history, contents, built)
      BY <2>2, <3>1, <3>3 DEF AskTold
    <3>5. wire' \subseteq Asks /\ (\A q \in wire' : q \in wire \/ AskTold(q, history', contents', built))
      BY <1>0, <2>1, <3>2, <3>3, <3>4
    <3> QED BY <1>0, <2>1, <3>2, <3>5, FileStaysTold
  <2> QED BY <2>3, <2>4
<1>3. CASE Files!WriteCuts
  <2>1. /\ writing # None /\ UNCHANGED <<contents, edit, typedOver, pane, wire, built>>
        /\ disk' = -(writing.text) /\ history' = Append(history, disk')
        /\ writing' = [writing EXCEPT !.got = "torn"]
    BY <1>3 DEF Files!WriteCuts, Files!Held, Files!Torn, Files!typist
  <2>2. PICK r \in wire : Doing(writing, r)
    BY <1>0, <2>1
  <2>3. r \in Asks /\ AskTold(r, history, contents, built)
    BY <1>0
  <2>4. writing.text = r.text /\ writing' = [r EXCEPT !.got = "torn"]
    BY <2>1, <2>2, <2>3 DEF Doing, Asks
  <2>5. r.text \in Int /\ Doing(writing', r)
    BY <2>2, <2>3, <2>4 DEF Doing, AskTold
  <2>6. disk' \in Int
    BY <2>1, <2>4, <2>5
  <2>7. contents' \in Nat /\ contents <= contents' /\ wire' \subseteq Asks /\ (\A q \in wire' : q \in wire)
        /\ \E q \in wire' : Doing(writing', q)
    BY <1>0, <2>1, <2>2, <2>5
  <2> QED BY <2>1, <2>6, <2>7, FileStaysTold
<1>4. CASE Files!WriteLands
  <2>1. /\ writing # None /\ writing' = None /\ UNCHANGED <<contents, edit, typedOver, pane, built>>
        /\ disk' = writing.text /\ history' = Append(history, disk')
        /\ Files!Answer([writing EXCEPT !.got = None], "ok", None)
    BY <1>4 DEF Files!WriteLands, Files!Held, Files!typist
  <2>2. PICK r \in wire : Doing(writing, r)
    BY <1>0, <2>1
  <2>3. r \in Asks /\ AskTold(r, history, contents, built) /\ r.state = "sent" /\ r.op = "write" /\ r.got = None
    BY <1>0, <2>2 DEF Doing, AskTold
  <2>4. writing.text = r.text /\ [writing EXCEPT !.got = None] = r
    BY <2>2, <2>3 DEF Doing, Asks
  <2> DEFINE a == Replied(r, "ok", None)
  <2>5. wire' = (wire \ {r}) \cup {a}
    BY <2>1, <2>4 DEF Files!Answer, Replied
  <2>12. r \in Asks
    BY <2>3
  <2>6. a \in Asks /\ a.state = "ok" /\ a.got = None /\ a.op = r.op /\ a.body = r.body /\ a.sent = r.sent /\ a.text = r.text
    BY <1>8, <2>12, AnswerTypes
  <2> HIDE DEF a
  <2>7. disk' \in Int /\ disk' = r.text
    BY <2>1, <2>3, <2>4 DEF AskTold
  <2>8. r.text \in SeenIn(history')
    BY <1>0, <2>1, <2>7, HistoryGrows
  <2>9. AskTold(a, history', contents, built)
    BY <2>3, <2>6, <2>8 DEF AskTold
  <2>10. wire' \subseteq Asks /\ (\A q \in wire' : q \in wire \/ AskTold(q, history', contents', built))
    BY <1>0, <2>1, <2>5, <2>6, <2>9
  <2> QED BY <1>0, <2>1, <2>7, <2>10, FileStaysTold
<1>5. CASE Files!Crashes
  <2>1. /\ writing' = None /\ UNCHANGED <<disk, history, contents, edit, typedOver, pane, built>>
        /\ wire' = {Replied(r, "error", None) : r \in wire}
    BY <1>5 DEF Files!Crashes, Files!typist, Replied
  <2>2. ASSUME NEW q \in wire' PROVE q \in Asks /\ AskTold(q, history', contents', built)
    <3>1. PICK r \in wire : q = Replied(r, "error", None)
      BY <2>1
    <3>2. r \in Asks /\ AskTold(r, history, contents, built)
      BY <1>0
    <3>4. r \in Asks
      BY <3>2
    <3>3. q \in Asks /\ q.state = "error" /\ q.got = None /\ q.op = r.op /\ q.body = r.body /\ q.sent = r.sent
          /\ q.text = r.text
      BY <3>1, <3>4, RefusalTypes
    <3> QED BY <2>1, <3>2, <3>3 DEF AskTold
  <2>3. contents' \in Nat /\ contents <= contents' /\ wire' \subseteq Asks
        /\ \A q \in wire' : AskTold(q, history', contents', built)
    BY <1>0, <2>1, <2>2
  <2> QED BY <2>1, <2>3, FileStaysTold
<1>6. CASE Files!Elsewhere
  <2>1. CASE contents' = contents + 1 /\ disk' = contents + 1 /\ history' = Append(history, contents + 1)
             /\ UNCHANGED <<writing, edit, typedOver, pane, wire, built>>
    <3>1. contents' \in Nat /\ contents <= contents' /\ disk' \in Int /\ history' = Append(history, disk')
      BY <1>0, <2>1
    <3> QED BY <1>0, <2>1, <3>1, FileStaysTold
  <2>2. CASE disk' = Files!Gone /\ UNCHANGED <<history, contents, writing, edit, typedOver, pane, wire, built>>
    BY <1>0, <2>2, FileStaysTold
  <2> QED BY <1>6, <2>1, <2>2 DEF Files!Elsewhere, Files!Held, Files!Fresh, Files!typist
<1> QED BY <1>1, <1>2, <1>3, <1>4, <1>5, <1>6 DEF Files!Backend

LEMMA ToldStep == ASSUME Told, [Files!Next]_(Files!vars) PROVE Told'
<1>1. CASE UNCHANGED Files!vars
  BY <1>1 DEF Files!vars, Files!typist, Files!filing, Told, EdTypes
<1>2. CASE Files!Next
  BY <1>2, UserStaysTold, PageStaysToldToo, BackendStaysTold DEF Files!Next, Files!User, Files!Page
<1> QED BY <1>1, <1>2

OnePane == \A b, c \in Panes : b = c

LEMMA FitsReplaced ==
  ASSUME NEW w, NEW x, NEW t, NEW o, Fits(w, x, t, o), NEW r \in w, NEW a,
         a.op = r.op, a.body = r.body, a.heir = r.heir, a.over = r.over, a.expect = r.expect, a.text = r.text
  PROVE  Fits((w \ {r}) \cup {a}, x, t, o)
<1>1. AskFits(a, x, t)
  BY DEF Fits, AskFits, Sent
<1>2. ASSUME NEW p \in (w \ {r}) \cup {a}, NEW q \in (w \ {r}) \cup {a}, Sent(p, x), Sent(q, x)
      PROVE  /\ p.op = q.op /\ p.op \in {"first", "write"} => p = q
             /\ q.op = "write" => p.op \notin {"first", "load"}
  <2> DEFINE c == IF p = a THEN r ELSE p
             d == IF q = a THEN r ELSE q
  <2>1. c \in w /\ c.op = p.op /\ Sent(c, x) /\ (c = d => p = q)
    <3>1. (p # a => p \in w /\ p # r) /\ (q # a => q \in w /\ q # r)
      BY <1>2
    <3> QED BY <1>2, <3>1 DEF Sent
  <2>2. d \in w /\ d.op = q.op /\ Sent(d, x)
    BY <1>2 DEF Sent
  <2> HIDE DEF c, d
  <2>3. (c.op = d.op /\ c.op \in {"first", "write"} => c = d) /\ (d.op = "write" => c.op \notin {"first", "load"})
    BY <2>1, <2>2 DEF Fits, AsksApart
  <2> QED BY <2>1, <2>2, <2>3
<1>3. AsksApart((w \ {r}) \cup {a}, x)
  BY <1>2 DEF AsksApart
<1> QED BY <1>1, <1>3 DEF Fits

LEMMA FitsFewer ==
  ASSUME NEW w, NEW v \in SUBSET w, NEW x, NEW t, NEW o, Fits(w, x, t, o)
  PROVE  Fits(v, x, t, o)
BY DEF Fits, AsksApart

LEMMA OneMoreApart ==
  ASSUME NEW w, NEW x, NEW y, AsksApart(w, x), x # None, y.id = x.id, NEW a,
         \A r \in w :
           Sent(r, x) =>
             /\ a.op \in {"first", "write"} => r.op # a.op
             /\ r.op = "write" => a.op \notin {"first", "load"}
             /\ a.op = "write" => r.op \notin {"first", "load"}
  PROVE  AsksApart(w \cup {a}, y)
<1> SUFFICES ASSUME NEW q \in w \cup {a}, NEW r \in w \cup {a}, Sent(q, y), Sent(r, y)
             PROVE  /\ q.op = r.op /\ q.op \in {"first", "write"} => q = r
                    /\ r.op = "write" => q.op \notin {"first", "load"}
  BY DEF AsksApart
<1>1. Sent(q, x) /\ Sent(r, x)
  BY DEF Sent
<1>2. CASE q \in w /\ r \in w
  BY <1>1, <1>2 DEF AsksApart
<1>3. CASE q = a /\ r \in w
  BY <1>1, <1>3
<1>4. CASE r = a /\ q \in w
  BY <1>1, <1>4
<1>5. CASE q = a /\ r = a
  BY <1>5
<1> QED BY <1>2, <1>3, <1>4, <1>5

LEMMA FitsLost ==
  ASSUME NEW w \in SUBSET Asks, NEW x, NEW t, NEW o, Fits(w, x, t, o)
  PROVE  Fits({Replied(r, "error", None) : r \in w}, x, t, o)
<1> DEFINE v == {Replied(r, "error", None) : r \in w}
<1>1. ASSUME NEW a \in v
      PROVE  \E r \in w : /\ a = Replied(r, "error", None) /\ a.op = r.op /\ a.body = r.body /\ a.heir = r.heir
                          /\ a.over = r.over /\ a.expect = r.expect /\ a.text = r.text
  <2>1. PICK r \in w : a = Replied(r, "error", None)
    OBVIOUS
  <2>2. "error" \in {"gone", "changed", "error"} /\ r \in Asks
    OBVIOUS
  <2> QED BY <2>1, <2>2, RefusalTypes
<1> HIDE DEF v
<1>2. \A a \in v : AskFits(a, x, t)
  BY <1>1 DEF Fits, AskFits, Sent
<1>3. ASSUME NEW a \in v, NEW c \in v, Sent(a, x), Sent(c, x)
      PROVE  /\ a.op = c.op /\ a.op \in {"first", "write"} => a = c
             /\ c.op = "write" => a.op \notin {"first", "load"}
  <2>1. PICK r \in w : a = Replied(r, "error", None) /\ a.op = r.op /\ a.body = r.body
    BY <1>1
  <2>2. PICK q \in w : c = Replied(q, "error", None) /\ c.op = q.op /\ c.body = q.body
    BY <1>1
  <2>3. Sent(r, x) /\ Sent(q, x)
    BY <1>3, <2>1, <2>2 DEF Sent
  <2> QED BY <2>1, <2>2, <2>3 DEF Fits, AsksApart
<1>4. AsksApart(v, x)
  BY <1>3 DEF AsksApart
<1> QED BY <1>2, <1>4 DEF Fits, v

LEMMA EditFacts ==
  ASSUME EditInv, OnePane, NEW b \in Panes
  PROVE  /\ Fits(wire, pane[b], edit, typedOver) /\ contents \in Nat /\ built \in Nat /\ wire \subseteq Asks
         /\ None \notin Int /\ edit \in Int \cup {None} /\ (edit # None => edit <= contents)
         /\ \A r \in wire : r.pane = b /\ AskTold(r, history, contents, built) /\ (Files!Mine(r) <=> Sent(r, pane[b]))
         /\ SeenIn(history) \subseteq Int /\ pane \in [Panes -> Bodies \cup {None}]
         /\ \A r \in wire : r.op = "write" => r.text \in Int /\ r.text <= contents
         /\ \A r \in wire : r.op # "write" /\ r.state = "ok" => r.got \in Int
         /\ pane[b] # None => pane[b] \in Bodies /\ pane[b].id <= built
<1>1. /\ contents \in Nat /\ built \in Nat /\ wire \subseteq Asks /\ edit \in Int \cup {None} /\ (edit # None => edit <= contents)
      /\ history \in Seq(Int) /\ pane \in [Panes -> Bodies \cup {None}]
      /\ \A r \in wire : AskTold(r, history, contents, built)
      /\ pane[b] # None => pane[b] \in Bodies /\ pane[b].id <= built
  BY DEF EditInv, Told, EdTypes, Stamps
<1>2. \A r \in wire : r.pane \in Panes
  BY <1>1 DEF Asks
<1>3. \A r \in wire : r.pane = b
  BY <1>2 DEF OnePane
<1>4. SeenIn(history) \subseteq Int
  BY <1>1 DEF SeenIn
<1> QED BY <1>1, <1>3, <1>4, NoneIsNoText DEF EditInv, Files!Mine, Sent, AskTold

LEMMA UserFits ==
  ASSUME EditInv, Patient, OnePane, NEW b \in Panes,
         Files!Builds(b) \/ Files!Disposes(b) \/ Files!Types(b) \/ Files!Saves(b) \/ Files!Loads(b) \/ Files!Follows(b)
  PROVE  Fits(wire', pane'[b], edit', typedOver')
<1> DEFINE x == pane[b]
           y == pane'[b]
<1>0. /\ Fits(wire, x, edit, typedOver) /\ contents \in Nat /\ built \in Nat /\ wire \subseteq Asks
      /\ None \notin Int /\ edit \in Int \cup {None} /\ (edit # None => edit <= contents)
      /\ \A r \in wire : r.body <= built /\ (r.op = "write" => r.text \in Int /\ r.text <= contents)
      /\ pane \in [Panes -> Bodies \cup {None}] /\ (x # None => x \in Bodies)
  BY EditFacts DEF AskTold
<1>1. CASE Files!Builds(b)
  <2> DEFINE z == [id |-> built + 1, field |-> FALSE, stamp |-> None, shown |-> None, out |-> 1, saving |-> FALSE,
                   gen |-> 0, conflict |-> FALSE, heir |-> FALSE]
             a == Files!Ask(b, z, "first")
  <2>1. /\ wire' = wire \cup {a} /\ y = z /\ edit' = edit /\ typedOver' = typedOver /\ \A r \in wire : r.op # "load"
    BY <1>0, <1>1 DEF Files!Builds, Files!typist, Files!UserActs, Files!Loading
  <2>2. z \in Bodies /\ z.id = built + 1 /\ ~z.field
    BY <1>0 DEF Bodies, Stamps
  <2> HIDE DEF z
  <2>3. a \in Asks /\ a.op = "first" /\ a.body = z.id
    BY <2>2, AskTypes
  <2> HIDE DEF a
  <2>4. ASSUME NEW r \in wire PROVE r.body # z.id
    <3>1. r.body <= built /\ r.body \in Nat
      BY <1>0 DEF Asks
    <3> QED BY <1>0, <2>2, <3>1
  <2>5. \A r \in wire' : AskFits(r, z, edit)
    BY <1>0, <2>1, <2>2, <2>3, <2>4 DEF Fits, AskFits, Own, Sent
  <2>6. AsksApart(wire', z) /\ TextFits(z, edit, typedOver)
    BY <2>1, <2>2, <2>3, <2>4 DEF AsksApart, TextFits, Own, Sent
  <2> QED BY <2>1, <2>5, <2>6 DEF Fits
<1>2. CASE Files!Disposes(b)
  <2>1. y = None /\ wire' = wire /\ edit' = edit /\ typedOver' = typedOver
    BY <1>0, <1>2 DEF Files!Disposes, Files!typist
  <2>2. \A r \in wire : AskFits(r, None, edit)
    BY <1>0 DEF Fits, AskFits, Own, Sent
  <2> QED BY <2>1, <2>2 DEF Fits, AsksApart, TextFits, Own, Sent
<1>3. CASE Files!Types(b)
  <2>1. /\ x # None /\ wire' = wire /\ edit' = contents + 1
        /\ typedOver' = IF edit # None THEN typedOver ELSE x.shown
        /\ pane' = [pane EXCEPT ![b].shown = contents + 1]
    BY <1>3 DEF Files!Types, Files!Fields, Files!Open, Files!Fresh, Files!Dirty
  <2>2. y.shown = contents + 1 /\ y.id = x.id /\ y.field = x.field /\ y.heir = x.heir /\ y.stamp = x.stamp
        /\ y.saving = x.saving /\ y.conflict = x.conflict
    BY <1>0, <2>1 DEF Bodies
  <2>3. edit' # None /\ \A r \in wire : r.op = "write" => edit' # r.text
    BY <1>0, <2>1
  <2>4. TextFits(y, edit', typedOver')
    BY <1>0, <2>1, <2>2, <2>3 DEF Fits, TextFits, Own
  <2>5. ASSUME NEW r \in wire PROVE AskFits(r, y, edit')
    <3>1. AskFits(r, x, edit)
      BY <1>0 DEF Fits
    <3>2. r.op = "write" => edit' # None /\ edit' # r.text
      BY <2>3
    <3>3. CASE y = None
      BY <3>1, <3>3 DEF AskFits, Own, Sent
    <3>4. CASE y # None
      <4>1. Sent(r, y) <=> Sent(r, x)
        BY <2>1, <2>2, <3>4 DEF Sent
      <4>2. y.field = x.field /\ y.saving = x.saving /\ y.conflict = x.conflict /\ x # None
        BY <2>1, <2>2
      <4> QED BY <3>1, <3>2, <3>4, <4>1, <4>2 DEF AskFits, Own
    <3> QED BY <3>3, <3>4
  <2>6. AsksApart(wire, y)
    <3>1. \A r \in wire : Sent(r, y) => Sent(r, x)
      BY <2>1, <2>2 DEF Sent
    <3>2. AsksApart(wire, x)
      BY <1>0 DEF Fits
    <3> QED BY <3>1, <3>2 DEF AsksApart
  <2> QED BY <2>1, <2>4, <2>5, <2>6 DEF Fits
<1>4. CASE Files!Saves(b)
  <2>1. PICK withExpect \in BOOLEAN :
          /\ x # None /\ x.field /\ ~x.saving /\ edit # None /\ \A r \in wire : r.op # "load"
          /\ pane' = [pane EXCEPT ![b].saving = TRUE, ![b].gen = 1, ![b].out = @ + 1, ![b].conflict = FALSE]
          /\ wire' = wire \cup {WriteAsk(b, x, edit, IF withExpect THEN x.stamp ELSE None,
                                                     IF withExpect THEN typedOver ELSE None)}
          /\ UNCHANGED <<edit, typedOver>>
    BY <1>4 DEF Files!Saves, Files!typist, Files!Fields, Files!Open, Files!Dirty, Files!UserActs, Files!Loading, WriteAsk
  <2> DEFINE e == IF withExpect THEN x.stamp ELSE None
             o == IF withExpect THEN typedOver ELSE None
             a == WriteAsk(b, x, edit, e, o)
  <2>2. y.saving /\ ~y.conflict /\ y.id = x.id /\ y.field = x.field /\ y.heir = x.heir /\ y.stamp = x.stamp
        /\ y.shown = x.shown
    <3>1. x \in Bodies
      BY <1>0, <2>1
    <3>2. y = [x EXCEPT !.saving = TRUE, !.gen = 1, !.out = @ + 1, !.conflict = FALSE]
      BY <1>0, <2>1
    <3> QED BY <3>1, <3>2 DEF Bodies
  <2>3. e \in Stamps /\ o \in Stamps /\ edit \in Stamps /\ x \in Bodies
    BY <1>0, <2>1 DEF EditInv, Told, EdTypes, Bodies, Stamps
  <2>4. wire' = wire \cup {a}
    BY <2>1
  <2>7. Own(x) /\ o # None => e = o
    BY <1>0, <2>1 DEF Fits, TextFits
  <2> HIDE DEF e, o
  <2>5. a.op = "write" /\ a.body = x.id /\ a.text = edit /\ a.heir = x.heir /\ a.over = o /\ a.expect = e
    BY <2>3, WriteTypes
  <2> HIDE DEF a
  <2>6. \A r \in wire : Sent(r, x) => r.op # "first" /\ r.op # "write"
    BY <1>0, <2>1 DEF Fits, AskFits
  <2>8. AskFits(a, y, edit)
    BY <2>1, <2>2, <2>5, <2>7 DEF AskFits, Own, Sent
  <2>9. \A r \in wire : AskFits(r, y, edit)
    BY <1>0, <2>1, <2>2 DEF Fits, AskFits, Own, Sent
  <2>10. TextFits(y, edit, typedOver)
    BY <1>0, <2>1, <2>2 DEF Fits, TextFits, Own
  <2>11. AsksApart(wire', y)
    <3>1. \A r \in wire : Sent(r, x) => /\ a.op \in {"first", "write"} => r.op # a.op
                                        /\ r.op = "write" => a.op \notin {"first", "load"}
                                        /\ a.op = "write" => r.op \notin {"first", "load"}
      BY <2>1, <2>5, <2>6
    <3>2. AsksApart(wire, x) /\ x # None /\ y.id = x.id
      BY <1>0, <2>1, <2>2 DEF Fits
    <3> QED BY <2>4, <3>1, <3>2, OneMoreApart
  <2> QED BY <2>1, <2>4, <2>8, <2>9, <2>10, <2>11 DEF Fits
<1>5. ASSUME NEW op \in {"load", "follow"}, NEW a, a.op = op, a.body = x.id, x # None,
             op = "load" => x.conflict, wire' = wire \cup {a}, UNCHANGED <<edit, typedOver>>,
             y.saving = x.saving, y.conflict = x.conflict, y.id = x.id, y.field = x.field, y.heir = x.heir,
             y.stamp = x.stamp, y.shown = x.shown
      PROVE  Fits(wire', y, edit', typedOver')
  <2>1. op = "load" => \A r \in wire : Sent(r, x) => r.op # "write"
    BY <1>0, <1>5 DEF Fits, AskFits
  <2>2. AskFits(a, y, edit)
    BY <1>5 DEF AskFits, Sent
  <2>3. \A r \in wire : AskFits(r, y, edit)
    BY <1>0, <1>5 DEF Fits, AskFits, Own, Sent
  <2>4. TextFits(y, edit, typedOver)
    BY <1>0, <1>5 DEF Fits, TextFits, Own
  <2>5. AsksApart(wire', y)
    BY <1>0, <1>5, <2>1, OneMoreApart DEF Fits
  <2> QED BY <1>5, <2>2, <2>3, <2>4, <2>5 DEF Fits
<1>6. CASE Files!Loads(b)
  <2> DEFINE a == Files!Ask(b, x, "load")
  <2>1. /\ x # None /\ x.conflict /\ wire' = wire \cup {a} /\ UNCHANGED <<edit, typedOver>>
        /\ pane' = [pane EXCEPT ![b].gen = 1, ![b].out = @ + 1]
    BY <1>6 DEF Files!Loads, Files!Fields, Files!Open, Files!typist
  <2>2. x \in Bodies /\ y = [x EXCEPT !.gen = 1, !.out = @ + 1]
    BY <1>0, <2>1
  <2>3. y.saving = x.saving /\ y.conflict = x.conflict /\ y.id = x.id /\ y.field = x.field /\ y.heir = x.heir
        /\ y.stamp = x.stamp /\ y.shown = x.shown
    BY <2>2 DEF Bodies
  <2>4. a.op = "load" /\ a.body = x.id
    BY <2>2, AskTypes
  <2> HIDE DEF a
  <2> QED BY <1>5, <2>1, <2>3, <2>4
<1>7. CASE Files!Follows(b)
  <2> DEFINE q == Files!Ask(b, x, "follow")
             a == [q EXCEPT !.gen = 0]
  <2>1. /\ x # None /\ wire' = wire \cup {a} /\ UNCHANGED <<edit, typedOver>>
        /\ pane' = [pane EXCEPT ![b].gen = 0, ![b].out = @ + 1]
    BY <1>7 DEF Files!Follows, Files!Open, Files!typist
  <2>2. x \in Bodies /\ y = [x EXCEPT !.gen = 0, !.out = @ + 1]
    BY <1>0, <2>1
  <2>3. y.saving = x.saving /\ y.conflict = x.conflict /\ y.id = x.id /\ y.field = x.field /\ y.heir = x.heir
        /\ y.stamp = x.stamp /\ y.shown = x.shown
    BY <2>2 DEF Bodies
  <2>4. q \in Asks /\ q.op = "follow" /\ q.body = x.id
    BY <2>2, AskTypes
  <2> HIDE DEF q
  <2>5. a.op = "follow" /\ a.body = x.id
    BY <2>4 DEF Asks
  <2> HIDE DEF a
  <2> QED BY <1>5, <2>1, <2>3, <2>5
<1> QED BY <1>1, <1>2, <1>3, <1>4, <1>6, <1>7

(* An answer to a request of a body that is gone.                          *)
LEMMA LateFits ==
  ASSUME NEW w, NEW x, NEW t, NEW o, Fits(w, x, t, o), NEW r \in w, ~Sent(r, x), NEW u,
         Own(x) => u = t, u = t \/ u = None, None \notin Int, \A q \in w : q.op = "write" => q.text \in Int
  PROVE  Fits(w \ {r}, x, u, o)
<1>1. TextFits(x, u, o)
  BY DEF Fits, TextFits
<1>2. \A q \in w : AskFits(q, x, u)
  BY DEF Fits, AskFits
<1>3. AsksApart(w \ {r}, x)
  BY DEF Fits, AsksApart
<1> QED BY <1>1, <1>2, <1>3 DEF Fits

(* What a body has changed to is still the one that sent its requests.     *)
LEMMA SameSender ==
  ASSUME NEW w, NEW v \in SUBSET w, NEW x, NEW y, NEW t, NEW u, NEW o, NEW p, Fits(w, x, t, o), x # None, y.id = x.id,
         \A r \in v : r.op = "first" /\ Sent(r, x) => ~y.field,
         \A r \in v : r.op = "write" /\ Sent(r, x) => y.saving /\ ~y.conflict,
         \A r \in v : r.op = "write" /\ Own(y) => u # IF Sent(r, x) THEN None ELSE r.text,
         TextFits(y, u, p)
  PROVE  Fits(v, y, u, p)
<1>1. \A r \in v : AskFits(r, y, u)
  BY DEF Fits, AskFits, Sent, Own
<1>2. AsksApart(v, y)
  BY DEF Fits, AsksApart, Sent
<1> QED BY <1>1, <1>2 DEF Fits

LEMMA PageFits ==
  ASSUME EditInv, OnePane, NEW b \in Panes,
         Files!FirstAnswers \/ Files!SaveAnswers \/ Files!LoadAnswers \/ Files!FollowAnswers
  PROVE  Fits(wire', pane'[b], edit', typedOver')
<1> DEFINE x == pane[b]
           y == pane'[b]
<1>0. /\ Fits(wire, x, edit, typedOver) /\ None \notin Int /\ edit \in Int \cup {None}
      /\ \A r \in wire : r.pane = b /\ (Files!Mine(r) <=> Sent(r, x))
      /\ \A r \in wire : r.op = "write" => r.text \in Int
      /\ \A r \in wire : r.op # "write" /\ r.state = "ok" => r.got \in Int
      /\ pane \in [Panes -> Bodies \cup {None}] /\ (x # None => x \in Bodies)
  BY EditFacts
<1>1. ASSUME NEW r \in wire, NEW z, Files!BodyAfter(r, z)
      PROVE  y = IF Sent(r, x) THEN z ELSE x
  BY <1>0, <1>1 DEF Files!BodyAfter
<1>2. ASSUME NEW r, NEW op \in {"first", "write", "load", "follow"}, r \in Files!Back(op)
      PROVE  r \in wire /\ r.state # "sent" /\ r.op = op
  BY <1>2 DEF Files!Back
<1>3. ASSUME NEW r \in wire, Sent(r, x)
      PROVE  /\ x # None /\ x \in Bodies /\ Files!Returned(r) \in Bodies /\ Files!Returned(r).id = x.id
             /\ Files!Returned(r).stamp = x.stamp /\ Files!Returned(r).shown = x.shown
             /\ Files!Returned(r).field = x.field /\ Files!Returned(r).heir = x.heir
             /\ Files!Returned(r).saving = x.saving /\ Files!Returned(r).conflict = x.conflict
  BY <1>0, <1>3, ReturnedTypes DEF EditInv, Sent
<1>4. CASE Files!FirstAnswers
  <2>1. PICK r \in Files!Back("first") :
          /\ wire' = wire \ {r}
          /\ Files!BodyAfter(r, IF r.state = "ok"
                  THEN [Files!Returned(r) EXCEPT !.stamp = r.got, !.field = TRUE, !.heir = Files!Dirty,
                                            !.shown = IF Files!Dirty THEN edit ELSE r.got]
                  ELSE IF Files!Dirty THEN [Files!Returned(r) EXCEPT !.stamp = None, !.conflict = TRUE, !.field = TRUE, !.heir = TRUE,
                                                         !.shown = edit]
                  ELSE Files!Sentence(Files!Returned(r)))
          /\ UNCHANGED <<edit, typedOver>>
    BY <1>4 DEF Files!FirstAnswers, Files!typist
  <2> DEFINE o == Files!Returned(r)
             z1 == [o EXCEPT !.stamp = r.got, !.field = TRUE, !.heir = Files!Dirty, !.shown = IF Files!Dirty THEN edit ELSE r.got]
             z2 == [o EXCEPT !.stamp = None, !.conflict = TRUE, !.field = TRUE, !.heir = TRUE, !.shown = edit]
             z3 == Files!Sentence(o)
  <2>2. r \in wire /\ r.op = "first"
    BY <1>2
  <2>3. y = IF Sent(r, x) THEN (IF r.state = "ok" THEN z1 ELSE IF Files!Dirty THEN z2 ELSE z3) ELSE x
    BY <1>1, <2>1, <2>2
  <2>4. CASE ~Sent(r, x)
    BY <1>0, <2>1, <2>2, <2>3, <2>4, LateFits
  <2>5. CASE Sent(r, x)
    <3>1. o \in Bodies /\ o.id = x.id /\ o.field = x.field /\ o.heir = x.heir /\ x # None
      BY <1>3, <2>2, <2>5
    <3>2. r.state = "ok" => r.got \in Int
      BY <1>0, <2>2
    <3>3. \A q \in wire \ {r} : Sent(q, x) => q.op # "first" /\ q.op # "write"
      BY <1>0, <2>2, <2>5 DEF Fits, AsksApart
    <3> HIDE DEF o
    <3>4. /\ y.id = x.id
          /\ Own(y) => edit = None /\ y.stamp \in Int /\ y.shown = y.stamp
      BY <2>3, <2>5, <3>1, <3>2 DEF Bodies, Files!Sentence, Own, Files!Dirty
    <3>5. TextFits(y, edit, typedOver)
      BY <1>0, <3>4 DEF TextFits
    <3>6. \A q \in wire \ {r} : q.op = "write" /\ Own(y) => edit # IF Sent(q, x) THEN None ELSE q.text
      BY <1>0, <3>3, <3>4
    <3> QED BY <1>0, <2>1, <3>1, <3>3, <3>4, <3>5, <3>6, SameSender
  <2> QED BY <2>4, <2>5
<1>5. CASE Files!SaveAnswers
  <2>1. PICK r \in Files!Back("write") :
          /\ wire' = wire \ {r}
          /\ Files!BodyAfter(r, IF r.state = "ok" THEN [Files!Returned(r) EXCEPT !.saving = FALSE, !.stamp = r.text]
                  ELSE [Files!Returned(r) EXCEPT !.saving = FALSE, !.conflict = r.state \in {"changed", "gone"}])
          /\ edit' = IF r.state = "ok" /\ edit = r.text THEN None ELSE edit
          /\ typedOver' = IF r.state = "ok" /\ Files!Mine(r) THEN r.text ELSE typedOver
    BY <1>5 DEF Files!SaveAnswers
  <2> DEFINE o == Files!Returned(r)
             z1 == [o EXCEPT !.saving = FALSE, !.stamp = r.text]
             z2 == [o EXCEPT !.saving = FALSE, !.conflict = r.state \in {"changed", "gone"}]
  <2>2. r \in wire /\ r.op = "write" /\ r.text \in Int /\ (Files!Mine(r) <=> Sent(r, x)) /\ AskFits(r, x, edit)
    BY <1>0, <1>2 DEF Fits
  <2>3. y = IF Sent(r, x) THEN (IF r.state = "ok" THEN z1 ELSE z2) ELSE x
    BY <1>1, <2>1, <2>2
  <2>4. CASE ~Sent(r, x)
    <3>1. (Own(x) => edit' = edit) /\ edit' \in {edit, None} /\ typedOver' = typedOver /\ y = x
      BY <2>1, <2>2, <2>3, <2>4 DEF AskFits
    <3> QED BY <1>0, <2>1, <2>2, <2>4, <3>1, LateFits
  <2>5. CASE Sent(r, x)
    <3>1. o \in Bodies /\ o.id = x.id /\ o.field = x.field /\ o.heir = x.heir /\ o.stamp = x.stamp /\ o.shown = x.shown
          /\ x # None
      BY <1>3, <2>2, <2>5
    <3>3. \A q \in wire \ {r} : Sent(q, x) => q.op # "write"
      BY <1>0, <2>2, <2>5 DEF Fits, AsksApart
    <3>7. Own(x) => edit # None /\ x.shown = edit /\ typedOver = x.stamp /\ x.stamp # None
      BY <1>0, <2>2, <2>5 DEF Fits, TextFits, AskFits
    <3> HIDE DEF o
    <3>4. /\ y.id = x.id /\ y.field = x.field /\ y.heir = x.heir /\ y.shown = x.shown
          /\ y.stamp = IF r.state = "ok" THEN r.text ELSE x.stamp
      BY <2>3, <2>5, <3>1 DEF Bodies
    <3>8. Own(y) => Own(x)
      BY <3>1, <3>4 DEF Own
    <3>5. TextFits(y, edit', typedOver')
      BY <1>0, <2>1, <2>2, <2>5, <3>4, <3>7, <3>8 DEF TextFits
    <3>6. \A q \in wire \ {r} : q.op = "write" /\ Own(y) => edit' # IF Sent(q, x) THEN None ELSE q.text
      BY <1>0, <2>1, <3>3, <3>8 DEF Fits, AskFits
    <3>9. \A q \in wire \ {r} : q.op = "first" /\ Sent(q, x) => ~y.field
      BY <1>0, <3>4 DEF Fits, AskFits
    <3>10. \A q \in wire \ {r} : q.op = "write" /\ Sent(q, x) => y.saving /\ ~y.conflict
      BY <3>3
    <3> QED BY <1>0, <2>1, <3>1, <3>4, <3>5, <3>6, <3>9, <3>10, SameSender
  <2> QED BY <2>4, <2>5
<1>6. CASE Files!LoadAnswers
  <2>1. PICK r \in Files!Back("load") :
          /\ wire' = wire \ {r}
          /\ Files!BodyAfter(r, IF r.state = "ok" THEN [Files!Returned(r) EXCEPT !.stamp = r.got, !.shown = r.got, !.conflict = FALSE]
                  ELSE [Files!Returned(r) EXCEPT !.conflict = TRUE])
          /\ edit' = IF r.state = "ok" THEN None ELSE edit
          /\ typedOver' = typedOver
    BY <1>6 DEF Files!LoadAnswers
  <2> DEFINE o == Files!Returned(r)
             z1 == [o EXCEPT !.stamp = r.got, !.shown = r.got, !.conflict = FALSE]
             z2 == [o EXCEPT !.conflict = TRUE]
  <2>2. r \in wire /\ r.op = "load" /\ AskFits(r, x, edit)
    BY <1>0, <1>2 DEF Fits
  <2>3. y = IF Sent(r, x) THEN (IF r.state = "ok" THEN z1 ELSE z2) ELSE x
    BY <1>1, <2>1, <2>2
  <2>4. CASE ~Sent(r, x)
    <3>1. ~Own(x) /\ edit' \in {edit, None} /\ y = x
      BY <2>1, <2>2, <2>3, <2>4 DEF AskFits, Own
    <3> QED BY <1>0, <2>1, <2>2, <2>4, <3>1, LateFits
  <2>5. CASE Sent(r, x)
    <3>1. o \in Bodies /\ o.id = x.id /\ o.field = x.field /\ o.heir = x.heir /\ o.stamp = x.stamp /\ o.shown = x.shown
          /\ x # None
      BY <1>3, <2>2, <2>5
    <3>2. r.state = "ok" => r.got \in Int
      BY <1>0, <2>2
    <3>3. \A q \in wire \ {r} : Sent(q, x) => q.op # "write"
      BY <1>0, <2>2, <2>5 DEF Fits, AsksApart
    <3> HIDE DEF o
    <3>4. /\ y.id = x.id /\ y.field = x.field /\ y.heir = x.heir
          /\ IF r.state = "ok" THEN y.stamp = r.got /\ y.shown = r.got ELSE y.stamp = x.stamp /\ y.shown = x.shown
      BY <2>3, <2>5, <3>1 DEF Bodies
    <3>8. Own(y) => Own(x)
      BY <3>1, <3>4 DEF Own
    <3>5. TextFits(y, edit', typedOver')
      BY <1>0, <2>1, <3>2, <3>4, <3>8 DEF TextFits, Fits
    <3>6. \A q \in wire \ {r} : q.op = "write" /\ Own(y) => edit' # IF Sent(q, x) THEN None ELSE q.text
      BY <1>0, <2>1, <3>3, <3>8 DEF Fits, AskFits
    <3>9. \A q \in wire \ {r} : q.op = "first" /\ Sent(q, x) => ~y.field
      BY <1>0, <3>4 DEF Fits, AskFits
    <3>10. \A q \in wire \ {r} : q.op = "write" /\ Sent(q, x) => y.saving /\ ~y.conflict
      BY <3>3
    <3> QED BY <1>0, <2>1, <3>1, <3>4, <3>5, <3>6, <3>9, <3>10, SameSender
  <2> QED BY <2>4, <2>5
<1>7. CASE Files!FollowAnswers
  <2>1. PICK r \in Files!Back("follow") :
          /\ wire' = wire \ {r} /\ Files!BodyAfter(r, Files!Followed(r))
          /\ UNCHANGED <<edit, typedOver>>
    BY <1>7 DEF Files!FollowAnswers, Files!typist
  <2> DEFINE o == Files!Returned(r)
             z1 == [o EXCEPT !.stamp = r.got, !.shown = r.got]
             z2 == Files!Sentence(o)
  <2>2. r \in wire /\ r.op = "follow"
    BY <1>2
  <2>3. y = IF Sent(r, x) THEN Files!Followed(r) ELSE x
    BY <1>1, <2>1, <2>2
  <2>4. CASE ~Sent(r, x)
    BY <1>0, <2>1, <2>2, <2>3, <2>4, LateFits
  <2>5. CASE Sent(r, x)
    <3>1. o \in Bodies /\ o.id = x.id /\ o.field = x.field /\ o.heir = x.heir /\ o.stamp = x.stamp /\ o.shown = x.shown
          /\ o.saving = x.saving /\ o.conflict = x.conflict /\ x # None
      BY <1>3, <2>2, <2>5
    <3>2. r.state = "ok" => r.got \in Int
      BY <1>0, <2>2
    <3>3. y = o \/ (y = z2 /\ edit = None) \/ (y = z1 /\ edit = None /\ r.state = "ok")
      BY <2>3, <2>5 DEF Files!Followed, Files!Dirty
    <3> HIDE DEF o
    <3>4. /\ y.id = x.id /\ y.heir = x.heir /\ y.saving = x.saving /\ (y.conflict => x.conflict) /\ (y.field => x.field)
          /\ \/ y.stamp = x.stamp /\ y.shown = x.shown
             \/ ~y.field
             \/ edit = None /\ y.stamp \in Int /\ y.shown = y.stamp
      BY <3>1, <3>2, <3>3 DEF Bodies, Files!Sentence
    <3>8. Own(y) => Own(x)
      BY <3>1, <3>4 DEF Own
    <3>5. TextFits(y, edit, typedOver)
      BY <1>0, <3>4, <3>8 DEF TextFits, Fits, Own
    <3>6. \A q \in wire \ {r} : q.op = "write" /\ Own(y) => edit # IF Sent(q, x) THEN None ELSE q.text
      BY <1>0, <3>8 DEF Fits, AskFits
    <3>9. \A q \in wire \ {r} : q.op = "first" /\ Sent(q, x) => ~y.field
      BY <1>0, <3>4 DEF Fits, AskFits
    <3>10. \A q \in wire \ {r} : q.op = "write" /\ Sent(q, x) => y.saving /\ ~y.conflict
      BY <1>0, <3>4 DEF Fits, AskFits
    <3> QED BY <1>0, <2>1, <3>1, <3>4, <3>5, <3>6, <3>9, <3>10, SameSender
  <2> QED BY <2>4, <2>5
<1> QED BY <1>4, <1>5, <1>6, <1>7

LEMMA BackendFits ==
  ASSUME EditInv, OnePane, NEW b \in Panes, Files!Backend \/ Files!Crashes \/ Files!Elsewhere
  PROVE  Fits(wire', pane'[b], edit', typedOver')
<1>0. /\ Fits(wire, pane[b], edit, typedOver) /\ wire \in SUBSET Asks
      /\ writing # None => \E r \in wire : Doing(writing, r)
      /\ \A r \in wire : AskTold(r, history, contents, built)
  BY EditFacts DEF EditInv, Told
<1>1. ASSUME NEW r \in wire, NEW s \in {"sent", "ok", "gone", "changed", "error"}, NEW g \in Stamps,
             wire' = (wire \ {r}) \cup {Replied(r, s, g)}, UNCHANGED <<pane, edit, typedOver>>
      PROVE  Fits(wire', pane'[b], edit', typedOver')
  <2> DEFINE a == Replied(r, s, g)
  <2>1. r \in Asks
    BY <1>0
  <2>2. a.op = r.op /\ a.body = r.body /\ a.heir = r.heir /\ a.over = r.over /\ a.expect = r.expect /\ a.text = r.text
    BY <2>1 DEF Asks, Replied
  <2> HIDE DEF a
  <2>3. Fits((wire \ {r}) \cup {a}, pane[b], edit, typedOver)
    BY <1>0, <2>2, FitsReplaced
  <2> QED BY <1>1, <2>3 DEF a
<1>2. CASE UNCHANGED <<wire, pane, edit, typedOver>>
  BY <1>0, <1>2
<1>3. CASE Files!HandleRead
  <2>1. PICK r \in wire : /\ UNCHANGED <<pane, edit, typedOver>>
                          /\ \/ wire' = (wire \ {r}) \cup {Replied(r, "gone", None)}
                             \/ wire' = (wire \ {r}) \cup {Replied(r, "ok", disk)}
    BY <1>3 DEF Files!HandleRead, Files!Waiting, Files!Answer, Files!typist, Replied
  <2>2. None \in Stamps /\ disk \in Stamps
    BY DEF EditInv, Told, EdTypes, Stamps
  <2> QED BY <1>1, <2>1, <2>2
<1>4. CASE Files!WriteChecks
  <2>1. PICK r \in wire : /\ UNCHANGED <<pane, edit, typedOver>>
                          /\ IF Files!Refusal(r) = "none" THEN UNCHANGED wire
                             ELSE wire' = (wire \ {r}) \cup {Replied(r, Files!Refusal(r), None)}
    BY <1>4 DEF Files!WriteChecks, Files!Waiting, Files!Answer, Files!typist, Replied
  <2>2. Files!Refusal(r) \in {"none", "gone", "changed"} /\ None \in Stamps
    BY DEF Files!Refusal, Stamps
  <2>3. CASE Files!Refusal(r) = "none"
    BY <1>2, <2>1, <2>3
  <2>4. CASE Files!Refusal(r) # "none"
    <3> DEFINE s == Files!Refusal(r)
    <3>1. s \in {"sent", "ok", "gone", "changed", "error"}
      BY <2>2, <2>4
    <3>2. wire' = (wire \ {r}) \cup {Replied(r, s, None)}
      BY <2>1, <2>4
    <3> HIDE DEF s
    <3> QED BY <1>1, <2>1, <2>2, <3>1, <3>2
  <2> QED BY <2>3, <2>4
<1>5. CASE Files!WriteLands
  <2>1. writing # None /\ Files!Answer([writing EXCEPT !.got = None], "ok", None) /\ UNCHANGED <<pane, edit, typedOver>>
    BY <1>5 DEF Files!WriteLands, Files!typist
  <2>2. PICK r \in wire : Doing(writing, r)
    BY <1>0, <2>1
  <2>3. r \in Asks /\ r.got = None /\ None \in Stamps
    BY <1>0, <2>2 DEF Doing, AskTold, Stamps
  <2>4. [writing EXCEPT !.got = None] = r
    BY <2>2, <2>3 DEF Doing, Asks
  <2>5. wire' = (wire \ {r}) \cup {Replied(r, "ok", None)}
    BY <2>1, <2>4 DEF Files!Answer, Replied
  <2> QED BY <1>1, <2>1, <2>3, <2>5
<1>6. CASE Files!Crashes
  <2>1. wire' = {Replied(r, "error", None) : r \in wire} /\ UNCHANGED <<pane, edit, typedOver>>
    BY <1>6 DEF Files!Crashes, Files!typist, Replied
  <2> QED BY <1>0, <2>1, FitsLost
<1>7. CASE Files!WriteCuts \/ Files!Elsewhere
  BY <1>2, <1>7 DEF Files!WriteCuts, Files!Elsewhere, Files!typist
<1> QED BY <1>3, <1>4, <1>5, <1>6, <1>7 DEF Files!Backend

LEMMA EditStep ==
  ASSUME EditInv, Patient, OnePane, [Files!Next]_(Files!vars)
  PROVE  EditInv'
<1>1. Told'
  BY ToldStep DEF EditInv
<1>2. ASSUME NEW b \in Panes PROVE Fits(wire', pane'[b], edit', typedOver')
  <2>1. CASE UNCHANGED Files!vars
    BY <2>1 DEF EditInv, Files!vars, Files!typist
  <2>2. CASE \E c \in Panes : \/ Files!Builds(c) \/ Files!Disposes(c) \/ Files!Types(c) \/ Files!Saves(c)
                              \/ Files!Loads(c) \/ Files!Follows(c)
    BY <2>2, UserFits DEF OnePane
  <2>3. CASE Files!FirstAnswers \/ Files!SaveAnswers \/ Files!LoadAnswers \/ Files!FollowAnswers
    BY <2>3, PageFits
  <2>4. CASE Files!Backend \/ Files!Crashes \/ Files!Elsewhere
    BY <2>4, BackendFits
  <2> QED BY <2>1, <2>2, <2>3, <2>4 DEF Files!Next, Files!User, Files!Page
<1> QED BY <1>1, <1>2 DEF EditInv

(* Only the answers to a save and to a load forget text.                   *)
Forgets ==
  Files!Dirty /\ edit' = None =>
    \/ \E r \in wire \ wire' : r.op = "load"
    \/ \E r \in wire \ wire' : r.op = "write" /\ r.state = "ok" /\ r.text = edit
LEMMA ForgetsStep == ASSUME EditInv, Files!Next PROVE Forgets
<1>0. None \notin Int /\ contents \in Nat
  BY NoneIsNoText DEF EditInv, Told, EdTypes
<1>1. CASE edit' = edit
  BY <1>1 DEF Forgets, Files!Dirty
<1>2. CASE \E b \in Panes : Files!Types(b)
  BY <1>0, <1>2 DEF Forgets, Files!Types, Files!Fresh
<1>3. CASE Files!SaveAnswers
  BY <1>3 DEF Files!SaveAnswers, Files!Back, Forgets, Files!Dirty
<1>4. CASE Files!LoadAnswers
  BY <1>4 DEF Files!LoadAnswers, Files!Back, Forgets, Files!Dirty
<1>5. CASE \E b \in Panes : Files!Builds(b) \/ Files!Disposes(b) \/ Files!Saves(b) \/ Files!Loads(b) \/ Files!Follows(b)
  BY <1>1, <1>5 DEF Files!Builds, Files!Disposes, Files!Saves, Files!Loads, Files!Follows, Files!typist
<1>6. CASE Files!FirstAnswers \/ Files!FollowAnswers \/ Files!Backend \/ Files!Crashes \/ Files!Elsewhere
  BY <1>1, <1>6 DEF Files!FirstAnswers, Files!FollowAnswers, Files!Backend, Files!HandleRead, Files!WriteChecks,
       Files!WriteCuts, Files!WriteLands, Files!Crashes, Files!Elsewhere, Files!typist
<1> QED BY <1>2, <1>3, <1>4, <1>5, <1>6 DEF Files!Next, Files!User, Files!Page

(* Only a check begins a write, and it compares the stamp.                 *)
Replaces == Files!Accepts /\ ~writing'.heir => disk = writing'.over
LEMMA ReplacesStep == ASSUME EditInv, OnePane, Files!Next PROVE Replaces
<1>1. CASE writing' = writing \/ writing' = None \/ writing # None
  BY <1>1 DEF Replaces, Files!Accepts
<1>2. CASE Files!WriteChecks
  <2> SUFFICES ASSUME Files!Accepts, ~writing'.heir PROVE disk = writing'.over
    BY DEF Replaces
  <2>1. PICK r \in wire : r.op = "write" /\ Files!Refusal(r) = "none" /\ writing' = r
    BY <1>2 DEF Files!WriteChecks, Files!Waiting, Files!Accepts
  <2>2. r.over # None /\ ~r.heir
    BY <2>1 DEF Files!Accepts
  <2>3. r \in Asks /\ \A b \in Panes : AskFits(r, pane[b], edit)
    BY <2>1 DEF EditInv, Told, EdTypes, Fits
  <2>4. r.pane \in Panes
    BY <2>3 DEF Asks
  <2>5. r.expect = r.over
    BY <2>1, <2>2, <2>3, <2>4 DEF AskFits
  <2> QED BY <2>1, <2>2, <2>5 DEF Files!Refusal
<1>3. CASE \E b \in Panes : \/ Files!Builds(b) \/ Files!Disposes(b) \/ Files!Types(b) \/ Files!Saves(b)
                            \/ Files!Loads(b) \/ Files!Follows(b)
  BY <1>1, <1>3 DEF Files!Builds, Files!Disposes, Files!Types, Files!Saves, Files!Loads, Files!Follows, Files!filing
<1>4. CASE Files!FirstAnswers \/ Files!SaveAnswers \/ Files!LoadAnswers \/ Files!FollowAnswers
  BY <1>1, <1>4 DEF Files!FirstAnswers, Files!SaveAnswers, Files!LoadAnswers, Files!FollowAnswers, Files!filing
<1>5. CASE Files!HandleRead \/ Files!WriteCuts \/ Files!WriteLands \/ Files!Crashes \/ Files!Elsewhere
  BY <1>1, <1>5 DEF Files!HandleRead, Files!WriteCuts, Files!WriteLands, Files!Crashes, Files!Elsewhere, Files!filing
<1> QED BY <1>2, <1>3, <1>4, <1>5 DEF Files!Next, Files!User, Files!Page, Files!Backend

(* A clean body that was built on a clean file shows what it has the stamp *)
(* of, and what a follow brings is not older than what it asked about.     *)
Ages == \A b \in Panes : Files!Same(b) /\ ~Files!LoadAnswers => Files!NoOlder(pane[b].shown, pane'[b].shown)
LEMMA AgesStep == ASSUME EditInv, OnePane, Files!Next PROVE Ages
<1> SUFFICES ASSUME NEW b \in Panes, Files!Same(b), ~Files!LoadAnswers
             PROVE  Later(history, pane[b].shown, pane'[b].shown)
  BY DEF Ages, Files!NoOlder, Later
<1> DEFINE x == pane[b]
           y == pane'[b]
<1>0. /\ x # None /\ x.field /\ ~x.heir /\ edit = None /\ y # None /\ y.field /\ edit' = None
  BY DEF Files!Same, Files!Clean, Files!Fields, Files!Open, Files!Dirty
<1>1. /\ x \in Bodies /\ None \notin Int /\ contents \in Nat /\ history \in Seq(Int)
      /\ x.shown = x.stamp /\ x.stamp \in SeenIn(history) /\ pane \in [Panes -> Bodies \cup {None}]
      /\ \A r \in wire : /\ r.pane = b /\ (Files!Mine(r) <=> Sent(r, x))
                         /\ AskTold(r, history, contents, built) /\ AskFits(r, x, edit)
  BY <1>0, EditFacts DEF EditInv, Told, EdTypes, Fits, TextFits, Own
<1>2. Later(history, x.shown, x.shown)
  <2>1. Len(history) > 0
    BY <1>1 DEF SeenIn
  <2> QED BY <1>1, <2>1, LastIsLatest
<1>3. CASE y.shown = x.shown
  BY <1>2, <1>3
<1>4. CASE Files!FollowAnswers
  <2>1. PICK r \in wire : r.op = "follow" /\ r.state # "sent" /\ Files!BodyAfter(r, Files!Followed(r))
    BY <1>4 DEF Files!FollowAnswers, Files!Back
  <2>2. y = IF Sent(r, x) THEN Files!Followed(r) ELSE x
    BY <1>1, <2>1 DEF Files!BodyAfter
  <2>3. CASE ~Sent(r, x)
    BY <1>3, <2>2, <2>3
  <2>4. CASE Sent(r, x)
    <3>1. Files!Returned(r) \in Bodies /\ Files!Returned(r).shown = x.shown
      BY <1>1, <2>1, <2>4, ReturnedTypes DEF EditInv
    <3>2. CASE Files!Followed(r) = Files!Returned(r)
      BY <1>3, <2>2, <2>4, <3>1, <3>2
    <3>3. CASE Files!Followed(r) = Files!Sentence(Files!Returned(r))
      BY <1>0, <2>2, <2>4, <3>1, <3>3 DEF Files!Sentence, Bodies
    <3>4. CASE /\ Files!Current(r) /\ r.state = "ok"
               /\ Files!Followed(r) = [Files!Returned(r) EXCEPT !.stamp = r.got, !.shown = r.got]
      <4>1. r.sent = x.stamp
        BY <1>1, <2>1, <3>4 DEF Files!Current
      <4>2. y.shown = r.got
        BY <2>2, <2>4, <3>1, <3>4 DEF Bodies
      <4>3. Later(history, r.sent, r.got)
        BY <1>1, <2>1, <3>4 DEF AskTold
      <4> QED BY <1>1, <4>1, <4>2, <4>3
    <3> QED BY <3>2, <3>3, <3>4 DEF Files!Followed
  <2> QED BY <2>3, <2>4
<1>5. CASE Files!FirstAnswers
  <2>1. PICK r \in wire : r.op = "first" /\ \E z : Files!BodyAfter(r, z)
    BY <1>5 DEF Files!FirstAnswers, Files!Back
  <2>2. ~Sent(r, x)
    BY <1>0, <1>1, <2>1 DEF AskFits
  <2> QED BY <1>1, <1>3, <2>1, <2>2 DEF Files!BodyAfter
<1>6. CASE Files!SaveAnswers
  <2>1. PICK r \in wire : r.op = "write"
                          /\ Files!BodyAfter(r, IF r.state = "ok" THEN [Files!Returned(r) EXCEPT !.saving = FALSE, !.stamp = r.text]
                             ELSE [Files!Returned(r) EXCEPT !.saving = FALSE, !.conflict = r.state \in {"changed", "gone"}])
    BY <1>6 DEF Files!SaveAnswers, Files!Back
  <2>2. ~Sent(r, x)
    BY <1>0, <1>1, <2>1 DEF AskFits, Own
  <2> QED BY <1>1, <1>3, <2>1, <2>2 DEF Files!BodyAfter
<1>7. CASE \E c \in Panes : Files!Builds(c) \/ Files!Disposes(c) \/ Files!Types(c)
  <2>1. PICK c \in Panes : Files!Builds(c) \/ Files!Disposes(c) \/ Files!Types(c)
    BY <1>7
  <2>2. c = b
    BY DEF OnePane
  <2>3. ~Files!Builds(b)
    BY <1>0 DEF Files!Builds
  <2>4. ~Files!Types(b)
    BY <1>0, <1>1 DEF Files!Types, Files!Fresh
  <2>5. ~Files!Disposes(b)
    BY <1>0, <1>1 DEF Files!Disposes
  <2> QED BY <2>1, <2>2, <2>3, <2>4, <2>5
<1>8. CASE \E c \in Panes : Files!Saves(c) \/ Files!Loads(c) \/ Files!Follows(c)
  <2>1. PICK c \in Panes : Files!Saves(c) \/ Files!Loads(c) \/ Files!Follows(c)
    BY <1>8
  <2>2. c = b
    BY DEF OnePane
  <2>3. ~Files!Saves(b)
    BY <1>0 DEF Files!Saves, Files!Dirty
  <2>4. Files!Loads(b) => y = [x EXCEPT !.gen = 1, !.out = @ + 1]
    BY <1>1 DEF Files!Loads
  <2>5. Files!Follows(b) => y = [x EXCEPT !.gen = 0, !.out = @ + 1]
    BY <1>1 DEF Files!Follows
  <2>6. y.shown = x.shown
    BY <1>1, <2>1, <2>2, <2>3, <2>4, <2>5 DEF Bodies
  <2> QED BY <1>3, <2>6
<1>9. CASE Files!Backend \/ Files!Crashes \/ Files!Elsewhere
  <2>1. pane' = pane
    BY <1>9 DEF Files!Backend, Files!HandleRead, Files!WriteChecks, Files!WriteCuts, Files!WriteLands, Files!Crashes,
         Files!Elsewhere
  <2> QED BY <1>3, <2>1
<1> QED BY <1>4, <1>5, <1>6, <1>7, <1>8, <1>9 DEF Files!Next, Files!User, Files!Page

(* For any file shown in one pane, any number of contents, bodies, other   *)
(* writers and crashes, and a user who waits for a load: unsaved text is   *)
(* forgotten only when it landed or the disk was chosen, a save replaces   *)
(* what was typed over, and a clean body never shows an older text than it *)
(* did (file-pane.ts, fstext.ts).                                          *)
THEOREM SavesSoundly == Patient /\ OnePane => (Files!Spec => SavesAreSafe)
<1> SUFFICES ASSUME Patient, OnePane PROVE Files!Spec => SavesAreSafe
  OBVIOUS
<1>1. Files!Init => EditInv
  <2> SUFFICES ASSUME Files!Init PROVE EditInv
    OBVIOUS
  <2>1. /\ disk = 1 /\ history = <<1>> /\ contents = 1 /\ edit = None /\ typedOver = None
        /\ pane = [b \in Panes |-> None] /\ wire = {} /\ writing = None /\ built = 0
    BY DEF Files!Init, Files!FirstContent
  <2>2. Told
    BY <2>1 DEF Told, EdTypes, Stamps
  <2>3. ASSUME NEW b \in Panes PROVE Fits(wire, pane[b], edit, typedOver)
    BY <2>1 DEF Fits, TextFits, AsksApart, Own
  <2> QED BY <2>2, <2>3 DEF EditInv
<1>2. EditInv /\ [Files!Next]_(Files!vars) => EditInv'
  BY EditStep
<1>3. EditInv /\ [Files!Next]_(Files!vars) => [Forgets]_(Files!vars) /\ [Replaces]_(Files!vars) /\ [Ages]_(Files!vars)
  BY ForgetsStep, ReplacesStep, AgesStep
<1>4. Files!Spec => [][Forgets]_(Files!vars) /\ [][Replaces]_(Files!vars) /\ [][Ages]_(Files!vars)
  BY <1>1, <1>2, <1>3, PTL DEF Files!Spec
<1> QED BY <1>4, PTL DEF SavesAreSafe, Files!ForgetsWhatLanded, Files!SaveReplacesWhatWasSeen, Files!NeverBackInTime,
         Forgets, Replaces, Ages

-----------------------------------------------------------------------------
(***************************************************************************)
(* Drops                                                                   *)
(***************************************************************************)

(* What a plan and a progress line fold: the rows of the items of a copy,  *)
(* and the writes these rows take.                                         *)
PlanStep(acc, it) == Copies!PlanOne(acc, it, copy.listing, copy.choice)
Plus(sum, n) == sum + n
PlanFold == INSTANCE FoldProofs WITH Op <- LAMBDA c, x, y : PlanStep(x, y)
StepsFold == INSTANCE FoldProofs WITH Op <- LAMBDA c, x, y : Plus(x, y)

(* Names as numbers, below some number.                                    *)
Bounded == {t \in SUBSET Nat : \E b \in Nat : \A m \in t : m <= b}
Planned == [plan : {"upload", "skipped", "failed"}, target : Nat, conflict : BOOLEAN]
Plans == [taken : Bounded, out : Seq(Planned)]
Copying ==
  [running : BOOLEAN, items : Seq(Copies!Items), listing : Bounded, choice : Copies!Answers \cup {"none"},
   at : Nat, unit : Nat, failed : Nat, rows : Seq({"copied", "upload", "skipped", "failed"}), done : Nat,
   mine : BOOLEAN, said : BOOLEAN]

LEMMA PlanIsAFold ==
  Copies!Plan = PlanFold!Folded(0, [taken |-> copy.listing, out |-> <<>>], copy.items).out
BY Zenon DEF Copies!Plan, Copies!planTargets, PlanStep, PlanFold!Folded, Copies!FoldLeft, Copies!MapThenFoldSet, Copies!Max,
             PlanFold!MapThenFoldSet, PlanFold!Greatest

LEMMA TotalIsAFold == Copies!Total = StepsFold!Folded(0, 0, Copies!StepsOfRows)
BY Zenon DEF Copies!Total, Plus, StepsFold!Folded, Copies!FoldLeft, Copies!MapThenFoldSet, Copies!Max,
             StepsFold!MapThenFoldSet, StepsFold!Greatest

(***************************************************************************)
(* The plan                                                                *)
(***************************************************************************)

(* There is a number for a file that is kept beside its namesake.          *)
LEMMA SavedNameIs ==
  ASSUME NEW n \in Nat, NEW t \in Bounded
  PROVE  Copies!keepBothName(n, t) \in Nat
<1>1. t \in SUBSET Nat /\ \E b \in Nat : \A m \in t : m <= b
  BY DEF Bounded
<1>2. IsFiniteSet(t)
  BY <1>1, FS_BoundedSetOfNaturals
<1>3. \A S : Copies!Cardinality(S) = Cardinality(S)
  BY Zenon DEF Copies!Cardinality, Cardinality, Copies!IsFiniteSet, IsFiniteSet
<1>4. PICK c \in Nat : c = Cardinality(t)
  BY <1>2, FS_CardinalityType
<1> DEFINE I == (n + 1)..(n + 1 + c)
<1>5. IsFiniteSet(I) /\ Cardinality(I) = c + 1
  <2>1. n + 1 \in Int /\ n + 1 + c \in Int /\ ~(n + 1 > n + 1 + c) /\ (n + 1 + c) - (n + 1) + 1 = c + 1
    OBVIOUS
  <2>2. IsFiniteSet(I) /\ Cardinality(I) = IF n + 1 > n + 1 + c THEN 0 ELSE (n + 1 + c) - (n + 1) + 1
    BY <2>1, FS_Interval
  <2> HIDE DEF I
  <2> QED
    BY <2>1, <2>2
<1>6. ~(I \subseteq t)
  <2> SUFFICES ASSUME I \subseteq t PROVE FALSE
    OBVIOUS
  <2> HIDE DEF I
  <2>1. Cardinality(I) <= Cardinality(t)
    BY <1>2, FS_Subset
  <2>2. c + 1 <= c
    BY <1>4, <1>5, <2>1
  <2> QED
    BY <2>2
<1>7. PICK m \in I \ t : \A k \in I \ t : m <= k
  <2>1. I \ t \subseteq Nat /\ I \ t # {}
    BY <1>6
  <2> HIDE DEF I
  <2> QED
    BY <2>1, PlanFold!LeastNatural
<1>8. m \in I /\ m \notin t /\ \A k \in (n + 1)..(m - 1) : k \in t
  BY <1>7
<1>9. \E x \in I : x \notin t /\ \A k \in (n + 1)..(x - 1) : k \in t
  BY <1>8
<1>10. Copies!keepBothName(n, t) = CHOOSE x \in I : x \notin t /\ \A k \in (n + 1)..(x - 1) : k \in t
  BY <1>3, <1>4 DEF Copies!keepBothName
<1>11. Copies!keepBothName(n, t) \in I
  BY <1>9, <1>10
<1> QED
  BY <1>11

(* One item planned: a row more, for a name that is in the listing or not. *)
LEMMA PlanOneIs ==
  ASSUME NEW acc \in Plans, NEW it \in Copies!Items, NEW listing, NEW choice,
         NEW new, new = Copies!PlanOne(acc, it, listing, choice)
  PROVE  /\ new \in Plans
         /\ \E r \in Planned : /\ new.out = Append(acc.out, r)
                               /\ r.conflict = (it.name \in listing)
                               /\ choice = "replace" => r.target = it.name
<1> DEFINE conflict == it.name \in listing
           saved == Copies!keepBothName(it.name, acc.taken)
           row(plan, target) == [plan |-> plan, target |-> target, conflict |-> conflict]
<1>1. it.name \in Nat /\ acc.taken \in Bounded /\ acc.out \in Seq(Planned) /\ conflict \in BOOLEAN
  BY DEF Copies!Items, Plans
<1>2. saved \in Nat
  BY <1>1, SavedNameIs
<1>3. \A m \in Nat : acc.taken \cup {m} \in Bounded
  <2> TAKE m \in Nat
  <2>1. PICK b \in Nat : \A k \in acc.taken : k <= b
    BY <1>1 DEF Bounded
  <2>2. acc.taken \in SUBSET Nat
    BY <1>1 DEF Bounded
  <2>3. b + m \in Nat /\ \A k \in acc.taken \cup {m} : k <= b + m
    BY <2>1, <2>2
  <2> QED
    BY <2>2, <2>3 DEF Bounded
<1>4. new = IF conflict /\ choice = "skip" THEN [acc EXCEPT !.out = Append(acc.out, row("skipped", it.name))]
            ELSE IF it.what.oversize THEN [acc EXCEPT !.out = Append(acc.out, row("failed", it.name))]
            ELSE IF conflict /\ choice = "keep-both"
                 THEN [taken |-> acc.taken \cup {saved}, out |-> Append(acc.out, row("upload", saved))]
            ELSE [taken |-> acc.taken \cup {it.name}, out |-> Append(acc.out, row("upload", it.name))]
  BY DEF Copies!PlanOne
<1>5. \A r \in Planned : Append(acc.out, r) \in Seq(Planned)
  BY <1>1
<1> HIDE DEF saved, conflict
<1>6. \A p \in {"upload", "skipped", "failed"}, m \in Nat : row(p, m) \in Planned /\ row(p, m).conflict = conflict /\ row(p, m).target = m
  BY <1>1 DEF Planned
<1> HIDE DEF row
<1>7. PICK p \in {"upload", "skipped", "failed"}, t \in Bounded :
        \/ new = [taken |-> t, out |-> Append(acc.out, row(p, it.name))]
        \/ choice = "keep-both" /\ new = [taken |-> t, out |-> Append(acc.out, row(p, saved))]
  <2>1. acc = [taken |-> acc.taken, out |-> acc.out]
    BY DEF Plans
  <2>2. \A o : [acc EXCEPT !.out = o] = [taken |-> acc.taken, out |-> o]
    BY <2>1
  <2>3. acc.taken \cup {saved} \in Bounded /\ acc.taken \cup {it.name} \in Bounded
    BY <1>1, <1>2, <1>3
  <2> QED
    BY <1>1, <1>4, <2>2, <2>3
<1>8. CASE new = [taken |-> t, out |-> Append(acc.out, row(p, it.name))]
  <2>1. row(p, it.name) \in Planned /\ row(p, it.name).conflict = conflict /\ row(p, it.name).target = it.name
    BY <1>1, <1>6
  <2>2. new \in Plans /\ new.out = Append(acc.out, row(p, it.name))
    BY <1>5, <1>8, <2>1 DEF Plans
  <2> QED
    BY <2>1, <2>2 DEF conflict
<1>9. CASE choice = "keep-both" /\ new = [taken |-> t, out |-> Append(acc.out, row(p, saved))]
  <2>1. row(p, saved) \in Planned /\ row(p, saved).conflict = conflict
    BY <1>2, <1>6
  <2>2. new \in Plans /\ new.out = Append(acc.out, row(p, saved))
    BY <1>5, <1>9, <2>1 DEF Plans
  <2> QED
    BY <1>9, <2>1, <2>2 DEF conflict
<1> QED
  BY <1>7, <1>8, <1>9

(* The plan has a row for every item; with Replace it keeps every name.    *)
Rows(n, out) ==
  /\ out \in Seq(Planned) /\ Len(out) = n
  /\ \A i \in 1..n : /\ out[i].conflict = (copy.items[i].name \in copy.listing)
                     /\ copy.choice = "replace" => out[i].target = copy.items[i].name
LEMMA PlanIs ==
  ASSUME copy \in Copying
  PROVE  Rows(Len(copy.items), Copies!Plan)
<1>1. copy.items \in Seq(Copies!Items) /\ copy.listing \in Bounded
  BY DEF Copying
<1> DEFINE a == [taken |-> copy.listing, out |-> <<>>]
<1>2. a \in Plans /\ a.out = <<>>
  BY <1>1 DEF Plans
<1> HIDE DEF a
<1>3. PlanFold!Keeps(0, Plans, Copies!Items)
  <2> SUFFICES ASSUME NEW x \in Plans, NEW y \in Copies!Items PROVE PlanStep(x, y) \in Plans
    BY DEF PlanFold!Keeps
  <2> QED
    BY PlanOneIs DEF PlanStep
<1>4. PICK f \in [0..Len(copy.items) -> Plans] :
        PlanFold!Accumulates(0, f, a, copy.items) /\ PlanFold!Folded(0, a, copy.items) = f[Len(copy.items)]
  BY <1>1, <1>2, <1>3, PlanFold!FoldRuns
<1> DEFINE P(n) == n <= Len(copy.items) => Rows(n, f[n].out)
           T == {n \in Nat : P(n)}
<1>5. P(0)
  <2>1. f[0].out = <<>>
    BY <1>2, <1>4 DEF PlanFold!Accumulates
  <2> QED
    BY <2>1 DEF Rows
<1>6. ASSUME NEW n \in Nat, P(n), n + 1 <= Len(copy.items) PROVE Rows(n + 1, f[n + 1].out)
  <2>1. n + 1 \in 1..Len(copy.items) /\ n \in 0..Len(copy.items) /\ (n + 1) - 1 = n /\ n <= Len(copy.items)
    BY <1>1, <1>6
  <2>2. f[n + 1] = PlanStep(f[n], copy.items[n + 1])
    BY <1>4, <2>1 DEF PlanFold!Accumulates
  <2>3. f[n] \in Plans /\ copy.items[n + 1] \in Copies!Items
    BY <1>1, <1>4, <2>1
  <2>4. PICK r \in Planned : /\ f[n + 1].out = Append(f[n].out, r)
                             /\ r.conflict = (copy.items[n + 1].name \in copy.listing)
                             /\ copy.choice = "replace" => r.target = copy.items[n + 1].name
    <3>1. f[n + 1] = Copies!PlanOne(f[n], copy.items[n + 1], copy.listing, copy.choice)
      BY <2>2 DEF PlanStep
    <3>2. PICK l, c : l = copy.listing /\ c = copy.choice
      OBVIOUS
    <3>3. PICK r \in Planned : /\ f[n + 1].out = Append(f[n].out, r)
                               /\ r.conflict = (copy.items[n + 1].name \in l)
                               /\ c = "replace" => r.target = copy.items[n + 1].name
      BY <2>3, <3>1, <3>2, PlanOneIs
    <3> QED
      BY <3>2, <3>3
  <2>5. Rows(n, f[n].out)
    BY <1>6, <2>1
  <2> DEFINE o == f[n].out
  <2>6. o \in Seq(Planned) /\ Len(o) = n
    BY <2>5 DEF Rows
  <2> HIDE DEF o
  <2>7. Append(o, r) \in Seq(Planned) /\ Len(Append(o, r)) = n + 1
    BY <2>6
  <2>8. Append(o, r)[n + 1] = r /\ \A i \in 1..n : Append(o, r)[i] = o[i]
    BY <2>6
  <2>9. \A i \in 1..(n + 1) : i \in 1..n \/ i = n + 1
    OBVIOUS
  <2>10. Rows(n + 1, Append(o, r))
    <3>1. ASSUME NEW i \in 1..(n + 1)
          PROVE  /\ Append(o, r)[i].conflict = (copy.items[i].name \in copy.listing)
                 /\ copy.choice = "replace" => Append(o, r)[i].target = copy.items[i].name
      <4>1. CASE i = n + 1
        BY <2>4, <2>8, <4>1
      <4>2. CASE i \in 1..n
        BY <2>5, <2>8, <4>2 DEF Rows, o
      <4> QED
        BY <2>9, <4>1, <4>2
    <3> QED
      BY <2>7, <3>1 DEF Rows
  <2> QED
    BY <2>4, <2>10 DEF o
<1> HIDE DEF P
<1>7. Nat \subseteq T
  <2>1. 0 \in T /\ \A n \in Nat : n \in T => n + 1 \in T
    BY <1>5, <1>6 DEF P
  <2> HIDE DEF T
  <2> QED
    BY <2>1, PlanFold!Induction
<1>8. P(Len(copy.items)) /\ Len(copy.items) <= Len(copy.items)
  BY <1>1, <1>7
<1>9. Copies!Plan = f[Len(copy.items)].out
  BY <1>4, PlanIsAFold DEF a
<1> QED
  BY <1>8, <1>9 DEF P

(***************************************************************************)
(* The writes of an item, and what the progress line counts                *)
(***************************************************************************)
Unit == [dir : BOOLEAN, leaf : Copies!Leaves]
LEMMA UnitsAre ==
  ASSUME NEW it \in Copies!Items
  PROVE  Copies!UnitsOf(it) \in Seq(Unit)
<1>1. it.what.files \in Seq(Copies!Leaves) /\ it.what.empties \in Seq(Copies!Leaves)
  BY DEF Copies!Items
<1>2. \A s \in Seq(Copies!Leaves), d \in BOOLEAN : [i \in 1..Len(s) |-> [dir |-> d, leaf |-> s[i]]] \in Seq(Unit)
  <2> TAKE s \in Seq(Copies!Leaves), d \in BOOLEAN
  <2>1. \A i \in 1..Len(s) : [dir |-> d, leaf |-> s[i]] \in Unit
    BY DEF Unit
  <2> QED
    BY <2>1
<1>3. [i \in 1..Len(it.what.files) |-> [dir |-> FALSE, leaf |-> it.what.files[i]]] \in Seq(Unit)
      /\ [i \in 1..Len(it.what.empties) |-> [dir |-> TRUE, leaf |-> it.what.empties[i]]] \in Seq(Unit)
  BY <1>1, <1>2
<1> QED
  BY <1>3, ConcatProperties DEF Copies!UnitsOf

(* What the progress line is at, row by row.                               *)
Steps(i) == Copies!StepsOf(Copies!Plan[i].plan, copy.items[i])
Counts(g) == g[0] = 0 /\ \A i \in 1..Len(copy.items) : g[i] = g[i - 1] + Steps(i)
LEMMA TotalIs ==
  ASSUME copy \in Copying
  PROVE  \E g \in [0..Len(copy.items) -> Nat] : Counts(g) /\ Copies!Total = g[Len(copy.items)]
<1>1. copy.items \in Seq(Copies!Items) /\ Len(copy.items) \in Nat
  BY DEF Copying
<1>2. Len(Copies!Plan) = Len(copy.items)
  BY PlanIs DEF Rows
<1>3. ASSUME NEW i \in 1..Len(copy.items) PROVE Steps(i) \in Nat
  <2>1. copy.items[i] \in Copies!Items
    BY <1>1
  <2>2. Len(Copies!UnitsOf(copy.items[i])) \in Nat
    BY <2>1, UnitsAre
  <2> QED
    BY <2>2 DEF Steps, Copies!StepsOf
<1> DEFINE s == [i \in 1..Len(copy.items) |-> Steps(i)]
<1>4. Copies!StepsOfRows = s
  BY <1>2 DEF Copies!StepsOfRows, Steps
<1>5. s \in Seq(Nat) /\ Len(s) = Len(copy.items) /\ \A i \in 1..Len(copy.items) : s[i] = Steps(i)
  BY <1>1, <1>3
<1> HIDE DEF s
<1>11. PICK r \in Seq(Nat) : r = s
  BY <1>5
<1>6. StepsFold!Keeps(0, Nat, Nat)
  BY DEF StepsFold!Keeps, Plus
<1>7. PICK g \in [0..Len(r) -> Nat] : StepsFold!Accumulates(0, g, 0, r) /\ StepsFold!Folded(0, 0, r) = g[Len(r)]
  <2>1. PICK N : N = Nat
    OBVIOUS
  <2>2. PICK z \in N : z = 0
    BY <2>1
  <2>3. r \in Seq(N) /\ StepsFold!Keeps(0, N, N)
    BY <1>6, <2>1
  <2>4. \E g \in [0..Len(r) -> N] : StepsFold!Accumulates(0, g, z, r) /\ StepsFold!Folded(0, z, r) = g[Len(r)]
    BY <2>3, StepsFold!FoldRuns
  <2> QED
    BY <2>1, <2>2, <2>4
<1>8. Counts(g)
  BY <1>5, <1>11, <1>7 DEF StepsFold!Accumulates, Counts, Plus
<1> QED
  BY <1>4, <1>5, <1>11, <1>7, <1>8, TotalIsAFold

(***************************************************************************)
(* The invariant: the folder and what is listed of it hold names, and a    *)
(* copy that runs has counted the writes of the rows before its own, and   *)
(* of its own those it is past.                                            *)
(***************************************************************************)
Offers == [step : {"walk", "list"}, items : Seq(Copies!Items)]
Named(d) == d \subseteq Nat \X Copies!Leaves /\ \E b \in Nat : \A p \in d : p[1] <= b
Within(c, n, units, plan) ==
  /\ c.at \in 1..(n + 1) /\ c.unit >= 1
  /\ c.at > n => c.unit = 1
  /\ c.at <= n => c.unit <= Len(units) + 1 /\ (plan # "upload" => c.unit = 1)
Counted == \A g \in [0..Len(copy.items) -> Nat] : Counts(g) => copy.done = g[copy.at - 1] + (copy.unit - 1)
Progress == Within(copy, Len(copy.items), Copies!Units, Copies!Row.plan) /\ Counted
CopyInv ==
  /\ Named(DOMAIN folder)
  /\ offers \in Seq(Offers)
  /\ card \in [up : BOOLEAN, phase : {"conflicts", "copying", "result"}]
  /\ copy \in Copying
  /\ copy.running => card.phase = "copying" /\ Progress

LEMMA ProgressStays == ASSUME copy' = copy PROVE Progress' <=> Progress
BY Zenon DEF Progress, Counted, Counts, Steps, Copies!Plan, Copies!Row, Copies!Units

LEMMA PlanStays ==
  ASSUME copy'.items = copy.items, copy'.listing = copy.listing, copy'.choice = copy.choice
  PROVE  Copies!Plan' = Copies!Plan /\ \A g : Counts(g)' <=> Counts(g)
<1>1. Copies!Plan' = Copies!Plan
  BY Zenon DEF Copies!Plan
<1> QED
  BY <1>1, Zenon DEF Counts, Steps

LEMMA NamedMore ==
  ASSUME NEW d, Named(d), NEW p \in Nat \X Copies!Leaves
  PROVE  Named(d \cup {p})
<1>1. PICK b \in Nat : \A q \in d : q[1] <= b
  BY DEF Named
<1>2. p[1] \in Nat /\ d \subseteq Nat \X Copies!Leaves
  BY DEF Named
<1>3. b + p[1] \in Nat /\ \A q \in d \cup {p} : q[1] <= b + p[1]
  BY <1>1, <1>2
<1> QED
  BY <1>2, <1>3 DEF Named

LEMMA NamedLess == \A d, e : Named(d) /\ e \subseteq d => Named(e)
BY DEF Named

LEMMA ListingIs ==
  ASSUME Named(DOMAIN folder), NEW listing \in SUBSET Copies!TopNames
  PROVE  listing \in Bounded
<1>1. PICK b \in Nat : \A p \in DOMAIN folder : p[1] <= b
  BY DEF Named
<1>2. \A p \in DOMAIN folder : p[1] \in Nat
  BY DEF Named
<1>3. \A m \in listing : \E p \in DOMAIN folder : m = p[1]
  BY DEF Copies!TopNames
<1> QED
  BY <1>1, <1>2, <1>3 DEF Bounded

(* Fields that change, of a record of this type.                           *)
LEMMA CopyingBut ==
  ASSUME NEW c \in Copying
  PROVE  /\ \A done, unit, failed \in Nat : [c EXCEPT !.done = done, !.unit = unit, !.failed = failed] \in Copying
         /\ \A told \in Seq({"copied", "upload", "skipped", "failed"}), at, done \in Nat :
              [c EXCEPT !.rows = told, !.at = at, !.unit = 1, !.failed = 0, !.done = done] \in Copying
         /\ \A items \in Seq(Copies!Items), listing \in Bounded : [c EXCEPT !.items = items, !.listing = listing] \in Copying
BY DEF Copying

LEMMA NoCopyIs == Copies!NoCopy \in Copying /\ Copies!NoCopy.running = FALSE
<1>1. {} \in Bounded
  <2>1. 0 \in Nat
    OBVIOUS
  <2> QED
    BY <2>1 DEF Bounded
<1> QED
  BY <1>1 DEF Copies!NoCopy, Copying

(* The row a copy is at.                                                   *)
LEMMA RowIs ==
  ASSUME CopyInv, Copies!AtRow
  PROVE  /\ copy.at \in 1..Len(copy.items) /\ copy.items[copy.at] \in Copies!Items
         /\ Copies!Row \in Planned /\ Copies!Units \in Seq(Unit)
         /\ Copies!Row.conflict = (copy.items[copy.at].name \in copy.listing)
         /\ copy.choice = "replace" => Copies!Row.target = copy.items[copy.at].name
<1>1. copy \in Copying /\ copy.running /\ copy.at <= Len(copy.items) /\ Progress
  BY DEF CopyInv, Copies!AtRow
<1>2. copy.items \in Seq(Copies!Items) /\ copy.at \in Nat
  BY <1>1 DEF Copying
<1>3. copy.at >= 1
  BY <1>1 DEF Progress, Within
<1>4. copy.at \in 1..Len(copy.items) /\ copy.items[copy.at] \in Copies!Items
  BY <1>1, <1>2, <1>3
<1>5. Rows(Len(copy.items), Copies!Plan)
  BY <1>1, PlanIs
<1>6. Copies!Row = Copies!Plan[copy.at]
  BY DEF Copies!Row
<1>7. Copies!Units \in Seq(Unit)
  BY <1>4, UnitsAre DEF Copies!Units
<1> QED
  BY <1>4, <1>5, <1>6, <1>7 DEF Rows

(* An answer starts a copy.                                                *)
LEMMA StartsProgress ==
  ASSUME NEW items \in Seq(Copies!Items), NEW listing \in Bounded, NEW choice \in Copies!Answers,
         Copies!Starts(items, listing, choice)
  PROVE  copy' \in Copying /\ card' = [up |-> TRUE, phase |-> "copying"] /\ Progress'
<1>1. copy' = [running |-> TRUE, items |-> items, listing |-> listing, choice |-> choice, at |-> 1,
               unit |-> 1, failed |-> 0, rows |-> <<>>, done |-> 0, mine |-> TRUE, said |-> FALSE]
  BY DEF Copies!Starts, Copies!NoCopy
<1>2. copy' \in Copying
  BY <1>1 DEF Copying
<1>3. copy'.at = 1 /\ copy'.unit = 1 /\ copy'.done = 0 /\ copy'.items = items
  BY <1>1
<1>4. Counted'
  <2> SUFFICES ASSUME NEW g \in [0..Len(copy'.items) -> Nat], Counts(g)' PROVE copy'.done = g[copy'.at - 1] + (copy'.unit - 1)
    BY DEF Counted
  <2>1. g[0] = 0
    BY DEF Counts
  <2> QED
    BY <1>3, <2>1
<1>5. Within(copy, Len(copy.items), Copies!Units, Copies!Row.plan)'
  <2>1. ASSUME 1 <= Len(items) PROVE 1 <= Len(Copies!Units') + 1
    <3>1. items[1] \in Copies!Items
      BY <2>1
    <3>2. Copies!Units' = Copies!UnitsOf(items[1])
      BY <1>3 DEF Copies!Units
    <3>3. Len(Copies!Units') \in Nat
      BY <3>1, <3>2, UnitsAre
    <3> QED
      BY <3>3
  <2>2. Len(items) \in Nat
    OBVIOUS
  <2> QED
    BY <1>3, <2>1, <2>2 DEF Within
<1> QED
  BY <1>2, <1>4, <1>5 DEF Copies!Starts, Progress

LEMMA DropsKeep ==
  ASSUME CopyInv, NEW items \in Dropped, Copies!Drops(items)
  PROVE  CopyInv'
<1>1. items \in Seq(Copies!Items)
  BY ContentsAssumption DEF Copies!DropBounds
<1>2. offers' = Append(offers, [step |-> "walk", items |-> items]) /\ offers \in Seq(Offers)
  BY DEF Copies!Drops, CopyInv
<1>3. [step |-> "walk", items |-> items] \in Offers
  BY <1>1 DEF Offers
<1>4. offers' \in Seq(Offers)
  BY <1>2, <1>3
<1>5. copy' = copy /\ card' = card /\ folder' = folder
  BY DEF Copies!Drops
<1> QED
  BY <1>4, <1>5, ProgressStays DEF CopyInv

LEMMA ForgetsKeeps ==
  ASSUME offers \in Seq(Offers), NEW o \in 1..Len(offers), Copies!Forgets(o)
  PROVE  offers' \in Seq(Offers)
<1>1. offers' = SubSeq(offers, 1, o - 1) \o SubSeq(offers, o + 1, Len(offers))
  BY DEF Copies!Forgets, Copies!RemoveAt
<1>2. SubSeq(offers, 1, o - 1) \in Seq(Offers) /\ SubSeq(offers, o + 1, Len(offers)) \in Seq(Offers)
  OBVIOUS
<1> QED
  BY <1>1, <1>2, ConcatProperties

LEMMA WalksKeep ==
  ASSUME CopyInv, NEW o \in 1..Len(offers), NEW heavy \in BOOLEAN, Copies!Walks(o, heavy)
  PROVE  CopyInv'
<1>1. offers \in Seq(Offers) /\ offers[o] \in Offers
  BY DEF CopyInv
<1>2. copy' = copy /\ card' = card /\ folder' = folder
  BY DEF Copies!Walks
<1>3. offers' \in Seq(Offers)
  <2>1. CASE Copies!Forgets(o)
    BY <1>1, <2>1, ForgetsKeeps
  <2>2. CASE offers' = [offers EXCEPT ![o].step = "list"]
    <3>1. [offers[o] EXCEPT !.step = "list"] \in Offers
      BY <1>1 DEF Offers
    <3>2. offers' = [offers EXCEPT ![o] = [offers[o] EXCEPT !.step = "list"]]
      BY <2>2
    <3> QED
      BY <1>1, <3>1, <3>2
  <2> QED
    BY <2>1, <2>2 DEF Copies!Walks
<1> QED
  BY <1>2, <1>3, ProgressStays DEF CopyInv

LEMMA ListsKeep ==
  ASSUME CopyInv, NEW o \in 1..Len(offers), NEW listing \in SUBSET Copies!TopNames, Copies!Lists(o, listing)
  PROVE  CopyInv'
<1>1. offers \in Seq(Offers) /\ offers[o] \in Offers /\ offers[o].items \in Seq(Copies!Items)
  <2>1. offers \in Seq(Offers) /\ offers[o] \in Offers
    BY DEF CopyInv
  <2> QED
    BY <2>1 DEF Offers
<1>2. offers' \in Seq(Offers) /\ folder' = folder
  BY <1>1, ForgetsKeeps DEF Copies!Lists
<1>3. listing \in Bounded
  BY ListingIs DEF CopyInv
<1>4. CASE UNCHANGED <<card, copy>>
  BY <1>2, <1>4, ProgressStays DEF CopyInv
<1>5. CASE Copies!Starts(offers[o].items, listing, "replace")
  <2>1. "replace" \in Copies!Answers
    BY DEF Copies!Answers
  <2>2. copy' \in Copying /\ card' = [up |-> TRUE, phase |-> "copying"] /\ Progress'
    BY <1>1, <1>3, <1>5, <2>1, StartsProgress
  <2> QED
    BY <1>2, <2>2 DEF CopyInv
<1>6. CASE /\ card' = [up |-> TRUE, phase |-> "conflicts"]
           /\ copy' = [Copies!NoCopy EXCEPT !.items = offers[o].items, !.listing = listing]
  <2>1. copy' \in Copying
    BY <1>1, <1>3, <1>6, NoCopyIs, CopyingBut
  <2>2. copy'.running = FALSE
    BY <1>6 DEF Copies!NoCopy
  <2> QED
    BY <1>2, <1>6, <2>1, <2>2 DEF CopyInv
<1> QED
  BY <1>4, <1>5, <1>6 DEF Copies!Lists

LEMMA ChoosesKeep ==
  ASSUME CopyInv, NEW choice \in Copies!Answers, Copies!Chooses(choice)
  PROVE  CopyInv'
<1>1. copy.items \in Seq(Copies!Items) /\ copy.listing \in Bounded
  BY DEF CopyInv, Copying
<1>2. copy' \in Copying /\ card' = [up |-> TRUE, phase |-> "copying"] /\ Progress'
  BY <1>1, StartsProgress DEF Copies!Chooses
<1> QED
  BY <1>2 DEF Copies!Chooses, CopyInv

LEMMA CardsKeep ==
  ASSUME CopyInv, Copies!hideCard \/ Copies!closeDialog \/ Copies!finished
  PROVE  CopyInv'
<1>1. CASE Copies!hideCard
  <2>1. card' \in [up : BOOLEAN, phase : {"conflicts", "copying", "result"}] /\ card'.phase = card.phase
    BY <1>1 DEF Copies!hideCard, CopyInv
  <2> QED
    BY <1>1, <2>1, ProgressStays DEF Copies!hideCard, CopyInv
<1>2. CASE Copies!closeDialog
  <2>1. card' \in [up : BOOLEAN, phase : {"conflicts", "copying", "result"}]
    BY <1>2 DEF Copies!closeDialog, CopyInv
  <2> QED
    BY <1>2, <2>1, NoCopyIs DEF Copies!closeDialog, CopyInv
<1>3. CASE Copies!finished
  <2>1. card' \in [up : BOOLEAN, phase : {"conflicts", "copying", "result"}]
    BY <1>3 DEF Copies!finished, CopyInv
  <2>2. copy' \in Copying /\ ~copy'.running
    BY <1>3 DEF Copies!finished, CopyInv, Copying
  <2> QED
    BY <1>3, <2>1, <2>2 DEF Copies!finished, CopyInv
<1> QED
  BY <1>1, <1>2, <1>3

(* What a write, whatever it is, makes of the folder.                      *)
LEMMA WritesName ==
  ASSUME Named(DOMAIN folder), NEW p \in Nat \X Copies!Leaves
  PROVE  Named(DOMAIN Copies!Put(p)) /\ Named(DOMAIN Copies!Made(p))
<1>1. <<p[1], Copies!Self>> \in Nat \X Copies!Leaves
  BY DEF Copies!Leaves
<1>2. Named(DOMAIN Copies!Above(p))
  <2>1. DOMAIN Copies!Above(p) = DOMAIN folder \/ DOMAIN Copies!Above(p) = DOMAIN folder \cup {<<p[1], Copies!Self>>}
    BY DEF Copies!Above, Copies!With
  <2> QED
    BY <1>1, <2>1, NamedMore
<1>3. DOMAIN Copies!Put(p) = DOMAIN Copies!Above(p) \cup {p} /\ DOMAIN Copies!Made(p) = DOMAIN Copies!Above(p) \cup {p}
  BY DEF Copies!Put, Copies!Made
<1> QED
  BY <1>2, <1>3, NamedMore

(* The writes of a copy: which path is written, and how.                   *)
LEMMA WritesOneIs ==
  ASSUME CopyInv, Copies!WritesOne
  PROVE  /\ Copies!AtRow /\ Copies!Row.plan = "upload" /\ copy.unit \in 1..Len(Copies!Units)
         /\ \E bad \in {0, 1} : copy' = [copy EXCEPT !.done = copy.done + 1, !.unit = copy.unit + 1, !.failed = copy.failed + bad]
         /\ UNCHANGED <<offers, card>>
         /\ \E p \in Nat \X Copies!Leaves :
              /\ p[1] = Copies!Row.target
              /\ \/ folder' = folder
                 \/ folder' = Copies!Made(p)
                 \/ folder' = Copies!Put(p) /\ Copies!PutWorks(p, Copies!uploadMode(copy.choice, Copies!Row.conflict))
<1>1. Copies!AtRow /\ Copies!Row.plan = "upload" /\ copy.unit <= Len(Copies!Units)
  BY DEF Copies!WritesOne
<1>2. Copies!Row \in Planned /\ Copies!Units \in Seq(Unit)
  BY <1>1, RowIs
<1>3. copy.unit \in Nat /\ copy.unit >= 1
  BY <1>1 DEF CopyInv, Copying, Progress, Within, Copies!AtRow
<1>4. copy.unit \in 1..Len(Copies!Units) /\ Copies!Units[copy.unit] \in Unit
  BY <1>1, <1>2, <1>3
<1> DEFINE p == <<Copies!Row.target, Copies!Units[copy.unit].leaf>>
<1>5. p \in Nat \X Copies!Leaves /\ p[1] = Copies!Row.target
  BY <1>2, <1>4 DEF Planned, Unit
<1>6. /\ \E bad \in {0, 1} : copy' = [copy EXCEPT !.done = copy.done + 1, !.unit = copy.unit + 1, !.failed = copy.failed + bad]
      /\ UNCHANGED <<offers, card>>
  BY DEF Copies!WritesOne
<1>7. \/ folder' = folder
      \/ folder' = Copies!Made(p)
      \/ folder' = Copies!Put(p) /\ Copies!PutWorks(p, Copies!uploadMode(copy.choice, Copies!Row.conflict))
  BY DEF Copies!WritesOne
<1> HIDE DEF p
<1> QED
  BY <1>1, <1>4, <1>5, <1>6, <1>7

LEMMA WritesKeep ==
  ASSUME CopyInv, Copies!WritesOne
  PROVE  CopyInv'
<1>1. PICK bad \in {0, 1} : copy' = [copy EXCEPT !.done = copy.done + 1, !.unit = copy.unit + 1, !.failed = copy.failed + bad]
  BY WritesOneIs
<1>2. copy \in Copying /\ copy.running /\ card.phase = "copying" /\ Progress /\ copy.at <= Len(copy.items)
  BY WritesOneIs DEF CopyInv, Copies!AtRow
<1>3. copy' \in Copying
  <2>1. copy.done + 1 \in Nat /\ copy.unit + 1 \in Nat /\ copy.failed + bad \in Nat
    BY <1>2 DEF Copying
  <2> QED
    BY <1>1, <1>2, <2>1, CopyingBut
<1>4. /\ copy'.items = copy.items /\ copy'.listing = copy.listing /\ copy'.choice = copy.choice
      /\ copy'.at = copy.at /\ copy'.unit = copy.unit + 1 /\ copy'.done = copy.done + 1
      /\ copy.unit \in Nat /\ copy.done \in Nat /\ copy.at \in Nat /\ Len(copy.items) \in Nat
  BY <1>1, <1>2 DEF Copying
<1>5. Copies!Plan' = Copies!Plan /\ \A g : Counts(g)' <=> Counts(g)
  BY <1>4, PlanStays
<1>6. Copies!Units' = Copies!Units /\ Copies!Row' = Copies!Row
  BY <1>4, <1>5 DEF Copies!Units, Copies!Row
<1>7. Within(copy, Len(copy.items), Copies!Units, Copies!Row.plan)'
  <2>1. copy.unit \in 1..Len(Copies!Units) /\ Copies!Row.plan = "upload" /\ Copies!AtRow
    BY WritesOneIs
  <2>2. Copies!Units \in Seq(Unit)
    BY <2>1, RowIs
  <2>3. Within(copy, Len(copy.items), Copies!Units, Copies!Row.plan)
    BY <1>2 DEF Progress
  <2> QED
    BY <1>2, <1>4, <1>6, <2>1, <2>2, <2>3 DEF Within
<1>8. Counted'
  <2> SUFFICES ASSUME NEW g \in [0..Len(copy'.items) -> Nat], Counts(g)' PROVE copy'.done = g[copy'.at - 1] + (copy'.unit - 1)
    BY DEF Counted
  <2>1. copy.done = g[copy.at - 1] + (copy.unit - 1)
    BY <1>2, <1>4, <1>5 DEF Progress, Counted
  <2>2. copy.at - 1 \in 0..Len(copy.items)
    BY <1>2, <1>4 DEF Progress, Within
  <2>3. g[copy.at - 1] \in Nat
    BY <1>4, <2>2
  <2> QED
    BY <1>4, <2>1, <2>3
<1>9. Named(DOMAIN folder')
  BY WritesOneIs, WritesName DEF CopyInv
<1> QED
  BY <1>2, <1>3, <1>7, <1>8, <1>9, WritesOneIs DEF CopyInv, Progress

LEMMA SettlesKeeps ==
  ASSUME CopyInv, Copies!Settles
  PROVE  CopyInv'
<1> DEFINE one == IF Copies!Row.plan # "upload" \/ Copies!Units = <<>> THEN 1 ELSE 0
<1>0. Copies!AtRow /\ (Copies!Row.plan = "upload" => copy.unit > Len(Copies!Units)) /\ UNCHANGED <<offers, card, folder>>
  BY DEF Copies!Settles
<1>1. copy' = [copy EXCEPT !.rows = Append(copy.rows, Copies!Outcome), !.at = copy.at + 1, !.unit = 1, !.failed = 0,
                           !.done = copy.done + one]
  BY DEF Copies!Settles
<1>2. copy \in Copying /\ copy.running /\ card.phase = "copying" /\ Progress
  BY <1>0 DEF CopyInv, Copies!AtRow
<1>3. /\ copy.at \in 1..Len(copy.items) /\ copy.items[copy.at] \in Copies!Items
      /\ Copies!Row \in Planned /\ Copies!Units \in Seq(Unit)
  BY <1>0, RowIs
<1>4. one \in Nat
  OBVIOUS
<1>5. Copies!Outcome \in {"copied", "upload", "skipped", "failed"}
  BY <1>3 DEF Copies!Outcome, Planned
<1>6. copy' \in Copying
  <2> HIDE DEF one
  <2>1. Append(copy.rows, Copies!Outcome) \in Seq({"copied", "upload", "skipped", "failed"})
    BY <1>2, <1>5 DEF Copying
  <2>2. copy.at + 1 \in Nat /\ copy.done + one \in Nat
    BY <1>2, <1>4 DEF Copying
  <2> QED
    BY <1>1, <1>2, <2>1, <2>2, CopyingBut
<1>7. /\ copy'.items = copy.items /\ copy'.listing = copy.listing /\ copy'.choice = copy.choice
      /\ copy'.at = copy.at + 1 /\ copy'.unit = 1 /\ copy'.done = copy.done + one
      /\ copy.unit \in Nat /\ copy.done \in Nat /\ copy.at \in Nat /\ copy.items \in Seq(Copies!Items)
      /\ Len(copy.items) \in Nat
  <2> HIDE DEF one
  <2> QED
    BY <1>1, <1>2 DEF Copying
<1>8. Copies!Plan' = Copies!Plan /\ \A g : Counts(g)' <=> Counts(g)
  BY <1>7, PlanStays
<1>9. Within(copy, Len(copy.items), Copies!Units, Copies!Row.plan)'
  <2>1. ASSUME copy.at + 1 <= Len(copy.items) PROVE 1 <= Len(Copies!Units') + 1
    <3>1. copy.items[copy.at + 1] \in Copies!Items
      BY <1>7, <2>1
    <3>2. Copies!Units' = Copies!UnitsOf(copy.items[copy.at + 1])
      BY <1>7 DEF Copies!Units
    <3> QED
      BY <3>1, <3>2, UnitsAre
  <2> HIDE DEF one
  <2> QED
    BY <1>3, <1>7, <2>1 DEF Within
<1>10. Steps(copy.at) = (copy.unit - 1) + one
  <2>1. Steps(copy.at) = IF Copies!Row.plan # "upload" \/ Copies!Units = <<>> THEN 1 ELSE Len(Copies!Units)
    BY DEF Steps, Copies!StepsOf, Copies!Row, Copies!Units
  <2>2. copy.unit >= 1 /\ copy.unit <= Len(Copies!Units) + 1 /\ (Copies!Row.plan # "upload" => copy.unit = 1)
    BY <1>2, <1>3 DEF Progress, Within
  <2>3. CASE Copies!Row.plan # "upload"
    BY <2>1, <2>2, <2>3
  <2>4. CASE Copies!Row.plan = "upload"
    <3>1. copy.unit = Len(Copies!Units) + 1 /\ Len(Copies!Units) \in Nat
      BY <1>0, <1>3, <1>7, <2>2, <2>4
    <3>2. Copies!Units = <<>> => Len(Copies!Units) = 0
      OBVIOUS
    <3> QED
      BY <2>1, <2>4, <3>1, <3>2
  <2> QED
    BY <2>3, <2>4
<1> HIDE DEF one
<1>11. Counted'
  <2> SUFFICES ASSUME NEW g \in [0..Len(copy'.items) -> Nat], Counts(g)' PROVE copy'.done = g[copy'.at - 1] + (copy'.unit - 1)
    BY DEF Counted
  <2>1. copy.done = g[copy.at - 1] + (copy.unit - 1) /\ Counts(g)
    BY <1>2, <1>7, <1>8 DEF Progress, Counted
  <2>2. g[copy.at] = g[copy.at - 1] + Steps(copy.at)
    BY <1>3, <2>1 DEF Counts
  <2>3. copy'.at - 1 = copy.at /\ copy'.unit - 1 = 0 /\ copy'.done = copy.done + one
    BY <1>7
  <2>4. copy.at - 1 \in 0..Len(copy.items) /\ copy.at \in 0..Len(copy.items) /\ g \in [0..Len(copy.items) -> Nat]
    BY <1>3, <1>7
  <2>5. PICK a, b \in Nat : a = g[copy.at - 1] /\ b = g[copy.at]
    BY <2>4
  <2>6. PICK u \in Nat : u = copy.unit
    BY <1>7
  <2>7. b = a + ((u - 1) + one) /\ copy.done = a + (u - 1)
    BY <1>10, <2>1, <2>2, <2>5, <2>6
  <2>8. copy'.done = b + 0
    BY <1>4, <2>3, <2>7
  <2> QED
    BY <2>3, <2>5, <2>8
<1> QED
  BY <1>0, <1>2, <1>6, <1>9, <1>11 DEF CopyInv, Progress

LEMMA OthersKeep ==
  ASSUME CopyInv, Copies!OthersChange
  PROVE  CopyInv'
<1>1. copy' = copy /\ card' = card /\ offers' = offers /\ Named(DOMAIN folder)
  BY DEF Copies!OthersChange, CopyInv
<1>2. Named(DOMAIN folder')
  <2>1. CASE \E n \in DropNames, dir \in BOOLEAN : folder' = Copies!With(<<n, Copies!Self>>, [dir |-> dir, by |-> "others"])
    <3>1. PICK n \in DropNames : DOMAIN folder' = DOMAIN folder \cup {<<n, Copies!Self>>}
      BY <2>1 DEF Copies!With
    <3>2. <<n, Copies!Self>> \in Nat \X Copies!Leaves
      BY ContentsAssumption DEF Copies!DropBounds, Copies!Leaves
    <3> QED
      BY <1>1, <3>1, <3>2, NamedMore
  <2>2. CASE \E n \in Copies!TopNames : folder' = [p \in {q \in DOMAIN folder : q[1] # n} |-> folder[p]]
    <3>1. DOMAIN folder' \subseteq DOMAIN folder
      BY <2>2
    <3> QED
      BY <1>1, <3>1, NamedLess
  <2> QED
    BY <2>1, <2>2 DEF Copies!OthersChange
<1> QED
  BY <1>1, <1>2, ProgressStays DEF CopyInv

LEMMA CopyStarts == Copies!DropInit => CopyInv
<1> SUFFICES ASSUME Copies!DropInit PROVE CopyInv
  OBVIOUS
<1>1. Named(DOMAIN folder)
  <2>1. DOMAIN folder \subseteq {<<1, Copies!Self>>}
    BY DEF Copies!DropInit
  <2>2. Named({<<1, Copies!Self>>})
    <3>1. 1 \in Nat /\ <<1, Copies!Self>> \in Nat \X Copies!Leaves /\ <<1, Copies!Self>>[1] = 1
      BY DEF Copies!Leaves
    <3> QED
      BY <3>1 DEF Named
  <2> QED
    BY <2>1, <2>2, NamedLess
<1> QED
  BY <1>1, NoCopyIs DEF Copies!DropInit, CopyInv

LEMMA CopyStep == CopyInv /\ [Copies!DropNext]_(Copies!dropVars) => CopyInv'
<1> SUFFICES ASSUME CopyInv, [Copies!DropNext]_(Copies!dropVars) PROVE CopyInv'
  OBVIOUS
<1>1. CASE UNCHANGED Copies!dropVars
  BY <1>1, ProgressStays DEF Copies!dropVars, CopyInv
<1>2. CASE Copies!DropNext
  BY <1>2, DropsKeep, WalksKeep, ListsKeep, ChoosesKeep, CardsKeep, WritesKeep, SettlesKeeps, OthersKeep
     DEF Copies!DropNext, Copies!Works
<1> QED
  BY <1>1, <1>2

(***************************************************************************)
(* The properties                                                          *)
(***************************************************************************)

(* A write replaces what was there only in the mode that says so.          *)

LEMMA ReplacesAsked ==
  ASSUME CopyInv, Copies!WritesOne, NEW q \in DOMAIN folder, q \in DOMAIN folder', folder'[q] # folder[q]
  PROVE  copy.choice = "replace" /\ q[1] \in Copies!conflictsOf(copy.items, copy.listing)
<1>1. PICK p \in Nat \X Copies!Leaves :
        /\ p[1] = Copies!Row.target
        /\ \/ folder' = folder
           \/ folder' = Copies!Made(p)
           \/ folder' = Copies!Put(p) /\ Copies!PutWorks(p, Copies!uploadMode(copy.choice, Copies!Row.conflict))
  BY WritesOneIs
<1>2. q \in DOMAIN Copies!Above(p) /\ Copies!Above(p)[q] = folder[q]
  BY DEF Copies!Above, Copies!With
<1>3. Copies!Made(p)[q] = folder[q]
  BY <1>2 DEF Copies!Made
<1>4. q # p => Copies!Put(p)[q] = folder[q]
  BY <1>2 DEF Copies!Put
<1>5. q = p /\ Copies!PutWorks(p, Copies!uploadMode(copy.choice, Copies!Row.conflict))
  BY <1>1, <1>3, <1>4
<1>6. copy.choice = "replace" /\ Copies!Row.conflict
  BY <1>5 DEF Copies!PutWorks, Copies!uploadMode
<1>7. /\ copy.at \in 1..Len(copy.items)
      /\ copy.items[copy.at].name \in copy.listing /\ p[1] = copy.items[copy.at].name
  BY <1>1, <1>6, WritesOneIs, RowIs
<1> QED
  BY <1>5, <1>6, <1>7 DEF Copies!conflictsOf

(* When a copy is over, its count is at its total.                         *)
LEMMA CountsToTheEnd ==
  ASSUME CopyInv, Copies!finished
  PROVE  (Copies!Told /\ copy.done = Copies!Total)'
<1>1. copy \in Copying /\ copy.running /\ copy.at > Len(copy.items) /\ Progress
  BY DEF Copies!finished, Copies!AtRow, CopyInv, Copying
<1>2. copy.at = Len(copy.items) + 1 /\ copy.unit = 1
  BY <1>1 DEF Progress, Within, Copying
<1>3. PICK g \in [0..Len(copy.items) -> Nat] : Counts(g) /\ Copies!Total = g[Len(copy.items)]
  BY <1>1, TotalIs
<1>4. copy.done = g[copy.at - 1] + (copy.unit - 1)
  BY <1>1, <1>3 DEF Progress, Counted
<1>5. copy.done = Copies!Total
  <2>1. Len(copy.items) \in Nat
    BY <1>1 DEF Copying
  <2> QED
    BY <1>2, <1>3, <1>4, <2>1
<1>6. /\ copy'.items = copy.items /\ copy'.listing = copy.listing /\ copy'.choice = copy.choice
      /\ copy'.done = copy.done /\ copy'.said = ~card.up
  BY <1>1 DEF Copies!finished, Copying
<1>7. Copies!Plan' = Copies!Plan
  BY <1>6, PlanStays
<1>8. Copies!Total' = Copies!Total
  <2>1. Copies!StepsOfRows' = Copies!StepsOfRows
    BY <1>6, <1>7, Zenon DEF Copies!StepsOfRows
  <2>2. Copies!Total' = StepsFold!Folded(0, 0, Copies!StepsOfRows')
    BY Zenon DEF Copies!Total, Plus, StepsFold!Folded, Copies!FoldLeft, Copies!MapThenFoldSet, Copies!Max,
                 StepsFold!MapThenFoldSet, StepsFold!Greatest
  <2>3. Copies!Total = StepsFold!Folded(0, 0, Copies!StepsOfRows)
    BY TotalIsAFold
  <2> QED
    BY <2>1, <2>2, <2>3, Zenon
<1>9. Copies!Told'
  BY <1>6 DEF Copies!finished, Copies!Told, CopyInv
<1> QED
  BY <1>5, <1>6, <1>8, <1>9


Asked == \A p \in DOMAIN folder : p \in DOMAIN folder' /\ folder'[p] # folder[p] =>
           copy.choice = "replace" /\ p[1] \in Copies!conflictsOf(copy.items, copy.listing)
Ends == copy.running /\ ~copy'.running => (Copies!Told /\ copy.done = Copies!Total)'
(* However drops, answers, writes and other programs cross: the copy only  *)
(* replaces what the card named and the user gave up, and one that ends is *)
(* told of with its count at its total.                                    *)
THEOREM CopiesHonestly == Copies!DropSpec => CopiesAreHonest
<1>1. CopyInv /\ [Copies!DropNext]_(Copies!dropVars) => [Asked]_(Copies!dropVars) /\ [Ends]_(Copies!dropVars)
  <2> SUFFICES ASSUME CopyInv, Copies!DropNext PROVE Asked /\ Ends
    OBVIOUS
  <2> USE DEF Asked, Ends
  <2>1. CASE Copies!WritesOne
    <3>1. copy'.running = copy.running
      BY <2>1, WritesOneIs DEF CopyInv, Copying
    <3> QED
      BY <2>1, <3>1, ReplacesAsked
  <2>2. CASE Copies!finished
    <3>1. folder' = folder
      BY <2>2 DEF Copies!finished
    <3> QED
      BY <2>2, <3>1, CountsToTheEnd
  <2>3. CASE Copies!OthersChange
    <3>1. copy' = copy
      BY <2>3 DEF Copies!OthersChange
    <3>2. \A q \in DOMAIN folder : q \in DOMAIN folder' => folder'[q] = folder[q]
      <4>1. ASSUME NEW n, n \notin Copies!TopNames, NEW what, folder' = Copies!With(<<n, Copies!Self>>, what), NEW q \in DOMAIN folder
            PROVE  folder'[q] = folder[q]
        <5>1. q[1] # n
          BY <4>1 DEF Copies!TopNames
        <5> QED
          BY <4>1, <5>1 DEF Copies!With
      <4>2. ASSUME NEW n, folder' = [p \in {q \in DOMAIN folder : q[1] # n} |-> folder[p]], NEW q \in DOMAIN folder'
            PROVE  folder'[q] = folder[q]
        BY <4>2
      <4> QED
        BY <2>3, <4>1, <4>2 DEF Copies!OthersChange
    <3> QED
      BY <3>1, <3>2
  <2>4. CASE folder' = folder /\ (copy.running => copy'.running)
    BY <2>4
  <2>5. ASSUME NEW items \in Dropped, Copies!Drops(items) PROVE folder' = folder /\ (copy.running => copy'.running)
    BY <2>5 DEF Copies!Drops
  <2>6. ASSUME NEW o \in 1..Len(offers), NEW heavy \in BOOLEAN, Copies!Walks(o, heavy)
        PROVE  folder' = folder /\ (copy.running => copy'.running)
    BY <2>6 DEF Copies!Walks
  <2>7. ASSUME NEW o \in 1..Len(offers), NEW listing \in SUBSET Copies!TopNames, Copies!Lists(o, listing)
        PROVE  folder' = folder /\ (copy.running => copy'.running)
    BY <2>7 DEF Copies!Lists
  <2>8. ASSUME NEW choice \in Copies!Answers, Copies!Chooses(choice)
        PROVE  folder' = folder /\ (copy.running => copy'.running)
    BY <2>8 DEF Copies!Chooses, CopyInv
  <2>9. ASSUME Copies!hideCard \/ Copies!closeDialog \/ Copies!Settles
        PROVE  folder' = folder /\ (copy.running => copy'.running)
    BY <2>9 DEF Copies!hideCard, Copies!closeDialog, Copies!Settles, CopyInv, Copying
  <2> QED
    BY <2>1, <2>2, <2>3, <2>4, <2>5, <2>6, <2>7, <2>8, <2>9 DEF Copies!DropNext, Copies!Works
<1>2. Copies!DropSpec => [][Asked]_(Copies!dropVars) /\ [][Ends]_(Copies!dropVars)
  BY <1>1, CopyStarts, CopyStep, PTL DEF Copies!DropSpec
<1> QED
  BY <1>2, PTL DEF CopiesAreHonest, Copies!OnlyTheAskedIsReplaced, Copies!EndsAreTold, Asked, Ends
=============================================================================
