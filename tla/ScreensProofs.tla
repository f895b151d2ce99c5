---------------------------- MODULE ScreensProofs ----------------------------
(***************************************************************************)
(* The safety of three machines of MCScreens for every value of their      *)
(* constants: the page and its restart, the settings, and the mascots. A   *)
(* machine is addressed by the name it has in MCScreens.                   *)
(***************************************************************************)
EXTENDS MCScreens, FiniteSetTheorems, SequenceTheorems, TLAPS

-----------------------------------------------------------------------------
(***************************************************************************)
(* The page                                                                *)
(***************************************************************************)

(* The inductive invariant: a 401 is the word of another run, so nothing   *)
(* of this page's own run follows it; the recovery that a 401 begins takes *)
(* the page away or into its panel; and what disarms the flag it set is an *)
(* update given up, since no restart is under way beside it.               *)
PageInv ==
  /\ sock \in [Open -> [at : {"connecting", "live", "asking", "backoff", "hold", "dead", "off"},
                        got : Pages!Answers, closed : BOOLEAN]]
  /\ page \in [shows : {"app", "panel", "next", "address"}, restarting : BOOLEAN]
  /\ flow \in [at : {"none", "update", "restart", "health", "navigate"},
               got : {None, "202", "port", "409", "422", "failed"}]
  /\ dialog \in [phase : {"confirm", "busy", "refused", "over"}, up : BOOLEAN,
                 notice : {"none", "updating", "restarting"}]
  /\ recovery \in {"unused", "probing", "over"}
  /\ poll = "401" => backend # "ours"
  /\ \A s \in Open : sock[s].got = "401" => backend # "ours"
  /\ recovery # "unused" => backend # "ours"
  /\ recovery = "over" => page.shows # "app"
  /\ flow.at \in {"restart", "health", "navigate"} => recovery # "probing"
  /\ flow.at \in {"restart", "health", "navigate"} => page.restarting = TRUE \/ recovery = "over"
  /\ recovery = "probing" /\ page.restarting = FALSE => dialog.phase = "refused"

LEMMA PageInitInv == Pages!PageInit => PageInv
<1> SUFFICES ASSUME Pages!PageInit PROVE PageInv
  OBVIOUS
<1>1. /\ backend = "ours" /\ poll = "idle" /\ recovery = "unused"
      /\ page = [shows |-> "app", restarting |-> FALSE]
      /\ sock = [s \in Open |-> [at |-> "connecting", got |-> None, closed |-> FALSE]]
      /\ flow = [at |-> "none", got |-> None]
      /\ dialog = [phase |-> "confirm", up |-> FALSE, notice |-> "none"]
  BY DEF Pages!PageInit
<1> QED BY <1>1, ScreensAssumption DEF PageInv, Pages!Answers

(* Where the page and the rest of the flow are left alone, one socket may  *)
(* take any place, if what it heard is the word of the run there is.       *)
LEMMA SocketsKeep ==
  ASSUME PageInv, NEW s \in Open,
         NEW r \in [at : {"connecting", "live", "asking", "backoff", "hold", "dead", "off"},
                    got : Pages!Answers, closed : BOOLEAN],
         r.got = "401" => backend # "ours",
         sock' = [sock EXCEPT ![s] = r],
         UNCHANGED <<backend, page, recovery, poll, flow, dialog>>
  PROVE  PageInv'
BY DEF PageInv

LEMMA AtPlace ==
  ASSUME PageInv, NEW s \in Open,
         NEW where \in {"connecting", "live", "asking", "backoff", "hold", "dead", "off"},
         Pages!At(s, where)
  PROVE  /\ [sock[s] EXCEPT !.at = where, !.got = None] \in
              [at : {"connecting", "live", "asking", "backoff", "hold", "dead", "off"},
               got : Pages!Answers, closed : BOOLEAN]
         /\ [sock[s] EXCEPT !.at = where, !.got = None].got # "401"
         /\ sock' = [sock EXCEPT ![s] = [sock[s] EXCEPT !.at = where, !.got = None]]
BY ScreensAssumption DEF PageInv, Pages!At, Pages!Answers

(* The handler of onAuthError, on the word of another run.                 *)
LEMMA AuthLostEffect ==
  ASSUME PageInv, NEW answer, answer = "401" => backend # "ours", Pages!Runs,
         Pages!AuthLost(answer), UNCHANGED <<backend, flow, dialog>>
  PROVE  /\ page' \in [shows : {"app", "panel", "next", "address"}, restarting : BOOLEAN]
         /\ recovery' \in {"unused", "probing", "over"}
         /\ recovery' # "unused" => backend' # "ours"
         /\ recovery' = "over" => page'.shows # "app"
         /\ flow'.at \in {"restart", "health", "navigate"} =>
              recovery' # "probing" /\ (page'.restarting = TRUE \/ recovery' = "over")
         /\ recovery' = "probing" /\ page'.restarting = FALSE => dialog'.phase = "refused"
         /\ answer = "401" /\ page'.restarting = FALSE =>
              page.shows = "panel" \/ (recovery = "probing" /\ dialog.phase = "refused")
<1>1. CASE answer = "401" /\ page.shows = "app" /\ page.restarting = FALSE /\ recovery = "unused"
  <2>1. recovery' = "probing" /\ page' = [page EXCEPT !.restarting = TRUE]
    BY <1>1 DEF Pages!AuthLost
  <2>2. page'.restarting = TRUE /\ page'.shows = page.shows
    BY <2>1 DEF PageInv
  <2>3. flow.at \notin {"restart", "health", "navigate"}
    BY <1>1 DEF PageInv
  <2> QED BY <1>1, <2>1, <2>2, <2>3 DEF PageInv
<1>2. CASE ~(answer = "401" /\ page.shows = "app" /\ page.restarting = FALSE /\ recovery = "unused")
  <2>1. page.restarting \in BOOLEAN
    BY DEF PageInv
  <2>2. UNCHANGED <<recovery, page>>
    BY <1>2, <2>1 DEF Pages!AuthLost
  <2> QED BY <1>2, <2>2 DEF PageInv, Pages!Runs
<1> QED BY <1>1, <1>2

LEMMA CheckReturnsStep ==
  ASSUME PageInv, Pages!Runs, NEW s \in Open, Pages!CheckReturns(s)
  PROVE  /\ PageInv'
         /\ sock'[s].at = "dead" =>
              \/ sock[s].got = "absent" \/ page.shows = "panel"
              \/ recovery = "probing" /\ dialog.phase = "refused"
<1> DEFINE where == Pages!Answered(s, page'.restarting)
<1>1. /\ sock[s].got \in Pages!Answers \ {None} /\ Pages!AuthLost(sock[s].got)
      /\ Pages!At(s, where) /\ UNCHANGED <<backend, poll, flow, dialog>>
  BY DEF Pages!CheckReturns, PageInv
<1>2. /\ page' \in [shows : {"app", "panel", "next", "address"}, restarting : BOOLEAN]
      /\ recovery' \in {"unused", "probing", "over"}
      /\ recovery' # "unused" => backend' # "ours"
      /\ recovery' = "over" => page'.shows # "app"
      /\ flow'.at \in {"restart", "health", "navigate"} =>
           recovery' # "probing" /\ (page'.restarting = TRUE \/ recovery' = "over")
      /\ recovery' = "probing" /\ page'.restarting = FALSE => dialog'.phase = "refused"
      /\ sock[s].got = "401" /\ page'.restarting = FALSE =>
           page.shows = "panel" \/ (recovery = "probing" /\ dialog.phase = "refused")
  <2>1. sock[s].got = "401" => backend # "ours"
    BY DEF PageInv
  <2> QED BY <1>1, <2>1, AuthLostEffect
<1>3. /\ where \in {"hold", "off", "dead", "backoff"}
      /\ where = "dead" => sock[s].got = "absent" \/ (sock[s].got = "401" /\ page'.restarting = FALSE)
  <2>1. page'.restarting \in BOOLEAN
    BY <1>2
  <2> QED BY <1>1, <2>1 DEF Pages!Answered, Pages!Answers
<1> HIDE DEF where
<1>4. where \in {"connecting", "live", "asking", "backoff", "hold", "dead", "off"}
  BY <1>3
<1>5. /\ [sock[s] EXCEPT !.at = where, !.got = None] \in
            [at : {"connecting", "live", "asking", "backoff", "hold", "dead", "off"},
             got : Pages!Answers, closed : BOOLEAN]
      /\ [sock[s] EXCEPT !.at = where, !.got = None].got # "401"
      /\ sock' = [sock EXCEPT ![s] = [sock[s] EXCEPT !.at = where, !.got = None]]
  <2>1. /\ sock' = [sock EXCEPT ![s].at = where, ![s].got = None]
        /\ sock[s] \in [at : {"connecting", "live", "asking", "backoff", "hold", "dead", "off"},
                        got : Pages!Answers, closed : BOOLEAN]
    BY <1>1 DEF Pages!At, PageInv
  <2> QED BY <2>1, <1>4, ScreensAssumption DEF Pages!Answers
<1>6. PageInv'
  <2>1. /\ sock' \in [Open -> [at : {"connecting", "live", "asking", "backoff", "hold", "dead", "off"},
                               got : Pages!Answers, closed : BOOLEAN]]
        /\ sock'[s].got # "401" /\ \A o \in Open \ {s} : sock'[o] = sock[o]
    BY <1>5 DEF PageInv
  <2>2. \A o \in Open : sock'[o].got = "401" => backend' # "ours"
    BY <1>1, <2>1 DEF PageInv
  <2> QED BY <1>1, <1>2, <2>1, <2>2 DEF PageInv
<1>7. sock'[s].at = where
  BY <1>5 DEF PageInv
<1> QED BY <1>2, <1>3, <1>6, <1>7

(* What a step of the page owes to its panes and to the flow.              *)
GivesUpRightly ==
  \A s \in Open : sock'[s].at = "dead" /\ sock[s].at # "dead"
    => \/ sock[s].got = "absent" \/ page.shows = "panel"
       \/ recovery = "probing" /\ dialog.phase = "refused"
ShowsItsEnd == flow.at # "none" /\ flow'.at = "none" => dialog'.up

LEMMA OneSocketMoves ==
  ASSUME PageInv, NEW s \in Open,
         NEW where \in {"connecting", "live", "asking", "backoff", "hold", "off"}, Pages!At(s, where),
         UNCHANGED <<backend, page, recovery, poll, flow, dialog>>
  PROVE  PageInv' /\ GivesUpRightly /\ ShowsItsEnd
<1>1. /\ sock' = [sock EXCEPT ![s].at = where, ![s].got = None]
      /\ sock[s] \in [at : {"connecting", "live", "asking", "backoff", "hold", "dead", "off"},
                      got : Pages!Answers, closed : BOOLEAN]
  BY DEF Pages!At, PageInv
<1> DEFINE r == [sock[s] EXCEPT !.at = where, !.got = None]
<1>2. /\ r \in [at : {"connecting", "live", "asking", "backoff", "hold", "dead", "off"},
                got : Pages!Answers, closed : BOOLEAN]
      /\ r.got # "401" /\ r.at # "dead" /\ sock' = [sock EXCEPT ![s] = r]
  BY <1>1, ScreensAssumption DEF Pages!Answers
<1> HIDE DEF r
<1>3. PageInv'
  BY <1>2, SocketsKeep
<1>4. \A o \in Open : sock'[o].at = "dead" => sock[o].at = "dead"
  BY <1>2 DEF PageInv
<1>5. ShowsItsEnd
  BY DEF ShowsItsEnd
<1> QED BY <1>3, <1>4, <1>5 DEF GivesUpRightly

LEMMA SocketStep ==
  ASSUME PageInv, Pages!Runs, NEW s \in Open, Pages!SockNext(s) \/ Pages!Closes(s)
  PROVE  PageInv' /\ GivesUpRightly /\ ShowsItsEnd
<1> USE DEF Pages!connections
<1>0. page.restarting \in BOOLEAN
  BY DEF PageInv
<1>1. CASE Pages!Connects(s)
  <2>1. \E where \in {"live", "hold", "asking"} : Pages!At(s, where)
    BY <1>0, <1>1 DEF Pages!Connects, Pages!Lost
  <2>2. UNCHANGED <<backend, page, recovery, poll, flow, dialog>>
    BY <1>1 DEF Pages!Connects
  <2> QED BY <2>1, <2>2, OneSocketMoves
<1>2. CASE Pages!Drops(s)
  <2>1. \E where \in {"hold", "asking"} : Pages!At(s, where)
    BY <1>0, <1>2 DEF Pages!Drops, Pages!Lost
  <2>2. UNCHANGED <<backend, page, recovery, poll, flow, dialog>>
    BY <1>2 DEF Pages!Drops
  <2> QED BY <2>1, <2>2, OneSocketMoves
<1>3. CASE Pages!Checked(s)
  <2>1. PICK word \in Pages!Answers : sock' = [sock EXCEPT ![s].got = word] /\ (word = "401" => backend # "ours")
    BY <1>3 DEF Pages!Checked, Pages!Reply, Pages!Answers
  <2> DEFINE r == [sock[s] EXCEPT !.got = word]
  <2>2. /\ r \in [at : {"connecting", "live", "asking", "backoff", "hold", "dead", "off"},
                  got : Pages!Answers, closed : BOOLEAN]
        /\ r.got = word /\ r.at = sock[s].at /\ sock' = [sock EXCEPT ![s] = r]
    BY <2>1 DEF PageInv
  <2>3. UNCHANGED <<backend, page, recovery, poll, flow, dialog>>
    BY <1>3 DEF Pages!Checked
  <2> HIDE DEF r
  <2>4. PageInv'
    BY <2>1, <2>2, <2>3, SocketsKeep
  <2>5. \A o \in Open : sock'[o].at = sock[o].at
    BY <2>2 DEF PageInv
  <2>6. ShowsItsEnd
    BY <2>3 DEF ShowsItsEnd
  <2> QED BY <2>4, <2>5, <2>6 DEF GivesUpRightly
<1>4. CASE Pages!CheckReturns(s)
  <2>1. PageInv' /\ (sock'[s].at = "dead" =>
              \/ sock[s].got = "absent" \/ page.shows = "panel"
              \/ recovery = "probing" /\ dialog.phase = "refused")
    BY <1>4, CheckReturnsStep
  <2>2. \A o \in Open \ {s} : sock'[o] = sock[o]
    BY <1>4 DEF Pages!CheckReturns, Pages!At, PageInv
  <2>3. GivesUpRightly
    BY <2>1, <2>2 DEF GivesUpRightly
  <2>4. ShowsItsEnd
    BY <1>4 DEF Pages!CheckReturns, ShowsItsEnd
  <2> QED BY <2>1, <2>3, <2>4
<1>5. CASE Pages!Retries(s)
  <2>1. \E where \in {"connecting", "hold", "asking"} : Pages!At(s, where)
    BY <1>0, <1>5 DEF Pages!Retries, Pages!Lost
  <2>2. UNCHANGED <<backend, page, recovery, poll, flow, dialog>>
    BY <1>5 DEF Pages!Retries
  <2> QED BY <2>1, <2>2, OneSocketMoves
<1>6. CASE Pages!Closes(s)
  <2> DEFINE r == [sock[s] EXCEPT !.closed = TRUE, !.at = IF @ \in {"asking", "dead"} THEN @ ELSE "off"]
  <2>1. sock[s] \in [at : {"connecting", "live", "asking", "backoff", "hold", "dead", "off"},
                     got : Pages!Answers, closed : BOOLEAN]
    BY DEF PageInv
  <2>2. /\ r \in [at : {"connecting", "live", "asking", "backoff", "hold", "dead", "off"},
                  got : Pages!Answers, closed : BOOLEAN]
        /\ r.got = sock[s].got /\ (r.at = "dead" => sock[s].at = "dead")
    BY <2>1
  <2>3. sock' = [sock EXCEPT ![s] = r]
    BY <1>6, <2>1 DEF Pages!Closes, PageInv
  <2>4. UNCHANGED <<backend, page, recovery, poll, flow, dialog>>
    BY <1>6 DEF Pages!Closes
  <2>5. sock[s].got = "401" => backend # "ours"
    BY DEF PageInv
  <2> HIDE DEF r
  <2>6. PageInv'
    BY <2>2, <2>3, <2>4, <2>5, SocketsKeep
  <2>7. \A o \in Open : sock'[o].at = "dead" => sock[o].at = "dead"
    BY <2>2, <2>3 DEF PageInv
  <2>8. ShowsItsEnd
    BY <2>4 DEF ShowsItsEnd
  <2> QED BY <2>6, <2>7, <2>8 DEF GivesUpRightly
<1> QED BY <1>1, <1>2, <1>3, <1>4, <1>5, <1>6 DEF Pages!SockNext

LEMMA PollStep ==
  ASSUME PageInv, Pages!Runs,
         Pages!Presence \/ Pages!Polls \/ Pages!PollServed \/ Pages!PollReturns \/ Pages!Recovers
  PROVE  PageInv' /\ ShowsItsEnd
<1> USE DEF Pages!connections
<1>1. CASE Pages!Presence
  BY <1>1 DEF Pages!Presence, PageInv, ShowsItsEnd
<1>2. CASE Pages!Polls
  BY <1>2, ScreensAssumption DEF Pages!Polls, PageInv, ShowsItsEnd
<1>3. CASE Pages!PollServed
  <2>1. UNCHANGED <<backend, page, recovery, sock, flow, dialog>>
    BY <1>3 DEF Pages!PollServed
  <2>2. poll' = "401" => backend # "ours"
    BY <1>3 DEF Pages!PollServed, Pages!Reply
  <2> QED BY <2>1, <2>2 DEF PageInv, ShowsItsEnd
<1>4. CASE Pages!PollReturns
  <2>1. /\ poll' = "idle" /\ UNCHANGED <<backend, sock, flow, dialog>> /\ Pages!AuthLost(poll)
        /\ (poll = "401" => backend # "ours")
    BY <1>4 DEF Pages!PollReturns, PageInv
  <2>2. /\ page' \in [shows : {"app", "panel", "next", "address"}, restarting : BOOLEAN]
        /\ recovery' \in {"unused", "probing", "over"}
        /\ recovery' # "unused" => backend' # "ours"
        /\ recovery' = "over" => page'.shows # "app"
        /\ flow'.at \in {"restart", "health", "navigate"} =>
             recovery' # "probing" /\ (page'.restarting = TRUE \/ recovery' = "over")
        /\ recovery' = "probing" /\ page'.restarting = FALSE => dialog'.phase = "refused"
    BY <2>1, AuthLostEffect
  <2> QED BY <2>1, <2>2 DEF PageInv, ShowsItsEnd
<1>5. CASE Pages!Recovers
  <2>1. /\ recovery = "probing" /\ recovery' = "over"
        /\ UNCHANGED <<backend, sock, poll, flow, dialog>>
        /\ page' = IF Pages!Listens THEN [page EXCEPT !.shows = "next"]
                   ELSE [shows |-> "panel", restarting |-> FALSE]
    BY <1>5 DEF Pages!Recovers
  <2>2. /\ page' \in [shows : {"app", "panel", "next", "address"}, restarting : BOOLEAN]
        /\ page'.shows # "app"
    BY <2>1 DEF PageInv
  <2> QED BY <2>1, <2>2 DEF PageInv, ShowsItsEnd
<1> QED BY <1>1, <1>2, <1>3, <1>4, <1>5

LEMMA DialogStep ==
  ASSUME PageInv, Pages!Runs,
         Pages!OpensConfirm \/ Pages!ClosesConfirm \/ Pages!StartFlow \/ Pages!UpdateSettles
  PROVE  PageInv' /\ ShowsItsEnd
<1> USE DEF Pages!connections
<1>1. CASE Pages!OpensConfirm \/ Pages!ClosesConfirm
  <2>1. UNCHANGED <<backend, page, recovery, sock, poll, flow>> /\ recovery # "probing"
    BY <1>1 DEF Pages!OpensConfirm, Pages!ClosesConfirm, Pages!Gesture
  <2>2. dialog' \in [phase : {"confirm", "busy", "refused", "over"}, up : BOOLEAN,
                     notice : {"none", "updating", "restarting"}]
    BY <1>1 DEF Pages!OpensConfirm, Pages!ClosesConfirm, PageInv
  <2> QED BY <2>1, <2>2 DEF PageInv, ShowsItsEnd
<1>2. CASE Pages!StartFlow
  <2>1. UNCHANGED <<backend, recovery, sock, poll>> /\ recovery # "probing" /\ flow.at = "none"
    BY <1>2 DEF Pages!StartFlow, Pages!Gesture
  <2>2. CASE Pages!StartsRestart
    <3>1. /\ flow' = [at |-> "restart", got |-> None] /\ page' = [page EXCEPT !.restarting = TRUE]
          /\ dialog' = [dialog EXCEPT !.phase = "busy", !.notice = "restarting"]
      BY <2>2 DEF Pages!StartsRestart
    <3>2. /\ page' \in [shows : {"app", "panel", "next", "address"}, restarting : BOOLEAN]
          /\ page'.restarting = TRUE /\ page'.shows = page.shows
          /\ dialog' \in [phase : {"confirm", "busy", "refused", "over"}, up : BOOLEAN,
                          notice : {"none", "updating", "restarting"}]
      BY <3>1 DEF PageInv
    <3> QED BY <2>1, <3>1, <3>2 DEF PageInv, ShowsItsEnd
  <2>3. CASE /\ flow' = [at |-> "update", got |-> None] /\ UNCHANGED page
             /\ dialog' = [dialog EXCEPT !.phase = "busy", !.notice = "updating"]
    <3>1. dialog' \in [phase : {"confirm", "busy", "refused", "over"}, up : BOOLEAN,
                       notice : {"none", "updating", "restarting"}]
      BY <2>3 DEF PageInv
    <3> QED BY <2>1, <2>3, <3>1 DEF PageInv, ShowsItsEnd
  <2> QED BY <1>2, <2>2, <2>3 DEF Pages!StartFlow
<1>3. CASE Pages!UpdateSettles
  <2>1. UNCHANGED <<backend, recovery, sock, poll>> /\ flow.at = "update"
    BY <1>3 DEF Pages!UpdateSettles
  <2>2. CASE backend = "ours" /\ Pages!StartsRestart
    <3>1. /\ flow' = [at |-> "restart", got |-> None] /\ page' = [page EXCEPT !.restarting = TRUE]
          /\ dialog' = [dialog EXCEPT !.phase = "busy", !.notice = "restarting"]
      BY <2>2 DEF Pages!StartsRestart
    <3>2. /\ page' \in [shows : {"app", "panel", "next", "address"}, restarting : BOOLEAN]
          /\ page'.restarting = TRUE /\ page'.shows = page.shows
          /\ dialog' \in [phase : {"confirm", "busy", "refused", "over"}, up : BOOLEAN,
                          notice : {"none", "updating", "restarting"}]
      BY <3>1 DEF PageInv
    <3>3. recovery = "unused"
      BY <2>2 DEF PageInv
    <3> QED BY <2>1, <3>1, <3>2, <3>3 DEF PageInv, ShowsItsEnd
  <2>3. CASE Pages!ShowsRefused
    <3>1. /\ flow' = [at |-> "none", got |-> None] /\ page' = [page EXCEPT !.restarting = FALSE]
          /\ dialog' = [phase |-> "refused", up |-> TRUE, notice |-> "none"]
      BY <2>3 DEF Pages!ShowsRefused
    <3>2. /\ page' \in [shows : {"app", "panel", "next", "address"}, restarting : BOOLEAN]
          /\ page'.shows = page.shows
      BY <3>1 DEF PageInv
    <3> QED BY <2>1, <3>1, <3>2 DEF PageInv, ShowsItsEnd
  <2> QED BY <1>3, <2>2, <2>3 DEF Pages!UpdateSettles
<1> QED BY <1>1, <1>2, <1>3

LEMMA EndsWithAScreen ==
  ASSUME PageInv, flow.at \in {"restart", "health", "navigate"},
         Pages!ShowsRefused \/ \E notice \in {"none", "updating", "restarting"} : Pages!ShowsFailure(notice),
         UNCHANGED <<backend, recovery, sock, poll>>
  PROVE  PageInv' /\ ShowsItsEnd
<1>1. /\ flow' = [at |-> "none", got |-> None] /\ page' = [page EXCEPT !.restarting = FALSE]
      /\ dialog'.up /\ dialog' \in [phase : {"confirm", "busy", "refused", "over"}, up : BOOLEAN,
                                    notice : {"none", "updating", "restarting"}]
  <2>1. PICK end \in [phase : {"refused", "over"}, up : {TRUE}, notice : {"none", "updating", "restarting"}] :
          /\ flow' = [at |-> "none", got |-> None] /\ page' = [page EXCEPT !.restarting = FALSE]
          /\ dialog' = end
    <3>1. CASE Pages!ShowsRefused
      BY <3>1 DEF Pages!ShowsRefused
    <3>2. CASE \E notice \in {"none", "updating", "restarting"} : Pages!ShowsFailure(notice)
      BY <3>2 DEF Pages!ShowsFailure
    <3> QED BY <3>1, <3>2
  <2> QED BY <2>1
<1>2. /\ page' \in [shows : {"app", "panel", "next", "address"}, restarting : BOOLEAN]
      /\ page'.shows = page.shows
  BY <1>1 DEF PageInv
<1>3. recovery # "probing"
  BY DEF PageInv
<1>4. PageInv'
  BY <1>1, <1>2, <1>3 DEF PageInv
<1> QED BY <1>1, <1>4 DEF ShowsItsEnd

LEMMA RestartStep ==
  ASSUME PageInv, Pages!Runs,
         Pages!RestartServed \/ Pages!RestartReturns \/ Pages!HealthAnswers \/ Pages!Navigates \/ Pages!Replaced
  PROVE  PageInv' /\ ShowsItsEnd
<1> USE DEF Pages!connections
<1>0. dialog.notice \in {"none", "updating", "restarting"}
  BY DEF PageInv
<1>1. CASE Pages!RestartServed
  <2>1. /\ UNCHANGED <<page, recovery, sock, poll, dialog>> /\ flow.at = "restart"
        /\ (backend' = backend \/ backend' # "ours")
    BY <1>1 DEF Pages!RestartServed
  <2>2. \E code \in {"202", "port", "409", "422", "failed"} : flow' = [flow EXCEPT !.got = code]
    BY <1>1 DEF Pages!RestartServed
  <2>3. /\ flow' \in [at : {"none", "update", "restart", "health", "navigate"},
                      got : {None, "202", "port", "409", "422", "failed"}]
        /\ flow'.at = "restart"
    BY <2>1, <2>2 DEF PageInv
  <2> QED BY <2>1, <2>3 DEF PageInv, ShowsItsEnd
<1>2. CASE Pages!RestartReturns
  <2>1. /\ flow.at = "restart" /\ UNCHANGED <<backend, recovery, sock, poll>>
        /\ flow.got \in {"202", "port", "409", "422", "failed"}
    BY <1>2 DEF Pages!RestartReturns, PageInv
  <2>2. CASE flow.got \notin {"202", "port"}
    <3>1. Pages!ShowsRefused \/ \E notice \in {"none", "updating", "restarting"} : Pages!ShowsFailure(notice)
      BY <1>0, <1>2, <2>1, <2>2 DEF Pages!RestartReturns
    <3> QED BY <2>1, <3>1, EndsWithAScreen
  <2>3. CASE flow.got \in {"202", "port"}
    <3>1. /\ flow' = [at |-> IF flow.got = "202" THEN "health" ELSE "navigate", got |-> None]
          /\ dialog' = [dialog EXCEPT !.up = TRUE] /\ UNCHANGED page
      BY <1>2, <2>3 DEF Pages!RestartReturns
    <3>2. /\ dialog' \in [phase : {"confirm", "busy", "refused", "over"}, up : BOOLEAN,
                          notice : {"none", "updating", "restarting"}]
          /\ dialog'.phase = dialog.phase
      BY <3>1 DEF PageInv
    <3>3. flow' \in [at : {"none", "update", "restart", "health", "navigate"},
                     got : {None, "202", "port", "409", "422", "failed"}]
          /\ flow'.at \in {"health", "navigate"}
      BY <3>1
    <3> QED BY <2>1, <3>1, <3>2, <3>3 DEF PageInv, ShowsItsEnd
  <2> QED BY <2>2, <2>3
<1>3. CASE Pages!HealthAnswers
  <2>1. flow.at = "health" /\ UNCHANGED <<backend, recovery, sock, poll>>
    BY <1>3 DEF Pages!HealthAnswers
  <2>2. CASE page' = [page EXCEPT !.shows = "next"] /\ UNCHANGED <<flow, dialog>>
    <3>1. /\ page' \in [shows : {"app", "panel", "next", "address"}, restarting : BOOLEAN]
          /\ page'.shows # "app" /\ page'.restarting = page.restarting
      BY <2>2 DEF PageInv
    <3> QED BY <2>1, <2>2, <3>1 DEF PageInv, ShowsItsEnd
  <2>3. CASE Pages!ShowsFailure(dialog.notice)
    BY <1>0, <2>1, <2>3, EndsWithAScreen
  <2> QED BY <1>3, <2>2, <2>3 DEF Pages!HealthAnswers
<1>4. CASE Pages!Navigates
  <2>1. flow.at = "navigate" /\ UNCHANGED <<backend, recovery, sock, poll>>
    BY <1>4 DEF Pages!Navigates
  <2>2. CASE page' = [page EXCEPT !.shows = "address"] /\ UNCHANGED <<flow, dialog>>
    <3>1. /\ page' \in [shows : {"app", "panel", "next", "address"}, restarting : BOOLEAN]
          /\ page'.shows # "app" /\ page'.restarting = page.restarting
      BY <2>2 DEF PageInv
    <3> QED BY <2>1, <2>2, <3>1 DEF PageInv, ShowsItsEnd
  <2>3. CASE Pages!ShowsFailure(dialog.notice)
    BY <1>0, <2>1, <2>3, EndsWithAScreen
  <2> QED BY <1>4, <2>2, <2>3 DEF Pages!Navigates
<1>5. CASE Pages!Replaced
  <2>1. UNCHANGED <<page, recovery, sock, poll, flow, dialog>> /\ (backend' = backend \/ backend' # "ours")
    BY <1>5 DEF Pages!Replaced
  <2> QED BY <2>1 DEF PageInv, ShowsItsEnd
<1> QED BY <1>1, <1>2, <1>3, <1>4, <1>5

LEMMA PageStep == PageInv /\ [Pages!PageNext]_(Pages!pageVars)
                    => PageInv' /\ GivesUpRightly /\ ShowsItsEnd
<1> SUFFICES ASSUME PageInv, [Pages!PageNext]_(Pages!pageVars)
             PROVE  PageInv' /\ GivesUpRightly /\ ShowsItsEnd
  OBVIOUS
<1>1. CASE UNCHANGED Pages!pageVars
  BY <1>1 DEF Pages!pageVars, PageInv, GivesUpRightly, ShowsItsEnd
<1>2. CASE Pages!Runs /\ \E s \in Open : Pages!SockNext(s) \/ Pages!Closes(s)
  BY <1>2, SocketStep
<1>3. CASE Pages!Runs /\ UNCHANGED sock /\ PageInv' /\ ShowsItsEnd
  BY <1>3 DEF GivesUpRightly
<1>4. CASE Pages!Runs /\ (Pages!Presence \/ Pages!Polls \/ Pages!PollServed \/ Pages!PollReturns \/ Pages!Recovers)
  <2>1. UNCHANGED sock
    BY <1>4 DEF Pages!Presence, Pages!Polls, Pages!PollServed, Pages!PollReturns, Pages!Recovers, Pages!connections
  <2> QED BY <1>3, <1>4, <2>1, PollStep
<1>5. CASE Pages!Runs /\ (Pages!OpensConfirm \/ Pages!ClosesConfirm \/ Pages!StartFlow \/ Pages!UpdateSettles)
  <2>1. UNCHANGED sock
    BY <1>5 DEF Pages!OpensConfirm, Pages!ClosesConfirm, Pages!StartFlow, Pages!UpdateSettles, Pages!connections
  <2> QED BY <1>3, <1>5, <2>1, DialogStep
<1>6. CASE /\ Pages!Runs
           /\ \/ Pages!RestartServed \/ Pages!RestartReturns \/ Pages!HealthAnswers
              \/ Pages!Navigates \/ Pages!Replaced
  <2>1. UNCHANGED sock
    BY <1>6 DEF Pages!RestartServed, Pages!RestartReturns, Pages!HealthAnswers, Pages!Navigates,
                Pages!Replaced, Pages!connections
  <2> QED BY <1>3, <1>6, <2>1, RestartStep
<1> QED BY <1>1, <1>2, <1>4, <1>5, <1>6 DEF Pages!PageNext

(* A pane is given up only for a session that is gone or with the whole    *)
(* page (SessionSocket, #lost), whatever the network, the user and the     *)
(* runs of the backend do, and an update or a restart that ends is shown   *)
(* (update-flow.ts).                                                       *)
THEOREM PageEndsNothingQuietly == Pages!PageSpec => NothingEndsQuietly
<1>1. PageInv /\ [Pages!PageNext]_(Pages!pageVars)
        => [GivesUpRightly /\ ShowsItsEnd]_(Pages!pageVars)
  BY PageStep
<1>2. PageInv /\ [Pages!PageNext]_(Pages!pageVars) => PageInv'
  BY PageStep
<1>3. Pages!PageSpec => [][GivesUpRightly /\ ShowsItsEnd]_(Pages!pageVars)
  BY PageInitInv, <1>1, <1>2, PTL DEF Pages!PageSpec
<1> QED BY <1>3, PTL DEF NothingEndsQuietly, Pages!GivenUpForGood, Pages!OutcomeIsShown, GivesUpRightly, ShowsItsEnd

-----------------------------------------------------------------------------
(***************************************************************************)
(* The settings                                                            *)
(***************************************************************************)
Things == UNION {Items[k] : k \in DOMAIN Items}
SafeBags == [own : [DOMAIN Items -> SUBSET Things], dead : BOOLEAN, strange : {TRUE}]
Asked == DOMAIN Items \cup {"open", "keys", "save", "remove"}
Colours == [pending : (SUBSET Things) \cup {None}, timer : BOOLEAN, flying : BOOLEAN]

(* A call about the bag that was answered, or that writes, carries a bag   *)
(* with everything in it the app does not know.                            *)
SafeCalls ==
  {c \in [for : Asked, step : {"read", "write"}, patch : SUBSET Things, before : SUBSET Things,
          body : SafeBags \cup {None}, answer : {None, "ok", "error", "saved", "absent"}] :
     /\ c.for \in DOMAIN Items /\ c.step = "write" => c.body \in SafeBags
     /\ c.for \in DOMAIN Items \cup {"open"} /\ c.answer \notin {None, "error"} => c.body \in SafeBags}

NoColours(q) == \A i \in 1..Len(q) : q[i].for # "theme"
OneColours(q) == \A i, j \in 1..Len(q) : q[i].for = "theme" /\ q[j].for = "theme" => i = j

SettingsInv ==
  /\ bag \in [held : SafeBags, file : SafeBags]
  /\ controls \in [DOMAIN Items -> SUBSET Things]
  /\ colours \in Colours
  /\ calls \in Seq(SafeCalls) /\ OneColours(calls)
  /\ colours.flying = FALSE => NoColours(calls)

LEMMA CallAdded ==
  ASSUME NEW q \in Seq(SafeCalls), OneColours(q), NEW c \in SafeCalls,
         c.for = "theme" => NoColours(q)
  PROVE  /\ Append(q, c) \in Seq(SafeCalls) /\ OneColours(Append(q, c))
         /\ NoColours(q) /\ c.for # "theme" => NoColours(Append(q, c))
<1>1. /\ Append(q, c) \in Seq(SafeCalls) /\ Len(Append(q, c)) = Len(q) + 1
      /\ Append(q, c)[Len(q) + 1] = c /\ \A i \in 1..Len(q) : Append(q, c)[i] = q[i]
  OBVIOUS
<1>2. Len(q) \in Nat
  OBVIOUS
<1> DEFINE r == Append(q, c)
<1> HIDE DEF r
<1>3. \A i \in 1..Len(r) : (i \in 1..Len(q) /\ r[i] = q[i]) \/ (i = Len(q) + 1 /\ r[i] = c)
  BY <1>1, <1>2 DEF r
<1>4. OneColours(r)
  BY <1>3 DEF OneColours, NoColours
<1>5. NoColours(q) /\ c.for # "theme" => NoColours(r)
  BY <1>3 DEF NoColours
<1> QED BY <1>1, <1>4, <1>5 DEF r

(* RemoveAt of the community modules takes one element out.                *)
LEMMA Removed ==
  ASSUME NEW S, NEW q \in Seq(S), NEW i \in 1..Len(q)
  PROVE  /\ Wishes!RemoveAt(q, i) \in Seq(S) /\ Len(Wishes!RemoveAt(q, i)) = Len(q) - 1
         /\ \A j \in 1..(Len(q) - 1) : Wishes!RemoveAt(q, i)[j] = IF j < i THEN q[j] ELSE q[j + 1]
<1> DEFINE a == SubSeq(q, 1, i - 1)
           b == SubSeq(q, i + 1, Len(q))
<1>1. Len(q) \in Nat /\ i \in Nat
  OBVIOUS
<1>2. a \in Seq(S) /\ Len(a) = i - 1 /\ \A j \in 1..(i - 1) : a[j] = q[j]
  BY <1>1
<1>3. b \in Seq(S) /\ Len(b) = Len(q) - i /\ \A j \in 1..(Len(q) - i) : b[j] = q[i + j]
  BY <1>1
<1>4. Wishes!RemoveAt(q, i) = a \o b
  BY DEF Wishes!RemoveAt
<1> HIDE DEF a, b
<1>5. /\ a \o b \in Seq(S) /\ Len(a \o b) = Len(q) - 1
      /\ \A j \in 1..(Len(q) - 1) : (a \o b)[j] = IF j <= Len(a) THEN a[j] ELSE b[j - Len(a)]
  <2>1. a \in Seq(S) /\ b \in Seq(S)
    BY <1>2, <1>3
  <2>2. /\ a \o b \in Seq(S) /\ Len(a \o b) = Len(a) + Len(b)
        /\ \A j \in 1..(Len(a) + Len(b)) : (a \o b)[j] = IF j <= Len(a) THEN a[j] ELSE b[j - Len(a)]
    BY <2>1, ConcatProperties
  <2>3. Len(a) + Len(b) = Len(q) - 1
    BY <1>1, <1>2, <1>3
  <2> QED BY <2>2, <2>3
<1>6. \A j \in 1..(Len(q) - 1) : (a \o b)[j] = IF j < i THEN q[j] ELSE q[j + 1]
  <2> TAKE j \in 1..(Len(q) - 1)
  <2>1. CASE j < i
    BY <1>1, <1>2, <1>5, <2>1
  <2>2. CASE ~(j < i)
    <3>1. j - Len(a) \in 1..(Len(q) - i) /\ i + (j - Len(a)) = j + 1
      BY <1>1, <1>2, <2>2
    <3>2. b[j - Len(a)] = q[j + 1]
      BY <1>3, <3>1
    <3> QED BY <1>1, <1>2, <1>5, <2>2, <3>2
  <2> QED BY <2>1, <2>2
<1> QED BY <1>4, <1>5, <1>6

LEMMA CallRemoved ==
  ASSUME NEW q \in Seq(SafeCalls), OneColours(q), NEW i \in 1..Len(q)
  PROVE  /\ Wishes!RemoveAt(q, i) \in Seq(SafeCalls) /\ OneColours(Wishes!RemoveAt(q, i))
         /\ NoColours(q) \/ q[i].for = "theme" => NoColours(Wishes!RemoveAt(q, i))
<1> DEFINE r == Wishes!RemoveAt(q, i)
<1>1. /\ r \in Seq(SafeCalls) /\ Len(r) = Len(q) - 1 /\ Len(q) \in Nat
      /\ \A j \in 1..(Len(q) - 1) : r[j] = IF j < i THEN q[j] ELSE q[j + 1]
  BY Removed
<1> HIDE DEF r
<1>2. \A j \in 1..Len(r) : \E k \in 1..Len(q) : k = (IF j < i THEN j ELSE j + 1) /\ k # i /\ r[j] = q[k]
  BY <1>1
<1>3. OneColours(r)
  <2> SUFFICES ASSUME NEW j \in 1..Len(r), NEW k \in 1..Len(r), r[j].for = "theme", r[k].for = "theme"
               PROVE  j = k
    BY DEF OneColours
  <2>1. (IF j < i THEN j ELSE j + 1) = (IF k < i THEN k ELSE k + 1)
    BY <1>2 DEF OneColours
  <2> QED BY <2>1, <1>1
<1>4. NoColours(q) \/ q[i].for = "theme" => NoColours(r)
  BY <1>2 DEF NoColours, OneColours
<1> QED BY <1>1, <1>3, <1>4 DEF r

LEMMA CallChanged ==
  ASSUME NEW q \in Seq(SafeCalls), OneColours(q), NEW i \in 1..Len(q), NEW c \in SafeCalls,
         c.for = q[i].for
  PROVE  /\ [q EXCEPT ![i] = c] \in Seq(SafeCalls) /\ OneColours([q EXCEPT ![i] = c])
         /\ NoColours(q) => NoColours([q EXCEPT ![i] = c])
<1> DEFINE r == [q EXCEPT ![i] = c]
<1>1. /\ r \in Seq(SafeCalls) /\ Len(r) = Len(q)
      /\ \A j \in 1..Len(q) : r[j] = IF j = i THEN c ELSE q[j]
  OBVIOUS
<1> HIDE DEF r
<1>2. \A j \in 1..Len(q) : r[j].for = q[j].for
  BY <1>1
<1> QED BY <1>1, <1>2 DEF r, OneColours, NoColours

LEMMA FreshCall ==
  /\ \A k \in DOMAIN Items : \A p, b \in SUBSET Things :
       Wishes!Call(k, p, b) \in SafeCalls /\ Wishes!Call(k, p, b).for = k
  /\ \A w \in {"open", "keys", "save", "remove"} :
       Wishes!Plain(w) \in SafeCalls /\ Wishes!Plain(w).for = w
<1>1. ASSUME NEW k \in DOMAIN Items, NEW p \in SUBSET Things, NEW b \in SUBSET Things
      PROVE  Wishes!Call(k, p, b) \in SafeCalls /\ Wishes!Call(k, p, b).for = k
  BY ScreensAssumption DEF Wishes!Call, SafeCalls, Asked
<1>2. ASSUME NEW w \in {"open", "keys", "save", "remove"}
      PROVE  Wishes!Plain(w) \in SafeCalls /\ Wishes!Plain(w).for = w
  <2> DEFINE step == IF w \in {"save", "remove"} THEN "write" ELSE "read"
  <2>1. Wishes!Plain(w) = [for |-> w, step |-> step, patch |-> {}, before |-> {}, body |-> None, answer |-> None]
    BY DEF Wishes!Plain, Wishes!Call
  <2>2. w \notin DOMAIN Items
    BY ScreensAssumption
  <2> QED BY <2>1, <2>2 DEF SafeCalls, Asked
<1> QED BY <1>1, <1>2

(* A writer of colours that is not flying sends when no call of its own is *)
(* under way (theme.ts send).                                              *)
LEMMA SendEffect ==
  ASSUME NEW c \in Colours, NEW q \in Seq(SafeCalls), OneColours(q), NoColours(q), Wishes!send(c, q)
  PROVE  /\ colours' \in Colours /\ calls' \in Seq(SafeCalls) /\ OneColours(calls')
         /\ colours'.flying = FALSE => NoColours(calls')
<1>1. CASE c.pending = None
  BY <1>1 DEF Wishes!send
<1>2. CASE c.pending # None
  <2>1. /\ colours' = [c EXCEPT !.pending = None, !.flying = TRUE]
        /\ calls' = Append(q, Wishes!Call("theme", c.pending, {}))
    BY <1>2 DEF Wishes!send
  <2>2. colours' \in Colours /\ colours'.flying = TRUE
    BY <2>1 DEF Colours
  <2>3. Wishes!Call("theme", c.pending, {}) \in SafeCalls
    BY <1>2, FreshCall, ScreensAssumption DEF Colours
  <2> QED BY <2>1, <2>2, <2>3, CallAdded
<1> QED BY <1>1, <1>2

LEMMA SendWhenFreeEffect ==
  ASSUME NEW c \in Colours, NEW q \in Seq(SafeCalls), OneColours(q), c.flying = FALSE => NoColours(q),
         Wishes!sendWhenFree(c, q)
  PROVE  /\ colours' \in Colours /\ calls' \in Seq(SafeCalls) /\ OneColours(calls')
         /\ colours'.flying = FALSE => NoColours(calls')
<1>1. c.flying \in BOOLEAN
  BY DEF Colours
<1>2. CASE c.flying = TRUE
  BY <1>2 DEF Wishes!sendWhenFree
<1>3. CASE c.flying = FALSE
  <2>1. Wishes!send(c, q)
    BY <1>3 DEF Wishes!sendWhenFree
  <2> QED BY <1>3, <2>1, SendEffect
<1> QED BY <1>1, <1>2, <1>3

LEMMA SettingsInitInv == Wishes!SettingsInit => SettingsInv
<1> SUFFICES ASSUME Wishes!SettingsInit PROVE SettingsInv
  OBVIOUS
<1>1. /\ bag = [held |-> Wishes!Empty, file |-> Wishes!Empty] /\ controls = Wishes!Empty.own
      /\ colours = [pending |-> None, timer |-> FALSE, flying |-> FALSE] /\ calls = <<>>
  BY DEF Wishes!SettingsInit
<1>2. Wishes!Empty \in SafeBags
  BY DEF Wishes!Empty, Wishes!Keys, SafeBags
<1>3. controls \in [DOMAIN Items -> SUBSET Things]
  BY <1>1, <1>2 DEF SafeBags
<1>4. calls \in Seq(SafeCalls) /\ Len(calls) = 0
  BY <1>1
<1> QED BY <1>1, <1>2, <1>3, <1>4 DEF SettingsInv, Colours, OneColours, NoColours

LEMMA RowStep ==
  ASSUME SettingsInv,
         \/ \E k \in Wishes!Keys : \E x \in Items[k] : Wishes!Toggles(k, x)
         \/ Wishes!ResetsAll \/ Wishes!HidesNotice
  PROVE  SettingsInv'
<1>1. PICK k \in DOMAIN Items, p \in SUBSET Things :
        /\ k # "theme" /\ UNCHANGED <<bag, colours>>
        /\ controls' = [controls EXCEPT ![k] = p]
        /\ calls' = Append(calls, Wishes!Call(k, p, controls[k]))
  <2>1. ASSUME NEW k \in Wishes!Keys, NEW x \in Items[k], Wishes!Toggles(k, x)
        PROVE  /\ k \in DOMAIN Items /\ k # "theme" /\ UNCHANGED <<bag, colours>>
               /\ Wishes!Flipped(k, x) \in SUBSET Things
               /\ controls' = [controls EXCEPT ![k] = Wishes!Flipped(k, x)]
               /\ calls' = Append(calls, Wishes!Call(k, Wishes!Flipped(k, x), controls[k]))
    <3>1. controls[k] \in SUBSET Things /\ x \in Things
      BY DEF SettingsInv, Wishes!Keys, Things
    <3>2. Wishes!Flipped(k, x) \in SUBSET Things
      BY <3>1 DEF Wishes!Flipped
    <3> QED BY <2>1, <3>2 DEF Wishes!Toggles, Wishes!Keys, Wishes!updatePrefs
  <2>2. CASE Wishes!ResetsAll
    <3>1. "statusLine" \in DOMAIN Items /\ {} \in SUBSET Things
      BY <2>2 DEF Wishes!ResetsAll, Wishes!Keys
    <3> QED BY <2>2, <3>1 DEF Wishes!ResetsAll, Wishes!updatePrefs
  <2>3. CASE Wishes!HidesNotice
    <3> DEFINE p == IF controls["notice"] = {} THEN Items["notice"] ELSE {}
    <3>1. "notice" \in DOMAIN Items /\ p \in SUBSET Things
      BY <2>3 DEF Wishes!HidesNotice, Wishes!Keys, Things
    <3>2. controls' = [controls EXCEPT !["notice"] = p] /\ controls'["notice"] = p
      BY <2>3, <3>1 DEF Wishes!HidesNotice, SettingsInv
    <3> QED BY <2>3, <3>1, <3>2 DEF Wishes!HidesNotice, Wishes!updatePrefs
  <2> QED BY <2>1, <2>2, <2>3
<1>2. controls' \in [DOMAIN Items -> SUBSET Things] /\ controls[k] \in SUBSET Things
  BY <1>1 DEF SettingsInv
<1>3. Wishes!Call(k, p, controls[k]) \in SafeCalls /\ Wishes!Call(k, p, controls[k]).for # "theme"
  BY <1>1, <1>2, FreshCall
<1>4. /\ calls' \in Seq(SafeCalls) /\ OneColours(calls')
      /\ NoColours(calls) => NoColours(calls')
  BY <1>1, <1>3, CallAdded DEF SettingsInv
<1> QED BY <1>1, <1>2, <1>4 DEF SettingsInv

LEMMA PanelStep ==
  ASSUME SettingsInv,
         \/ (\E p \in SUBSET Items["theme"] : Wishes!Picks(p)) \/ Wishes!HandRests
         \/ Wishes!Opens \/ Wishes!Closes \/ Wishes!Types \/ Wishes!saveKey \/ Wishes!removeKey
  PROVE  SettingsInv'
<1>0. colours \in Colours /\ [colours EXCEPT !.timer = FALSE] \in Colours
      /\ [colours EXCEPT !.timer = FALSE].flying = colours.flying
  BY DEF SettingsInv, Colours
<1>1. ASSUME NEW p \in SUBSET Items["theme"], Wishes!Picks(p) PROVE SettingsInv'
  <2>1. p \in SUBSET Things
    BY ScreensAssumption DEF Things
  <2>2. /\ controls' = [controls EXCEPT !["theme"] = p] /\ UNCHANGED <<bag, calls>>
        /\ colours' = [colours EXCEPT !.pending = p, !.timer = TRUE]
    BY <1>1 DEF Wishes!Picks
  <2>3. colours' \in Colours /\ colours'.flying = colours.flying
    BY <1>0, <2>1, <2>2 DEF Colours
  <2>4. controls' \in [DOMAIN Items -> SUBSET Things]
    BY <2>1, <2>2 DEF SettingsInv
  <2> QED BY <2>2, <2>3, <2>4 DEF SettingsInv
<1>2. CASE Wishes!HandRests \/ Wishes!Closes
  <2>1. Wishes!sendWhenFree([colours EXCEPT !.timer = FALSE], calls) /\ UNCHANGED <<bag, controls>>
    BY <1>2 DEF Wishes!HandRests, Wishes!Closes
  <2>2. /\ colours' \in Colours /\ calls' \in Seq(SafeCalls) /\ OneColours(calls')
        /\ colours'.flying = FALSE => NoColours(calls')
    BY <1>0, <2>1, SendWhenFreeEffect DEF SettingsInv
  <2> QED BY <2>1, <2>2 DEF SettingsInv
<1>3. CASE Wishes!Opens
  <2>1. calls' = calls \o <<Wishes!Plain("keys"), Wishes!Plain("open")>> /\ UNCHANGED <<bag, controls, colours>>
    BY <1>3 DEF Wishes!Opens
  <2>2. Wishes!Plain("keys") \in SafeCalls /\ Wishes!Plain("open") \in SafeCalls
    BY FreshCall
  <2>3. calls' = Append(Append(calls, Wishes!Plain("keys")), Wishes!Plain("open"))
    BY <2>1, <2>2 DEF SettingsInv
  <2>4. /\ Append(calls, Wishes!Plain("keys")) \in Seq(SafeCalls)
        /\ OneColours(Append(calls, Wishes!Plain("keys")))
        /\ NoColours(calls) => NoColours(Append(calls, Wishes!Plain("keys")))
    BY FreshCall, CallAdded DEF SettingsInv
  <2>5. calls' \in Seq(SafeCalls) /\ OneColours(calls') /\ (NoColours(calls) => NoColours(calls'))
    BY <2>3, <2>4, FreshCall, CallAdded
  <2> QED BY <2>1, <2>5 DEF SettingsInv
<1>4. CASE Wishes!Types
  BY <1>4 DEF Wishes!Types, SettingsInv
<1>5. CASE Wishes!saveKey \/ Wishes!removeKey
  <2>1. PICK w \in {"save", "remove"} :
          calls' = Append(calls, Wishes!Plain(w)) /\ UNCHANGED <<bag, controls, colours>>
    BY <1>5 DEF Wishes!saveKey, Wishes!removeKey
  <2>2. Wishes!Plain(w) \in SafeCalls /\ Wishes!Plain(w).for # "theme"
    BY <2>1, FreshCall
  <2>3. calls' \in Seq(SafeCalls) /\ OneColours(calls') /\ (NoColours(calls) => NoColours(calls'))
    BY <2>1, <2>2, CallAdded DEF SettingsInv
  <2> QED BY <2>1, <2>3 DEF SettingsInv
<1> QED BY <1>1, <1>2, <1>3, <1>4, <1>5

(* The two stores and the wire.                                            *)
LEMMA ServeStep == ASSUME SettingsInv, Wishes!Serves PROVE SettingsInv'
<1>1. PICK i \in DOMAIN calls :
        /\ calls[i].answer = None
        /\ Wishes!Reads(i) \/ Wishes!ReplacesPrefs(i) \/ Wishes!ChangesKey(i) \/ Wishes!Unreachable(i)
  BY DEF Wishes!Serves
<1>2. UNCHANGED <<controls, colours>>
  BY DEF Wishes!Serves
<1>3. calls \in Seq(SafeCalls) /\ i \in 1..Len(calls) /\ DOMAIN calls = 1..Len(calls)
  BY <1>1 DEF SettingsInv
<1>4. calls[i] \in SafeCalls
  BY <1>3
<1>5. bag.held \in SafeBags /\ bag.file \in SafeBags
  BY DEF SettingsInv
<1>6. /\ bag' \in [held : SafeBags, file : SafeBags]
      /\ \E c \in SafeCalls : c.for = calls[i].for /\ calls' = [calls EXCEPT ![i] = c]
  <2>1. CASE Wishes!Reads(i) /\ calls[i].for = "keys"
    <3>1. PICK a \in {"saved", "absent"} : calls' = [calls EXCEPT ![i].answer = a] /\ UNCHANGED bag
      BY <2>1 DEF Wishes!Reads, Wishes!Replies
    <3> DEFINE c == [calls[i] EXCEPT !.answer = a]
    <3>2. calls[i].for \notin DOMAIN Items \cup {"open"}
      BY <2>1, ScreensAssumption
    <3>3. c \in SafeCalls /\ c.for = calls[i].for
      BY <1>4, <3>2 DEF SafeCalls
    <3>4. calls' = [calls EXCEPT ![i] = c]
      BY <1>3, <3>1
    <3> QED BY <3>1, <3>3, <3>4 DEF SettingsInv
  <2>2. CASE Wishes!Reads(i) /\ calls[i].for # "keys"
    <3>1. calls' = [calls EXCEPT ![i].answer = "ok", ![i].body = bag.held] /\ UNCHANGED bag
      BY <2>2 DEF Wishes!Reads
    <3> DEFINE c == [calls[i] EXCEPT !.answer = "ok", !.body = bag.held]
    <3>2. c \in SafeCalls /\ c.for = calls[i].for
      BY <1>4, <1>5 DEF SafeCalls
    <3>3. calls' = [calls EXCEPT ![i] = c]
      BY <1>3, <3>1
    <3> QED BY <3>1, <3>2, <3>3 DEF SettingsInv
  <2>3. CASE Wishes!ReplacesPrefs(i)
    <3>1. calls[i].body \in SafeBags
      BY <1>4, <2>3 DEF Wishes!ReplacesPrefs, Wishes!Keys, SafeCalls
    <3>2. /\ bag' \in {[held |-> calls[i].body, file |-> calls[i].body], [bag EXCEPT !.held = calls[i].body]}
          /\ \E a \in {"ok", "error"} : calls' = [calls EXCEPT ![i].answer = a]
      BY <2>3 DEF Wishes!ReplacesPrefs, Wishes!Replies
    <3>3. PICK a \in {"ok", "error"} : calls' = [calls EXCEPT ![i].answer = a]
      BY <3>2
    <3> DEFINE c == [calls[i] EXCEPT !.answer = a]
    <3>4. c \in SafeCalls /\ c.for = calls[i].for
      BY <1>4, <3>1 DEF SafeCalls
    <3>5. calls' = [calls EXCEPT ![i] = c]
      BY <1>3, <3>3
    <3>6. bag' \in [held : SafeBags, file : SafeBags]
      BY <1>5, <3>1, <3>2 DEF SettingsInv
    <3> QED BY <3>4, <3>5, <3>6
  <2>4. CASE Wishes!ChangesKey(i)
    <3>1. /\ UNCHANGED bag /\ calls[i].for \in {"save", "remove"}
          /\ \E a \in {"ok", "error"} : calls' = [calls EXCEPT ![i].answer = a]
      BY <2>4 DEF Wishes!ChangesKey, Wishes!Replies
    <3>2. PICK a \in {"ok", "error"} : calls' = [calls EXCEPT ![i].answer = a]
      BY <3>1
    <3> DEFINE c == [calls[i] EXCEPT !.answer = a]
    <3>3. calls[i].for \notin DOMAIN Items \cup {"open"}
      BY <3>1, ScreensAssumption
    <3>4. c \in SafeCalls /\ c.for = calls[i].for
      BY <1>4, <3>3 DEF SafeCalls
    <3>5. calls' = [calls EXCEPT ![i] = c]
      BY <1>3, <3>2
    <3> QED BY <3>1, <3>4, <3>5 DEF SettingsInv
  <2>5. CASE Wishes!Unreachable(i)
    <3>1. calls' = [calls EXCEPT ![i].answer = "error"] /\ UNCHANGED bag
      BY <2>5 DEF Wishes!Unreachable, Wishes!Replies
    <3> DEFINE c == [calls[i] EXCEPT !.answer = "error"]
    <3>2. c \in SafeCalls /\ c.for = calls[i].for
      BY <1>4 DEF SafeCalls
    <3>3. calls' = [calls EXCEPT ![i] = c]
      BY <1>3, <3>1
    <3> QED BY <3>1, <3>2, <3>3 DEF SettingsInv
  <2> QED BY <1>1, <2>1, <2>2, <2>3, <2>4, <2>5
<1>7. calls' \in Seq(SafeCalls) /\ OneColours(calls') /\ (NoColours(calls) => NoColours(calls'))
  <2>1. PICK c \in SafeCalls : c.for = calls[i].for /\ calls' = [calls EXCEPT ![i] = c]
    BY <1>6
  <2> QED BY <1>3, <2>1, CallChanged DEF SettingsInv
<1> QED BY <1>2, <1>6, <1>7 DEF SettingsInv

LEMMA MergedIsSafe ==
  ASSUME NEW c \in SafeCalls, c.for \in DOMAIN Items, c.body \in SafeBags
  PROVE  [c EXCEPT !.step = "write", !.body = Wishes!Merged(c), !.answer = None] \in SafeCalls
<1>1. c.patch \in SUBSET Things
  BY DEF SafeCalls
<1>2. ASSUME NEW b \in SafeBags, NEW k \in DOMAIN Items, NEW p \in SUBSET Things, NEW d \in BOOLEAN
      PROVE  [b EXCEPT !.own[k] = p, !.dead = d] \in SafeBags
  BY DEF SafeBags
<1>3. (c.body.dead /\ c.for = "notice") \in BOOLEAN
  OBVIOUS
<1>4. [c.body EXCEPT !.own[c.for] = c.patch, !.dead = (c.body.dead /\ c.for = "notice")] \in SafeBags
  BY <1>1, <1>2, <1>3
<1>5. Wishes!Merged(c) \in SafeBags
  BY <1>4 DEF Wishes!Merged
<1> HIDE DEF Wishes!Merged
<1> QED BY <1>5 DEF SafeCalls

(* What the page makes of the answers.                                     *)
LEMMA DeliverStep == ASSUME SettingsInv, Wishes!Delivers PROVE SettingsInv'
<1>1. PICK i \in DOMAIN calls :
        /\ calls[i].answer # None
        /\ Wishes!TakesBag(i) \/ Wishes!Settles(i) \/ Wishes!Rereads(i) \/ Wishes!TakesKeys(i)
  BY DEF Wishes!Delivers
<1>2. UNCHANGED bag
  BY DEF Wishes!Delivers
<1>3. calls \in Seq(SafeCalls) /\ i \in 1..Len(calls) /\ OneColours(calls)
  BY <1>1 DEF SettingsInv
<1>4. calls[i] \in SafeCalls
  BY <1>3
<1>5. /\ Wishes!others(i) \in Seq(SafeCalls) /\ OneColours(Wishes!others(i))
      /\ NoColours(calls) \/ calls[i].for = "theme" => NoColours(Wishes!others(i))
  BY <1>3, CallRemoved DEF Wishes!others
<1>6. CASE Wishes!TakesBag(i)
  <2> DEFINE c == [calls[i] EXCEPT !.step = "write", !.body = Wishes!Merged(calls[i]), !.answer = None]
  <2>1. /\ calls[i].for \in DOMAIN Items /\ calls[i].answer # "error"
        /\ calls' = Append(Wishes!others(i), c) /\ UNCHANGED <<controls, colours>>
    BY <1>6 DEF Wishes!TakesBag, Wishes!Keys
  <2>2. calls[i].body \in SafeBags
    BY <1>1, <1>4, <2>1 DEF SafeCalls
  <2>3. c \in SafeCalls
    BY <1>4, <2>1, <2>2, MergedIsSafe
  <2>4. c.for = calls[i].for
    BY <1>4 DEF SafeCalls
  <2> HIDE DEF c
  <2>5. c.for # "theme" \/ NoColours(Wishes!others(i))
    BY <1>5, <2>4
  <2>6. /\ calls' \in Seq(SafeCalls) /\ OneColours(calls')
        /\ NoColours(Wishes!others(i)) /\ c.for # "theme" => NoColours(calls')
    BY <1>5, <2>1, <2>3, <2>5, CallAdded
  <2>7. NoColours(calls) => NoColours(calls')
    BY <1>3, <1>5, <2>4, <2>6 DEF NoColours
  <2> QED BY <1>2, <2>1, <2>6, <2>7 DEF SettingsInv
<1>7. CASE Wishes!Settles(i)
  <2>1. controls' \in [DOMAIN Items -> SUBSET Things]
    <3>1. calls[i].before \in SUBSET Things
      BY <1>4 DEF SafeCalls
    <3>2. \E p \in {calls[i].before, controls[calls[i].for]} : controls' = [controls EXCEPT ![calls[i].for] = p]
      BY <1>7 DEF Wishes!Settles
    <3>3. calls[i].for \in DOMAIN Items
      BY <1>7 DEF Wishes!Settles, Wishes!Keys
    <3> QED BY <3>1, <3>2, <3>3 DEF SettingsInv
  <2>2. CASE calls[i].for = "theme"
    <3>1. [colours EXCEPT !.flying = FALSE] \in Colours
      BY DEF SettingsInv, Colours
    <3>2. Wishes!send([colours EXCEPT !.flying = FALSE], Wishes!others(i))
      BY <1>7, <2>2 DEF Wishes!Settles, Wishes!ColoursSettle
    <3>3. /\ colours' \in Colours /\ calls' \in Seq(SafeCalls) /\ OneColours(calls')
          /\ colours'.flying = FALSE => NoColours(calls')
      BY <1>5, <2>2, <3>1, <3>2, SendEffect
    <3> QED BY <1>2, <2>1, <3>3 DEF SettingsInv
  <2>3. CASE calls[i].for # "theme"
    <3>1. calls' = Wishes!others(i) /\ UNCHANGED colours
      BY <1>7, <2>3 DEF Wishes!Settles
    <3> QED BY <1>2, <1>5, <2>1, <3>1 DEF SettingsInv
  <2> QED BY <2>2, <2>3
<1>8. CASE Wishes!Rereads(i)
  <2>1. calls[i].for = "open" /\ calls' = Wishes!others(i) /\ UNCHANGED colours
    BY <1>8 DEF Wishes!Rereads
  <2>2. controls' \in [DOMAIN Items -> SUBSET Things]
    <3>1. CASE controls' = controls
      BY <3>1 DEF SettingsInv
    <3>2. CASE controls' # controls
      <4>1. calls[i].answer # "error"
        BY <1>8, <3>2 DEF Wishes!Rereads
      <4>2. calls[i].body \in SafeBags
        BY <1>1, <1>4, <2>1, <4>1 DEF SafeCalls
      <4>3. PICK P : controls' = [k \in DOMAIN Items |-> IF k \in P THEN controls[k] ELSE calls[i].body.own[k]]
        <5> DEFINE P == {k \in DOMAIN Items : k = "notice" \/ (k = "theme" /\ ~(~colours.timer /\ ~colours.flying))}
        <5>1. controls' = [k \in DOMAIN Items |-> IF k \in P THEN controls[k] ELSE calls[i].body.own[k]]
          BY <1>8, <3>2 DEF Wishes!Rereads, Wishes!Keys
        <5> QED BY <5>1
      <4>4. \A k \in DOMAIN Items : controls[k] \in SUBSET Things /\ calls[i].body.own[k] \in SUBSET Things
        BY <4>2 DEF SettingsInv, SafeBags
      <4> QED BY <4>3, <4>4
    <3> QED BY <3>1, <3>2
  <2> QED BY <1>2, <1>5, <2>1, <2>2 DEF SettingsInv
<1>9. CASE Wishes!TakesKeys(i)
  <2>1. calls' = Wishes!others(i) /\ UNCHANGED <<controls, colours>>
    BY <1>9 DEF Wishes!TakesKeys
  <2> QED BY <1>2, <1>5, <2>1 DEF SettingsInv
<1> QED BY <1>1, <1>6, <1>7, <1>8, <1>9

LEMMA SettingsStep == SettingsInv /\ [Wishes!SettingsNext]_(Wishes!settingsVars) => SettingsInv'
<1> SUFFICES ASSUME SettingsInv, [Wishes!SettingsNext]_(Wishes!settingsVars) PROVE SettingsInv'
  OBVIOUS
<1>1. CASE UNCHANGED Wishes!settingsVars
  BY <1>1 DEF Wishes!settingsVars, SettingsInv
<1>2. CASE Wishes!Reloads
  <2>1. /\ bag' = [bag EXCEPT !.held = bag.file] /\ controls' = bag.file.own /\ calls' = <<>>
        /\ colours' = [pending |-> None, timer |-> FALSE, flying |-> FALSE]
    BY <1>2 DEF Wishes!Reloads
  <2>2. bag.file \in SafeBags /\ bag' \in [held : SafeBags, file : SafeBags]
    BY <2>1 DEF SettingsInv
  <2>3. controls' \in [DOMAIN Items -> SUBSET Things]
    BY <2>1, <2>2 DEF SafeBags
  <2>4. calls' \in Seq(SafeCalls) /\ Len(calls') = 0
    BY <2>1
  <2> QED BY <2>1, <2>2, <2>3, <2>4 DEF SettingsInv, Colours, OneColours, NoColours
<1> QED BY <1>1, <1>2, RowStep, PanelStep, ServeStep, DeliverStep DEF Wishes!SettingsNext

(* The settings count with a Cardinality of their own instance.            *)
LEMMA SettingsCount == \A S : Wishes!Cardinality(S) = Cardinality(S)
BY DEF Cardinality, Wishes!Cardinality, IsFiniteSet, Wishes!IsFiniteSet

LEMMA SettingsInvIsEnough == SettingsInv => WritesAreSafe
<1> SUFFICES ASSUME SettingsInv PROVE WritesAreSafe
  OBVIOUS
<1>1. bag.held.strange = TRUE /\ bag.file.strange = TRUE
  BY DEF SettingsInv, SafeBags
<1> DEFINE T == {i \in DOMAIN calls : calls[i].for = "theme"}
<1>2. \A i, j \in T : i = j
  BY DEF SettingsInv, OneColours
<1>3. T = {} \/ \E i : T = {i}
  BY <1>2
<1>4. Cardinality(T) <= 1
  BY <1>3, FS_EmptySet, FS_Singleton
<1>5. Wishes!OneColourWrite
  BY <1>4, SettingsCount DEF Wishes!OneColourWrite
<1> QED BY <1>1, <1>5 DEF WritesAreSafe, Wishes!StrangersSurvive

(* Every write of a setting keeps what the app does not know in the bag    *)
(* (api.ts updatePrefs), whatever fails and in whatever order requests are *)
(* served, and one request at a time writes the colours (theme.ts send).   *)
THEOREM SettingsAreSafe == Wishes!SettingsSpec => []WritesAreSafe
<1>1. SettingsInv /\ [Wishes!SettingsNext]_(Wishes!settingsVars) => SettingsInv'
  BY SettingsStep
<1> QED BY SettingsInitInv, <1>1, SettingsInvIsEnough, PTL DEF Wishes!SettingsSpec

-----------------------------------------------------------------------------
(***************************************************************************)
(* The mascots                                                             *)
(***************************************************************************)
Rises == [age : 0..Hold, min : 1..MaxCount]
Feeds == [ids : Seq(Waiting), shown : Nat, on : BOOLEAN, rise : Rises \cup {None},
          again : Nat \cup {None}, next : Nat, fails : Nat]
Flown == [answer : {None, "ok", "401", "error"}, ids : Seq(Waiting), on : BOOLEAN, late : BOOLEAN]

(* A rise is as old as the answers that asked for what it rises to.        *)
RiseIsHeld ==
  feed.rise # None => \A k \in 1..feed.rise.min : held[k] # None /\ held[k] >= feed.rise.age
MascotInv ==
  /\ waiting \in Seq(Waiting) /\ wanted \in BOOLEAN
  /\ feed \in Feeds /\ flights \in Seq(Flown)
  /\ held \in [1..MaxCount -> (0..Hold) \cup {None}]
  /\ RiseIsHeld
ShownIsHeld == feed'.shown > feed.shown => held'[feed'.shown] = Hold

LEMMA TargetRange ==
  ASSUME NEW on \in BOOLEAN, NEW ids \in Seq(Waiting)
  PROVE  Mascots!target(on, ids) \in 0..MaxCount
BY ScreensAssumption DEF Mascots!target, Mascots!Least

(* MascotFeed.#observe, on a feed of which only the preference is new.     *)
LEMMA SeesEffect ==
  ASSUME MascotInv, NEW f \in Feeds, NEW ids \in Seq(Waiting),
         f.shown = feed.shown, f.rise = feed.rise, Mascots!Sees(f, ids)
  PROVE  /\ feed' \in Feeds /\ held' \in [1..MaxCount -> (0..Hold) \cup {None}]
         /\ RiseIsHeld' /\ ShownIsHeld
<1> DEFINE n == Mascots!target(f.on, ids)
           g == [f EXCEPT !.ids = ids]
<1>0. MaxCount \in Nat /\ Hold \in Nat /\ None \notin Nat
  BY ScreensAssumption
<1>1. n \in 0..MaxCount /\ n \in Nat
  BY <1>0, TargetRange DEF Feeds
<1>2. /\ feed' = Mascots!observe(f, ids)
      /\ held' = [k \in 1..MaxCount |-> IF n < k THEN None ELSE IF held[k] = None THEN 0 ELSE held[k]]
  BY DEF Mascots!Sees, Mascots!Counts
<1>3. held \in [1..MaxCount -> (0..Hold) \cup {None}]
  BY DEF MascotInv
<1>4. held' \in [1..MaxCount -> (0..Hold) \cup {None}]
  BY <1>0, <1>2, <1>3
<1>5. \A k \in 1..n : held'[k] \in 0..Hold /\ (held[k] # None => held'[k] = held[k])
  BY <1>0, <1>1, <1>2, <1>3
<1>6. /\ f.shown \in Nat /\ f.rise \in Rises \cup {None} /\ g \in Feeds
      /\ g.shown = f.shown /\ g.rise = f.rise
  BY DEF Feeds
<1>7. f.rise # None => /\ f.rise.age \in 0..Hold /\ f.rise.min \in 1..MaxCount
                       /\ \A k \in 1..f.rise.min : held[k] # None /\ held[k] >= f.rise.age
  BY <1>6 DEF MascotInv, RiseIsHeld, Rises
<1> HIDE DEF n, g
<1>8. CASE n <= f.shown
  <2>1. feed' = [g EXCEPT !.rise = None, !.again = None, !.shown = n]
    BY <1>1, <1>2, <1>6, <1>8 DEF Mascots!observe, Mascots!Level, n, g
  <2>2. feed' \in Feeds /\ feed'.rise = None /\ feed'.shown = n
    BY <1>1, <1>6, <2>1 DEF Feeds
  <2>3. ~(feed'.shown > feed.shown)
    BY <1>1, <1>6, <1>8, <2>2
  <2> QED BY <1>4, <2>2, <2>3 DEF RiseIsHeld, ShownIsHeld
<1>9. CASE n > f.shown /\ f.rise = None
  <2>1. feed' = [g EXCEPT !.rise = [age |-> 0, min |-> n], !.again = Hold]
    BY <1>1, <1>2, <1>6, <1>9 DEF Mascots!observe, Mascots!Rising, n, g
  <2>2. n \in 1..MaxCount /\ [age |-> 0, min |-> n] \in Rises
    BY <1>0, <1>1, <1>6, <1>9 DEF Rises
  <2>3. feed' \in Feeds /\ feed'.rise = [age |-> 0, min |-> n] /\ feed'.shown = f.shown
    BY <1>0, <1>6, <2>1, <2>2 DEF Feeds
  <2>4. RiseIsHeld'
    BY <1>0, <1>5, <2>3 DEF RiseIsHeld
  <2>5. ~(feed'.shown > feed.shown)
    BY <1>6, <2>3
  <2> QED BY <1>4, <2>3, <2>4, <2>5 DEF ShownIsHeld
<1>10. CASE n > f.shown /\ f.rise # None /\ f.rise.age < Hold
  <2> DEFINE m == Mascots!Least(f.rise.min, n)
  <2>1. feed' = [g EXCEPT !.rise.min = m]
    BY <1>1, <1>2, <1>6, <1>10 DEF Mascots!observe, Mascots!Lowest, n, g
  <2>2. m \in 1..MaxCount /\ m <= n /\ m <= f.rise.min
    BY <1>0, <1>1, <1>6, <1>7, <1>10 DEF Mascots!Least
  <2> HIDE DEF m
  <2>3. f.rise \in Rises
    BY <1>6, <1>10
  <2>4. /\ [f.rise EXCEPT !.min = m] \in Rises /\ [f.rise EXCEPT !.min = m].min = m
        /\ [f.rise EXCEPT !.min = m].age = f.rise.age
    BY <2>2, <2>3 DEF Rises
  <2>5. feed' = [g EXCEPT !.rise = [f.rise EXCEPT !.min = m]]
    BY <1>6, <2>1 DEF Feeds
  <2>6. feed' \in Feeds /\ feed'.rise = [f.rise EXCEPT !.min = m] /\ feed'.shown = f.shown
    BY <1>6, <2>4, <2>5 DEF Feeds
  <2>7. \A k \in 1..m : held'[k] # None /\ held'[k] >= f.rise.age
    BY <1>0, <1>1, <1>5, <1>7, <1>10, <2>2
  <2>8. RiseIsHeld'
    BY <2>4, <2>6, <2>7 DEF RiseIsHeld
  <2>9. ~(feed'.shown > feed.shown)
    BY <1>6, <2>6
  <2> QED BY <1>4, <2>6, <2>8, <2>9 DEF ShownIsHeld
<1>11. CASE n > f.shown /\ f.rise # None /\ ~(f.rise.age < Hold)
  <2> DEFINE m == Mascots!Least(f.rise.min, n)
             h == [g EXCEPT !.rise = None, !.again = None, !.shown = m]
  <2>1. feed' = IF n > h.shown THEN [h EXCEPT !.rise = [age |-> 0, min |-> n], !.again = Hold] ELSE h
    BY <1>1, <1>2, <1>6, <1>11 DEF Mascots!observe, Mascots!Lowest, Mascots!Level, Mascots!Rising, n, g
  <2>2. m \in 1..MaxCount /\ m \in Nat /\ m <= n /\ m <= f.rise.min
    BY <1>0, <1>1, <1>6, <1>7, <1>11 DEF Mascots!Least
  <2> HIDE DEF m
  <2>3. h \in Feeds /\ h.rise = None /\ h.shown = m
    BY <1>6, <2>2 DEF Feeds
  <2> HIDE DEF h
  <2>4. held'[m] = Hold
    <3>1. m \in 1..n /\ m \in 1..f.rise.min
      BY <1>1, <1>7, <1>11, <2>2
    <3>2. held[m] # None /\ held[m] >= f.rise.age /\ held'[m] = held[m] /\ held'[m] \in 0..Hold
      BY <1>5, <1>7, <1>11, <3>1
    <3>3. f.rise.age = Hold
      BY <1>0, <1>7, <1>11
    <3> QED BY <1>0, <3>2, <3>3
  <2>5. feed'.shown = m /\ feed' \in Feeds /\ RiseIsHeld'
    <3>1. CASE n > h.shown
      <4>1. n \in 1..MaxCount /\ [age |-> 0, min |-> n] \in Rises
        BY <1>0, <1>1, <1>6, <1>11 DEF Rises
      <4>2. feed' \in Feeds /\ feed'.rise = [age |-> 0, min |-> n] /\ feed'.shown = m
        BY <1>0, <2>1, <2>3, <3>1, <4>1 DEF Feeds
      <4>3. RiseIsHeld'
        BY <1>0, <1>5, <4>2 DEF RiseIsHeld
      <4> QED BY <4>2, <4>3
    <3>2. CASE ~(n > h.shown)
      BY <2>1, <2>3, <3>2 DEF RiseIsHeld
    <3> QED BY <3>1, <3>2
  <2> QED BY <1>4, <2>4, <2>5 DEF ShownIsHeld
<1> QED
  <2>1. n <= f.shown \/ n > f.shown
    BY <1>1, <1>6
  <2> QED BY <1>8, <1>9, <1>10, <1>11, <2>1

(* The mascots take an element out as the settings do.                     *)
LEMMA SameRemoval == \A q, i : Mascots!RemoveAt(q, i) = Wishes!RemoveAt(q, i)
BY DEF Mascots!RemoveAt, Wishes!RemoveAt

LEMMA MascotInitInv == Mascots!MascotInit => MascotInv
<1> SUFFICES ASSUME Mascots!MascotInit PROVE MascotInv
  OBVIOUS
<1>1. /\ waiting = <<>> /\ wanted = TRUE /\ feed = Mascots!Idle /\ flights = <<>>
      /\ held = [n \in 1..MaxCount |-> None]
  BY DEF Mascots!MascotInit, Mascots!Counts
<1>2. feed \in Feeds /\ feed.rise = None
  BY <1>1 DEF Mascots!Idle, Feeds
<1>3. waiting \in Seq(Waiting) /\ flights \in Seq(Flown) /\ wanted \in BOOLEAN
  BY <1>1
<1> QED BY <1>1, <1>2, <1>3 DEF MascotInv, RiseIsHeld

LEMMA Mounted ==
  ASSUME MascotInv, NEW queue, NEW rested, Mascots!Mounts(queue, rested), UNCHANGED <<waiting, wanted>>
  PROVE  MascotInv' /\ ShownIsHeld
<1>1. feed' = Mascots!Idle /\ held' = [n \in 1..MaxCount |-> None] /\ flights' = <<>>
  BY DEF Mascots!Mounts, Mascots!Counts
<1>2. feed' \in Feeds /\ feed'.rise = None /\ feed'.shown = 0
  BY <1>1 DEF Mascots!Idle, Feeds
<1>3. feed.shown \in Nat /\ waiting \in Seq(Waiting) /\ wanted \in BOOLEAN
  BY DEF MascotInv, Feeds
<1>4. ~(feed'.shown > feed.shown)
  BY <1>2, <1>3
<1>5. flights' \in Seq(Flown)
  BY <1>1
<1> QED BY <1>1, <1>2, <1>3, <1>4, <1>5 DEF MascotInv, RiseIsHeld, ShownIsHeld

LEMMA FeedRests ==
  ASSUME MascotInv, UNCHANGED <<feed, held>>, waiting' \in Seq(Waiting), wanted' \in BOOLEAN,
         flights' \in Seq(Flown)
  PROVE  MascotInv' /\ ShownIsHeld
<1>1. feed.shown \in Nat
  BY DEF MascotInv, Feeds
<1>2. ~(feed'.shown > feed.shown)
  BY <1>1
<1> QED BY <1>2 DEF MascotInv, RiseIsHeld, ShownIsHeld

LEMMA FlightStep ==
  ASSUME MascotInv, Mascots!Polls \/ Mascots!Serves
  PROVE  MascotInv' /\ ShownIsHeld
<1>1. CASE Mascots!Polls
  <2>1. /\ UNCHANGED <<waiting, wanted, held>>
        /\ flights' = Append(flights, [answer |-> None, ids |-> <<>>, on |-> TRUE, late |-> FALSE])
        /\ feed' = [feed EXCEPT !.next = Period] \/ feed' = [feed EXCEPT !.again = None]
    BY <1>1 DEF Mascots!Polls, Mascots!Ask
  <2>2. /\ feed' \in Feeds /\ feed'.rise = feed.rise /\ feed'.shown = feed.shown /\ feed.shown \in Nat
    BY <2>1, ScreensAssumption DEF MascotInv, Feeds
  <2>3. ~(feed'.shown > feed.shown)
    BY <2>2
  <2>4. [answer |-> None, ids |-> <<>>, on |-> TRUE, late |-> FALSE] \in Flown
    BY DEF Flown
  <2>5. flights' \in Seq(Flown)
    BY <2>1, <2>4 DEF MascotInv
  <2> QED BY <2>1, <2>2, <2>3, <2>5 DEF MascotInv, RiseIsHeld, ShownIsHeld
<1>2. CASE Mascots!Serves
  <2>1. UNCHANGED <<waiting, wanted, feed, held>> /\ flights \in Seq(Flown)
    BY <1>2 DEF Mascots!Serves, MascotInv
  <2> DEFINE a == IF overlay.current THEN "ok" ELSE "401"
  <2>2. PICK i \in DOMAIN flights :
          \/ flights' = [flights EXCEPT ![i].answer = a, ![i].ids = waiting, ![i].on = wanted]
          \/ flights' = [flights EXCEPT ![i].answer = "error"]
    BY <1>2 DEF Mascots!Serves
  <2>3. flights[i] \in Flown /\ i \in 1..Len(flights)
    BY <2>1
  <2>4. a \in {"ok", "401"}
    OBVIOUS
  <2> HIDE DEF a
  <2>5. waiting \in Seq(Waiting) /\ wanted \in BOOLEAN
    BY DEF MascotInv
  <2>6. flights' \in Seq(Flown)
    <3>1. CASE flights' = [flights EXCEPT ![i].answer = "error"]
      <4>1. [flights[i] EXCEPT !.answer = "error"] \in Flown
        BY <2>3 DEF Flown
      <4>2. flights' = [flights EXCEPT ![i] = [flights[i] EXCEPT !.answer = "error"]]
        BY <2>1, <3>1
      <4> QED BY <2>1, <4>1, <4>2
    <3>2. CASE flights' = [flights EXCEPT ![i].answer = a, ![i].ids = waiting, ![i].on = wanted]
      <4>1. [flights[i] EXCEPT !.answer = a, !.ids = waiting, !.on = wanted] \in Flown
        BY <2>3, <2>4, <2>5 DEF Flown
      <4>2. flights' = [flights EXCEPT ![i] = [flights[i] EXCEPT !.answer = a, !.ids = waiting, !.on = wanted]]
        BY <2>1, <3>2
      <4> QED BY <2>1, <4>1, <4>2
    <3> QED BY <2>2, <2>4, <3>1, <3>2
  <2> QED BY <2>1, <2>5, <2>6, FeedRests
<1> QED BY <1>1, <1>2

(* Those asked before the one that answers are too late from now on.       *)
LEMMA FlightsLeft ==
  ASSUME flights \in Seq(Flown), NEW i \in 1..Len(flights)
  PROVE  /\ Mascots!RemoveAt(flights, i) \in Seq(Flown)
         /\ Mascots!RemoveAt(Mascots!Later(i), i) \in Seq(Flown)
<1>1. \A j \in 1..Len(flights) : flights[j] \in Flown /\ [flights[j] EXCEPT !.late = TRUE] \in Flown
  <2>1. \A f \in Flown : [f EXCEPT !.late = TRUE] \in Flown
    BY DEF Flown
  <2> QED BY <2>1
<1>2. Mascots!Later(i) = [j \in 1..Len(flights) |-> IF j < i THEN [flights[j] EXCEPT !.late = TRUE] ELSE flights[j]]
  BY DEF Mascots!Later
<1>3. Len(flights) \in Nat
  OBVIOUS
<1>4. Mascots!Later(i) \in [1..Len(flights) -> Flown]
  BY <1>1, <1>2
<1>5. Mascots!Later(i) \in Seq(Flown) /\ Len(Mascots!Later(i)) = Len(flights)
  BY <1>3, <1>4
<1> QED BY <1>5, SameRemoval, Removed

LEMMA AnswerStep == ASSUME MascotInv, Mascots!Answered PROVE MascotInv' /\ ShownIsHeld
<1>1. PICK i \in DOMAIN flights :
        \/ /\ flights' = Mascots!RemoveAt(flights, i) /\ UNCHANGED <<feed, held>>
        \/ /\ flights' = Mascots!RemoveAt(Mascots!Later(i), i)
           /\ Mascots!Sees([feed EXCEPT !.on = flights[i].on, !.fails = 0], flights[i].ids)
        \/ /\ flights' = Mascots!RemoveAt(Mascots!Later(i), i)
           /\ (feed' = Mascots!Failed /\ UNCHANGED held) \/ Mascots!Sees(Mascots!Failed, <<>>)
  BY DEF Mascots!Answered
<1>2. UNCHANGED <<waiting, wanted>>
  BY DEF Mascots!Answered
<1>3. flights \in Seq(Flown) /\ i \in 1..Len(flights) /\ waiting \in Seq(Waiting) /\ wanted \in BOOLEAN
  BY <1>1 DEF MascotInv
<1>4. flights' \in Seq(Flown)
  BY <1>1, <1>3, FlightsLeft
<1>5. flights[i].on \in BOOLEAN /\ flights[i].ids \in Seq(Waiting)
  <2>1. flights[i] \in Flown
    BY <1>3
  <2> QED BY <2>1 DEF Flown
<1>6. CASE UNCHANGED <<feed, held>>
  BY <1>2, <1>3, <1>4, <1>6, FeedRests
<1>7. ASSUME NEW f \in Feeds, NEW ids \in Seq(Waiting), f.shown = feed.shown, f.rise = feed.rise,
             Mascots!Sees(f, ids)
      PROVE  MascotInv' /\ ShownIsHeld
  BY <1>2, <1>3, <1>4, <1>7, SeesEffect DEF MascotInv
<1>8. CASE Mascots!Sees([feed EXCEPT !.on = flights[i].on, !.fails = 0], flights[i].ids)
  <2> DEFINE f == [feed EXCEPT !.on = flights[i].on, !.fails = 0]
  <2>1. f \in Feeds /\ f.shown = feed.shown /\ f.rise = feed.rise
    BY <1>5 DEF MascotInv, Feeds
  <2> QED BY <1>5, <1>7, <1>8, <2>1
<1>9. Mascots!Failed \in Feeds /\ Mascots!Failed.shown = feed.shown /\ Mascots!Failed.rise = feed.rise
  <2>1. feed.fails \in Nat
    BY DEF MascotInv, Feeds
  <2>2. Mascots!Least(feed.fails + 1, 2) \in Nat
    BY <2>1 DEF Mascots!Least
  <2> QED BY <2>2 DEF Mascots!Failed, MascotInv, Feeds
<1>10. CASE feed' = Mascots!Failed /\ UNCHANGED held
  <2>1. feed.shown \in Nat
    BY DEF MascotInv, Feeds
  <2>2. ~(feed'.shown > feed.shown)
    BY <1>9, <1>10, <2>1
  <2> QED BY <1>2, <1>3, <1>4, <1>9, <1>10, <2>2 DEF MascotInv, RiseIsHeld, ShownIsHeld
<1>11. CASE Mascots!Sees(Mascots!Failed, <<>>)
  <2>1. <<>> \in Seq(Waiting)
    OBVIOUS
  <2> QED BY <1>7, <1>9, <1>11, <2>1
<1> QED BY <1>1, <1>6, <1>8, <1>10, <1>11

(* Half a second passes for the rise and for what holds it alike.          *)
LEMMA TickStep == ASSUME MascotInv, Mascots!Tick PROVE MascotInv' /\ ShownIsHeld
<1>0. MaxCount \in Nat /\ Hold \in Nat /\ None \notin Nat
  BY ScreensAssumption
<1>1. feed \in Feeds /\ held \in [1..MaxCount -> (0..Hold) \cup {None}]
  BY DEF MascotInv
<1> DEFINE next == Mascots!Down(feed.next)
           again == Mascots!Down(feed.again)
           rise == Mascots!Older(feed.rise)
<1>2. /\ feed' = [feed EXCEPT !.next = next, !.again = again, !.rise = rise]
      /\ held' = [n \in 1..MaxCount |-> IF held[n] = None THEN None ELSE Mascots!Least(held[n] + 1, Hold)]
      /\ UNCHANGED <<waiting, wanted, flights>> /\ feed.next # 0 /\ feed.again # 0
  <2>1. feed' = [feed EXCEPT !.next = next, !.again = again, !.rise = rise]
    BY DEF Mascots!Tick
  <2>2. /\ held' = [n \in 1..MaxCount |-> IF held[n] = None THEN None ELSE Mascots!Least(held[n] + 1, Hold)]
        /\ UNCHANGED <<waiting, wanted, flights>> /\ feed.next # 0 /\ feed.again # 0
    BY DEF Mascots!Tick, Mascots!Counts
  <2> QED BY <2>1, <2>2
<1>3. next \in Nat /\ again \in Nat \cup {None}
  BY <1>0, <1>1, <1>2 DEF Mascots!Down, Feeds
<1>4. rise \in Rises \cup {None}
  <2>1. CASE feed.rise = None
    BY <2>1 DEF Mascots!Older
  <2>2. CASE feed.rise # None
    <3>1. feed.rise \in Rises
      BY <1>1, <2>2 DEF Feeds
    <3>2. Mascots!Least(feed.rise.age + 1, Hold) \in 0..Hold
      BY <1>0, <3>1 DEF Rises, Mascots!Least
    <3> QED BY <2>2, <3>1, <3>2 DEF Rises, Mascots!Older
  <2> QED BY <2>1, <2>2
<1>5. held' \in [1..MaxCount -> (0..Hold) \cup {None}]
  <2>1. \A n \in 1..MaxCount : held[n] # None => Mascots!Least(held[n] + 1, Hold) \in 0..Hold
    BY <1>0, <1>1 DEF Mascots!Least
  <2> QED BY <1>2, <2>1
<1>6. rise # None => \A k \in 1..rise.min : held'[k] # None /\ held'[k] >= rise.age
  <2> SUFFICES ASSUME rise # None, NEW k \in 1..rise.min PROVE held'[k] # None /\ held'[k] >= rise.age
    OBVIOUS
  <2>1. feed.rise # None /\ feed.rise \in Rises
    BY <1>1 DEF Feeds, Mascots!Older
  <2>2. /\ rise.min = feed.rise.min /\ rise.age = Mascots!Least(feed.rise.age + 1, Hold)
        /\ feed.rise.min \in 1..MaxCount /\ feed.rise.age \in 0..Hold
    BY <2>1 DEF Rises, Mascots!Older
  <2>3. k \in 1..MaxCount /\ held[k] # None /\ held[k] >= feed.rise.age /\ held[k] \in 0..Hold
    BY <1>0, <1>1, <2>1, <2>2 DEF MascotInv, RiseIsHeld
  <2>4. held'[k] = Mascots!Least(held[k] + 1, Hold)
    BY <1>2, <2>3
  <2> QED BY <1>0, <2>2, <2>3, <2>4 DEF Mascots!Least
<1> HIDE DEF next, again, rise
<1>7. feed' \in Feeds /\ feed'.rise = rise /\ feed'.shown = feed.shown /\ feed.shown \in Nat
  BY <1>1, <1>2, <1>3, <1>4 DEF Feeds
<1>8. RiseIsHeld'
  BY <1>6, <1>7 DEF RiseIsHeld
<1>9. ~(feed'.shown > feed.shown)
  BY <1>7
<1> QED BY <1>2, <1>5, <1>7, <1>8, <1>9 DEF MascotInv, ShownIsHeld

LEMMA AroundStep ==
  ASSUME MascotInv,
         \/ \E i \in Mascots!Counts : Mascots!Resumes(i)
         \/ (\E s \in Waiting : Mascots!Waits(s)) \/ Mascots!Switches \/ Mascots!Restarts
  PROVE  MascotInv' /\ ShownIsHeld
<1>0. waiting \in Seq(Waiting) /\ wanted \in BOOLEAN /\ flights \in Seq(Flown)
  BY DEF MascotInv
<1>1. UNCHANGED <<feed, held, flights>>
  BY DEF Mascots!Resumes, Mascots!Waits, Mascots!Switches, Mascots!Restarts, Mascots!polling
<1>2. wanted' \in BOOLEAN
  BY <1>0 DEF Mascots!Resumes, Mascots!Waits, Mascots!Switches, Mascots!Restarts
<1>3. waiting' \in Seq(Waiting)
  <2>1. ASSUME NEW i, Mascots!Resumes(i) PROVE waiting' \in Seq(Waiting)
    <3>1. i \in 1..Len(waiting) /\ waiting' = Mascots!RemoveAt(waiting, i)
      BY <1>0, <2>1 DEF Mascots!Resumes
    <3> QED BY <1>0, <3>1, SameRemoval, Removed
  <2>2. ASSUME NEW s \in Waiting, Mascots!Waits(s) PROVE waiting' \in Seq(Waiting)
    BY <1>0, <2>2 DEF Mascots!Waits
  <2>3. CASE Mascots!Switches
    BY <1>0, <2>3 DEF Mascots!Switches
  <2>4. CASE Mascots!Restarts
    <3>1. waiting' = <<>>
      BY <2>4 DEF Mascots!Restarts
    <3> QED BY <3>1
  <2> QED BY <2>1, <2>2, <2>3, <2>4
<1> QED BY <1>0, <1>1, <1>2, <1>3, FeedRests

LEMMA MascotStep == MascotInv /\ [Mascots!MascotNext]_(Mascots!mascotVars) => MascotInv' /\ ShownIsHeld
<1> SUFFICES ASSUME MascotInv, [Mascots!MascotNext]_(Mascots!mascotVars) PROVE MascotInv' /\ ShownIsHeld
  OBVIOUS
<1>1. CASE UNCHANGED <<waiting, wanted, feed, held, flights>>
  BY <1>1, FeedRests DEF MascotInv
<1>2. CASE UNCHANGED Mascots!mascotVars
  BY <1>1, <1>2 DEF Mascots!mascotVars
<1>3. CASE Mascots!reloadForToken \/ Mascots!ControllerCreated \/ Mascots!ReloadOverlay
  BY <1>3, Mounted DEF Mascots!reloadForToken, Mascots!ControllerCreated, Mascots!ReloadOverlay
<1>4. CASE \/ Mascots!Rests \/ (\E i \in Mascots!Counts : Mascots!MotionEnds(i) \/ Mascots!MoodEnds(i))
           \/ (\E s \in Waiting : Mascots!OpensSession(s)) \/ Mascots!Receives \/ Mascots!LateRaise
           \/ Mascots!Gone \/ Mascots!Foreground \/ Mascots!Covers
           \/ (\E k \in {"render", "hang", "browser"} : Mascots!ProcessFailed(k))
           \/ (\E i \in Mascots!Counts : Mascots!poke(i))
  <2>1. UNCHANGED <<waiting, wanted, feed, held, flights>>
    BY <1>4 DEF Mascots!Rests, Mascots!MotionEnds, Mascots!MoodEnds, Mascots!OpensSession, Mascots!Receives,
                Mascots!LateRaise, Mascots!Gone, Mascots!Foreground, Mascots!Covers, Mascots!ProcessFailed,
                Mascots!poke, Mascots!polling
  <2> QED BY <1>1, <2>1
<1> QED
  BY <1>2, <1>3, <1>4, FlightStep, AnswerStep, TickStep, AroundStep DEF Mascots!MascotNext, Mascots!MascotGoesOn

(* A mascot more is drawn only for a session every answer of the hold      *)
(* asked for (feed.ts), whatever is polled, answered late, failed, loaded  *)
(* again or lost with the overlay meanwhile.                               *)
THEOREM MascotsAreHeld == Mascots!MascotSpec => HeldBeforeShown
<1>1. MascotInv /\ [Mascots!MascotNext]_(Mascots!mascotVars) => [ShownIsHeld]_(Mascots!mascotVars)
  BY MascotStep
<1>2. MascotInv /\ [Mascots!MascotNext]_(Mascots!mascotVars) => MascotInv'
  BY MascotStep
<1>3. Mascots!MascotSpec => [][ShownIsHeld]_(Mascots!mascotVars)
  BY MascotInitInv, <1>1, <1>2, PTL DEF Mascots!MascotSpec
<1> QED BY <1>3, PTL DEF HeldBeforeShown, Mascots!HeldBeforeShown, ShownIsHeld
=============================================================================
