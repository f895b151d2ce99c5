------------------------------- MODULE Panes -------------------------------
(***************************************************************************)
(* The cards of the pane area and the bells of their sessions              *)
(* (web/src/ui/panes.ts, panes-park.ts, pane-reuse-model.ts): one page,    *)
(* its tabs, the cards it draws, the ones it parked, and the backend's     *)
(* attention flags.                                                        *)
(*                                                                         *)
(* A tab that is left keeps its terminals, hidden, up to a cap.  A render  *)
(* is the end of the handler that changed the tabs, except while another   *)
(* screen covers the grid: then one render makes up for all of them.       *)
(***************************************************************************)
EXTENDS Naturals, Sequences, FiniteSets, Functions, FiniteSetsExt, TLC

CONSTANTS Sessions, None,
          Cap,        \* MAX_LIVE_TERMINALS
          Covered,    \* may another screen cover the grid
          MaxMoves,   \* bound: tabs opened, left and rearranged
          MaxRings    \* bound: bells of the programs

VARIABLES
  tabs,     \* the tabs with panes, by number: the sessions side by side, and the focused place
  active,   \* the tab in front, or 0
  grid,     \* "shown" or "covered"
  front,    \* does the window have the focus
  drawn,    \* the tab that was rendered last, its cards, and lastFocusKey
  parked,   \* tabs left behind, oldest first: their number and cards (None: torn down)
  wire,     \* the live terminals, as <<tab, session>>: what their socket still has to say
  bell, shows,   \* attention: at the backend, and on the page
  acks,     \* the words "seen" under way, twice for each time
  moves, rings

panesVars == <<tabs, active, grid, front, drawn, parked, wire, bell, shows, acks, moves, rings>>

Empty == [of |-> 0, cards |-> <<>>, key |-> <<>>]
PanesTypeOK ==
  /\ \A t \in DOMAIN tabs : tabs[t].focus \in DOMAIN tabs[t].at
  /\ active \in DOMAIN tabs \cup {0} /\ grid \in {"shown", "covered"}
  /\ \A p \in Range(parked) : Range(p.cards) \subseteq Sessions \cup {None}
  /\ bell \in [Sessions -> BOOLEAN] /\ shows \in [Sessions -> BOOLEAN] /\ acks \in [Sessions -> Nat]

Tab(at) == [at |-> at, focus |-> 1]
Own == CHOOSE f \in [1..Cardinality(Sessions) -> Sessions] : Range(f) = Sessions
PanesInit ==
  /\ tabs = [t \in DOMAIN Own |-> Tab(<<Own[t]>>)] /\ active = 0
  /\ grid = "shown" /\ front = TRUE /\ drawn = Empty /\ parked = <<>> /\ wire = <<>>
  /\ bell = [s \in Sessions |-> FALSE] /\ shows = bell /\ acks = [s \in Sessions |-> 0]
  /\ moves = 0 /\ rings = 0

-----------------------------------------------------------------------------
(* What a render makes of the cards, given the tabs and the one in front.  *)
Live(cards) == Cardinality({i \in DOMAIN cards : cards[i] # None})
ParkedLive(P) == FoldSet(LAMBDA i, n : n + Live(P[i].cards), 0, DOMAIN P)
Terminals(D, P) ==
  {<<D.of, s>> : s \in Range(D.cards)}
    \cup UNION {{<<p.of, s>> : s \in Range(p.cards) \ {None}} : p \in Range(P)}

(* pruneParked: closed tabs go whole, cards whose session left are emptied. *)
pruneParked(P, T) ==
  LET stays(p) == p.of \in DOMAIN T
      kept(p) == [p EXCEPT !.cards = [i \in DOMAIN @ |-> IF @[i] \in Range(T[p.of].at) THEN @[i] ELSE None]]
      here == SelectSeq(P, stays)
  IN [i \in DOMAIN here |-> kept(here[i])]
park(P, D, T) ==
  IF D.of \in DOMAIN T THEN Append(P, [of |-> D.of, cards |-> D.cards]) ELSE P
(* takeBack: the tab in front is no longer parked; its cards are in place. *)
takeBack(P, a) == LET other(p) == p.of # a IN SelectSeq(P, other)
(* enforceCap: the tabs seen longest ago, those without a terminal spared. *)
(* Mutant of tabsToEvict: the tab about to be drawn is not counted.        *)
tabsToEvictUncounted(P, need) ==
  {i \in DOMAIN P : Live(P[i].cards) > 0 /\ ParkedLive(SubSeq(P, i, Len(P))) > Cap}
tabsToEvict(P, need) ==
  {i \in DOMAIN P : Live(P[i].cards) > 0 /\ need + ParkedLive(SubSeq(P, i, Len(P))) > Cap}
enforceCap(P, need) ==
  LET out == tabsToEvict(P, need)
      stays(i) == i \notin out
      left == SelectSeq([i \in DOMAIN P |-> i], stays)
  IN [j \in DOMAIN left |-> P[left[j]]]

(* clearAttentionIfPending and ackSeen: by the socket and by a call.       *)
ackSeen(s) == shows' = [shows EXCEPT ![s] = FALSE] /\ acks' = [acks EXCEPT ![s] = @ + 2]
clearAttentionIfPending(s) ==
  IF s # None /\ shows[s] THEN ackSeen(s) ELSE UNCHANGED <<shows, acks>>
FocusedIn(T, a) == T[a].at[T[a].focus]

(* planCards: each pane keeps the card of its session, wherever it stands. *)
planCards(T, a) == T[a].at
(* relayout: the cards take the tab's order; a terminal that has none yet  *)
(* attaches, and is told how its session stands; one without a card goes.  *)
relayout(D, P) ==
  /\ drawn' = D /\ parked' = P
  /\ wire' = [t \in Terminals(D, P) |-> IF t \in DOMAIN wire THEN wire[t] ELSE <<bell[t[2]]>>]
(* lastFocusKey: the bell of a pane that was in front already is left to    *)
(* whoever looks again (looks).                                            *)
Render(T, a, looks) ==
  LET pruned == pruneParked(parked, T) IN
  IF a = 0
  THEN relayout(Empty, IF drawn.of = 0 THEN pruned ELSE park(pruned, drawn, T)) /\ UNCHANGED <<shows, acks>>
  ELSE LET left == IF a = drawn.of THEN pruned ELSE takeBack(park(pruned, drawn, T), a)
           key == <<a, T[a].focus, FocusedIn(T, a)>>
       IN /\ relayout([of |-> a, cards |-> planCards(T, a), key |-> key], enforceCap(left, Len(T[a].at)))
          /\ IF key # drawn.key \/ looks THEN clearAttentionIfPending(FocusedIn(T, a)) ELSE UNCHANGED <<shows, acks>>
(* What every change of the tabs ends with.                                *)
render(T, a) ==
  IF grid = "shown" THEN Render(T, a, FALSE) ELSE UNCHANGED <<drawn, parked, wire, shows, acks>>
Becomes(T, a) ==
  /\ moves < MaxMoves /\ moves' = moves + 1 /\ tabs' = T /\ active' = a
  /\ render(T, a) /\ UNCHANGED <<grid, front, bell, rings>>

-----------------------------------------------------------------------------
(* The tabs, of two panes at most here; Workspace has them in full.         *)
TabOf(s) == CHOOSE t \in DOMAIN tabs : s \in Range(tabs[t].at)
Without(at, s) == LET other(x) == x # s IN SelectSeq(at, other)
(* A tab that loses its only session is dissolved: another comes in front.  *)
removeAtSlot(t, s) ==
  IF Len(tabs[t].at) > 1 THEN [tabs EXCEPT ![t] = Tab(Without(@.at, s))] ELSE Restrict(tabs, DOMAIN tabs \ {t})
NextActive(T) ==
  IF active \in DOMAIN T \cup {0} THEN {active} ELSE IF T = <<>> THEN {0} ELSE DOMAIN T
(* insertSlots: the session that was put there has the focus.              *)
Joined(tab, s) == [at |-> Append(tab.at, s), focus |-> Len(tab.at) + 1]

setActiveView(t) == t # active /\ Becomes(tabs, t)
focusPane(i) ==
  /\ active # 0 /\ i \in DOMAIN tabs[active].at /\ i # tabs[active].focus
  /\ Becomes([tabs EXCEPT ![active].focus = i], active)
extractSession(s) ==
  LET t == TabOf(s) IN
  /\ Len(tabs[t].at) > 1
  /\ Becomes(removeAtSlot(t, s) @@ (Max(DOMAIN tabs) + 1 :> Tab(<<s>>)), active)
moveSessionToView(s, t) ==
  LET from == TabOf(s)
      T == [removeAtSlot(from, s) EXCEPT ![t] = Joined(@, s)]
  IN /\ t # from /\ Becomes(T, IF active \in DOMAIN T THEN active ELSE t)
swapPanes(to) ==
  /\ active # 0 /\ Len(tabs[active].at) = 2 /\ grid = "shown"
  /\ Becomes([tabs EXCEPT ![active].at = <<@[2], @[1]>>, ![active].focus = to], active)
removeSession(s) ==
  LET T == removeAtSlot(TabOf(s), s) IN
  \E a \in NextActive(T) : Becomes(T, a)

(* The full commit view, and the window.                                   *)
Covers ==
  /\ Covered /\ grid = "shown" /\ moves < MaxMoves /\ moves' = moves + 1 /\ grid' = "covered"
  /\ UNCHANGED <<tabs, active, front, drawn, parked, wire, bell, shows, acks, rings>>
refreshPaneArea ==
  /\ grid = "covered" /\ grid' = "shown"
  /\ Render(tabs, active, front)
  /\ UNCHANGED <<tabs, active, front, bell, moves, rings>>
Blurs ==
  /\ front /\ moves < MaxMoves /\ moves' = moves + 1 /\ front' = FALSE
  /\ UNCHANGED <<tabs, active, grid, drawn, parked, wire, bell, shows, acks, rings>>
(* Mutant of Focuses: nothing is done for the pane that was waiting.       *)
FocusesOnly ==
  /\ ~front /\ front' = TRUE
  /\ UNCHANGED <<tabs, active, grid, drawn, parked, wire, bell, shows, acks, moves, rings>>
Focuses ==
  /\ ~front /\ front' = TRUE
  /\ IF grid = "shown" /\ active # 0 THEN clearAttentionIfPending(FocusedIn(tabs, active)) ELSE UNCHANGED <<shows, acks>>
  /\ UNCHANGED <<tabs, active, grid, drawn, parked, wire, bell, moves, rings>>

-----------------------------------------------------------------------------
(* A program rings: every terminal of its session is told, bell or not.    *)
Rings(s) ==
  /\ rings < MaxRings /\ rings' = rings + 1 /\ bell' = [bell EXCEPT ![s] = TRUE]
  /\ wire' = [t \in DOMAIN wire |-> IF t[2] = s THEN Append(wire[t], TRUE) ELSE wire[t]]
  /\ UNCHANGED <<tabs, active, grid, front, drawn, parked, shows, acks, moves>>

(* isDrawn: a card keeps its number while it is parked, so the number does *)
(* not say that it is in front.                                            *)
IndexOf(t) ==
  LET cards == IF t[1] = drawn.of THEN drawn.cards ELSE (CHOOSE p \in Range(parked) : p.of = t[1]).cards
  IN CHOOSE i \in DOMAIN cards : cards[i] = t[2]
(* Mutant of InFront: only the number is looked at.                        *)
InFrontByNumber(t) ==
  active # 0 /\ active = drawn.of /\ tabs[active].focus = IndexOf(t) /\ front /\ grid = "shown"
InFront(t) ==
  /\ active # 0 /\ active = drawn.of /\ t[1] = drawn.of /\ tabs[active].focus = IndexOf(t)
  /\ front /\ grid = "shown"
(* onAttention, and onInfo of a session that rings or does not.            *)
Hears(t) ==
  /\ wire[t] # <<>> /\ wire' = [wire EXCEPT ![t] = Tail(@)]
  /\ LET s == t[2] IN
     IF Head(wire[t]) /\ InFront(t) THEN ackSeen(s)
     ELSE shows' = [shows EXCEPT ![s] = Head(wire[t])] /\ UNCHANGED acks
  /\ UNCHANGED <<tabs, active, grid, front, drawn, parked, bell, moves, rings>>
markSeen(s) ==
  /\ acks[s] > 0 /\ acks' = [acks EXCEPT ![s] = @ - 1] /\ bell' = [bell EXCEPT ![s] = FALSE]
  /\ UNCHANGED <<tabs, active, grid, front, drawn, parked, wire, shows, moves, rings>>
(* The list that is polled, for the sessions without a terminal too.       *)
Polls ==
  /\ shows # bell /\ shows' = bell
  /\ UNCHANGED <<tabs, active, grid, front, drawn, parked, wire, bell, acks, moves, rings>>

InTabs == UNION {Range(tabs[t].at) : t \in DOMAIN tabs}
PanesNext ==
  \/ \E t \in DOMAIN tabs : setActiveView(t)
  \/ \E i \in {1, 2} : focusPane(i) \/ swapPanes(i)
  \/ \E s \in InTabs : extractSession(s) \/ removeSession(s)
  \/ \E s \in InTabs, t \in DOMAIN tabs : Len(tabs[t].at) = 1 /\ moveSessionToView(s, t)
  \/ Covers \/ refreshPaneArea \/ Blurs \/ Focuses \/ Polls
  \/ \E s \in Sessions : Rings(s) \/ markSeen(s)
  \/ \E t \in DOMAIN wire : Hears(t)

(* Messages and calls arrive, and the list is polled every few seconds.    *)
PanesFairness ==
  /\ WF_panesVars(\E t \in DOMAIN wire : Hears(t)) /\ WF_panesVars(Polls)
  /\ \A s \in Sessions : WF_panesVars(markSeen(s))
PanesSpec == PanesInit /\ [][PanesNext]_panesVars /\ PanesFairness

-----------------------------------------------------------------------------
(* A session is only called seen when its pane is the focused one of the   *)
(* tab in front, on a grid that is shown: parked cards go on hearing their *)
(* sockets, and their bells must survive (isDrawn).                        *)
AcksOnlyWhatIsInFront ==
  [][\A s \in Sessions : acks'[s] > acks[s] =>
       active' # 0 /\ grid' = "shown" /\ FocusedIn(tabs, active)' = s]_panesVars

(* The page never holds more terminals than the cap, or than the tab in    *)
(* front needs by itself.                                                  *)
TerminalsAreCapped ==
  Cardinality(DOMAIN wire) <= Max({Cap} \cup {Len(tabs[t].at) : t \in DOMAIN tabs})

(* A bell does not stay lit in front of the user: what the focused pane    *)
(* shows while the window has the focus goes out, and the backend hears of *)
(* it, unless the user looks elsewhere.                                    *)
Lit == active # 0 /\ grid = "shown" /\ front /\ shows[FocusedIn(tabs, active)]
BellsGoOut == Lit ~> ~Lit

(* A parked card is let go before its session is attached a second time    *)
(* (panes-park.ts): no session has two terminals.                          *)
AttachedOnce == \A t, u \in DOMAIN wire : t[2] = u[2] => t = u
=============================================================================
