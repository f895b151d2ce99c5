----------------------------- MODULE MCScreens -----------------------------
(***************************************************************************)
(* The page and what keeps it in step with the backend: its sockets and    *)
(* the recovery from a backend that went, the terminals of the tabs and    *)
(* the one terminal in them, the settings, and the mascots on the overlay. *)
(* The five share no variable here, so a behaviour is one of them at work  *)
(* and the others at rest.                                                 *)
(***************************************************************************)
EXTENDS Integers, Sequences, FiniteSets, TLC

CONSTANTS None,
          Open, MaxBreaks, MaxGestures,
          Sessions, Cap, Covered, MaxMoves, MaxRings,
          Sizes, Alone, MaxEvents,
          Items, Fifo, MaxWishes, MaxRefusals, MaxReloads,
          Waiting, MaxCount, Hold, Period, ReloadCap, MaxFlights, MaxChanges, MaxFaults,
          MaxStir,     \* moves and rings of one behaviour
          MaxTrouble,  \* wishes, refusals and reloads of one behaviour
          MaxWork      \* changes and faults of one behaviour

VARIABLES
  backend, sessions, page, recovery, sock, presence, poll, flow, dialog, breaks, gestures,
  tabs, active, grid, front, drawn, parked, wire, bell, shows, acks, moves, rings,
  place, room, view, socket, up, down, program, events,
  bag, keyFile, controls, panel, colours, keyRow, calls, wishes, refusals, reloads,
  waiting, wanted, feed, held, flights, slots, moods, clicked, overlay, last, posts, host, raised, changes, faults,
  atWork  \* the machine of this behaviour

Pages == INSTANCE Page WITH Panes <- Open
Tabs == INSTANCE Panes
Screen == INSTANCE Terminal WITH sock <- socket
Wishes == INSTANCE Settings WITH shows <- controls
Mascots == INSTANCE Mascot WITH Sessions <- Waiting, page <- overlay, wire <- posts, front <- raised

ASSUME ScreensAssumption ==
  /\ None \notin {"list", "absent", "401", "error"} \cup Nat /\ {MaxCount, Hold, Period} \subseteq Nat
  /\ "theme" \in DOMAIN Items /\ DOMAIN Items \cap {"open", "keys", "save", "remove"} = {}

MCItems == [theme |-> {"amber"}, tools |-> {"claude", "codex"}, statusLine |-> {"enabled"}, notice |-> {"v2"}]

pageVars == <<backend, sessions, page, recovery, sock, presence, poll, flow, dialog, breaks, gestures>>
panesVars == <<tabs, active, grid, front, drawn, parked, wire, bell, shows, acks, moves, rings>>
termVars == <<place, room, view, socket, up, down, program, events>>
settingsVars == <<bag, keyFile, controls, panel, colours, keyRow, calls, wishes, refusals, reloads>>
mascotVars == <<waiting, wanted, feed, held, flights, slots, moods, clicked, overlay, last, posts,
                host, raised, changes, faults>>
MCVars == <<pageVars, panesVars, termVars, settingsVars, mascotVars, atWork>>

MCInit ==
  /\ atWork \in {"page", "panes", "terminal", "settings", "mascots"}
  /\ Pages!PageInit /\ Tabs!PanesInit /\ Wishes!SettingsInit /\ Mascots!MascotInit
  /\ Screen!TerminalInit /\ (atWork # "terminal" => \A n \in Sizes : room <= n /\ program <= n)

MCNext ==
  /\ UNCHANGED atWork
  /\ \/ /\ atWork = "page" /\ Pages!PageNext
        /\ UNCHANGED <<panesVars, termVars, settingsVars, mascotVars>>
     \/ /\ atWork = "panes" /\ Tabs!PanesNext /\ moves' + rings' <= MaxStir
        /\ UNCHANGED <<pageVars, termVars, settingsVars, mascotVars>>
     \/ /\ atWork = "terminal" /\ Screen!TerminalNext
        /\ UNCHANGED <<pageVars, panesVars, settingsVars, mascotVars>>
     \/ /\ atWork = "settings" /\ Wishes!SettingsNext /\ wishes' + refusals' + reloads' <= MaxTrouble
        /\ UNCHANGED <<pageVars, panesVars, termVars, mascotVars>>
     \/ /\ atWork = "mascots" /\ Mascots!MascotNext /\ changes' + faults' <= MaxWork
        /\ UNCHANGED <<pageVars, panesVars, termVars, settingsVars>>

(* The fairness of each machine, asked of it when it is at work.           *)
On(machine, action) == atWork = machine /\ action
OnPage(action) == On("page", Pages!Runs /\ action)
MCSpec ==
  /\ MCInit /\ [][MCNext]_MCVars
  /\ \A s \in Open : WF_pageVars(OnPage(Pages!SockNext(s)))
  /\ WF_pageVars(OnPage(Pages!Presence)) /\ WF_pageVars(OnPage(Pages!Polls))
  /\ WF_pageVars(OnPage(Pages!PollServed)) /\ WF_pageVars(OnPage(Pages!PollReturns))
  /\ WF_pageVars(OnPage(Pages!Recovers)) /\ WF_pageVars(OnPage(Pages!UpdateSettles))
  /\ WF_pageVars(OnPage(Pages!RestartServed)) /\ WF_pageVars(OnPage(Pages!RestartReturns))
  /\ WF_pageVars(OnPage(Pages!HealthAnswers)) /\ WF_pageVars(OnPage(Pages!Navigates))
  /\ WF_panesVars(On("panes", \E t \in DOMAIN wire : Tabs!Hears(t))) /\ WF_panesVars(On("panes", Tabs!Polls))
  /\ \A s \in Sessions : WF_panesVars(On("panes", Tabs!markSeen(s)))
  /\ WF_termVars(On("terminal", Screen!Attaches)) /\ WF_termVars(On("terminal", Screen!FitTimer))
  /\ WF_termVars(On("terminal", Screen!handleVisibility)) /\ WF_termVars(On("terminal", Screen!onInfo))
  /\ WF_termVars(On("terminal", Screen!Connects)) /\ WF_termVars(On("terminal", Screen!ResizesProgram))
  /\ WF_settingsVars(On("settings", Wishes!HandRests)) /\ WF_settingsVars(On("settings", Wishes!Serves))
  /\ WF_settingsVars(On("settings", Wishes!Delivers))
  /\ WF_mascotVars(On("mascots", Mascots!Polls)) /\ WF_mascotVars(On("mascots", Mascots!Serves))
  /\ WF_mascotVars(On("mascots", Mascots!Answered)) /\ WF_mascotVars(On("mascots", Mascots!reloadForToken))
  /\ WF_mascotVars(On("mascots", Mascots!Rests)) /\ WF_mascotVars(On("mascots", Mascots!Tick))
  /\ \A i \in 1..MaxCount : WF_mascotVars(On("mascots", Mascots!MotionEnds(i)))
  /\ WF_mascotVars(On("mascots", Mascots!ControllerCreated)) /\ WF_mascotVars(On("mascots", Mascots!Receives))
  /\ WF_mascotVars(On("mascots", Mascots!LateRaise)) /\ WF_mascotVars(On("mascots", Mascots!ReloadOverlay))
-----------------------------------------------------------------------------
TypesOK ==
  /\ Pages!PageTypeOK /\ Tabs!PanesTypeOK /\ Screen!TerminalTypeOK
  /\ Wishes!SettingsTypeOK /\ Mascots!MascotTypeOK

(* A pane is given up only when its session or the whole page is, and what *)
(* an update or a restart ends with gets a screen.                         *)
NothingEndsQuietly == Pages!GivenUpForGood /\ Pages!OutcomeIsShown

(* However tabs are moved the page holds no more terminals than it may,    *)
(* and only the session in front of the user is called seen.               *)
OnlyTheFrontIsSeen == []Tabs!TerminalsAreCapped /\ Tabs!AcksOnlyWhatIsInFront

(* Writes of settings keep what the app does not know, and the last pair   *)
(* of colours is the last to land.                                         *)
WritesAreSafe == Wishes!StrangersSurvive /\ Wishes!OneColourWrite

(* No mascot is drawn for a session that waits for a moment only.          *)
HeldBeforeShown == Mascots!HeldBeforeShown

(* Once the user and the network rest, the page settles: its panes are     *)
(* attached or it says that it is of no use, no bell is lit in front of    *)
(* the user, the program has the width of its pane, the pair that was      *)
(* picked is sent, and the overlay shows the sessions that wait.           *)
Settled ==
  CASE atWork = "page" -> Pages!Attached /\ ~Pages!Pretends
    [] atWork = "panes" -> ~Tabs!Lit
    [] atWork = "terminal" -> Screen!AllFits
    [] atWork = "settings" -> colours.pending = None
    [] OTHER -> Mascots!ShowsWhoWaits
PageSettles == Pages!Rests => <>[]Settled
=============================================================================
