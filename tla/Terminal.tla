------------------------------ MODULE Terminal ------------------------------
(***************************************************************************)
(* How wide a program believes its terminal to be: one terminal of a page  *)
(* (web/src/ui/terminal.ts, font-ready.ts), the socket to its session, and *)
(* the size the backend gives the program (server/ws.ts, sessions.ts).     *)
(*                                                                         *)
(* The terminal fits its box after a pause, or when its font arrives late; *)
(* it says nothing while its tab is parked, and what it says is lost while *)
(* its socket is down.  Other windows may size the same program.           *)
(***************************************************************************)
EXTENDS Naturals, Sequences

CONSTANTS Sizes, None,
          Alone,      \* no other window shows the session
          MaxEvents   \* bound: what the user, the network and others do

VARIABLES place,   \* "grid", "covered" by another screen, "parked", or "none"
          room,    \* the columns there is room for, when it is in the grid
          view,    \* cols, pty (as last heard), shown, due (a show is due), later (a fit is)
          sock,    \* is the socket up
          up, down, \* resizes on their way to the backend, infos on their way back
          program, \* its columns, or None: it has ended
          events

termVars == <<place, room, view, sock, up, down, program, events>>

TerminalTypeOK ==
  /\ place \in {"grid", "covered", "parked", "none"} /\ room \in Sizes
  /\ view.cols \in Sizes /\ view.pty \in Sizes \cup {None}
  /\ up \in Seq(Sizes) /\ program \in Sizes \cup {None}

Fresh == [cols |-> room, pty |-> None, shown |-> TRUE, due |-> FALSE, later |-> TRUE]
TerminalInit ==
  /\ place = "none" /\ room \in Sizes /\ view = Fresh /\ sock = FALSE
  /\ up = <<>> /\ down = <<>> /\ program \in Sizes /\ events = 0

Event == events < MaxEvents /\ events' = events + 1
NoEvent == UNCHANGED events

-----------------------------------------------------------------------------
(* The terminal says its size; nothing is kept for a socket that is down.  *)
sendResize(v) ==
  /\ view' = [v EXCEPT !.pty = v.cols]
  /\ up' = IF sock THEN Append(up, v.cols) ELSE up
Keeps(v) == view' = v /\ UNCHANGED up

(* fitNow: only in a box that is on screen.                                *)
Fits(v) == v.shown /\ place = "grid" /\ v.cols # room
fitNow(v) == IF Fits(v) THEN sendResize([v EXCEPT !.cols = room]) ELSE Keeps(v)
Differs(v) == v.pty # None /\ v.pty # v.cols
(* Mutant of reconcile: only a fit says anything.                          *)
reconcileNot(v) == Keeps(v)
reconcile(v) == IF Differs(v) THEN sendResize(v) ELSE Keeps(v)
fitShown(v) ==
  LET w == [v EXCEPT !.shown = TRUE, !.due = FALSE] IN IF Fits(w) THEN fitNow(w) ELSE reconcile(w)

Attaches ==
  /\ place = "none" /\ place' = "grid" /\ view' = Fresh /\ sock' = FALSE
  /\ UNCHANGED <<room, up, down, program>> /\ NoEvent
FitTimer ==
  /\ view.later /\ fitNow([view EXCEPT !.later = FALSE])
  /\ UNCHANGED <<place, room, sock, down, program>> /\ NoEvent
(* A resized window is fitted after a pause (scheduleFit).                 *)
Resizes(n) ==
  /\ n # room /\ Event /\ room' = n
  /\ Keeps([view EXCEPT !.later = @ \/ place = "grid"])
  /\ UNCHANGED <<place, sock, down, program>>
reloadFont(n) ==
  IF view.shown /\ place = "grid" /\ view.cols # n THEN sendResize([view EXCEPT !.cols = n]) ELSE Keeps(view)
(* watchFontArrival: the font came too late for the first fit.             *)
FontArrives(n) ==
  /\ n # room /\ Event /\ room' = n /\ reloadFont(n)
  /\ UNCHANGED <<place, sock, down, program>>

(* The tab is left: hide() stops the clock, and the box that is gone sets  *)
(* it once more.  Coming back, the fit waits until the box is drawn.       *)
hide ==
  /\ place = "grid" /\ Event /\ place' = "parked"
  /\ Keeps([view EXCEPT !.shown = FALSE, !.due = FALSE, !.later = TRUE])
  /\ UNCHANGED <<room, sock, down, program>>
(* Mutant of show: the box that is drawn is all it waits for.              *)
showQuietly ==
  /\ place = "parked" /\ place' = "grid" /\ Keeps([view EXCEPT !.later = FALSE])
  /\ UNCHANGED <<room, sock, down, program>> /\ NoEvent
show ==
  /\ place = "parked" /\ place' = "grid" /\ Keeps([view EXCEPT !.due = TRUE, !.later = TRUE])
  /\ UNCHANGED <<room, sock, down, program>> /\ NoEvent
handleVisibility ==
  /\ view.due /\ place = "grid" /\ fitShown(view)
  /\ UNCHANGED <<place, room, sock, down, program>> /\ NoEvent
Covers ==
  /\ place = "grid" /\ Event /\ place' = "covered" /\ Keeps([view EXCEPT !.later = TRUE])
  /\ UNCHANGED <<room, sock, down, program>>
Uncovers ==
  /\ place = "covered" /\ place' = "grid" /\ Keeps([view EXCEPT !.later = TRUE])
  /\ UNCHANGED <<room, sock, down, program>> /\ NoEvent
(* Too many terminals: a parked one is let go, and attaches anew.          *)
dispose ==
  /\ place = "parked" /\ place' = "none" /\ Event /\ view' = Fresh /\ sock' = FALSE /\ up' = <<>> /\ down' = <<>>
  /\ UNCHANGED <<room, program>>

onInfo ==
  /\ down # <<>> /\ down' = Tail(down)
  /\ LET v == [view EXCEPT !.pty = Head(down)] IN IF v.shown THEN reconcile(v) ELSE Keeps(v)
  /\ UNCHANGED <<place, room, sock, program>> /\ NoEvent

-----------------------------------------------------------------------------
(* The socket and the backend: a client that attaches is sent the info,    *)
(* and again with any news; a resize is news to nobody.                    *)
Connects ==
  /\ place # "none" /\ ~sock /\ sock' = TRUE /\ down' = <<program>> /\ up' = <<>>
  /\ UNCHANGED <<place, room, view, program>> /\ NoEvent
Drops ==
  /\ sock /\ Event /\ sock' = FALSE /\ up' = <<>> /\ down' = <<>>
  /\ UNCHANGED <<place, room, view, program>>
ResizesProgram ==
  /\ up # <<>> /\ up' = Tail(up) /\ program' = IF program = None THEN None ELSE Head(up)
  /\ UNCHANGED <<place, room, view, sock, down>> /\ NoEvent
News ==
  /\ sock /\ Event /\ down' = Append(down, program)
  /\ UNCHANGED <<place, room, view, sock, up, program>>
Ends ==
  /\ program # None /\ Event /\ program' = None /\ down' = IF sock THEN Append(down, None) ELSE down
  /\ UNCHANGED <<place, room, view, sock, up>>
OtherWindow(n) ==
  /\ ~Alone /\ program \notin {None, n} /\ Event /\ program' = n
  /\ UNCHANGED <<place, room, view, sock, up, down>>

TerminalNext ==
  \/ Attaches \/ FitTimer \/ hide \/ show \/ handleVisibility \/ Covers \/ Uncovers \/ dispose \/ onInfo
  \/ (\E n \in Sizes : Resizes(n) \/ FontArrives(n) \/ OtherWindow(n))
  \/ Connects \/ Drops \/ ResizesProgram \/ News \/ Ends

(* Timers fire, boxes are drawn, sockets come back, messages arrive.       *)
TerminalFairness ==
  /\ WF_termVars(Attaches) /\ WF_termVars(FitTimer) /\ WF_termVars(handleVisibility) /\ WF_termVars(onInfo)
  /\ WF_termVars(Connects) /\ WF_termVars(ResizesProgram)
TerminalSpec == TerminalInit /\ [][TerminalNext]_termVars /\ TerminalFairness

-----------------------------------------------------------------------------
(* Once things are quiet, a program whose terminal is on screen has the    *)
(* columns there is room for: a resize is neither lost with the socket nor *)
(* with a tab that was away, and no late word of the backend undoes it     *)
(* ("Missing this renders TUIs as garbage").                               *)
AllFits == place = "grid" /\ program # None => program = room /\ view.cols = room
ProgramsFit == <>[]AllFits

(* A tab that is shown again settles with the size another client set      *)
(* meanwhile (show() in terminal.ts).  It compares with the last info, and *)
(* a resize is news to nobody: with other windows this does not hold.      *)
ReturnsFit ==
  [][view.due /\ ~view'.due /\ place' = "grid" /\ sock' /\ up = <<>> /\ down = <<>> =>
       program \in {None, view'.cols} \/ up' # <<>>]_termVars
=============================================================================
