------------------------------- MODULE Mascot -------------------------------
(***************************************************************************)
(* The peek mascots, from the sessions that wait for the user to the part  *)
(* of a Windows overlay that can be clicked: the page that polls and draws *)
(* (web/src/mascot/feed.ts, model.ts, view.ts, main.ts) and the window of  *)
(* the host that shows that page (launcher/host/*-overlay*.cs).            *)
(*                                                                         *)
(* The overlay is cut to the boxes the page reports, and is nothing at all *)
(* when the page has reported none: a box that is missing is a mascot      *)
(* nobody can see or click, one too many eats the clicks of whatever is    *)
(* under it.  A mascot that moves is given the whole stage.                *)
(***************************************************************************)
EXTENDS Naturals, Sequences, FiniteSets, SequencesExt

CONSTANTS Sessions,
          MaxCount,     \* mascots there is room for (model.ts MAX_COUNT)
          Hold, Period, \* ticks a rise has to hold, ticks between two polls
          ReloadCap,    \* reloads of a failing page (MaxOverlayReloads)
          MaxFlights,   \* bound: polls under way
          MaxChanges,   \* bound: what the sessions, the user and Windows do
          MaxFaults,    \* bound: polls that fail, restarts, crashes
          None

VARIABLES waiting,   \* the sessions that wait, the longest first
          wanted,    \* the preference
          feed,      \* MascotFeed: what it heard and what it shows
          held,      \* history: for each count, ticks the answers were at least that
          flights,   \* polls under way, in the order they were asked
          slots,     \* the drawn mascots: "moving" or "still"
          moods,     \* the slots that react to a click
          clicked,   \* sessions to be opened when a reaction is over
          page,      \* alive, token: current or not, rested: may it reload again
          last, wire, \* HostReporter: the last message, and those on their way
          host,      \* the overlay: at, boxes, used (reloads), capped, reloading
          front,     \* top: is it above the others, late: its second look
          changes, faults

mascotVars == <<waiting, wanted, feed, held, flights, slots, moods, clicked, page, last, wire,
                host, front, changes, faults>>
drawing == <<slots, moods, clicked, last, wire>>
polling == <<feed, held, flights>>
windows == <<host, front>>

Least(a, b) == IF a < b THEN a ELSE b
Counts == 1..MaxCount
Idle == [ids |-> <<>>, shown |-> 0, on |-> TRUE, rise |-> None, again |-> None, next |-> 0, fails |-> 0]

MascotTypeOK ==
  /\ Range(waiting) \subseteq Sessions /\ wanted \in BOOLEAN
  /\ feed.shown \in 0..MaxCount /\ feed.shown <= Len(feed.ids) /\ Len(slots) = feed.shown
  /\ Range(slots) \subseteq {"moving", "still"} /\ moods \subseteq 1..feed.shown
  /\ host.at \in {"creating", "live", "gone"} /\ host.used \in 0..ReloadCap

MascotInit ==
  /\ waiting = <<>> /\ wanted = TRUE
  /\ feed = Idle /\ held = [n \in Counts |-> None] /\ flights = <<>>
  /\ slots = <<>> /\ moods = {} /\ clicked = {}
  /\ page = [alive |-> FALSE, current |-> TRUE, rested |-> TRUE]
  /\ last = None /\ wire = <<>>
  /\ host = [at |-> "creating", boxes |-> <<>>, used |-> 0, capped |-> FALSE, reloading |-> FALSE]
  /\ front = [top |-> TRUE, late |-> FALSE]
  /\ changes = 0 /\ faults = 0

Change == changes < MaxChanges /\ changes' = changes + 1 /\ UNCHANGED faults
Fault == faults < MaxFaults /\ faults' = faults + 1 /\ UNCHANGED changes
NoEvent == UNCHANGED <<changes, faults>>

-----------------------------------------------------------------------------
(* The page draws, and tells the host when that is not what it told last.  *)
Says(boxes) == [boxes |-> boxes, open |-> None]
report(boxes, queue) ==
  /\ last' = boxes
  /\ wire' = IF last = boxes THEN queue ELSE Append(queue, Says(boxes))

(* setCount and render: with the last place taken the others are posed     *)
(* anew, and again when it is left.                                        *)
Drawn(count) ==
  [i \in 1..count |-> IF i > Len(slots) \/ (i < MaxCount /\ (count = MaxCount) # (Len(slots) = MaxCount))
                      THEN "moving" ELSE slots[i]]
setCount(count) ==
  IF count = Len(slots) THEN UNCHANGED drawing
  ELSE /\ slots' = Drawn(count) /\ moods' = moods \cap (1..count)
       /\ report(slots', wire) /\ UNCHANGED clicked

(* The end of an animation: watchMotion reports once more.                 *)
(* Mutant of MotionEnds: the box is left as it was reported.                  *)
MotionEndsQuietly(i) ==
  /\ page.alive /\ i \in DOMAIN slots /\ slots[i] = "moving"
  /\ slots' = [slots EXCEPT ![i] = "still"] /\ UNCHANGED <<last, wire>>
  /\ UNCHANGED <<waiting, wanted, polling, moods, clicked, page, windows>> /\ NoEvent
MotionEnds(i) ==
  /\ page.alive /\ i \in DOMAIN slots /\ slots[i] = "moving"
  /\ slots' = [slots EXCEPT ![i] = "still"] /\ report(slots', wire)
  /\ UNCHANGED <<waiting, wanted, polling, moods, clicked, page, windows>> /\ NoEvent

-----------------------------------------------------------------------------
(* MascotFeed: f after an answer.                                          *)
target(on, ids) == IF on THEN Least(MaxCount, Len(ids)) ELSE 0
Rising(f, n) == [f EXCEPT !.rise = [age |-> 0, min |-> n], !.again = Hold]
Level(f, n) == [f EXCEPT !.rise = None, !.again = None, !.shown = n]
(* Mutant of Lowest: what a rise began with.                               *)
LowestAtFirst(f, n) == f.rise.min
Lowest(f, n) == Least(f.rise.min, n)
observe(f, ids) ==
  LET g == [f EXCEPT !.ids = ids]
      n == target(f.on, ids) IN
  CASE n <= f.shown -> Level(g, n)
    [] n > f.shown /\ f.rise = None -> Rising(g, n)
    [] n > f.shown /\ f.rise # None /\ f.rise.age < Hold -> [g EXCEPT !.rise.min = Lowest(f, n)]
    [] OTHER -> LET h == Level(g, Lowest(f, n)) IN IF n > h.shown THEN Rising(h, n) ELSE h
Sees(f, ids) ==
  /\ feed' = observe(f, ids)
  /\ held' = [n \in Counts |-> IF target(f.on, ids) < n THEN None ELSE IF held[n] = None THEN 0 ELSE held[n]]
  /\ setCount(feed'.shown)

Ask == Append(flights, [answer |-> None, ids |-> <<>>, on |-> TRUE, late |-> FALSE])
Polls ==
  /\ page.alive /\ Len(flights) < MaxFlights
  /\ \/ feed.next = 0 /\ feed' = [feed EXCEPT !.next = Period]
     \/ feed.again = 0 /\ feed' = [feed EXCEPT !.again = None]
  /\ flights' = Ask
  /\ UNCHANGED <<waiting, wanted, held, drawing, page, windows>> /\ NoEvent
Serves ==
  /\ \E i \in DOMAIN flights :
       /\ flights[i].answer = None
       /\ \/ /\ flights' = [flights EXCEPT ![i].answer = IF page.current THEN "ok" ELSE "401",
                                           ![i].ids = waiting, ![i].on = wanted]
             /\ NoEvent
          \/ flights' = [flights EXCEPT ![i].answer = "error"] /\ Fault
  /\ UNCHANGED <<waiting, wanted, feed, held, drawing, page, windows>>

(* Answers count in the order they were asked; a page whose token is of    *)
(* another run loads itself again, though not twice in half a minute.      *)
Later(i) == [j \in DOMAIN flights |-> IF j < i THEN [flights[j] EXCEPT !.late = TRUE] ELSE flights[j]]
Failed == [feed EXCEPT !.fails = Least(@ + 1, 2)]
Answered ==
  \E i \in DOMAIN flights :
    LET f == flights[i]
        others == RemoveAt(Later(i), i) IN
    /\ page.alive /\ f.answer # None
    /\ \/ /\ f.late /\ flights' = RemoveAt(flights, i) /\ UNCHANGED <<feed, held, drawing, page>>
       \/ /\ ~f.late /\ f.answer = "ok" /\ flights' = others
          /\ Sees([feed EXCEPT !.on = f.on, !.fails = 0], f.ids) /\ UNCHANGED page
       \/ /\ ~f.late /\ (f.answer = "error" \/ (f.answer = "401" /\ ~page.rested)) /\ flights' = others
          /\ IF feed.fails = 0 THEN feed' = Failed /\ UNCHANGED <<held, drawing>> ELSE Sees(Failed, <<>>)
          /\ UNCHANGED page
    /\ UNCHANGED <<waiting, wanted, windows>> /\ NoEvent

(* mount(): nothing drawn, and the host told so.                           *)
Mounts(queue, rested) ==
  /\ feed' = Idle /\ held' = [n \in Counts |-> None] /\ flights' = <<>>
  /\ slots' = <<>> /\ moods' = {} /\ clicked' = {}
  /\ page' = [alive |-> TRUE, current |-> TRUE, rested |-> rested]
  /\ last' = <<>> /\ wire' = Append(queue, Says(<<>>))
reloadForToken ==
  /\ page.alive /\ page.rested
  /\ \E i \in DOMAIN flights : flights[i].answer = "401" /\ ~flights[i].late
  /\ Mounts(wire, FALSE) /\ UNCHANGED <<waiting, wanted, windows>> /\ NoEvent
Rests ==
  /\ ~page.rested /\ page' = [page EXCEPT !.rested = TRUE]
  /\ UNCHANGED <<waiting, wanted, polling, drawing, windows>> /\ NoEvent

(* A tick of half a second or so.  Timers that are due go first.           *)
Down(n) == IF n = None THEN None ELSE n - 1
Older(rise) == IF rise = None THEN None ELSE [rise EXCEPT !.age = Least(rise.age + 1, Hold)]
Tick ==
  /\ page.alive /\ feed.next # 0 /\ feed.again # 0
  /\ feed' = [feed EXCEPT !.next = Down(@), !.again = Down(@), !.rise = Older(@)]
  /\ held' = [n \in Counts |-> IF held[n] = None THEN None ELSE Least(held[n] + 1, Hold)]
  /\ UNCHANGED <<waiting, wanted, flights, drawing, page, windows>> /\ NoEvent

-----------------------------------------------------------------------------
(* A click on a mascot: it reacts, and its session is opened afterwards.   *)
poke(i) ==
  /\ page.alive /\ i \in 1..feed.shown /\ i <= Len(host.boxes) /\ i \notin moods /\ Change
  /\ moods' = moods \cup {i} /\ clicked' = clicked \cup {feed.ids[i]}
  /\ UNCHANGED <<waiting, wanted, polling, slots, page, last, wire, windows>>
MoodEnds(i) ==
  /\ page.alive /\ i \in moods /\ moods' = moods \ {i}
  /\ UNCHANGED <<waiting, wanted, polling, slots, clicked, page, last, wire, windows>> /\ NoEvent
OpensSession(s) ==
  /\ page.alive /\ s \in clicked /\ clicked' = clicked \ {s}
  /\ wire' = Append(wire, [boxes |-> <<>>, open |-> s])
  /\ UNCHANGED <<waiting, wanted, polling, slots, moods, page, last, windows>> /\ NoEvent

-----------------------------------------------------------------------------
(* The host.  The browser of the overlay is made after its window.         *)
ControllerCreated ==
  /\ host.at = "creating" /\ host' = [host EXCEPT !.at = "live"]
  /\ Mounts(wire, TRUE) /\ UNCHANGED <<waiting, wanted, front>> /\ NoEvent
Dispose ==
  /\ host' = [host EXCEPT !.at = "gone", !.boxes = <<>>, !.reloading = FALSE]
  /\ page' = [page EXCEPT !.alive = FALSE] /\ front' = [front EXCEPT !.late = FALSE]
(* The window is closed, its browser could not be made, or a mouse message *)
(* could not be handed to it.                                              *)
Gone ==
  /\ host.at # "gone" /\ Fault /\ Dispose
  /\ UNCHANGED <<waiting, wanted, polling, drawing>>

(* ShowMascotRects: placed, raised, and cut to the boxes.  A message that  *)
(* opens a session brings the other window of the app to the front.        *)
ForegroundChanges(f) ==
  IF host.boxes = <<>> \/ host.at = "gone" THEN [f EXCEPT !.top = FALSE] ELSE [top |-> TRUE, late |-> TRUE]
Receives ==
  /\ host.at = "live" /\ wire # <<>> /\ wire' = Tail(wire)
  /\ LET m == Head(wire) IN
     \/ /\ m.open = None /\ host' = [host EXCEPT !.boxes = m.boxes]
        /\ front' = IF m.boxes = <<>> THEN front ELSE [front EXCEPT !.top = TRUE]
     \/ m.open # None /\ front' = ForegroundChanges(front) /\ UNCHANGED host
  /\ UNCHANGED <<waiting, wanted, polling, slots, moods, clicked, page, last>> /\ NoEvent

(* Another window comes to the front, the taskbar or the start menu among  *)
(* them, and may put itself above the rest a moment later.                 *)
Foreground ==
  /\ host.at = "live" /\ Change /\ front' = ForegroundChanges(front)
  /\ UNCHANGED <<waiting, wanted, polling, drawing, page, host>>
Covers ==
  /\ front.late /\ front.top /\ front' = [front EXCEPT !.top = FALSE]
  /\ UNCHANGED <<waiting, wanted, polling, drawing, page, host>> /\ NoEvent
LateRaise ==
  /\ front.late /\ front' = [top |-> front.top \/ host.boxes # <<>>, late |-> FALSE]
  /\ UNCHANGED <<waiting, wanted, polling, drawing, page, host>> /\ NoEvent

(* ProcessFailed: hidden at once, and loaded again unless the browser      *)
(* itself is gone or the page failed too often.                            *)
ProcessFailed(kind) ==
  /\ host.at = "live" /\ page.alive /\ Fault
  /\ host' = [host EXCEPT !.boxes = <<>>,
                          !.used = IF kind # "browser" /\ @ < ReloadCap THEN @ + 1 ELSE @,
                          !.reloading = @ \/ (kind # "browser" /\ host.used < ReloadCap),
                          !.capped = IF kind = "browser" THEN @ ELSE host.used = ReloadCap]
  /\ page' = [page EXCEPT !.alive = kind = "hang"]
  /\ wire' = IF kind = "hang" THEN wire ELSE <<>>
  /\ UNCHANGED <<waiting, wanted, polling, slots, moods, clicked, last, front>>
ReloadOverlay ==
  /\ host.at = "live" /\ host.reloading /\ host' = [host EXCEPT !.reloading = FALSE]
  /\ Mounts(wire, page.rested) /\ UNCHANGED <<waiting, wanted, front>> /\ NoEvent

-----------------------------------------------------------------------------
(* Around it: the sessions, the preference, another run of the backend.    *)
Waits(s) ==
  /\ s \notin Range(waiting) /\ Change /\ waiting' = Append(waiting, s)
  /\ UNCHANGED <<wanted, polling, drawing, page, windows>>
Resumes(i) ==
  /\ i \in DOMAIN waiting /\ Change /\ waiting' = RemoveAt(waiting, i)
  /\ UNCHANGED <<wanted, polling, drawing, page, windows>>
Switches ==
  /\ Change /\ wanted' = ~wanted /\ UNCHANGED <<waiting, polling, drawing, page, windows>>
Restarts ==
  /\ page.alive /\ Fault /\ waiting' = <<>> /\ page' = [page EXCEPT !.current = FALSE]
  /\ UNCHANGED <<wanted, polling, drawing, windows>>

MascotGoesOn ==
  \/ Polls \/ Serves \/ Answered \/ reloadForToken \/ Rests \/ Tick
  \/ (\E i \in Counts : MotionEnds(i) \/ MoodEnds(i)) \/ (\E s \in Sessions : OpensSession(s))
  \/ ControllerCreated \/ Receives \/ LateRaise \/ ReloadOverlay
MascotNext ==
  \/ MascotGoesOn \/ Gone \/ Foreground \/ Covers
  \/ (\E k \in {"render", "hang", "browser"} : ProcessFailed(k))
  \/ (\E i \in Counts : poke(i) \/ Resumes(i)) \/ (\E s \in Sessions : Waits(s)) \/ Switches \/ Restarts

(* Timers fire, requests are answered, animations end and messages arrive. *)
MascotFairness ==
  /\ WF_mascotVars(Polls) /\ WF_mascotVars(Serves) /\ WF_mascotVars(Answered)
  /\ WF_mascotVars(reloadForToken) /\ WF_mascotVars(Rests) /\ WF_mascotVars(Tick)
  /\ \A i \in Counts : WF_mascotVars(MotionEnds(i))
  /\ WF_mascotVars(ControllerCreated) /\ WF_mascotVars(Receives)
  /\ WF_mascotVars(LateRaise) /\ WF_mascotVars(ReloadOverlay)
MascotSpec == MascotInit /\ [][MascotNext]_mascotVars /\ MascotFairness

-----------------------------------------------------------------------------
(* A mascot more is only drawn when every answer of the last second and a  *)
(* half asked for it (feed.ts: a turn that ends and at once starts again   *)
(* never flashes a mascot).                                                *)
HeldBeforeShown == [][feed'.shown > feed.shown => held'[feed'.shown] = Hold]_mascotVars

(* Once things are quiet the overlay shows, and lets the user click, one   *)
(* mascot that stands still for each session that waits, above the other   *)
(* windows -- unless its page or its window is gone for good.              *)
Still == [i \in 1..target(wanted, waiting) |-> "still"]
ShowsWhoWaits ==
  \/ host.at = "gone" \/ host.capped \/ ~page.alive
  \/ host.boxes = Still /\ (host.boxes # <<>> => front.top)
OverlayShowsWhoWaits == <>[]ShowsWhoWaits
=============================================================================
