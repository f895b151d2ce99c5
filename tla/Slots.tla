------------------------------- MODULE Slots -------------------------------
(***************************************************************************)
(* The panes of one view (web/src/state-views.ts): up to four slots, read  *)
(* in columns and rows, and l3, which side the full-height pane of a view  *)
(* of three is on. Places count from 1. A slot is a record with an id, its *)
(* slotKey; what else it holds does not matter here.                       *)
(***************************************************************************)
EXTENDS Integers, Sequences, FiniteSets, SequencesExt

MAX_PANES == 4
Zones == {"left", "right", "top", "bottom", "fill"}

Clamp(low, n, high) == IF n > high THEN IF high < low THEN low ELSE high ELSE IF n < low THEN low ELSE n

(* The place of a key in a view, 0 when it is not there.                   *)
IndexOfSlot(v, key) == SelectInSeq(v.slots, LAMBDA s : s.id = key)

(* The zones a drop of count slots may take over the slot; none where the  *)
(* grid has no room.                                                       *)
DropZonesFor(v, slot, count) ==
  LET n == Len(v.slots) IN
  IF n = 0 \/ n + count > MAX_PANES THEN {}
  ELSE IF count > 1 THEN {"fill"}
  ELSE IF n = 1 THEN {"left", "right"}
  ELSE IF n = 2 \/ slot = (IF v.l3 = "L" THEN 1 ELSE 3) THEN {"top", "bottom"} ELSE {}

(* Where the grid puts the items: appended, or one item beside the slot.   *)
Arrange(v, slot, zone, items) ==
  LET s == v.slots
      n == Len(s)
      x == items[1]
      top == zone = "top" IN
  IF n = 0 \/ Len(items) > 1 \/ zone = "fill" \/ n + Len(items) > MAX_PANES
  THEN [v EXCEPT !.slots = SubSeq(s \o items, 1, Clamp(0, n + Len(items), MAX_PANES))]
  ELSE IF n = 1 THEN [v EXCEPT !.slots = IF zone = "left" THEN <<x, s[1]>> ELSE <<s[1], x>>]
  ELSE IF n = 2 /\ slot = 1
  THEN [v EXCEPT !.l3 = "R", !.slots = IF top THEN <<x, s[1], s[2]>> ELSE <<s[1], x, s[2]>>]
  ELSE IF n = 2
  THEN [v EXCEPT !.l3 = "L", !.slots = IF top THEN <<s[1], x, s[2]>> ELSE <<s[1], s[2], x>>]
  ELSE IF v.l3 = "L"
  THEN [v EXCEPT !.slots = IF top THEN <<x, s[2], s[1], s[3]>> ELSE <<s[1], s[2], x, s[3]>>]
  ELSE [v EXCEPT !.slots = IF top THEN <<s[1], x, s[2], s[3]>> ELSE <<s[1], s[3], s[2], x>>]

InsertSlots(v, slot, zone, items) ==
  IF items = <<>> THEN v
  ELSE LET w == Arrange(v, slot, zone, items) IN
       [w EXCEPT !.focused = Clamp(1, IndexOfSlot(w, items[1].id), MAX_PANES)]

(* Mutant of Close: a view of four is closed up in reading order.          *)
CloseInOrder(v, slot) == [v EXCEPT !.slots = RemoveAt(v.slots, slot)]

(* A view of four closes up column by column: the neighbour of the pane    *)
(* that leaves gets the height of both.                                    *)
Close(v, slot) ==
  LET s == v.slots IN
  IF Len(s) # 4 THEN [v EXCEPT !.slots = RemoveAt(s, slot)]
  ELSE IF slot = 1 THEN [v EXCEPT !.l3 = "L", !.slots = <<s[3], s[2], s[4]>>]
  ELSE IF slot = 3 THEN [v EXCEPT !.l3 = "L", !.slots = <<s[1], s[2], s[4]>>]
  ELSE IF slot = 2 THEN [v EXCEPT !.l3 = "R", !.slots = <<s[1], s[3], s[4]>>]
  ELSE [v EXCEPT !.l3 = "R", !.slots = <<s[1], s[3], s[2]>>]

(* The focus stays on its slot, and goes to the place of the one that left *)
(* when that had it.                                                       *)
RemoveAtSlot(v, slot) ==
  LET w == Close(v, slot)
      keep == IF v.focused \in DOMAIN v.slots THEN IndexOfSlot(w, v.slots[v.focused].id) ELSE 0 IN
  [w EXCEPT !.focused = IF keep > 0 THEN keep ELSE Clamp(1, slot, Len(w.slots))]

(* A drop can be undone: closing the pane that a drop made gives the view  *)
(* back the panes it had, each in the place it had                         *)
(* (insertSlots and removeAtSlot, state-views.ts:52-114, are written case  *)
(* by case and apart from one another).                                    *)
DropUndone(v, x) ==
  \A slot \in DOMAIN v.slots : \A zone \in DropZonesFor(v, slot, 1) :
    LET w == Arrange(v, slot, zone, <<x>>) IN
    \A i \in DOMAIN w.slots : w.slots[i] = x =>
      LET u == Close(w, i) IN
      /\ u.slots = v.slots
      /\ Len(v.slots) = 3 => u.l3 = v.l3
=============================================================================
