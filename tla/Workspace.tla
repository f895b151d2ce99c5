----------------------------- MODULE Workspace -----------------------------
(***************************************************************************)
(* The browser's store of tabs ("views"), panes ("slots") and files        *)
(* (web/src/state-*.ts), with those who change it: the user's gestures,    *)
(* the answers of requests sent earlier, the session poll, the question    *)
(* before unsaved text is dropped (ui/unsaved.ts) and the reload from      *)
(* localStorage. Views and slots carry ids that are in use by nothing      *)
(* else; places count from 1.                                              *)
(***************************************************************************)
EXTENDS Slots

CONSTANTS Sessions,    \* ids the backend gives, each once
          Files,       \* paths
          Diffs,       \* commits' file changes, that a tab shows read-only
          Projects,    \* the folders that can have a tab
          MaxTabs,     \* MAX_TABS
          MaxViews,    \* MAX_VIEWS
          Bags,        \* what an earlier window of the run may have stored
          MaxGestures, \* bound: what the user does
          None

VARIABLES
  views, activeViewId,  \* as in state-core.ts
  known,     \* the keys of state.sessions
  edits,     \* the keys of state.edits
  stored,    \* what localStorage holds
  startedAt, \* state.serverStartedAt
  run,       \* the run of the backend
  server,    \* the sessions the backend lists
  fresh,     \* ids not given yet
  call,      \* the request under way, None
  poll,      \* the list the backend answered the poll with, None
  asked,     \* the question that is up, None
  gestures

backend == <<run, server, fresh>>
vars == <<views, activeViewId, known, edits, stored, startedAt, run, server, fresh, call, poll, asked, gestures>>

Home == "home"
Roots == {None, Home} \cup Projects

SessionSlot(s) == [id |-> s, tabs |-> <<>>, active |-> 0]
Strip(s) ==
  /\ s.tabs # <<>> /\ Len(s.tabs) <= MaxTabs /\ s.active \in 1..Len(s.tabs)
  /\ \A i, j \in 1..Len(s.tabs) : s.tabs[i] = s.tabs[j] => i = j

(* What a window of the program can have stored: Home first if anything,   *)
(* every session in one place, and editors without their ids.              *)
Stored(S) == [id : Nat, root : Roots, slots : Seq(S), focused : Nat, l3 : {"L", "R"}]
StoredSlots == [id : Sessions \cup {None}, tabs : Seq(Files \cup Diffs), active : Nat]
Restorable(bag) ==
  /\ bag.views \in Seq(Stored(StoredSlots)) /\ bag.active \in Nat
  /\ \A i \in 1..Len(bag.views) :
       LET v == bag.views[i] IN
       /\ v.root = Home <=> i = 1
       /\ Len(v.slots) <= MAX_PANES /\ v.focused \in 1..Clamp(1, Len(v.slots), MAX_PANES)
       /\ \A k \in 1..Len(v.slots) :
            IF v.slots[k].id = None THEN Strip(v.slots[k]) ELSE v.slots[k] = SessionSlot(v.slots[k].id)
  /\ \A i, j \in 1..Len(bag.views) : bag.views[i].id = bag.views[j].id => i = j
  /\ \A i, j \in 1..Len(bag.views) : \A k \in 1..Len(bag.views[i].slots) : \A l \in 1..Len(bag.views[j].slots) :
       bag.views[i].slots[k].id = bag.views[j].slots[l].id => (i = j /\ k = l) \/ bag.views[i].slots[k].id = None

ASSUME WorkspaceAssumption ==
  /\ Sessions \cap Nat = {} /\ None \notin Sessions \cup Nat /\ IsFiniteSet(Sessions)
  /\ Home \notin Projects /\ None \notin Projects \cup {Home}
  /\ MaxTabs \in Nat \ {0} /\ MaxViews \in Nat \ {0}
  /\ \A bag \in Bags : Restorable(bag)

IsEditor(s) == s.id \notin Sessions
SessionIds(v) == {s \in Sessions : IndexOfSlot(v, s) > 0}
Editors(v) == {i \in DOMAIN v.slots : IsEditor(v.slots[i])}

TypeOK ==
  /\ \A v \in ToSet(views) : v.root \in Roots /\ v.l3 \in {"L", "R"} /\ v.id \in Nat
  /\ known \subseteq Sessions /\ server \subseteq Sessions /\ fresh \subseteq Sessions
  /\ edits \subseteq Files /\ gestures \in 0..MaxGestures /\ run \in Nat

-----------------------------------------------------------------------------
(* A workspace w: its views, and which is shown.                           *)
w0 == [vs |-> views, active |-> activeViewId]
Ids(vs) == {vs[i].id : i \in DOMAIN vs}
At(w, id) == SelectInSeq(w.vs, LAMBDA v : v.id = id)
View(w, id) == w.vs[At(w, id)]
Has(w, id) == At(w, id) > 0
Put(w, v) == [w EXCEPT !.vs[At(w, v.id)] = v]
Activate(w, id) == [w EXCEPT !.active = id]
ViewsOfSession(w, s) == {v \in ToSet(w.vs) : IndexOfSlot(v, s) > 0}
ViewOfSession(w, s) == w.vs[SelectInSeq(w.vs, LAMBDA v : IndexOfSlot(v, s) > 0)]

Unused(S) == CHOOSE n \in 1..Cardinality(S) + 1 : n \notin S
Held == {r.view : r \in {call, asked} \ {None}}
NewView(w, root, slots) ==
  [id |-> Unused(Ids(w.vs) \cup Held), root |-> root, slots |-> slots, focused |-> 1, l3 |-> "L"]
NewEditorSlot(w, tab) ==
  [id |-> Unused({s.id : s \in UNION {ToSet(v.slots) : v \in ToSet(w.vs)}} \ Sessions),
   tabs |-> <<tab>>, active |-> 1]

DissolveView(w, id) ==
  IF ~Has(w, id) \/ View(w, id).root = Home THEN w
  ELSE LET idx == At(w, id)
           vs == RemoveAt(w.vs, idx) IN
       [vs |-> vs, active |-> IF w.active \in Ids(vs) THEN w.active ELSE vs[Clamp(1, idx, Len(vs))].id]

DissolveEmpty(w, id) ==
  IF View(w, id).slots = <<>> /\ View(w, id).root = None THEN DissolveView(w, id) ELSE w

(* Mutant of DetachFromViews: a tab emptied this way stays.               *)
DetachOnly(w, s) ==
  IF ViewsOfSession(w, s) = {} THEN w
  ELSE LET v == ViewOfSession(w, s) IN Put(w, RemoveAtSlot(v, IndexOfSlot(v, s)))
(* A session leaves its place; a tab without a folder goes when it was the *)
(* last pane.                                                              *)
DetachFromViews(w, s) ==
  IF ViewsOfSession(w, s) = {} THEN w
  ELSE LET v == ViewOfSession(w, s) IN DissolveEmpty(Put(w, RemoveAtSlot(v, IndexOfSlot(v, s))), v.id)

FirstMovableIndex == 2
InsertView(w, at, v) == [w EXCEPT !.vs = InsertAt(w.vs, Clamp(FirstMovableIndex, at, Len(w.vs) + 1), v)]
PushView(w, v) == [w EXCEPT !.vs = Append(@, v)]

(* reconcileViews: the slots of dead sessions go, but those of the view    *)
(* that is skipped; a session without a place gets a view of its own.      *)
Pruned(v, list) ==
  FoldLeft(LAMBDA u, i : IF IsEditor(u.slots[i]) \/ u.slots[i].id \in list THEN u ELSE RemoveAtSlot(u, i),
           v, [i \in DOMAIN v.slots |-> Len(v.slots) + 1 - i])
Given(w, s) == IF ViewsOfSession(w, s) = {} THEN PushView(w, NewView(w, None, <<SessionSlot(s)>>)) ELSE w
ReconcileViews(w, list, skip) ==
  LET kept == FoldLeft(LAMBDA u, id : IF id = skip THEN u ELSE DissolveEmpty(Put(u, Pruned(View(u, id), list)), id),
                       w, [i \in DOMAIN w.vs |-> w.vs[i].id]) IN
  FoldLeft(Given, kept, SetToSeq(list))

-----------------------------------------------------------------------------
(* Editor slots.                                                           *)
TabAt(s, tab) == SelectInSeq(s.tabs, LAMBDA t : t = tab)
FileTabs(v) == UNION {ToSet(v.slots[i].tabs) : i \in Editors(v)}
OpenFiles(vs) == UNION {FileTabs(v) : v \in ToSet(vs)}
Raised(s, i) == [s EXCEPT !.active = i]
AddOrRaise(s, tab) ==
  IF TabAt(s, tab) > 0 THEN Raised(s, TabAt(s, tab))
  ELSE [s EXCEPT !.tabs = Append(@, tab), !.active = Len(s.tabs) + 1]
Full(s, tab) == Len(s.tabs) >= MaxTabs /\ TabAt(s, tab) = 0
EvictForAdd(s, tab) ==
  IF Full(s, tab) THEN [s EXCEPT !.tabs = SubSeq(@, 1, MaxTabs - 1), !.active = Clamp(1, @, MaxTabs - 1)] ELSE s
WithoutTab(s, i) == [s EXCEPT !.tabs = RemoveAt(@, i), !.active = Clamp(1, @, Len(s.tabs) - 1)]

TargetEditorIndex(v) ==
  IF v.focused \in Editors(v) THEN v.focused ELSE SelectInSeq(v.slots, IsEditor)
FindTab(v, tab) == SelectInSeq(v.slots, LAMBDA s : IsEditor(s) /\ TabAt(s, tab) > 0)
WithSlot(v, i, s) == [v EXCEPT !.slots[i] = s, !.focused = i]

(* dirtyLostBy: the unsaved files that no tab outside this part shows.     *)
DirtyLostBy(id, slot, tab) ==
  LET Goes(v, i, t) == v.id = id /\ slot \in {0, i} /\ tab \in {0, t}
      TabsWhere(Test(_, _, _)) ==
        UNION {UNION {{v.slots[i].tabs[t] : t \in {t \in DOMAIN v.slots[i].tabs : Test(v, i, t)}}
                      : i \in Editors(v)} : v \in ToSet(views)} IN
  (TabsWhere(Goes) \cap edits) \ TabsWhere(LAMBDA v, i, t : ~Goes(v, i, t))

EvictionFor(v, i, tab) == IF Full(v.slots[i], tab) THEN DirtyLostBy(v.id, i, MaxTabs) ELSE {}
RootView(w, root) == SelectInSeq(w.vs, LAMBDA v : v.root = root)
EvictionForOpen(root, tab) ==
  IF RootView(w0, root) = 0 THEN {}
  ELSE LET v == views[RootView(w0, root)] IN
       IF FindTab(v, tab) > 0 \/ TargetEditorIndex(v) = 0 THEN {} ELSE EvictionFor(v, TargetEditorIndex(v), tab)

-----------------------------------------------------------------------------
(* localStorage.                                                           *)
(* Mutant of Persist: the focus is kept off the files.                     *)
PersistOnTerminal(v) ==
  [v EXCEPT !.slots = [i \in DOMAIN v.slots |-> IF IsEditor(v.slots[i]) THEN [v.slots[i] EXCEPT !.id = None] ELSE v.slots[i]],
            !.focused = IF @ \in Editors(v) THEN 1 ELSE Clamp(1, @, Len(v.slots))]
Persist(v) ==
  [v EXCEPT !.slots = [i \in DOMAIN v.slots |-> IF IsEditor(v.slots[i]) THEN [v.slots[i] EXCEPT !.id = None] ELSE v.slots[i]],
            !.focused = Clamp(1, @, Len(v.slots))]
Saved(w, stamp) ==
  [views |-> [i \in DOMAIN w.vs |-> Persist(w.vs[i])], active |-> w.active, run |-> IF stamp = None THEN stored.run ELSE stamp]

(* saveUi, which ends every change of the arrangement.                     *)
Shown(w) ==
  /\ views' = w.vs /\ activeViewId' = w.active
  /\ stored' = Saved(w, startedAt)

(* A stored view comes back with new editor slots; an empty one only when  *)
(* it is Home.                                                             *)
Rebuilt(w, v) ==
  LET Add(u, s) == IF s.id = None
                   THEN [u EXCEPT !.slots = Append(@, [s EXCEPT !.id =
                          Unused({t.id : t \in (UNION {ToSet(x.slots) : x \in ToSet(w.vs)}) \cup ToSet(u.slots)} \ Sessions)])]
                   ELSE [u EXCEPT !.slots = Append(@, s)]
      made == FoldLeft(Add, [v EXCEPT !.slots = <<>>], v.slots) IN
  IF (made.slots = <<>> /\ v.root # Home) \/ Len(w.vs) >= MaxViews THEN w ELSE PushView(w, made)

EnsureHomeView(w) ==
  IF w.vs # <<>> /\ w.vs[1].root = Home THEN w
  ELSE [w EXCEPT !.vs = <<NewView(w, Home, <<>>)>> \o w.vs]
NormalizeActive(w) == IF Has(w, w.active) THEN w ELSE Activate(w, w.vs[1].id)

(* loadUi: runOf is the run GET /api/runtime answered, None without one.   *)
Loaded(bag, list, runOf) ==
  LET keep == runOf = None \/ bag.run = runOf
      kept == FoldLeft(Rebuilt, [vs |-> <<>>, active |-> 0], IF keep THEN bag.views ELSE <<>>)
      first == IF keep /\ Has(kept, bag.active) THEN Activate(kept, bag.active)
               ELSE IF kept.vs = <<>> THEN kept ELSE Activate(kept, kept.vs[1].id) IN
  NormalizeActive(ReconcileViews(EnsureHomeView(first), list, None))

Load(list, runOf, bag) ==
  LET w == Loaded(bag, list, runOf) IN
  /\ views' = w.vs /\ activeViewId' = w.active
  /\ stored' = [Saved(w, runOf) EXCEPT !.run = IF runOf = None THEN bag.run ELSE runOf]
  /\ startedAt' = runOf /\ known' = list /\ edits' = {}
  /\ call' = None /\ poll' = None /\ asked' = None

(* The page loads, in a run that has the sessions of the stored tabs.      *)
Init ==
  /\ run = 1 /\ startedAt = 1 /\ gestures = 0 /\ edits = {} /\ call = None /\ poll = None /\ asked = None
  /\ \E bag \in Bags :
       LET w == Loaded(bag, UNION {SessionIds(v) : v \in ToSet(bag.views)}, 1) IN
       /\ server = UNION {SessionIds(v) : v \in ToSet(bag.views)}
       /\ known = server /\ fresh = Sessions \ server
       /\ views = w.vs /\ activeViewId = w.active
       /\ stored = [views |-> [i \in DOMAIN w.vs |-> Persist(w.vs[i])], active |-> w.active, run |-> 1]

-----------------------------------------------------------------------------
(* What a gesture asks the store to do; each answers the workspace after.  *)
CloseSlot(w, id, slot) ==
  LET v == RemoveAtSlot(View(w, id), slot) IN
  IF v.slots = <<>> THEN DissolveView(Put(w, v), id) ELSE Put(w, v)
CloseTab(w, id, slot, tab) ==
  LET s == View(w, id).slots[slot] IN
  IF Len(s.tabs) = 1 THEN CloseSlot(w, id, slot)
  ELSE Put(w, [View(w, id) EXCEPT !.slots[slot] = WithoutTab(s, tab)])

ViewForRoot(w, root) ==
  IF RootView(w, root) > 0 THEN w ELSE PushView(w, NewView(w, root, <<>>))
OpenEditorTab(w, root, tab) ==
  LET u == ViewForRoot(w, root)
      v == u.vs[RootView(u, root)]
      target == TargetEditorIndex(v)
      at == FindTab(v, tab) IN
  IF at > 0 THEN Activate(Put(u, WithSlot(v, at, AddOrRaise(v.slots[at], tab))), v.id)
  ELSE IF target > 0 THEN Activate(Put(u, WithSlot(v, target, AddOrRaise(EvictForAdd(v.slots[target], tab), tab))), v.id)
  ELSE IF Len(v.slots) >= MAX_PANES THEN u
  ELSE Activate(Put(u, InsertSlots(v, 1, "fill", <<NewEditorSlot(u, tab)>>)), v.id)

OpenTabAt(w, id, slot, where, tab) ==
  LET v == View(w, id) IN
  IF where = "replace"
  THEN IF slot \in Editors(v)
       THEN Activate(Put(w, WithSlot(v, slot, AddOrRaise(EvictForAdd(v.slots[slot], tab), tab))), id) ELSE w
  ELSE IF where \in DropZonesFor(v, slot, 1)
       THEN Activate(Put(w, InsertSlots(v, slot, where, <<NewEditorSlot(w, tab)>>)), id) ELSE w

MoveTab(w, id, from, tab, to) ==
  LET v == View(w, id)
      t == v.slots[from].tabs[tab]
      key == v.slots[to].id
      taken == [v EXCEPT !.slots[to] = AddOrRaise(v.slots[to], t)]
      left == IF Len(v.slots[from].tabs) = 1 THEN RemoveAtSlot(taken, from)
              ELSE [taken EXCEPT !.slots[from] = WithoutTab(v.slots[from], tab)] IN
  IF Full(v.slots[to], t) THEN w
  ELSE Put(w, [left EXCEPT !.focused = IndexOfSlot(left, key)])

MoveTabToSplit(w, id, from, tab, at, zone) ==
  LET v == View(w, id)
      s == v.slots[from]
      key == v.slots[at].id
      left == IF Len(s.tabs) = 1 THEN RemoveAtSlot(v, from) ELSE [v EXCEPT !.slots[from] = WithoutTab(s, tab)] IN
  IF (Len(s.tabs) = 1 /\ from = at) \/ zone \notin DropZonesFor(left, IndexOfSlot(left, key), 1) THEN w
  ELSE Put(w, InsertSlots(left, IndexOfSlot(left, key), zone, <<NewEditorSlot(w, s.tabs[tab])>>))

MergeViews(w, target, source, slot, zone) ==
  LET items == View(w, source).slots
      u == DissolveView(w, source) IN
  Put(u, InsertSlots(View(u, target), slot, zone, items))

MoveSessionToView(w, s, target) ==
  LET u == DetachFromViews(w, s) IN Put(u, InsertSlots(View(u, target), 1, "fill", <<SessionSlot(s)>>))

ExtractSession(w, s, at) ==
  LET v == ViewOfSession(w, s)
      u == Put(w, RemoveAtSlot(v, IndexOfSlot(v, s))) IN
  InsertView(u, at, NewView(u, None, <<SessionSlot(s)>>))

ReorderView(w, id, to) ==
  LET from == At(w, id) IN
  [w EXCEPT !.vs = InsertAt(RemoveAt(@, from), Clamp(FirstMovableIndex, IF to > from THEN to - 1 ELSE to, Len(@)), View(w, id))]

SwapPanes(w, id, from, to) ==
  LET v == View(w, id) IN
  Put(w, [v EXCEPT !.slots[from] = v.slots[to], !.slots[to] = v.slots[from],
                   !.focused = IF w.active = id THEN to ELSE @])

(* replaceSessionInView: the session leaves the place it may have; the     *)
(* slot is the one that is there NOW.                                      *)
ReplaceSessionInView(w, id, slot, s) ==
  IF ~Has(w, id) \/ slot \notin DOMAIN View(w, id).slots \/ slot \in Editors(View(w, id)) THEN w
  ELSE LET u == DetachFromViews(w, s) IN
       IF ~Has(u, id) THEN u
       ELSE Put(u, [View(u, id) EXCEPT !.slots = SubSeq(@, 1, slot - 1) \o <<SessionSlot(s)>> \o SubSeq(@, slot + 1, Len(@))])
FocusSession(w, s) ==
  IF ViewsOfSession(w, s) = {} THEN w
  ELSE LET v == ViewOfSession(w, s) IN Activate(Put(w, [v EXCEPT !.focused = IndexOfSlot(v, s)]), v.id)

-----------------------------------------------------------------------------
(* The user, when no question is up.                                       *)
MayAct == asked = None /\ gestures < MaxGestures
Gesture == MayAct /\ gestures' = gestures + 1

Rearranges(w) ==
  /\ Gesture /\ w # w0
  /\ Shown(w)
  /\ edits' = {f \in edits : f \in OpenFiles(w.vs)}
  /\ UNCHANGED <<known, startedAt, backend, call, poll, asked>>
RearrangesUnpruned(w) ==
  /\ Gesture /\ w # w0
  /\ Shown(w)
  /\ UNCHANGED <<known, edits, startedAt, backend, call, poll, asked>>

Shows == View(w0, activeViewId)
Movable == {v.id : v \in {v \in ToSet(views) : v.root # Home}}
DroppedOn(slot, count) == DropZonesFor(Shows, slot, count)

Selects == \/ \E id \in Ids(views) : RearrangesUnpruned(Activate(w0, id))
           \/ \E i \in DOMAIN Shows.slots : RearrangesUnpruned(Put(w0, [Shows EXCEPT !.focused = i]))
           \/ \E i \in Editors(Shows) : \E t \in DOMAIN Shows.slots[i].tabs :
                RearrangesUnpruned(Put(w0, [Shows EXCEPT !.slots[i] = Raised(Shows.slots[i], t)]))
           \/ \E s \in known : RearrangesUnpruned(FocusSession(w0, s))
DragsTab == \E id \in Movable :
  \/ \E to \in FirstMovableIndex..Len(views) + 1 : RearrangesUnpruned(ReorderView(w0, id, to))
  \/ \E t \in Ids(views) \ {id} :
       /\ Len(View(w0, t).slots) + Len(View(w0, id).slots) <= MAX_PANES
       /\ RearrangesUnpruned(MergeViews(w0, t, id, 1, "fill"))
  \/ \E slot \in DOMAIN Shows.slots : \E zone \in DroppedOn(slot, Len(View(w0, id).slots)) :
       /\ id # activeViewId
       /\ RearrangesUnpruned(MergeViews(w0, activeViewId, id, slot, zone))
DragsPane == \E slot \in DOMAIN Shows.slots :
  \/ \E to \in DOMAIN Shows.slots \ {slot} : RearrangesUnpruned(SwapPanes(w0, activeViewId, slot, to))
  \/ /\ slot \notin Editors(Shows)
     /\ \/ /\ Len(Shows.slots) > 1
           /\ \E at \in FirstMovableIndex..Len(views) + 1 : RearrangesUnpruned(ExtractSession(w0, Shows.slots[slot].id, at))
        \/ \E t \in Ids(views) \ {activeViewId} :
             /\ Shows.slots[slot].id \in known /\ Len(View(w0, t).slots) < MAX_PANES
             /\ RearrangesUnpruned(MoveSessionToView(w0, Shows.slots[slot].id, t))
SplitsIntoActive == \E s \in known \ SessionIds(Shows) :
  Len(Shows.slots) < MAX_PANES /\ RearrangesUnpruned(MoveSessionToView(w0, s, activeViewId))
DragsFileTab == \E i \in Editors(Shows) : \E t \in DOMAIN Shows.slots[i].tabs :
  \/ \E to \in Editors(Shows) \ {i} : Rearranges(MoveTab(w0, activeViewId, i, t, to))
  \/ \E at \in DOMAIN Shows.slots : \E zone \in Zones : Rearranges(MoveTabToSplit(w0, activeViewId, i, t, at, zone))
DropsFile == \E slot \in DOMAIN Shows.slots : \E zone \in DroppedOn(slot, 1) : \E f \in Files :
  Rearranges(OpenTabAt(w0, activeViewId, slot, zone, f))

Types == \E i \in Editors(Shows) :
  LET s == Shows.slots[i]
      f == s.tabs[s.active] IN
  /\ f \in Files \ edits /\ Gesture
  /\ edits' = edits \cup {f}
  /\ UNCHANGED <<views, activeViewId, known, stored, startedAt, backend, call, poll, asked>>

(* The write of the unsaved text landed.                                   *)
SaveLands == \E f \in edits :
  /\ edits' = edits \ {f}
  /\ UNCHANGED <<views, activeViewId, known, stored, startedAt, backend, call, poll, asked, gestures>>

(* A file was renamed on disk: its tabs and its text follow, unless both   *)
(* names have unsaved text.                                                *)
Followed(s, from, to) ==
  LET name == [t \in ToSet(s.tabs) |-> IF t = from THEN to ELSE t]
      tabs == FoldLeft(LAMBDA u, t : IF name[t] \in ToSet(u) THEN u ELSE Append(u, name[t]), <<>>, s.tabs) IN
  IF from \notin ToSet(s.tabs) THEN s
  ELSE [s EXCEPT !.tabs = tabs, !.active = SelectInSeq(tabs, LAMBDA t : t = name[s.tabs[s.active]])]
Retitled(v, from, to) ==
  [v EXCEPT !.slots = [j \in DOMAIN @ |-> IF IsEditor(@[j]) THEN Followed(@[j], from, to) ELSE @[j]]]
Renaming(w, from, to) == [w EXCEPT !.vs = [i \in DOMAIN @ |-> Retitled(@[i], from, to)]]
(* Mutant of Renames: the text stays under the old name.                   *)
RenamesTabs == \E from \in Files : \E to \in Files \ {from} :
  LET w == Renaming(w0, from, to) IN
  /\ Gesture /\ ~({from, to} \subseteq edits)
  /\ from \in OpenFiles(views)
  /\ Shown(w)
  /\ UNCHANGED edits
  /\ UNCHANGED <<known, startedAt, backend, call, poll, asked>>
Renames == \E from \in Files : \E to \in Files \ {from} :
  LET w == Renaming(w0, from, to) IN
  /\ Gesture /\ ~({from, to} \subseteq edits)
  /\ from \in OpenFiles(views)
  /\ Shown(w)
  /\ edits' = IF from \in edits THEN (edits \ {from}) \cup {to} ELSE edits
  /\ UNCHANGED <<known, startedAt, backend, call, poll, asked>>

-----------------------------------------------------------------------------
(* The doors of ui/unsaved.ts. What a door does is fixed when it is tried; *)
(* with unsaved text at stake it is done after the question, on whatever   *)
(* stands there by then.                                                   *)
Act == [op |-> "", view |-> 0, slot |-> 0, tab |-> 0, root |-> None, where |-> "", ids |-> {}]
Done(a) ==
  CASE a.op = "open" -> OpenEditorTab(w0, a.root, a.tab)
    [] a.op # "open" /\ ~Has(w0, a.view) -> w0
    [] a.op # "open" /\ Has(w0, a.view) ->
         LET v == View(w0, a.view) IN
         CASE a.op = "endView" -> DissolveView(w0, a.view)
           [] a.op = "closeSlot" -> IF a.slot \in Editors(v) THEN CloseSlot(w0, a.view, a.slot) ELSE w0
           [] a.op = "closeTab" -> IF a.slot \in Editors(v) /\ a.tab \in DOMAIN v.slots[a.slot].tabs
                                   THEN CloseTab(w0, a.view, a.slot, a.tab) ELSE w0
           [] a.op = "openAt" -> IF a.slot \in DOMAIN v.slots THEN OpenTabAt(w0, a.view, a.slot, "replace", a.tab) ELSE w0

(* killView ends the sessions of a tab one after the other, and closes it  *)
(* when none is left in it.                                                *)
Ends(a) == a.op = "endView" /\ Has(w0, a.view) /\ SessionIds(View(w0, a.view)) # {}
NoCall == [op |-> "", id |-> None, done |-> FALSE, view |-> 0, slot |-> 0, new |-> None, left |-> <<>>, ids |-> {}]
(* sessionIds, in the order of the panes.                                  *)
InOrder(v) == FoldLeft(LAMBDA u, s : IF s.id \in Sessions THEN Append(u, s.id) ELSE u, <<>>, v.slots)
EndsView(a) ==
  LET left == InOrder(View(w0, a.view)) IN
  [NoCall EXCEPT !.op = "endView", !.id = Head(left), !.left = Tail(left), !.view = a.view, !.ids = a.ids]

Performs(a) ==
  /\ Ends(a) => call = None
  /\ asked' = None
  /\ IF Ends(a)
     THEN call' = EndsView(a) /\ UNCHANGED <<views, activeViewId, stored, edits>>
     ELSE LET w == Done(a) IN
          /\ Shown(w) /\ UNCHANGED call
          /\ edits' = {f \in edits : f \in OpenFiles(w.vs)}
  /\ UNCHANGED <<known, startedAt, backend, poll>>

Tries(ids, a) ==
  /\ Gesture
  /\ IF ids = {} THEN Performs(a)
     ELSE /\ asked' = [a EXCEPT !.ids = ids]
          /\ UNCHANGED <<views, activeViewId, known, stored, edits, startedAt, backend, call, poll>>
ClosesView == \E id \in Movable :
  Tries(DirtyLostBy(id, 0, 0), [Act EXCEPT !.op = "endView", !.view = id])
ClosesSlot == \E i \in Editors(Shows) :
  Tries(DirtyLostBy(activeViewId, i, 0), [Act EXCEPT !.op = "closeSlot", !.view = activeViewId, !.slot = i])
ClosesTab == \E i \in Editors(Shows) : \E t \in DOMAIN Shows.slots[i].tabs :
  Tries(DirtyLostBy(activeViewId, i, t), [Act EXCEPT !.op = "closeTab", !.view = activeViewId, !.slot = i, !.tab = t])
Opens == \E root \in {Home} \cup Projects : \E tab \in Files \cup Diffs :
  Tries(EvictionForOpen(root, tab), [Act EXCEPT !.op = "open", !.root = root, !.tab = tab])
OpensAt == \E i \in Editors(Shows) : \E tab \in Files :
  Tries(EvictionFor(Shows, i, tab), [Act EXCEPT !.op = "openAt", !.view = activeViewId, !.slot = i, !.tab = tab])

KeepsEditing ==
  /\ asked # None /\ asked' = None
  /\ UNCHANGED <<views, activeViewId, known, stored, edits, startedAt, backend, call, poll, gestures>>
Discards == asked # None /\ Performs(asked) /\ UNCHANGED gestures

-----------------------------------------------------------------------------
(* Requests, one under way at a time (a bound of the model): the backend   *)
(* acts on it, then the page gets the answer.                              *)
Sends(c) ==
  /\ Gesture /\ call = None /\ call' = c
  /\ UNCHANGED <<views, activeViewId, known, stored, edits, startedAt, backend, poll, asked>>
Launches == Sends([NoCall EXCEPT !.op = "create"])
Kills == \E s \in known : Sends([NoCall EXCEPT !.op = "kill", !.id = s])
(* The pane is remembered by its tab and its place.                        *)
Relaunches == \E i \in DOMAIN Shows.slots \ Editors(Shows) :
  /\ Shows.slots[i].id \in known
  /\ Sends([NoCall EXCEPT !.op = "relaunch", !.id = Shows.slots[i].id, !.view = activeViewId, !.slot = i])

Starts(op) == op \in {"create", "relaunch"}
BackendActs ==
  /\ call # None /\ ~call.done
  /\ IF Starts(call.op)
     THEN \E s \in fresh : server' = server \cup {s} /\ fresh' = fresh \ {s} /\ call' = [call EXCEPT !.done = TRUE, !.new = s]
     ELSE server' = server \ {call.id} /\ call' = [call EXCEPT !.done = TRUE] /\ UNCHANGED fresh
  /\ UNCHANGED <<views, activeViewId, known, stored, edits, startedAt, run, poll, asked, gestures>>

Answered(w, next) ==
  /\ Shown(w) /\ call' = next
  /\ UNCHANGED <<startedAt, backend, poll, asked, gestures>>
Upsert(s) == Given(w0, s)
LaunchAnswers ==
  /\ call # None /\ call.done /\ call.op = "create"
  /\ known' = known \cup {call.new}
  /\ Answered(FocusSession(Upsert(call.new), call.new), None) /\ UNCHANGED edits
(* relaunch: upsert, swap into the slot, focus, then end the old session.  *)
RelaunchAnswers ==
  /\ call # None /\ call.done /\ call.op = "relaunch"
  /\ known' = known \cup {call.new}
  /\ LET w == ReplaceSessionInView(Upsert(call.new), call.view, call.slot, call.new)
         u == IF w.active = call.view /\ call.slot \in DOMAIN View(w, call.view).slots
              THEN Put(w, [View(w, call.view) EXCEPT !.focused = call.slot]) ELSE w IN
     Answered(u, [NoCall EXCEPT !.op = "kill", !.id = call.id])
  /\ UNCHANGED edits
(* removeSessionEverywhere.                                                *)
KillAnswers ==
  /\ call # None /\ call.done /\ call.op = "kill"
  /\ known' = known \ {call.id}
  /\ Answered(DetachFromViews(w0, call.id), None) /\ UNCHANGED edits
EndAnswers ==
  LET w == DetachFromViews(w0, call.id)
      closes == call.left = <<>> /\ Has(w, call.view) /\ SessionIds(View(w, call.view)) = {}
      u == IF closes THEN DissolveView(w, call.view) ELSE w IN
  /\ call # None /\ call.done /\ call.op = "endView"
  /\ known' = known \ {call.id}
  /\ Answered(u, IF call.left = <<>> THEN None
                 ELSE [call EXCEPT !.id = Head(call.left), !.left = Tail(call.left), !.done = FALSE])
  /\ edits' = IF closes THEN {f \in edits : f \in OpenFiles(u.vs)} ELSE edits
(* The answer is an error, or lost: the page says so and changes nothing.  *)
CallFails ==
  /\ call # None /\ call.op # "endView"
  /\ call' = None
  /\ UNCHANGED <<views, activeViewId, known, stored, edits, startedAt, backend, poll, asked, gestures>>

(* The session poll: the list is the one of when the backend answered.     *)
Polls ==
  /\ poll = None /\ poll' = server
  /\ UNCHANGED <<views, activeViewId, known, stored, edits, startedAt, backend, call, asked, gestures>>
SetSessions ==
  /\ poll # None /\ poll' = None
  /\ known' = poll
  /\ LET w == ReconcileViews(w0, poll, activeViewId) IN
     IF w = w0 THEN UNCHANGED <<views, activeViewId, stored>> ELSE Shown(NormalizeActive(w))
  /\ UNCHANGED <<edits, startedAt, backend, call, asked, gestures>>

(* Another window starts or ends a session.                                *)
Elsewhere ==
  /\ gestures < MaxGestures /\ gestures' = gestures + 1
  /\ \/ \E s \in fresh : server' = server \cup {s} /\ fresh' = fresh \ {s}
     \/ \E s \in server : server' = server \ {s} /\ UNCHANGED fresh
  /\ UNCHANGED <<views, activeViewId, known, stored, edits, startedAt, run, call, poll, asked>>

(* The page loads again; GET /api/runtime may fail.                        *)
Reloads ==
  /\ Gesture
  /\ \E answer \in {run, None} : Load(server, answer, stored)
  /\ UNCHANGED backend
(* The service is restarted: the page that waited stamps the store with    *)
(* the new run and loads; a page that is opened later does not stamp.      *)
Restarts ==
  /\ Gesture /\ run = 1
  /\ run' = 2 /\ server' = {} /\ UNCHANGED fresh
  /\ \E stamp \in {stored.run, 2} : Load({}, 2, [stored EXCEPT !.run = stamp])

User == \/ /\ MayAct
           /\ \/ Selects \/ DragsTab \/ DragsPane \/ SplitsIntoActive \/ DragsFileTab \/ DropsFile \/ Types
              \/ Renames \/ ClosesView \/ ClosesSlot \/ ClosesTab \/ Opens \/ OpensAt
              \/ Launches \/ Kills \/ Relaunches \/ Reloads \/ Restarts
        \/ KeepsEditing \/ Discards \/ Elsewhere
Page == \/ SaveLands \/ BackendActs \/ LaunchAnswers \/ RelaunchAnswers \/ KillAnswers \/ EndAnswers \/ CallFails
        \/ Polls \/ SetSessions
Next == User \/ Page

Spec == Init /\ [][Next]_vars

-----------------------------------------------------------------------------
(* The arrangement stays one that the grid can draw, through every gesture *)
(* and every late answer: Home first and only once, each session in one    *)
(* place, no tab without a folder and without panes, no pane without tabs, *)
(* four panes at most, every strip without repeats, every index in range   *)
(* (state-views.ts, state-editor.ts).                                      *)
ArrangementSound ==
  /\ Has(w0, activeViewId) /\ \A i \in DOMAIN views : (views[i].root = Home) = (i = 1)
  /\ \A i, j \in DOMAIN views : \A k \in DOMAIN views[i].slots : \A l \in DOMAIN views[j].slots :
       views[i].slots[k].id = views[j].slots[l].id => i = j /\ k = l
  /\ Cardinality(Ids(views)) = Len(views)
  /\ \A v \in ToSet(views) :
       /\ Len(v.slots) <= MAX_PANES /\ v.focused \in 1..Clamp(1, Len(v.slots), MAX_PANES)
       /\ v.root = None => v.slots # <<>>
       /\ \A i \in Editors(v) : LET s == v.slots[i] IN
            /\ s.tabs # <<>> /\ Len(s.tabs) <= MaxTabs /\ s.active \in DOMAIN s.tabs
            /\ Cardinality(ToSet(s.tabs)) = Len(s.tabs)

(* Text that is unsaved can be reached: some tab shows its file, and every *)
(* step keeps it so (pruneOrphanEdits, state-editor.ts:513) but one: the   *)
(* answer of a relaunch may find a file pane in the place it remembers and *)
(* take it. Text without a tab would make the browser ask at every reload, *)
(* and would come up in the next pane that opens the file.                 *)
EditsHaveTabs == \A f \in edits : f \in OpenFiles(views)
EditsKeepTabs == [][EditsHaveTabs /\ ~RelaunchAnswers => EditsHaveTabs']_vars

(* Unsaved text is dropped only when the question named its file           *)
(* (ui/unsaved.ts:9). Not so: what a door drops is looked at once, when it *)
(* is tried, and killView closes the tab several answers later.            *)
Named == UNION {r.ids : r \in {asked, call} \ {None}}
Dropped == edits \ OpenFiles(views')
NothingDroppedUnasked ==
  [][(ClosesView \/ ClosesSlot \/ ClosesTab \/ Opens \/ OpensAt \/ Discards \/ EndAnswers)
       => Dropped \subseteq Named]_vars

(* Whatever was done last, a reload in the same run shows the panes and    *)
(* the tabs that are on the screen, in their places, as long as their      *)
(* sessions live: every mutator saves what it made (saveUi,                *)
(* state-persist.ts:124). Tabs past MAX_VIEWS and empty folder tabs are    *)
(* the ones it may drop.                                                   *)
Alike(s, t) == s.tabs = t.tabs /\ s.active = t.active /\ (s.id = t.id \/ (IsEditor(s) /\ IsEditor(t)))
ReloadShowsTheSame ==
  LET w == Loaded(stored, server, stored.run) IN
  /\ \A s \in server : Cardinality(ViewsOfSession(w, s)) = 1
  /\ Len(views) <= MaxViews =>
       \A v \in ToSet(views) : v.slots # <<>> /\ SessionIds(v) \subseteq server =>
         /\ Has(w, v.id)
         /\ LET u == View(w, v.id) IN
            /\ u.root = v.root /\ u.focused = v.focused /\ u.l3 = v.l3 /\ Len(u.slots) = Len(v.slots)
            /\ \A i \in DOMAIN v.slots : Alike(v.slots[i], u.slots[i])
         /\ v.id = activeViewId => w.active = v.id

(* What a drop did, closing the pane it made undoes, in every view that is *)
(* shown (Slots).                                                          *)
DropsUndone == DropUndone(Shows, SessionSlot(None))
=============================================================================
