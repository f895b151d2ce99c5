-------------------------------- MODULE Tree --------------------------------
(***************************************************************************)
(* The Files tab of the panel: the listings it holds and asks for          *)
(* (ui/files-tree.ts), the row a new file or a rename is typed in          *)
(* (files-naming.ts), the delete (files-menu.ts) and the selection         *)
(* (files-select-model.ts), over the routes of server/fsbrowse.ts,         *)
(* fsrename.ts and fsdelete.ts, which find the disk as it is when they run.*)
(* A path is the sequence of its names; <<>> is the user's home. Nobody    *)
(* else changes the disk here. A row is a path and a kind; painting, the   *)
(* keyboard's place and the sentences are left out.                        *)
(***************************************************************************)
EXTENDS Naturals, Sequences, FiniteSets, SequencesExt

CONSTANTS Names,       \* what an entry can be called
          Roots,       \* the folders the panel may show: home and projects
          Fifo,        \* answers come in the order of the requests
          MaxGestures  \* bound: what the user does

VARIABLES
  disk,     \* the entries there are: [path, dir]
  root,     \* currentPath
  open,     \* openFolders
  listings, \* per folder Loading, Failed, or the set of its entries
  selected, \* the selection: rows
  row,      \* the name row: creating, renaming, or none
  asking,   \* the rows the delete question names, or none
  deleting, \* the rows of the delete that is under way, or none
  wire,     \* requests and their answers, in the order they were sent
  gestures

treeVars == <<disk, root, open, listings, selected, row, asking, deleting, wire, gestures>>
panel == <<open, listings, selected, row, asking, deleting>>

State(k, entries) == [k |-> k, entries |-> entries]
Loading == State("loading", {})
Failed == State("error", {})
Ready(entries) == State("ready", entries)
NoRow == [for |-> "none"]
NoItems == {}
Entry(p, dir) == [path |-> p, dir |-> dir]

isUnder(p, r) == IsPrefix(r, p)
parentPath(p) == Front(p)
remapPath(p, from, to) == IF isUnder(p, from) THEN to \o SubSeq(p, Len(from) + 1, Len(p)) ELSE p
renamedPath(p, n) == Append(parentPath(p), n)
remapRow(r, from, to) == [r EXCEPT !.path = remapPath(@, from, to)]

IsDir(p) == p = <<>> \/ Entry(p, TRUE) \in disk
Taken(p) == \E e \in disk : e.path = p
Under(p) == {e \in disk : isUnder(e.path, p)}
Below(p) == {[name |-> Last(e.path), dir |-> e.dir] : e \in {f \in disk : f.path # <<>> /\ parentPath(f.path) = p}}

TreeInit ==
  /\ disk = {Entry(r, TRUE) : r \in Roots \ {<<>>}} \cup {Entry(<<2>>, TRUE), Entry(<<2, 1>>, FALSE)}
  /\ root = <<>> /\ open = {} /\ selected = {} /\ row = NoRow
  /\ asking = NoItems /\ deleting = NoItems /\ gestures = 0
  /\ listings = [p \in {<<>>} |-> Ready(Below(p))] /\ wire = <<>>

Known == DOMAIN listings
Entries(l, p) == IF p \in DOMAIN l THEN {Entry(Append(p, e.name), e.dir) : e \in l[p].entries} ELSE {}

\* fsRows: the root's entries, and those of each open folder among the rows.
fsRows(l, r, o) == LET first == Entries(l, r) IN
                   first \cup UNION {Entries(l, e.path) : e \in {f \in first : f.dir /\ f.path \in o}}
Shown == fsRows(listings, root, open)

TreeTypeOK ==
  /\ \A e \in disk : e.path = <<>> \/ IsDir(parentPath(e.path))
  /\ root \in Roots /\ root \in DOMAIN listings
  /\ row.for \in {"none", "create", "rename"}
  /\ \A i \in 1..Len(wire) : wire[i].op \in {"list", "create", "rename", "delete"}

-----------------------------------------------------------------------------
(* Asking. A request remembers the generation it was asked in (here: it is *)
(* still that one) and a name row's whether it is still that row's (mine). *)
Request(op, p) == [op |-> op, path |-> p, name |-> 0, dir |-> FALSE, items |-> {}, here |-> TRUE,
                   mine |-> TRUE, step |-> "sent", ok |-> FALSE, entries |-> {}]
\* (AskedEver: a mutant whose inFlight holds paths, with no generation.)
AskedEver(w, p) == \E i \in 1..Len(w) : w[i].op = "list" /\ w[i].path = p
Asked(w, p) == \E i \in 1..Len(w) : w[i].op = "list" /\ w[i].path = p /\ w[i].here
List(w, p) == IF Asked(w, p) THEN w ELSE Append(w, Request("list", p))
ListAll(w, paths) == FoldLeft(List, w, SetToSeq(paths))

\* What a folder shows once it is asked for: an error does not outlive that.
Awaits(l, w, p) ==
  IF Asked(w, p) \/ (p \in DOMAIN l /\ l[p] # Failed) THEN l
  ELSE [q \in DOMAIN l \cup {p} |-> IF q = p THEN Loading ELSE l[q]]

fetchFolder(l, w, p) == /\ listings' = Awaits(l, w, p)
                        /\ wire' = List(w, p)

\* Another row, or none: the request of the old one is no longer the user's.
Disowned(w) == [i \in 1..Len(w) |-> IF w[i].op \in {"create", "rename"} THEN [w[i] EXCEPT !.mine = FALSE] ELSE w[i]]
Busy == \E i \in 1..Len(wire) : wire[i].op \in {"create", "rename"} /\ wire[i].mine

\* A click, a menu or another pane also takes the keyboard from the name row.
Gesture == gestures < MaxGestures /\ gestures' = gestures + 1 /\ asking = NoItems
Leaves == Gesture /\ row' = NoRow

\* setRoot: another pane is focused, another folder is the panel's.
setRoot(next) ==
  LET pruned == [p \in {q \in Known : isUnder(q, next)} |-> listings[p]]
      elsewhere == [i \in 1..Len(wire) |-> [wire[i] EXCEPT !.here = FALSE]] IN
  /\ Leaves /\ next # root /\ root' = next
  /\ open' = {p \in open : isUnder(p, next)}
  /\ selected' = {r \in selected : isUnder(r.path, next)}
  /\ fetchFolder(pruned, Disowned(elsewhere), next)
  /\ UNCHANGED <<disk, asking, deleting>>

toggleFolder(p) ==
  /\ Leaves /\ Entry(p, TRUE) \in Shown
  /\ IF p \in open THEN open' = open \ {p} /\ UNCHANGED listings /\ wire' = Disowned(wire)
     ELSE open' = open \cup {p} /\ fetchFolder(listings, Disowned(wire), p)
  /\ selected' = {Entry(p, TRUE)}
  /\ UNCHANGED <<disk, root, asking, deleting>>

\* Ctrl+click and Shift+click: any rows that are shown.
Selects(rows) ==
  /\ Leaves /\ selected' = rows /\ wire' = Disowned(wire)
  /\ UNCHANGED <<disk, root, open, listings, asking, deleting>>

\* The Refresh of the root's menu.
refreshRoot ==
  LET kept == {p \in Known : p = root \/ ~isUnder(p, root)}
      asked == {root} \cup {p \in open : isUnder(p, root)} IN
  /\ Leaves /\ wire' = ListAll(Disowned(wire), asked)
  /\ listings' = [p \in kept \cup asked |-> IF p \in kept /\ listings[p] # Failed THEN listings[p] ELSE Loading]
  /\ UNCHANGED <<disk, root, open, selected, asking, deleting>>

-----------------------------------------------------------------------------
(* Names. A row is for one folder (a new entry) or in the place of one row *)
(* (a rename); Enter sends it once.                                        *)
startCreate(dir, folder) ==
  /\ Gesture /\ (dir = root \/ Entry(dir, TRUE) \in Shown)
  /\ row' = [for |-> "create", path |-> dir, dir |-> folder, busy |-> FALSE]
  /\ IF dir = root \/ dir \in open THEN UNCHANGED <<open, listings>> /\ wire' = Disowned(wire)
     ELSE open' = open \cup {dir} /\ fetchFolder(listings, Disowned(wire), dir)
  /\ UNCHANGED <<disk, root, selected, asking, deleting>>

isRenamable(p) == p # root /\ \A r \in Roots : ~isUnder(r, p)
startRename(r) ==
  /\ Gesture /\ r \in Shown /\ isRenamable(r.path) /\ deleting = NoItems
  /\ row' = [for |-> "rename", path |-> r.path, dir |-> r.dir, busy |-> FALSE]
  /\ wire' = Disowned(wire)
  /\ UNCHANGED <<disk, root, open, listings, selected, asking, deleting>>

\* Enter: commitCreate, commitRename. The same name again is a cancel.
Commits(n) ==
  /\ row # NoRow /\ ~row.busy /\ asking = NoItems
  /\ row.for = "rename" => Last(row.path) # n /\ deleting = NoItems
  /\ row' = [row EXCEPT !.busy = TRUE]
  /\ wire' = Append(wire, [Request(row.for, row.path) EXCEPT !.name = n, !.dir = row.dir])
  /\ UNCHANGED <<disk, root, open, listings, selected, asking, deleting, gestures>>

\* Escape.
Cancels ==
  /\ row # NoRow /\ asking = NoItems /\ row' = NoRow /\ wire' = Disowned(wire)
  /\ UNCHANGED <<disk, root, open, listings, selected, asking, deleting, gestures>>

\* Delete on a row: the rows chosen, or that row alone, are what is asked about.
runDelete(clicked) ==
  /\ Leaves /\ clicked \in Shown /\ deleting = NoItems
  /\ asking' = {r \in IF clicked \in selected THEN selected ELSE {clicked} : r.path \notin Roots}
  /\ asking' # NoItems /\ wire' = Disowned(wire)
  /\ UNCHANGED <<disk, root, open, listings, selected, deleting>>
Answers(yes) ==
  /\ asking # NoItems /\ asking' = NoItems
  /\ IF yes THEN /\ deleting' = asking
                 /\ wire' = Append(wire, [Request("delete", <<>>) EXCEPT !.items = asking])
     ELSE UNCHANGED <<deleting, wire>>
  /\ UNCHANGED <<disk, root, open, listings, selected, row, gestures>>

-----------------------------------------------------------------------------
(* The routes.                                                             *)
Target(q) == IF q.op = "create" THEN Append(q.path, q.name) ELSE renamedPath(q.path, q.name)
Gone(q) == UNION {Under(r.path) : r \in q.items}

Works(q) == CASE q.op = "list" -> IsDir(q.path)
              [] q.op = "create" -> IsDir(q.path) /\ ~Taken(Target(q))
              [] q.op = "rename" -> Taken(q.path) /\ ~Taken(Target(q))
              [] q.op = "delete" -> TRUE
Changed(q) == CASE q.op = "list" -> disk
                [] q.op = "create" -> disk \cup {Entry(Target(q), q.dir)}
                [] q.op = "rename" -> {remapRow(e, q.path, Target(q)) : e \in disk}
                [] q.op = "delete" -> disk \ Gone(q)

\* What the answer carries: a folder's entries, or the rows that stayed.
Carries(q) == IF q.op = "list" THEN Below(q.path)
              ELSE {r \in q.items : Under(r.path) = {}}

Serves(i) ==
  LET q == wire[i] IN
  /\ q.step = "sent" /\ (Fifo => \A k \in 1..(i - 1) : wire[k].step = "answered")
  /\ disk' = IF Works(q) THEN Changed(q) ELSE disk
  /\ wire' = [wire EXCEPT ![i].step = "answered", ![i].ok = Works(q), ![i].entries = Carries(q)]
  /\ UNCHANGED <<root, panel, gestures>>

-----------------------------------------------------------------------------
(* The answers. Painting them drops a name row that has no place left.     *)
Placed(r, l, ro, o, w) ==
  CASE r.for = "none" -> TRUE
    [] r.for = "create" -> r.path = ro \/ (r.path \in o /\ Entry(r.path, TRUE) \in fsRows(l, ro, o))
    [] r.for = "rename" -> \/ Entry(r.path, r.dir) \in fsRows(l, ro, o)
                           \/ \E i \in 1..Len(w) : /\ w[i].op = "list" /\ w[i].path # r.path
                                                  /\ isUnder(r.path, w[i].path)

\* The row, the requests and the listings an answer leaves, once painted.
Paints(r, l, w, o) ==
  LET stays == Placed(r, l, root, o, w) IN
  /\ row' = IF stays THEN r ELSE NoRow
  /\ wire' = IF stays THEN w ELSE Disowned(w)
  /\ listings' = l /\ open' = o

Without(i) == RemoveAt(wire, i)
With(l, p, what) == [q \in DOMAIN l \cup {p} |-> IF q = p THEN what ELSE l[q]]
Fetched(r, l, w, o, paths) ==
  Paints(r, FoldLeft(LAMBDA acc, p : Awaits(acc, w, p), l, SetToSeq(paths)), ListAll(w, paths), o)

TakesListing(q, w) ==
  /\ q.op = "list"
  /\ IF q.here THEN Paints(row, With(listings, q.path, IF q.ok THEN Ready(q.entries) ELSE Failed), w, open)
     ELSE wire' = w /\ UNCHANGED <<row, listings, open>>
  /\ UNCHANGED <<selected, deleting>>

\* A refusal is shown under the row, if it is still that row.
TakesRefusal(q, w) ==
  /\ q.op \in {"create", "rename"} /\ ~q.ok
  /\ IF q.mine /\ q.here THEN Paints([row EXCEPT !.busy = FALSE], listings, w, open)
     ELSE wire' = w /\ UNCHANGED <<row, listings, open>>
  /\ UNCHANGED <<selected, deleting>>

\* (TakesCreatedAsOurs: a mutant that looks at no token.)
TakesCreatedAsOurs(q, w) ==
  /\ q.op = "create" /\ q.ok /\ UNCHANGED <<deleting, selected>>
  /\ IF q.here THEN Fetched(NoRow, listings, w, open, {q.path})
     ELSE wire' = w /\ UNCHANGED <<row, listings, open>>
TakesCreated(q, w) ==
  LET made == Entry(Target(q), q.dir) IN
  /\ q.op = "create" /\ q.ok /\ UNCHANGED deleting
  /\ IF ~q.here THEN wire' = w /\ UNCHANGED <<row, listings, open, selected>>
     ELSE IF ~q.mine THEN Fetched(row, listings, w, open, {q.path}) /\ UNCHANGED selected
     ELSE IF q.dir THEN /\ selected' = {made}
                        /\ Fetched(NoRow, listings, w, open \cup {made.path}, {made.path, q.path})
     ELSE Fetched(NoRow, listings, w, open, {q.path}) /\ UNCHANGED selected

TakesRenamed(q, w) ==
  LET to == Target(q)
      moved(p) == remapPath(p, q.path, to)
      l == [p \in {moved(k) : k \in Known} |-> listings[CHOOSE k \in Known : moved(k) = p]]
      o == {moved(p) : p \in open}
      mine == q.mine
      r == IF mine THEN NoRow ELSE IF row.for = "rename" THEN remapRow(row, q.path, to) ELSE row IN
  /\ q.op = "rename" /\ q.ok /\ UNCHANGED deleting
  /\ IF ~q.here THEN wire' = w /\ UNCHANGED <<row, listings, open, selected>>
     ELSE /\ selected' = IF mine THEN {Entry(to, q.dir)} ELSE {remapRow(s, q.path, to) : s \in selected}
          /\ Fetched(r, l, w, o, {parentPath(q.path)})

finishDelete(q, w) ==
  LET gone == q.items \ q.entries
      dead == {p \in open \cup Known : \E r \in gone : r.dir /\ isUnder(p, r.path)}
      l == [p \in Known \ dead |-> listings[p]]
      parents == {parentPath(r.path) : r \in q.items} \cap ({root} \cup (open \ dead)) IN
  /\ q.op = "delete" /\ deleting' = NoItems
  /\ selected' = selected \ gone
  /\ Fetched(row, l, w, open \ dead, parents)

Takes(i) ==
  LET q == wire[i] IN
  /\ q.step = "answered" /\ (Fifo => i = 1)
  /\ \/ TakesListing(q, Without(i)) \/ TakesRefusal(q, Without(i))
     \/ TakesCreated(q, Without(i)) \/ TakesRenamed(q, Without(i)) \/ finishDelete(q, Without(i))
  /\ UNCHANGED <<disk, root, asking, gestures>>

Uses ==
  \/ \E r \in Roots : setRoot(r)
  \/ \E r \in Shown : startRename(r) \/ runDelete(r) \/ toggleFolder(r.path)
  \/ \E rows \in SUBSET Shown : Cardinality(rows) \in 1..2 /\ Selects(rows)
  \/ refreshRoot \/ Cancels
  \/ \E r \in Shown \cup {Entry(root, TRUE)}, folder \in BOOLEAN : startCreate(r.path, folder)
  \/ \E n \in Names : Commits(n)
  \/ \E yes \in BOOLEAN : Answers(yes)

TreeNext == Uses \/ \E i \in 1..Len(wire) : Serves(i) \/ Takes(i)
TreeSpec == TreeInit /\ [][TreeNext]_treeVars

-----------------------------------------------------------------------------
Quiet == wire = <<>>

\* With no request under way, the panel shows its root as it is on the disk:
\* the answers of the root before, and of names given there, changed nothing.
RootKeepsUp == Quiet => root \in Known /\ listings[root] \in {Failed, Ready(Below(root))}

\* And the folders in it that are open.
FoldersKeepUp ==
  Quiet => \A p \in Known \cap open : listings[p].k = "ready" /\ Entry(p, TRUE) \in Shown
                                       => listings[p].entries = Below(p)

\* files-naming.ts:507: "so the renamed folder comes back open, with its rows".
NothingLoadsForever ==
  Quiet => \A p \in open : Entry(p, TRUE) \in Shown => p \in Known /\ listings[p] # Loading

\* An answer takes the name row away only when it is that row's own, or when
\* the row has no place left in the tree. (Of answers in the order asked.)
RowEndsForAReason ==
  [][row # NoRow /\ row' = NoRow =>
       \/ gestures' # gestures \/ Disowned(wire) = wire'
       \/ Head(wire).mine /\ Head(wire).op = row.for
       \/ ~Placed(row, listings', root, open', wire')]_treeVars
=============================================================================
