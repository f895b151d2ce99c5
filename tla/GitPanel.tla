------------------------------ MODULE GitPanel ------------------------------
(***************************************************************************)
(* The Changes and Commits tabs of the Files panel and the commit view     *)
(* beside them (ui/files-git.ts, ui/commit-store.ts, ui/commit-view.ts),   *)
(* over the routes of server/git.ts and git-log.ts, which run one git      *)
(* command after another while other programs move the branch.             *)
(* A history is linear: a commit is a number, its log counts down to 1,    *)
(* and 0 is the head of a repository nobody has committed to. What a diff  *)
(* holds and how a row is drawn are left out.                              *)
(***************************************************************************)
EXTENDS Naturals, Sequences, SequencesExt

CONSTANTS Roots,       \* folders the panel can show, each a repository of its own, or none
          Branches,
          Page,        \* COMMITS_PAGE
          MaxHead,     \* bound: commits of a repository
          MaxMoves,    \* bound: what git does besides
          MaxFails,    \* bound: requests that fail
          MaxGestures, \* bound: what the user does
          None

VARIABLES
  repo,      \* root -> [is, head, top, branch], on the disk; grew: git did no more than commit
  panelRoot, \* currentPath
  tab,       \* wish, and whether the panel is on the screen
  changes,   \* the answer of the Changes tab, "error", or none
  list,      \* the Commits tab: rows, and the head, branch and more of its page one
  viewed,    \* openCommit and openCommitAt
  store,     \* what commit-store.ts holds of it
  flights,   \* requests
  moves, fails, uses

gitVars == <<repo, panelRoot, tab, changes, list, viewed, store, flights, moves, fails, uses>>

Log(h) == [i \in 1..h |-> h + 1 - i]
NoList == [rows |-> None, is |-> TRUE, head |-> 0, branch |-> None, more |-> FALSE, error |-> FALSE]
NotAsked == [k |-> "none"]
Changed(r) == [k |-> "ready", root |-> r, is |-> repo[r].is, branch |-> repo[r].branch, head |-> repo[r].head]

\* A request remembers the generation it was asked in; a commit's, and those of
\* its diffs, the commit the store held. `here`: it is still that one.
Request(op, root) == [op |-> op, root |-> root, skip |-> 0, from |-> None, here |-> TRUE,
                      step |-> "sent", ok |-> FALSE, branch |-> None, res |-> NotAsked]

PagesOfRows == None \notin Nat /\ Page \in Nat \ {0} /\ MaxHead \in Nat /\ Roots # {} /\ Branches # {}

GitInit ==
  /\ LET start == CHOOSE b \in Branches : TRUE IN
     repo \in [Roots -> {[is |-> n > 0, head |-> n, top |-> n, branch |-> start, grew |-> TRUE] : n \in {0, 2}}]
  /\ panelRoot = (CHOOSE r \in Roots : TRUE) /\ tab = [wish |-> "files", shown |-> TRUE]
  /\ changes = NotAsked /\ list = NoList
  /\ viewed = None /\ store = None
  /\ flights = {Request("changes", panelRoot)} /\ moves = 0 /\ fails = 0 /\ uses = 0

GitTypeOK ==
  /\ panelRoot \in Roots /\ tab.wish \in {"files", "changes", "commits"}
  /\ list.rows = None \/ \A i \in DOMAIN list.rows : list.rows[i] \in 1..MaxHead
  /\ viewed # None => viewed.hash \in 1..MaxHead /\ viewed.root \in Roots
  /\ \A f \in flights : f.op \in {"changes", "page", "more", "commit", "diff"} /\ f.step \in {"sent", "branch", "answered"}

-----------------------------------------------------------------------------
(* Asking.                                                                 *)
InFlight(fs, op) == \E f \in fs : f.op = op /\ f.here
Ask(fs, q) == IF InFlight(fs, q.op) THEN fs ELSE fs \cup {q}
fetchChanges(fs, root) == Ask(fs, Request("changes", root))
fetchCommits(fs, root, skip) ==
  Ask(fs, IF skip = 0 THEN Request("page", root)
          ELSE [Request("more", root) EXCEPT !.skip = skip, !.from = IF list.head = 0 THEN None ELSE list.head])
Elsewhere(fs, ops) == {IF f.op \in ops THEN [f EXCEPT !.here = FALSE] ELSE f : f \in fs}

Repository(c) == c.k = "ready" /\ c.is
visibleTab(wish, c) == IF c.k = "ready" /\ ~c.is THEN "files" ELSE wish
Visible == visibleTab(tab.wish, changes)

\* closeOrphanedCommit and syncCommit, which every render calls.
syncCommit(v, fs) ==
  /\ viewed' = v
  /\ IF v = None THEN store' = None /\ flights' = Elsewhere(fs, {"commit", "diff"})
     ELSE IF store # None /\ store.hash = v.hash /\ store.root = v.root THEN UNCHANGED store /\ flights' = fs
     ELSE /\ store' = [hash |-> v.hash, root |-> v.root, k |-> "loading", diff |-> "none"]
          /\ flights' = Elsewhere(fs, {"commit", "diff"}) \cup {[Request("commit", v.root) EXCEPT !.from = v.hash]}

\* A render asks for the history when nothing has asked for it yet.
Rendered(fs, c, l, t, returning) ==
  LET unasked == l.rows = None /\ ~l.error /\ ~InFlight(fs, "page") IN
  IF t.shown /\ visibleTab(t.wish, c) = "commits" /\ (returning \/ unasked) THEN fetchCommits(fs, panelRoot', 0) ELSE fs

Uses == uses < MaxGestures /\ uses' = uses + 1 /\ UNCHANGED <<repo, moves, fails>>

setTab(next) ==
  /\ Uses /\ tab.shown /\ tab.wish # next /\ (next = "files" \/ Repository(changes))
  /\ tab' = [tab EXCEPT !.wish = next]
  /\ flights' = CASE next = "changes" -> fetchChanges(flights, panelRoot)
                  [] next = "commits" -> fetchCommits(flights, panelRoot, 0)
                  [] OTHER -> flights
  /\ UNCHANGED <<panelRoot, changes, list, viewed, store>>

\* The panel comes back on the screen, or its root is another: setRoot, and the
\* commit of the root before is closed. (ShowsStaleChanges: a mutant that keeps
\* the Changes answer of the root before.)
ShowsStaleChanges(r) ==
  LET fs == fetchChanges(IF r # panelRoot THEN Elsewhere(flights, {"changes", "page", "more"}) ELSE flights, r) IN
  /\ Uses /\ (tab.shown => r # panelRoot) /\ panelRoot' = r /\ tab' = [tab EXCEPT !.shown = TRUE]
  /\ UNCHANGED changes
  /\ list' = IF r # panelRoot THEN NoList ELSE list
  /\ syncCommit(IF r # panelRoot THEN None ELSE viewed, Rendered(fs, changes, list', tab', ~tab.shown))
Shows(r) ==
  LET moved == r # panelRoot
      fs == fetchChanges(IF moved THEN Elsewhere(flights, {"changes", "page", "more"}) ELSE flights, r) IN
  /\ Uses /\ (tab.shown => moved) /\ panelRoot' = r /\ tab' = [tab EXCEPT !.shown = TRUE]
  /\ changes' = IF moved THEN NotAsked ELSE changes
  /\ list' = IF moved THEN NoList ELSE list
  /\ syncCommit(IF moved THEN None ELSE viewed, Rendered(fs, changes', list', tab', ~tab.shown))
Hides ==
  /\ Uses /\ tab.shown /\ tab' = [tab EXCEPT !.shown = FALSE]
  /\ UNCHANGED <<panelRoot, changes, list, viewed, store, flights>>

ShowMore ==
  /\ tab.shown /\ Visible = "commits" /\ viewed = None /\ Uses
  /\ list.rows # None /\ list.is /\ list.head # 0 /\ list.more /\ ~InFlight(flights, "more")
  /\ flights' = fetchCommits(flights, panelRoot, Len(list.rows))
  /\ UNCHANGED <<panelRoot, tab, changes, list, viewed, store>>

openCommitView(h) ==
  /\ tab.shown /\ Visible = "commits" /\ viewed = None /\ Uses
  /\ list.rows # None /\ list.is /\ h \in Range(list.rows)
  /\ syncCommit([hash |-> h, root |-> panelRoot, repoRoot |-> IF Repository(changes) THEN changes.root ELSE None], flights)
  /\ UNCHANGED <<panelRoot, tab, changes, list>>
closeCommitView == viewed # None /\ Uses /\ syncCommit(None, flights) /\ UNCHANGED <<panelRoot, tab, changes, list>>

\* A block of a file is drawn unfolded: its diff is asked for once.
askDiff ==
  /\ store # None /\ store.k = "ready" /\ store.diff = "none" /\ store' = [store EXCEPT !.diff = "loading"]
  /\ flights' = Ask(flights, [Request("diff", store.root) EXCEPT !.from = store.hash])
  /\ UNCHANGED <<repo, panelRoot, tab, changes, list, viewed, moves, fails, uses>>

\* The poll: what it asks is decided when it fires.
Polls ==
  /\ tab.shown /\ Visible # "files"
  /\ flights' = IF Visible = "changes" THEN fetchChanges(flights, panelRoot) ELSE fetchCommits(flights, panelRoot, 0)
  /\ UNCHANGED <<repo, panelRoot, tab, changes, list, viewed, store, moves, fails, uses>>

-----------------------------------------------------------------------------
(* Other programs, and the routes.                                         *)
Moves(r) ==
  /\ moves < MaxMoves /\ moves' = moves + 1
  /\ \/ /\ repo[r].is /\ repo[r].head = repo[r].top /\ repo[r].top < MaxHead   \* a commit
        /\ repo' = [repo EXCEPT ![r].head = @ + 1, ![r].top = @ + 1]
     \/ /\ repo[r].is
        /\ \E h \in 1..repo[r].top, b \in Branches :
             /\ <<h, b>> # <<repo[r].head, repo[r].branch>>
             /\ repo' = [repo EXCEPT ![r].head = h, ![r].branch = b, ![r].grew = FALSE]
     \/ repo' = [repo EXCEPT ![r].is = ~@, ![r].head = 0, ![r].top = 0, ![r].grew = FALSE]
  /\ UNCHANGED <<panelRoot, tab, changes, list, viewed, store, flights, fails, uses>>

PageOf(f, h) == [k |-> "ready", is |-> repo[f.root].is, branch |-> f.branch, head |-> h,
                 rows |-> SubSeq(Log(h), f.skip + 1, IF h < f.skip + Page THEN h ELSE f.skip + Page), more |-> h > f.skip + Page]
Found(f) == repo[f.root].is /\ f.from <= repo[f.root].top

\* collectChanges; commitsFor, which reads the branch first; commitFor and
\* commitDiffFor, which find one commit.
Reads(f) ==
  LET R == repo[f.root]
      Answered(ok, res) == [f EXCEPT !.step = "answered", !.ok = ok, !.res = res] IN
  CASE f.op = "changes" -> Answered(TRUE, Changed(f.root))
    [] f.op \in {"commit", "diff"} -> Answered(Found(f), NotAsked)
    [] f.op \in {"page", "more"} /\ f.step = "sent" ->
         IF R.is THEN [f EXCEPT !.step = "branch", !.branch = R.branch] ELSE Answered(TRUE, PageOf(f, 0))
    [] f.op \in {"page", "more"} /\ f.step = "branch" ->
         IF ~R.is \/ (f.from # None /\ ~Found(f)) THEN Answered(FALSE, NotAsked)
         ELSE Answered(TRUE, PageOf(f, IF f.from = None THEN R.head ELSE f.from))
Serves(f) ==
  /\ f.step # "answered" /\ flights' = (flights \ {f}) \cup {Reads(f)}
  /\ UNCHANGED <<repo, panelRoot, tab, changes, list, viewed, store, moves, fails, uses>>
Fails(f) ==
  /\ f.step # "answered" /\ fails < MaxFails /\ fails' = fails + 1
  /\ flights' = (flights \ {f}) \cup {[f EXCEPT !.step = "answered"]}
  /\ UNCHANGED <<repo, panelRoot, tab, changes, list, viewed, store, moves, uses>>

-----------------------------------------------------------------------------
(* The answers. The render that follows may ask again.                     *)
\* takePage. (takePageUnpinned: a mutant that compares no heads; takePageKeeps:
\* one whose page one never takes rows away.)
takePageKeeps(res, skip) ==
  LET page == [is |-> TRUE, head |-> res.head, branch |-> res.branch, more |-> res.more, error |-> FALSE, rows |-> res.rows] IN
  IF ~res.is THEN [list EXCEPT !.is = FALSE, !.rows = <<>>, !.head = 0, !.more = FALSE, !.error = FALSE]
  ELSE IF skip = 0 /\ list.rows \in {None, <<>>} THEN page
  ELSE IF skip > 0 /\ list.rows # None /\ res.head = list.head THEN [page EXCEPT !.rows = list.rows \o res.rows]
  ELSE [list EXCEPT !.is = TRUE, !.error = FALSE]
takePageUnpinned(res, skip) ==
  LET page == [is |-> TRUE, head |-> res.head, branch |-> res.branch, more |-> res.more, error |-> FALSE, rows |-> res.rows] IN
  IF ~res.is THEN [list EXCEPT !.is = FALSE, !.rows = <<>>, !.head = 0, !.more = FALSE, !.error = FALSE]
  ELSE IF list.rows = None \/ skip = 0 THEN page
  ELSE [page EXCEPT !.rows = list.rows \o res.rows]
takePage(res, skip) ==
  LET page == [is |-> TRUE, head |-> res.head, branch |-> res.branch, more |-> res.more, error |-> FALSE, rows |-> res.rows]
      same == list.rows # None /\ res.head = list.head IN
  IF ~res.is THEN [list EXCEPT !.is = FALSE, !.rows = <<>>, !.head = 0, !.more = FALSE, !.error = FALSE]
  ELSE IF skip = 0 THEN IF same THEN [list EXCEPT !.is = TRUE, !.error = FALSE] ELSE page
  ELSE IF same THEN [page EXCEPT !.rows = list.rows \o res.rows] ELSE [list EXCEPT !.is = TRUE, !.error = FALSE]

\* noteCommitRepoRoot.
Notes(root) == viewed # None /\ viewed.root = root /\ viewed.repoRoot = None

TakesChanges(f, rest) ==
  /\ f.op = "changes" /\ f.here /\ changes' = IF f.ok THEN f.res ELSE [k |-> "error"]
  /\ viewed' = IF f.ok /\ f.res.is /\ Notes(f.root) THEN [viewed EXCEPT !.repoRoot = f.root] ELSE viewed
  /\ flights' = Rendered(rest, changes', list, tab, FALSE)
  /\ UNCHANGED <<list, store>>
TakesPage(f, rest) ==
  /\ f.op \in {"page", "more"} /\ f.here
  /\ list' = IF f.ok THEN takePage(f.res, f.skip)
             ELSE [list EXCEPT !.error = TRUE, !.rows = IF f.op = "page" THEN None ELSE @]
  /\ flights' = Rendered(rest, changes, list', tab, FALSE)
  /\ UNCHANGED <<changes, viewed, store>>
TakesCommit(f, rest) ==
  /\ f.op \in {"commit", "diff"} /\ f.here /\ flights' = rest
  /\ LET k == IF f.ok THEN "ready" ELSE "error" IN
     store' = IF f.op = "commit" THEN [store EXCEPT !.k = k] ELSE [store EXCEPT !.diff = k]
  /\ UNCHANGED <<changes, list, viewed>>
Drops(f, rest) == ~f.here /\ flights' = rest /\ UNCHANGED <<changes, list, viewed, store>>

Takes(f) ==
  /\ f.step = "answered"
  /\ UNCHANGED <<repo, panelRoot, tab, moves, fails, uses>>
  /\ \/ TakesChanges(f, flights \ {f}) \/ TakesPage(f, flights \ {f})
     \/ TakesCommit(f, flights \ {f}) \/ Drops(f, flights \ {f})

Answers == \E f \in flights : Serves(f) \/ Takes(f)
GitNext ==
  \/ \E next \in {"files", "changes", "commits"} : setTab(next)
  \/ \E r \in Roots : Shows(r) \/ Moves(r)
  \/ Hides \/ ShowMore \/ closeCommitView \/ askDiff \/ Polls
  \/ \E h \in 1..MaxHead : openCommitView(h)
  \/ Answers \/ \E f \in flights : Fails(f)

\* The interval fires while it is armed, and every request is answered.
GitFairness == WF_gitVars(Polls) /\ WF_gitVars(Answers)
GitSpec == GitInit /\ [][GitNext]_gitVars /\ GitFairness

-----------------------------------------------------------------------------
\* "A commit landing mid-browse cannot shift a row into the next page or
\* repeat one" (files-git.ts:146): while git does no more than commit and no
\* request fails, the rows are the beginning of the log of their head, none
\* missing and none twice, whenever pages and polls come back.
RowsAreHistory ==
  fails = 0 /\ repo[panelRoot].grew /\ list.rows # None /\ list.is =>
    /\ Len(list.rows) <= list.head
    /\ \A i \in 1..Len(list.rows) : list.rows[i] = Log(list.head)[i]

\* "... or repeat one", without these conditions: when the first page failed,
\* or the head went and came back, a page still on its way is put after rows it
\* does not follow, and the next one repeats it: it does not hold.
RowsInOrder ==
  list.rows # None /\ list.is =>
    \A i \in 1..(Len(list.rows) - 1) : list.rows[i] > list.rows[i + 1]

\* `Open file` of the commit view opens a file of the repository the commit
\* was read from, whatever folder the panel shows when that one is learned.
OpensInItsRepository == viewed # None => viewed.repoRoot \in {None, viewed.root}

\* Once the repository is left alone, a panel that stays on a watching tab shows
\* the head it has: no failed, late or dropped answer stops the poll.
Watching(t) == tab.shown /\ Visible = t
HeadIsShown ==
  /\ Watching("changes") /\ changes.k = "ready" => changes = Changed(panelRoot)
  /\ Watching("commits") => list.rows # None /\ list.head = repo[panelRoot].head
WatchedTabKeepsUp == <>[]HeadIsShown

\* files-git.ts:151: "the same head means nothing changed".
BranchKeepsUp == <>[]Watching("commits") => <>[](list.is => list.branch = repo[panelRoot].branch)
=============================================================================
