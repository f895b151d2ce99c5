------------------------------- MODULE Editor -------------------------------
(***************************************************************************)
(* One file in the editor: the bodies that show it (web/src/ui/file-pane.ts*)
(* and editor-store.ts), the text that is not saved (state.edits), and the *)
(* two routes that read and write it (server/fstext.ts), with the agents   *)
(* and editors that write the same file meanwhile, and a backend that dies *)
(* between the truncation and the write. What a file holds is a number,    *)
(* never used twice; the stamp of a file is its content.                   *)
(***************************************************************************)
EXTENDS Integers, Sequences

CONSTANTS Panes,       \* the panes that may show the file
          Patient,     \* TRUE: the user waits for the answer of "Load from disk"
          MaxContents, \* bound: what is typed, written and torn
          MaxBuilds,   \* bound: bodies built
          MaxCrashes,  \* bound: backends that die
          None

TextsApart == None \notin Int

VARIABLES
  disk,     \* what the file holds, Gone without one
  history,  \* what it held so far
  contents, \* numbers given
  edit,     \* the unsaved text, None
  typedOver,\* what stood on the screen when it was begun
  pane,     \* per pane the body in it, None
  wire,     \* requests under way
  writing,  \* the write the backend is in the middle of, None
  built, crashes

vars == <<disk, history, contents, edit, typedOver, pane, wire, writing, built, crashes>>
typist == <<edit, typedOver>>
filing == <<disk, history, contents, writing>>

Gone == 0
FirstContent == 1
Open == {b \in Panes : pane[b] # None}
Fields == {b \in Open : pane[b].field}
Dirty == edit # None

Fresh == contents + 1
Held(c) == disk' = c /\ history' = Append(history, c)
\* The file held d when it held c, or afterwards.
NoOlder(c, d) == \E i, j \in DOMAIN history : i <= j /\ history[i] = c /\ history[j] = d

EditorTypeOK ==
  /\ disk \in -MaxContents..MaxContents /\ contents \in 1..MaxContents
  /\ edit \in {None} \cup 1..MaxContents
  /\ \A b \in Open : pane[b].stamp \in {None} \cup -MaxContents..MaxContents /\ pane[b].out >= 0

Init ==
  /\ disk = FirstContent /\ history = <<FirstContent>> /\ contents = FirstContent
  /\ edit = None /\ typedOver = None /\ pane = [b \in Panes |-> None] /\ wire = {} /\ writing = None
  /\ built = 0 /\ crashes = 0

-----------------------------------------------------------------------------
(* Requests. One names the body that sent it, which may be gone when the   *)
(* answer comes, and what the body held then. gen is counted from the last *)
(* follow of the body, which is sent with nothing else under way: 0, and 1 *)
(* once a save or a load has moved the body on.                            *)
Ask(b, body, op) == [pane |-> b, body |-> body.id, op |-> op, gen |-> body.gen, sent |-> body.stamp,
               heir |-> body.heir, text |-> None, expect |-> None, over |-> None, state |-> "sent", got |-> None]
Mine(r) == pane[r.pane] # None /\ pane[r.pane].id = r.body
Answer(r, state, got) == wire' = (wire \ {r}) \cup {[r EXCEPT !.state = state, !.got = got]}
Waiting(op) == {r \in wire : r.op = op /\ r.state = "sent" /\ r # writing}
Back(op) == {r \in wire : r.op = op /\ r.state # "sent"}
Loading == \E r \in wire : r.op = "load"
UserActs == Patient => ~Loading

(* filePaneBody: a tab that comes up builds a body, which reads once.      *)
Builds(b) ==
  /\ pane[b] = None /\ built < MaxBuilds /\ UserActs
  /\ built' = built + 1
  /\ LET body == [id |-> built + 1, field |-> FALSE, stamp |-> None, shown |-> None, out |-> 1,
                  saving |-> FALSE, gen |-> 0, conflict |-> FALSE, heir |-> FALSE] IN
     pane' = [pane EXCEPT ![b] = body] /\ wire' = wire \cup {Ask(b, body, "first")}
  /\ UNCHANGED <<filing, typist, crashes>>
(* dispose: a tab that goes out of sight takes its bodies down; their      *)
(* requests go on.                                                         *)
Disposes(b) ==
  /\ b \in Open /\ UserActs
  /\ pane' = [pane EXCEPT ![b] = None]
  /\ UNCHANGED <<filing, typist, wire, built, crashes>>

BodyAfter(r, changes) == pane' = IF Mine(r) THEN [pane EXCEPT ![r.pane] = changes] ELSE pane
Returned(r) == [pane[r.pane] EXCEPT !.out = @ - 1]
Sentence(body) == [body EXCEPT !.field = FALSE, !.stamp = None, !.shown = None, !.conflict = FALSE]

FirstAnswers == \E r \in Back("first") :
  /\ wire' = wire \ {r}
  /\ BodyAfter(r, IF r.state = "ok"
                  THEN [Returned(r) EXCEPT !.stamp = r.got, !.field = TRUE, !.heir = Dirty,
                                            !.shown = IF Dirty THEN edit ELSE r.got]
                  ELSE IF Dirty THEN [Returned(r) EXCEPT !.stamp = None, !.conflict = TRUE, !.field = TRUE, !.heir = TRUE,
                                                         !.shown = edit]
                  ELSE Sentence(Returned(r)))
  /\ UNCHANGED <<filing, typist, built, crashes>>

(* onEdit.                                                                 *)
Types(b) ==
  /\ b \in Fields /\ contents < MaxContents /\ UserActs
  /\ contents' = Fresh /\ edit' = Fresh
  /\ typedOver' = IF Dirty THEN typedOver ELSE pane[b].shown
  /\ pane' = [pane EXCEPT ![b].shown = Fresh]
  /\ UNCHANGED <<disk, history, wire, writing, built, crashes>>

(* saveNow: the Save of the bar and ctrl+s carry the stamp, Overwrite none.*)
Saves(b) == \E withExpect \in BOOLEAN :
  /\ b \in Fields /\ ~pane[b].saving /\ Dirty /\ UserActs
  /\ withExpect \/ pane[b].conflict
  /\ pane' = [pane EXCEPT ![b].saving = TRUE, ![b].gen = 1, ![b].out = @ + 1, ![b].conflict = FALSE]
  /\ wire' = wire \cup {[Ask(b, pane[b], "write") EXCEPT !.text = edit,
                                                         !.expect = IF withExpect THEN pane[b].stamp ELSE None,
                                                         !.over = IF withExpect THEN typedOver ELSE None]}
  /\ UNCHANGED <<filing, typist, built, crashes>>
(* Mutant of SaveAnswers: what was typed meanwhile is forgotten too.       *)
SaveAnswersForgets == \E r \in Back("write") :
  /\ wire' = wire \ {r}
  /\ BodyAfter(r, IF r.state = "ok" THEN [Returned(r) EXCEPT !.saving = FALSE, !.stamp = r.text]
                  ELSE [Returned(r) EXCEPT !.saving = FALSE, !.conflict = r.state \in {"changed", "gone"}])
  /\ IF r.state = "ok" THEN edit' = None /\ UNCHANGED typedOver ELSE UNCHANGED typist
  /\ UNCHANGED <<filing, built, crashes>>
(* The text is forgotten when it is the one that landed: what was typed in *)
(* the body meanwhile stays, over what was saved.                          *)
SaveAnswers == \E r \in Back("write") :
  /\ wire' = wire \ {r}
  /\ BodyAfter(r, IF r.state = "ok" THEN [Returned(r) EXCEPT !.saving = FALSE, !.stamp = r.text]
                  ELSE [Returned(r) EXCEPT !.saving = FALSE, !.conflict = r.state \in {"changed", "gone"}])
  /\ edit' = IF r.state = "ok" /\ edit = r.text THEN None ELSE edit
  /\ typedOver' = IF r.state = "ok" /\ Mine(r) THEN r.text ELSE typedOver
  /\ UNCHANGED <<filing, built, crashes>>

(* loadFromDisk: the user gives the text up for what is on disk.           *)
Loads(b) ==
  /\ b \in Fields /\ pane[b].conflict /\ pane[b].out = 0 /\ UserActs
  /\ pane' = [pane EXCEPT ![b].gen = 1, ![b].out = @ + 1]
  /\ wire' = wire \cup {Ask(b, pane[b], "load")}
  /\ UNCHANGED <<filing, typist, built, crashes>>
LoadAnswers == \E r \in Back("load") :
  /\ wire' = wire \ {r}
  /\ BodyAfter(r, IF r.state = "ok" THEN [Returned(r) EXCEPT !.stamp = r.got, !.shown = r.got, !.conflict = FALSE]
                  ELSE [Returned(r) EXCEPT !.conflict = TRUE])
  /\ edit' = IF r.state = "ok" THEN None ELSE edit
  /\ UNCHANGED <<filing, typedOver, built, crashes>>

(* followTick: every five seconds a body that has nothing unsaved and      *)
(* nothing under way asks whether the file is still the one it shows.      *)
Follows(b) ==
  /\ b \in Open /\ pane[b].stamp # None /\ ~Dirty /\ pane[b].out = 0
  /\ pane' = [pane EXCEPT ![b].gen = 0, ![b].out = @ + 1]
  /\ wire' = wire \cup {[Ask(b, pane[b], "follow") EXCEPT !.gen = 0]}
  /\ UNCHANGED <<filing, typist, built, crashes>>
(* Mutant of Current: any answer is taken.                                 *)
CurrentAny(r) == Mine(r)
Current(r) == Mine(r) /\ pane[r.pane].gen = r.gen /\ pane[r.pane].stamp = r.sent
(* Mutant of Followed: the stamp is taken before the dirty text is looked  *)
(* at.                                                                     *)
FollowedStampFirst(r) ==
  IF ~Current(r) THEN Returned(r)
  ELSE IF r.state = "ok" THEN [Returned(r) EXCEPT !.stamp = r.got, !.shown = IF Dirty THEN @ ELSE r.got]
  ELSE IF Dirty THEN Returned(r) ELSE Sentence(Returned(r))
(* Mutant of Followed: an answer that is dropped is not counted back.      *)
FollowedUncounted(r) ==
  IF ~Current(r) \/ Dirty THEN pane[r.pane]
  ELSE IF r.state = "ok" THEN [Returned(r) EXCEPT !.stamp = r.got, !.shown = r.got]
  ELSE Sentence(Returned(r))
(* What the answer makes of the body, when it is still the one that asked: *)
(* the same bytes touch nothing.                                           *)
Followed(r) ==
  IF ~Current(r) \/ Dirty \/ (r.state = "ok" /\ r.got = r.sent) THEN Returned(r)
  ELSE IF r.state = "ok" THEN [Returned(r) EXCEPT !.stamp = r.got, !.shown = r.got]
  ELSE Sentence(Returned(r))
FollowAnswers == \E r \in Back("follow") :
  /\ wire' = wire \ {r}
  /\ BodyAfter(r, Followed(r))
  /\ UNCHANGED <<filing, typist, built, crashes>>

-----------------------------------------------------------------------------
(* The backend reads a file at once, and writes it in steps no other       *)
(* request comes between.                                                  *)
Serves == writing = None
HandleRead == \E r \in Waiting("first") \cup Waiting("load") \cup Waiting("follow") :
  /\ Serves
  /\ IF disk = Gone THEN Answer(r, "gone", None) ELSE Answer(r, "ok", disk)
  /\ UNCHANGED <<filing, typist, pane, built, crashes>>

(* handleWrite: without a stamp a file that is gone is made again.         *)
Refusal(r) ==
  IF r.expect = None \/ disk = r.expect THEN "none" ELSE IF disk = Gone THEN "gone" ELSE "changed"
WriteChecks == \E r \in Waiting("write") :
  /\ Serves
  /\ IF Refusal(r) = "none" THEN writing' = r /\ UNCHANGED wire ELSE Answer(r, Refusal(r), None) /\ UNCHANGED writing
  /\ UNCHANGED <<disk, history, contents, typist, pane, built, crashes>>
(* ftruncate and the first bytes of the text c.                            *)
Torn(c) == -c
WriteCuts ==
  /\ writing # None /\ writing.got # "torn"
  /\ Held(Torn(writing.text))
  /\ writing' = [writing EXCEPT !.got = "torn"]
  /\ UNCHANGED <<contents, typist, pane, wire, built, crashes>>
WriteLands ==
  /\ writing # None /\ writing.got = "torn"
  /\ Held(writing.text) /\ writing' = None
  /\ Answer([writing EXCEPT !.got = None], "ok", None)
  /\ UNCHANGED <<contents, typist, pane, built, crashes>>

(* The backend dies: the file stays as far as the write came, and every    *)
(* request that has no answer in the page yet ends in an error.            *)
Crashes ==
  /\ crashes < MaxCrashes /\ crashes' = crashes + 1
  /\ writing' = None
  /\ wire' = {[r EXCEPT !.state = "error", !.got = None] : r \in wire}
  /\ UNCHANGED <<disk, history, contents, typist, pane, built>>

(* Someone else writes the file, or deletes it; also between the           *)
(* comparison and the truncation.                                          *)
Elsewhere ==
  /\ writing # None => writing.got # "torn"
  /\ \/ /\ contents < MaxContents /\ contents' = Fresh /\ Held(Fresh)
        /\ UNCHANGED writing
     \/ /\ disk # Gone /\ writing = None /\ disk' = Gone
        /\ UNCHANGED <<history, contents, writing>>
  /\ UNCHANGED <<typist, pane, wire, built, crashes>>

User == \E b \in Panes : Builds(b) \/ Disposes(b) \/ Types(b) \/ Saves(b) \/ Loads(b)
Page == FirstAnswers \/ SaveAnswers \/ LoadAnswers \/ FollowAnswers \/ \E b \in Panes : Follows(b)
Backend == HandleRead \/ WriteChecks \/ WriteCuts \/ WriteLands
Next == User \/ Page \/ Backend \/ Crashes \/ Elsewhere

(* The answers come, the backend serves, and the interval of the bodies    *)
(* goes on.                                                                *)
Fairness == WF_vars(Backend) /\ WF_vars(Page) /\ \A b \in Panes : SF_vars(Follows(b))
Spec == Init /\ [][Next]_vars /\ Fairness

-----------------------------------------------------------------------------
(* Unsaved text is forgotten only when that very text is on its way back   *)
(* as written, or the user chose the disk (saveNow, loadFromDisk); what is *)
(* typed while a save is under way is not (file-pane.ts:299).              *)
ForgetsWhatLanded ==
  [][Dirty /\ edit' = None =>
       \/ \E r \in wire \ wire' : r.op = "load"
       \/ \E r \in wire \ wire' : r.op = "write" /\ r.state = "ok" /\ r.text = edit]_vars

(* The backend takes a save that is not an Overwrite.                      *)
Accepts == writing = None /\ writing' # None /\ writing'.over # None
(* A save that carries a stamp replaces what the user typed over, whatever *)
(* came in between: polls, other saves, refusals, lost answers, deaths of  *)
(* the backend. It says so of the bodies that were built on a clean file.  *)
SaveReplacesWhatWasSeen ==
  [][Accepts /\ ~writing'.heir => disk = writing'.over]_vars

(* "A SAVE CARRIES THE STAMP IT READ [...]. The server refuses a write onto *)
(* a file that changed since" (file-pane.ts:38). Not so of a body built    *)
(* while the text was unsaved, as every return to the tab does: it takes   *)
(* the stamp of now, or none, and shows the text of then.                  *)
NoSaveOverTheUnseen == [][Accepts => disk = writing'.over]_vars

(* What a clean body shows never grows older, unless the user asked for    *)
(* it: an answer that was on its way while a save landed does not bring    *)
(* the old text back (gen and stamp in followNow, file-pane.ts:362-406).   *)
(* A body built on unsaved text is left out: it knows nothing of the save  *)
(* that the body before it may have sent.                                  *)
Clean == {b \in Fields : ~Dirty}
Same(b) == b \in Clean /\ (b \in Clean)' /\ pane[b].id = pane'[b].id /\ ~pane[b].heir
NeverBackInTime ==
  [][\A b \in Panes : Same(b) /\ ~LoadAnswers => NoOlder(pane[b].shown, pane'[b].shown)]_vars

(* A body that stays clean and in sight shows the file in the end.         *)
UpToDate == \A b \in Panes : b \notin Clean \/ pane[b].heir \/ pane[b].shown = disk \/ disk = Gone
ShowsTheFile == <>[]UpToDate

\* Of a body built on unsaved text it does not hold: when the save of the body
\* before it lands and the file moves on before the first read, the body takes
\* the stamp of the newer file and the text of the older one, which is then
\* saved; every follow finds the stamp unchanged.
HeirsKeepUp == <>[]\A b \in Panes : b \notin Clean \/ pane[b].shown = disk \/ disk = Gone
=============================================================================
