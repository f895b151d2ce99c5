------------------------------ MODULE Settings ------------------------------
(***************************************************************************)
(* The settings of one page (web/src/ui/settings.ts, settings-apikeys.ts,  *)
(* theme.ts, claude-notice.ts) and the two stores behind them              *)
(* (server/prefs.ts, server/keys.ts).  A preference is one key of a bag    *)
(* that is only ever written whole: updatePrefs reads the bag, puts its    *)
(* own key into what it read, and writes the result.  The rows of the      *)
(* panel do that at once and each on its own; the terminal colours wait    *)
(* for the hand to rest and then send one write at a time.                 *)
(*                                                                         *)
(* The value of a key is the set of its items that are not as the factory  *)
(* has them, so a key that is missing reads as {}.  For `tools' the items  *)
(* are the hidden cards, for `theme' a pair that is not the default one,   *)
(* for `notice' the version whose notice was hidden.                       *)
(***************************************************************************)
EXTENDS Naturals, Sequences, FiniteSets, SequencesExt

CONSTANTS Items,         \* the items of each key this instance uses
          Fifo,          \* whether requests are served and answered in order
          MaxWishes,     \* bound: gestures in the settings
          MaxRefusals,   \* bound: requests that fail
          MaxReloads,    \* bound: restarts of the backend, with the page
          None

VARIABLES bag,      \* the bag: what the store holds, what the file holds
          keyFile,  \* one API key: in the store, in the file
          shows,    \* the value of each key as the page has it
          panel,    \* open: is it; wrote: a row was changed since it opened
          colours,  \* theme.ts: pending (a pair or None), timer, flying
          keyRow,   \* saved: the row says so; typed: text in its field
          calls,    \* the requests under way, in the order they were made
          wishes, refusals, reloads

settingsVars == <<bag, keyFile, shows, panel, colours, keyRow, calls, wishes, refusals, reloads>>
bounds == <<wishes, refusals, reloads>>

Keys == DOMAIN Items
(* Two more things in the file: a key the app writes no longer, and one it *)
(* never heard of.                                                         *)
Bags == [own: [Keys -> SUBSET UNION {Items[k] : k \in Keys}], dead: BOOLEAN, strange: BOOLEAN]
Calls == [for: Keys \cup {"open", "keys", "save", "remove"}, step: {"read", "write"},
          patch: SUBSET UNION {Items[k] : k \in Keys}, before: SUBSET UNION {Items[k] : k \in Keys},
          body: Bags \cup {None}, answer: {None, "ok", "error", "saved", "absent"}]

SettingsTypeOK ==
  /\ bag \in [held: Bags, file: Bags] /\ keyFile \in [held: BOOLEAN, file: BOOLEAN]
  /\ \A k \in Keys : shows[k] \subseteq Items[k]
  /\ panel \in [open: BOOLEAN, wrote: BOOLEAN]
  /\ colours.pending \in (SUBSET Items["theme"]) \cup {None} /\ {colours.timer, colours.flying} \subseteq BOOLEAN
  /\ keyRow \in [saved: BOOLEAN, typed: BOOLEAN] /\ Range(calls) \subseteq Calls

Empty == [own |-> [k \in Keys |-> {}], dead |-> TRUE, strange |-> TRUE]
SettingsInit ==
  /\ bag = [held |-> Empty, file |-> Empty] /\ keyFile = [held |-> FALSE, file |-> FALSE]
  /\ shows = Empty.own
  /\ panel = [open |-> FALSE, wrote |-> FALSE]
  /\ colours = [pending |-> None, timer |-> FALSE, flying |-> FALSE]
  /\ keyRow = [saved |-> FALSE, typed |-> FALSE]
  /\ calls = <<>> /\ wishes = 0 /\ refusals = 0 /\ reloads = 0

-----------------------------------------------------------------------------
Wish == wishes < MaxWishes /\ wishes' = wishes + 1 /\ UNCHANGED <<refusals, reloads>>

Call(who, patch, before) ==
  [for |-> who, step |-> "read", patch |-> patch, before |-> before, body |-> None, answer |-> None]
Plain(who) == [Call(who, {}, {}) EXCEPT !.step = IF who \in {"save", "remove"} THEN "write" ELSE "read"]
updatePrefs(key, patch, before) == calls' = Append(calls, Call(key, patch, before))

(* toggleBehaviour, toggleMascot, toggleKey, toggleTool: the last card     *)
(* that is shown cannot be hidden.                                         *)
Flipped(key, item) == IF item \in shows[key] THEN shows[key] \ {item} ELSE shows[key] \cup {item}
Toggles(key, item) ==
  /\ key \notin {"theme", "notice"} /\ panel.open /\ Wish
  /\ key = "tools" => Flipped(key, item) # Items[key]
  /\ shows' = [shows EXCEPT ![key] = Flipped(key, item)]
  /\ panel' = [panel EXCEPT !.wrote = TRUE]
  /\ updatePrefs(key, Flipped(key, item), shows[key])
  /\ UNCHANGED <<bag, keyFile, colours, keyRow>>

(* Reset to defaults, for the status line.                                 *)
ResetsAll ==
  /\ "statusLine" \in Keys /\ panel.open /\ Wish
  /\ shows' = [shows EXCEPT !["statusLine"] = {}]
  /\ panel' = [panel EXCEPT !.wrote = TRUE]
  /\ updatePrefs("statusLine", {}, shows["statusLine"])
  /\ UNCHANGED <<bag, keyFile, colours, keyRow>>

(* The notice: hidden for one version, and shown again when a launch dies. *)
HidesNotice ==
  /\ "notice" \in Keys /\ Wish
  /\ shows' = [shows EXCEPT !["notice"] = IF @ = {} THEN Items["notice"] ELSE {}]
  /\ updatePrefs("notice", shows'["notice"], shows["notice"])
  /\ UNCHANGED <<bag, keyFile, panel, colours, keyRow>>

-----------------------------------------------------------------------------
(* The colours: c and q are the writer and the calls once send() is done.  *)
send(c, q) ==
  IF c.pending = None THEN /\ colours' = c /\ calls' = q
  ELSE /\ colours' = [c EXCEPT !.pending = None, !.flying = TRUE]
       /\ calls' = Append(q, Call("theme", c.pending, {}))
sendWhenFree(c, q) == IF c.flying THEN colours' = c /\ calls' = q ELSE send(c, q)

Picks(pair) ==
  /\ panel.open /\ pair # shows["theme"] /\ Wish
  /\ shows' = [shows EXCEPT !["theme"] = pair]
  /\ panel' = [panel EXCEPT !.wrote = TRUE]
  /\ colours' = [colours EXCEPT !.pending = pair, !.timer = TRUE]
  /\ UNCHANGED <<bag, keyFile, keyRow, calls>>

(* Mutant of HandRests: the write that is under way is not waited for.     *)
HandRestsImpatiently ==
  /\ colours.timer /\ send([colours EXCEPT !.timer = FALSE], calls)
  /\ UNCHANGED <<bag, keyFile, shows, panel, keyRow, bounds>>
HandRests ==
  /\ colours.timer /\ sendWhenFree([colours EXCEPT !.timer = FALSE], calls)
  /\ UNCHANGED <<bag, keyFile, shows, panel, keyRow, bounds>>

-----------------------------------------------------------------------------
(* The panel.                                                              *)
Opens ==
  /\ ~panel.open /\ Wish
  /\ panel' = [open |-> TRUE, wrote |-> FALSE]
  /\ keyRow' = [keyRow EXCEPT !.typed = FALSE]
  /\ calls' = calls \o <<Plain("keys"), Plain("open")>>
  /\ UNCHANGED <<bag, keyFile, shows, colours>>
(* close(): the flush is started and not waited for.                       *)
Closes ==
  /\ panel.open /\ panel' = [panel EXCEPT !.open = FALSE]
  /\ sendWhenFree([colours EXCEPT !.timer = FALSE], calls)
  /\ keyRow' = [keyRow EXCEPT !.typed = FALSE]
  /\ UNCHANGED <<bag, keyFile, shows, bounds>>

Types ==
  /\ panel.open /\ ~keyRow.typed /\ Wish
  /\ keyRow' = [keyRow EXCEPT !.typed = TRUE]
  /\ UNCHANGED <<bag, keyFile, shows, panel, colours, calls>>
(* One save, one removal at a time: the button is disabled for it.         *)
Asking(who) == \E i \in DOMAIN calls : calls[i].for = who
saveKey ==
  /\ panel.open /\ keyRow.typed /\ ~Asking("save")
  /\ calls' = Append(calls, Plain("save"))
  /\ UNCHANGED <<bag, keyFile, shows, panel, colours, keyRow, bounds>>
removeKey ==
  /\ panel.open /\ keyRow.saved /\ ~Asking("remove")
  /\ calls' = Append(calls, Plain("remove"))
  /\ UNCHANGED <<bag, keyFile, shows, panel, colours, keyRow, bounds>>

-----------------------------------------------------------------------------
(* The backend.  Both stores change what they hold before they write the   *)
(* file, and a file that cannot be written is an error to whoever asked.   *)
Replies(i, answer) == calls' = [calls EXCEPT ![i].answer = answer]
Refuses == refusals < MaxRefusals /\ refusals' = refusals + 1 /\ UNCHANGED <<wishes, reloads>>

Reads(i) ==
  /\ calls[i].step = "read"
  /\ IF calls[i].for = "keys" THEN Replies(i, IF keyFile.held THEN "saved" ELSE "absent")
     ELSE calls' = [calls EXCEPT ![i].answer = "ok", ![i].body = bag.held]
  /\ UNCHANGED <<bag, keyFile, bounds>>
ReplacesPrefs(i) ==
  /\ calls[i].step = "write" /\ calls[i].for \in Keys
  /\ \/ bag' = [held |-> calls[i].body, file |-> calls[i].body] /\ Replies(i, "ok") /\ UNCHANGED bounds
     \/ bag' = [bag EXCEPT !.held = calls[i].body] /\ Replies(i, "error") /\ Refuses
  /\ UNCHANGED keyFile
ChangesKey(i) ==
  /\ calls[i].for \in {"save", "remove"}
  /\ LET now == calls[i].for = "save" IN
     \/ keyFile' = [held |-> now, file |-> now] /\ Replies(i, "ok") /\ UNCHANGED bounds
     \/ keyFile' = [keyFile EXCEPT !.held = now] /\ Replies(i, "error") /\ Refuses
  /\ UNCHANGED bag
Unreachable(i) == Replies(i, "error") /\ Refuses /\ UNCHANGED <<bag, keyFile>>
Serves ==
  /\ \E i \in DOMAIN calls :
       /\ calls[i].answer = None
       /\ Fifo => \A j \in 1..(i - 1) : calls[j].answer # None
       /\ Reads(i) \/ ReplacesPrefs(i) \/ ChangesKey(i) \/ Unreachable(i)
  /\ UNCHANGED <<shows, panel, colours, keyRow>>

-----------------------------------------------------------------------------
(* What the page makes of an answer.                                       *)
others(i) == RemoveAt(calls, i)

(* updatePrefs with the bag it read: its own key into it, the dead key     *)
(* out of it.  Without a bag nothing is written.                           *)
Merged(c) == [c.body EXCEPT !.own[c.for] = c.patch, !.dead = @ /\ c.for = "notice"]
(* Mutant of TakesBag: a read that failed is taken for an empty bag.       *)
TakesBagAnyhow(i) ==
  LET c == calls[i]
      read == IF c.answer = "error"
              THEN [c EXCEPT !.body = [Empty EXCEPT !.dead = FALSE, !.strange = FALSE]] ELSE c IN
  /\ c.for \in Keys /\ c.step = "read"
  /\ calls' = Append(others(i), [c EXCEPT !.step = "write", !.body = Merged(read), !.answer = None])
  /\ UNCHANGED <<shows, colours, keyRow>>
TakesBag(i) ==
  LET c == calls[i] IN
  /\ c.for \in Keys /\ c.step = "read" /\ c.answer # "error"
  /\ calls' = Append(others(i), [c EXCEPT !.step = "write", !.body = Merged(c), !.answer = None])
  /\ UNCHANGED <<shows, colours, keyRow>>

(* A write of the colours is over, and what was picked meanwhile is next.  *)
(* Mutant of ColoursSettle: what was picked meanwhile waits for a timer.   *)
ColoursSettleOnly(i) == colours' = [colours EXCEPT !.flying = FALSE] /\ calls' = others(i)
ColoursSettle(i) == send([colours EXCEPT !.flying = FALSE], others(i))

(* updatePrefs is over.  The rows put back what they had when it failed,   *)
(* the colours, the status line and the notice do not.                     *)
Settles(i) ==
  LET c == calls[i] IN
  /\ c.for \in Keys /\ (c.step = "write" \/ c.answer = "error")
  /\ shows' = [shows EXCEPT ![c.for] =
                 IF c.answer = "error" /\ c.for \notin {"theme", "statusLine", "notice"} THEN c.before ELSE @]
  /\ IF c.for = "theme" THEN ColoursSettle(i) ELSE calls' = others(i) /\ UNCHANGED colours
  /\ UNCHANGED keyRow

(* The re-read of open(): dropped when the panel is closed or a row was    *)
(* changed; and adopt() drops the pair while a write of ours is near.      *)
Rereads(i) ==
  LET c == calls[i]
      adopts == ~colours.timer /\ ~colours.flying IN
  /\ c.for = "open" /\ calls' = others(i)
  /\ shows' = IF c.answer = "error" \/ ~panel.open \/ panel.wrote THEN shows
              ELSE [k \in Keys |-> IF k = "notice" \/ (k = "theme" /\ ~adopts) THEN shows[k]
                                   ELSE c.body.own[k]]
  /\ UNCHANGED <<colours, keyRow>>

TakesKeys(i) ==
  LET c == calls[i] IN
  /\ c.for \in {"keys", "save", "remove"} /\ calls' = others(i)
  /\ keyRow' = IF c.answer = "error" THEN keyRow
               ELSE CASE c.for = "keys" -> [keyRow EXCEPT !.saved = c.answer = "saved"]
                      [] c.for = "save" -> [saved |-> TRUE, typed |-> FALSE]
                      [] c.for = "remove" -> [keyRow EXCEPT !.saved = FALSE]
  /\ UNCHANGED <<shows, colours>>

Delivers ==
  /\ \E i \in DOMAIN calls :
       /\ calls[i].answer # None /\ (Fifo => i = 1)
       /\ TakesBag(i) \/ Settles(i) \/ Rereads(i) \/ TakesKeys(i)
  /\ UNCHANGED <<bag, keyFile, panel, bounds>>

(* Another run of the backend: both stores are read from their files, and  *)
(* the page that follows shows the bag.  Its calls die with it.            *)
Reloads ==
  /\ reloads < MaxReloads /\ reloads' = reloads + 1
  /\ bag' = [bag EXCEPT !.held = bag.file] /\ keyFile' = [keyFile EXCEPT !.held = keyFile.file]
  /\ shows' = bag.file.own
  /\ panel' = [open |-> FALSE, wrote |-> FALSE]
  /\ colours' = [pending |-> None, timer |-> FALSE, flying |-> FALSE]
  /\ keyRow' = [saved |-> FALSE, typed |-> FALSE]
  /\ calls' = <<>> /\ UNCHANGED <<wishes, refusals>>

SettingsNext ==
  \/ \E k \in Keys : \E x \in Items[k] : Toggles(k, x)
  \/ ResetsAll \/ HidesNotice \/ (\E p \in SUBSET Items["theme"] : Picks(p)) \/ HandRests
  \/ Opens \/ Closes \/ Types \/ saveKey \/ removeKey \/ Serves \/ Delivers \/ Reloads

(* Timers fire and requests are answered; nobody has to touch anything.    *)
SettingsFairness == WF_settingsVars(HandRests) /\ WF_settingsVars(Serves) /\ WF_settingsVars(Delivers)
SettingsSpec == SettingsInit /\ [][SettingsNext]_settingsVars /\ SettingsFairness

-----------------------------------------------------------------------------
(* What this app does not know in the bag survives every write: a bag that *)
(* could not be read is not written (api.ts updatePrefs).                  *)
StrangersSurvive == bag.held.strange /\ bag.file.strange

(* The colours are written one request at a time, so the last one to land  *)
(* carries the last pair (theme.ts send).                                  *)
OneColourWrite == Cardinality({i \in DOMAIN calls : calls[i].for = "theme"}) <= 1

(* A pair that was picked is sent, however the timer, the flush of a       *)
(* closing panel and a write under way fall (theme.ts schedule, flush).    *)
PicksAreSent == colours.pending # None ~> colours.pending = None

(* Nothing under way and nothing refused: what the rows show is what is    *)
(* stored (settings.ts toggleTool: a preference that was not stored must   *)
(* not keep claiming it was).                                              *)
QuietMeansSaved ==
  calls = <<>> /\ ~colours.timer /\ colours.pending = None /\ refusals = 0 => shows = bag.held.own

(* A write puts its own key into the bag and nothing else (api.ts          *)
(* updatePrefs: writers must never drop each other's keys).                *)
OthersKeysKept ==
  [][\A i \in DOMAIN calls : ReplacesPrefs(i) =>
       \A k \in Keys \ {calls[i].for} : bag'.held.own[k] = bag.held.own[k]]_settingsVars
=============================================================================
