----------------------------- MODULE NewProject -----------------------------
(***************************************************************************)
(* Adding a project: the dialog that looks at the picked folder and picks  *)
(* its verb from what it finds there (web/src/ui/newproject.ts), and the   *)
(* routes that add a folder as it is, make one, or clone into one          *)
(* (server/api-projects.ts, scaffold.ts, projects.ts), undoing what they   *)
(* made when git fails.  In between the folder can change, the dialog can  *)
(* be closed and opened again, and answers are late.                       *)
(*                                                                         *)
(* A folder is missing, empty or full.  A name is one the user typed, or   *)
(* the folder's own, named by the folder.                                  *)
(***************************************************************************)
EXTENDS Naturals, FiniteSets, Sequences, SequencesExt

CONSTANTS Paths, None,
          MaxOpens,   \* bound: openings of the dialog
          MaxPicks,   \* bound: folders picked
          MaxSubmits, \* bound: requests sent
          MaxOthers   \* bound: what others do to the folders

VARIABLES there,     \* the folders
          store,     \* the projects the backend has, by folder
          projects,  \* the projects the page has
          form,      \* the dialog
          probes,    \* looks at a folder that are under way
          verdict,   \* history: what the look at the picked folder said
          works,     \* requests the backend works on
          replies,   \* its answers
          opens, picks, submits, others

\* A typed name is told from a folder's.
NamesApart == {"", "typed"} \cap (Paths \cup {None}) = {}

projectVars == <<there, store, projects, form, probes, verdict, works, replies, opens, picks, submits, others>>
bounds == <<opens, picks, submits, others>>
server == <<there, store, works, replies>>

ProjectTypeOK ==
  /\ there \in [Paths -> {"missing", "empty", "full"}]
  /\ form.path \in Paths \cup {None} /\ form.intent \in {"create", "add"}
  /\ form.probing \in BOOLEAN /\ form.sending \in {"no", "blank", "clone"}
  /\ verdict \in {None, "missing", "empty", "nonEmpty", "unknown"}

Blank == [shown |-> FALSE, mode |-> "blank", path |-> None, intent |-> "create", probing |-> FALSE,
          seq |-> 0, name |-> "", auto |-> "", sending |-> "no"]
ProjectInit ==
  /\ there \in [Paths -> {"missing", "empty", "full"}]
  /\ store = {} /\ projects = {} /\ form = Blank /\ probes = {} /\ verdict = None
  /\ works = {} /\ replies = {} /\ opens = 0 /\ picks = 0 /\ submits = 0 /\ others = 0

-----------------------------------------------------------------------------
(* The dialog; opening it when it is open shows another of its tabs.       *)
isRegistered(f) == f.path # None /\ f.path \in projects
CanSubmit(f) == f.shown /\ f.sending = "no" /\ (f.mode = "blank" => ~f.probing /\ ~isRegistered(f))

(* syncIntent: an existing folder lends its name, never over a typed one.  *)
(* Mutant of syncIntent: the folder's name is always taken.                *)
syncIntentAlways(f) == IF f.intent = "add" THEN [f EXCEPT !.name = f.path, !.auto = f.path] ELSE f
syncIntent(f) ==
  IF f.intent = "add" /\ (f.name = "" \/ f.name = f.auto) THEN [f EXCEPT !.name = f.path, !.auto = f.path] ELSE f

open(mode) ==
  /\ IF form.shown THEN form.mode # mode /\ form' = [form EXCEPT !.mode = mode]
                        /\ UNCHANGED <<verdict, opens>>
     ELSE /\ opens < MaxOpens /\ opens' = opens + 1 /\ verdict' = None
          /\ form' = [Blank EXCEPT !.shown = TRUE, !.mode = mode, !.seq = form.seq + 1, !.sending = form.sending]
  /\ UNCHANGED <<projects, probes, server, picks, submits, others>>
close ==
  /\ form.shown /\ form.sending # "clone" /\ form' = [form EXCEPT !.shown = FALSE]
  /\ UNCHANGED <<projects, probes, verdict, server, bounds>>
Types ==
  /\ form.shown /\ form.mode = "blank" /\ form.name # "typed" /\ form' = [form EXCEPT !.name = "typed"]
  /\ UNCHANGED <<projects, probes, verdict, server, bounds>>

(* refreshIntent: a new pick is a create, with the button held, until its  *)
(* own look is answered.                                                   *)
Picks(p) ==
  /\ form.shown /\ form.mode = "blank" /\ picks < MaxPicks /\ picks' = picks + 1
  /\ form' = [form EXCEPT !.path = p, !.seq = @ + 1, !.intent = "create", !.probing = TRUE]
  /\ probes' = probes \cup {[seq |-> form.seq + 1, path |-> p, answer |-> None]}
  /\ verdict' = None /\ UNCHANGED <<projects, server, opens, submits, others>>
probeFromList(p) == CASE there[p] = "missing" -> "missing" [] there[p] = "empty" -> "empty" [] OTHER -> "nonEmpty"
Looks(r) ==
  /\ r.answer = None
  /\ \E a \in {probeFromList(r.path), "unknown"} : probes' = (probes \ {r}) \cup {[r EXCEPT !.answer = a]}
  /\ UNCHANGED <<projects, form, verdict, server, bounds>>
blankIntent(answer) == IF answer = "nonEmpty" THEN "add" ELSE "create"
(* Mutant of IsLatest: any look answers for the pick on screen.            *)
IsLatestShown(r) == form.shown
IsLatest(r) == r.seq = form.seq
LookReturns(r) ==
  /\ r.answer # None /\ probes' = probes \ {r}
  /\ LET freed == IF IsLatest(r) THEN [form EXCEPT !.probing = FALSE] ELSE form IN
     form' = IF IsLatest(r) /\ form.shown THEN syncIntent([freed EXCEPT !.intent = blankIntent(r.answer)]) ELSE freed
  /\ verdict' = IF r.seq = form.seq THEN r.answer ELSE verdict
  /\ UNCHANGED <<projects, server, bounds>>

(* submit: the verb goes with what the look found.                         *)
Work(verb, p, git) == [verb |-> verb, path |-> p, git |-> git, existed |-> FALSE, at |-> "asked"]
Submit ==
  /\ submits < MaxSubmits /\ submits' = submits + 1
  /\ UNCHANGED <<there, store, projects, probes, verdict, replies, opens, picks, others>>
submitBlank ==
  /\ CanSubmit(form) /\ form.mode = "blank" /\ form.path # None /\ (form.name # "" \/ form.intent = "add")
  /\ form' = [form EXCEPT !.sending = "blank"]
  /\ \E git \in BOOLEAN : works' = works \cup {Work(form.intent, form.path, git)}
  /\ Submit
submitClone(p) ==
  /\ CanSubmit(form) /\ form.mode = "clone"
  /\ form' = [form EXCEPT !.sending = "clone"]
  /\ works' = works \cup {Work("clone", p, TRUE)}
  /\ Submit
(* The answer of an earlier opening is taken by the one on screen.         *)
Returns(r) ==
  /\ r \in replies /\ replies' = replies \ {r}
  /\ projects' = IF r.ok THEN projects \cup {r.path} ELSE projects
  /\ form' = [form EXCEPT !.sending = "no", !.shown = @ /\ ~r.ok]
  /\ UNCHANGED <<there, store, works, probes, verdict, bounds>>

-----------------------------------------------------------------------------
(* The backend.                                                            *)
Replies(w, ok) == works' = works \ {w} /\ replies' = replies \cup {[path |-> w.path, ok |-> ok]}
(* ProjectStore.create: in memory first, and the save may fail.            *)
Registers(w) ==
  /\ store' = store \cup {w.path} /\ \E saved \in BOOLEAN : Replies(w, saved)
Refuses(w) == Replies(w, FALSE) /\ UNCHANGED <<there, store>>
AddsAsItIs(w) ==
  /\ w.verb = "add" /\ w.at = "asked"
  /\ IF there[w.path] = "missing" THEN Refuses(w) ELSE Registers(w) /\ UNCHANGED there

(* createLocalDir and cloneRepo: only into a vacant folder.                *)
assertVacant(p) == there[p] # "full"
createLocalDir(w) ==
  /\ w.verb # "add" /\ w.at = "asked"
  /\ \/ ~assertVacant(w.path) /\ Refuses(w)
     \/ /\ assertVacant(w.path) /\ there' = [there EXCEPT ![w.path] = "empty"]
        /\ IF w.git THEN /\ works' = (works \ {w}) \cup {[w EXCEPT !.existed = there[w.path] # "missing", !.at = "git"]}
                         /\ UNCHANGED <<store, replies>>
           ELSE Registers(w)
GitSucceeds(w) ==
  /\ w.at = "git" /\ there[w.path] # "missing" /\ there' = [there EXCEPT ![w.path] = "full"] /\ Registers(w)
(* Only what was made here is removed; git may have left parts of its work *)
(* in a folder that was there before.                                      *)
(* Mutant of Undoes: whatever is at the path is removed.                   *)
UndoesAll(w, left) == [there EXCEPT ![w.path] = "missing"]
Undoes(w, left) == [there EXCEPT ![w.path] = IF w.existed THEN left ELSE "missing"]
GitFails(w) ==
  /\ w.at = "git" /\ \E left \in {there[w.path], "full"} : there' = Undoes(w, left)
  /\ Replies(w, FALSE) /\ UNCHANGED store
Serves(w) ==
  /\ AddsAsItIs(w) \/ createLocalDir(w) \/ GitSucceeds(w) \/ GitFails(w)
  /\ UNCHANGED <<projects, form, probes, verdict, bounds>>

(* Somebody makes, fills or removes a folder nothing is at work in.        *)
Others(p, what) ==
  /\ others < MaxOthers /\ others' = others + 1 /\ what # there[p]
  /\ ~\E w \in works : w.path = p /\ w.at = "git"
  /\ there' = [there EXCEPT ![p] = what]
  /\ UNCHANGED <<store, projects, form, probes, verdict, works, replies, opens, picks, submits>>

ProjectNext ==
  \/ (\E m \in {"blank", "clone"} : open(m)) \/ close \/ Types \/ submitBlank
  \/ (\E p \in Paths : Picks(p) \/ submitClone(p))
  \/ (\E r \in probes : Looks(r) \/ LookReturns(r)) \/ (\E r \in replies : Returns(r))
  \/ (\E w \in works : Serves(w))
  \/ (\E p \in Paths, what \in {"missing", "empty", "full"} : Others(p, what))
ProjectSpec == ProjectInit /\ [][ProjectNext]_projectVars

-----------------------------------------------------------------------------
(* No verb is sent on a stale decision: a folder is added as it is only    *)
(* when the look at this very pick found something in it, and made only    *)
(* when that look did not (newproject.ts, syncPrimary and refreshIntent).  *)
Sent == {w \in works' \ works : w.at = "asked" /\ w.verb # "clone"}
NoVerbOnAStaleDecision ==
  [][\A w \in Sent : w.path = form.path /\ verdict # None /\ (w.verb = "add" <=> verdict = "nonEmpty")]_projectVars

(* A request that fails takes away no folder that was there before it, and *)
(* nothing anybody had in one (scaffold.ts).                               *)
Failed == {w \in works \ works' : w.at = "git" /\ w.existed}
FailuresKeepFolders == [][\A w \in Failed : there'[w.path] # "missing"]_projectVars

(* A name the user typed is not replaced while the dialog stays open.      *)
TypedNameStays == [][form.name = "typed" /\ form.shown /\ form'.shown => form'.name = "typed"]_projectVars
=============================================================================
