------------------------------- MODULE Launch -------------------------------
(***************************************************************************)
(* The dialog that starts a session (web/src/ui/launch.ts, its controls    *)
(* and launch-args.ts): one form for several tools, whose fields are laid  *)
(* over each other by four hands -- what the user picked in this opening,  *)
(* what the project prefers, what the tool can be told, and answers that   *)
(* come while the form is used: what is installed, which conversations can *)
(* be resumed, and whether the session started.                            *)
(*                                                                         *)
(* "claude" takes every choice and knows the project's preferences;        *)
(* "grok" stands for the tools with a vocabulary of their own, which takes *)
(* fewer permissions; "terminal" takes none, and needs no project.  A      *)
(* model stands for the model and the effort, which are layered alike, and *)
(* a project's one ended conversation is named by the project.             *)
(***************************************************************************)
EXTENDS Naturals, Sequences, FiniteSets, SequencesExt

CONSTANTS Projects, None,
          MaxUses,     \* bound: openings of the dialog and choices made in it
          MaxEdits,    \* bound: changes of the projects around it
          MaxFlights   \* bound: requests under way

VARIABLES list,       \* the projects, in their order
          likes,      \* the preferences of each
          hidden,     \* the tools the settings hide
          avail,      \* the tools that are installed, as last heard
          resumable,  \* the projects with a conversation to resume, as last heard
          dialog,     \* the form
          meant,      \* history: what the user picked in this opening
          flights,    \* requests under way
          uses, edits

\* No choice is no model, no permission, no start and no project, and a
\* project is not mistaken for a way to start.
ChoicesTold ==
  /\ None \notin {"standard", "other", "default", "plan", "bypass", "fresh", "last"} \cup Projects
  /\ {"fresh", "last"} \cap Projects = {}

launchVars == <<list, likes, hidden, avail, resumable, dialog, meant, flights, uses, edits>>
around == <<list, likes, hidden>>

Agents == {"claude", "grok"}
Tools == <<"claude", "grok", "terminal">>
Models == {"standard", "other"}
Perms == {"default", "plan", "bypass"}
InertPerms(kind) == IF kind = "grok" THEN {"plan"} ELSE {}
Plain == [model |-> "standard", perm |-> "default"]
Nothing == [model |-> None, own |-> None, perm |-> None, start |-> [k \in Agents |-> None]]
First(kinds) == Tools[CHOOSE i \in DOMAIN Tools : Tools[i] \in kinds /\ \A j \in 1..(i - 1) : Tools[j] \notin kinds]
Shown == Range(Tools) \ hidden
Live == avail \ hidden

LaunchTypeOK ==
  /\ Range(list) \subseteq Projects /\ hidden \subseteq Range(Tools) /\ avail \subseteq Range(Tools)
  /\ dialog.kind \in Range(Tools) /\ dialog.project \in Projects \cup {None}
  /\ dialog.perm \in Perms /\ dialog.byHand \subseteq {"model", "perm"}
  /\ \A k \in Agents : dialog.chosen[k].start \in {"fresh", "last"} \cup Projects

LaunchInit ==
  /\ list \in {<<p>> : p \in Projects} \cup {<<>>}
  /\ likes = [p \in Projects |-> Plain] /\ hidden = {} /\ avail = {"claude", "terminal"} /\ resumable = {}
  /\ dialog = [shown |-> FALSE, kind |-> "claude", project |-> None, perm |-> "default", hand |-> "default",
               byHand |-> {}, chosen |-> [k \in Agents |-> [model |-> "standard", start |-> "fresh"]],
               go |-> FALSE, asked |-> FALSE, heard |-> FALSE]
  /\ meant = Nothing /\ flights = <<>> /\ uses = 0 /\ edits = 0

-----------------------------------------------------------------------------
(* The form: pure functions of it and of what it is laid over.             *)
projectChoice(p, prefs) == IF p = None THEN Plain ELSE prefs[p]
syncLaunchable(d, projects) == [d EXCEPT !.go = projects # <<>> \/ d.kind = "terminal"]

Starts(d, entries) == {"fresh", "last"} \cup (IF d.kind = "claude" THEN entries \cap {d.project} ELSE {})
(* Mutant of populateStart: a value the list no longer has is kept.        *)
populateStartKeeps(d, entries) == d
populateStart(d, entries) ==
  IF d.kind \in Agents /\ d.chosen[d.kind].start \notin Starts(d, entries)
  THEN [d EXCEPT !.chosen[d.kind].start = "fresh"] ELSE d

(* layerChoice: what was picked by hand beats what the project prefers.    *)
(* Mutant of layerPerm: what the cards showed last is taken for a pick.    *)
layerPermShown(d, wanted) == IF "perm" \in d.byHand THEN d.perm ELSE IF d.kind = "claude" THEN wanted.perm ELSE "default"
layerPerm(d, wanted) == IF "perm" \in d.byHand THEN d.hand ELSE IF d.kind = "claude" THEN wanted.perm ELSE "default"
applyToolVocab(d, prefs, entries) ==
  LET wanted == projectChoice(d.project, prefs)
      perm == layerPerm(d, wanted)
      laid == [d EXCEPT !.chosen["claude"].model = IF "model" \in d.byHand THEN @ ELSE wanted.model,
                        !.perm = IF perm \in InertPerms(d.kind) THEN "default" ELSE perm] IN
  populateStart(laid, entries)
Vocab(d, prefs, entries) == IF d.kind \in Agents THEN applyToolVocab(d, prefs, entries) ELSE d
setKind(d, kind, projects, prefs, entries) ==
  syncLaunchable(Vocab([d EXCEPT !.kind = kind], prefs, entries), projects)

populateProjects(d, projects) ==
  syncLaunchable([d EXCEPT !.project = IF @ \in Range(projects) THEN @ ELSE IF projects = <<>> THEN None
                                                                        ELSE Head(projects)], projects)
(* applyAvailability: a choice that can no longer be launched moves on.    *)
(* Mutant of applyAvailability: the cards are greyed and that is all.      *)
applyAvailabilityGreys(d, live, entries) == d
applyAvailability(d, live, entries) ==
  IF d.kind \notin live /\ live # {} THEN setKind(d, First(live), list, likes, entries) ELSE d

-----------------------------------------------------------------------------
(* What the user does with it.                                             *)
Use == uses < MaxUses /\ uses' = uses + 1 /\ UNCHANGED edits
Asks(what) == [what |-> what]

Asked(queue, d) ==
  IF d.kind = "claude" /\ ~d.asked THEN Append(queue, Asks("history")) ELSE queue
Heeds(d) == [d EXCEPT !.asked = @ \/ d.kind = "claude"]

(* open(): for a project the tool is Claude, otherwise the last one.       *)
(* Mutant of Afresh: a pick of the last opening counts for this one.       *)
AfreshButHands(d) == [d EXCEPT !.chosen = [k \in Agents |-> [d.chosen[k] EXCEPT !.start = "fresh"]],
                               !.asked = FALSE, !.heard = FALSE]
Afresh(d) == [d EXCEPT !.chosen = [k \in Agents |-> [d.chosen[k] EXCEPT !.start = "fresh"]],
                       !.byHand = {}, !.asked = FALSE, !.heard = FALSE]
open(p) ==
  /\ ~dialog.shown /\ Use
  /\ LET d == populateProjects(Afresh(dialog), list)
         kind == IF p # None THEN "claude" ELSE d.kind
         e == setKind(IF p # None THEN [d EXCEPT !.project = p] ELSE d,
                      IF kind \in Shown THEN kind ELSE IF Shown = {} THEN kind ELSE First(Shown),
                      list, likes, resumable) IN
     /\ dialog' = [Heeds(e) EXCEPT !.shown = TRUE] /\ flights' = Asked(Append(flights, Asks("tools")), e)
  /\ Len(flights) + 2 <= MaxFlights
  /\ meant' = [Nothing EXCEPT !.own = meant.own]
  /\ UNCHANGED <<around, avail, resumable>>
close == dialog.shown /\ UNCHANGED <<uses, edits>> /\ dialog' = [dialog EXCEPT !.shown = FALSE]
         /\ UNCHANGED <<around, avail, resumable, meant, flights>>

PicksKind(k) ==
  /\ dialog.shown /\ k \in Live /\ k # dialog.kind /\ Use
  /\ LET d == setKind(dialog, k, list, likes, resumable) IN
     Len(flights) < MaxFlights /\ dialog' = Heeds(d) /\ flights' = Asked(flights, d)
  /\ UNCHANGED <<around, avail, resumable, meant>>
PicksProject(p) ==
  /\ dialog.shown /\ p \in Range(list) /\ p # dialog.project /\ Use
  /\ dialog' = Vocab([dialog EXCEPT !.project = p], likes, resumable)
  /\ UNCHANGED <<around, avail, resumable, meant, flights>>
PicksModel(m) ==
  /\ dialog.shown /\ dialog.kind \in Agents /\ m # dialog.chosen[dialog.kind].model /\ Use
  /\ dialog' = [dialog EXCEPT !.chosen[dialog.kind].model = m,
                              !.byHand = IF dialog.kind = "claude" THEN @ \cup {"model"} ELSE @]
  /\ meant' = IF dialog.kind = "claude" THEN [meant EXCEPT !.model = m] ELSE [meant EXCEPT !.own = m]
  /\ UNCHANGED <<around, avail, resumable, flights>>
PicksPerm(q) ==
  /\ dialog.shown /\ dialog.kind \in Agents /\ q \notin InertPerms(dialog.kind) /\ Use
  /\ dialog' = [dialog EXCEPT !.perm = q, !.hand = q, !.byHand = @ \cup {"perm"}]
  /\ meant' = [meant EXCEPT !.perm = q]
  /\ UNCHANGED <<around, avail, resumable, flights>>
PicksStart(v) ==
  /\ dialog.shown /\ dialog.kind \in Agents /\ v \in Starts(dialog, resumable) /\ Use
  /\ dialog' = [dialog EXCEPT !.chosen[dialog.kind].start = v]
  /\ meant' = [meant EXCEPT !.start[dialog.kind] = v]
  /\ UNCHANGED <<around, avail, resumable, flights>>

(* launch(): composed at the press, from what the form shows then.         *)
composeSpawn(d) ==
  IF d.kind \notin Agents THEN [kind |-> d.kind, project |-> d.project]
  ELSE [kind |-> d.kind, project |-> d.project, model |-> d.chosen[d.kind].model, perm |-> d.perm,
        start |-> d.chosen[d.kind].start]
launch ==
  /\ dialog.shown /\ dialog.go /\ (dialog.project # None \/ dialog.kind = "terminal") /\ UNCHANGED <<uses, edits>>
  /\ Len(flights) < MaxFlights
  /\ dialog' = [dialog EXCEPT !.go = FALSE]
  /\ flights' = Append(flights, [what |-> "start", spawn |-> composeSpawn(dialog)])
  /\ UNCHANGED <<around, avail, resumable, meant>>

-----------------------------------------------------------------------------
(* What comes from outside: answers in any order, projects that change.    *)
Lands(i) == flights' = RemoveAt(flights, i) /\ UNCHANGED <<around, meant, uses, edits>>
ToolsAnswer(i, installed) ==
  /\ flights[i].what = "tools"
  /\ avail' = installed \cup {"terminal"}
  /\ LET d == applyAvailability(dialog, avail' \ hidden, resumable) IN
     /\ dialog' = [Heeds(d) EXCEPT !.heard = TRUE]
     /\ flights' = Asked(RemoveAt(flights, i), d)
  /\ UNCHANGED <<around, resumable, meant, uses, edits>>
HistoryAnswers(i, entries) ==
  /\ flights[i].what = "history" /\ Lands(i)
  /\ resumable' = entries
  /\ dialog' = IF dialog.kind = "claude" THEN populateStart(dialog, entries) ELSE dialog
  /\ UNCHANGED avail
(* A start that failed leaves the dialog, one that succeeded closes it.    *)
StartAnswers(i, ok) ==
  /\ flights[i].what = "start" /\ Lands(i)
  /\ dialog' = syncLaunchable(IF ok THEN [dialog EXCEPT !.shown = FALSE] ELSE dialog, list)
  /\ UNCHANGED <<avail, resumable>>
Fails(i) ==
  /\ flights[i].what # "start" /\ Lands(i) /\ UNCHANGED <<avail, resumable, dialog>>

Edit == edits < MaxEdits /\ edits' = edits + 1 /\ UNCHANGED uses
(* Mutant of ProjectsChange: the preferences are not laid on again.        *)
ProjectsChangeOnly(projects, prefs) ==
  /\ Edit /\ list' = projects /\ likes' = prefs
  /\ dialog' = IF dialog.shown THEN populateProjects(dialog, projects) ELSE dialog
  /\ UNCHANGED <<hidden, avail, resumable, meant, flights>>
ProjectsChange(projects, prefs) ==
  /\ Edit /\ list' = projects /\ likes' = prefs
  /\ dialog' = IF dialog.shown THEN Vocab(populateProjects(dialog, projects), prefs, resumable) ELSE dialog
  /\ UNCHANGED <<hidden, avail, resumable, meant, flights>>
Hides(kinds) ==
  /\ Edit /\ ~dialog.shown /\ hidden' = kinds
  /\ UNCHANGED <<list, likes, dialog, avail, resumable, meant, flights>>

LaunchNext ==
  \/ (\E p \in Range(list) \cup {None} : open(p)) \/ close \/ launch
  \/ (\E k \in Range(Tools) : PicksKind(k)) \/ (\E p \in Projects : PicksProject(p))
  \/ (\E m \in Models : PicksModel(m)) \/ (\E q \in Perms : PicksPerm(q))
  \/ (\E v \in {"fresh", "last"} \cup Projects : PicksStart(v))
  \/ (\E i \in DOMAIN flights :
        \/ (\E a \in SUBSET Agents : ToolsAnswer(i, a)) \/ (\E h \in SUBSET Projects : HistoryAnswers(i, h))
        \/ (\E ok \in BOOLEAN : StartAnswers(i, ok)) \/ Fails(i))
  \/ (\E p \in Projects \ Range(list) : ProjectsChange(Append(list, p), likes))
  \/ (\E i \in DOMAIN list : ProjectsChange(RemoveAt(list, i), likes))
  \/ (\E p \in Range(list) : ProjectsChange(list, [likes EXCEPT ![p] = [model |-> "other", perm |-> "bypass"]]))
  \/ (\E kinds \in {{"claude"}, {"grok"}, {"claude", "terminal"}} : Hides(kinds))
LaunchSpec == LaunchInit /\ [][LaunchNext]_launchVars

-----------------------------------------------------------------------------
(* What the user may expect of a start: the pick, or else the project.     *)
Expected(d) ==
  LET wanted == projectChoice(d.project, likes)
      claude == d.kind = "claude"
      perm == IF meant.perm # None THEN meant.perm ELSE IF claude THEN wanted.perm ELSE "default"
      picked == IF claude THEN meant.model ELSE meant.own IN
  [perm |-> IF perm \in InertPerms(d.kind) THEN "default" ELSE perm,
   model |-> IF picked # None THEN picked ELSE IF claude THEN wanted.model ELSE "standard",
   starts |-> {"fresh", IF d.kind \in Agents THEN meant.start[d.kind] ELSE None}]
Starting == Len(flights') > Len(flights) /\ Last(flights').what = "start"
Agent(spawn) == spawn.kind \in Agents

(* A session is started with what the user picked in this opening of the   *)
(* dialog and, where nothing was picked, with what the project prefers at  *)
(* the press; no prompts are never switched off on the strength of another *)
(* tool, another project or an earlier opening, and nothing is continued   *)
(* that was not picked for this tool (launch.ts, chosen and byHand).       *)
StartsAsPicked ==
  [][Starting /\ Agent(Last(flights').spawn) =>
       LET spawn == Last(flights').spawn
           expected == Expected(dialog) IN
       spawn.perm = expected.perm /\ spawn.model = expected.model /\ spawn.start \in expected.starts]_launchVars

(* A conversation is resumed in its own project, whatever was switched     *)
(* between picking it and the press ("it never silently becomes a          *)
(* different conversation").                                               *)
ResumesInItsProject ==
  \A i \in DOMAIN flights :
    flights[i].what = "start" /\ Agent(flights[i].spawn) /\ flights[i].spawn.start \in Projects =>
      flights[i].spawn.kind = "claude" /\ flights[i].spawn.start = flights[i].spawn.project

(* Once the backend has said what is installed, the chosen tool is one of  *)
(* those, if any of them is offered at all.                                *)
SelectionCanLaunch ==
  dialog.shown /\ dialog.heard /\ Live # {} => dialog.kind \in Live
=============================================================================
