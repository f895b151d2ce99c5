------------------------------- MODULE Clone -------------------------------
(***************************************************************************)
(* New project folders: the authenticated clone of a GitHub repository     *)
(* (server/github-clone.ts, api-github.ts), the clone of any URL and the   *)
(* folder with or without git init (server/scaffold.ts, api-projects.ts).  *)
(* All destinations lie in one folder, the owner's, which may be missing.  *)
(* Between the check of a destination and the end of git others come.      *)
(***************************************************************************)
EXTENDS Integers, Sequences, FiniteSets

CONSTANTS Dests,       \* the destinations
          Exclusive,   \* TRUE: nobody asks for a destination that is being made
          MaxRequests  \* bound: requests, never more

VARIABLES
  owner,  \* whether the owner's folder is there
  dest,   \* per destination "absent", "empty", "partial", "whole"
  work,   \* the requests
  listed  \* the destinations that are projects

vars == <<owner, dest, work, listed>>

Absent == "absent"
Vacant == {"absent", "empty"}
Requests == 1..Len(work)
At(step) == {r \in Requests : work[r].step = step}
Busy(d) == \E r \in Requests : work[r].dest = d /\ work[r].step # "done"

Init ==
  /\ owner \in BOOLEAN
  /\ dest \in [Dests -> IF owner THEN Vacant ELSE {Absent}]
  /\ work = <<>> /\ listed = {}

CloneTypeOK ==
  /\ dest \in [Dests -> Vacant \cup {"partial", "whole"}]
  /\ \A r \in Requests : work[r].git \in {"none", "waiting", "writing", "over"}

-----------------------------------------------------------------------------
(* What happens up to the first await: the destination must be vacant; the *)
(* authenticated clone makes a missing owner's folder, the plain one asks  *)
(* for it, and a new folder makes all there is to make.                    *)
Request(op, d, git) ==
  [op |-> op, dest |-> d, existed |-> dest[d] # Absent, ownerMade |-> op = "github" /\ ~owner,
   git |-> git, made |-> FALSE, ok |-> FALSE, step |-> "git"]
Starts(op, d) ==
  /\ Len(work) < MaxRequests /\ dest[d] \in Vacant
  /\ Exclusive => ~Busy(d)
CloneStarts(op, d) ==
  /\ Starts(op, d) /\ op \in {"github", "plain"} /\ (op = "plain" => owner)
  /\ owner' = TRUE
  /\ work' = Append(work, Request(op, d, "waiting"))
  /\ UNCHANGED <<dest, listed>>
FolderStarts(d, gitInit) ==
  /\ Starts("init", d)
  /\ owner' = TRUE /\ dest' = [dest EXCEPT ![d] = "empty"]
  /\ work' = Append(work, [Request("init", d, IF gitInit THEN "writing" ELSE "over") EXCEPT !.ok = ~gitInit])
  /\ UNCHANGED listed

-----------------------------------------------------------------------------
(* git. A clone makes the folders that are missing, or stops at one that is*)
(* not empty; one that fails takes away what it made; one that is killed   *)
(* does not.                                                               *)
Upd(r, changes) == work' = [work EXCEPT ![r] = changes]
GitBegins == \E r \in At("git") :
  LET w == work[r] IN
  /\ w.git = "waiting"
  /\ IF dest[w.dest] \in Vacant
     THEN /\ owner' = TRUE /\ dest' = [dest EXCEPT ![w.dest] = "partial"]
          /\ Upd(r, [w EXCEPT !.git = "writing", !.made = dest[w.dest] = Absent])
     ELSE Upd(r, [w EXCEPT !.git = "over"]) /\ UNCHANGED <<owner, dest>>
  /\ UNCHANGED listed
GitEnds == \E r \in At("git") : \E ok \in BOOLEAN :
  LET w == work[r]  there == dest[w.dest] IN
  /\ w.git = "writing" /\ (ok => there # Absent)
  /\ dest' = [dest EXCEPT ![w.dest] =
       IF ok THEN "whole" ELSE IF w.op = "init" \/ there = Absent THEN @
       ELSE IF w.made THEN Absent ELSE "empty"]
  /\ Upd(r, [w EXCEPT !.git = "over", !.ok = ok])
  /\ UNCHANGED <<owner, listed>>

-----------------------------------------------------------------------------
(* undoOurDirs: the destination that was not seen at the start, and an     *)
(* owner's folder of ours that is empty. Its two steps are one call.       *)
DestsAfterUndo(w) == IF w.existed THEN dest ELSE [dest EXCEPT ![w.dest] = Absent]
(* Mutant of Undoes: the owner's folder goes with all that is in it.       *)
UndoesOwner(w) ==
  /\ dest' = IF w.ownerMade THEN [d \in Dests |-> Absent] ELSE DestsAfterUndo(w)
  /\ owner' = (owner /\ ~w.ownerMade)
Undoes(w) ==
  /\ dest' = DestsAfterUndo(w)
  /\ owner' = (owner /\ ~(w.ownerMade /\ \A d \in Dests : DestsAfterUndo(w)[d] = Absent))
Ends(r) == Upd(r, [work[r] EXCEPT !.step = "done", !.git = "over"])
(* The close of git: a project, or the undo.                               *)
Answers == \E r \in At("git") :
  LET w == work[r] IN
  /\ w.git = "over" /\ Ends(r)
  /\ IF w.ok THEN listed' = listed \cup {w.dest} /\ UNCHANGED <<owner, dest>>
     ELSE Undoes(w) /\ UNCHANGED listed
(* Mutant of TimesOut: the answer is given, and the clean-up is not done.  *)
TimesOutOnly == \E r \in At("git") :
  /\ work[r].git # "over" /\ Ends(r)
  /\ UNCHANGED <<owner, dest, listed>>
(* git is killed after its minutes, and the request fails at once.         *)
TimesOut == \E r \in At("git") :
  /\ work[r].git # "over" /\ Ends(r)
  /\ Undoes(work[r])
  /\ UNCHANGED listed
(* A project is taken off the list; its folder stays.                      *)
Removes(d) ==
  /\ d \in listed /\ listed' = listed \ {d}
  /\ UNCHANGED <<owner, dest, work>>

CloneNext ==
  \/ \E d \in Dests, op \in {"github", "plain"} : CloneStarts(op, d)
  \/ \E d \in Dests, gitInit \in BOOLEAN : FolderStarts(d, gitInit)
  \/ GitBegins \/ GitEnds \/ Answers \/ TimesOut
  \/ \E d \in Dests : Removes(d)
CloneSpec == Init /\ [][CloneNext]_vars

-----------------------------------------------------------------------------
(* A project on the list has its folder, whatever becomes of the other     *)
(* requests for folders of the same owner: their clean-up takes away what  *)
(* they made and nothing else (undoOurDirs).                               *)
ProjectsHaveTheirFolder == \A d \in listed : owner /\ dest[d] # Absent

(* A request that failed leaves no half a repository, but where an empty   *)
(* folder stood before it (undoOurDirs, existedBefore).                    *)
FailuresAreUndone ==
  \A d \in Dests : dest[d] = "partial" /\ ~Busy(d) => \E r \in Requests : work[r].dest = d /\ work[r].existed
=============================================================================
