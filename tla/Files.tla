------------------------------- MODULE Files -------------------------------
(***************************************************************************)
(* The routes that change the user's folders: upload (server/fsupload.ts), *)
(* rename (fsrename.ts), delete (fsdelete.ts) and the new file or folder   *)
(* (fsbrowse.ts createEntry). They run side by side, each giving way to    *)
(* the others at every await, and a backend may die among them. The disk   *)
(* is a set of names of numbered nodes, two levels deep; a path is         *)
(* resolved anew by each call. A check a route refuses before it touches   *)
(* the disk (an anchor, the data folder, a bad name) is left out: the      *)
(* paths here are ones it lets through. The user's names are negative      *)
(* numbers, and a part file is named by the number of its request.         *)
(***************************************************************************)
EXTENDS Integers, Sequences, FiniteSets, SequencesExt

CONSTANTS Outer, Inner, \* the names at the top, and those in a folder
          AFile, AFolder, \* the two of Outer that are taken at the start
          MaxRequests,  \* bound: requests, never more
          MaxNodes      \* bound: files and folders ever made

VARIABLES
  kind,   \* per node "folder", "file", "part" (an upload that is not complete)
  links,  \* its names: [dir, name, node]
  doomed, \* files somebody asked to delete or to replace
  slipped,\* files a rename took for the one it had looked at
  jobs    \* the requests, each at the step it waits at

\* A part file is named by its request, an entry by the user.
NamesTold == (Outer \cup Inner) \cap Nat = {} /\ {AFile, AFolder} \subseteq Outer /\ AFile # AFolder

vars == <<kind, links, doomed, slipped, jobs>>
lost == <<doomed, slipped>>

None == 0
Root == 1
Names == Outer \cup Inner
Paths == {<<n>> : n \in Outer} \cup (Outer \X Inner)
Requests == 1..Len(jobs)

Link(d, n, i) == [dir |-> d, name |-> n, node |-> i]
Find(d, n) == {l \in links : l.dir = d /\ l.name = n}
At(d, n) == LET found == Find(d, n) IN IF found = {} THEN None ELSE (CHOOSE l \in found : TRUE).node
IsFolder(i) == i # None /\ kind[i] = "folder"
Folder(p) == LET outer == At(Root, p[1]) IN
             IF Len(p) = 1 THEN Root ELSE IF IsFolder(outer) THEN outer ELSE None
There(p) == At(Folder(p), Last(p))
Entry(p) == Find(Folder(p), Last(p))
Within(i) == {l \in links : l.dir = i}
Beside(p, n) == Append(Front(p), n)

Init ==
  /\ kind = <<"folder", "file", "folder">>
  /\ links = {Link(Root, AFile, 2), Link(Root, AFolder, 3)}
  /\ doomed = {} /\ slipped = {} /\ jobs = <<>>

FilesTypeOK ==
  /\ \A l \in links : l.dir \in 1..Len(kind) /\ kind[l.dir] = "folder" /\ l.node \in 2..Len(kind)
  /\ \A d \in 1..Len(kind), n \in Names : Cardinality(Find(d, n)) <= 1
  /\ doomed \subseteq {i \in 1..Len(kind) : kind[i] = "file"}

-----------------------------------------------------------------------------
Job(op, p) == [op |-> op, step |-> "body", at |-> p, to |-> p, node |-> None, rest |-> <<>>, replace |-> FALSE]
Admits == Len(jobs) < MaxRequests
Running(op, step) == {r \in Requests : jobs[r].op = op /\ jobs[r].step = step}
Done == [Job("none", <<>>) EXCEPT !.step = "done"]
Onward(step, j) == IF step = "done" THEN Done ELSE [j EXCEPT !.step = step]
Moves(r, step) == jobs' = [jobs EXCEPT ![r] = Onward(step, @)]
Ends(r) == Moves(r, "done")
Made(kinds) == kind' = kind \o kinds /\ Len(kind) + Len(kinds) <= MaxNodes

-----------------------------------------------------------------------------
(* createEntry: one synchronous call that fails when the name is taken.    *)
CreatesEntry(p, k) ==
  /\ Folder(p) # None /\ There(p) = None /\ (k = "folder" => Len(p) = 1)
  /\ Made(<<k>>)
  /\ links' = links \cup {Link(Folder(p), Last(p), Len(kind) + 1)}
  /\ UNCHANGED <<lost, jobs>>

-----------------------------------------------------------------------------
(* handleUpload. The folder the file goes into is made when it is missing, *)
(* and the body lands in a part file beside the target, whose path is kept.*)
Part(r) == Beside(jobs[r].at, r)
UploadStarts(p, replace) ==
  /\ Admits /\ (Folder(p) = None => At(Root, p[1]) = None)
  /\ LET r == Len(jobs) + 1
         made == Folder(p) = None
         folder == IF made THEN Len(kind) + 1 ELSE Folder(p)
         part == IF made THEN Len(kind) + 2 ELSE Len(kind) + 1 IN
     /\ Made(IF made THEN <<"folder", "part">> ELSE <<"part">>)
     /\ links' = links \cup {Link(folder, r, part)} \cup (IF made THEN {Link(Root, p[1], folder)} ELSE {})
  /\ jobs' = Append(jobs, [Job("upload", p) EXCEPT !.replace = replace])
  /\ UNCHANGED lost
(* The body ends, complete or not; what follows gives way to nobody. A part*)
(* that is not where it was made fails the publishing call (ENOENT).       *)
(* Mutant of Publishes: a new file is put in place by rename(2) too.       *)
PublishesOver(r) == There(Part(r)) # None /\ ~IsFolder(There(jobs[r].at))
Publishes(r) ==
  LET j == jobs[r] IN
  /\ There(Part(r)) # None
  /\ IF j.replace THEN ~IsFolder(There(j.at)) ELSE There(j.at) = None
Lands(r, whole) ==
  LET j == jobs[r]  old == There(j.at)  part == There(Part(r)) IN
  /\ kind' = IF whole THEN [kind EXCEPT ![part] = "file"] ELSE kind
  /\ links' = (links \ (Entry(Part(r)) \cup Entry(j.at))) \cup {Link(Folder(j.at), Last(j.at), part)}
  /\ doomed' = doomed \cup (IF j.replace THEN {old} \ {None} ELSE {})
(* Mutant of UploadEnds: what arrived is not compared with what was said.  *)
UploadEndsShort == \E r \in Running("upload", "body") : \E whole \in BOOLEAN :
  /\ Ends(r)
  /\ IF Publishes(r) THEN Lands(r, whole)
     ELSE links' = links \ Entry(Part(r)) /\ UNCHANGED <<kind, doomed>>
  /\ UNCHANGED slipped
UploadEnds == \E r \in Running("upload", "body") : \E whole \in BOOLEAN :
  /\ Ends(r)
  /\ IF whole /\ Publishes(r) THEN Lands(r, whole)
     ELSE links' = links \ Entry(Part(r)) /\ UNCHANGED <<kind, doomed>>
  /\ UNCHANGED slipped

-----------------------------------------------------------------------------
(* renameOne. It looks at the entry, asks for the protected set, and takes *)
(* the way of the kind it saw: a folder is renamed once its new name is    *)
(* seen free, anything else gets the new name by link(2) and loses the old.*)
RenameStarts(p, n) ==
  /\ Admits /\ n # Last(p) /\ There(p) # None
  /\ jobs' = Append(jobs, [Job("rename", p) EXCEPT
                             !.to = Beside(p, n), !.step = IF IsFolder(There(p)) THEN "vacant" ELSE "link"])
  /\ UNCHANGED <<kind, links, lost>>
RenameSeesVacant == \E r \in Running("rename", "vacant") :
  /\ Moves(r, IF There(jobs[r].to) # None THEN "done" ELSE "move")
  /\ UNCHANGED <<kind, links, lost>>
(* rename(2) replaces a file by a file and an empty folder by a folder.    *)
RenameMoves == \E r \in Running("rename", "move") :
  LET j == jobs[r]  src == There(j.at)  dst == There(j.to)
      may == src \notin {None, dst} /\ (dst # None => IsFolder(src) = IsFolder(dst) /\ Within(dst) = {}) IN
  /\ Ends(r)
  /\ links' = IF may THEN (links \ (Entry(j.at) \cup Entry(j.to))) \cup {Link(Folder(j.to), Last(j.to), src)}
              ELSE links
  /\ slipped' = slipped \cup ((IF may /\ ~IsFolder(dst) THEN {dst} ELSE {}) \ {None})
  /\ UNCHANGED <<kind, doomed>>
(* A folder refuses link(2): back to the way of folders.                   *)
RenameLinks == \E r \in Running("rename", "link") :
  LET j == jobs[r]  src == There(j.at) IN
  /\ jobs' = [jobs EXCEPT ![r] =
       Onward(IF IsFolder(src) THEN "vacant" ELSE IF src = None \/ There(j.to) # None THEN "done" ELSE "unlink",
              [j EXCEPT !.node = src])]
  /\ links' = IF src = None \/ IsFolder(src) \/ There(j.to) # None THEN links
              ELSE links \cup {Link(Folder(j.to), Last(j.to), src)}
  /\ UNCHANGED <<kind, lost>>
RenameUnlinks == \E r \in Running("rename", "unlink") : \E allowed \in BOOLEAN :
  LET old == There(jobs[r].at)  may == allowed /\ ~IsFolder(old) IN
  /\ Moves(r, IF may \/ old = None THEN "done" ELSE "undo")
  /\ links' = IF may THEN links \ Entry(jobs[r].at) ELSE links
  /\ slipped' = slipped \cup ((IF may THEN {old} ELSE {}) \ {None, jobs[r].node})
  /\ UNCHANGED <<kind, doomed>>
RenameUndoes == \E r \in Running("rename", "undo") :
  LET new == There(jobs[r].to) IN
  /\ Ends(r)
  /\ links' = IF IsFolder(new) THEN links ELSE links \ Entry(jobs[r].to)
  /\ slipped' = slipped \cup ((IF IsFolder(new) THEN {} ELSE {new}) \ {None, jobs[r].node})
  /\ UNCHANGED <<kind, doomed>>

-----------------------------------------------------------------------------
(* handleDelete and deleteOne: the items one after another, whatever came  *)
(* of the one before. rm -r empties a folder by path, and gives up on one  *)
(* that keeps filling.                                                     *)
DeleteStarts(ps) ==
  /\ Admits
  /\ jobs' = Append(jobs, [Job("delete", Head(ps)) EXCEPT !.step = "look", !.rest = Tail(ps)])
  /\ UNCHANGED <<kind, links, lost>>
NextItem(r) ==
  LET j == jobs[r] IN
  jobs' = [jobs EXCEPT ![r] = IF j.rest = <<>> THEN Done
                              ELSE [j EXCEPT !.step = "look", !.at = Head(j.rest), !.rest = Tail(j.rest)]]
Removes(gone) ==
  /\ links' = links \ gone
  /\ doomed' = doomed \cup {i \in {l.node : l \in gone} : kind[i] = "file"}
  /\ UNCHANGED slipped
DeleteLooks == \E r \in Running("delete", "look") :
  /\ IF There(jobs[r].at) = None THEN NextItem(r) ELSE Moves(r, "rm")
  /\ UNCHANGED <<kind, links, lost>>
DeleteEmpties == \E r \in Running("delete", "rm") :
  LET at == There(jobs[r].at) IN
  /\ IsFolder(at)
  /\ \E l \in Within(at) : Removes({l})
  /\ UNCHANGED <<kind, jobs>>
DeleteRemoves == \E r \in Running("delete", "rm") :
  /\ Within(There(jobs[r].at)) = {}
  /\ Removes(Entry(jobs[r].at)) /\ NextItem(r)
  /\ UNCHANGED kind
DeleteGivesUp == \E r \in Running("delete", "rm") :
  /\ Within(There(jobs[r].at)) # {}
  /\ NextItem(r)
  /\ UNCHANGED <<kind, links, lost>>

-----------------------------------------------------------------------------
(* The backend dies: what it was in the middle of stays as it is.          *)
Dies ==
  /\ \E r \in Requests : jobs[r].step # "done"
  /\ jobs' = [r \in Requests |-> Done]
  /\ UNCHANGED <<kind, links, lost>>

Works ==
  \/ \E p \in Paths, k \in {"file", "folder"} : CreatesEntry(p, k)
  \/ \E p \in Paths, replace \in BOOLEAN : UploadStarts(p, replace)
  \/ UploadEnds
  \/ \E p \in Paths, n \in Names : n \in (IF Len(p) = 1 THEN Outer ELSE Inner) /\ RenameStarts(p, n)
  \/ RenameSeesVacant \/ RenameMoves \/ RenameLinks \/ RenameUnlinks \/ RenameUndoes
  \/ \E p, q \in Paths : DeleteStarts(<<p, q>>)
  \/ DeleteLooks \/ DeleteEmpties \/ DeleteRemoves \/ DeleteGivesUp
FilesNext == Works \/ Dies
FilesSpec == Init /\ [][FilesNext]_vars

-----------------------------------------------------------------------------
(* A file leaves the disk only because somebody asked to delete it or to   *)
(* replace it: two renames of one file, a rename into a name that is being *)
(* uploaded, a delete of what is being renamed and a backend that dies     *)
(* between link and unlink may leave a file with two names, never with     *)
(* none (fsrename.ts, "never a lost file"; fsupload.ts, mode new). What    *)
(* comes under a name in the middle of its rename is apart: NothingSlips.  *)
NothingLost ==
  \A i \in 1..Len(kind) : kind[i] = "file" => i \in doomed \cup slipped \/ \E l \in links : l.node = i

(* The rename takes away the name of the file it linked, of no other, and  *)
(* replaces none: either name may have been given to another file since it *)
(* was looked at (fsrename.ts, "NEVER REPLACES").                          *)
NothingSlips == slipped = {}

(* What stands under a name of the user is whole, never the part of an     *)
(* upload that broke off or came short (fsupload.ts).                      *)
UploadsAreWhole == \A l \in links : l.name \in Names => kind[l.node] # "part"

(* fsupload.ts, of its part file: it "never outlives the request that made *)
(* it", a backend that is killed apart.                                    *)
PartsAreRemoved ==
  \A l \in links : kind[l.node] = "part" => jobs[l.name].step = "body"
=============================================================================
