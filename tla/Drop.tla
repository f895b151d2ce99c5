-------------------------------- MODULE Drop --------------------------------
(***************************************************************************)
(* Files dropped, pasted or picked onto the page: what is read from them   *)
(* (ui/drop-walk.ts), the order in which a drop is taken (ui/filedrop.ts), *)
(* the card that asks about names already there (ui/drop-dialog.ts), the   *)
(* plan (ui/drop-model.ts) and the copy (ui/drop-upload.ts). One folder is *)
(* the destination; another program changes it too. A name is the number   *)
(* in its brackets: 1 is report.md, 2 is "report (2).md". The leaf of a    *)
(* path says what below the dropped name is meant: Self, a file in it, or  *)
(* a folder in it that is empty. Limits are one bit: heavy, oversize.      *)
(***************************************************************************)
EXTENDS Naturals, Sequences, FiniteSets, SequencesExt

CONSTANTS DropNames, \* the names other programs use, numbers from 1
          Dropped,   \* what may be dropped: sequences of items, see Item
          MaxDrops,  \* bound: drops ever made
          MaxOthers  \* bound: changes by another program

VARIABLES
  folder, \* what is at the destination: a function from paths to [dir, by]
  offers, \* drops between the event and the card
  card,   \* [up, phase]: scrim, phase
  copy,   \* the run the card was opened for
  drops,  \* drops made
  others  \* changes another program made

dropVars == <<folder, offers, card, copy, drops, others>>

Self == "self"
Holds(dir, files, empties, lost, oversize) ==
  [dir |-> dir, files |-> files, empties |-> empties, lost |-> lost, oversize |-> oversize]
AFileItem == Holds(FALSE, <<Self>>, <<>>, FALSE, FALSE)
Unreadable == Holds(FALSE, <<>>, <<>>, TRUE, FALSE)
Oversize == Holds(FALSE, <<Self>>, <<>>, FALSE, TRUE)
EmptyFolder == Holds(TRUE, <<>>, <<Self>>, FALSE, FALSE)
FullFolder == Holds(TRUE, <<"file">>, <<"sub">>, FALSE, FALSE)
LockedFolder == Holds(TRUE, <<>>, <<>>, TRUE, FALSE)
HalfFolder == Holds(TRUE, <<"file">>, <<>>, TRUE, FALSE)

Item(n, what) == [name |-> n, what |-> what]
Leaves == {Self, "file", "sub"}
Items == [name : Nat, what : [dir : BOOLEAN, files : Seq(Leaves), empties : Seq(Leaves), lost : BOOLEAN, oversize : BOOLEAN]]
DropBounds == DropNames \subseteq Nat /\ Dropped \subseteq Seq(Items)

NoCopy == [running |-> FALSE, items |-> <<>>, listing |-> {}, choice |-> "none", at |-> 1,
           unit |-> 1, failed |-> 0, rows |-> <<>>, done |-> 0, mine |-> TRUE, said |-> FALSE]

DropInit ==
  /\ folder \in {<<>>, [p \in {<<1, Self>>} |-> [dir |-> FALSE, by |-> "others"]]}
  /\ offers = <<>> /\ drops = 0 /\ others = 0
  /\ card = [up |-> FALSE, phase |-> "conflicts"]
  /\ copy = NoCopy

TopNames == {p[1] : p \in DOMAIN folder}
Answers == {"skip", "replace", "keep-both"}

DropTypeOK ==
  /\ card \in [up : BOOLEAN, phase : {"conflicts", "copying", "result"}]
  /\ copy.choice \in Answers \cup {"none"}
  /\ copy.running => card.phase = "copying"
  /\ \A p \in DOMAIN folder : p[2] = Self \/ (<<p[1], Self>> \in DOMAIN folder /\ folder[<<p[1], Self>>].dir)

-----------------------------------------------------------------------------
(* The plan: one target and one fate per item, from the listing the card   *)
(* was opened with and the one answer.                                     *)
keepBothName(n, taken) == CHOOSE m \in (n + 1)..(n + 1 + Cardinality(taken)) :
                            /\ m \notin taken
                            /\ \A k \in (n + 1)..(m - 1) : k \in taken

conflictsOf(items, listing) == {items[i].name : i \in 1..Len(items)} \cap listing

\* One item planned after the others: Acc is [taken, out].
PlanOne(acc, it, listing, choice) ==
  LET conflict == it.name \in listing
      row(plan, target) == [plan |-> plan, target |-> target, conflict |-> conflict]
      saved == keepBothName(it.name, acc.taken) IN
  IF conflict /\ choice = "skip" THEN [acc EXCEPT !.out = Append(@, row("skipped", it.name))]
  ELSE IF it.what.oversize THEN [acc EXCEPT !.out = Append(@, row("failed", it.name))]
  ELSE IF conflict /\ choice = "keep-both"
       THEN [taken |-> acc.taken \cup {saved}, out |-> Append(acc.out, row("upload", saved))]
  ELSE [taken |-> acc.taken \cup {it.name}, out |-> Append(acc.out, row("upload", it.name))]

planTargets(items, listing, choice) ==
  FoldLeft(LAMBDA acc, it : PlanOne(acc, it, listing, choice), [taken |-> listing, out |-> <<>>], items).out

\* How a planned item is written (uploadModeOfAnswer: a mutant that asks for
\* the answer only).
uploadModeOfAnswer(choice, conflict) == IF choice = "replace" THEN "replace" ELSE "new"
uploadMode(choice, conflict) == IF choice = "replace" /\ conflict THEN "replace" ELSE "new"

Plan == planTargets(copy.items, copy.listing, copy.choice)

\* The writes of an item, in the order they are made.
UnitsOf(it) == [i \in 1..Len(it.what.files) |-> [dir |-> FALSE, leaf |-> it.what.files[i]]]
               \o [i \in 1..Len(it.what.empties) |-> [dir |-> TRUE, leaf |-> it.what.empties[i]]]

\* What the progress line counts for a row.
StepsOf(plan, it) == IF plan # "upload" \/ UnitsOf(it) = <<>> THEN 1 ELSE Len(UnitsOf(it))
StepsOfRows == LET plan == Plan IN [i \in 1..Len(plan) |-> StepsOf(plan[i].plan, copy.items[i])]
Total == FoldLeft(LAMBDA sum, n : sum + n, 0, StepsOfRows)

-----------------------------------------------------------------------------
\* A drop or a file chooser's answer. One that a copy refuses is only a
\* sentence on the statusline. The chooser may answer under an open card.
Drops(items) ==
  /\ drops < MaxDrops /\ drops' = drops + 1 /\ ~copy.running
  /\ offers' = Append(offers, [step |-> "walk", items |-> items])
  /\ UNCHANGED <<folder, card, copy, others>>

Forgets(o) == offers' = RemoveAt(offers, o)
ReadsNothing(items) == \A i \in 1..Len(items) : UnitsOf(items[i]) = <<>>

\* The walk is over: the drop is refused, or the destination is listed.
Walks(o, heavy) ==
  /\ offers[o].step = "walk"
  /\ IF heavy \/ ReadsNothing(offers[o].items)
     THEN Forgets(o) ELSE offers' = [offers EXCEPT ![o].step = "list"]
  /\ UNCHANGED <<folder, card, copy, drops, others>>

\* choose(): the answer starts the copy.
Starts(items, listing, choice) ==
  /\ copy' = [NoCopy EXCEPT !.running = TRUE, !.items = items, !.listing = listing, !.choice = choice]
  /\ card' = [up |-> TRUE, phase |-> "copying"]

\* The listing arrives: all of it, a part of it (it is cut at its limit) or
\* none (it failed). A card that is up, or a copy, lets the drop go silently.
Lists(o, listing) ==
  /\ offers[o].step = "list" /\ Forgets(o)
  /\ IF card.up \/ copy.running THEN UNCHANGED <<card, copy>>
     ELSE IF conflictsOf(offers[o].items, listing) = {} THEN Starts(offers[o].items, listing, "replace")
     ELSE /\ card' = [up |-> TRUE, phase |-> "conflicts"]
          /\ copy' = [NoCopy EXCEPT !.items = offers[o].items, !.listing = listing]
  /\ UNCHANGED <<folder, drops, others>>

\* Skip, Replace, Keep both; the cross and Escape are Skip.
Chooses(choice) ==
  /\ card.up /\ card.phase = "conflicts"
  /\ Starts(copy.items, copy.listing, choice)
  /\ UNCHANGED <<folder, offers, drops, others>>

\* Hide: the card goes, the copy goes on (hideCardForGood: a mutant that ends
\* the epoch, as Close does).
hideCardForGood ==
  /\ card.up /\ card.phase = "copying" /\ card' = [card EXCEPT !.up = FALSE]
  /\ copy' = [copy EXCEPT !.mine = FALSE]
  /\ UNCHANGED <<folder, offers, drops, others>>
hideCard ==
  /\ card.up /\ card.phase = "copying" /\ card' = [card EXCEPT !.up = FALSE]
  /\ UNCHANGED <<folder, offers, copy, drops, others>>

\* Close: another epoch, in which nothing of that copy is heard.
closeDialog ==
  /\ card.up /\ card.phase = "result" /\ card' = [card EXCEPT !.up = FALSE]
  /\ copy' = NoCopy
  /\ UNCHANGED <<folder, offers, drops, others>>

-----------------------------------------------------------------------------
(* The copy, one write at a time.                                          *)
ByUs(dir) == [dir |-> dir, by |-> "copy"]
With(p, what) == [q \in DOMAIN folder \cup {p} |-> IF q = p THEN what ELSE folder[q]]
IsDir(p) == p \in DOMAIN folder /\ folder[p].dir
IsFile(p) == p \in DOMAIN folder /\ ~folder[p].dir

\* The folder above a path, made when it is missing.
Above(p) == IF p[2] = Self \/ <<p[1], Self>> \in DOMAIN folder THEN folder
            ELSE With(<<p[1], Self>>, ByUs(TRUE))

\* PUT upload: can it be written in this mode, and what is there then.
PutWorks(p, mode) == /\ p[2] # Self => ~IsFile(<<p[1], Self>>)
                     /\ p \in DOMAIN folder => mode = "replace" /\ IsFile(p)
Put(p) == [q \in DOMAIN Above(p) \cup {p} |-> IF q = p THEN ByUs(FALSE) ELSE Above(p)[q]]

\* The create route, once per segment: a name already taken is a success.
FolderWorks(p) == p[2] = Self \/ ~IsFile(<<p[1], Self>>)
Made(p) == [q \in DOMAIN Above(p) \cup {p} |-> IF q \in DOMAIN Above(p) THEN Above(p)[q] ELSE ByUs(TRUE)]

Row == Plan[copy.at]
Units == UnitsOf(copy.items[copy.at])
AtRow == copy.running /\ copy.at <= Len(copy.items)

\* One write of the row, whatever comes of it: what copied stays.
WritesOne ==
  /\ AtRow /\ Row.plan = "upload" /\ copy.unit <= Len(Units)
  /\ LET p == <<Row.target, Units[copy.unit].leaf>>
         dir == Units[copy.unit].dir
         works == IF dir THEN FolderWorks(p) ELSE PutWorks(p, uploadMode(copy.choice, Row.conflict))
         counted(bad) == [copy EXCEPT !.done = @ + 1, !.unit = @ + 1, !.failed = @ + bad] IN
     \/ works /\ copy' = counted(0) /\ folder' = IF dir THEN Made(p) ELSE Put(p)
     \/ copy' = counted(1) /\ UNCHANGED folder
  /\ UNCHANGED <<offers, card, drops, others>>

\* The row is over; one that wrote nothing is counted here.
Outcome == IF Row.plan # "upload" THEN Row.plan
           ELSE IF Units # <<>> /\ copy.failed = 0 THEN "copied" ELSE "failed"
Settles ==
  /\ AtRow /\ (Row.plan = "upload" => copy.unit > Len(Units))
  /\ copy' = [copy EXCEPT !.rows = Append(@, Outcome), !.at = @ + 1, !.unit = 1, !.failed = 0,
                          !.done = @ + (IF Row.plan # "upload" \/ Units = <<>> THEN 1 ELSE 0)]
  /\ UNCHANGED <<folder, offers, card, drops, others>>

\* The last row: the card shows the result, or one line on the statusline does.
finished ==
  /\ copy.running /\ ~AtRow /\ copy.mine
  /\ copy' = [copy EXCEPT !.running = FALSE, !.said = ~card.up]
  /\ card' = IF card.up THEN [card EXCEPT !.phase = "result"] ELSE card
  /\ UNCHANGED <<folder, offers, drops, others>>

\* Another program writes into the destination, or takes something away.
OthersChange ==
  /\ others < MaxOthers /\ others' = others + 1
  /\ \/ \E n \in DropNames, dir \in BOOLEAN :
          n \notin TopNames /\ folder' = With(<<n, Self>>, [dir |-> dir, by |-> "others"])
     \/ \E n \in TopNames : folder' = [p \in {q \in DOMAIN folder : q[1] # n} |-> folder[p]]
  /\ UNCHANGED <<offers, card, copy, drops>>

Works == WritesOne \/ Settles \/ finished
DropNext ==
  \/ \E items \in Dropped : Drops(items)
  \/ \E o \in 1..Len(offers) : \/ \E heavy \in BOOLEAN : Walks(o, heavy)
                              \/ \E listing \in SUBSET TopNames : Lists(o, listing)
  \/ \E choice \in Answers : Chooses(choice)
  \/ hideCard \/ closeDialog \/ Works \/ OthersChange

\* The writes answer and the page's own steps are run.
DropSpec == DropInit /\ [][DropNext]_dropVars /\ WF_dropVars(Works)

-----------------------------------------------------------------------------
\* What the destination held and the copy did not write is only overwritten
\* when the card named it and the user answered Replace, however the folder
\* changed between the listing and the write (drop-model.ts uploadMode).
OnlyTheAskedIsReplaced ==
  [][\A p \in DOMAIN folder : p \in DOMAIN folder' /\ folder'[p] # folder[p] =>
       copy.choice = "replace" /\ p[1] \in conflictsOf(copy.items, copy.listing)]_dropVars

\* A copy that was started is told of in the end, on its card or, with the
\* card hidden, in one line; and then the progress had reached its total.
Told == copy.said \/ (card.up /\ card.phase = "result")
EndsAreTold == [][copy.running /\ ~copy'.running => (Told /\ copy.done = Total)']_dropVars
CopiesAreTold == EndsAreTold /\ <>[]~copy.running

\* drop-model.ts:265: "two items of one drop can never be planned onto the
\* same new name".
NoTwoOnOneName ==
  copy.running => \A i, j \in 1..Len(Plan) :
    i # j /\ Plan[i].plan = "upload" /\ Plan[j].plan = "upload" => Plan[i].target # Plan[j].target

\* drop-walk.ts:17-19: what a folder could not give is not "copied [...] all
\* of it".
CopiedIsWhole ==
  \A i \in 1..Len(copy.rows) : copy.rows[i] = "copied" => ~copy.items[i].what.lost
=============================================================================
