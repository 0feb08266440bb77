-------------------------- MODULE ClientCategories --------------------------
(***************************************************************************)
(* The client categories of a maintenance and their members.  is_active is *)
(* true for a category in use and false for one deleted, the column has no *)
(* default, and no request that makes a category sets it: NULL is neither. *)
(*                                                                         *)
(* Nothing in the database keeps a member from being stored twice: what    *)
(* adds or removes one looks first, with a query that raises an error when *)
(* it finds two, and commits later.  Lines of a file are not flushed       *)
(* (autoflush is off), so a line does not find what the one before added.  *)
(***************************************************************************)
EXTENDS Naturals, FiniteSets, Sequences

CONSTANTS
  CategoryNames,
  Macs,
  MaxCategories,  \* 5 in the code
  MaxRowsMade,    \* bound on the rows ever made
  MaxLines,       \* bound on the lines of a file that name one MAC
  Editors         \* slots for requests about members in flight: the bound on them

ASSUME CategoryAssumption ==
  /\ IsFiniteSet(CategoryNames)
  /\ MaxCategories \in Nat /\ MaxRowsMade \in Nat /\ MaxLines \in Nat \ {0}

CategoryIds == 1..MaxRowsMade

VARIABLES
  category,  \* client_categories, in the order of their creation
  member,    \* client_category_members: the rows of each category and MAC
  edit,      \* the request of each slot, between its query and its commit
  twice      \* history: members of a request that was overtaken or of a file that repeats them

categoryVars == <<category, member, edit, twice>>

Category == [name : CategoryNames, active : {"true", "false", "null"}]
NoEdit == [op |-> "none"]
\* lines: the rows the request adds, one but for a file that repeats its line.
Edit == [op : {"join", "import", "leave"}, id : CategoryIds, mac : Macs, lines : 1..MaxLines,
         late : BOOLEAN]

Made == DOMAIN category

CategoriesTypeOK ==
  /\ \E n \in 0..MaxRowsMade : category \in [1..n -> Category]
  /\ member \in [CategoryIds -> [Macs -> Nat]]
  /\ edit \in [Editors -> Edit \cup {NoEdit}]
  /\ twice \subseteq CategoryIds \X Macs

CategoriesInit ==
  /\ category = <<>>
  /\ member = [i \in CategoryIds |-> [x \in Macs |-> 0]]
  /\ edit = [e \in Editors |-> NoEdit]
  /\ twice = {}

InUse == {i \in Made : category[i].active = "true"}
NamesInUse == {category[i].name : i \in InUse}

-----------------------------------------------------------------------------
(* Categories. *)

NewCategory(n) == [name |-> n, active |-> "null"]

CreateCategory(n) ==
  /\ Cardinality(InUse) < MaxCategories /\ n \notin NamesInUse
  /\ Len(category) < MaxRowsMade
  /\ category' = Append(category, NewCategory(n))
  /\ UNCHANGED <<member, edit, twice>>

Repeats(ids, x, lines) == IF lines > 1 THEN ids \X {x} ELSE {}

\* One new category for each name that is not in use, with the members of the file.
BulkImport(names, x, lines) ==
  LET new == names \ NamesInUse IN
  /\ names # {} /\ Cardinality(InUse) + Cardinality(new) <= MaxCategories
  /\ Len(category) + Cardinality(new) <= MaxRowsMade
  /\ \E s \in [1..Cardinality(new) -> new] :
       /\ {s[i] : i \in DOMAIN s} = new
       /\ category' = category \o [i \in DOMAIN s |-> NewCategory(s[i])]
       /\ member' = [i \in CategoryIds |->
            IF i \in Made \/ i \notin DOMAIN category' THEN member[i]
            ELSE [member[i] EXCEPT ![x] = lines]]
       /\ twice' = twice \cup Repeats(DOMAIN category' \ Made, x, lines)
  /\ UNCHANGED edit

RenameCategory(i, n) ==
  /\ i \in Made /\ n # category[i].name
  /\ \A j \in InUse \ {i} : category[j].name # n
  /\ category' = [category EXCEPT ![i].name = n]
  /\ UNCHANGED <<member, edit, twice>>

\* The members stay.
DeleteCategory(i) ==
  /\ i \in Made
  /\ category' = [category EXCEPT ![i].active = "false"]
  /\ UNCHANGED <<member, edit, twice>>

-----------------------------------------------------------------------------
(* Members: add_member, remove_member, import_members_csv. *)

Asks(e, op, i, x, lines) ==
  /\ edit[e] = NoEdit /\ i \in Made
  /\ edit' = [edit EXCEPT ![e] = [op |-> op, id |-> i, mac |-> x, lines |-> lines, late |-> FALSE]]
  /\ UNCHANGED <<category, member, twice>>

\* Mutant: a member that is there is added again.
AbsentAny(i, x) == TRUE
Absent(i, x) == member[i][x] = 0

\* A member that is there once only gets a new description.
JoinAsks(e, i, x) == Absent(i, x) /\ Asks(e, "join", i, x, 1)
LeaveAsks(e, i, x) == member[i][x] = 1 /\ Asks(e, "leave", i, x, 1)

\* The lines of a file about one MAC, each with a query of its own before the commit at the
\* end.  Lines about other MACs do not matter to them and are the edits of other slots.
ImportAsks(e, i, x, lines) == Absent(i, x) /\ Asks(e, "import", i, x, lines)

Finishes(e) ==
  edit' = [d \in Editors |->
    IF d = e \/ edit[d] = NoEdit THEN NoEdit ELSE [edit[d] EXCEPT !.late = TRUE]]

Adds(e) ==
  LET q == edit[e] IN
  /\ member' = [member EXCEPT ![q.id][q.mac] = @ + q.lines]
  /\ twice' = IF q.late \/ q.lines > 1 THEN twice \cup {<<q.id, q.mac>>} ELSE twice
  /\ Finishes(e)
  /\ UNCHANGED category

JoinCommits(e) == edit[e].op = "join" /\ Adds(e)
ImportCommits(e) == edit[e].op = "import" /\ Adds(e)

\* Of a row that another request removed meanwhile nothing is removed: the ORM warns, no more.
LeaveCommits(e) ==
  /\ edit[e].op = "leave" /\ member[edit[e].id][edit[e].mac] > 0
  /\ member' = [member EXCEPT ![edit[e].id][edit[e].mac] = @ - 1]
  /\ Finishes(e)
  /\ UNCHANGED <<category, twice>>

EditFails(e) ==
  /\ edit[e] # NoEdit
  /\ edit' = [edit EXCEPT ![e] = NoEdit]
  /\ UNCHANGED <<category, member, twice>>

CategoriesNext ==
  \/ \E n \in CategoryNames : CreateCategory(n)
  \/ \E names \in SUBSET CategoryNames, x \in Macs, lines \in 1..MaxLines : BulkImport(names, x, lines)
  \/ \E i \in CategoryIds, n \in CategoryNames : RenameCategory(i, n)
  \/ \E i \in CategoryIds : DeleteCategory(i)
  \/ \E e \in Editors :
       \/ \E i \in CategoryIds, x \in Macs : JoinAsks(e, i, x) \/ LeaveAsks(e, i, x)
       \/ \E i \in CategoryIds, x \in Macs, lines \in 1..MaxLines : ImportAsks(e, i, x, lines)
       \/ JoinCommits(e) \/ ImportCommits(e) \/ LeaveCommits(e) \/ EditFails(e)

CategoriesSpec == CategoriesInit /\ [][CategoriesNext]_categoryVars

-----------------------------------------------------------------------------
(* Properties. *)

\* A MAC is a member of a category once, so that the next query about it works (add_member,
\* remove_member, import_members_csv), unless another request about members committed between
\* the query and the commit of the one that added it, or a file had it twice.
MembersOnce ==
  \A i \in CategoryIds, x \in Macs : member[i][x] > 1 => <<i, x>> \in twice
=============================================================================
