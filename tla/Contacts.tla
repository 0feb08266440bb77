------------------------------ MODULE Contacts ------------------------------
(***************************************************************************)
(* The address book of one maintenance: contacts, and the categories they  *)
(* are in, one below another.  Names are checked when a category is made   *)
(* by hand only, so that two may have the same one; a parent is whatever   *)
(* the request says.  An import reads the categories first, makes those it *)
(* misses, and lands with all its lines.                                   *)
(***************************************************************************)
EXTENDS Naturals, Sequences

CONSTANTS
  Titles,          \* names of categories
  Untitled,        \* no category, or no subcategory
  MaxCategoryIds,  \* bound on the categories made
  MaxContacts,     \* bound on the contacts
  MaxImported      \* bound on the lines of a file

ASSUME ContactsAssumption ==
  /\ Untitled \notin Titles
  /\ MaxCategoryIds \in Nat /\ MaxContacts \in Nat /\ MaxImported \in Nat

VARIABLES
  book,       \* contact_categories, by id
  made,       \* the last used id of a category
  entries,    \* the category of each contact, 0 for none
  importing   \* the categories an import has read, and its file

contactVars == <<book, made, entries, importing>>

HeadingIds == 1..MaxCategoryIds
Heading == [parent : {0} \cup HeadingIds, name : Titles]
\* A line of the file: the names of the category and the subcategory.
Imported ==
  [main : Titles, sub : Titles \cup {Untitled}] \cup {[main |-> Untitled, sub |-> Untitled]}
NoImport == [reading |-> FALSE]

\* The book is a function on the ids of the categories there are.
Shelved(b, i, heading) == [j \in DOMAIN b \cup {i} |-> IF j = i THEN heading ELSE b[j]]
Unshelved(b, i) == [j \in DOMAIN b \ {i} |-> b[j]]

ContactsTypeOK ==
  /\ DOMAIN book \subseteq HeadingIds /\ \A i \in DOMAIN book : book[i] \in Heading
  /\ made \in 0..MaxCategoryIds
  /\ entries \in Seq({0} \cup HeadingIds) /\ Len(entries) <= MaxContacts
  /\ importing = NoImport \/ importing.file \in Seq(Imported)

ContactsInit ==
  book = <<>> /\ made = 0 /\ entries = <<>> /\ importing = NoImport

-----------------------------------------------------------------------------
(* Categories. *)

\* create_contact_category: with a name not in use, below any there is.
CreateHeading(name, parent) ==
  /\ made < MaxCategoryIds /\ \A i \in DOMAIN book : book[i].name # name
  /\ parent \in {0} \cup DOMAIN book
  /\ made' = made + 1 /\ book' = Shelved(book, made', [parent |-> parent, name |-> name])
  /\ UNCHANGED <<entries, importing>>

\* update_contact_category: the name is not checked; a parent is only replaced by another.
UpdateHeading(i, name, parent) ==
  /\ i \in DOMAIN book
  /\ parent \in {book[i].parent} \cup DOMAIN book
  /\ book' = [book EXCEPT ![i] = [parent |-> parent, name |-> name]]
  /\ UNCHANGED <<made, entries, importing>>

\* delete_contact_category: its contacts are in none, its children are on top.
DeleteHeading(i) ==
  /\ i \in DOMAIN book
  /\ entries' = [c \in DOMAIN entries |-> IF entries[c] = i THEN 0 ELSE entries[c]]
  /\ book' = [j \in DOMAIN Unshelved(book, i) |->
       IF book[j].parent = i THEN [book[j] EXCEPT !.parent = 0] ELSE book[j]]
  /\ UNCHANGED <<made, importing>>

-----------------------------------------------------------------------------
(* Contacts. *)

CreateContact(category) ==
  /\ Len(entries) < MaxContacts /\ category \in {0} \cup DOMAIN book
  /\ entries' = Append(entries, category)
  /\ UNCHANGED <<book, made, importing>>

UpdateContact(c, category) ==
  /\ c \in DOMAIN entries /\ category \in {0} \cup DOMAIN book
  /\ entries' = [entries EXCEPT ![c] = category]
  /\ UNCHANGED <<book, made, importing>>

DeleteContact(c) ==
  /\ c \in DOMAIN entries
  /\ entries' = [k \in 1..(Len(entries) - 1) |-> entries[IF k < c THEN k ELSE k + 1]]
  /\ UNCHANGED <<book, made, importing>>

-----------------------------------------------------------------------------
(* import_contacts_csv. *)

\* Of several with one name below one parent, the last that was read; 0 if there is none.
LastOf(ids) == IF ids = {} THEN 0 ELSE CHOOSE i \in ids : \A j \in ids : j <= i
\* Mutant: subcategories are found by their name alone.
SubAnywhere(b, parent, name) == LastOf({i \in DOMAIN b : b[i].parent # 0 /\ b[i].name = name})
Below(b, parent, name) == LastOf({i \in DOMAIN b : b[i].parent = parent /\ b[i].name = name})
OnTop(b, name) == LastOf({i \in DOMAIN b : b[i].parent = 0 /\ b[i].name = name})

\* One line, given the categories known, the last id, and where the lines before went.
Reaches(s, heading, id) ==
  IF id # 0 THEN [s EXCEPT !.at = id]
  ELSE [s EXCEPT !.known = Shelved(s.known, s.last + 1, heading), !.last = @ + 1, !.at = s.last + 1]
Sorted(line, s) ==
  LET main == Reaches(s, [parent |-> 0, name |-> line.main], OnTop(s.known, line.main))
      sub  == Reaches(main, [parent |-> main.at, name |-> line.sub],
                      Below(main.known, main.at, line.sub))
      done == IF line.main = Untitled THEN [s EXCEPT !.at = 0]
              ELSE IF line.sub = Untitled THEN main ELSE sub
  IN  [done EXCEPT !.placed = Append(@, done.at)]

ImportReads(file) ==
  /\ ~importing.reading
  /\ importing' = [reading |-> TRUE, known |-> book, file |-> file]
  /\ UNCHANGED <<book, made, entries>>

\* What is known after each line.
Outcome ==
  LET file == importing.file
      After[k \in 0..Len(file)] ==
        IF k = 0 THEN [known |-> importing.known, last |-> made, at |-> 0, placed |-> <<>>]
        ELSE Sorted(file[k], After[k - 1])
  IN  After[Len(file)]

\* All lines land in one transaction, unless one refers to a category that is gone.
ImportLands ==
  /\ importing.reading
  /\ LET new == DOMAIN Outcome.known \ DOMAIN importing.known IN
     /\ Outcome.last <= MaxCategoryIds /\ Len(entries) + Len(Outcome.placed) <= MaxContacts
     /\ \A k \in DOMAIN Outcome.placed : Outcome.placed[k] \in {0} \cup DOMAIN book \cup new
     /\ \A i \in new : Outcome.known[i].parent \in {0} \cup DOMAIN book \cup new
     /\ book' = [i \in DOMAIN book \cup new |-> IF i \in new THEN Outcome.known[i] ELSE book[i]]
     /\ made' = Outcome.last /\ entries' = entries \o Outcome.placed
  /\ importing' = NoImport

ImportFails == importing.reading /\ importing' = NoImport /\ UNCHANGED <<book, made, entries>>

ContactsNext ==
  \/ \E name \in Titles, parent \in {0} \cup HeadingIds :
       CreateHeading(name, parent) \/ \E i \in HeadingIds : UpdateHeading(i, name, parent)
  \/ \E i \in HeadingIds : DeleteHeading(i)
  \/ \E category \in {0} \cup HeadingIds :
       CreateContact(category) \/ \E c \in 1..MaxContacts : UpdateContact(c, category)
  \/ \E c \in 1..MaxContacts : DeleteContact(c)
  \/ \E file \in UNION {[1..n -> Imported] : n \in 1..MaxImported} : ImportReads(file)
  \/ ImportLands \/ ImportFails

ContactsSpec == ContactsInit /\ [][ContactsNext]_contactVars

-----------------------------------------------------------------------------
(* Properties. *)

\* A contact is in a category that there is, or in none, and so is a category below
\* another, whatever was deleted while an import had read it (delete_contact_category,
\* import_contacts_csv).
NoneDangling ==
  /\ \A c \in DOMAIN entries : entries[c] \in {0} \cup DOMAIN book
  /\ \A i \in DOMAIN book : book[i].parent \in {0} \cup DOMAIN book

\* The names on the way to a category, in a book.
Path(b, i) ==
  IF i = 0 THEN <<>>
  ELSE IF b[i].parent = 0 THEN <<b[i].name>>
  ELSE <<b[b[i].parent].name, b[i].name>>
NamedIn(line) ==
  IF line.main = Untitled THEN <<>>
  ELSE IF line.sub = Untitled THEN <<line.main>> ELSE <<line.main, line.sub>>

\* Each line of an import lands in the subcategory, the category or no category that it
\* names, also if lines before it made them, if another category has the same name, or if
\* others were deleted since the import read them; only a category that was renamed or moved
\* meanwhile takes its lines along (import_contacts_csv, delete_contact_category).
LinesLand ==
  [][importing.reading /\ entries' # entries /\ importing' = NoImport =>
       \A k \in DOMAIN importing.file :
         LET at == entries'[Len(entries) + k]
             same(i) == i = 0 \/ i \notin DOMAIN importing.known \/ importing.known[i] = book'[i]
         IN  /\ at \in {0} \cup DOMAIN book'
             /\ same(at) /\ (at # 0 => same(book'[at].parent)) =>
                  Path(book', at) = NamedIn(importing.file[k])]_contactVars
=============================================================================
