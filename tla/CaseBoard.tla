----------------------------- MODULE CaseBoard -----------------------------
(***************************************************************************)
(* The case page of one maintenance: the list with its filters, its order  *)
(* and its pages, the counters above it, and the notes of a case.  What    *)
(* becomes of a case is in CaseLifecycle; here its columns just change.    *)
(***************************************************************************)
EXTENDS Sorting, Sequences, SequencesExt, FiniteSetsExt

CONSTANTS
  CaseIds,       \* the cases, by id
  MacRank(_),    \* their MACs, as numbers: clients may share one
  TagNames,      \* TRACKED_ATTRIBUTES, as <<1..n>> in the order that breaks ties
  Persons,       \* display names
  Admin,         \* the one a new case is assigned to
  NoPing,        \* last_ping_reachable is NULL
  NotAsked,      \* a filter that is not given
  MaxNotes       \* bound on the notes

CaseStatuses == {"UNASSIGNED", "ASSIGNED", "IN_PROGRESS", "DISCUSSING", "RESOLVED", "IGNORED"}
Closed == {"RESOLVED", "IGNORED"}

ASSUME BoardAssumption ==
  /\ CaseIds \subseteq Nat /\ \A c \in CaseIds : MacRank(c) \in Nat
  /\ IsFiniteSet(TagNames) /\ TagNames = 1..Cardinality(TagNames)
  /\ Admin \in Persons /\ MaxNotes \in Nat
  /\ NoPing \notin BOOLEAN /\ NotAsked \notin BOOLEAN /\ NotAsked \notin CaseStatuses

VARIABLES
  board,     \* the cases there are, each with the columns that the page asks for
  notes,     \* case_notes, by id
  noted      \* the last used id of a note

boardVars == <<board, notes, noted>>

Card == [status : CaseStatuses, assignee : Persons, reachable : BOOLEAN \cup {NoPing},
         tags : SUBSET TagNames]
Note == [of : CaseIds, author : Persons, edited : BOOLEAN]

BoardTypeOK ==
  /\ DOMAIN board \subseteq CaseIds /\ \A c \in DOMAIN board : board[c] \in Card
  /\ noted \in 0..MaxNotes
  /\ DOMAIN notes \subseteq 1..noted /\ \A n \in DOMAIN notes : notes[n] \in Note

NewCard == [status |-> "ASSIGNED", assignee |-> Admin, reachable |-> NoPing, tags |-> {}]

BoardInit == board = <<>> /\ notes = <<>> /\ noted = 0

-----------------------------------------------------------------------------
(* What the page asks for. *)
Filters == [status : CaseStatuses \cup {NotAsked}, reachable : BOOLEAN \cup {NotAsked},
            assignee : Persons \cup {NotAsked}, closed : BOOLEAN]

\* Without a status, the closed cases are shown on request only; unreachable are also
\* those that were not pinged yet.
Passing(f) ==
  {c \in DOMAIN board :
     /\ f.assignee \in {NotAsked, board[c].assignee}
     /\ IF f.status # NotAsked THEN board[c].status = f.status
        ELSE f.closed \/ board[c].status \notin Closed
     /\ f.reachable # NotAsked => IF f.reachable = TRUE THEN board[c].reachable = TRUE
                             ELSE board[c].reachable # TRUE}

\* export_cases_csv puts the filters together anew.
Exported(f) ==
  LET ofStatus == {c \in DOMAIN board :
                     IF f.status # NotAsked THEN board[c].status = f.status
                     ELSE f.closed \/ board[c].status \notin Closed}
      assigned == {c \in ofStatus : f.assignee # NotAsked => board[c].assignee = f.assignee}
      pings    == IF f.reachable = NotAsked THEN BOOLEAN \cup {NoPing}
                  ELSE IF f.reachable = TRUE THEN {TRUE} ELSE {FALSE, NoPing}
  IN  {c \in assigned : board[c].reachable \in pings}

\* The columns of order_by: more tags first, then the more important tag, then ping, then
\* the MAC.  The database orders what is left as it likes, each time anew.
SortKey(c) ==
  LET k == board[c] IN
  <<IF k.tags = {} THEN 1 ELSE 0, Cardinality(TagNames) - Cardinality(k.tags)>>
    \o [t \in 1..Cardinality(TagNames) |-> IF t \in k.tags THEN 0 ELSE 1]
    \o <<IF k.reachable = NoPing THEN 0 ELSE IF k.reachable = FALSE THEN 1 ELSE 2>>
AsItLikes(c, turn) == IF turn % 2 = 1 THEN c ELSE 0 - c
\* Mutant: the MAC does not break the ties.
KeyLoose(c, turn) == SortKey(c) \o <<AsItLikes(c, turn)>>
Key(c, turn) == SortKey(c) \o <<MacRank(c), AsItLikes(c, turn)>>

Precedes(j, k) == \E i \in DOMAIN j : j[i] < k[i] /\ \A h \in 1..(i - 1) : j[h] = k[h]

\* get_cases: a page of the cases that pass, read by the turn-th request.
PageOf(cases, page, size, turn) ==
  LET rows == InOrderOf(cases, {p \in cases \X cases : Precedes(Key(p[1], turn), Key(p[2], turn))})
  IN  SubSeq(rows, (page - 1) * size + 1, Min({page * size, Len(rows)}))

PagesIn(cases, size) ==
  IF cases = {} THEN 1 ELSE (Cardinality(cases) + size - 1) \div size
TotalOf(f) == Cardinality(Passing(f))

\* get_case_stats: all by status, and what the page shows first.
CountOf(s) == Cardinality({c \in DOMAIN board : board[c].status = s})
Counters ==
  [active      |-> Cardinality(DOMAIN board) - CountOf("RESOLVED") - CountOf("IGNORED"),
   unreachable |-> Cardinality({c \in DOMAIN board : /\ board[c].status \notin Closed
                                                    /\ board[c].reachable # TRUE})]

-----------------------------------------------------------------------------
\* sync_cases; a case goes with its client, and so do its notes.
CardMade(c) ==
  /\ c \in CaseIds \ DOMAIN board
  /\ board' = [d \in DOMAIN board \cup {c} |-> IF d = c THEN NewCard ELSE board[d]]
  /\ UNCHANGED <<notes, noted>>

CardGone(c) ==
  /\ c \in DOMAIN board /\ board' = [d \in DOMAIN board \ {c} |-> board[d]]
  /\ notes' = [n \in {n \in DOMAIN notes : notes[n].of # c} |-> notes[n]]
  /\ UNCHANGED noted

\* A user writes the status or the assignee, a round all but the assignee.
CardChanges(c) ==
  /\ c \in DOMAIN board
  /\ \/ \E s \in CaseStatuses : board' = [board EXCEPT ![c].status = s]
     \/ \E who \in Persons : board' = [board EXCEPT ![c].assignee = who]
     \/ \E answers \in BOOLEAN : board' = [board EXCEPT ![c].reachable = answers]
     \/ \E ts \in SUBSET TagNames : board' = [board EXCEPT ![c].tags = ts]
  /\ UNCHANGED <<notes, noted>>

AddNote(c, who) ==
  /\ c \in DOMAIN board /\ noted < MaxNotes /\ noted' = noted + 1
  /\ notes' = [n \in DOMAIN notes \cup {noted'} |->
                 IF n = noted' THEN [of |-> c, author |-> who, edited |-> FALSE] ELSE notes[n]]
  /\ UNCHANGED board

\* Only its author may, by the name on it.
MayEdit(i, who) == i \in DOMAIN notes /\ notes[i].author = who

UpdateNote(i, who) ==
  /\ MayEdit(i, who)
  /\ notes' = [notes EXCEPT ![i].edited = TRUE]
  /\ UNCHANGED <<board, noted>>

DeleteNote(i, who) ==
  /\ MayEdit(i, who)
  /\ notes' = [n \in DOMAIN notes \ {i} |-> notes[n]]
  /\ UNCHANGED <<board, noted>>

\* The notes of a case, the newest first.
NotesOf(c) ==
  LET ids == {n \in DOMAIN notes : notes[n].of = c}
  IN  InOrderOf(ids, {p \in ids \X ids : p[1] > p[2]})

\* Requests of a user, who is known by display name: anybody discusses any case.
NoteRequests(who) ==
  \/ \E c \in CaseIds : AddNote(c, who)
  \/ \E i \in 1..MaxNotes : UpdateNote(i, who) \/ DeleteNote(i, who)

BoardNext ==
  \/ \E c \in CaseIds : CardMade(c) \/ CardGone(c) \/ CardChanges(c)
  \/ \E who \in Persons : NoteRequests(who)

BoardSpec == BoardInit /\ [][BoardNext]_boardVars

-----------------------------------------------------------------------------
(* Properties. *)

AllOpen == [status |-> NotAsked, reachable |-> NotAsked, assignee |-> NotAsked, closed |-> FALSE]

\* A note is of a case that there is, whatever others write, edit or delete beside it
\* (add_note, delete_note, remove_client).
NotesHaveCase == \A n \in DOMAIN notes : notes[n].of \in DOMAIN board

\* A list and its export have the same cases; turning the pages of any list shows each case
\* whose MAC is its own once, although every page is a query of its own (two cases of one
\* MAC may trade places in between); and the counters above the list are the totals of the
\* lists they stand for: the default one, the unreachable ones, and those of each status
\* (get_cases, export_cases_csv, get_case_stats).
BoardAgrees ==
  /\ board # <<>> => \A f \in Filters : Exported(f) = Passing(f)
  /\ \A cases \in SUBSET DOMAIN board : \A size \in 1..Cardinality(cases) :
       \A c \in {c \in cases : \A d \in cases \ {c} : MacRank(d) # MacRank(c)} :
         Cardinality({p \in 1..PagesIn(cases, size) : c \in Range(PageOf(cases, p, size, p))}) = 1
  /\ Counters.active = TotalOf(AllOpen)
  /\ Counters.unreachable = TotalOf([AllOpen EXCEPT !.reachable = FALSE])
  /\ \A s \in CaseStatuses : CountOf(s) = TotalOf([AllOpen EXCEPT !.status = s])
=============================================================================
