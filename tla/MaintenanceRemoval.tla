------------------------- MODULE MaintenanceRemoval -------------------------
(***************************************************************************)
(* The deletion of a maintenance.  Nothing in the database ties its rows   *)
(* to its configuration: one transaction deletes them, table by table, in  *)
(* an order that foreign keys without ON DELETE decide.  Members and       *)
(* contacts are deleted by the ids of their categories, as the first query *)
(* of the transaction saw them; other DELETEs see what has committed since *)
(* and keep others from the rows they looked at until the transaction      *)
(* ends (MySQL, REPEATABLE READ).                                          *)
(*                                                                         *)
(* Requests and jobs write for a maintenance without asking whether it     *)
(* still exists.                                                           *)
(***************************************************************************)
EXTENDS Naturals, FiniteSets, Sequences

CONSTANTS
  KindIds,   \* client categories: the bound on them
  ShelfIds   \* contact categories: the bound on them

ASSUME RemovalAssumption == 0 \notin ShelfIds

VARIABLES
  setup,      \* maintenance_configs: none, or a row with or without a name
  filled,     \* the tables that have rows of the maintenance, but for those below
  kinds,      \* client_categories
  populated,  \* those that have members
  shelf,      \* contact_categories: the parent of each, 0 for none
  contacted,  \* the categories that have contacts, 0 for contacts without one
  reserve,    \* a MAC in reference_clients: its is_active
  sweep,      \* the deletion: its next statement (0 for none) and what its first query saw
  fresh,      \* history: nothing was written since the last deletion
  overwritten \* history: something was written since this deletion began

removalVars ==
  <<setup, filled, kinds, populated, shelf, contacted, reserve, sweep, fresh, overwritten>>
contents == <<filled, kinds, populated, shelf, contacted, reserve>>

-----------------------------------------------------------------------------
(* The statements. *)

\* Neighbouring tables that no foreign key tells apart are one statement.
SweepsCollected == <<{"records", "pointers", "errors"}, {"batches"}, {"expectations"}>>
SweepsListed ==
  <<{"notes", "cases", "latest clients", "client records", "comparisons"}, {"members"},
    {"categories"}, {"overrides", "clients", "devices", "checkpoints", "references", "results"}>>
SweepsRest == <<{"contacts"}, {"subheadings"}, {"headings"}, {"meals", "users"}>>

\* Mutant: categories go before their members.
SweepsAstray ==
  SweepsCollected \o <<SweepsListed[1], {"categories"}, {"members"}, SweepsListed[4]>> \o SweepsRest
Sweeps == SweepsCollected \o SweepsListed \o SweepsRest

\* Answers to pings are in no statement: they go with their batches (ON DELETE CASCADE).
\* Thresholds are in none, and in no cascade.
Plainly == {"records", "pointers", "errors", "batches", "expectations", "notes", "cases",
            "latest clients", "client records", "comparisons", "overrides", "clients",
            "devices", "checkpoints", "results", "meals", "users"}
Holders == Plainly \cup {"pings", "thresholds"}
Carrier(t) == IF t \in {"records", "pings", "pointers"} THEN {"batches"}
              ELSE IF t = "notes" THEN {"cases"} ELSE {}

NoSweep == [at |-> 0, kinds |-> {}, shelf |-> {}]
Swept(t) == \E n \in 1..(sweep.at - 1) : t \in Sweeps[n]

RemovalTypeOK ==
  /\ setup \in {"none", "named", "nameless"}
  /\ filled \subseteq Holders /\ \A t \in filled : Carrier(t) \subseteq filled
  /\ populated \subseteq kinds /\ kinds \subseteq KindIds
  /\ DOMAIN shelf \subseteq ShelfIds /\ \A h \in DOMAIN shelf : shelf[h] \in {0} \cup DOMAIN shelf
  /\ contacted \subseteq {0} \cup DOMAIN shelf
  /\ reserve \in {"none", "null", "false"}
  /\ sweep \in [at : 0..(Len(Sweeps) + 1), kinds : SUBSET KindIds, shelf : SUBSET ShelfIds]
  /\ fresh \in BOOLEAN /\ overwritten \in BOOLEAN

RemovalInit ==
  /\ setup = "none" /\ filled = {} /\ kinds = {} /\ populated = {}
  /\ shelf = <<>> /\ contacted = {} /\ reserve = "none"
  /\ sweep = NoSweep /\ fresh = FALSE /\ overwritten = FALSE

-----------------------------------------------------------------------------
(* Requests and jobs that write for the maintenance. *)

CreatesSetup ==
  /\ setup = "none" /\ setup' = "named"
  /\ UNCHANGED <<contents, sweep, fresh, overwritten>>

\* update_maintenance_config makes the row it does not find.
SavesConfig ==
  /\ setup = "none" /\ setup' = "nameless"
  /\ UNCHANGED <<contents, sweep, fresh, overwritten>>

Writes == fresh' = FALSE /\ overwritten' = (sweep.at > 0) /\ UNCHANGED <<setup, sweep>>

\* Rows of most tables; those of a batch or a case come with or after it.
Fills(t) ==
  /\ t \in Holders \ filled /\ Carrier(t) \subseteq filled
  /\ ~Swept(t) /\ \A u \in Carrier(t) : ~Swept(u)
  /\ filled' = filled \cup {t} /\ Writes
  /\ UNCHANGED <<kinds, populated, shelf, contacted, reserve>>

\* delete_checkpoint: the last one.
LosesCheckpoint ==
  /\ "checkpoints" \in filled /\ ~Swept("checkpoints")
  /\ filled' = filled \ {"checkpoints"} /\ Writes
  /\ UNCHANGED <<kinds, populated, shelf, contacted, reserve>>

AddsKind(k) ==
  /\ k \in KindIds \ kinds /\ ~Swept("categories")
  /\ kinds' = kinds \cup {k} /\ Writes
  /\ UNCHANGED <<filled, populated, shelf, contacted, reserve>>

\* The deletion of members looked at those of the categories it knows.
Populates(k) ==
  /\ k \in kinds \ populated /\ ~Swept("categories") /\ (Swept("members") => k \notin sweep.kinds)
  /\ populated' = populated \cup {k} /\ Writes
  /\ UNCHANGED <<filled, kinds, shelf, contacted, reserve>>

\* A heading is made, or moved, below any there is.
Shelves(h, p) ==
  /\ ~Swept("subheadings") /\ ~Swept("headings") /\ p \in {0} \cup DOMAIN shelf
  /\ h \in DOMAIN shelf => p # 0
  /\ shelf' = [i \in DOMAIN shelf \cup {h} |-> IF i = h THEN p ELSE shelf[i]] /\ Writes
  /\ UNCHANGED <<filled, kinds, populated, contacted, reserve>>

AddsContact(h) ==
  /\ h \in ({0} \cup DOMAIN shelf) \ contacted
  /\ h # 0 => /\ ~Swept("subheadings") /\ ~Swept("headings")
              /\ Swept("contacts") => h \notin sweep.shelf
  /\ contacted' = contacted \cup {h} /\ Writes
  /\ UNCHANGED <<filled, kinds, populated, shelf, reserve>>

\* create_reference_client sets no is_active, and takes a MAC that was removed for present.
AddsReference ==
  /\ reserve = "none" /\ ~Swept("references")
  /\ reserve' = "null" /\ Writes
  /\ UNCHANGED <<filled, kinds, populated, shelf, contacted>>

RemovesReference ==
  /\ reserve # "none" /\ ~Swept("references")
  /\ reserve' = "false" /\ Writes
  /\ UNCHANGED <<filled, kinds, populated, shelf, contacted>>

-----------------------------------------------------------------------------
(* The deletion: one at a time. *)

BeginsSweep ==
  /\ setup # "none" /\ sweep = NoSweep
  /\ sweep' = [at |-> 1, kinds |-> kinds, shelf |-> DOMAIN shelf]
  /\ overwritten' = FALSE
  /\ UNCHANGED <<setup, contents, fresh>>

MembersLeft == {k \in populated : ~Swept("members") \/ k \notin sweep.kinds}
ContactsLeft == {h \in contacted \ {0} : ~Swept("contacts") \/ h \notin sweep.shelf}
Subheadings == {h \in DOMAIN shelf : shelf[h] # 0}

\* Rows of one DELETE go one after the other: one that goes before its children is refused.
Nested == \E h \in Subheadings : shelf[h] \in Subheadings \ {h}
Ring == \E hs \in SUBSET Subheadings : hs # {} /\ \A h \in hs : shelf[h] \in hs \ {h}

\* A foreign key refuses the statement.
RefusedBy(tables) ==
  \/ "categories" \in tables /\ MembersLeft # {}
  \/ "subheadings" \in tables /\ ContactsLeft \cap Subheadings # {}
  \/ "headings" \in tables /\ (ContactsLeft # {} \/ (~Swept("subheadings") /\ Subheadings # {}))

Ended == sweep.at = Len(Sweeps) + 1

Sweeping ==
  /\ sweep.at > 0 /\ ~Ended
  /\ ~RefusedBy(Sweeps[sweep.at]) /\ ("subheadings" \in Sweeps[sweep.at] => ~Ring)
  /\ sweep' = [sweep EXCEPT !.at = @ + 1]
  /\ UNCHANGED <<setup, contents, fresh, overwritten>>

\* Refused, a deadlock, a lost connection: everything is rolled back.
SweepFails ==
  /\ sweep.at > 0
  /\ sweep' = NoSweep /\ overwritten' = FALSE
  /\ UNCHANGED <<setup, contents, fresh>>

SweepCommits ==
  /\ Ended
  /\ setup' = "none"
  /\ LET gone == {t \in filled : Swept(t)}
     IN  filled' = {t \in filled \ gone : Carrier(t) \cap gone = {}}
  /\ kinds' = {} /\ populated' = MembersLeft
  /\ shelf' = <<>> /\ contacted' = ContactsLeft \cup ({0} \cap contacted)
  /\ reserve' = "none"
  /\ sweep' = NoSweep /\ fresh' = TRUE /\ overwritten' = FALSE

RemovalNext ==
  \/ CreatesSetup \/ SavesConfig
  \/ \E t \in Holders : Fills(t)
  \/ LosesCheckpoint
  \/ \E k \in KindIds : AddsKind(k) \/ Populates(k)
  \/ \E h \in ShelfIds, p \in {0} \cup ShelfIds : Shelves(h, p)
  \/ \E h \in {0} \cup ShelfIds : AddsContact(h)
  \/ AddsReference \/ RemovesReference
  \/ BeginsSweep \/ Sweeping \/ SweepFails \/ SweepCommits

RemovalSpec == RemovalInit /\ [][RemovalNext]_removalVars

-----------------------------------------------------------------------------
(* Properties. *)

\* What a deletion leaves is gone: of a maintenance nobody wrote for since, also one made
\* anew, there are thresholds and contacts without a category at most
\* (delete_maintenance); and no foreign key refuses a statement, unless somebody wrote
\* meanwhile or subheadings have subheadings.
DeletedIsGone ==
  /\ fresh =>
       /\ filled \subseteq {"thresholds"} /\ kinds = {} /\ populated = {}
       /\ shelf = <<>> /\ contacted \subseteq {0} /\ reserve = "none"
  /\ sweep.at > 0 /\ ~Ended /\ ~overwritten => ~RefusedBy(Sweeps[sweep.at])
=============================================================================
