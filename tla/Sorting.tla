------------------------------ MODULE Sorting ------------------------------
(***************************************************************************)
(* Sets put in order, as the database does for ORDER BY and Python for a   *)
(* list that it appends to in time.                                        *)
(***************************************************************************)
EXTENDS Naturals, FiniteSets

\* What comes before x, by the pairs in less, and where x is.
Preceding(S, less, x) == {y \in S : <<y, x>> \in less}
PlaceIn(S, less) == [x \in S |-> Cardinality(Preceding(S, less, x)) + 1]

\* The set as a sequence, when less orders all of it.
InOrderOf(S, less) ==
  LET places == PlaceIn(S, less) IN [i \in 1..Cardinality(S) |-> CHOOSE x \in S : places[x] = i]
=============================================================================
