---------------------------- MODULE CurrentView ----------------------------
(***************************************************************************)
(* What collection promises to the readers of the current data.  Under     *)
(* each key they find one result or none: what the latest report said, for *)
(* some keys laid over what the reports before it said of other items.  A  *)
(* report changes its own key only; the data of keys may be forgotten.     *)
(***************************************************************************)
CONSTANTS
  Keys,
  Merging,   \* keys whose reports are laid over one another
  Items,
  Results,   \* functions on Items; None where a report says nothing
  None

VARIABLE shown

Over(old, r) == [i \in Items |-> IF r[i] = None THEN old[i] ELSE r[i]]

ViewInit == shown = [k \in Keys |-> None]

Report(k, r) ==
  shown' = [shown EXCEPT ![k] = IF k \in Merging /\ shown[k] # None THEN Over(shown[k], r) ELSE r]

Forget(ks) == shown' = [k \in Keys |-> IF k \in ks THEN None ELSE shown[k]]

ViewNext ==
  \/ \E k \in Keys, r \in Results : Report(k, r)
  \/ \E ks \in SUBSET Keys : Forget(ks)

ViewSpec == ViewInit /\ [][ViewNext]_shown
=============================================================================
