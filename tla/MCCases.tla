------------------------------- MODULE MCCases -------------------------------
(* Small instances of CaseLifecycle for TLC. *)
EXTENDS CaseLifecycle, TLC

CONSTANTS alice, bob   \* alice is ROOT, bob an ordinary user

\* Every client has a MAC of its own, or all share one (virtual machines do).
OwnMac    == [c \in Clients |-> c]
SharedMac == [c \in Clients |-> "mac"]

BobOwns == [c \in Clients |-> bob]

AnyStatus == Status

\* The slots of the calls in flight are interchangeable.
SameSlots == Permutations(Requests)
=============================================================================
