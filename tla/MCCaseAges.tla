----------------------------- MODULE MCCaseAges -----------------------------
(* A small instance of CaseAges for TLC. *)
EXTENDS CaseAges

CONSTANT bob

OwnMac  == [c \in Clients |-> c]
BobOwns == [c \in Clients |-> bob]
=============================================================================
