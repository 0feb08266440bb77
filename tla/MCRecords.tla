------------------------------ MODULE MCRecords ------------------------------
(* Small instances of ClientRecords for TLC. *)
EXTENDS ClientRecords

\* Two virtual machines behind one MAC.
SharedMac == [c \in Clients |-> "mac"]
=============================================================================
