----------------------------- MODULE MCService ------------------------------
(***************************************************************************)
(* The loop on one maintenance, with one API collection of two tasks for   *)
(* one hostname, as devices with two addresses have them.                  *)
(***************************************************************************)
EXTENDS CollectionLoop

CONSTANTS s1, s2

MCKind == [s \in Savers |-> "get_fan"]
MCResults == {<<"up">>}
MCItems == {1}
MCPhase == [s \in Savers |-> "api"]
MCCall == [s \in Savers |-> "get_fan"]
=============================================================================
