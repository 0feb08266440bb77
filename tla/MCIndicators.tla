---------------------------- MODULE MCIndicators ----------------------------
(* One indicator that tolerates missing rows, and the error counters. *)
EXTENDS Indicators

MCTypeOf == [i \in Shown |-> IF i = "transceiver" THEN "get_gbic_details" ELSE "get_error_count"]
=============================================================================
