---------------------------- MODULE MCCasesLive ----------------------------
(***************************************************************************)
(* Two small instances of CaseLifecycle under fairness, one of which is    *)
(* chosen at the start: a client whose case a user works on, and two       *)
(* clients of one MAC whose list is edited.  Only users are held back,     *)
(* of whom no fairness is assumed.                                         *)
(***************************************************************************)
EXTENDS MCCases

CONSTANT c2

VARIABLE part

PartNext ==
  /\ Next /\ UNCHANGED part
  /\ part = "answers" => life'[c2] = "new"
  /\ part = "edits" => req' = req

PartSpec == Init /\ part \in {"answers", "edits"} /\ [][PartNext]_<<vars, part>> /\ Fairness
=============================================================================
