-------------------------- MODULE MCTurnAdmission --------------------------
(* Instances of TurnAdmission for TLC. *)
EXTENDS TurnAdmission

CONSTANTS r1, r2, p1, p2
=============================================================================
