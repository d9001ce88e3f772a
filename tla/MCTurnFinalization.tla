------------------------ MODULE MCTurnFinalization ------------------------
(* Instances of TurnFinalization for TLC. *)
EXTENDS TurnFinalization

CONSTANTS w1, w2, p1

\* Both workers are slots of one worker process.
OneProcess == [w \in {w1, w2} |-> p1]
=============================================================================
