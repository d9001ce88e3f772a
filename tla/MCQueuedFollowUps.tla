------------------------- MODULE MCQueuedFollowUps -------------------------
(* Instances of QueuedFollowUps for TLC. *)
EXTENDS QueuedFollowUps

CONSTANTS i1, i2
=============================================================================
