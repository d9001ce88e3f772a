-------------------------- MODULE MCScheduledTasks --------------------------
(* Instances of ScheduledTasks for TLC. *)
EXTENDS ScheduledTasks

CONSTANT s1
=============================================================================
