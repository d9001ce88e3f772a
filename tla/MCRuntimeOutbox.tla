-------------------------- MODULE MCRuntimeOutbox --------------------------
(***************************************************************************)
(* Instances of RuntimeOutbox for TLC.                                      *)
(***************************************************************************)
EXTENDS RuntimeOutbox

CONSTANTS turn, snap, final, file, plain

\* A finalizer supersedes the delayed snapshot of its run.
MCSupersedes == [f \in {final} \cap Finalizers |-> {snap} \cap Rows]
MCNoSupersedes == [f \in {} |-> {}]
=============================================================================
