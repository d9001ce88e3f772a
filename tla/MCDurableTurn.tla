--------------------------- MODULE MCDurableTurn ---------------------------
(* Instances of DurableTurn for TLC. *)
EXTENDS DurableTurn, TLC

CONSTANTS w1, w2

\* A connector write that asks for approval.
ApprovedWrite == {[kind |-> "held", asks |-> TRUE]}
\* A connector write and a shell command.
Writes == {[kind |-> "held", asks |-> FALSE], [kind |-> "sandbox", asks |-> FALSE]}
\* Connector writes, one that asks for approval, and a shell command.
AllWrites == ApprovedWrite \cup Writes

\* Reads, questions and a connector write.
Mixed == {[kind |-> k, asks |-> FALSE] : k \in {"idempotent", "question", "held"}}

\* A connector write alone.
Held == {[kind |-> "held", asks |-> FALSE]}

Interchangeable == Permutations(Workers)
=============================================================================
