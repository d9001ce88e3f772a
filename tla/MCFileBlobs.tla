---------------------------- MODULE MCFileBlobs ----------------------------
(* Instances of FileBlobs for TLC. *)
EXTENDS FileBlobs, TLC

CONSTANTS f1, f2, w1, w2, c1, d1

\* Every client stores the same bytes.
SameBytes == [f \in Files |-> d1]

\* A file comes in any way, or the one through an upload and the other without.
AnyOrigin == [f \in Files |-> {"upload", "direct"} \X {"none", "right", "wrong"}]
OneOfEach == (f1 :> {<<"upload", "none">>, <<"upload", "wrong">>} @@ f2 :> {<<"direct", "right">>})

WorkerSymmetry == Permutations(Workers)
=============================================================================
