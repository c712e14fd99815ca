--------------------------- MODULE MCIngestServer ---------------------------
(* Constants for model-checking IngestServer. *)
EXTENDS IngestServer, TLC

CONSTANTS t1, d1

MCOneBatch == t1 :> {d1}
MCNoLegacy == [t \in {} |-> 0]

Symmetry == Permutations(Workers) \cup Permutations(Calls)
=============================================================================
