----------------------------- MODULE MCBatchRun -----------------------------
(* Constants for model-checking BatchRun. *)
EXTENDS BatchRun

MCTwo == 1..2
=============================================================================
