-------------------------- MODULE MCTransferQueue --------------------------
(* Constants for model-checking TransferQueue. *)
EXTENDS TransferQueue

MCTwo == 1..2
=============================================================================
