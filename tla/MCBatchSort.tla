---------------------------- MODULE MCBatchSort ----------------------------
(* Constants for model-checking BatchSort: a text file and another file. *)
EXTENDS BatchSort

CONSTANTS a, b
MCOrder == <<a, b>>
MCSorts == 1..2
=============================================================================
