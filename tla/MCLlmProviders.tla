--------------------------- MODULE MCLlmProviders ---------------------------
(* Constants for model-checking LlmProviders. *)
EXTENDS LlmProviders

CONSTANTS p1, p2
MCOrder == <<p1, p2>>
=============================================================================
