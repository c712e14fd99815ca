-------------------------- MODULE MCOfflineReplay --------------------------
(* Constants for model-checking OfflineReplay. *)
EXTENDS OfflineReplay, TLC

CONSTANTS loop, command

MCTwo == 1..2

\* A batch that leaves work behind, and one that takes it all.
MCLimits == loop :> 1 @@ command :> 2
=============================================================================
