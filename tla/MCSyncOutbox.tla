---------------------------- MODULE MCSyncOutbox ----------------------------
(* Constants for model-checking SyncOutbox. *)
EXTENDS SyncOutbox, TLC

CONSTANTS push, timer, files

MCTwo == 1..2

\* The drain posts two manifests in one request, the uploads wait for each other.
MCBatch == push :> 2 @@ timer :> 2 @@ files :> 1
=============================================================================
