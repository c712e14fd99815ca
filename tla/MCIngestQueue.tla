--------------------------- MODULE MCIngestQueue ---------------------------
(* Constants for model-checking IngestQueue. *)
EXTENDS IngestQueue, TLC

CONSTANTS t1, t2, old1

\* ingest_tasks.json with a task interrupted on its last attempt.
MCLegacy ==
  old1 :> [state |-> "processing", attempts |-> 2, max |-> 2, retry |-> 0]
=============================================================================
