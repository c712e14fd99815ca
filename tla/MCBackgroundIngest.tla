------------------------- MODULE MCBackgroundIngest -------------------------
(* Constants for model-checking BackgroundIngest. *)
EXTENDS BackgroundIngest

MCItems == {"a", "b", "c"}
MCStarts == {"s1", "s2", "s3"}
MCWorkers == 1..3
=============================================================================
