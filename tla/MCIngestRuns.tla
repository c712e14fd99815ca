---------------------------- MODULE MCIngestRuns ----------------------------
(* Constants for model-checking IngestRuns. *)
EXTENDS IngestRuns

MCOne == {1}
MCTwo == 1..2

\* What the steps still to come and the properties of the runs that use it
\* can tell apart: not the counters, not which of the three unfinished states a
\* job is in (only onMount asks, and takes any of them), not what is known of rows
\* that are gone or of views that nothing uses any more.
MCUsed(v) ==
  \/ view[v].at # "closed" \/ view[v].mount # "settled"
  \/ \E n \in Runs : Live(n) /\ run[n].view = v
MCHeld == UNION {Held(n) : n \in {m \in Runs : Live(m)}}
MCView ==
  <<[j \in Jobs |-> IF job[j].status \in {"running", "paused"} THEN "pending" ELSE job[j].status],
    [r \in Rows |-> <<row[r].status, IF RowThere(r) THEN row[r].job ELSE 0>>],
    [v \in Views |-> IF MCUsed(v) THEN <<view[v]>> ELSE <<>>],
    run,
    {r \in indexed : RowThere(r)},
    [r \in Rows |-> IF r \in MCHeld \cup {q \in Rows : row[q].status = "in_progress"}
                    THEN claimant[r] ELSE NoRun],
    taken \cap MCHeld,
    {r \in unheard : row[r].status = "in_progress"}>>
=============================================================================
