------------------------------ MODULE JobQueue ------------------------------
(***************************************************************************)
(* The desktop app's job queue (src-tauri/src/jobs/mod.rs): the SQLite     *)
(* tables ingest_jobs, with its counters, and file_queue.  Every operation *)
(* is one call under the connection's mutex; who calls them, and when, is  *)
(* IngestRuns.  A queued file is its row: (job_id, file_path) is unique,   *)
(* and adding a file that is there already changes nothing.                *)
(***************************************************************************)
EXTENDS Naturals, FiniteSets

CONSTANTS
  Jobs,       \* job ids, numbered in the order of their creation
  Rows,       \* file_queue ids, numbered as AUTOINCREMENT hands them out
  BatchSize   \* batch_size of claim_batch

ASSUME QueueAssumption ==
  Jobs \subseteq Nat \ {0} /\ Rows \subseteq Nat /\ IsFiniteSet(Rows) /\ BatchSize \in Nat \ {0}

VARIABLES
  job,   \* ingest_jobs
  row    \* file_queue

queue == <<job, row>>

JobStatus == {"pending", "running", "paused", "done"}
FileStatus == {"pending", "in_progress", "done", "error", "skipped"}

\* "unused": never inserted; "deleted": was there.  Ids are not used again.
QueueTypeOK ==
  /\ job \in [Jobs -> [status : JobStatus \cup {"unused", "deleted"},
                       total : Nat, done : Nat, error : Nat, skipped : Nat]]
  /\ \A r \in Rows :
       /\ row[r].job \in Jobs \cup {0} /\ row[r].retries \in Nat
       /\ row[r].status \in FileStatus \cup {"unused", "deleted"}
       /\ row[r].status \in FileStatus => job[row[r].job].status \in JobStatus

QueueInit ==
  /\ job = [j \in Jobs |-> [status |-> "unused", total |-> 0, done |-> 0,
                            error |-> 0, skipped |-> 0]]
  /\ row = [r \in Rows |-> [job |-> 0, status |-> "unused", retries |-> 0]]

JobThere(j) == j \in Jobs /\ job[j].status \in JobStatus
RowThere(r) == row[r].status \in FileStatus
With(j, status) == {r \in Rows : row[r].job = j /\ row[r].status = status}
First(ids) == {i \in ids : \A k \in ids : i <= k}

\* A job with one field changed; an UPDATE of a job that is gone does nothing.
JobUpdated(j, field, value) ==
  IF JobThere(j) THEN [job EXCEPT ![j][field] = value] ELSE job

\* total_files as the SELECT COUNT(*) after the change sees it.
Recounted(table, j) ==
  IF JobThere(j)
  THEN [job EXCEPT ![j].total =
          Cardinality({r \in Rows : table[r].job = j /\ table[r].status \in FileStatus})]
  ELSE job

Marked(ids, status) ==
  [r \in Rows |-> IF r \in ids /\ RowThere(r)
                  THEN [row[r] EXCEPT !.status = status] ELSE row[r]]

-----------------------------------------------------------------------------
CreateJob(j) ==
  /\ j \in First({i \in Jobs : job[i].status = "unused"})
  /\ job' = [job EXCEPT ![j].status = "pending"]
  /\ UNCHANGED row

SetJobStatus(j, status) == job' = JobUpdated(j, "status", status) /\ UNCHANGED row

DeleteJob(j) ==
  /\ row' = [r \in Rows |-> IF row[r].job = j /\ RowThere(r)
                            THEN [row[r] EXCEPT !.status = "deleted"] ELSE row[r]]
  /\ job' = [job EXCEPT ![j] = [status |-> "deleted", total |-> 0, done |-> 0,
                                error |-> 0, skipped |-> 0]]

\* add_files, one file.
AddFile(j) ==
  /\ JobThere(j)
  /\ \E r \in First({i \in Rows : row[i].status = "unused"}) :
       row' = [row EXCEPT ![r] = [job |-> j, status |-> "pending", retries |-> 0]]
  /\ job' = Recounted(row', j)

\* Mutant: whatever has no verdict yet is taken.
NextBatchUnfinished(j) ==
  LET ids == With(j, "pending") \cup With(j, "in_progress") IN
  {r \in ids : Cardinality({q \in ids : q < r}) < BatchSize}

\* The rows claim_batch takes: ORDER BY id LIMIT batch_size.
NextBatch(j) ==
  {r \in With(j, "pending") :
     Cardinality({q \in With(j, "pending") : q < r}) < BatchSize}

ClaimBatch(j) == row' = Marked(NextBatch(j), "in_progress") /\ UNCHANGED job

\* The rows are set done whatever they were; the counter grows by the length
\* of the list.
MarkDone(j, ids) ==
  /\ row' = Marked(ids, "done")
  /\ job' = JobUpdated(j, "done", job[j].done + Cardinality(ids))

\* A row that is gone counts as one that was never retried.
MarkError(j, r, maxRetries) ==
  LET retries == IF RowThere(r) THEN row[r].retries ELSE 0
      status == IF retries < maxRetries THEN "pending" ELSE "error" IN
  /\ row' = IF RowThere(r)
            THEN [row EXCEPT ![r] = [job |-> @.job, status |-> status,
                                     retries |-> @.retries + 1]]
            ELSE row
  /\ job' = IF status = "error" THEN JobUpdated(j, "error", job[j].error + 1) ELSE job

MarkSkipped(j, r) ==
  /\ row' = Marked({r}, "skipped")
  /\ job' = JobUpdated(j, "skipped", job[j].skipped + 1)

\* Mutant: no status in the WHERE.
ReclaimAll(j) ==
  row' = Marked({r \in Rows : row[r].job = j}, "pending") /\ UNCHANGED job

ReclaimInProgress(j) ==
  row' = Marked(With(j, "in_progress"), "pending") /\ UNCHANGED job

RemoveFile(r) ==
  /\ RowThere(r)
  /\ row' = Marked({r}, "deleted")
  /\ job' = Recounted(row', row[r].job)

RemoveFilesByStatus(j, status) ==
  /\ row' = Marked(With(j, status), "deleted")
  /\ job' = Recounted(row', j)
=============================================================================
