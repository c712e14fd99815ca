-------------------------- MODULE IngestRunsProofs --------------------------
(* Proofs about IngestRuns, for any number of jobs, rows, views and runs. *)
EXTENDS IngestRuns, FiniteSetTheorems, TLAPS

USE QueueAssumption, RunsAssumption

-----------------------------------------------------------------------------
(* The job queue *)

JobRow == [status : JobStatus \cup {"unused", "deleted"}, total : Nat, done : Nat,
           error : Nat, skipped : Nat]
FileRow == [job : Jobs \cup {0}, status : FileStatus \cup {"unused", "deleted"}, retries : Nat]

\* The two tables; a row belongs to a job that is there (the foreign key).
QueueOK ==
  /\ job \in [Jobs -> JobRow]
  /\ row \in [Rows -> FileRow]
  /\ \A r \in Rows : RowThere(r) => row[r].job \in Jobs /\ job[row[r].job].status \in JobStatus

\* What an operation may do to rows: only those of done become done, only those of
\* back and new ones become pending, and what is done is not queued again ...
BasicEffect(done, back) ==
  \A r \in Rows :
    /\ row'[r].status = "done" => row[r].status = "done" \/ r \in done
    /\ row'[r].status = "pending" => row[r].status \in {"pending", "unused"} \/ r \in back
    /\ row'[r].status = "unused" => row[r].status = "unused"
    /\ row[r].status = "done" => row'[r].status \notin {"pending", "in_progress"}

\* ... and only a claim makes one in_progress.
RowEffect(done, back) ==
  /\ BasicEffect(done, back)
  /\ \A r \in Rows : row'[r].status = "in_progress" => row[r].status = "in_progress"

LEMMA CardinalityNat ==
  ASSUME NEW S \in SUBSET Rows PROVE Cardinality(S) \in Nat
BY FS_Subset, FS_CardinalityType

LEMMA MarkedOK ==
  ASSUME QueueOK, NEW ids \in SUBSET Rows, NEW status \in FileStatus \cup {"deleted"}
  PROVE  /\ Marked(ids, status) \in [Rows -> FileRow]
         /\ \A r \in Rows : Marked(ids, status)[r].job = row[r].job
         /\ \A r \in Rows : Marked(ids, status)[r].status =
              IF r \in ids /\ RowThere(r) THEN status ELSE row[r].status
BY DEF QueueOK, Marked, FileRow, FileStatus, RowThere

\* A changed job is still there, unless it is the one deleted.
LEMMA JobUpdatedOK ==
  ASSUME QueueOK, NEW j \in Jobs, NEW status \in JobStatus, NEW n \in Nat
  PROVE  /\ JobUpdated(j, "status", status) \in [Jobs -> JobRow]
         /\ JobUpdated(j, "done", n) \in [Jobs -> JobRow]
         /\ JobUpdated(j, "error", n) \in [Jobs -> JobRow]
         /\ JobUpdated(j, "skipped", n) \in [Jobs -> JobRow]
         /\ \A i \in Jobs : job[i].status \in JobStatus =>
              /\ JobUpdated(j, "status", status)[i].status \in JobStatus
              /\ JobUpdated(j, "done", n)[i].status \in JobStatus
              /\ JobUpdated(j, "error", n)[i].status \in JobStatus
              /\ JobUpdated(j, "skipped", n)[i].status \in JobStatus
BY DEF QueueOK, JobUpdated, JobThere, JobRow, JobStatus

LEMMA RecountedOK ==
  ASSUME QueueOK, NEW table, NEW j
  PROVE  /\ Recounted(table, j) \in [Jobs -> JobRow]
         /\ \A i \in Jobs : Recounted(table, j)[i].status = job[i].status
<1> DEFINE files == {r \in Rows : table[r].job = j /\ table[r].status \in FileStatus}
<1>1. Cardinality(files) \in Nat
  BY CardinalityNat
<1>2. QED
  BY <1>1 DEF QueueOK, Recounted, JobThere, JobRow

\* Every operation keeps the tables well formed.
LEMMA MarkStep ==
  ASSUME QueueOK, NEW ids \in SUBSET Rows, NEW status \in FileStatus \cup {"deleted"},
         row' = Marked(ids, status), job' \in [Jobs -> JobRow],
         \A i \in Jobs : job[i].status \in JobStatus => job'[i].status \in JobStatus
  PROVE  QueueOK'
<1>1. \A r \in Rows : RowThere(r)' => RowThere(r)
  BY MarkedOK DEF RowThere, FileStatus
<1>2. row' \in [Rows -> FileRow] /\ \A r \in Rows : row'[r].job = row[r].job
  BY MarkedOK
<1>3. QED
  BY <1>1, <1>2 DEF QueueOK

LEMMA SetStatusStep ==
  ASSUME QueueOK, NEW j \in Jobs, NEW status \in JobStatus, SetJobStatus(j, status)
  PROVE  QueueOK' /\ RowEffect({}, {})
<1>1. job' \in [Jobs -> JobRow] /\ row' = row
  BY JobUpdatedOK DEF SetJobStatus
<1>2. \A i \in Jobs : job[i].status \in JobStatus => job'[i].status \in JobStatus
  BY JobUpdatedOK DEF SetJobStatus
<1>3. QED
  BY <1>1, <1>2 DEF QueueOK, RowThere, RowEffect, BasicEffect

LEMMA CreateStep ==
  ASSUME QueueOK, NEW j \in Jobs, CreateJob(j) PROVE QueueOK' /\ RowEffect({}, {})
BY DEF QueueOK, RowThere, RowEffect, BasicEffect, CreateJob, JobRow, JobStatus

LEMMA DeleteStep ==
  ASSUME QueueOK, NEW j \in Jobs, DeleteJob(j) PROVE QueueOK' /\ RowEffect({}, {})
<1>1. job' \in [Jobs -> JobRow] /\ \A i \in Jobs \ {j} : job'[i] = job[i]
  BY DEF QueueOK, DeleteJob, JobRow
<1>2. row' \in [Rows -> FileRow]
  BY DEF QueueOK, DeleteJob, FileRow, RowThere, FileStatus
<1>3. \A r \in Rows : row'[r].job = row[r].job /\ (RowThere(r)' => RowThere(r) /\ row[r].job # j)
  BY DEF QueueOK, DeleteJob, RowThere, FileRow, FileStatus
<1>4. RowEffect({}, {})
  BY DEF QueueOK, DeleteJob, RowThere, FileRow, FileStatus, RowEffect, BasicEffect
<1>5. QED
  BY <1>1, <1>2, <1>3, <1>4 DEF QueueOK, RowThere

LEMMA AddStep ==
  ASSUME QueueOK, NEW j \in Jobs, AddFile(j) PROVE QueueOK' /\ RowEffect({}, {})
<1>1. PICK q \in Rows :
        /\ row[q].status = "unused"
        /\ row' = [row EXCEPT ![q] = [job |-> j, status |-> "pending", retries |-> 0]]
  BY DEF AddFile, First
<1>2. job' \in [Jobs -> JobRow] /\ \A i \in Jobs : job'[i].status = job[i].status
  BY RecountedOK DEF AddFile
<1>3. row' \in [Rows -> FileRow]
  BY <1>1 DEF QueueOK, FileRow, FileStatus
<1>4. \A r \in Rows : RowThere(r)' => row'[r].job \in Jobs /\ job'[row'[r].job].status \in JobStatus
  BY <1>1, <1>2 DEF QueueOK, RowThere, AddFile, JobThere
<1>5. RowEffect({}, {})
  BY <1>1 DEF QueueOK, RowEffect, BasicEffect
<1>6. QED
  BY <1>2, <1>3, <1>4, <1>5 DEF QueueOK

LEMMA ClaimStep ==
  ASSUME QueueOK, NEW j, ClaimBatch(j)
  PROVE  /\ QueueOK' /\ BasicEffect({}, {})
         /\ \A r \in Rows : row'[r].status = "in_progress" =>
              row[r].status = "in_progress" \/ r \in NextBatch(j)
<1>1. NextBatch(j) \in SUBSET Rows /\ \A r \in NextBatch(j) : row[r].status = "pending"
  BY DEF NextBatch, With
<1>2. row' = Marked(NextBatch(j), "in_progress") /\ job' = job
  BY DEF ClaimBatch
<1>3. "in_progress" \in FileStatus
  BY DEF FileStatus
<1>4. QueueOK'
  BY <1>1, <1>2, <1>3, MarkStep DEF QueueOK
<1>5. \A r \in Rows : Marked(NextBatch(j), "in_progress")[r].status =
                         IF r \in NextBatch(j) /\ RowThere(r) THEN "in_progress" ELSE row[r].status
  BY <1>1, <1>3, MarkedOK
<1>6. QED
  BY <1>1, <1>2, <1>4, <1>5 DEF BasicEffect

LEMMA MarkDoneStep ==
  ASSUME QueueOK, NEW j \in Jobs, NEW ids \in SUBSET Rows, MarkDone(j, ids)
  PROVE  QueueOK' /\ RowEffect(ids, {}) /\ \A r \in ids : row'[r].status # "in_progress"
<1>1. job[j].done + Cardinality(ids) \in Nat
  BY CardinalityNat DEF QueueOK, JobRow
<1>2. /\ job' \in [Jobs -> JobRow]
      /\ \A i \in Jobs : job[i].status \in JobStatus => job'[i].status \in JobStatus
  <2>1. "done" \in JobStatus
    BY DEF JobStatus
  <2>2. QED
    BY <1>1, <2>1, JobUpdatedOK DEF MarkDone
<1>3. "done" \in FileStatus /\ row' = Marked(ids, "done")
  BY DEF MarkDone, FileStatus
<1>4. QueueOK'
  BY <1>2, <1>3, MarkStep
<1>5. \A r \in Rows : row'[r].status = IF r \in ids /\ RowThere(r) THEN "done" ELSE row[r].status
  BY <1>3, MarkedOK
<1>6. QED
  BY <1>4, <1>5 DEF RowEffect, BasicEffect, RowThere, FileStatus

LEMMA MarkSkippedStep ==
  ASSUME QueueOK, NEW j \in Jobs, NEW q \in Rows, MarkSkipped(j, q)
  PROVE  QueueOK' /\ RowEffect({}, {}) /\ row'[q].status # "in_progress"
<1>1. job[j].skipped + 1 \in Nat
  BY DEF QueueOK, JobRow
<1>2. /\ job' \in [Jobs -> JobRow]
      /\ \A i \in Jobs : job[i].status \in JobStatus => job'[i].status \in JobStatus
  <2>1. "done" \in JobStatus
    BY DEF JobStatus
  <2>2. QED
    BY <1>1, <2>1, JobUpdatedOK DEF MarkSkipped
<1>3. "skipped" \in FileStatus /\ row' = Marked({q}, "skipped")
  BY DEF MarkSkipped, FileStatus
<1>4. QueueOK'
  BY <1>2, <1>3, MarkStep
<1>5. \A r \in Rows : row'[r].status = IF r = q /\ RowThere(r) THEN "skipped" ELSE row[r].status
  BY <1>3, MarkedOK
<1>6. QED
  BY <1>4, <1>5 DEF RowEffect, BasicEffect, RowThere, FileStatus

\* With MaxRetries = 0 a failed row is never queued again.
LEMMA MarkErrorStep ==
  ASSUME QueueOK, NEW j \in Jobs, NEW q \in Rows, MarkError(j, q, MaxRetries)
  PROVE  QueueOK' /\ RowEffect({}, {}) /\ row'[q].status # "in_progress"
<1> DEFINE retries == IF RowThere(q) THEN row[q].retries ELSE 0
<1>1. retries \in Nat /\ ~(retries < MaxRetries)
  BY DEF QueueOK, FileRow, MaxRetries
<1>2. /\ row' = IF RowThere(q)
                THEN [row EXCEPT ![q] = [job |-> @.job, status |-> "error", retries |-> @.retries + 1]]
                ELSE row
      /\ job' = JobUpdated(j, "error", job[j].error + 1)
  BY <1>1 DEF MarkError
<1>3. job[j].error + 1 \in Nat
  BY DEF QueueOK, JobRow
<1>4. /\ job' \in [Jobs -> JobRow]
      /\ \A i \in Jobs : job[i].status \in JobStatus => job'[i].status \in JobStatus
  <2>1. "done" \in JobStatus
    BY DEF JobStatus
  <2>2. QED
    BY <1>2, <1>3, <2>1, JobUpdatedOK
<1>5. row' \in [Rows -> FileRow] /\ \A r \in Rows : row'[r].job = row[r].job
  BY <1>2 DEF QueueOK, FileRow, FileStatus, RowThere
<1>6. \A r \in Rows : row'[r].status = IF r = q /\ RowThere(r) THEN "error" ELSE row[r].status
  BY <1>2 DEF QueueOK
<1>7. QueueOK'
  BY <1>4, <1>5, <1>6 DEF QueueOK, RowThere, FileStatus
<1>8. QED
  BY <1>6, <1>7 DEF RowEffect, BasicEffect, RowThere, FileStatus

LEMMA ReclaimStep ==
  ASSUME QueueOK, NEW j, ReclaimInProgress(j)
  PROVE  /\ QueueOK' /\ RowEffect({}, With(j, "in_progress"))
         /\ \A r \in With(j, "in_progress") : row'[r].status # "in_progress"
<1>1. With(j, "in_progress") \in SUBSET Rows /\ \A r \in With(j, "in_progress") : row[r].status = "in_progress"
  BY DEF With
<1>2. row' = Marked(With(j, "in_progress"), "pending") /\ job' = job
  BY DEF ReclaimInProgress
<1>3. "pending" \in FileStatus
  BY DEF FileStatus
<1>4. QueueOK'
  BY <1>1, <1>2, <1>3, MarkStep DEF QueueOK
<1>5. \A r \in Rows : row'[r].status = IF r \in With(j, "in_progress") /\ RowThere(r) THEN "pending" ELSE row[r].status
  BY <1>1, <1>2, <1>3, MarkedOK
<1>6. QED
  BY <1>1, <1>4, <1>5 DEF RowEffect, BasicEffect, RowThere, FileStatus

\* Rows that are removed, one or all of one status.
LEMMA RemoveStep ==
  ASSUME QueueOK, NEW ids \in SUBSET Rows, NEW j,
         row' = Marked(ids, "deleted"), job' = Recounted(row', j)
  PROVE  QueueOK' /\ RowEffect({}, {})
<1>1. QueueOK'
  <2>1. /\ job' \in [Jobs -> JobRow]
        /\ \A i \in Jobs : job[i].status \in JobStatus => job'[i].status \in JobStatus
    BY RecountedOK
  <2>2. QED
    BY <2>1, MarkStep
<1>2. \A r \in Rows : row'[r].status = IF r \in ids /\ RowThere(r) THEN "deleted" ELSE row[r].status
  BY MarkedOK
<1>3. QED
  BY <1>1, <1>2 DEF RowEffect, BasicEffect

LEMMA NoQueueStep ==
  ASSUME QueueOK, UNCHANGED queue PROVE QueueOK' /\ RowEffect({}, {})
BY DEF QueueOK, RowEffect, BasicEffect, queue, RowThere

-----------------------------------------------------------------------------
(* The runs *)

ViewState ==
  [at : {"unused", "open", "closed"}, mount : {"listing", "reclaiming", "settled"},
   job : Jobs \cup {NoJob}, running : BOOLEAN, paused : BOOLEAN, l1Running : BOOLEAN,
   abort : Runs \cup {NoRun}]

Typed ==
  /\ view \in [Views -> ViewState]
  /\ run \in [Runs -> RunState]
  /\ indexed \subseteq Rows /\ taken \subseteq Rows /\ unheard \subseteq Rows
  /\ claimant \in [Rows -> Runs \cup {NoRun}]

EmptyHanded == {"unused", "preparing", "announcing", "waiting", "claiming", "draining",
                "pausing", "over", "dead"}

\* What a run has in hand in each phase.
Phased(n) ==
  /\ run[n].pc \in EmptyHanded => Held(n) = {}
  /\ run[n].pc \in {"extracting", "reclaiming"} =>
       run[n].writes = {} /\ run[n].errored = {} /\ run[n].skipped = {}
  /\ run[n].pc = "reporting" => run[n].writes = {}
  /\ run[n].pc # "extracting" /\ ~run[n].aborted => run[n].batch = {}
  /\ run[n].pc = "marking" => run[n].writes \subseteq indexed

\* A row in hand was inserted, and it is pending only if it was taken away.
HoldsOK(n) ==
  \A r \in Held(n) : row[r].status # "unused" /\ (row[r].status = "pending" => r \in taken)

Exclusive == \A m, n \in Runs : m # n => Held(m) \cap Held(n) \subseteq taken

\* Who has to answer for row r.
Covered(r) ==
  \/ r \in unheard
  \/ claimant[r] \in Runs /\ (run[claimant[r]].pc = "dead" \/ r \in Held(claimant[r]))
AllCovered == \A r \in Rows : row[r].status = "in_progress" => Covered(r)

IndInv ==
  /\ QueueOK /\ Typed
  /\ DoneIsIndexed /\ Exclusive /\ AllCovered
  /\ \A n \in Runs : Phased(n) /\ HoldsOK(n)

\* One step of DoneIsNeverRequeued.
NotRequeued ==
  \A r \in Rows : row[r].status = "done" => row'[r].status \notin {"pending", "in_progress"}

\* A step that gives no run a row it had not: what goes back to pending in a
\* run's hands is taken from it.
LEMMA Keeps ==
  ASSUME IndInv, NEW done \in SUBSET Rows, NEW back \in SUBSET Rows,
         RowEffect(done, back), QueueOK', Typed',
         done \subseteq indexed', indexed \subseteq indexed',
         \A n \in Runs : Phased(n)',
         \A n \in Runs : \A r \in Held(n)' :
           r \in Held(n) /\ (r \in taken \/ r \in back => r \in taken'),
         claimant' = claimant, unheard \subseteq unheard',
         \A n \in Runs : run[n].pc = "dead" => run'[n].pc = "dead",
         \A n \in Runs : \A r \in Held(n) \ Held(n)' :
           row'[r].status # "in_progress" \/ r \in unheard' \/ run'[n].pc = "dead"
  PROVE  IndInv' /\ NotRequeued
<1>1. \A n \in Runs : Held(n) \subseteq Rows /\ Held(n)' \subseteq Rows
  BY DEF IndInv, Typed, RunState, Held
<1>2. DoneIsIndexed'
  BY DEF IndInv, DoneIsIndexed, RowEffect, BasicEffect
<1>3. Exclusive'
  BY DEF IndInv, Exclusive
<1>4. \A n \in Runs : HoldsOK(n)'
  BY <1>1 DEF IndInv, HoldsOK, RowEffect, BasicEffect
<1>5. NotRequeued
  BY DEF RowEffect, BasicEffect, NotRequeued
<1>6. AllCovered'
  BY DEF IndInv, AllCovered, Covered, RowEffect
<1>7. QED
  BY <1>2, <1>3, <1>4, <1>5, <1>6 DEF IndInv

\* The same for a step that moves no run.
LEMMA RunsStill ==
  ASSUME IndInv, NEW back \in SUBSET Rows, RowEffect({}, back), QueueOK',
         view' \in [Views -> ViewState], UNCHANGED <<run, indexed, claimant, unheard>>,
         taken' \subseteq Rows, taken \subseteq taken',
         \A n \in Runs : Held(n) \cap back \subseteq taken'
  PROVE  IndInv' /\ NotRequeued
<1>1. Typed'
  BY DEF IndInv, Typed
<1>2. \A n \in Runs : Phased(n)' /\ Held(n)' = Held(n)
  BY DEF IndInv, Phased, Held
<1>3. /\ \A n \in Runs : Phased(n)'
      /\ \A n \in Runs : \A r \in Held(n)' : r \in Held(n) /\ (r \in taken \/ r \in back => r \in taken')
      /\ \A n \in Runs : run[n].pc = "dead" => run'[n].pc = "dead"
      /\ \A n \in Runs : \A r \in Held(n) \ Held(n)' :
           row'[r].status # "in_progress" \/ r \in unheard' \/ run'[n].pc = "dead"
      /\ indexed \subseteq indexed' /\ {} \subseteq indexed' /\ {} \in SUBSET Rows
      /\ claimant' = claimant /\ unheard \subseteq unheard'
  BY <1>2
<1>4. QED
  BY <1>1, <1>3, Keeps

\* The same for a step of run n alone that takes no row away.
LEMMA RunMoves ==
  ASSUME IndInv, NEW n \in Runs, NEW c \in RunState, run' = [run EXCEPT ![n] = c],
         NEW done \in SUBSET Rows, RowEffect(done, {}), QueueOK',
         view' \in [Views -> ViewState], indexed' \subseteq Rows, unheard' \subseteq Rows,
         taken' = taken, done \subseteq indexed', indexed \subseteq indexed',
         Phased(n)', Held(n)' \subseteq Held(n),
         claimant' = claimant, unheard \subseteq unheard', run[n].pc = "dead" => c.pc = "dead",
         \A r \in Held(n) \ Held(n)' : row'[r].status # "in_progress" \/ r \in unheard'
  PROVE  IndInv' /\ NotRequeued
<1>1. Typed'
  BY DEF IndInv, Typed
<1>2. \A m \in Runs \ {n} : Phased(m)' /\ Held(m)' = Held(m)
  <2>1. \A m \in Runs \ {n} : run'[m] = run[m]
    BY DEF IndInv, Typed
  <2>2. \A m \in Runs \ {n} : Held(m)' = Held(m)
    BY <2>1 DEF Held
  <2>3. \A m \in Runs \ {n} : Phased(m)
    BY DEF IndInv
  <2>4. QED
    BY <2>1, <2>2, <2>3 DEF Phased
<1>3. \A m \in Runs : run[m].pc = "dead" => run'[m].pc = "dead"
  BY DEF IndInv, Typed
<1>4. QED
  BY <1>1, <1>2, <1>3, Keeps

\* And for a step of run n that leaves the queue and the index alone.
LEMMA RunGoes ==
  ASSUME IndInv, NEW n \in Runs, NEW c \in RunState, run' = [run EXCEPT ![n] = c],
         UNCHANGED <<queue, indexed, claimant, taken, unheard>>, view' \in [Views -> ViewState],
         Phased(n)', Held(n)' = Held(n), run[n].pc = "dead" => c.pc = "dead"
  PROVE  IndInv' /\ NotRequeued
<1>1. QueueOK' /\ RowEffect({}, {})
  BY NoQueueStep DEF IndInv, queue
<1>2. /\ indexed' = indexed /\ taken' = taken /\ unheard' = unheard /\ claimant' = claimant
      /\ Held(n)' \subseteq Held(n)
      /\ \A r \in Held(n) \ Held(n)' : row'[r].status # "in_progress" \/ r \in unheard'
      /\ unheard \subseteq unheard' /\ indexed' \subseteq Rows /\ unheard' \subseteq Rows /\ {} \in SUBSET Rows
  BY DEF IndInv, Typed
<1>3. QED
  BY <1>1, <1>2, RunMoves

-----------------------------------------------------------------------------
(* The views *)

LEMMA NotRunningTyped ==
  ASSUME NEW pc \in RunPhase
  PROVE  /\ NotRunning(pc) \in RunState /\ NotRunning(pc).pc = pc
         /\ NotRunning(pc).batch = {} /\ NotRunning(pc).writes = {}
         /\ NotRunning(pc).errored = {} /\ NotRunning(pc).skipped = {}
BY DEF NotRunning, RunState

LEMMA JobOfView ==
  ASSUME IndInv, NEW v \in Views PROVE view[v].job # NoJob => view[v].job \in Jobs
BY DEF IndInv, Typed, ViewState

\* What the views and the user do without the queue.
LEMMA ViewSteps ==
  ASSUME IndInv, NEW v \in Views,
         Mount(v) \/ FindJob(v) \/ Unmount(v) \/ PauseResume(v)
  PROVE  IndInv' /\ NotRequeued
<1>1. QueueOK' /\ RowEffect({}, {}) /\ UNCHANGED <<run, indexed, claimant, taken, unheard>>
  BY NoQueueStep DEF IndInv, Mount, FindJob, Unmount, PauseResume, history
<1>2. view' \in [Views -> ViewState]
  <2>1. view[v] \in ViewState
    BY DEF IndInv, Typed
  <2>2. /\ [view[v] EXCEPT !.at = "open", !.mount = "listing"] \in ViewState
        /\ [view[v] EXCEPT !.at = "closed"] \in ViewState
        /\ [view[v] EXCEPT !.paused = ~@] \in ViewState
        /\ [view[v] EXCEPT !.mount = "settled"] \in ViewState
        /\ \A j \in Jobs : [view[v] EXCEPT !.mount = "reclaiming", !.job = j] \in ViewState
    BY <2>1 DEF ViewState
  <2>3. PICK c \in ViewState : view' = [view EXCEPT ![v] = c]
    BY <2>2 DEF Mount, FindJob, Unmount, PauseResume
  <2>4. QED
    BY <2>3 DEF IndInv, Typed
<1>3. QED
  BY <1>1, <1>2, RunsStill DEF IndInv, Typed

\* What TakenFrom takes covers every row of j that one of the others holds.
LEMMA TakenCovers ==
  ASSUME IndInv, NEW others \in SUBSET Runs, NEW j
  PROVE  /\ taken \subseteq TakenFrom(others, j) /\ TakenFrom(others, j) \subseteq Rows
         /\ \A n \in others : Held(n) \cap With(j, "in_progress") \subseteq TakenFrom(others, j)
BY DEF IndInv, Typed, Phased, TakenFrom, With, Live, EmptyHanded

LEMMA RestoreStep ==
  ASSUME IndInv, NEW v \in Views, Restore(v) PROVE IndInv' /\ NotRequeued
<1>1. view' \in [Views -> ViewState] /\ UNCHANGED <<run, indexed, claimant, unheard>>
  <2>1. [view[v] EXCEPT !.mount = "settled"] \in ViewState
    BY DEF IndInv, Typed, ViewState
  <2>2. QED
    BY <2>1 DEF IndInv, Typed, Restore
<1>2. CASE UNCHANGED <<queue, taken>>
  <2>1. QueueOK' /\ RowEffect({}, {})
    BY <1>2, NoQueueStep DEF IndInv, queue
  <2>2. taken' \subseteq Rows /\ taken \subseteq taken'
    BY <1>2 DEF IndInv, Typed
  <2>3. QED
    BY <1>1, <2>1, <2>2, RunsStill
<1>3. CASE ReclaimInProgress(view[v].job) /\ taken' = TakenFrom(Runs, view[v].job)
  <2>1. QueueOK' /\ RowEffect({}, With(view[v].job, "in_progress"))
    BY <1>3, ReclaimStep DEF IndInv
  <2>2. /\ taken' \subseteq Rows /\ taken \subseteq taken'
        /\ \A n \in Runs : Held(n) \cap With(view[v].job, "in_progress") \subseteq taken'
    BY <1>3, TakenCovers
  <2>3. With(view[v].job, "in_progress") \in SUBSET Rows
    BY DEF With
  <2>4. QED
    BY <1>1, <2>1, <2>2, <2>3, RunsStill
<1>4. QED
  BY <1>2, <1>3 DEF Restore

\* The user's operations on the queue.
LEMMA UserSteps ==
  ASSUME IndInv, NEW v \in Views,
         NewJob(v) \/ AddPath(v) \/ RemoveEntry(v) \/ ClearDone(v) \/ ClearAll(v)
  PROVE  IndInv' /\ NotRequeued
<1>1. UNCHANGED <<run, indexed, claimant, taken, unheard>>
  BY DEF NewJob, AddPath, RemoveEntry, ClearDone, ClearAll, history
<1>2. view' \in [Views -> ViewState]
  <2>1. view[v] \in ViewState
    BY DEF IndInv, Typed
  <2>2. \A j \in Jobs \cup {NoJob} : [view[v] EXCEPT !.job = j] \in ViewState
    BY <2>1 DEF ViewState
  <2>3. view' = view \/ \E j \in Jobs \cup {NoJob} : view' = [view EXCEPT ![v].job = j]
    BY DEF NewJob, AddPath, RemoveEntry, ClearDone, ClearAll
  <2>4. QED
    BY <2>2, <2>3 DEF IndInv, Typed
<1>3. QueueOK' /\ RowEffect({}, {})
  <2>1. CASE NewJob(v)
    BY <2>1, CreateStep DEF IndInv, NewJob
  <2>2. CASE AddPath(v)
    BY <2>2, AddStep, JobOfView DEF IndInv, AddPath
  <2>3. CASE RemoveEntry(v)
    <3>1. PICK r \in Rows : RemoveFile(r)
      BY <2>3 DEF RemoveEntry
    <3>2. row' = Marked({r}, "deleted") /\ job' = Recounted(row', row[r].job) /\ {r} \in SUBSET Rows
      BY <3>1 DEF RemoveFile
    <3>3. QED
      BY <3>2, RemoveStep DEF IndInv
  <2>4. CASE ClearDone(v)
    <3>1. /\ row' = Marked(With(view[v].job, "done"), "deleted")
          /\ job' = Recounted(row', view[v].job) /\ With(view[v].job, "done") \in SUBSET Rows
      BY <2>4 DEF ClearDone, RemoveFilesByStatus, With
    <3>2. QED
      BY <3>1, RemoveStep DEF IndInv
  <2>5. CASE ClearAll(v)
    BY <2>5, DeleteStep, JobOfView DEF IndInv, ClearAll
  <2>6. QED
    BY <2>1, <2>2, <2>3, <2>4, <2>5
<1>4. taken \subseteq taken' /\ taken' \subseteq Rows /\ {} \in SUBSET Rows
  BY <1>1 DEF IndInv, Typed
<1>5. QED
  BY <1>1, <1>2, <1>3, <1>4, RunsStill

LEMMA StartStep ==
  ASSUME IndInv, NEW v \in Views, NEW n \in Runs, NEW level \in Levels, StartIngest(v, n, level)
  PROVE  IndInv' /\ NotRequeued
<1> DEFINE c == [run[n] EXCEPT !.pc = "preparing", !.view = v, !.level = level]
<1>1. run[n].pc = "unused" /\ run[n] \in RunState
  BY DEF IndInv, Typed, StartIngest, First
<1>2. c \in RunState /\ c.pc = "preparing"
  BY <1>1 DEF RunState, RunPhase
<1>3. Held(n) = {}
  BY <1>1 DEF IndInv, Phased, EmptyHanded
<1>4. run' = [run EXCEPT ![n] = c] /\ UNCHANGED <<queue, view, indexed, claimant, taken, unheard>>
  BY DEF StartIngest, history
<1>5. run'[n] = c
  BY <1>4 DEF IndInv, Typed
<1>6. Held(n)' = {} /\ Phased(n)'
  BY <1>1, <1>2, <1>3, <1>5 DEF Held, Phased, RunState
<1>7. view' \in [Views -> ViewState] /\ Held(n)' = Held(n)
  BY <1>3, <1>4, <1>6 DEF IndInv, Typed
<1>8. QED
  BY <1>1, <1>2, <1>4, <1>6, <1>7, RunGoes DEF queue

LEMMA StopStep ==
  ASSUME IndInv, NEW v \in Views, StopIngest(v) PROVE IndInv' /\ NotRequeued
<1>1. view[v] \in ViewState
  BY DEF IndInv, Typed
<1>2. [view[v] EXCEPT !.running = FALSE, !.paused = FALSE] \in ViewState
  BY <1>1 DEF ViewState
<1>3. view' \in [Views -> ViewState] /\ UNCHANGED <<queue, indexed, claimant, taken, unheard>>
  BY <1>2 DEF IndInv, Typed, StopIngest, history
<1>4. CASE run' = run
  <2>1. QueueOK' /\ RowEffect({}, {})
    BY <1>3, NoQueueStep DEF IndInv, queue
  <2>2. taken \subseteq taken' /\ taken' \subseteq Rows /\ {} \in SUBSET Rows
    BY <1>3 DEF IndInv, Typed
  <2>3. QED
    BY <1>3, <1>4, <2>1, <2>2, RunsStill
<1>5. ASSUME NEW n \in Runs, run' = [run EXCEPT ![n].aborted = TRUE] PROVE IndInv' /\ NotRequeued
  <2> DEFINE c == [run[n] EXCEPT !.aborted = TRUE]
  <2>1. run[n] \in RunState /\ c \in RunState
    <3>1. run[n] \in RunState
      BY DEF IndInv, Typed
    <3>2. QED
      BY <3>1 DEF RunState
  <2>2. run' = [run EXCEPT ![n] = c] /\ run'[n] = c
    BY <1>5 DEF IndInv, Typed
  <2>3. Held(n)' = Held(n) /\ Phased(n)' /\ c.pc = run[n].pc
    BY <1>3, <2>1, <2>2 DEF IndInv, Held, Phased, RunState
  <2>4. QED
    BY <1>3, <2>1, <2>2, <2>3, RunGoes DEF queue
<1>6. QED
  BY <1>1, <1>4, <1>5 DEF StopIngest, ViewState

LEMMA CloseStep ==
  ASSUME IndInv, CloseApp PROVE IndInv' /\ NotRequeued
<1>1. \A v \in Views : [view[v] EXCEPT !.at = "closed", !.mount = "settled"] \in ViewState
  <2> SUFFICES ASSUME NEW v \in Views
               PROVE  [view[v] EXCEPT !.at = "closed", !.mount = "settled"] \in ViewState
    OBVIOUS
  <2>1. view[v] \in ViewState
    BY DEF IndInv, Typed
  <2>2. QED
    BY <2>1 DEF ViewState
<1>2. view' \in [Views -> ViewState]
  BY <1>1 DEF IndInv, Typed, CloseApp
<1>3. "dead" \in RunPhase
  BY DEF RunPhase
<1>4. Typed'
  BY <1>2, <1>3, NotRunningTyped DEF IndInv, Typed, CloseApp, history
<1>5. \A n \in Runs : Held(n)' = {} /\ Phased(n)'
  <2> SUFFICES ASSUME NEW n \in Runs PROVE Held(n)' = {} /\ Phased(n)'
    OBVIOUS
  <2>1. CASE Live(n)
    BY <2>1, <1>3, NotRunningTyped DEF CloseApp, Held, Phased
  <2>2. CASE ~Live(n)
    <3>1. Held(n) = {} /\ run[n].pc \in {"unused", "over", "dead"} /\ run'[n] = run[n]
      BY <2>2 DEF IndInv, Phased, EmptyHanded, Live, CloseApp
    <3>2. QED
      BY <3>1 DEF Held, Phased
  <2>3. QED
    BY <2>1, <2>2
<1>6. QueueOK' /\ RowEffect({}, {}) /\ indexed' = indexed
  BY NoQueueStep DEF IndInv, CloseApp, queue
<1>7. \A n \in Runs : (run[n].pc = "dead" \/ Held(n) # {}) => run'[n].pc = "dead"
  BY <1>3, NotRunningTyped DEF IndInv, Typed, CloseApp, Live, Phased, EmptyHanded
<1>8. {} \in SUBSET Rows /\ claimant' = claimant /\ unheard' = unheard
  BY DEF CloseApp, history
<1>9. QED
  BY <1>4, <1>5, <1>6, <1>7, <1>8, Keeps

-----------------------------------------------------------------------------
(* The runs *)

LEMMA RunFacts ==
  ASSUME IndInv, NEW n \in Runs
  PROVE  /\ run[n] \in RunState /\ Phased(n) /\ Held(n) \subseteq Rows
         /\ ActiveJob(n) # NoJob => ActiveJob(n) \in Jobs
         /\ \A c : run' = [run EXCEPT ![n] = c] => run'[n] = c
         /\ view \in [Views -> ViewState]
BY DEF IndInv, Typed, RunState, Held, ActiveJob, ViewState

LEMMA LoopTopFacts ==
  ASSUME NEW n
  PROVE  /\ LoopTop(n) \in {"reclaiming", "waiting", "claiming"}
         /\ run[n].aborted => LoopTop(n) = "reclaiming"
BY DEF LoopTop

\* A run that goes on to another phase with what it has.
LEMMA Goes ==
  ASSUME IndInv, NEW n \in Runs, NEW pc \in RunPhase, Step(n, pc),
         UNCHANGED <<view, indexed, claimant, taken, unheard>>, QueueOK', RowEffect({}, {}),
         Held(n) = {}, run[n].pc # "dead"
  PROVE  IndInv' /\ NotRequeued
<1> DEFINE c == [run[n] EXCEPT !.pc = pc]
<1>1. c \in RunState /\ run' = [run EXCEPT ![n] = c] /\ run'[n] = c
  <2>1. run[n] \in RunState
    BY RunFacts
  <2>2. c \in RunState
    BY <2>1 DEF RunState
  <2>3. run' = [run EXCEPT ![n] = c]
    BY DEF Step
  <2>4. QED
    BY <2>2, <2>3, RunFacts
<1>2. Held(n)' = {} /\ Phased(n)'
  BY <1>1, RunFacts DEF Held, Phased, RunState
<1>3. /\ view' \in [Views -> ViewState] /\ indexed' \subseteq Rows /\ unheard' \subseteq Rows
      /\ {} \in SUBSET Rows /\ Held(n)' \subseteq Held(n)
  BY <1>2 DEF IndInv, Typed
<1>4. QED
  BY <1>1, <1>2, <1>3, RunMoves

\* A run that ends.
LEMMA Ends ==
  ASSUME IndInv, NEW n \in Runs, End(n) \/ Finally(n), End(n) => UNCHANGED view \/ Finally(n),
         UNCHANGED <<indexed, claimant, taken, unheard>>, QueueOK', RowEffect({}, {}),
         Held(n) = {}, run[n].pc # "dead"
  PROVE  IndInv' /\ NotRequeued
<1>1. run' = [run EXCEPT ![n] = NotRunning("over")]
  BY DEF End, Finally
<1>2. "over" \in RunPhase
  BY DEF RunPhase
<1>3. run'[n] = NotRunning("over") /\ NotRunning("over") \in RunState
  BY <1>1, <1>2, RunFacts, NotRunningTyped
<1>4. Held(n)' = {} /\ Phased(n)'
  BY <1>2, <1>3, NotRunningTyped DEF Held, Phased
<1>5. view' \in [Views -> ViewState]
  <2>1. \A v \in Views : /\ [view[v] EXCEPT !.l1Running = FALSE] \in ViewState
                         /\ [view[v] EXCEPT !.running = FALSE, !.paused = FALSE, !.abort = NoRun] \in ViewState
    <3> SUFFICES ASSUME NEW v \in Views
                 PROVE  /\ [view[v] EXCEPT !.l1Running = FALSE] \in ViewState
                        /\ [view[v] EXCEPT !.running = FALSE, !.paused = FALSE, !.abort = NoRun] \in ViewState
      OBVIOUS
    <3>1. view[v] \in ViewState
      BY DEF IndInv, Typed
    <3>2. QED
      BY <3>1 DEF ViewState
  <2>2. run[n].view \in Views
    BY RunFacts DEF RunState
  <2>3. QED
    BY <2>1, <2>2, RunFacts DEF Finally, End
<1>6. /\ indexed' \subseteq Rows /\ unheard' \subseteq Rows
      /\ {} \in SUBSET Rows /\ Held(n)' \subseteq Held(n)
  BY <1>4 DEF IndInv, Typed
<1>7. QED
  BY <1>1, <1>3, <1>4, <1>5, <1>6, RunMoves

LEMMA PreparedStep ==
  ASSUME IndInv, NEW n \in Runs, Prepared(n) PROVE IndInv' /\ NotRequeued
<1>1. UNCHANGED <<queue, indexed, claimant, taken, unheard>> /\ Held(n) = {} /\ run[n].pc = "preparing"
  BY RunFacts DEF Prepared, history, Phased, EmptyHanded
<1>2. QueueOK' /\ RowEffect({}, {})
  BY <1>1, NoQueueStep DEF IndInv, queue
<1>3. CASE End(n) /\ UNCHANGED view
  BY <1>1, <1>2, <1>3, Ends
<1>4. CASE ~(End(n) /\ UNCHANGED view)
  <2> DEFINE c == [run[n] EXCEPT !.pc = IF run[n].level = "L1" THEN "claiming" ELSE "announcing"]
  <2>1. c \in RunState /\ run' = [run EXCEPT ![n] = c] /\ run'[n] = c
    BY <1>4, RunFacts DEF Prepared, Step, RunState, RunPhase
  <2>2. view' \in [Views -> ViewState]
    <3>1. \A v \in Views : /\ [view[v] EXCEPT !.l1Running = TRUE] \in ViewState
                           /\ [view[v] EXCEPT !.running = TRUE, !.paused = FALSE, !.abort = n] \in ViewState
      <4> SUFFICES ASSUME NEW v \in Views
                   PROVE  /\ [view[v] EXCEPT !.l1Running = TRUE] \in ViewState
                          /\ [view[v] EXCEPT !.running = TRUE, !.paused = FALSE, !.abort = n] \in ViewState
        OBVIOUS
      <4>1. view[v] \in ViewState
        BY DEF IndInv, Typed
      <4>2. QED
        BY <4>1 DEF ViewState
    <3>2. run[n].view \in Views
      BY RunFacts DEF RunState
    <3>3. QED
      BY <1>4, <3>1, <3>2, RunFacts DEF Prepared
  <2>3. Held(n)' = Held(n) /\ Phased(n)'
    BY <1>1, <2>1, RunFacts DEF Held, Phased, RunState
  <2>4. QED
    BY <1>1, <2>1, <2>2, <2>3, RunGoes
<1>5. QED
  BY <1>3, <1>4

LEMMA EmptySteps ==
  ASSUME IndInv, NEW n \in Runs, Announce(n) \/ Resumed(n) PROVE IndInv' /\ NotRequeued
<1>1. PICK pc \in RunPhase : Step(n, pc)
  BY LoopTopFacts DEF Announce, Resumed, RunPhase
<1>2. UNCHANGED <<view, indexed, claimant, taken, unheard>> /\ Held(n) = {} /\ run[n].pc # "dead"
  BY RunFacts DEF Announce, Resumed, history, Phased, EmptyHanded
<1>3. QueueOK' /\ RowEffect({}, {})
  BY NoQueueStep, SetStatusStep, RunFacts DEF IndInv, Announce, Resumed, queue, JobStatus
<1>4. QED
  BY <1>1, <1>2, <1>3, Goes

LEMMA LastSteps ==
  ASSUME IndInv, NEW n \in Runs, ClaimFails(n) \/ Drained(n) \/ Pause(n)
  PROVE  IndInv' /\ NotRequeued
<1>1. UNCHANGED <<indexed, claimant, taken, unheard>> /\ Finally(n)
      /\ Held(n) = {} /\ run[n].pc # "dead"
  BY RunFacts DEF ClaimFails, Drained, Pause, history, Phased, EmptyHanded
<1>2. QueueOK' /\ RowEffect({}, {})
  BY NoQueueStep, SetStatusStep, RunFacts DEF IndInv, ClaimFails, Drained, Pause, queue, JobStatus
<1>3. QED
  BY <1>1, <1>2, Ends

LEMMA ClaimEmpty ==
  ASSUME IndInv, NEW n \in Runs, Claim(n), NextBatch(ActiveJob(n)) = {}
  PROVE  IndInv' /\ NotRequeued
<1>1. PICK pc \in RunPhase : Step(n, pc)
  BY DEF Claim, RunPhase
<1>2. UNCHANGED <<view, indexed, taken, unheard>> /\ Held(n) = {} /\ run[n].pc # "dead"
  BY RunFacts DEF Claim, Phased, EmptyHanded
<1>3. claimant' = claimant
  BY DEF IndInv, Typed, Claim
<1>4. QueueOK' /\ RowEffect({}, {})
  BY ClaimStep DEF IndInv, Claim, RowEffect
<1>5. QED
  BY <1>1, <1>2, <1>3, <1>4, Goes

\* A row that is claimed was pending: whoever has it still was robbed of it.
LEMMA ClaimSome ==
  ASSUME IndInv, NEW n \in Runs, Claim(n), NextBatch(ActiveJob(n)) # {}
  PROVE  IndInv' /\ NotRequeued
<1> DEFINE ids == NextBatch(ActiveJob(n))
           c == [run[n] EXCEPT !.pc = "extracting", !.batch = ids]
<1>1. ids \in SUBSET Rows /\ \A r \in ids : row[r].status = "pending"
  BY DEF NextBatch, With
<1>2. Held(n) = {} /\ run[n] \in RunState
  BY RunFacts DEF Claim, Phased, EmptyHanded
<1>3. c \in RunState
  BY <1>1, <1>2 DEF RunState, RunPhase
<1>4. run' = [run EXCEPT ![n] = c] /\ run'[n] = c
  BY RunFacts DEF Claim
<1>5. Held(n)' = ids /\ Phased(n)'
  <2>1. /\ c.pc = "extracting" /\ c.batch = ids /\ c.writes = {} /\ c.errored = {} /\ c.skipped = {}
    BY <1>2 DEF Held, RunState
  <2>2. QED
    BY <1>4, <2>1 DEF Held, Phased, EmptyHanded
<1>6. \A m \in Runs \ {n} : Held(m)' = Held(m) /\ Phased(m)'
  <2>1. \A m \in Runs \ {n} : run'[m] = run[m]
    BY <1>4 DEF IndInv, Typed
  <2>2. QED
    BY <2>1 DEF IndInv, Held, Phased, Claim
<1>7. /\ QueueOK' /\ BasicEffect({}, {}) /\ UNCHANGED <<view, indexed>>
      /\ \A r \in Rows : row'[r].status = "in_progress" => row[r].status = "in_progress" \/ r \in ids
  BY ClaimStep DEF IndInv, Claim
<1>8. \A m \in Runs : \A r \in Held(m) : r \in taken => r \in taken'
  BY RunFacts DEF Claim, Live, Phased, EmptyHanded
<1>9. Typed'
  BY <1>3, <1>4, <1>7 DEF IndInv, Typed, Claim
<1>10. Exclusive'
  <2> SUFFICES ASSUME NEW k \in Runs, NEW m \in Runs, k # m, NEW r \in Held(k)' \cap Held(m)'
               PROVE  r \in taken'
    BY DEF Exclusive
  <2>1. CASE k # n /\ m # n
    BY <2>1, <1>6, <1>8 DEF IndInv, Exclusive
  <2>2. CASE k = n \/ m = n
    BY <2>2, <1>1, <1>5, <1>6, <1>8 DEF IndInv, HoldsOK
  <2>3. QED
    BY <2>1, <2>2
<1>11. \A m \in Runs : HoldsOK(m)'
  <2>1. HoldsOK(n)'
    <3>1. "in_progress" \in FileStatus /\ \A r \in ids : RowThere(r)
      BY <1>1 DEF RowThere, FileStatus
    <3>2. \A r \in ids : row'[r].status = "in_progress"
      BY <1>1, <3>1, MarkedOK DEF IndInv, Claim, ClaimBatch
    <3>3. QED
      BY <1>5, <3>2 DEF HoldsOK
  <2>2. \A m \in Runs \ {n} : HoldsOK(m)'
    BY <1>6, <1>7, <1>8, RunFacts DEF IndInv, HoldsOK, RowEffect, BasicEffect
  <2>3. QED
    BY <2>1, <2>2
<1>12. DoneIsIndexed' /\ NotRequeued
  BY <1>7 DEF IndInv, DoneIsIndexed, RowEffect, BasicEffect, NotRequeued
<1>13. AllCovered'
  <2> SUFFICES ASSUME NEW r \in Rows, row'[r].status = "in_progress" PROVE Covered(r)'
    BY DEF AllCovered
  <2>1. CASE r \in ids
    BY <2>1, <1>5 DEF Claim, Covered
  <2>2. CASE r \notin ids
    <3>1. Covered(r) /\ claimant'[r] = claimant[r] /\ (r \in unheard => r \in unheard')
      BY <2>2, <1>7 DEF IndInv, AllCovered, Claim
    <3>2. run[n].pc # "dead" /\ \A m \in Runs \ {n} : run'[m] = run[m]
      BY <1>4 DEF IndInv, Typed, Claim
    <3>3. QED
      BY <1>2, <1>6, <3>1, <3>2 DEF Covered
  <2>3. QED
    BY <2>1, <2>2
<1>14. QED
  BY <1>5, <1>6, <1>7, <1>9, <1>10, <1>11, <1>12, <1>13 DEF IndInv

LEMMA ExtractStep ==
  ASSUME IndInv, NEW n \in Runs, Extract(n) PROVE IndInv' /\ NotRequeued
<1>1. PICK writes, errored, skipped \in SUBSET run[n].batch :
        /\ ~run[n].aborted => writes \cup errored \cup skipped = run[n].batch
        /\ run' = [run EXCEPT ![n] =
              [run[n] EXCEPT !.pc = IF writes = {} THEN "reporting" ELSE "writing",
                             !.batch = run[n].batch \ (writes \cup errored \cup skipped),
                             !.writes = writes, !.errored = errored, !.skipped = skipped]]
  BY DEF Extract
<1> DEFINE c == [run[n] EXCEPT !.pc = IF writes = {} THEN "reporting" ELSE "writing",
                               !.batch = run[n].batch \ (writes \cup errored \cup skipped),
                               !.writes = writes, !.errored = errored, !.skipped = skipped]
<1>2. run[n] \in RunState /\ run[n].batch \in SUBSET Rows
  BY RunFacts DEF RunState
<1>3. c \in RunState
  BY <1>2 DEF RunState, RunPhase
<1>4. /\ c.pc = (IF writes = {} THEN "reporting" ELSE "writing") /\ c.aborted = run[n].aborted
      /\ c.batch = run[n].batch \ (writes \cup errored \cup skipped)
      /\ c.writes = writes /\ c.errored = errored /\ c.skipped = skipped
  BY <1>2 DEF RunState
<1>5. run' = [run EXCEPT ![n] = c] /\ run'[n] = c
  BY <1>1, RunFacts
<1> HIDE DEF c
<1>6. Held(n)' = Held(n) /\ run[n].pc = "extracting"
  <2>1. run[n].pc = "extracting" /\ run[n].writes = {} /\ run[n].errored = {} /\ run[n].skipped = {}
    BY RunFacts DEF Extract, Phased
  <2>2. QED
    BY <1>4, <1>5, <2>1 DEF Held
<1>7. Phased(n)'
  <2>1. run'[n].pc \notin EmptyHanded \cup {"extracting", "reclaiming", "marking"}
    BY <1>4, <1>5 DEF EmptyHanded
  <2>2. run'[n].pc = "reporting" => run'[n].writes = {}
    BY <1>4, <1>5
  <2>3. ~run'[n].aborted => run'[n].batch = {}
    BY <1>1, <1>4, <1>5
  <2>4. QED
    BY <2>1, <2>2, <2>3 DEF Phased
<1>8. UNCHANGED <<queue, indexed, claimant, taken, unheard>> /\ view' \in [Views -> ViewState]
  BY RunFacts DEF Extract, history
<1>9. QED
  BY <1>3, <1>5, <1>6, <1>7, <1>8, RunGoes

LEMMA WritesFailedFacts ==
  ASSUME IndInv, NEW n \in Runs, run[n].pc \in {"writing", "marking"}, WritesFailed(n)
  PROVE  \E c \in RunState : run' = [run EXCEPT ![n] = c] /\ Held(n)' = Held(n) /\ Phased(n)'
<1> DEFINE c == [run[n] EXCEPT !.pc = "reporting", !.writes = {},
                               !.errored = run[n].errored \cup run[n].writes]
<1>1. run[n] \in RunState
  BY RunFacts
<1>2. c \in RunState
  BY <1>1 DEF RunState, RunPhase
<1>3. /\ c.pc = "reporting" /\ c.writes = {} /\ c.errored = run[n].errored \cup run[n].writes
      /\ c.batch = run[n].batch /\ c.skipped = run[n].skipped /\ c.aborted = run[n].aborted
  BY <1>1 DEF RunState
<1>4. run' = [run EXCEPT ![n] = c] /\ run'[n] = c
  BY RunFacts DEF WritesFailed
<1>5. Held(n)' = Held(n)
  BY <1>3, <1>4 DEF Held
<1>6. Phased(n)'
  BY <1>3, <1>4, RunFacts DEF Phased, EmptyHanded
<1>7. QED
  BY <1>2, <1>4, <1>5, <1>6

LEMMA WriteStep ==
  ASSUME IndInv, NEW n \in Runs, Write(n) PROVE IndInv' /\ NotRequeued
<1>1. UNCHANGED <<queue, claimant, taken, unheard>> /\ view' \in [Views -> ViewState]
  BY RunFacts DEF Write, history
<1>2. QueueOK' /\ RowEffect({}, {})
  BY <1>1, NoQueueStep DEF IndInv, queue
<1>3. CASE WritesFailed(n) /\ UNCHANGED indexed
  <2>1. PICK c \in RunState : run' = [run EXCEPT ![n] = c] /\ Held(n)' = Held(n) /\ Phased(n)'
    BY <1>3, WritesFailedFacts DEF Write
  <2>2. run[n].pc # "dead"
    BY DEF Write
  <2>3. QED
    BY <1>1, <1>3, <2>1, <2>2, RunGoes
<1>4. CASE indexed' = indexed \cup run[n].writes /\ Step(n, "marking")
  <2> DEFINE c == [run[n] EXCEPT !.pc = "marking"]
  <2>1. run[n] \in RunState /\ run[n].pc = "writing"
    BY RunFacts DEF Write
  <2>2. c \in RunState
    BY <2>1 DEF RunState, RunPhase
  <2>3. /\ c.pc = "marking" /\ c.writes = run[n].writes /\ c.errored = run[n].errored
        /\ c.batch = run[n].batch /\ c.skipped = run[n].skipped /\ c.aborted = run[n].aborted
    BY <2>1 DEF RunState
  <2>4. run' = [run EXCEPT ![n] = c] /\ run'[n] = c
    BY <1>4, RunFacts DEF Step
  <2> HIDE DEF c
  <2>5. Held(n)' = Held(n)
    BY <2>3, <2>4 DEF Held
  <2>6. Phased(n)'
    BY <1>4, <2>1, <2>3, <2>4, RunFacts DEF Phased, EmptyHanded
  <2>7. /\ indexed \subseteq indexed' /\ indexed' \subseteq Rows /\ unheard' \subseteq Rows
        /\ {} \in SUBSET Rows /\ unheard \subseteq unheard' /\ Held(n)' \subseteq Held(n)
        /\ \A r \in Held(n) \ Held(n)' : row'[r].status # "in_progress" \/ r \in unheard'
    BY <2>5, <1>1, <1>4, <2>1 DEF IndInv, Typed, RunState
  <2>8. QED
    BY <1>1, <1>2, <2>1, <2>2, <2>4, <2>5, <2>6, <2>7, RunMoves
<1>5. QED
  BY <1>3, <1>4 DEF Write

\* What is marked done was written before.
LEMMA MarkRunStep ==
  ASSUME IndInv, NEW n \in Runs, Mark(n) PROVE IndInv' /\ NotRequeued
<1>1. UNCHANGED <<indexed, claimant, taken, unheard>> /\ view' \in [Views -> ViewState] /\ run[n].pc = "marking"
  BY RunFacts DEF Mark, history
<1>2. CASE WritesFailed(n) /\ UNCHANGED queue
  <2>1. PICK c \in RunState : run' = [run EXCEPT ![n] = c] /\ Held(n)' = Held(n) /\ Phased(n)'
    BY <1>1, <1>2, WritesFailedFacts
  <2>2. run[n].pc # "dead"
    BY <1>1
  <2>3. QED
    BY <1>1, <1>2, <2>1, <2>2, RunGoes
<1>3. CASE /\ ActiveJob(n) # NoJob
           /\ MarkDone(ActiveJob(n), run[n].writes)
           /\ run' = [run EXCEPT ![n] = [@ EXCEPT !.pc = "reporting", !.writes = {}]]
  <2> DEFINE c == [run[n] EXCEPT !.pc = "reporting", !.writes = {}]
  <2>1. run[n] \in RunState /\ run[n].writes \in SUBSET Rows /\ run[n].writes \subseteq indexed
    BY <1>1, RunFacts DEF RunState, Phased
  <2>2. c \in RunState
    BY <2>1 DEF RunState, RunPhase
  <2>3. /\ c.pc = "reporting" /\ c.writes = {} /\ c.errored = run[n].errored
        /\ c.batch = run[n].batch /\ c.skipped = run[n].skipped /\ c.aborted = run[n].aborted
    BY <2>1 DEF RunState
  <2>4. run' = [run EXCEPT ![n] = c] /\ run'[n] = c
    BY <1>3, RunFacts
  <2> HIDE DEF c
  <2>5. Held(n)' \subseteq Held(n) /\ Held(n) \ Held(n)' \subseteq run[n].writes
    BY <2>3, <2>4 DEF Held
  <2>6. Phased(n)'
    BY <1>1, <2>3, <2>4, RunFacts DEF Phased, EmptyHanded
  <2>7. /\ QueueOK' /\ RowEffect(run[n].writes, {})
        /\ \A r \in run[n].writes : row'[r].status # "in_progress"
    BY <1>3, <2>1, MarkDoneStep, RunFacts DEF IndInv
  <2>8. /\ indexed \subseteq indexed' /\ run[n].writes \subseteq indexed'
        /\ indexed' \subseteq Rows /\ unheard' \subseteq Rows /\ unheard \subseteq unheard'
        /\ \A r \in Held(n) \ Held(n)' : row'[r].status # "in_progress" \/ r \in unheard'
        /\ run[n].pc # "dead"
    BY <1>1, <2>1, <2>5, <2>7 DEF IndInv, Typed
  <2>9. QED
    BY <1>1, <2>1, <2>2, <2>4, <2>5, <2>6, <2>7, <2>8, RunMoves
<1>4. QED
  BY <1>2, <1>3 DEF Mark

LEMMA ReportStep ==
  ASSUME IndInv, NEW n \in Runs, Report(n) PROVE IndInv' /\ NotRequeued
<1>1. run[n] \in RunState /\ run[n].pc = "reporting"
  BY RunFacts DEF Report
<1>2. PICK r \in run[n].errored \cup run[n].skipped :
        /\ \/ /\ ActiveJob(n) # NoJob
              /\ MarkError(ActiveJob(n), r, MaxRetries) \/ MarkSkipped(ActiveJob(n), r)
              /\ UNCHANGED unheard
           \/ UNCHANGED queue /\ unheard' = unheard \cup {r}
        /\ run' = [run EXCEPT ![n] = [run[n] EXCEPT !.errored = run[n].errored \ {r},
                                                    !.skipped = run[n].skipped \ {r}]]
  BY DEF Report
<1> DEFINE c == [run[n] EXCEPT !.errored = run[n].errored \ {r}, !.skipped = run[n].skipped \ {r}]
<1>3. c \in RunState /\ r \in Rows
  BY <1>1, <1>2 DEF RunState
<1>4. /\ c.pc = run[n].pc /\ c.writes = run[n].writes /\ c.errored = run[n].errored \ {r}
      /\ c.batch = run[n].batch /\ c.skipped = run[n].skipped \ {r} /\ c.aborted = run[n].aborted
  BY <1>1 DEF RunState
<1>5. run' = [run EXCEPT ![n] = c] /\ run'[n] = c
  BY <1>2, RunFacts
<1> HIDE DEF c
<1>6. Held(n)' \subseteq Held(n) /\ Held(n) \ Held(n)' \subseteq {r}
  BY <1>4, <1>5 DEF Held
<1>7. Phased(n)'
  BY <1>1, <1>4, <1>5, RunFacts DEF Phased, EmptyHanded
<1>8. QueueOK' /\ RowEffect({}, {}) /\ (row'[r].status # "in_progress" \/ r \in unheard')
  BY <1>2, <1>3, NoQueueStep, MarkErrorStep, MarkSkippedStep, RunFacts DEF IndInv, queue
<1>9. /\ UNCHANGED <<indexed, claimant, taken>> /\ view' \in [Views -> ViewState]
      /\ indexed' \subseteq Rows /\ unheard' \subseteq Rows /\ {} \in SUBSET Rows
      /\ unheard \subseteq unheard' /\ run[n].pc # "dead"
      /\ \A q \in Held(n) \ Held(n)' : row'[q].status # "in_progress" \/ q \in unheard'
  BY <1>1, <1>2, <1>3, <1>6, <1>8, RunFacts DEF Report, IndInv, Typed
<1>10. QED
  BY <1>3, <1>5, <1>6, <1>7, <1>8, <1>9, RunMoves

LEMMA AgainStep ==
  ASSUME IndInv, NEW n \in Runs, Again(n) PROVE IndInv' /\ NotRequeued
<1> DEFINE c == [run[n] EXCEPT !.pc = LoopTop(n)]
<1>1. /\ run[n] \in RunState /\ run[n].pc = "reporting" /\ run[n].writes = {}
      /\ run[n].errored = {} /\ run[n].skipped = {} /\ (~run[n].aborted => run[n].batch = {})
  BY RunFacts DEF Again, Phased
<1>2. c \in RunState
  BY <1>1, LoopTopFacts DEF RunState, RunPhase
<1>3. /\ c.pc = LoopTop(n) /\ c.writes = {} /\ c.errored = {} /\ c.skipped = {}
      /\ c.batch = run[n].batch /\ c.aborted = run[n].aborted
  BY <1>1 DEF RunState
<1>4. run' = [run EXCEPT ![n] = c] /\ run'[n] = c
  BY RunFacts DEF Again, Step
<1> HIDE DEF c
<1>5. Held(n)' = Held(n) /\ run[n].pc # "dead"
  BY <1>1, <1>3, <1>4 DEF Held
<1>6. Phased(n)'
  BY <1>1, <1>3, <1>4, LoopTopFacts DEF Phased, EmptyHanded, Held
<1>7. UNCHANGED <<queue, indexed, claimant, taken, unheard>> /\ view' \in [Views -> ViewState]
  BY RunFacts DEF Again, history
<1>8. QED
  BY <1>2, <1>4, <1>5, <1>6, <1>7, RunGoes

\* What the run still has in hand when it is stopped goes back with the rest.
LEMMA ReclaimRunStep ==
  ASSUME IndInv, NEW n \in Runs, Reclaim(n) PROVE IndInv' /\ NotRequeued
<1> DEFINE c == [run[n] EXCEPT !.pc = "pausing", !.batch = {}]
<1>1. /\ run[n] \in RunState /\ run[n].pc = "reclaiming" /\ run[n].writes = {} /\ run[n].errored = {} /\ run[n].skipped = {}
  BY RunFacts DEF Reclaim, Phased
<1>2. c \in RunState
  BY <1>1 DEF RunState, RunPhase
<1>3. c.pc = "pausing" /\ c.writes = {} /\ c.errored = {} /\ c.skipped = {} /\ c.batch = {}
  BY <1>1 DEF RunState
<1>4. run' = [run EXCEPT ![n] = c] /\ run'[n] = c
  BY RunFacts DEF Reclaim
<1> HIDE DEF c
<1>5. Held(n)' = {} /\ Phased(n)' /\ Held(n) = run[n].batch
  BY <1>1, <1>3, <1>4 DEF Phased, EmptyHanded, Held
<1>6. /\ view' \in [Views -> ViewState] /\ indexed' = indexed /\ {} \in SUBSET Rows
      /\ indexed' \subseteq Rows /\ unheard' \subseteq Rows
      /\ claimant' = claimant /\ unheard \subseteq unheard'
  BY <1>1, RunFacts DEF Reclaim, IndInv, Typed, RunState
<1>7. CASE UNCHANGED <<queue, taken>> /\ unheard' = unheard \cup run[n].batch
  <2>1. QueueOK' /\ RowEffect({}, {})
    BY <1>7, NoQueueStep DEF IndInv, queue
  <2>2. /\ Held(n)' \subseteq Held(n) /\ taken' = taken
        /\ \A r \in Held(n) \ Held(n)' : row'[r].status # "in_progress" \/ r \in unheard'
    BY <1>5, <1>7
  <2>3. QED
    BY <1>1, <1>2, <1>4, <1>5, <1>6, <2>1, <2>2, RunMoves
<1>8. CASE /\ ReclaimInProgress(ActiveJob(n)) /\ taken' = TakenFrom(Runs \ {n}, ActiveJob(n))
           /\ unheard' = unheard \cup {r \in run[n].batch : row[r].job # ActiveJob(n)}
  <2> DEFINE back == With(ActiveJob(n), "in_progress")
  <2>1. /\ QueueOK' /\ RowEffect({}, back) /\ back \in SUBSET Rows
        /\ \A r \in back : row'[r].status # "in_progress"
    BY <1>8, ReclaimStep DEF IndInv, With
  <2>2. /\ taken \subseteq taken' /\ taken' \subseteq Rows
        /\ \A m \in Runs \ {n} : Held(m) \cap back \subseteq taken'
    <3>1. Runs \ {n} \in SUBSET Runs
      OBVIOUS
    <3>2. QED
      BY <1>8, <3>1, TakenCovers
  <2>7. \A r \in Held(n) : row'[r].status # "in_progress" \/ r \in unheard'
    <3> SUFFICES ASSUME NEW r \in run[n].batch, row[r].job = ActiveJob(n),
                        row'[r].status = "in_progress"
                 PROVE  FALSE
      BY <1>5, <1>8
    <3>1. r \in Rows
      BY <1>1 DEF RunState
    <3>2. r \in back
      BY <2>1, <3>1 DEF RowEffect, With
    <3>3. QED
      BY <2>1, <3>2
  <2> HIDE DEF back
  <2>3. Typed'
    BY <1>2, <1>4, <1>6, <2>2 DEF IndInv, Typed
  <2>4. \A m \in Runs \ {n} : Held(m)' = Held(m) /\ Phased(m)'
    BY <1>4, <1>6 DEF IndInv, Typed, Held, Phased
  <2>5. /\ \A m \in Runs : Phased(m)'
        /\ \A m \in Runs : \A r \in Held(m)' : r \in Held(m) /\ (r \in taken \/ r \in back => r \in taken')
        /\ \A m \in Runs : \A r \in Held(m) \ Held(m)' :
             row'[r].status # "in_progress" \/ r \in unheard' \/ run'[m].pc = "dead"
    BY <1>5, <2>2, <2>4, <2>7
  <2>6. \A m \in Runs : run[m].pc = "dead" => run'[m].pc = "dead"
    BY <1>1, <1>4 DEF IndInv, Typed
  <2>8. QED
    BY <1>6, <2>1, <2>3, <2>5, <2>6, Keeps
<1>9. QED
  BY <1>7, <1>8 DEF Reclaim

-----------------------------------------------------------------------------
(* The theorems *)

LEMMA InitInv == RunsInit => IndInv
<1> SUFFICES ASSUME RunsInit PROVE IndInv
  OBVIOUS
<1>1. QueueOK
  BY DEF RunsInit, QueueInit, QueueOK, JobRow, FileRow, RowThere, FileStatus
<1>2. "unused" \in RunPhase
  BY DEF RunPhase
<1>3. Typed
  BY <1>2, NotRunningTyped DEF RunsInit, Typed, ViewState
<1>4. \A n \in Runs : Held(n) = {} /\ Phased(n) /\ HoldsOK(n)
  BY <1>2, NotRunningTyped DEF RunsInit, Held, Phased, HoldsOK
<1>5. DoneIsIndexed /\ AllCovered
  BY DEF RunsInit, QueueInit, DoneIsIndexed, AllCovered
<1>6. Exclusive
  BY <1>4 DEF Exclusive
<1>7. QED
  BY <1>1, <1>3, <1>4, <1>5, <1>6 DEF IndInv

LEMMA NextInv == IndInv /\ [RunsNext]_allVars => IndInv' /\ NotRequeued
<1> SUFFICES ASSUME IndInv, [RunsNext]_allVars PROVE IndInv' /\ NotRequeued
  OBVIOUS
<1>1. ASSUME NEW v \in Views, Mount(v) \/ FindJob(v) \/ Restore(v) \/ Unmount(v) \/ UserStep(v)
      PROVE  IndInv' /\ NotRequeued
  BY <1>1, ViewSteps, RestoreStep, UserSteps, StartStep, StopStep DEF UserStep
<1>2. CASE CloseApp
  BY <1>2, CloseStep
<1>3. ASSUME NEW n \in Runs, RunStep(n) PROVE IndInv' /\ NotRequeued
  BY <1>3, PreparedStep, EmptySteps, LastSteps, ClaimEmpty, ClaimSome, ExtractStep, WriteStep,
     MarkRunStep, ReportStep, AgainStep, ReclaimRunStep DEF RunStep
<1>4. CASE UNCHANGED allVars
  <2>1. QueueOK' /\ RowEffect({}, {})
    BY <1>4, NoQueueStep DEF IndInv, queue, allVars
  <2>2. /\ view' \in [Views -> ViewState] /\ UNCHANGED <<run, indexed, claimant, unheard>>
        /\ taken' \subseteq Rows /\ taken \subseteq taken' /\ {} \in SUBSET Rows
    BY <1>4 DEF IndInv, Typed, allVars
  <2>3. QED
    BY <2>1, <2>2, RunsStill
<1>5. QED
  BY <1>1, <1>2, <1>3, <1>4 DEF RunsNext

LEMMA Inductive == RunsSpec => []IndInv
BY InitInv, NextInv, PTL DEF RunsSpec

\* Whatever runs claim, reclaim, remove and mark at once, jobs, rows, views and
\* runs stay well formed, and two runs share a row only when a reclaim took it
\* from one of them.
THEOREM RunsCorrect == RunsSpec => []RunsInv
<1>1. IndInv => RunsInv
  <2> SUFFICES ASSUME IndInv PROVE RunsInv
    OBVIOUS
  <2>1. QueueTypeOK
    BY DEF IndInv, QueueOK, QueueTypeOK, JobRow, FileRow, RowThere
  <2>2. QED
    BY <2>1 DEF IndInv, Typed, ViewState, RunsTypeOK, Exclusive, ClaimsExclusive, RunsInv
<1>2. QED
  BY <1>1, Inductive, PTL

\* A file is only reported done when its content is in the index.
THEOREM DoneIsIndexedCorrect == RunsSpec => []DoneIsIndexed
<1>1. IndInv => DoneIsIndexed
  BY DEF IndInv
<1>2. QED
  BY <1>1, Inductive, PTL

\* No path of the loop forgets a row that is in_progress, but for a verdict that
\* cannot be written and a reclaim that goes to another job.
THEOREM HeldCorrect == RunsSpec => []InProgressIsHeld
<1>1. IndInv => InProgressIsHeld
  BY DEF IndInv, AllCovered, Covered, InProgressIsHeld
<1>2. QED
  BY <1>1, Inductive, PTL

\* What is done is never queued again.
THEOREM NeverRequeuedCorrect == RunsSpec => DoneIsNeverRequeued
<1>1. IndInv /\ [RunsNext]_allVars =>
        [\A r \in Rows : row[r].status = "done"
           => row'[r].status \notin {"pending", "in_progress"}]_allVars
  BY NextInv DEF NotRequeued
<1>2. QED
  BY <1>1, Inductive, PTL DEF RunsSpec, DoneIsNeverRequeued
=============================================================================
