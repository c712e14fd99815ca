----------------------------- MODULE IngestRuns -----------------------------
(***************************************************************************)
(* The "Hinzufuegen" panel (IndexIngest.svelte) working on the JobQueue.   *)
(* A view is one mounted instance of the component: switching tabs         *)
(* unmounts it and mounts another later, but a run it started goes on and  *)
(* keeps writing the variables of its own view.  A run is one call of      *)
(* startIngest (level L3) or startL1Ingest (L1, and L2's first step).      *)
(* Between two awaits a run is atomic; at each await every other run, the  *)
(* user and a restart of the app may come first.                           *)
(***************************************************************************)
EXTENDS JobQueue

CONSTANTS
  Views,       \* bound: instances of the component, over all restarts
  Runs,        \* bound: presses of the start button
  Levels,      \* bound: the levels started, of L1 and L3
  MayPause,    \* bound: whether the user presses pause
  NoRun        \* abortCtrl is null

ASSUME RunsAssumption == Views # {} /\ Levels \subseteq {"L1", "L3"} /\ NoRun \notin Runs

NoJob == 0     \* activeJobId is null
MaxRetries == 0  \* the maxRetries every caller passes

VARIABLES
  view,      \* the component's instances
  run,       \* the calls of startIngest and startL1Ingest
  indexed,   \* rows whose file index_ingest_batch or index_ingest_l1 has stored
  claimant,  \* history: row -> the run that claimed it last
  taken,     \* history: rows reclaimed from a run that is still at work on them
  unheard    \* history: rows whose verdict or reclaim did not reach their job, until claimed anew

allVars == <<job, row, view, run, indexed, claimant, taken, unheard>>
history == <<claimant, taken, unheard>>

\* "preparing": awaiting ensureIndexReady.  "announcing": set_status running.
\* "waiting": paused.  "claiming" .. "reporting": the loop.  "draining", "reclaiming", "pausing":
\* what follows it.  "dead": the app was closed.
RunPhase == {"unused", "preparing", "announcing", "waiting", "claiming", "extracting",
             "writing", "marking", "reporting", "draining", "reclaiming", "pausing", "over", "dead"}

RunState ==
  [pc : RunPhase, view : Views, level : {"L1", "L3"}, aborted : BOOLEAN,
   batch : SUBSET Rows,    \* claimed, not yet extracted
   writes : SUBSET Rows, errored : SUBSET Rows, skipped : SUBSET Rows]

NotRunning(pc) ==
  [pc |-> pc, view |-> CHOOSE v \in Views : TRUE, level |-> "L3", aborted |-> FALSE,
   batch |-> {}, writes |-> {}, errored |-> {}, skipped |-> {}]

RunsTypeOK ==
  /\ QueueTypeOK
  /\ view \in [Views -> [at : {"unused", "open", "closed"},
                         mount : {"listing", "reclaiming", "settled"},
                         job : Jobs \cup {NoJob}, running : BOOLEAN, paused : BOOLEAN,
                         l1Running : BOOLEAN, abort : Runs \cup {NoRun}]]
  /\ run \in [Runs -> RunState]
  /\ indexed \subseteq Rows /\ taken \subseteq Rows /\ unheard \subseteq Rows
  /\ claimant \in [Rows -> Runs \cup {NoRun}]

RunsInit ==
  /\ QueueInit
  /\ view = [v \in Views |-> [at |-> "unused", mount |-> "settled", job |-> NoJob,
                              running |-> FALSE, paused |-> FALSE,
                              l1Running |-> FALSE, abort |-> NoRun]]
  /\ run = [n \in Runs |-> NotRunning("unused")]
  /\ indexed = {} /\ taken = {} /\ unheard = {}
  /\ claimant = [r \in Rows |-> NoRun]

-----------------------------------------------------------------------------
Live(n) == run[n].pc \notin {"unused", "over", "dead"}
Held(n) == run[n].batch \cup run[n].writes \cup run[n].errored \cup run[n].skipped
OpenView(v) == view[v].at = "open"
Idle(v) == OpenView(v) /\ ~view[v].running
ActiveJob(n) == view[run[n].view].job

Step(n, pc) == run' = [run EXCEPT ![n].pc = pc]
End(n) == run' = [run EXCEPT ![n] = NotRunning("over")]

\* The finally block: the view's flags are reset, whoever set them last.
Finally(n) ==
  LET v == run[n].view IN
  /\ view' = IF run[n].level = "L1"
             THEN [view EXCEPT ![v].l1Running = FALSE]
             ELSE [view EXCEPT ![v] = [@ EXCEPT !.running = FALSE, !.paused = FALSE,
                                               !.abort = NoRun]]
  /\ End(n)

\* Round the loop: stopped, paused, or the next claim.
LoopTop(n) ==
  IF run[n].aborted THEN "reclaiming"
  ELSE IF run[n].level = "L3" /\ view[run[n].view].paused THEN "waiting"
  ELSE "claiming"

-----------------------------------------------------------------------------
(* Mounting and unmounting *)

Mount(v) ==
  /\ v \in First({u \in Views : view[u].at = "unused"})
  /\ \A u \in Views : view[u].at \in {"unused", "closed"}
  /\ view' = [view EXCEPT ![v] = [@ EXCEPT !.at = "open", !.mount = "listing"]]
  /\ UNCHANGED <<queue, run, indexed, history>>

\* onMount's jobs_list answers, newest first: the first job that is not over
\* becomes the active one, whatever the user did meanwhile.
FindJob(v) ==
  LET unfinished == {j \in Jobs : job[j].status \in {"pending", "running", "paused"}} IN
  /\ view[v].mount = "listing"
  /\ \/ /\ unfinished = {}
        /\ view' = [view EXCEPT ![v].mount = "settled"]
     \/ \E j \in unfinished :
          /\ \A i \in unfinished : i <= j
          /\ view' = [view EXCEPT ![v] = [@ EXCEPT !.mount = "reclaiming", !.job = j]]
  /\ UNCHANGED <<queue, run, indexed, history>>

\* The rows the reclaim of job j takes from runs of the set others.
TakenFrom(others, j) ==
  taken \cup {r \in With(j, "in_progress") : \E n \in others : Live(n) /\ r \in Held(n)}

\* onMount's jobs_reclaim, for the job that was found.
Restore(v) ==
  /\ view[v].mount = "reclaiming"
  /\ \/ /\ view[v].job # NoJob
        /\ ReclaimInProgress(view[v].job)
        /\ taken' = TakenFrom(Runs, view[v].job)
     \/ UNCHANGED <<queue, taken>>
  /\ view' = [view EXCEPT ![v].mount = "settled"]
  /\ UNCHANGED <<run, indexed, claimant, unheard>>

\* Another tab is chosen; what onMount and the runs still await goes on.
\* Bound: a spare view is left.
Unmount(v) ==
  /\ OpenView(v)
  /\ \E u \in Views : view[u].at = "unused"
  /\ view' = [view EXCEPT ![v].at = "closed"]
  /\ UNCHANGED <<queue, run, indexed, history>>

\* The app is closed or dies.  Bound: a spare view is left.
CloseApp ==
  /\ \E u \in Views : view[u].at = "unused"
  /\ \E u \in Views : view[u].at = "open"
  /\ view' = [v \in Views |-> IF view[v].at = "unused" THEN view[v]
                              ELSE [view[v] EXCEPT !.at = "closed", !.mount = "settled"]]
  /\ run' = [n \in Runs |-> IF Live(n) THEN NotRunning("dead") ELSE run[n]]
  /\ UNCHANGED <<queue, indexed, history>>

-----------------------------------------------------------------------------
(* The user *)

\* ensureActiveJob
NewJob(v) ==
  /\ OpenView(v) /\ view[v].job = NoJob
  /\ \E j \in Jobs : CreateJob(j) /\ view' = [view EXCEPT ![v].job = j]
  /\ UNCHANGED <<run, indexed, history>>

AddPath(v) ==
  /\ OpenView(v) /\ view[v].job # NoJob
  /\ AddFile(view[v].job)
  /\ UNCHANGED <<view, run, indexed, history>>

RemoveEntry(v) ==
  /\ Idle(v)
  /\ \E r \in Rows : row[r].job = view[v].job /\ RemoveFile(r)
  /\ UNCHANGED <<view, run, indexed, history>>

ClearDone(v) ==
  /\ OpenView(v) /\ view[v].job # NoJob
  /\ With(view[v].job, "done") # {}
  /\ RemoveFilesByStatus(view[v].job, "done")
  /\ UNCHANGED <<view, run, indexed, history>>

ClearAll(v) ==
  /\ Idle(v) /\ view[v].job # NoJob
  /\ DeleteJob(view[v].job)
  /\ view' = [view EXCEPT ![v].job = NoJob]
  /\ UNCHANGED <<run, indexed, history>>

\* The start button.  running and l1Running are only set after the await of
\* ensureIndexReady, so the button can be pressed again meanwhile.  It wants a
\* pending entry on display; the row may have moved on since.
StartIngest(v, n, level) ==
  /\ Idle(v) /\ ~view[v].l1Running
  /\ \E r \in Rows : row[r].job = view[v].job /\ RowThere(r)
  /\ n \in First({m \in Runs : run[m].pc = "unused"})
  /\ run' = [run EXCEPT ![n] = [@ EXCEPT !.pc = "preparing", !.view = v, !.level = level]]
  /\ UNCHANGED <<queue, view, indexed, history>>

StopIngest(v) ==
  LET n == view[v].abort IN
  /\ OpenView(v) /\ view[v].running /\ ~view[v].l1Running
  /\ run' = IF n = NoRun THEN run ELSE [run EXCEPT ![n].aborted = TRUE]
  /\ view' = [view EXCEPT ![v] = [@ EXCEPT !.running = FALSE, !.paused = FALSE]]
  /\ UNCHANGED <<queue, indexed, history>>

PauseResume(v) ==
  /\ MayPause
  /\ OpenView(v) /\ view[v].running
  /\ view' = [view EXCEPT ![v].paused = ~@]
  /\ UNCHANGED <<queue, run, indexed, history>>

-----------------------------------------------------------------------------
(* A run *)

\* ensureIndexReady answers; a failure ends the run before it began.
Prepared(n) ==
  LET v == run[n].view IN
  /\ run[n].pc = "preparing"
  /\ \/ /\ view' = IF run[n].level = "L1"
                   THEN [view EXCEPT ![v].l1Running = TRUE]
                   ELSE [view EXCEPT ![v] = [@ EXCEPT !.running = TRUE, !.paused = FALSE,
                                                      !.abort = n]]
        /\ Step(n, IF run[n].level = "L1" THEN "claiming" ELSE "announcing")
     \/ End(n) /\ UNCHANGED view
  /\ UNCHANGED <<queue, indexed, history>>

\* jobs_set_status, its errors ignored.
Announce(n) ==
  /\ run[n].pc = "announcing"
  /\ \/ ActiveJob(n) # NoJob /\ SetJobStatus(ActiveJob(n), "running")
     \/ UNCHANGED queue
  /\ Step(n, LoopTop(n))
  /\ UNCHANGED <<view, indexed, history>>

\* The poll every 200 ms sees that the run was resumed or stopped.
Resumed(n) ==
  /\ run[n].pc = "waiting" /\ LoopTop(n) # "waiting"
  /\ Step(n, LoopTop(n))
  /\ UNCHANGED <<queue, view, indexed, history>>

\* jobs_claim_batch answers; an empty batch ends the loop.
Claim(n) ==
  LET ids == NextBatch(ActiveJob(n)) IN
  /\ run[n].pc = "claiming"
  /\ ActiveJob(n) # NoJob
  /\ ClaimBatch(ActiveJob(n))
  /\ IF ids = {}
     THEN Step(n, IF run[n].aborted THEN "reclaiming" ELSE "draining")
     ELSE run' = [run EXCEPT ![n] = [@ EXCEPT !.pc = "extracting", !.batch = ids]]
  /\ claimant' = [r \in Rows |-> IF r \in ids THEN n ELSE claimant[r]]
  /\ taken' = {r \in taken : r \in ids => \E m \in Runs : Live(m) /\ r \in Held(m)}
  /\ unheard' = unheard \ ids
  /\ UNCHANGED <<view, indexed>>

\* The claim is refused, or there is no job to claim from: the exception
\* leaves the loop through the finally block.
ClaimFails(n) ==
  /\ run[n].pc = "claiming"
  /\ Finally(n)
  /\ UNCHANGED <<queue, indexed, history>>

\* The files of the batch, one after the other, until the run is stopped.  L1
\* reads no content: nothing is skipped.
Extract(n) ==
  /\ run[n].pc = "extracting"
  /\ \E writes, errored, skipped \in SUBSET run[n].batch :
       /\ writes \cap errored = {} /\ writes \cap skipped = {} /\ errored \cap skipped = {}
       /\ run[n].level = "L1" => writes = run[n].batch
       /\ ~run[n].aborted => writes \cup errored \cup skipped = run[n].batch
       /\ run' = [run EXCEPT ![n] =
                    [@ EXCEPT !.pc = IF writes = {} THEN "reporting" ELSE "writing",
                              !.batch = run[n].batch \ (writes \cup errored \cup skipped),
                              !.writes = writes, !.errored = errored,
                              !.skipped = skipped]]
  /\ UNCHANGED <<queue, view, indexed, history>>

WritesFailed(n) ==
  run' = [run EXCEPT ![n] = [@ EXCEPT !.pc = "reporting", !.writes = {},
                                      !.errored = run[n].errored \cup run[n].writes]]

\* Mutant: the rows are marked when the write is sent.
WriteUnawaited(n) ==
  /\ run[n].pc = "writing"
  /\ Step(n, "marking")
  /\ UNCHANGED <<queue, view, indexed, history>>

\* index_ingest_batch, index_ingest_l1
Write(n) ==
  /\ run[n].pc = "writing"
  /\ \/ /\ indexed' = indexed \cup run[n].writes
        /\ Step(n, "marking")
     \/ WritesFailed(n) /\ UNCHANGED indexed
  /\ UNCHANGED <<queue, view, history>>

\* jobs_mark_done; if it throws, its rows are reported as errors.
Mark(n) ==
  /\ run[n].pc = "marking"
  /\ \/ /\ ActiveJob(n) # NoJob
        /\ MarkDone(ActiveJob(n), run[n].writes)
        /\ run' = [run EXCEPT ![n] = [@ EXCEPT !.pc = "reporting", !.writes = {}]]
     \/ WritesFailed(n) /\ UNCHANGED queue
  /\ UNCHANGED <<view, indexed, history>>

\* jobs_mark_error, jobs_mark_skipped, one row at a time, their errors ignored.
Report(n) ==
  /\ run[n].pc = "reporting"
  /\ \E r \in IF run[n].errored # {} THEN run[n].errored ELSE run[n].skipped :
       /\ \/ /\ ActiveJob(n) # NoJob
             /\ IF r \in run[n].errored THEN MarkError(ActiveJob(n), r, MaxRetries)
                ELSE MarkSkipped(ActiveJob(n), r)
             /\ UNCHANGED unheard
          \/ UNCHANGED queue /\ unheard' = unheard \cup {r}
       /\ run' = [run EXCEPT ![n] = [@ EXCEPT !.errored = run[n].errored \ {r},
                                         !.skipped = run[n].skipped \ {r}]]
  /\ UNCHANGED <<view, indexed, claimant, taken>>

\* The batch is dealt with: round again, or out of the loop.
Again(n) ==
  /\ run[n].pc = "reporting" /\ run[n].errored \cup run[n].skipped = {}
  /\ Step(n, LoopTop(n))
  /\ UNCHANGED <<queue, view, indexed, history>>

\* The queue was drained.
Drained(n) ==
  /\ run[n].pc = "draining"
  /\ \/ ActiveJob(n) # NoJob /\ SetJobStatus(ActiveJob(n), "done")
     \/ UNCHANGED queue
  /\ Finally(n)
  /\ UNCHANGED <<indexed, history>>

\* Mutant: the rows that were not reached are left to the next start.
ReclaimNothing(n) ==
  /\ run[n].pc = "reclaiming"
  /\ run' = [run EXCEPT ![n] = [@ EXCEPT !.pc = "pausing", !.batch = {}]]
  /\ UNCHANGED <<queue, view, indexed, history>>

\* Mutant: back into the loop instead of out of it.
ReclaimContinues(n) ==
  /\ run[n].pc = "reclaiming"
  /\ ActiveJob(n) # NoJob
  /\ ReclaimInProgress(ActiveJob(n))
  /\ run' = [run EXCEPT ![n] = [@ EXCEPT !.pc = "claiming", !.batch = {}]]
  /\ UNCHANGED <<view, indexed, history>>

\* The run was stopped: jobs_reclaim, then the job is paused.  Both go to the
\* job its view has by now.
Reclaim(n) ==
  /\ run[n].pc = "reclaiming"
  /\ \/ /\ ActiveJob(n) # NoJob
        /\ ReclaimInProgress(ActiveJob(n))
        /\ taken' = TakenFrom(Runs \ {n}, ActiveJob(n))
        /\ unheard' = unheard \cup {r \in run[n].batch : row[r].job # ActiveJob(n)}
     \/ UNCHANGED <<queue, taken>> /\ unheard' = unheard \cup run[n].batch
  /\ run' = [run EXCEPT ![n] = [@ EXCEPT !.pc = "pausing", !.batch = {}]]
  /\ UNCHANGED <<view, indexed, claimant>>

Pause(n) ==
  /\ run[n].pc = "pausing"
  /\ \/ ActiveJob(n) # NoJob /\ SetJobStatus(ActiveJob(n), "paused")
     \/ UNCHANGED queue
  /\ Finally(n)
  /\ UNCHANGED <<indexed, history>>

-----------------------------------------------------------------------------
RunStep(n) ==
  \/ Prepared(n) \/ Announce(n) \/ Resumed(n) \/ Claim(n) \/ ClaimFails(n) \/ Extract(n) \/ Write(n)
  \/ Mark(n) \/ Report(n) \/ Again(n) \/ Drained(n) \/ Reclaim(n) \/ Pause(n)

UserStep(v) ==
  \/ NewJob(v) \/ AddPath(v) \/ RemoveEntry(v) \/ ClearDone(v) \/ ClearAll(v)
  \/ \E n \in Runs, level \in Levels : StartIngest(v, n, level)
  \/ StopIngest(v) \/ PauseResume(v)

RunsNext ==
  \/ \E v \in Views : Mount(v) \/ FindJob(v) \/ Restore(v) \/ Unmount(v) \/ UserStep(v)
  \/ CloseApp
  \/ \E n \in Runs : RunStep(n)

RunsSpec == RunsInit /\ [][RunsNext]_allVars

\* JavaScript runs on: every pending invoke of a run is answered.
RunsFairSpec == RunsSpec /\ \A n \in Runs : WF_allVars(RunStep(n))

-----------------------------------------------------------------------------
(* Properties *)

\* A file is only reported done when its content is in the index, although
\* rows are claimed twice, removed under a run and marked by stale runs.
DoneIsIndexed == \A r \in Rows : row[r].status = "done" => r \in indexed

\* Runs are at work on one file only after a reclaim took it from one of them:
\* claims themselves never hand out a row twice.
ClaimsExclusive ==
  \A m, n \in Runs : m # n /\ Live(m) /\ Live(n) => Held(m) \cap Held(n) \subseteq taken

\* The jobs, rows, views and runs are well formed, and no two runs hold a row
\* that was not taken from one of them.
RunsInv == RunsTypeOK /\ ClaimsExclusive

\* A row in_progress is somebody's: the run that claimed it last still has it in
\* hand, or the app was closed since, or that run's verdict could not be
\* written, or its reclaim went to another job that onMount found meanwhile.  No
\* other path of the loop, stopping included, forgets a row.
InProgressIsHeld ==
  \A r \in Rows : row[r].status = "in_progress" =>
    \/ r \in unheard
    \/ LET n == claimant[r] IN run[n].pc = "dead" \/ r \in Held(n)

\* A file that is done is never queued again, by a reclaim, a stale run or a
\* restart.
DoneIsNeverRequeued ==
  [][\A r \in Rows : row[r].status = "done"
        => row'[r].status \notin {"pending", "in_progress"}]_allVars

\* Every run comes to an end, unless the user leaves it paused.
RunsEnd == \A n \in Runs : run[n].pc # "unused" ~> ~Live(n) \/ view[run[n].view].paused
=============================================================================
