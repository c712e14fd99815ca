--------------------------- MODULE TransferQueue ---------------------------
(***************************************************************************)
(* The bounded transfer queue (src-tauri/src/sync/transfer_queue.rs): one  *)
(* task per job, which takes a permit for every attempt and sleeps between *)
(* attempts without one; a registry of jobs with the state they show; and  *)
(* a cancellation made of a flag and a Notify.  A task is modelled as the  *)
(* steps between which another thread may cancel it: testing the flag and  *)
(* starting to listen to the Notify are two steps, and notify_waiters is   *)
(* heard only by those who listen.                                         *)
(***************************************************************************)
EXTENDS Naturals, FiniteSets

CONSTANTS
  Jobs,        \* bound: job ids, in the order of NEXT_JOB_ID
  Permits,     \* max_concurrent
  MaxRetries,  \* MAX_RETRIES
  Capacity     \* the 256 of register_job

ASSUME TransferAssumption ==
  /\ Jobs \subseteq Nat /\ IsFiniteSet(Jobs) /\ Permits \in Nat \ {0}
  /\ MaxRetries \in Nat /\ Capacity \in Nat \ {0}

VARIABLES
  task,       \* the tasks of run_with_retries
  shown,      \* the state in the jobs' watch channels
  free,       \* permits of the semaphore
  jobs,       \* the registry
  written,    \* jobs whose I/O went through
  barred,     \* history: jobs cancelled while at rest
  panicked    \* history: jobs whose I/O closure panicked

tqVars == <<task, shown, free, jobs, written, barred, panicked>>

Terminal == {"done", "failed", "cancelled"}

\* "checking": the top of the loop.  "entering" and "resting": about to listen.
\* "acquiring": awaiting a permit.  "running": the I/O closure, with a permit.
\* "returned": it came back.  "sleeping": the back-off.
TaskPhase == {"unused", "checking", "entering", "acquiring", "running", "returned",
              "resting", "sleeping", "over"}

TransferTypeOK ==
  /\ task \in [Jobs -> [pc : TaskPhase, attempt : 0..MaxRetries,
                        result : {"none", "ok", "transient", "permanent"},
                        cancelled : BOOLEAN, woken : BOOLEAN]]
  /\ shown \in [Jobs -> {"unused", "queued", "active", "retrying"} \cup Terminal]
  /\ free \in 0..Permits
  /\ jobs \subseteq Jobs /\ written \subseteq Jobs
  /\ barred \subseteq Jobs /\ panicked \subseteq Jobs

TransferInit ==
  /\ task = [j \in Jobs |-> [pc |-> "unused", attempt |-> 0, result |-> "none",
                             cancelled |-> FALSE, woken |-> FALSE]]
  /\ shown = [j \in Jobs |-> "unused"]
  /\ free = Permits
  /\ jobs = {} /\ written = {} /\ barred = {} /\ panicked = {}

Live(j) == task[j].pc \notin {"unused", "over"}

Becomes(j, pc, attempt, result, woken) ==
  task' = [task EXCEPT ![j] = [pc |-> pc, attempt |-> attempt, result |-> result,
                               cancelled |-> task[j].cancelled, woken |-> woken]]
Goto(j, pc) == Becomes(j, pc, task[j].attempt, task[j].result, task[j].woken)
Show(j, state) == shown' = [shown EXCEPT ![j] = state]
Listens(j) == task[j].pc \in {"acquiring", "sleeping"}

\* The task returns, with what it shows last.
Over(j, state) == Goto(j, "over") /\ Show(j, state)

-----------------------------------------------------------------------------
\* Mutant: the oldest entries make room, whatever their state.
KeptOldest(ids) ==
  {j \in ids : Cardinality({k \in ids : k > j}) < Capacity}

\* register_job: the oldest terminal entries make room for the new one.  Jobs are
\* taken to be registered in the order of their ids.
Kept(ids) ==
  LET excess == IF Cardinality(ids) > Capacity THEN Cardinality(ids) - Capacity ELSE 0
      over == {j \in ids : shown[j] \in Terminal} IN
  {j \in ids : j \in over => Cardinality({k \in over : k < j}) >= excess}

Submit(j) ==
  /\ task[j].pc = "unused"
  /\ \A k \in Jobs : k < j => task[k].pc # "unused"
  /\ jobs' = Kept(jobs \cup {j})
  /\ Goto(j, "checking") /\ Show(j, "queued")
  /\ UNCHANGED <<free, written, barred, panicked>>

\* TransferQueue::cancel, on another thread, any number of times.
Cancel(j) ==
  /\ j \in jobs
  /\ task' = [task EXCEPT ![j] = [pc |-> task[j].pc, attempt |-> task[j].attempt,
                                  result |-> task[j].result,
                                  cancelled |-> TRUE, woken |-> Listens(j)]]
  /\ barred' = IF task[j].pc \in {"checking", "returned", "resting", "sleeping"}
               THEN barred \cup {j} ELSE barred
  /\ UNCHANGED <<shown, free, jobs, written, panicked>>

\* Mutant: only the Notify is relied on.
CheckNothing(j) ==
  /\ task[j].pc = "checking"
  /\ Goto(j, "entering") /\ UNCHANGED shown
  /\ UNCHANGED <<free, jobs, written, barred, panicked>>

Check(j) ==
  /\ task[j].pc = "checking"
  /\ \/ task[j].cancelled /\ Over(j, "cancelled")
     \/ ~task[j].cancelled /\ Goto(j, "entering") /\ UNCHANGED shown
  /\ UNCHANGED <<free, jobs, written, barred, panicked>>

Enter(j) ==
  /\ task[j].pc = "entering"
  /\ Goto(j, "acquiring")
  /\ UNCHANGED <<shown, free, jobs, written, barred, panicked>>

\* The select takes the permit, although the job may just have been cancelled.
Acquire(j) ==
  /\ task[j].pc = "acquiring" /\ free > 0
  /\ Becomes(j, "running", task[j].attempt, task[j].result, FALSE)
  /\ free' = free - 1
  /\ Show(j, "active")
  /\ UNCHANGED <<jobs, written, barred, panicked>>

\* The select hears the Notify.
Woken(j) ==
  /\ Listens(j) /\ task[j].woken
  /\ Over(j, "cancelled")
  /\ UNCHANGED <<free, jobs, written, barred, panicked>>

\* Mutant: the permit is kept for the next attempt.
ReturnsKeepingPermit(j, result) ==
  /\ task[j].pc = "running"
  /\ Becomes(j, "returned", task[j].attempt, result, task[j].woken)
  /\ written' = IF result = "ok" THEN written \cup {j} ELSE written
  /\ UNCHANGED <<shown, free, jobs, barred, panicked>>

\* spawn_blocking's answer; the permit is dropped.  Bytes may arrive although
\* the I/O reports an error.
Returns(j, result) ==
  /\ task[j].pc = "running"
  /\ Becomes(j, "returned", task[j].attempt, result, task[j].woken)
  /\ free' = free + 1
  /\ \/ written' = written \cup {j}
     \/ result # "ok" /\ UNCHANGED written
  /\ UNCHANGED <<shown, jobs, barred, panicked>>

\* The closure panicked: the task returns its error and shows nothing.
Panics(j) ==
  /\ task[j].pc = "running"
  /\ Goto(j, "over")
  /\ free' = free + 1
  /\ panicked' = panicked \cup {j}
  /\ UNCHANGED <<shown, jobs, written, barred>>

\* Mutant: the last error falls through to success.
JudgeGivesUpWell(j) ==
  /\ task[j].pc = "returned"
  /\ IF task[j].result # "ok" /\ task[j].attempt < MaxRetries
     THEN Goto(j, "resting") /\ Show(j, "retrying")
     ELSE Over(j, IF task[j].cancelled THEN "cancelled" ELSE "done")
  /\ UNCHANGED <<free, jobs, written, barred, panicked>>

Judge(j) ==
  LET retry == task[j].attempt < MaxRetries /\ task[j].result = "transient" IN
  /\ task[j].pc = "returned"
  /\ \/ task[j].cancelled /\ Over(j, "cancelled")
     \/ ~task[j].cancelled /\ task[j].result = "ok" /\ Over(j, "done")
     \/ ~task[j].cancelled /\ retry /\ Goto(j, "resting") /\ Show(j, "retrying")
     \/ ~task[j].cancelled /\ task[j].result # "ok" /\ ~retry /\ Over(j, "failed")
  /\ UNCHANGED <<free, jobs, written, barred, panicked>>

Rest(j) ==
  /\ task[j].pc = "resting"
  /\ Goto(j, "sleeping")
  /\ UNCHANGED <<shown, free, jobs, written, barred, panicked>>

\* The back-off is over: the next attempt.
Retry(j) ==
  /\ task[j].pc = "sleeping"
  /\ Becomes(j, "checking", task[j].attempt + 1, "none", FALSE)
  /\ UNCHANGED <<shown, free, jobs, written, barred, panicked>>

-----------------------------------------------------------------------------
OtherStep(j) ==
  \/ Check(j) \/ Enter(j) \/ Woken(j) \/ Panics(j) \/ Judge(j) \/ Rest(j) \/ Retry(j)
  \/ \E result \in {"ok", "transient", "permanent"} : Returns(j, result)

TransferNext == \E j \in Jobs : Submit(j) \/ Cancel(j) \/ Acquire(j) \/ OtherStep(j)

TransferSpec == TransferInit /\ [][TransferNext]_tqVars

\* Tasks are polled, I/O has timeouts, and the semaphore serves its waiters in
\* the order they came.
TransferFairSpec ==
  /\ TransferSpec
  /\ \A j \in Jobs : WF_tqVars(OtherStep(j)) /\ SF_tqVars(Acquire(j))

-----------------------------------------------------------------------------
(* Properties *)

\* Permits are neither lost nor invented, whichever way an attempt ends, and a
\* job that sleeps holds none.
PermitsAccounted == free + Cardinality({j \in Jobs : task[j].pc = "running"}) = Permits

\* A job that may still move bytes can be found and cancelled, however many were
\* submitted since.
LiveStaysRegistered == \A j \in Jobs : Live(j) => j \in jobs

\* A job that is at rest when it is cancelled does no more I/O, although the
\* notification can be missed.
CancelIsObeyed == \A j \in barred : task[j].pc # "running"

\* Done means that the bytes arrived, and a job that is over shows it, unless
\* its closure panicked.
ShownIsTrue ==
  \A j \in Jobs :
    /\ shown[j] = "done" => j \in written
    /\ shown[j] \in Terminal <=> task[j].pc = "over" /\ j \notin panicked

\* The invariant of the queue: types, permits, the registry and what is shown.
TransferInv ==
  TransferTypeOK /\ PermitsAccounted /\ LiveStaysRegistered /\ ShownIsTrue

\* What a job shows last is final: a poll of the drawer can rely on it.
ShownIsFinal == [][\A j \in Jobs : shown[j] \in Terminal => shown'[j] = shown[j]]_tqVars

\* Every job ends, although permits are scarce and wake-ups may be missed.
TransfersEnd == \A j \in Jobs : task[j].pc # "unused" ~> task[j].pc = "over"

\* What the caller's handle says.
outcome == [j \in Jobs |->
              IF task[j].pc = "unused" THEN "unsubmitted"
              ELSE IF task[j].pc # "over" THEN "awaited"
              ELSE IF shown[j] = "done" THEN "ok" ELSE "error"]

Promise == INSTANCE TransferPromise WITH outcome <- outcome, moved <- written

\* The queue keeps its promise to the callers: through cancels, retries and
\* panics, an answer comes once and is "ok" only if the bytes were moved.
KeepsPromise == Promise!PromiseSpec
=============================================================================
