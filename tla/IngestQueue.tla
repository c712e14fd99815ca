---------------------------- MODULE IngestQueue ----------------------------
(***************************************************************************)
(* The durable ingest queue of crisp-index-server: the SQLite table        *)
(* ingest_tasks (queue.rs), the worker each server process spawns on it,   *)
(* the leases that fence workers, the retry back-off, and the one-time     *)
(* import of the JSON queue an older release left behind.                  *)
(*                                                                         *)
(* Time is kept as the time LEFT: lease_expires_at and next_retry_at are   *)
(* absolute milliseconds in the table and every query compares them with   *)
(* now_ms(), so a row keeps max(0, deadline - now), and Tick makes a       *)
(* positive amount shorter.  A NULL next_retry_at and one that is due are  *)
(* the same to every query; both are 0.                                    *)
(***************************************************************************)
EXTENDS Naturals, FiniteSets

CONSTANTS
  Tasks,         \* task ids
  Workers,       \* worker ids: one per server process, never used twice
  NoWorker,      \* worker_id IS NULL
  NoTask,        \* the worker loop holds no task
  Lease,         \* lease_ms
  RetryBase,     \* retry_base_ms
  ReclaimFloor,  \* the 1_000 ms of reclaim_expired_tasks_tx
  MaxAttempts,   \* max_attempts, after open_or_create's .max(1)
  MaxLive,       \* bound: server processes alive on the data directory at once
  Legacy,        \* ingest_tasks.json: task id -> legacy record
  Unreadable     \* legacy tasks whose payload_json does not deserialize

LegacyTasks == DOMAIN Legacy

LegacyRecord ==
  [state : {"queued", "processing", "done", "failed"},
   attempts : Nat, max : Nat, retry : Nat]

ASSUME ParameterAssumption ==
  /\ Lease \in Nat \ {0}
  /\ RetryBase \in Nat
  /\ ReclaimFloor \in Nat \ {0}
  /\ MaxAttempts \in Nat \ {0}
  /\ MaxLive \in Nat \ {0}
  /\ NoWorker \notin Workers
  /\ NoTask \notin Tasks

ASSUME LegacyAssumption ==
  /\ LegacyTasks \subseteq Tasks
  /\ Legacy \in [LegacyTasks -> LegacyRecord]
  /\ Unreadable \subseteq LegacyTasks
  /\ \A t \in LegacyTasks :
       /\ Legacy[t].attempts <= Legacy[t].max
       /\ Legacy[t].state = "queued" => Legacy[t].attempts < Legacy[t].max

VARIABLES
  rows,    \* the table ingest_tasks
  json,    \* ingest_tasks.json: "none", "present" or "renamed"
  worker   \* per process: where its startup or its worker loop is

vars == <<rows, json, worker>>

LargerOf(a, b) == IF a >= b THEN a ELSE b
SmallerOf(a, b) == IF a <= b THEN a ELSE b

\* The max_attempts column: written when the row is inserted, never updated.
Budget(t) ==
  IF t \in LegacyTasks THEN LargerOf(Legacy[t].max, MaxAttempts) ELSE MaxAttempts

\* retry_delay_ms: base << min(attempts - 1, 8), the subtraction saturating.
Doubling == <<1, 2, 4, 8, 16, 32, 64, 128, 256>>
RetryDelay(base, attempts) ==
  base * Doubling[IF attempts = 0 THEN 1 ELSE SmallerOf(attempts, 9)]

ReclaimDelay(attempts) ==
  RetryDelay(LargerOf(RetryBase, SmallerOf(Lease, ReclaimFloor)), attempts)

-----------------------------------------------------------------------------
(* Types and initial state *)

TaskState == {"absent", "queued", "processing", "done", "failed"}

Row == [state : TaskState, attempts : Nat, owner : Workers \cup {NoWorker},
        lease : 0..Lease, retry : Nat, born : Nat]

\* "new": not started.  "opening" .. "opened": inside open_or_create.
\* "idle": between claims.  "working": ingest_batch runs.
\* "succeeded", "errored": the work returned, its verdict is not written yet.
Phase == {"new", "migrating", "renaming", "opened",
          "idle", "working", "succeeded", "errored", "dead"}

TypeOK ==
  /\ rows \in [Tasks -> Row]
  /\ json \in {"none", "present", "renamed"}
  /\ worker \in [Workers -> [pc : Phase, task : Tasks \cup {NoTask}]]

\* Every row that is not processing: no owner, no lease.
Unowned(state, attempts, retry, born) ==
  [state |-> state, attempts |-> attempts, owner |-> NoWorker,
   lease |-> 0, retry |-> retry, born |-> born]

Absent == Unowned("absent", 0, 0, 0)

Init ==
  /\ rows = [t \in Tasks |-> Absent]
  /\ json \in {"none", "present"}
  /\ worker = [w \in Workers |-> [pc |-> "new", task |-> NoTask]]

-----------------------------------------------------------------------------
(* Rows *)

InTable(t) == rows[t].state # "absent"
Serving == {w \in Workers :
              worker[w].pc \in {"idle", "working", "succeeded", "errored"}}
Alive == {w \in Workers : worker[w].pc \notin {"new", "dead"}}

\* The UPDATEs that end an attempt clear the owner and the lease.
Released(row, state, retry) == Unowned(state, row.attempts, retry, row.born)

\* Mutant: the budget test one too late.
AfterLostAttemptLate(t, delay) ==
  IF rows[t].attempts > Budget(t)
  THEN Released(rows[t], "failed", 0)
  ELSE Released(rows[t], "queued", delay)

\* What a failed or expired attempt leaves, given the back-off to use.
AfterLostAttempt(t, delay) ==
  IF rows[t].attempts >= Budget(t)
  THEN Released(rows[t], "failed", 0)
  ELSE Released(rows[t], "queued", delay)

\* Mutant: the lease is not looked at.
ExpiredOrNot(t) == rows[t].state = "processing"

Expired(t) == rows[t].state = "processing" /\ rows[t].lease = 0

\* reclaim_expired_tasks_tx
Reclaimed ==
  [t \in Tasks |-> IF Expired(t)
                   THEN AfterLostAttempt(t, ReclaimDelay(rows[t].attempts))
                   ELSE rows[t]]

Claimable(table) == {t \in Tasks : table[t].state = "queued" /\ table[t].retry = 0}

\* Mutant: no ORDER BY.
Unordered(table) == Claimable(table)

\* ORDER BY created_at ASC LIMIT 1: equal times are taken in any order.
Oldest(table) ==
  {t \in Claimable(table) :
     \A u \in Claimable(table) : table[t].born <= table[u].born}

GoTo(w, pc, task) == worker' = [worker EXCEPT ![w] = [pc |-> pc, task |-> task]]

-----------------------------------------------------------------------------
(* Startup: open_or_create and the legacy import *)

\* The process starts; the JSON file and the row count are looked at outside
\* the transaction that acts on them.
Start(w) ==
  /\ worker[w].pc = "new"
  /\ Cardinality(Alive) < MaxLive
  /\ GoTo(w, IF json = "present" /\ \A t \in Tasks : ~InTable(t)
             THEN "migrating" ELSE "opened", NoTask)
  /\ UNCHANGED <<rows, json>>

\* normalize_legacy_task: an interrupted task is queued again, due at once.
NormalizeLegacyTask(t) ==
  Unowned(IF Legacy[t].state = "processing" THEN "queued" ELSE Legacy[t].state,
          Legacy[t].attempts,
          IF Legacy[t].state = "queued" THEN Legacy[t].retry ELSE 0,
          0)

MigrateLegacy(w) ==
  /\ worker[w].pc = "migrating"
  /\ \A t \in LegacyTasks : ~InTable(t)
  /\ rows' = [t \in Tasks |-> IF t \in LegacyTasks THEN NormalizeLegacyTask(t)
                              ELSE rows[t]]
  /\ GoTo(w, "renaming", NoTask)
  /\ UNCHANGED json

\* Another process imported the file first: an INSERT hits the primary key,
\* the transaction rolls back and startup fails.
MigrateLegacyConflict(w) ==
  /\ worker[w].pc = "migrating"
  /\ \E t \in LegacyTasks : InTable(t)
  /\ GoTo(w, "dead", NoTask)
  /\ UNCHANGED <<rows, json>>

\* The rename after the commit; it fails when the file is gone.
RenameLegacy(w) ==
  /\ worker[w].pc = "renaming"
  /\ json' = "renamed"
  /\ GoTo(w, IF json = "present" THEN "opened" ELSE "dead", NoTask)
  /\ UNCHANGED rows

FinishOpen(w) ==
  /\ worker[w].pc = "opened"
  /\ rows' = Reclaimed
  /\ GoTo(w, "idle", NoTask)
  /\ UNCHANGED json

-----------------------------------------------------------------------------
(* HTTP handlers *)

Births == {rows[t].born : t \in Tasks}

\* POST /v1/ingest/batch.  created_at is not before any other row's.
EnqueueBatch(t) ==
  /\ Serving # {}
  /\ t \notin LegacyTasks
  /\ ~InTable(t)
  /\ \E last \in Births :
       /\ \A b \in Births : b <= last
       /\ \E born \in {last, last + 1} :
            /\ born > 0
            /\ rows' = [rows EXCEPT ![t] = Unowned("queued", 0, 0, born)]
  /\ UNCHANGED <<json, worker>>

\* GET /v1/tasks/:id reclaims expired leases before it reads.
GetTaskStatus ==
  /\ Serving # {}
  /\ rows' = Reclaimed
  /\ UNCHANGED <<json, worker>>

-----------------------------------------------------------------------------
(* The worker loop *)

\* Mutant: attempts are counted where they fail, not where they begin.
AttemptUncounted(row, w) ==
  [state |-> "processing", attempts |-> row.attempts, owner |-> w,
   lease |-> Lease, retry |-> 0, born |-> row.born]

\* The UPDATE of a claim: attempt_count + 1, a new owner and a full lease.
Attempt(row, w) ==
  [state |-> "processing", attempts |-> row.attempts + 1, owner |-> w,
   lease |-> Lease, retry |-> 0, born |-> row.born]

\* claim_next_task.  A payload that does not deserialize is an error after the
\* commit: the loop drops the task and the row keeps the lease it was given.
ClaimNextTask(w) ==
  /\ worker[w].pc = "idle"
  /\ \E t \in Oldest(Reclaimed) :
       /\ rows' = [Reclaimed EXCEPT ![t] = Attempt(@, w)]
       /\ IF t \in Unreadable THEN UNCHANGED worker ELSE GoTo(w, "working", t)
  /\ UNCHANGED json

\* Mutant: an idle worker only reclaims when it also claims.
ClaimNothingNoReclaim(w) ==
  /\ worker[w].pc = "idle"
  /\ Claimable(Reclaimed) = {}
  /\ UNCHANGED vars

ClaimNothing(w) ==
  /\ worker[w].pc = "idle"
  /\ Claimable(Reclaimed) = {}
  /\ rows' = Reclaimed
  /\ UNCHANGED <<json, worker>>

\* The heartbeat arm of the select loop: renew_lease.  An expired lease that
\* nobody reclaimed yet is renewed like any other.
RenewLease(w) ==
  LET t == worker[w].task IN
  /\ worker[w].pc = "working"
  /\ rows[t].state = "processing" /\ rows[t].owner = w
  /\ rows' = [rows EXCEPT ![t].lease = Lease]
  /\ UNCHANGED <<json, worker>>

\* hydrate_missing_embeddings and ingest_batch return.
FinishWork(w, verdict) ==
  /\ worker[w].pc = "working"
  /\ GoTo(w, verdict, worker[w].task)
  /\ UNCHANGED <<rows, json>>

\* mark_done: WHERE id = ? AND worker_id = ?, whatever the state.
MarkDone(w) ==
  LET t == worker[w].task IN
  /\ worker[w].pc = "succeeded"
  /\ rows' = [rows EXCEPT ![t] = IF @.owner = w THEN Released(@, "done", 0) ELSE @]
  /\ GoTo(w, "idle", NoTask)
  /\ UNCHANGED json

MarkFailedOrRequeue(w) ==
  LET t == worker[w].task IN
  /\ worker[w].pc = "errored"
  /\ rows' = [rows EXCEPT ![t] =
                IF @.owner = w
                THEN AfterLostAttempt(t, RetryDelay(RetryBase, @.attempts))
                ELSE @]
  /\ GoTo(w, "idle", NoTask)
  /\ UNCHANGED json

\* The verdict cannot be written (busy, disk full): it is logged and forgotten.
MarkLost(w) ==
  /\ worker[w].pc \in {"succeeded", "errored"}
  /\ GoTo(w, "idle", NoTask)
  /\ UNCHANGED <<rows, json>>

\* The process dies, at any point after it started.  Bound: a spare is left.
Crash(w) ==
  /\ w \in Alive
  /\ \E s \in Workers : worker[s].pc = "new"
  /\ GoTo(w, "dead", NoTask)
  /\ UNCHANGED <<rows, json>>

\* Time passes for every row.
Less(n) == IF n = 0 THEN 0 ELSE n - 1
Older(row) == [state |-> row.state, attempts |-> row.attempts, owner |-> row.owner,
               lease |-> Less(row.lease), retry |-> Less(row.retry), born |-> row.born]
Tick ==
  /\ \E t \in Tasks : rows[t].lease > 0 \/ rows[t].retry > 0
  /\ rows' = [t \in Tasks |-> Older(rows[t])]
  /\ UNCHANGED <<json, worker>>

-----------------------------------------------------------------------------
Startup(w) == \/ Start(w)        \/ MigrateLegacy(w) \/ MigrateLegacyConflict(w)
              \/ RenameLegacy(w) \/ FinishOpen(w)

Verdict(w) == MarkDone(w) \/ MarkFailedOrRequeue(w) \/ MarkLost(w)

WorkerStep(w) ==
  \/ Startup(w)
  \/ ClaimNextTask(w) \/ ClaimNothing(w)
  \/ RenewLease(w)
  \/ \E verdict \in {"succeeded", "errored"} : FinishWork(w, verdict)
  \/ Verdict(w)
  \/ Crash(w)

Next ==
  \/ \E w \in Workers : WorkerStep(w)
  \/ \E t \in Tasks : EnqueueBatch(t)
  \/ GetTaskStatus
  \/ Tick

Spec == Init /\ [][Next]_vars

\* A supervisor restarts the server, its startup and its loop run on, work
\* returns, and time passes.  Heartbeats, requests and crashes are not owed.
Fairness ==
  /\ \A w \in Workers :
       /\ WF_vars(Startup(w))
       /\ WF_vars(ClaimNextTask(w) \/ ClaimNothing(w))
       /\ WF_vars(\E verdict \in {"succeeded", "errored"} : FinishWork(w, verdict))
       /\ WF_vars(Verdict(w))
  /\ WF_vars(Tick)

FairSpec == Spec /\ Fairness

-----------------------------------------------------------------------------
(* Properties *)

\* A row has an owner exactly while it is processing, a lease only then, and a
\* back-off only while it is queued.  mark_done and mark_failed_or_requeue test
\* worker_id alone (queue.rs:339, 356): this is what makes that test enough.
OwnedWhileProcessing ==
  \A t \in Tasks :
    /\ rows[t].owner # NoWorker <=> rows[t].state = "processing"
    /\ rows[t].lease > 0 => rows[t].state = "processing"
    /\ rows[t].retry > 0 => rows[t].state = "queued"

\* A legacy task that was running its last attempt when the old server stopped
\* is queued again with its budget spent (queue.rs:709): it gets one more run.
InterruptedOnLastAttempt(t) ==
  /\ t \in LegacyTasks
  /\ Legacy[t].state = "processing"
  /\ Legacy[t].attempts = Budget(t)

MostAttempts(t) == Budget(t) + IF InterruptedOnLastAttempt(t) THEN 1 ELSE 0

\* No task is attempted more often than its max_attempts allows, whatever mix
\* of errors, expired leases, lost verdicts and restarts it goes through, and a
\* task that is queued still has an attempt left.
AttemptsWithinBudget ==
  \A t \in Tasks :
    /\ rows[t].attempts <= MostAttempts(t)
    /\ rows[t].state = "queued" => rows[t].attempts < MostAttempts(t)

\* A task is given up only when its budget is spent (or the old server had
\* given it up): no error path and no race fails a task early.
FailedOnlyWhenSpent ==
  \A t \in Tasks :
    rows[t].state = "failed" =>
      \/ rows[t].attempts >= Budget(t)
      \/ t \in LegacyTasks /\ Legacy[t].state = "failed"

\* Batches get their first attempt in the order they were accepted, whichever
\* workers claim them and however often earlier ones are retried.
FirstAttemptsInOrder ==
  \A t, u \in Tasks \ LegacyTasks :
    (InTable(t) /\ rows[t].born < rows[u].born /\ rows[u].attempts > 0)
      => rows[t].attempts > 0

\* Once the JSON file is renamed away, every task it held is in the table.
LegacyNeverLost == json = "renamed" => \A t \in LegacyTasks : InTable(t)

\* The invariant of the queue: what a row, its owner and its budget can be,
\* with any number of processes on the table and after any crash.
QueueInv ==
  /\ TypeOK
  /\ OwnedWhileProcessing
  /\ AttemptsWithinBudget
  /\ FailedOnlyWhenSpent
  /\ LegacyNeverLost

\* Nothing but its owner takes a task away before its lease has run out.
LeaseProtectsOwner ==
  [][\A t \in Tasks :
       LET w == rows[t].owner IN
       (w # NoWorker /\ rows[t].lease > 0 /\ rows'[t].owner # w)
         => worker[w].task = t /\ worker'[w].task = NoTask]_vars

\* done and failed are final: a late verdict of a worker that lost its lease,
\* a second import of the JSON file or a reclaim never reopens a task.
TerminalIsFinal ==
  [][\A t \in Tasks :
       rows[t].state \in {"done", "failed"} => rows'[t] = rows[t]]_vars

\* Every accepted task, legacy ones included, reaches done or failed, through
\* crashes, expired leases and verdicts that were never written.
EveryTaskEnds ==
  \A t \in Tasks :
    InTable(t) ~> rows[t].state \in {"done", "failed"}

\* What a polling client sees of the queue is TaskLifecycle: attempts are
\* counted one at a time, a task is given back or given up only by the budget,
\* and one transaction never moves a task twice.
Lifecycle == INSTANCE TaskLifecycle WITH
  Patience <- [t \in Tasks |-> Budget(t)],
  Runs <- [t \in Tasks |-> MostAttempts(t)],
  state <- [t \in Tasks |-> rows[t].state],
  attempts <- [t \in Tasks |-> rows[t].attempts]

ImplementsLifecycle == Lifecycle!Spec
=============================================================================
