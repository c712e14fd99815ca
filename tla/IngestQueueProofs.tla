------------------------- MODULE IngestQueueProofs -------------------------
(* Proofs about IngestQueue, for every value of its constants. *)
EXTENDS IngestQueue, TLAPS

USE ParameterAssumption

-----------------------------------------------------------------------------
(* The operators the actions are built from *)

\* The back-off of a positive base is positive, that of base 0 is 0.
LEMMA RetryDelayPositive ==
  ASSUME NEW base \in Nat, NEW n \in Nat
  PROVE  /\ RetryDelay(base, n) \in Nat
         /\ base > 0 => RetryDelay(base, n) > 0
<1> DEFINE k == IF n = 0 THEN 1 ELSE SmallerOf(n, 9)
<1>1. k \in 1..9
  BY DEF SmallerOf
<1>2. \A i \in 1..9 : Doubling[i] \in Nat \ {0}
  BY DEF Doubling
<1>3. Doubling[k] \in Nat \ {0}
  BY <1>1, <1>2
<1> DEFINE d == Doubling[k]
<1>4. d \in Nat \ {0}
  BY <1>3
<1> HIDE DEF d
<1>5. base * d \in Nat /\ (base > 0 => base * d > 0)
  BY <1>4
<1>6. RetryDelay(base, n) = base * d
  BY DEF RetryDelay, d
<1>7. QED
  BY <1>5, <1>6

\* A reclaimed task is never due in the transaction that reclaims it.
LEMMA ReclaimDelayPositive ==
  ASSUME NEW n \in Nat
  PROVE  ReclaimDelay(n) \in Nat /\ ReclaimDelay(n) > 0
<1> DEFINE base == LargerOf(RetryBase, SmallerOf(Lease, ReclaimFloor))
<1>1. base \in Nat /\ base > 0
  BY DEF LargerOf, SmallerOf
<1>2. QED
  BY <1>1, RetryDelayPositive DEF ReclaimDelay

LEMMA BudgetPositive ==
  ASSUME NEW t \in Tasks
  PROVE  Budget(t) \in Nat /\ Budget(t) > 0
BY LegacyAssumption DEF Budget, LargerOf, LegacyRecord

-----------------------------------------------------------------------------
(* What one step does to one row *)

Aged(t) == rows'[t] = Older(rows[t])

Accepted(t) ==
  /\ t \notin LegacyTasks /\ ~InTable(t)
  /\ \E born \in Nat :
       rows'[t] = Unowned("queued", 0, 0, born)

Imported(t) ==
  /\ t \in LegacyTasks /\ ~InTable(t)
  /\ rows'[t] = NormalizeLegacyTask(t)

Claimed(t) ==
  /\ rows[t].state = "queued" /\ rows[t].retry = 0
  /\ \E w \in Workers : rows'[t] = Attempt(rows[t], w)

Renewed(t) ==
  /\ rows[t].state = "processing"
  /\ rows'[t] = [rows[t] EXCEPT !.lease = Lease]

Reclaim(t) ==
  /\ Expired(t)
  /\ rows'[t] = AfterLostAttempt(t, ReclaimDelay(rows[t].attempts))

OwnVerdict(t) ==
  \E w \in Workers :
    /\ rows[t].owner = w
    /\ worker[w].task = t /\ worker'[w].task = NoTask

Finished(t) ==
  /\ OwnVerdict(t)
  /\ rows'[t] = Released(rows[t], "done", 0)

Erred(t) ==
  /\ OwnVerdict(t)
  /\ rows'[t] = AfterLostAttempt(t, RetryDelay(RetryBase, rows[t].attempts))

RowStep(t) ==
  \/ rows'[t] = rows[t]
  \/ Aged(t) \/ Accepted(t) \/ Imported(t) \/ Claimed(t) \/ Renewed(t)
  \/ Reclaim(t) \/ Finished(t) \/ Erred(t)

\* What is due after a reclaim was due before it, and is untouched by it.
LEMMA ClaimableUntouched ==
  ASSUME TypeOK, NEW t \in Claimable(Reclaimed)
  PROVE  t \in Tasks /\ Reclaimed[t] = rows[t]
<1>1. t \in Tasks /\ rows[t] \in Row
  BY DEF Claimable, TypeOK
<1>2. Reclaimed[t].state = "queued" /\ Reclaimed[t].retry = 0
  BY DEF Claimable
<1>3. ASSUME Expired(t) PROVE FALSE
  <2>1. Reclaimed[t] = AfterLostAttempt(t, ReclaimDelay(rows[t].attempts))
    BY <1>1, <1>3 DEF Reclaimed
  <2>2. ReclaimDelay(rows[t].attempts) > 0
    BY <1>1, ReclaimDelayPositive DEF Row
  <2>3. QED
    BY <1>1, <1>2, <2>1, <2>2 DEF AfterLostAttempt, Released, Unowned, Row
<1>4. QED
  BY <1>1, <1>3 DEF Reclaimed

\* Every step of the queue changes each row in one of these ways.
LEMMA EveryStepIsRowStep ==
  ASSUME TypeOK, [Next]_vars
  PROVE  \A t \in Tasks : RowStep(t)
<1> SUFFICES ASSUME NEW t \in Tasks PROVE RowStep(t)
  OBVIOUS
<1>0. rows \in [Tasks -> Row] /\ rows[t] \in Row
  BY DEF TypeOK
<1>1. ASSUME rows' = Reclaimed PROVE RowStep(t)
  BY <1>1 DEF Reclaimed, RowStep, Reclaim
<1>2. CASE UNCHANGED rows
  BY <1>2 DEF RowStep
<1>3. ASSUME NEW w \in Workers, MigrateLegacy(w) PROVE RowStep(t)
  BY <1>3 DEF MigrateLegacy, RowStep, Imported
<1>4. ASSUME NEW u \in Tasks, EnqueueBatch(u) PROVE RowStep(t)
  <2>1. PICK last \in Births :
          \E born \in {last, last + 1} : rows' = [rows EXCEPT ![u] = Unowned("queued", 0, 0, born)]
    BY <1>4 DEF EnqueueBatch
  <2>a. last \in Nat
    BY <2>1 DEF Births, TypeOK, Row
  <2>2. PICK born \in Nat : rows' = [rows EXCEPT ![u] = Unowned("queued", 0, 0, born)]
    <3>1. PICK born \in {last, last + 1} : rows' = [rows EXCEPT ![u] = Unowned("queued", 0, 0, born)]
      BY <2>1
    <3>2. born \in Nat
      BY <2>a
    <3>3. QED
      BY <3>1, <3>2
  <2>3. QED
    BY <1>0, <1>4, <2>2 DEF EnqueueBatch, RowStep, Accepted
<1>5. ASSUME NEW w \in Workers, ClaimNextTask(w) PROVE RowStep(t)
  <2>1. PICK u \in Claimable(Reclaimed) :
          rows' = [Reclaimed EXCEPT ![u] = Attempt(@, w)]
    BY <1>5 DEF ClaimNextTask, Oldest
  <2>2. u \in Tasks /\ Reclaimed[u] = rows[u] /\ rows[u] \in Row
    BY ClaimableUntouched DEF TypeOK
  <2>3. CASE t = u
    <3>1. rows[t].state = "queued" /\ rows[t].retry = 0
      BY <2>2, <2>3 DEF Claimable
    <3>2. rows'[t] = Attempt(rows[t], w)
      BY <2>1, <2>2, <2>3 DEF Reclaimed
    <3>3. QED
      BY <3>1, <3>2 DEF RowStep, Claimed
  <2>4. CASE t # u
    <3>1. rows'[t] = Reclaimed[t]
      BY <2>1, <2>2, <2>4 DEF Reclaimed
    <3>2. QED
      BY <3>1 DEF Reclaimed, RowStep, Reclaim
  <2>5. QED
    BY <2>3, <2>4
<1>6. ASSUME NEW w \in Workers, RenewLease(w) PROVE RowStep(t)
  BY <1>0, <1>6 DEF RenewLease, RowStep, Renewed
<1>7. ASSUME NEW w \in Workers, MarkDone(w) PROVE RowStep(t)
  <2>1. worker' = [worker EXCEPT ![w] = [pc |-> "idle", task |-> NoTask]]
    BY <1>7 DEF MarkDone, GoTo
  <2>2. worker'[w].task = NoTask
    BY <2>1 DEF TypeOK
  <2>3. QED
    BY <1>0, <1>7, <2>2 DEF MarkDone, RowStep, Finished, OwnVerdict
<1>8. ASSUME NEW w \in Workers, MarkFailedOrRequeue(w) PROVE RowStep(t)
  <2>1. worker' = [worker EXCEPT ![w] = [pc |-> "idle", task |-> NoTask]]
    BY <1>8 DEF MarkFailedOrRequeue, GoTo
  <2>2. worker'[w].task = NoTask
    BY <2>1 DEF TypeOK
  <2>3. QED
    BY <1>0, <1>8, <2>2 DEF MarkFailedOrRequeue, RowStep, Erred, OwnVerdict
<1>9. CASE Tick
  BY <1>9 DEF Tick, RowStep, Aged
<1>10. QED
  <2>1. ASSUME NEW w \in Workers, WorkerStep(w) PROVE RowStep(t)
    BY <1>1, <1>2, <1>3, <1>5, <1>6, <1>7, <1>8, <2>1
       DEF WorkerStep, Startup, Verdict, Start, MigrateLegacyConflict, RenameLegacy,
           FinishOpen, ClaimNothing, FinishWork, MarkLost, Crash
  <2>2. CASE GetTaskStatus
    BY <1>1, <2>2 DEF GetTaskStatus
  <2>3. QED
    BY <1>2, <1>4, <1>9, <2>1, <2>2 DEF Next, vars

-----------------------------------------------------------------------------
(* Type correctness *)

LEMMA LostAttemptType ==
  ASSUME NEW t \in Tasks, rows[t] \in Row, NEW delay \in Nat
  PROVE  AfterLostAttempt(t, delay) \in Row
BY DEF AfterLostAttempt, Released, Unowned, Row, TaskState

LEMMA RowStepType ==
  ASSUME NEW t \in Tasks, rows[t] \in Row, RowStep(t)
  PROVE  rows'[t] \in Row
<1>1. CASE Aged(t)
  <2>1. Less(rows[t].lease) \in 0..Lease /\ Less(rows[t].retry) \in Nat
    BY DEF Less, Row
  <2>2. QED
    BY <1>1, <2>1 DEF Aged, Older, Row
<1>2. CASE Accepted(t)
  BY <1>2 DEF Accepted, Unowned, Row, TaskState
<1>3. CASE Imported(t)
  <2>1. Legacy[t] \in LegacyRecord
    BY <1>3, LegacyAssumption DEF Imported
  <2>2. QED
    BY <1>3, <2>1 DEF Imported, NormalizeLegacyTask, LegacyRecord, Unowned, Row, TaskState
<1>4. CASE Claimed(t)
  BY <1>4 DEF Claimed, Attempt, Row, TaskState
<1>5. CASE Renewed(t)
  BY <1>5 DEF Renewed, Row
<1>6. CASE Reclaim(t)
  <2>1. ReclaimDelay(rows[t].attempts) \in Nat
    BY ReclaimDelayPositive DEF Row
  <2>2. QED
    BY <1>6, <2>1, LostAttemptType DEF Reclaim
<1>7. CASE Finished(t)
  BY <1>7 DEF Finished, Released, Unowned, Row, TaskState
<1>8. CASE Erred(t)
  <2>1. RetryDelay(RetryBase, rows[t].attempts) \in Nat
    BY RetryDelayPositive DEF Row
  <2>2. QED
    BY <1>8, <2>1, LostAttemptType DEF Erred
<1>9. QED
  BY <1>1, <1>2, <1>3, <1>4, <1>5, <1>6, <1>7, <1>8 DEF RowStep

\* No step changes which tasks there are.
LEMMA TableKeepsItsDomain ==
  ASSUME TypeOK, [Next]_vars
  PROVE  rows' = [t \in Tasks |-> rows'[t]]
<1>1. \A w \in Workers : WorkerStep(w) => rows' = [t \in Tasks |-> rows'[t]]
  BY DEF TypeOK, WorkerStep, Startup, Verdict, Start, MigrateLegacy, MigrateLegacyConflict,
         RenameLegacy, FinishOpen, ClaimNextTask, ClaimNothing, RenewLease, FinishWork,
         MarkDone, MarkFailedOrRequeue, MarkLost, Crash, Reclaimed
<1>2. QED
  BY <1>1 DEF TypeOK, Next, vars, EnqueueBatch, GetTaskStatus, Tick, Reclaimed

LEMMA WorkerTypeKept ==
  ASSUME TypeOK, [Next]_vars
  PROVE  worker' \in [Workers -> [pc : Phase, task : Tasks \cup {NoTask}]]
<1>1. ASSUME NEW w \in Workers, WorkerStep(w)
      PROVE  worker' \in [Workers -> [pc : Phase, task : Tasks \cup {NoTask}]]
  <2>1. ASSUME NEW pc \in Phase, NEW task \in Tasks \cup {NoTask}, GoTo(w, pc, task)
        PROVE  worker' \in [Workers -> [pc : Phase, task : Tasks \cup {NoTask}]]
    BY <2>1 DEF TypeOK, GoTo
  <2>2. CASE Startup(w)
    BY <2>1, <2>2 DEF Startup, Start, MigrateLegacy, MigrateLegacyConflict, RenameLegacy,
                      FinishOpen, Phase
  <2>3. CASE ClaimNextTask(w)
    BY <2>1, <2>3, ClaimableUntouched DEF ClaimNextTask, Oldest, TypeOK, Phase
  <2>4. CASE ClaimNothing(w) \/ RenewLease(w)
    BY <2>4 DEF ClaimNothing, RenewLease, TypeOK
  <2>5. ASSUME NEW verdict \in {"succeeded", "errored"}, FinishWork(w, verdict)
        PROVE  worker' \in [Workers -> [pc : Phase, task : Tasks \cup {NoTask}]]
    <3>1. worker[w].task \in Tasks \cup {NoTask}
      BY DEF TypeOK
    <3>2. QED
      BY <2>1, <2>5, <3>1 DEF FinishWork, Phase
  <2>6. CASE Verdict(w)
    BY <2>1, <2>6 DEF Verdict, MarkDone, MarkFailedOrRequeue, MarkLost, Phase
  <2>7. CASE Crash(w)
    BY <2>1, <2>7 DEF Crash, Phase
  <2>8. QED
    BY <1>1, <2>2, <2>3, <2>4, <2>5, <2>6, <2>7 DEF WorkerStep
<1>2. QED
  BY <1>1 DEF TypeOK, Next, vars, EnqueueBatch, GetTaskStatus, Tick

\* The table, the JSON file and the workers always have their types; in
\* particular a lease never exceeds lease_ms and a back-off is never negative.
THEOREM TypeCorrect == Spec => []TypeOK
<1>1. Init => TypeOK
  BY DEF Init, TypeOK, Absent, Unowned, Row, TaskState, Phase
<1>2. ASSUME TypeOK, [Next]_vars PROVE TypeOK'
  <2>1. rows' \in [Tasks -> Row]
    <3>1. \A t \in Tasks : rows'[t] \in Row
      BY <1>2, EveryStepIsRowStep, RowStepType DEF TypeOK
    <3>2. QED
      BY <1>2, <3>1, TableKeepsItsDomain
  <2>2. json' \in {"none", "present", "renamed"}
    <3>1. \A w \in Workers : WorkerStep(w) => json' \in {json, "renamed"}
      BY DEF WorkerStep, Startup, Verdict, Start, MigrateLegacy, MigrateLegacyConflict,
             RenameLegacy, FinishOpen, ClaimNextTask, ClaimNothing, RenewLease,
             FinishWork, MarkDone, MarkFailedOrRequeue, MarkLost, Crash
    <3>2. QED
      BY <1>2, <3>1 DEF TypeOK, Next, vars, EnqueueBatch, GetTaskStatus, Tick
  <2>3. QED
    BY <1>2, <2>1, <2>2, WorkerTypeKept DEF TypeOK
<1>3. QED
  BY <1>1, <1>2, PTL DEF Spec

-----------------------------------------------------------------------------
(* Ownership and finality *)

\* worker_id alone identifies a running attempt: the guard the UPDATEs of
\* mark_done and mark_failed_or_requeue leave out is implied by the one they have.
THEOREM OwnershipCorrect == Spec => []OwnedWhileProcessing
<1>1. Init => OwnedWhileProcessing
  BY DEF Init, OwnedWhileProcessing, Absent, Unowned
<1>2. ASSUME TypeOK, OwnedWhileProcessing, [Next]_vars PROVE OwnedWhileProcessing'
  <2> SUFFICES ASSUME NEW t \in Tasks
               PROVE  /\ rows'[t].owner # NoWorker <=> rows'[t].state = "processing"
                      /\ rows'[t].lease > 0 => rows'[t].state = "processing"
                      /\ rows'[t].retry > 0 => rows'[t].state = "queued"
    BY DEF OwnedWhileProcessing
  <2>1. /\ rows[t] \in Row
        /\ rows[t].owner # NoWorker <=> rows[t].state = "processing"
        /\ rows[t].lease > 0 => rows[t].state = "processing"
        /\ rows[t].retry > 0 => rows[t].state = "queued"
    BY <1>2 DEF TypeOK, OwnedWhileProcessing
  <2>2. RowStep(t)
    BY <1>2, EveryStepIsRowStep
  <2>3. CASE rows'[t] = rows[t]
    BY <2>1, <2>3
  <2>4. CASE Aged(t)
    BY <2>1, <2>4 DEF Aged, Older, Less, Row
  <2>5. CASE Accepted(t)
    BY <2>5 DEF Accepted, Unowned
  <2>6. CASE Imported(t)
    <3>1. Legacy[t] \in LegacyRecord
      BY <2>6, LegacyAssumption DEF Imported
    <3>2. QED
      BY <2>6, <3>1 DEF Imported, NormalizeLegacyTask, LegacyRecord, Unowned
  <2>7. CASE Claimed(t)
    BY <2>1, <2>7 DEF Claimed, Attempt, Row
  <2>8. CASE Renewed(t)
    BY <2>1, <2>8 DEF Renewed, Row
  <2>9. CASE Reclaim(t) \/ Finished(t) \/ Erred(t)
    BY <2>1, <2>9 DEF Reclaim, Finished, Erred, AfterLostAttempt, Released, Unowned, Row
  <2>10. QED
    BY <2>2, <2>3, <2>4, <2>5, <2>6, <2>7, <2>8, <2>9 DEF RowStep
<1>3. QED
  BY <1>1, <1>2, TypeCorrect, PTL DEF Spec

\* done and failed are final for every mix of workers, leases and restarts.
THEOREM TerminalIsFinalCorrect == Spec => TerminalIsFinal
<1>1. ASSUME TypeOK, OwnedWhileProcessing, [Next]_vars
      PROVE  \A t \in Tasks :
               rows[t].state \in {"done", "failed"} => rows'[t] = rows[t]
  <2> SUFFICES ASSUME NEW t \in Tasks, rows[t].state \in {"done", "failed"}
               PROVE  rows'[t] = rows[t]
    OBVIOUS
  <2>1. /\ rows[t] \in Row
        /\ rows[t].owner = NoWorker /\ rows[t].lease = 0 /\ rows[t].retry = 0
    BY <1>1 DEF TypeOK, OwnedWhileProcessing, Row
  <2>2. RowStep(t)
    BY <1>1, EveryStepIsRowStep
  <2>3. CASE Aged(t)
    BY <2>1, <2>3 DEF Aged, Older, Less, Row
  <2>4. CASE Finished(t) \/ Erred(t)
    BY <2>1, <2>4 DEF Finished, Erred, OwnVerdict
  <2>5. QED
    BY <2>1, <2>2, <2>3, <2>4
       DEF RowStep, Accepted, Imported, Claimed, Renewed, Reclaim, Expired, InTable
<1>2. QED
  BY <1>1, TypeCorrect, OwnershipCorrect, PTL DEF Spec, TerminalIsFinal

\* A live lease is safe from every other worker, restart and status poll.
THEOREM LeaseProtectsOwnerCorrect == Spec => LeaseProtectsOwner
<1>1. ASSUME TypeOK, OwnedWhileProcessing, [Next]_vars
      PROVE  \A t \in Tasks :
               LET w == rows[t].owner IN
               (w # NoWorker /\ rows[t].lease > 0 /\ rows'[t].owner # w)
                 => worker[w].task = t /\ worker'[w].task = NoTask
  <2> SUFFICES ASSUME NEW t \in Tasks, NEW w, w = rows[t].owner,
                      w # NoWorker, rows[t].lease > 0, rows'[t].owner # w
               PROVE  worker[w].task = t /\ worker'[w].task = NoTask
    OBVIOUS
  <2>1. rows[t] \in Row /\ rows[t].state = "processing"
    BY <1>1 DEF TypeOK, OwnedWhileProcessing
  <2>2. RowStep(t)
    BY <1>1, EveryStepIsRowStep
  <2>3. CASE Aged(t)
    BY <2>3 DEF Aged, Older
  <2>4. CASE Renewed(t)
    BY <2>1, <2>4 DEF Renewed, Row
  <2>5. CASE Finished(t) \/ Erred(t)
    BY <2>5 DEF Finished, Erred, OwnVerdict
  <2>6. QED
    BY <2>1, <2>2, <2>3, <2>4, <2>5
       DEF RowStep, Accepted, Imported, Claimed, Reclaim, Expired, InTable, Row
<1>2. QED
  BY <1>1, TypeCorrect, OwnershipCorrect, PTL DEF Spec, LeaseProtectsOwner

-----------------------------------------------------------------------------
(* Attempts *)

LEMMA MostAttemptsBounds ==
  ASSUME NEW t \in Tasks
  PROVE  /\ MostAttempts(t) \in Nat /\ Budget(t) <= MostAttempts(t)
         /\ MostAttempts(t) > 0
BY BudgetPositive DEF MostAttempts

\* What a legacy record carries into the table fits the budget, and a record
\* that is queued again has an attempt left.
LEMMA ImportFitsBudget ==
  ASSUME NEW t \in LegacyTasks
  PROVE  /\ NormalizeLegacyTask(t).attempts <= MostAttempts(t)
         /\ NormalizeLegacyTask(t).state = "queued"
              => NormalizeLegacyTask(t).attempts < MostAttempts(t)
<1>1. /\ t \in Tasks /\ Legacy[t] \in LegacyRecord
      /\ Legacy[t].attempts <= Legacy[t].max
      /\ Legacy[t].state = "queued" => Legacy[t].attempts < Legacy[t].max
  BY LegacyAssumption
<1>2. Legacy[t].max <= Budget(t) /\ Budget(t) \in Nat
  BY <1>1, BudgetPositive DEF Budget, LargerOf, LegacyRecord
<1>3. /\ NormalizeLegacyTask(t).attempts = Legacy[t].attempts
      /\ NormalizeLegacyTask(t).state = "queued" <=> Legacy[t].state \in {"queued", "processing"}
  BY <1>1 DEF NormalizeLegacyTask, Unowned, LegacyRecord
<1>4. QED
  BY <1>1, <1>2, <1>3 DEF MostAttempts, InterruptedOnLastAttempt, LegacyRecord

\* No history of errors, expiries and restarts overspends a budget.
THEOREM AttemptsCorrect == Spec => []AttemptsWithinBudget
<1>1. Init => AttemptsWithinBudget
  BY MostAttemptsBounds DEF Init, AttemptsWithinBudget, Absent, Unowned
<1>2. ASSUME TypeOK, OwnedWhileProcessing, AttemptsWithinBudget, [Next]_vars
      PROVE  AttemptsWithinBudget'
  <2> SUFFICES ASSUME NEW t \in Tasks
               PROVE  /\ rows'[t].attempts <= MostAttempts(t)
                      /\ rows'[t].state = "queued" => rows'[t].attempts < MostAttempts(t)
    BY DEF AttemptsWithinBudget
  <2>1. /\ rows[t] \in Row
        /\ rows[t].attempts <= MostAttempts(t)
        /\ rows[t].state = "queued" => rows[t].attempts < MostAttempts(t)
    BY <1>2 DEF TypeOK, AttemptsWithinBudget
  <2>2. /\ MostAttempts(t) \in Nat /\ MostAttempts(t) > 0
        /\ Budget(t) \in Nat /\ Budget(t) <= MostAttempts(t)
    BY MostAttemptsBounds, BudgetPositive
  <2>3. RowStep(t)
    BY <1>2, EveryStepIsRowStep
  <2>4. CASE Aged(t) \/ Renewed(t) \/ rows'[t] = rows[t]
    BY <2>1, <2>4 DEF Aged, Older, Renewed, Row
  <2>5. CASE Accepted(t)
    BY <2>2, <2>5 DEF Accepted, Unowned
  <2>6. CASE Imported(t)
    BY <2>6, ImportFitsBudget DEF Imported
  <2>7. CASE Claimed(t)
    BY <2>1, <2>2, <2>7 DEF Claimed, Attempt, Row
  <2>8. CASE Reclaim(t) \/ Erred(t) \/ Finished(t)
    BY <2>1, <2>2, <2>8
       DEF Reclaim, Erred, Finished, AfterLostAttempt, Released, Unowned, Row
  <2>9. QED
    BY <2>3, <2>4, <2>5, <2>6, <2>7, <2>8 DEF RowStep
<1>3. QED
  BY <1>1, <1>2, TypeCorrect, OwnershipCorrect, PTL DEF Spec

\* No path fails a task that still has attempts left.
THEOREM FailuresCorrect == Spec => []FailedOnlyWhenSpent
<1>1. Init => FailedOnlyWhenSpent
  BY DEF Init, FailedOnlyWhenSpent, Absent, Unowned
<1>2. ASSUME TypeOK, FailedOnlyWhenSpent, [Next]_vars PROVE FailedOnlyWhenSpent'
  <2> SUFFICES ASSUME NEW t \in Tasks, rows'[t].state = "failed"
               PROVE  \/ rows'[t].attempts >= Budget(t)
                      \/ t \in LegacyTasks /\ Legacy[t].state = "failed"
    BY DEF FailedOnlyWhenSpent
  <2>1. rows[t] \in Row
    BY <1>2 DEF TypeOK
  <2>2. RowStep(t)
    BY <1>2, EveryStepIsRowStep
  <2>3. CASE Aged(t) \/ rows'[t] = rows[t]
    BY <1>2, <2>3 DEF Aged, Older, FailedOnlyWhenSpent
  <2>4. CASE Renewed(t)
    BY <2>1, <2>4 DEF Renewed, Row
  <2>5. CASE Accepted(t) \/ Claimed(t) \/ Finished(t)
    <3>1. Accepted(t) => rows'[t].state = "queued"
      BY DEF Accepted, Unowned
    <3>2. Claimed(t) => rows'[t].state = "processing"
      BY DEF Claimed, Attempt
    <3>3. Finished(t) => rows'[t].state = "done"
      BY DEF Finished, Released, Unowned
    <3>4. QED
      BY <2>5, <3>1, <3>2, <3>3
  <2>6. CASE Imported(t)
    <3>1. Legacy[t] \in LegacyRecord
      BY <2>6, LegacyAssumption DEF Imported
    <3>2. QED
      BY <2>6, <3>1 DEF Imported, NormalizeLegacyTask, Unowned, LegacyRecord
  <2>7. CASE Reclaim(t) \/ Erred(t)
    BY <2>1, <2>7 DEF Reclaim, Erred, AfterLostAttempt, Released, Unowned, Row
  <2>8. QED
    BY <2>2, <2>3, <2>4, <2>5, <2>6, <2>7 DEF RowStep
<1>3. QED
  BY <1>1, <1>2, TypeCorrect, PTL DEF Spec

-----------------------------------------------------------------------------
(* The legacy import *)

\* The file is renamed away only by a process that found, or made, every legacy
\* task in the table: the phase between the commit and the rename.
RenamingAfterImport ==
  \A w \in Workers : worker[w].pc = "renaming" => \A t \in LegacyTasks : InTable(t)

LEMMA RowsStayInTable ==
  ASSUME TypeOK, [Next]_vars, NEW t \in Tasks, InTable(t)
  PROVE  InTable(t)'
<1>1. RowStep(t) /\ rows[t] \in Row
  BY EveryStepIsRowStep DEF TypeOK
<1>2. SUFFICES rows'[t].state # "absent"
  BY DEF InTable
<1>3. CASE rows'[t] = rows[t] \/ Aged(t)
  BY <1>3 DEF Aged, Older, InTable
<1>4. CASE Accepted(t) \/ Imported(t)
  BY <1>4 DEF Accepted, Imported
<1>5. CASE Claimed(t)
  BY <1>5 DEF Claimed, Attempt
<1>6. CASE Renewed(t)
  BY <1>1, <1>6 DEF Renewed, Row
<1>7. CASE Reclaim(t) \/ Erred(t) \/ Finished(t)
  BY <1>7 DEF Reclaim, Erred, Finished, AfterLostAttempt, Released, Unowned
<1>8. QED
  BY <1>1, <1>3, <1>4, <1>5, <1>6, <1>7 DEF RowStep

\* A process enters the renaming phase only by importing every legacy task.
LEMMA RenamingBegins ==
  ASSUME TypeOK, [Next]_vars, NEW w \in Workers,
         worker[w].pc # "renaming", worker'[w].pc = "renaming"
  PROVE  MigrateLegacy(w)
<1>1. ASSUME NEW v \in Workers, WorkerStep(v) PROVE MigrateLegacy(w)
  <2>1. ASSUME NEW pc, NEW task, GoTo(v, pc, task), pc # "renaming" PROVE FALSE
    BY <2>1 DEF GoTo, TypeOK
  <2>2. CASE MigrateLegacy(v)
    BY <2>2 DEF MigrateLegacy, GoTo, TypeOK
  <2>3. CASE Start(v)
    BY <2>1, <2>3 DEF Start
  <2>4. CASE ClaimNextTask(v)
    BY <2>1, <2>4 DEF ClaimNextTask
  <2>5. CASE RenameLegacy(v)
    BY <2>1, <2>5 DEF RenameLegacy
  <2>6. CASE MigrateLegacyConflict(v) \/ FinishOpen(v) \/ Verdict(v) \/ Crash(v)
    BY <2>1, <2>6
       DEF MigrateLegacyConflict, FinishOpen, Verdict, MarkDone, MarkFailedOrRequeue,
           MarkLost, Crash
  <2>7. CASE \E verdict \in {"succeeded", "errored"} : FinishWork(v, verdict)
    BY <2>1, <2>7 DEF FinishWork
  <2>8. CASE ClaimNothing(v) \/ RenewLease(v)
    BY <2>8 DEF ClaimNothing, RenewLease
  <2>9. QED
    BY <1>1, <2>2, <2>3, <2>4, <2>5, <2>6, <2>7, <2>8 DEF WorkerStep, Startup
<1>2. QED
  BY <1>1 DEF Next, vars, EnqueueBatch, GetTaskStatus, Tick

\* The JSON file is renamed away only once its tasks are in the table, with any
\* number of processes importing it at once and crashes in between.
THEOREM LegacyCorrect == Spec => []LegacyNeverLost
<1>1. Init => RenamingAfterImport /\ LegacyNeverLost
  BY DEF Init, RenamingAfterImport, LegacyNeverLost
<1>2. ASSUME TypeOK, RenamingAfterImport, LegacyNeverLost, [Next]_vars
      PROVE  RenamingAfterImport' /\ LegacyNeverLost'
  <2>1. \A t \in LegacyTasks : InTable(t) => InTable(t)'
    BY <1>2, RowsStayInTable, LegacyAssumption
  <2>2. RenamingAfterImport'
    <3> SUFFICES ASSUME NEW w \in Workers, worker'[w].pc = "renaming", NEW t \in LegacyTasks
                 PROVE  InTable(t)'
      BY DEF RenamingAfterImport
    <3>1. CASE worker[w].pc = "renaming"
      BY <1>2, <2>1, <3>1 DEF RenamingAfterImport
    <3>2. CASE worker[w].pc # "renaming"
      <4>1. MigrateLegacy(w)
        BY <1>2, <3>2, RenamingBegins
      <4>2. t \in Tasks /\ rows'[t] = NormalizeLegacyTask(t) /\ Legacy[t] \in LegacyRecord
        BY <4>1, LegacyAssumption DEF MigrateLegacy
      <4>3. QED
        BY <4>2 DEF InTable, NormalizeLegacyTask, Unowned, LegacyRecord
    <3>3. QED
      BY <3>1, <3>2
  <2>3. LegacyNeverLost'
    <3>1. json' = json \/ \E w \in Workers : RenameLegacy(w)
      BY <1>2 DEF Next, vars, WorkerStep, Startup, Verdict, Start, MigrateLegacy,
             MigrateLegacyConflict, FinishOpen, ClaimNextTask, ClaimNothing, RenewLease,
             FinishWork, MarkDone, MarkFailedOrRequeue, MarkLost, Crash,
             EnqueueBatch, GetTaskStatus, Tick
    <3>2. CASE json' = json
      BY <1>2, <2>1, <3>2 DEF LegacyNeverLost
    <3>3. CASE \E w \in Workers : RenameLegacy(w)
      BY <1>2, <2>1, <3>3 DEF RenameLegacy, RenamingAfterImport, LegacyNeverLost
    <3>4. QED
      BY <3>1, <3>2, <3>3
  <2>4. QED
    BY <2>2, <2>3
<1>3. QED
  BY <1>1, <1>2, TypeCorrect, PTL DEF Spec

\* Everything the runs check of one state of the queue, for every number of
\* tasks, processes and attempts.
THEOREM QueueCorrect == Spec => []QueueInv
BY TypeCorrect, OwnershipCorrect, AttemptsCorrect, FailuresCorrect, LegacyCorrect, PTL
   DEF QueueInv

-----------------------------------------------------------------------------
(* The order of first attempts *)

\* A batch that was never tried is waiting and due: a back-off and a lease only
\* come with an attempt.
UntriedIsDue ==
  \A t \in Tasks \ LegacyTasks :
    InTable(t) /\ rows[t].attempts = 0 => rows[t].state = "queued" /\ rows[t].retry = 0

LEMMA UntriedStaysDue ==
  ASSUME TypeOK, OwnedWhileProcessing, UntriedIsDue, [Next]_vars
  PROVE  UntriedIsDue'
<1> SUFFICES ASSUME NEW t \in Tasks \ LegacyTasks, InTable(t)', rows'[t].attempts = 0
             PROVE  rows'[t].state = "queued" /\ rows'[t].retry = 0
  BY DEF UntriedIsDue
<1>1. /\ RowStep(t) /\ rows[t] \in Row
      /\ rows[t].owner # NoWorker <=> rows[t].state = "processing"
      /\ InTable(t) /\ rows[t].attempts = 0 => rows[t].state = "queued" /\ rows[t].retry = 0
  BY EveryStepIsRowStep DEF TypeOK, OwnedWhileProcessing, UntriedIsDue
<1>2. CASE rows'[t] = rows[t]
  BY <1>1, <1>2 DEF InTable
<1>3. CASE Aged(t)
  BY <1>1, <1>3 DEF Aged, Older, Less, InTable
<1>4. CASE Accepted(t)
  BY <1>4 DEF Accepted, Unowned
<1>5. CASE Claimed(t)
  BY <1>1, <1>5 DEF Claimed, Attempt, Row
<1>6. CASE Renewed(t)
  BY <1>1, <1>6 DEF Renewed, Row, InTable
<1>7. CASE Reclaim(t) \/ Erred(t) \/ Finished(t)
  <2>1. rows[t].state = "processing"
    BY <1>1, <1>7 DEF Reclaim, Expired, Erred, Finished, OwnVerdict
  <2>2. rows'[t].attempts = rows[t].attempts
    BY <1>7 DEF Reclaim, Erred, Finished, AfterLostAttempt, Released, Unowned
  <2>3. QED
    BY <1>1, <2>1, <2>2 DEF InTable
<1>8. QED
  BY <1>1, <1>2, <1>3, <1>4, <1>5, <1>6, <1>7 DEF RowStep, Imported

\* What every step but an enqueue and a claim leaves alone of a row.
KeepsTurn(t) ==
  /\ rows'[t].attempts = rows[t].attempts /\ rows'[t].born = rows[t].born
  /\ InTable(t)' => InTable(t)

LEMMA ReclaimKeepsTurn ==
  ASSUME NEW t \in Tasks
  PROVE  /\ Reclaimed[t].attempts = rows[t].attempts /\ Reclaimed[t].born = rows[t].born
         /\ Reclaimed[t].state # "absent" => InTable(t)
BY DEF Reclaimed, Expired, AfterLostAttempt, Released, Unowned, InTable

LEMMA OtherStepsKeepTurns ==
  ASSUME TypeOK, OwnedWhileProcessing, NEW t \in Tasks \ LegacyTasks, [Next]_vars,
         ~ \E u \in Tasks : EnqueueBatch(u), ~ \E w \in Workers : ClaimNextTask(w)
  PROVE  KeepsTurn(t)
<1>1. /\ rows \in [Tasks -> Row] /\ rows[t] \in Row
      /\ rows[t].owner # NoWorker <=> rows[t].state = "processing"
  BY DEF TypeOK, OwnedWhileProcessing
<1>2. CASE UNCHANGED rows
  BY <1>2 DEF KeepsTurn, InTable
<1>3. CASE rows' = Reclaimed
  BY <1>3, ReclaimKeepsTurn DEF KeepsTurn, InTable
<1>4. CASE Tick
  BY <1>4 DEF Tick, Older, KeepsTurn, InTable
<1>5. ASSUME NEW w \in Workers, MigrateLegacy(w) PROVE KeepsTurn(t)
  BY <1>5 DEF MigrateLegacy, KeepsTurn, InTable
<1>6. ASSUME NEW w \in Workers, RenewLease(w) PROVE KeepsTurn(t)
  BY <1>1, <1>6 DEF RenewLease, KeepsTurn, InTable, Row
<1>7. ASSUME NEW w \in Workers, MarkDone(w) PROVE KeepsTurn(t)
  BY <1>1, <1>7 DEF MarkDone, Released, Unowned, KeepsTurn, InTable
<1>8. ASSUME NEW w \in Workers, MarkFailedOrRequeue(w) PROVE KeepsTurn(t)
  BY <1>1, <1>8 DEF MarkFailedOrRequeue, AfterLostAttempt, Released, Unowned, KeepsTurn, InTable
<1>9. ASSUME NEW w \in Workers, WorkerStep(w) PROVE KeepsTurn(t)
  BY <1>2, <1>3, <1>5, <1>6, <1>7, <1>8, <1>9
     DEF WorkerStep, Startup, Verdict, Start, MigrateLegacyConflict, RenameLegacy,
         FinishOpen, ClaimNothing, FinishWork, MarkLost, Crash
<1>10. QED
  BY <1>2, <1>3, <1>4, <1>9 DEF Next, vars, GetTaskStatus

\* A new batch is untried and stamped no earlier than any row; no other row changes.
LEMMA EnqueuedIsYoungest ==
  ASSUME TypeOK, NEW v \in Tasks, EnqueueBatch(v), NEW u \in Tasks
  PROVE  /\ rows'[v].attempts = 0
         /\ u # v => rows'[u] = rows[u] /\ rows[u].born <= rows'[v].born
<1>1. PICK last \in Births :
        /\ \A b \in Births : b <= last
        /\ \E born \in {last, last + 1} : rows' = [rows EXCEPT ![v] = Unowned("queued", 0, 0, born)]
  BY DEF EnqueueBatch
<1>2. PICK born \in {last, last + 1} : rows' = [rows EXCEPT ![v] = Unowned("queued", 0, 0, born)]
  BY <1>1
<1>3. last \in Nat /\ rows[u].born \in Nat /\ rows[u].born \in Births
  BY DEF TypeOK, Births, Row
<1>4. rows[u].born <= born
  BY <1>1, <1>2, <1>3
<1>5. rows'[v] = Unowned("queued", 0, 0, born) /\ (u # v => rows'[u] = rows[u])
  BY <1>2 DEF TypeOK
<1>6. QED
  BY <1>4, <1>5 DEF Unowned

\* Batches get their first attempt in the order they were accepted: the oldest
\* due row is claimed, and one that was never tried is always due.
THEOREM OrderCorrect == Spec => []FirstAttemptsInOrder
<1>1. Init => UntriedIsDue /\ FirstAttemptsInOrder
  BY DEF Init, Absent, Unowned, InTable, UntriedIsDue, FirstAttemptsInOrder
<1>2. ASSUME TypeOK, OwnedWhileProcessing, UntriedIsDue, FirstAttemptsInOrder, [Next]_vars
      PROVE  FirstAttemptsInOrder'
  <2> SUFFICES ASSUME NEW t \in Tasks \ LegacyTasks, NEW u \in Tasks \ LegacyTasks,
                      InTable(t)', rows'[t].born < rows'[u].born, rows'[u].attempts > 0
               PROVE  rows'[t].attempts > 0
    BY DEF FirstAttemptsInOrder
  <2>1. /\ rows[t] \in Row /\ rows[u] \in Row
        /\ (InTable(t) /\ rows[t].born < rows[u].born /\ rows[u].attempts > 0)
              => rows[t].attempts > 0
    BY <1>2 DEF TypeOK, FirstAttemptsInOrder
  <2>2. ASSUME NEW v \in Tasks, EnqueueBatch(v) PROVE rows'[t].attempts > 0
    <3>1. u # v
      BY <1>2, <2>2, EnqueuedIsYoungest
    <3>2. rows'[u] = rows[u]
      BY <1>2, <2>2, <3>1, EnqueuedIsYoungest
    <3>3. CASE t = v
      <4>1. rows[u].born <= rows'[t].born
        BY <1>2, <2>2, <3>1, <3>3, EnqueuedIsYoungest
      <4>2. rows'[t] \in Row
        BY <1>2, <2>1, EveryStepIsRowStep, RowStepType
      <4>3. QED
        BY <2>1, <3>2, <4>1, <4>2 DEF Row
    <3>4. CASE t # v
      <4>1. rows'[t] = rows[t]
        BY <1>2, <2>2, <3>4, EnqueuedIsYoungest
      <4>2. QED
        BY <2>1, <3>2, <4>1 DEF InTable
    <3>5. QED
      BY <3>3, <3>4
  <2>3. ASSUME NEW w \in Workers, ClaimNextTask(w) PROVE rows'[t].attempts > 0
    <3>1. PICK v \in Oldest(Reclaimed) : rows' = [Reclaimed EXCEPT ![v] = Attempt(@, w)]
      BY <2>3 DEF ClaimNextTask
    <3>2. v \in Tasks /\ v \in Claimable(Reclaimed) /\ Reclaimed[v] = rows[v] /\ rows[v] \in Row
      BY <1>2, <3>1, ClaimableUntouched DEF Oldest, TypeOK
    <3>3. \A x \in Tasks : x # v => rows'[x] = Reclaimed[x]
      BY <3>1 DEF Reclaimed
    <3>4. rows'[v] = Attempt(rows[v], w)
      BY <3>1, <3>2 DEF Reclaimed
    <3>5. CASE t = v
      BY <3>2, <3>4, <3>5 DEF Attempt, Row
    <3>6. CASE t # v
      <4>1. /\ rows'[t].attempts = rows[t].attempts /\ rows'[t].born = rows[t].born
            /\ InTable(t)
        BY <3>3, <3>6, ReclaimKeepsTurn DEF InTable
      <4>2. CASE u # v
        <5>1. rows'[u].attempts = rows[u].attempts /\ rows'[u].born = rows[u].born
          BY <3>3, <4>2, ReclaimKeepsTurn
        <5>2. QED
          BY <2>1, <4>1, <5>1
      <4>3. CASE u = v
        <5>1. rows'[u].born = rows[u].born
          BY <3>4, <4>3 DEF Attempt
        <5>2. SUFFICES ASSUME rows[t].attempts = 0 PROVE FALSE
          BY <2>1, <4>1 DEF Row
        <5>3. rows[t].state = "queued" /\ rows[t].retry = 0
          BY <1>2, <4>1, <5>2 DEF UntriedIsDue
        <5>4. Reclaimed[t] = rows[t] /\ t \in Claimable(Reclaimed)
          BY <5>3 DEF Reclaimed, Expired, Claimable
        <5>5. Reclaimed[u].born <= Reclaimed[t].born
          BY <3>1, <4>3, <5>4 DEF Oldest
        <5>6. QED
          BY <2>1, <3>2, <4>1, <4>3, <5>1, <5>4, <5>5 DEF Row
      <4>4. QED
        BY <4>2, <4>3
    <3>7. QED
      BY <3>5, <3>6
  <2>4. CASE ~(\E v \in Tasks : EnqueueBatch(v)) /\ ~(\E w \in Workers : ClaimNextTask(w))
    <3>1. KeepsTurn(t) /\ KeepsTurn(u)
      BY <1>2, <2>4, OtherStepsKeepTurns
    <3>2. QED
      BY <2>1, <3>1 DEF KeepsTurn
  <2>5. QED
    BY <2>2, <2>3, <2>4
<1>3. QED
  BY <1>1, <1>2, UntriedStaysDue, TypeCorrect, OwnershipCorrect, PTL DEF Spec

-----------------------------------------------------------------------------
(* Refinement *)

\* The queue implements what a polling client is promised, TaskLifecycle: each
\* transaction moves each task by at most one of its moves.
THEOREM LifecycleImplemented == Spec => ImplementsLifecycle
<1>1. Init => Lifecycle!Init
  BY DEF Init, Lifecycle!Init, Absent, Unowned
<1>2. ASSUME TypeOK, OwnedWhileProcessing, AttemptsWithinBudget, [Next]_vars
      PROVE  Lifecycle!Next
  <2> SUFFICES ASSUME NEW t \in Tasks
               PROVE  Lifecycle!Move(t) \/ Lifecycle!Stay(t)
    BY DEF Lifecycle!Next
  <2>1. /\ rows[t] \in Row
        /\ rows[t].owner # NoWorker <=> rows[t].state = "processing"
        /\ rows[t].state = "queued" => rows[t].attempts < MostAttempts(t)
    BY <1>2 DEF TypeOK, OwnedWhileProcessing, AttemptsWithinBudget
  <2>2. RowStep(t)
    BY <1>2, EveryStepIsRowStep
  <2>3. CASE Aged(t) \/ Renewed(t) \/ rows'[t] = rows[t]
    <3>1. rows'[t].state = rows[t].state /\ rows'[t].attempts = rows[t].attempts
      BY <2>1, <2>3 DEF Aged, Older, Renewed, Row
    <3>2. QED
      BY <3>1 DEF Lifecycle!Stay
  <2>4. CASE Accepted(t)
    BY <2>4 DEF Accepted, Unowned, InTable, Lifecycle!Move, Lifecycle!Accept
  <2>5. CASE Imported(t)
    <3>1. rows[t].state = "absent" /\ rows'[t] = NormalizeLegacyTask(t)
      BY <2>5 DEF Imported, InTable
    <3>2. rows'[t].state \in {"queued", "done", "failed"}
      BY <2>5, <3>1, LegacyAssumption
         DEF Imported, NormalizeLegacyTask, Unowned, LegacyRecord
    <3>3. rows'[t].attempts <= MostAttempts(t)
      BY <2>5, <3>1, ImportFitsBudget DEF Imported
    <3>4. QED
      BY <3>1, <3>2, <3>3 DEF Lifecycle!Move, Lifecycle!Import
  <2>6. CASE Claimed(t)
    <3>1. /\ rows[t].state = "queued" /\ rows'[t].state = "processing"
          /\ rows'[t].attempts = rows[t].attempts + 1
      BY <2>6 DEF Claimed, Attempt
    <3>2. QED
      BY <2>1, <3>1 DEF Lifecycle!Move, Lifecycle!Begin
  <2>7. CASE Reclaim(t) \/ Erred(t)
    <3>1. rows[t].state = "processing"
      BY <1>2, <2>1, <2>7, ParameterAssumption
         DEF Reclaim, Expired, Erred, OwnVerdict
    <3>2. /\ rows'[t].attempts = rows[t].attempts
          /\ \/ rows'[t].state = "failed" /\ rows[t].attempts >= Budget(t)
             \/ rows'[t].state = "queued" /\ ~(rows[t].attempts >= Budget(t))
      BY <2>7 DEF Reclaim, Erred, AfterLostAttempt, Released, Unowned
    <3>3. Budget(t) \in Nat /\ rows[t].attempts \in Nat
      BY <2>1, BudgetPositive DEF Row
    <3>4. QED
      BY <3>1, <3>2, <3>3 DEF Lifecycle!Move, Lifecycle!GiveBack, Lifecycle!GiveUp
  <2>8. CASE Finished(t)
    <3>1. rows[t].state = "processing"
      BY <2>1, <2>8, ParameterAssumption DEF Finished, OwnVerdict
    <3>2. rows'[t].state = "done" /\ rows'[t].attempts = rows[t].attempts
      BY <2>8 DEF Finished, Released, Unowned
    <3>3. QED
      BY <3>1, <3>2 DEF Lifecycle!Move, Lifecycle!Succeed
  <2>9. QED
    BY <2>2, <2>3, <2>4, <2>5, <2>6, <2>7, <2>8 DEF RowStep
<1>3. QED
  BY <1>1, <1>2, TypeCorrect, OwnershipCorrect, AttemptsCorrect, PTL
     DEF Spec, ImplementsLifecycle, Lifecycle!Spec
=============================================================================
