------------------------- MODULE IngestServerProofs -------------------------
(* Proofs about IngestServer, for every value of its constants: any number   *)
(* of tasks, documents, processes, direct calls and attempts, with or        *)
(* without a legacy queue.  The queue's own theorems are those of            *)
(* IngestQueueProofs, whose state and steps the server extends.              *)
EXTENDS IngestServer, IngestQueueProofs, FiniteSetTheorems

USE ParameterAssumption, ServerAssumption

-----------------------------------------------------------------------------
(* The inductive invariant *)

\* A worker that works, or whose verdict is not written yet, holds a task.
BusyHoldsTask ==
  \A w \in Workers :
    worker[w].pc \in {"working", "succeeded", "errored"} => worker[w].task \in Tasks

\* An import under way was found in a file that is or was there.
ImportHasFile ==
  \A w \in Workers : worker[w].pc \in {"migrating", "renaming"} => json # "none"

\* Between its two writes, a batch or a direct ingest is in Lance already.
FirstHalfWritten ==
  /\ \A w \in added :
       worker[w].pc = "working" /\ \A d \in Batch[worker[w].task] \ deleted : vector[d] > 0
  /\ \A c \in Calls :
       call[c].at = "ingesting" /\ call[c].doc \notin deleted => vector[call[c].doc] > 0

\* A delete is on record before either store is written.
DeletingIsOnRecord == \A c \in Calls : call[c].at = "deleting" => call[c].doc \in deleted

\* Work that succeeded is searchable before mark_done says so.
SucceededIsSearchable ==
  \A w \in Workers : worker[w].pc = "succeeded" =>
    \A d \in Batch[worker[w].task] \ deleted : vector[d] > 0 /\ d \in fts

\* Nothing will bring back what is gone, or what an undisturbed delete is
\* about to remove from Tantivy.
NothingBringsBack ==
  /\ \A d \in gone : ~Pending(d)
  /\ \A c \in Calls, d \in Docs :
       call[c].at = "deleting" /\ call[c].undisturbed /\ d = call[c].doc =>
         vector[d] = 0 /\ ~Pending(d)

\* An attempt that is still to add its batch has a copy to its credit.
Unwritten(d) ==
  {w \in Workers : worker[w].pc = "working" /\ w \notin added /\ d \in Batch[worker[w].task]}

\* No row has been tried before it is in the table.
AbsentIsUntried == \A t \in Tasks : rows[t].state = "absent" => rows[t].attempts = 0

CopiesAndCredits ==
  \A d \in Docs :
    vector[d] + Cardinality(Unwritten(d))
      <= Cardinality(AttemptsSpent(d)) + Cardinality(ContributingCalls(d))

-----------------------------------------------------------------------------
(* The queue inside the server *)

\* Every step of the server is a step of its queue, or leaves the queue alone.
LEMMA ServerStepIsQueueStep ==
  ASSUME [ServerNext]_server
  PROVE  [Next]_vars
<1>1. CASE QueueStep
  BY <1>1 DEF QueueStep, Next, WorkerStep
<1>2. ASSUME NEW w \in Workers, WorkVectorAdd(w) PROVE UNCHANGED vars
  BY <1>2 DEF WorkVectorAdd
<1>3. ASSUME NEW w \in Workers, WorkFtsAdd(w) \/ WorkFails(w) PROVE Next
  BY <1>3 DEF WorkFtsAdd, WorkFails, Next, WorkerStep
<1>4. ASSUME NEW w \in Workers, ServerCrash(w) PROVE Next
  BY <1>4 DEF ServerCrash, Next, WorkerStep
<1>5. ASSUME NEW t \in Tasks, PostBatch(t) PROVE Next
  BY <1>5 DEF PostBatch, Next
<1>6. ASSUME NEW c \in Calls,
             \/ \E w \in Workers : PostIngest(c, w) \/ DeleteDoc(c, w)
             \/ FinishIngest(c) \/ FinishDelete(c) \/ CallFails(c)
      PROVE  UNCHANGED vars
  BY <1>6 DEF PostIngest, DeleteDoc, FinishIngest, FinishDelete, CallFails
<1>7. QED
  BY <1>1, <1>2, <1>3, <1>4, <1>5, <1>6 DEF ServerNext, server, vars

\* The server runs the queue as it is: its worker's work, its crashes and its
\* handlers are among the queue's own steps.
THEOREM ServerRunsTheQueue == ServerSpec => Spec
<1>1. ServerInit => Init
  BY DEF ServerInit
<1>2. [ServerNext]_server => [Next]_vars
  BY ServerStepIsQueueStep
<1>3. QED
  BY <1>1, <1>2, PTL DEF ServerSpec, Spec

LEMMA AddedType ==
  ASSUME added \subseteq Workers, [ServerNext]_server
  PROVE  added' \subseteq Workers
<1>1. ASSUME NEW w \in Workers,
             WorkVectorAdd(w) \/ WorkFtsAdd(w) \/ WorkFails(w) \/ ServerCrash(w)
      PROVE  added' \subseteq Workers
  BY <1>1 DEF WorkVectorAdd, WorkFtsAdd, WorkFails, ServerCrash
<1>2. QED
  BY <1>1 DEF ServerNext, QueueStep, PostBatch, PostIngest, FinishIngest, DeleteDoc,
              FinishDelete, CallFails, server

LEMMA DisturbedType ==
  ASSUME NEW docs, NEW calls \in [Calls -> CallState]
  PROVE  Disturbed(docs, calls) \in [Calls -> CallState]
<1>1. ASSUME NEW c \in Calls PROVE [calls[c] EXCEPT !.undisturbed = FALSE] \in CallState
  <2>1. PICK k \in CallState : k = calls[c]
    OBVIOUS
  <2>2. [k EXCEPT !.undisturbed = FALSE] \in CallState
    BY DEF CallState
  <2>3. QED
    BY <2>1, <2>2
<1>2. QED
  BY <1>1 DEF Disturbed

LEMMA AdvanceType ==
  ASSUME call \in [Calls -> CallState], NEW c \in Calls,
         NEW at \in {"new", "ingesting", "deleting", "over"},
         NEW w \in Workers \cup {NoWorker}, NEW u \in BOOLEAN
  PROVE  Advance(c, at, w, u) \in [Calls -> CallState]
<1>1. PICK k \in CallState : k = call[c]
  OBVIOUS
<1>2. [k EXCEPT !.at = at, !.process = w, !.undisturbed = u] \in CallState
  BY DEF CallState
<1>3. QED
  BY <1>1, <1>2 DEF Advance

LEMMA CallType ==
  ASSUME call \in [Calls -> CallState], [ServerNext]_server
  PROVE  call' \in [Calls -> CallState]
<1>1. ASSUME NEW w \in Workers, ServerCrash(w) PROVE call' \in [Calls -> CallState]
  <2>1. ASSUME NEW c \in Calls PROVE [call[c] EXCEPT !.at = "over"] \in CallState
    <3>1. PICK k \in CallState : k = call[c]
      OBVIOUS
    <3>2. [k EXCEPT !.at = "over"] \in CallState
      BY DEF CallState
    <3>3. QED
      BY <3>1, <3>2
  <2>2. QED
    BY <1>1, <2>1 DEF ServerCrash
<1>2. ASSUME NEW t \in Tasks, PostBatch(t) PROVE call' \in [Calls -> CallState]
  BY <1>2, DisturbedType DEF PostBatch
<1>3. ASSUME NEW c \in Calls, NEW w \in Workers, PostIngest(c, w)
      PROVE  call' \in [Calls -> CallState]
  BY <1>3, AdvanceType, DisturbedType DEF PostIngest
<1>4. ASSUME NEW c \in Calls, NEW w \in Workers, DeleteDoc(c, w)
      PROVE  call' \in [Calls -> CallState]
  BY <1>4, AdvanceType DEF DeleteDoc, Pending
<1>5. ASSUME NEW c \in Calls, FinishIngest(c) \/ FinishDelete(c) \/ CallFails(c)
      PROVE  call' \in [Calls -> CallState]
  <2>1. call[c].process \in Workers \cup {NoWorker}
    BY DEF CallState
  <2>2. call' = Advance(c, "over", call[c].process, FALSE)
    BY <1>5 DEF FinishIngest, FinishDelete, CallFails
  <2>3. QED
    BY <2>1, <2>2, AdvanceType
<1>6. QED
  BY <1>1, <1>2, <1>3, <1>4, <1>5
     DEF ServerNext, QueueStep, WorkVectorAdd, WorkFtsAdd, WorkFails, server

\* What one step does to the Lance table: nothing, one batch of appends, or one
\* delete, which the history records.
Appends(docs) == VectorAdd(docs) /\ UNCHANGED deleted
Removes(d) == VectorDelete(d) /\ deleted' = deleted \cup {d}
VectorStep ==
  \/ UNCHANGED <<vector, deleted>>
  \/ \E docs \in SUBSET Docs : Appends(docs)
  \/ \E d \in Docs : Removes(d)

LEMMA EveryStepIsVectorStep ==
  ASSUME ServerTypeOK, BusyHoldsTask, [ServerNext]_server
  PROVE  VectorStep
<1>1. ASSUME NEW w \in Workers, WorkVectorAdd(w) PROVE VectorStep
  <2>1. Batch[worker[w].task] \in SUBSET Docs
    BY <1>1 DEF BusyHoldsTask, WorkVectorAdd
  <2>2. QED
    BY <1>1, <2>1 DEF WorkVectorAdd, VectorStep, Appends, historyVars
<1>2. ASSUME NEW c \in Calls, NEW w \in Workers, PostIngest(c, w) PROVE VectorStep
  <2>1. {call[c].doc} \in SUBSET Docs
    BY DEF ServerTypeOK, CallState
  <2>2. QED
    BY <1>2, <2>1 DEF PostIngest, VectorStep, Appends
<1>3. ASSUME NEW c \in Calls, NEW w \in Workers, DeleteDoc(c, w) PROVE VectorStep
  <2>1. call[c].doc \in Docs
    BY DEF ServerTypeOK, CallState
  <2>2. QED
    BY <1>3, <2>1 DEF DeleteDoc, VectorStep, Removes
<1>4. QED
  BY <1>1, <1>2, <1>3
     DEF ServerNext, QueueStep, WorkFtsAdd, WorkFails, ServerCrash, PostBatch, FinishIngest,
         FinishDelete, CallFails, FtsAdd, FtsDelete, server, historyVars, VectorStep

\* What one step does to the Tantivy index: nothing, the second half of a
\* worker's batch or of a direct ingest, or that of a delete.
FtsStep ==
  \/ UNCHANGED fts
  \/ \E w \in added : worker[w].pc = "working" /\ fts' = fts \cup Batch[worker[w].task]
  \/ \E c \in Calls : call[c].at = "ingesting" /\ fts' = fts \cup {call[c].doc}
  \/ \E c \in Calls : call[c].at = "deleting" /\ fts' = fts \ {call[c].doc}

LEMMA EveryStepIsFtsStep ==
  ASSUME [ServerNext]_server
  PROVE  FtsStep
BY DEF ServerNext, FinishWork, QueueStep, WorkVectorAdd, WorkFtsAdd, WorkFails, ServerCrash, PostBatch,
       PostIngest, FinishIngest, DeleteDoc, FinishDelete, CallFails, VectorAdd, VectorDelete,
       FtsAdd, FtsDelete, server, FtsStep

\* What one step does to a direct call.
CallStays(c) ==
  /\ call'[c].at = call[c].at /\ call'[c].doc = call[c].doc
  /\ call'[c].undisturbed => call[c].undisturbed
CallEnds(c) == call'[c].at = "over" /\ call'[c].doc = call[c].doc
CallPosts(c) ==
  /\ \E w \in Workers : PostIngest(c, w)
  /\ call'[c].at = "ingesting" /\ call'[c].doc = call[c].doc
CallDeletes(c) ==
  /\ \E w \in Workers : DeleteDoc(c, w)
  /\ call'[c].at = "deleting" /\ call'[c].doc = call[c].doc
  /\ call'[c].undisturbed <=> ~Pending(call[c].doc)
CallStep(c) == CallStays(c) \/ CallEnds(c) \/ CallPosts(c) \/ CallDeletes(c)

LEMMA DisturbedKeeps ==
  ASSUME NEW calls \in [Calls -> CallState], NEW docs, NEW c \in Calls
  PROVE  /\ Disturbed(docs, calls)[c].at = calls[c].at
         /\ Disturbed(docs, calls)[c].doc = calls[c].doc
         /\ Disturbed(docs, calls)[c].undisturbed
              => calls[c].undisturbed /\ calls[c].doc \notin docs
<1>1. PICK k \in CallState : k = calls[c]
  OBVIOUS
<1> DEFINE j == [k EXCEPT !.undisturbed = FALSE]
<1>2. j.at = k.at /\ j.doc = k.doc /\ ~j.undisturbed
  BY DEF CallState
<1>3. Disturbed(docs, calls)[c] = IF k.doc \in docs THEN j ELSE k
  BY <1>1 DEF Disturbed
<1> HIDE DEF j
<1>4. QED
  BY <1>1, <1>2, <1>3

LEMMA PostIngestMoves ==
  ASSUME call \in [Calls -> CallState], NEW c \in Calls, NEW w \in Workers, PostIngest(c, w),
         NEW b \in Calls
  PROVE  /\ b = c => call'[b].at = "ingesting"
         /\ b # c => call'[b].at = call[b].at
         /\ b # c /\ call'[b].undisturbed => call[b].undisturbed
         /\ call'[b].doc = call[b].doc
<1> DEFINE calls == Advance(c, "ingesting", w, FALSE)
<1>1. calls \in [Calls -> CallState]
  BY AdvanceType
<1>2. call' = Disturbed({call[c].doc}, calls)
  BY DEF PostIngest
<1>3. /\ calls[b].doc = call[b].doc
      /\ b # c => calls[b] = call[b]
      /\ calls[c].at = "ingesting"
  <2>1. PICK k \in CallState : k = call[c]
    OBVIOUS
  <2> DEFINE j == [k EXCEPT !.at = "ingesting", !.process = w, !.undisturbed = FALSE]
  <2>2. j.at = "ingesting" /\ j.doc = k.doc
    BY DEF CallState
  <2>3. calls[c] = j /\ (b # c => calls[b] = call[b])
    BY <2>1 DEF Advance
  <2> HIDE DEF j, calls
  <2>4. QED
    BY <2>1, <2>2, <2>3
<1> HIDE DEF calls
<1>4. /\ call'[b].at = calls[b].at /\ call'[b].doc = calls[b].doc
      /\ call'[b].undisturbed => calls[b].undisturbed
  BY <1>1, <1>2, DisturbedKeeps
<1>5. QED
  BY <1>3, <1>4

LEMMA EveryStepIsCallStep ==
  ASSUME call \in [Calls -> CallState], [ServerNext]_server
  PROVE  \A c \in Calls : CallStep(c)
<1> SUFFICES ASSUME NEW b \in Calls PROVE CallStep(b)
  OBVIOUS
<1>1. CASE UNCHANGED call
  BY <1>1 DEF CallStep, CallStays
<1>2. ASSUME NEW w \in Workers, ServerCrash(w) PROVE CallStep(b)
  <2>1. PICK k \in CallState : k = call[b]
    OBVIOUS
  <2>2. [k EXCEPT !.at = "over"].at = "over" /\ [k EXCEPT !.at = "over"].doc = k.doc
    BY DEF CallState
  <2>3. CASE call[b].process = w /\ call[b].at # "over"
    <3>1. call'[b] = [k EXCEPT !.at = "over"]
      BY <1>2, <2>1, <2>3 DEF ServerCrash
    <3>2. QED
      BY <2>1, <2>2, <3>1 DEF CallStep, CallEnds
  <2>4. CASE ~(call[b].process = w /\ call[b].at # "over")
    <3>1. call'[b] = call[b]
      BY <1>2, <2>4 DEF ServerCrash
    <3>2. QED
      BY <3>1 DEF CallStep, CallStays
  <2>5. QED
    BY <2>3, <2>4
<1>3. ASSUME NEW t \in Tasks, PostBatch(t) PROVE CallStep(b)
  <2>1. call' = Disturbed(Batch[t], call)
    BY <1>3 DEF PostBatch
  <2>2. QED
    BY <2>1, DisturbedKeeps DEF CallStep, CallStays
<1>4. ASSUME NEW c \in Calls, NEW w \in Workers, PostIngest(c, w) PROVE CallStep(b)
  BY <1>4, PostIngestMoves DEF CallStep, CallStays, CallPosts
<1>5. ASSUME NEW c \in Calls, NEW w \in Workers, DeleteDoc(c, w) PROVE CallStep(b)
  <2>1. call' = Advance(c, "deleting", w, ~Pending(call[c].doc))
    BY <1>5 DEF DeleteDoc
  <2>2. /\ call'[b].doc = call[b].doc
        /\ b # c => call'[b] = call[b]
        /\ call'[c].at = "deleting"
        /\ call'[c].undisturbed <=> ~Pending(call[c].doc)
    <3>1. PICK k \in CallState : k = call[c]
      OBVIOUS
    <3>2. PICK u \in BOOLEAN : u <=> ~Pending(call[c].doc)
      OBVIOUS
    <3> DEFINE j == [k EXCEPT !.at = "deleting", !.process = w, !.undisturbed = u]
    <3>3. j.at = "deleting" /\ j.doc = k.doc /\ (j.undisturbed <=> u)
      BY DEF CallState
    <3>4. call' = [call EXCEPT ![c] = j]
      BY <2>1, <3>1, <3>2 DEF Advance, Pending
    <3>5. call'[c] = j /\ (b # c => call'[b] = call[b])
      BY <3>4
    <3> HIDE DEF j
    <3>6. QED
      BY <3>1, <3>2, <3>3, <3>5
  <2>3. CASE b = c
    BY <1>5, <2>2, <2>3 DEF CallStep, CallDeletes
  <2>4. CASE b # c
    BY <2>2, <2>4 DEF CallStep, CallStays
  <2>5. QED
    BY <2>3, <2>4
<1>6. ASSUME NEW c \in Calls, FinishIngest(c) \/ FinishDelete(c) \/ CallFails(c)
      PROVE  CallStep(b)
  <2>1. call' = Advance(c, "over", call[c].process, FALSE)
    BY <1>6 DEF FinishIngest, FinishDelete, CallFails
  <2>2. /\ call'[b].doc = call[b].doc
        /\ b # c => call'[b] = call[b]
        /\ call'[c].at = "over"
    <3>1. PICK k \in CallState : k = call[c]
      OBVIOUS
    <3> DEFINE j == [k EXCEPT !.at = "over", !.process = k.process, !.undisturbed = FALSE]
    <3>2. j.at = "over" /\ j.doc = k.doc
      BY DEF CallState
    <3>3. call'[c] = j /\ (b # c => call'[b] = call[b])
      BY <2>1, <3>1 DEF Advance
    <3> HIDE DEF j
    <3>4. QED
      BY <3>1, <3>2, <3>3
  <2>3. QED
    BY <2>2 DEF CallStep, CallStays, CallEnds
<1>7. QED
  BY <1>1, <1>2, <1>3, <1>4, <1>5, <1>6
     DEF ServerNext, QueueStep, WorkVectorAdd, WorkFtsAdd, WorkFails, server

-----------------------------------------------------------------------------
(* Types *)

LEMMA DeletedGrows ==
  ASSUME VectorStep
  PROVE  deleted \subseteq deleted'
BY DEF VectorStep, Appends, Removes

LEMMA HistoryType ==
  ASSUME ServerTypeOK, DeletingIsOnRecord, [ServerNext]_server
  PROVE  deleted' \subseteq Docs /\ gone' \subseteq deleted'
<1>1. ASSUME NEW c \in Calls, FinishDelete(c)
      PROVE  deleted' \subseteq Docs /\ gone' \subseteq deleted'
  BY <1>1 DEF ServerTypeOK, DeletingIsOnRecord, FinishDelete
<1>2. ASSUME NEW c \in Calls, NEW w \in Workers, DeleteDoc(c, w)
      PROVE  deleted' \subseteq Docs /\ gone' \subseteq deleted'
  BY <1>2 DEF ServerTypeOK, CallState, DeleteDoc
<1>3. QED
  BY <1>1, <1>2
     DEF ServerTypeOK, ServerNext, QueueStep, WorkVectorAdd, WorkFtsAdd, WorkFails,
         ServerCrash, PostBatch, PostIngest, FinishIngest, CallFails, server, historyVars

LEMMA OnRecordKept ==
  ASSUME ServerTypeOK, BusyHoldsTask, DeletingIsOnRecord, [ServerNext]_server
  PROVE  DeletingIsOnRecord'
<1> SUFFICES ASSUME NEW c \in Calls, call'[c].at = "deleting"
             PROVE  call'[c].doc \in deleted'
  BY DEF DeletingIsOnRecord
<1>1. CallStep(c) /\ deleted \subseteq deleted'
  BY EveryStepIsCallStep, EveryStepIsVectorStep, DeletedGrows DEF ServerTypeOK
<1>2. CASE CallStays(c)
  BY <1>1, <1>2 DEF CallStays, DeletingIsOnRecord
<1>3. CASE CallDeletes(c)
  BY <1>3 DEF CallDeletes, DeleteDoc
<1>4. QED
  BY <1>1, <1>2, <1>3 DEF CallStep, CallEnds, CallPosts

LEMMA ServerTypeKept ==
  ASSUME ServerTypeOK, BusyHoldsTask, DeletingIsOnRecord, [ServerNext]_server
  PROVE  ServerTypeOK'
<1>1. added' \subseteq Workers /\ call' \in [Calls -> CallState]
  BY AddedType, CallType DEF ServerTypeOK
<1>2. vector' \in [Docs -> Nat]
  <2>1. vector \in [Docs -> Nat] /\ VectorStep
    BY EveryStepIsVectorStep DEF ServerTypeOK, StoreTypeOK
  <2>2. ASSUME NEW docs \in SUBSET Docs, Appends(docs) PROVE vector' \in [Docs -> Nat]
    BY <2>1, <2>2 DEF Appends, VectorAdd
  <2>3. ASSUME NEW d \in Docs, Removes(d) PROVE vector' \in [Docs -> Nat]
    BY <2>1, <2>3 DEF Removes, VectorDelete
  <2>4. QED
    BY <2>1, <2>2, <2>3 DEF VectorStep
<1>3. fts' \subseteq Docs
  <2>1. fts \subseteq Docs /\ FtsStep
    BY EveryStepIsFtsStep DEF ServerTypeOK, StoreTypeOK
  <2>2. ASSUME NEW w \in added, worker[w].pc = "working"
        PROVE  Batch[worker[w].task] \subseteq Docs
    BY <2>2 DEF BusyHoldsTask, ServerTypeOK
  <2>3. QED
    BY <2>1, <2>2 DEF FtsStep, ServerTypeOK, CallState
<1>4. QED
  BY <1>1, <1>2, <1>3, HistoryType DEF ServerTypeOK, StoreTypeOK

-----------------------------------------------------------------------------
(* What one step of the queue does to a worker *)

\* Nothing; a step outside its work (startup, a verdict, a crash); taking a
\* task; or the end of the work.
Rests(w) == worker'[w] = worker[w]
LetsGo(w) ==
  /\ worker'[w].task = NoTask
  /\ worker'[w].pc \notin {"working", "succeeded", "errored"}
Takes(w) ==
  \E t \in Tasks :
    /\ worker[w].pc = "idle" /\ worker'[w] = [pc |-> "working", task |-> t]
    /\ rows[t].state = "queued" /\ rows'[t] = Attempt(rows[t], w)
Returns(w) ==
  /\ worker[w].pc = "working"
  /\ \E verdict \in {"succeeded", "errored"} :
       FinishWork(w, verdict) /\ worker'[w] = [pc |-> verdict, task |-> worker[w].task]

LEMMA StartupMoves ==
  ASSUME TypeOK, NEW w \in Workers, Startup(w), NEW v \in Workers
  PROVE  /\ Rests(v) \/ LetsGo(v)
         /\ worker[v].pc = "working" => Rests(v)
<1>1. PICK pc : worker' = [worker EXCEPT ![w] = [pc |-> pc, task |-> NoTask]]
                  /\ pc \notin {"working", "succeeded", "errored"}
  BY DEF Startup, Start, MigrateLegacy, MigrateLegacyConflict, RenameLegacy, FinishOpen, GoTo
<1>2. worker[w].pc # "working"
  BY DEF Startup, Start, MigrateLegacy, MigrateLegacyConflict, RenameLegacy, FinishOpen
<1>3. QED
  BY <1>1, <1>2 DEF TypeOK, Rests, LetsGo

LEMMA VerdictMoves ==
  ASSUME TypeOK, NEW w \in Workers, Verdict(w), NEW v \in Workers
  PROVE  /\ Rests(v) \/ LetsGo(v)
         /\ worker[v].pc = "working" => Rests(v)
<1>1. /\ worker' = [worker EXCEPT ![w] = [pc |-> "idle", task |-> NoTask]]
      /\ worker[w].pc # "working"
  BY DEF Verdict, MarkDone, MarkFailedOrRequeue, MarkLost, GoTo
<1>2. QED
  BY <1>1 DEF TypeOK, Rests, LetsGo

LEMMA ClaimMoves ==
  ASSUME TypeOK, NEW w \in Workers, ClaimNextTask(w), NEW v \in Workers
  PROVE  Rests(v) \/ (v = w /\ Takes(v))
<1>1. PICK t \in Oldest(Reclaimed) :
        /\ rows' = [Reclaimed EXCEPT ![t] = Attempt(@, w)]
        /\ IF t \in Unreadable THEN UNCHANGED worker ELSE GoTo(w, "working", t)
  BY DEF ClaimNextTask
<1>2. t \in Claimable(Reclaimed)
  BY DEF Oldest
<1>3. t \in Tasks /\ Reclaimed[t] = rows[t] /\ rows[t].state = "queued"
  BY <1>2, ClaimableUntouched DEF Claimable
<1>4. rows'[t] = Attempt(rows[t], w)
  BY <1>1, <1>3 DEF Reclaimed
<1>5. CASE t \in Unreadable
  BY <1>1, <1>5 DEF Rests
<1>6. CASE t \notin Unreadable
  <2>1. worker' = [worker EXCEPT ![w] = [pc |-> "working", task |-> t]]
    BY <1>1, <1>6 DEF GoTo
  <2>2. CASE v = w
    <3>1. worker'[v] = [pc |-> "working", task |-> t] /\ worker[v].pc = "idle"
      BY <2>1, <2>2 DEF TypeOK, ClaimNextTask
    <3>2. QED
      BY <1>3, <1>4, <2>2, <3>1 DEF Takes
  <2>3. CASE v # w
    BY <2>1, <2>3 DEF TypeOK, Rests
  <2>4. QED
    BY <2>2, <2>3
<1>7. QED
  BY <1>5, <1>6

\* The steps the server takes from its queue as they are neither crash a worker
\* nor end its work.
LEMMA QueueStepMoves ==
  ASSUME TypeOK, QueueStep, NEW v \in Workers
  PROVE  /\ Rests(v) \/ LetsGo(v) \/ Takes(v)
         /\ worker[v].pc = "working" => Rests(v)
<1>1. ASSUME NEW w \in Workers, ClaimNextTask(w)
      PROVE  /\ Rests(v) \/ LetsGo(v) \/ Takes(v)
             /\ worker[v].pc = "working" => Rests(v)
  BY <1>1, ClaimMoves DEF Takes
<1>2. CASE UNCHANGED worker
  BY <1>2 DEF Rests
<1>3. QED
  BY <1>1, <1>2, StartupMoves, VerdictMoves
     DEF QueueStep, ClaimNothing, RenewLease, GetTaskStatus, Tick

LEMMA EveryStepMovesWorkers ==
  ASSUME TypeOK, [Next]_vars, NEW v \in Workers
  PROVE  Rests(v) \/ LetsGo(v) \/ Takes(v) \/ Returns(v)
<1>1. ASSUME NEW w \in Workers, Crash(w) PROVE Rests(v) \/ LetsGo(v)
  <2>1. worker' = [worker EXCEPT ![w] = [pc |-> "dead", task |-> NoTask]]
    BY <1>1 DEF Crash, GoTo
  <2>2. QED
    BY <2>1 DEF TypeOK, Rests, LetsGo
<1>2. ASSUME NEW w \in Workers, NEW verdict \in {"succeeded", "errored"},
             FinishWork(w, verdict)
      PROVE  Rests(v) \/ Returns(v)
  <2>1. worker' = [worker EXCEPT ![w] = [pc |-> verdict, task |-> worker[w].task]]
    BY <1>2 DEF FinishWork, GoTo
  <2>2. CASE v = w
    <3>1. worker'[v] = [pc |-> verdict, task |-> worker[v].task] /\ worker[v].pc = "working"
      BY <1>2, <2>1, <2>2 DEF TypeOK, FinishWork
    <3>2. QED
      BY <1>2, <2>2, <3>1 DEF Returns
  <2>3. CASE v # w
    BY <2>1, <2>3 DEF TypeOK, Rests
  <2>4. QED
    BY <2>2, <2>3
<1>3. CASE UNCHANGED worker
  BY <1>3 DEF Rests
<1>4. QED
  BY <1>1, <1>2, <1>3, StartupMoves, VerdictMoves, ClaimMoves
     DEF Next, WorkerStep, vars, ClaimNothing, RenewLease, GetTaskStatus, Tick, EnqueueBatch

LEMMA BusyHoldsTaskKept ==
  ASSUME TypeOK, BusyHoldsTask, [Next]_vars
  PROVE  BusyHoldsTask'
<1> SUFFICES ASSUME NEW w \in Workers, worker'[w].pc \in {"working", "succeeded", "errored"}
             PROVE  worker'[w].task \in Tasks
  BY DEF BusyHoldsTask
<1>1. CASE Rests(w)
  BY <1>1 DEF Rests, BusyHoldsTask
<1>2. CASE Takes(w)
  BY <1>2 DEF Takes
<1>3. CASE Returns(w)
  <2>1. worker'[w].task = worker[w].task
    BY <1>3 DEF Returns
  <2>2. QED
    BY <1>3, <2>1 DEF Returns, BusyHoldsTask
<1>4. QED
  BY <1>1, <1>2, <1>3, EveryStepMovesWorkers DEF LetsGo

LEMMA AbsentIsUntriedKept ==
  ASSUME TypeOK, AbsentIsUntried, [Next]_vars
  PROVE  AbsentIsUntried'
<1> SUFFICES ASSUME NEW t \in Tasks, rows'[t].state = "absent"
             PROVE  rows'[t].attempts = 0
  BY DEF AbsentIsUntried
<1>1. /\ RowStep(t) /\ rows[t] \in Row
      /\ rows[t].state = "absent" => rows[t].attempts = 0
  BY EveryStepIsRowStep DEF TypeOK, AbsentIsUntried
<1>2. ~InTable(t)
  BY RowsStayInTable DEF InTable
<1>3. CASE rows'[t] = rows[t] \/ Aged(t)
  BY <1>1, <1>2, <1>3 DEF Aged, Older, InTable
<1>4. CASE Renewed(t) \/ Claimed(t) \/ Reclaim(t)
  BY <1>2, <1>4 DEF Renewed, Claimed, Reclaim, Expired, InTable
<1>5. CASE Finished(t) \/ Erred(t)
  BY <1>5 DEF Finished, Erred, AfterLostAttempt, Released, Unowned
<1>6. CASE Accepted(t)
  BY <1>6 DEF Accepted, Unowned
<1>7. CASE Imported(t)
  BY <1>7, LegacyAssumption DEF Imported, NormalizeLegacyTask, Unowned, LegacyRecord
<1>8. QED
  BY <1>1, <1>3, <1>4, <1>5, <1>6, <1>7 DEF RowStep

\* The JSON file only ever goes from there to renamed, and an import starts from
\* a file that is there.
LEMMA ImportHasFileKept ==
  ASSUME TypeOK, ImportHasFile, [Next]_vars
  PROVE  ImportHasFile'
<1> SUFFICES ASSUME NEW w \in Workers, worker'[w].pc \in {"migrating", "renaming"}
             PROVE  json' # "none"
  BY DEF ImportHasFile
<1>1. json' = json \/ json' = "renamed"
  BY DEF Next, vars, WorkerStep, Startup, Verdict, Start, MigrateLegacy, RenameLegacy,
         MigrateLegacyConflict, FinishOpen, ClaimNextTask, ClaimNothing, RenewLease, FinishWork,
         MarkDone, MarkFailedOrRequeue, MarkLost, Crash, EnqueueBatch, GetTaskStatus, Tick
<1>2. CASE worker[w].pc \in {"migrating", "renaming"}
  BY <1>1, <1>2 DEF ImportHasFile
<1>3. CASE worker[w].pc = "new" /\ Start(w)
  BY <1>1, <1>3 DEF Start, GoTo, TypeOK
<1>4. CASE worker[w].pc \notin {"migrating", "renaming"} /\ ~Start(w)
  <2>1. worker'[w].pc # worker[w].pc
    BY <1>4
  <2>2. ASSUME NEW v \in Workers, NEW pc, NEW task,
               worker' = [worker EXCEPT ![v] = [pc |-> pc, task |-> task]]
        PROVE  v = w /\ pc \in {"migrating", "renaming"}
    BY <1>4, <2>2 DEF TypeOK
  <2>3. ASSUME NEW v \in Workers, WorkerStep(v) PROVE FALSE
    <3>1. CASE Startup(v)
      BY <1>4, <2>2, <3>1
         DEF Startup, Start, MigrateLegacy, RenameLegacy, MigrateLegacyConflict, FinishOpen, GoTo
    <3>2. CASE Verdict(v) \/ Crash(v)
      BY <2>2, <3>2 DEF Verdict, MarkDone, MarkFailedOrRequeue, MarkLost, Crash, GoTo
    <3>3. ASSUME NEW verdict \in {"succeeded", "errored"}, FinishWork(v, verdict) PROVE FALSE
      BY <2>2, <3>3 DEF FinishWork, GoTo
    <3>4. CASE ClaimNextTask(v)
      BY <2>1, <2>2, <3>4 DEF ClaimNextTask, GoTo
    <3>5. QED
      BY <2>1, <2>3, <3>1, <3>2, <3>3, <3>4 DEF WorkerStep, ClaimNothing, RenewLease
  <2>4. QED
    BY <2>1, <2>3 DEF Next, vars, EnqueueBatch, GetTaskStatus, Tick
<1>5. QED
  BY <1>2, <1>3, <1>4 DEF Start

-----------------------------------------------------------------------------
(* What is searchable stays searchable *)

LEMMA RowsAreKept ==
  ASSUME StoreTypeOK, VectorStep, NEW d \in Docs, d \notin deleted', vector[d] > 0
  PROVE  vector'[d] > 0
<1>1. ASSUME NEW docs \in SUBSET Docs, Appends(docs) PROVE vector'[d] > 0
  BY <1>1 DEF StoreTypeOK, Appends, VectorAdd
<1>2. ASSUME NEW e \in Docs, Removes(e) PROVE vector'[d] > 0
  BY <1>2 DEF StoreTypeOK, Removes, VectorDelete
<1>3. QED
  BY <1>1, <1>2 DEF VectorStep

LEMMA HitsAreKept ==
  ASSUME FtsStep, DeletingIsOnRecord, NEW d \in fts, d \notin deleted
  PROVE  d \in fts'
BY DEF FtsStep, DeletingIsOnRecord

\* A worker is between its two writes because it just wrote the first, or was so
\* before and did nothing.
LEMMA AddedMoves ==
  ASSUME TypeOK, added \subseteq Workers, FirstHalfWritten, [ServerNext]_server, NEW w \in added'
  PROVE  (w \in added /\ Rests(w)) \/ (w \in Workers /\ WorkVectorAdd(w))
<1>1. CASE QueueStep
  <2>1. w \in added /\ worker[w].pc = "working"
    BY <1>1 DEF QueueStep, FirstHalfWritten
  <2>2. QED
    BY <1>1, <2>1, QueueStepMoves
<1>2. ASSUME NEW v \in Workers, WorkVectorAdd(v)
      PROVE  (w \in added /\ Rests(w)) \/ (w \in Workers /\ WorkVectorAdd(w))
  <2>1. CASE w = v
    BY <1>2, <2>1
  <2>2. CASE w # v
    BY <1>2, <2>2 DEF WorkVectorAdd, vars, Rests
  <2>3. QED
    BY <2>1, <2>2
<1>3. ASSUME NEW v \in Workers, WorkFtsAdd(v) \/ WorkFails(v) \/ ServerCrash(v)
      PROVE  w \in added /\ Rests(w)
  <2>1. w \in added /\ w # v
    BY <1>3 DEF WorkFtsAdd, WorkFails, ServerCrash
  <2>2. QED
    BY <1>3, <2>1 DEF WorkFtsAdd, WorkFails, ServerCrash, FinishWork, Crash, GoTo, TypeOK, Rests
<1>4. CASE added' = added /\ worker' = worker
  BY <1>4 DEF Rests
<1>5. QED
  BY <1>1, <1>2, <1>3, <1>4
     DEF ServerNext, PostBatch, EnqueueBatch, PostIngest, FinishIngest, DeleteDoc, FinishDelete,
         CallFails, server, vars

LEMMA FirstHalfWrittenKept ==
  ASSUME TypeOK, ServerTypeOK, BusyHoldsTask, FirstHalfWritten, [ServerNext]_server
  PROVE  FirstHalfWritten'
<1>1. VectorStep /\ StoreTypeOK /\ added \subseteq Workers /\ deleted \subseteq deleted'
  BY EveryStepIsVectorStep, DeletedGrows DEF ServerTypeOK
<1>2. ASSUME NEW w \in added'
      PROVE  /\ worker'[w].pc = "working"
             /\ \A d \in Batch[worker'[w].task] \ deleted' : vector'[d] > 0
  <2>1. CASE w \in added /\ Rests(w)
    <3>1. worker[w].pc = "working" /\ worker[w].task \in Tasks
      BY <1>1, <2>1 DEF FirstHalfWritten, BusyHoldsTask
    <3>2. ASSUME NEW d \in Batch[worker[w].task], d \notin deleted' PROVE vector'[d] > 0
      <4>1. d \in Docs /\ vector[d] > 0
        BY <1>1, <2>1, <3>1, <3>2 DEF FirstHalfWritten
      <4>2. QED
        BY <1>1, <3>2, <4>1, RowsAreKept
    <3>3. QED
      BY <2>1, <3>1, <3>2 DEF Rests
  <2>2. CASE w \in Workers /\ WorkVectorAdd(w)
    <3>1. worker' = worker /\ worker[w].pc = "working" /\ worker[w].task \in Tasks
      BY <2>2 DEF WorkVectorAdd, vars, BusyHoldsTask
    <3>2. QED
      BY <1>1, <2>2, <3>1 DEF WorkVectorAdd, VectorAdd, StoreTypeOK
  <2>3. QED
    BY <1>1, <2>1, <2>2, AddedMoves
<1>3. ASSUME NEW c \in Calls, call'[c].at = "ingesting", call'[c].doc \notin deleted'
      PROVE  vector'[call'[c].doc] > 0
  <2>1. CallStep(c) /\ call[c].doc \in Docs
    BY EveryStepIsCallStep DEF ServerTypeOK, CallState
  <2>2. CASE CallStays(c)
    <3>1. call'[c].doc = call[c].doc /\ vector[call[c].doc] > 0
      BY <1>1, <1>3, <2>2 DEF CallStays, FirstHalfWritten
    <3>2. QED
      BY <1>1, <1>3, <2>1, <3>1, RowsAreKept
  <2>3. CASE CallPosts(c)
    <3>1. VectorAdd({call[c].doc}) /\ call'[c].doc = call[c].doc
      BY <2>3 DEF CallPosts, PostIngest
    <3>2. vector'[call[c].doc] > 0
      BY <1>1, <2>1, <3>1 DEF VectorAdd, StoreTypeOK
    <3>3. QED
      BY <3>1, <3>2
  <2>4. QED
    BY <1>3, <2>1, <2>2, <2>3 DEF CallStep, CallEnds, CallDeletes
<1>4. QED
  BY <1>2, <1>3 DEF FirstHalfWritten

\* Work is only called a success by writing its batch to Tantivy too.
LEMMA SucceedsByWork ==
  ASSUME TypeOK, [ServerNext]_server, NEW w \in Workers,
         worker'[w].pc = "succeeded", ~Rests(w)
  PROVE  WorkFtsAdd(w)
<1>1. Returns(w)
  <2>1. ~LetsGo(w)
    BY DEF LetsGo
  <2>2. ~Takes(w)
    <3> SUFFICES ASSUME Takes(w) PROVE FALSE
      OBVIOUS
    <3>1. worker'[w].pc = "working"
      BY DEF Takes
    <3>2. QED
      BY <3>1
  <2>3. QED
    BY <2>1, <2>2, ServerStepIsQueueStep, EveryStepMovesWorkers
<1>2. worker' # worker /\ worker[w].pc = "working"
  BY <1>1 DEF Rests, Returns
<1>3. CASE QueueStep
  BY <1>2, <1>3, QueueStepMoves
<1>4. ASSUME NEW v \in Workers, WorkFails(v) \/ ServerCrash(v) PROVE FALSE
  <2>1. PICK pc : worker' = [worker EXCEPT ![v] = [pc |-> pc, task |-> worker'[v].task]]
                  /\ pc # "succeeded"
    BY <1>4 DEF WorkFails, ServerCrash, FinishWork, Crash, GoTo, TypeOK
  <2>2. QED
    BY <2>1 DEF TypeOK, Rests
<1>5. ASSUME NEW v \in Workers, WorkFtsAdd(v) PROVE v = w
  BY <1>5 DEF WorkFtsAdd, FinishWork, GoTo, TypeOK, Rests
<1>6. QED
  BY <1>2, <1>3, <1>4, <1>5
     DEF ServerNext, WorkVectorAdd, PostBatch, EnqueueBatch, PostIngest, FinishIngest, DeleteDoc,
         FinishDelete, CallFails, server, vars

LEMMA SucceededKept ==
  ASSUME TypeOK, ServerTypeOK, BusyHoldsTask, FirstHalfWritten, DeletingIsOnRecord,
         SucceededIsSearchable, [ServerNext]_server
  PROVE  SucceededIsSearchable'
<1> SUFFICES ASSUME NEW w \in Workers, worker'[w].pc = "succeeded",
                    NEW d \in Batch[worker'[w].task], d \notin deleted'
             PROVE  vector'[d] > 0 /\ d \in fts'
  BY DEF SucceededIsSearchable
<1>1. VectorStep /\ FtsStep /\ StoreTypeOK /\ d \notin deleted
  BY EveryStepIsVectorStep, EveryStepIsFtsStep, DeletedGrows DEF ServerTypeOK
<1>2. CASE Rests(w)
  <2>1. worker[w].task \in Tasks /\ d \in Batch[worker[w].task] /\ worker[w].pc = "succeeded"
    BY <1>2 DEF Rests, BusyHoldsTask
  <2>2. d \in Docs /\ vector[d] > 0 /\ d \in fts
    BY <1>1, <2>1 DEF SucceededIsSearchable
  <2>3. QED
    BY <1>1, <2>2, RowsAreKept, HitsAreKept
<1>3. CASE ~Rests(w)
  <2>1. WorkFtsAdd(w)
    BY <1>3, SucceedsByWork
  <2>2. worker'[w].task = worker[w].task
    BY <2>1 DEF WorkFtsAdd, FinishWork, GoTo, TypeOK
  <2>3. w \in added /\ vector' = vector /\ fts' = fts \cup Batch[worker[w].task]
    BY <2>1 DEF WorkFtsAdd, FtsAdd
  <2>4. QED
    BY <1>1, <2>2, <2>3 DEF FirstHalfWritten
<1>4. QED
  BY <1>2, <1>3

LEMMA HitsHaveRowsKept ==
  ASSUME ServerTypeOK, BusyHoldsTask, FirstHalfWritten, HitsHaveRows, [ServerNext]_server
  PROVE  HitsHaveRows'
<1> SUFFICES ASSUME NEW d \in fts', d \notin deleted' PROVE vector'[d] > 0
  BY DEF HitsHaveRows
<1>1. VectorStep /\ FtsStep /\ StoreTypeOK /\ d \notin deleted
  BY EveryStepIsVectorStep, EveryStepIsFtsStep, DeletedGrows DEF ServerTypeOK
<1>2. vector[d] > 0 /\ d \in Docs
  <2>1. CASE d \in fts
    BY <1>1, <2>1 DEF HitsHaveRows, StoreTypeOK
  <2>2. ASSUME NEW w \in added, worker[w].pc = "working", d \in Batch[worker[w].task]
        PROVE  vector[d] > 0 /\ d \in Docs
    BY <1>1, <2>2 DEF FirstHalfWritten, BusyHoldsTask, ServerTypeOK
  <2>3. ASSUME NEW c \in Calls, call[c].at = "ingesting", d = call[c].doc
        PROVE  vector[d] > 0 /\ d \in Docs
    BY <1>1, <2>3 DEF FirstHalfWritten, ServerTypeOK, CallState
  <2>4. QED
    BY <1>1, <2>1, <2>2, <2>3 DEF FtsStep
<1>3. QED
  BY <1>1, <1>2, RowsAreKept

\* A task is done because it was, or because the worker that holds it succeeded.
LEMMA DoneByVerdict ==
  ASSUME TypeOK, [Next]_vars, NEW t \in Tasks \ LegacyTasks, rows'[t].state = "done"
  PROVE  \/ rows[t].state = "done"
         \/ \E w \in Workers : worker[w].pc = "succeeded" /\ worker[w].task = t
<1>0. rows \in [Tasks -> Row] /\ rows[t] \in Row
  BY DEF TypeOK
<1>1. ASSUME UNCHANGED rows PROVE rows[t].state = "done"
  BY <1>1
<1>2. ASSUME rows' = Reclaimed PROVE rows[t].state = "done"
  BY <1>2 DEF Reclaimed, AfterLostAttempt, Released, Unowned
<1>3. ASSUME NEW w \in Workers, MigrateLegacy(w) PROVE rows[t].state = "done"
  BY <1>3 DEF MigrateLegacy
<1>4. ASSUME NEW u \in Tasks, EnqueueBatch(u) PROVE rows[t].state = "done"
  BY <1>0, <1>4 DEF EnqueueBatch, Unowned
<1>5. ASSUME NEW w \in Workers, ClaimNextTask(w) PROVE rows[t].state = "done"
  <2>1. PICK u \in Oldest(Reclaimed) : rows' = [Reclaimed EXCEPT ![u] = Attempt(@, w)]
    BY <1>5 DEF ClaimNextTask
  <2>2. rows'[t] = IF u = t THEN Attempt(Reclaimed[t], w) ELSE Reclaimed[t]
    BY <2>1 DEF Reclaimed
  <2>3. QED
    BY <2>2 DEF Attempt, Reclaimed, AfterLostAttempt, Released, Unowned
<1>6. ASSUME NEW w \in Workers, RenewLease(w) PROVE rows[t].state = "done"
  BY <1>0, <1>6 DEF RenewLease, Row
<1>7. ASSUME NEW w \in Workers, MarkDone(w)
      PROVE  rows[t].state = "done" \/ (worker[w].pc = "succeeded" /\ worker[w].task = t)
  BY <1>0, <1>7 DEF MarkDone
<1>8. ASSUME NEW w \in Workers, MarkFailedOrRequeue(w) PROVE rows[t].state = "done"
  BY <1>0, <1>8 DEF MarkFailedOrRequeue, AfterLostAttempt, Released, Unowned
<1>9. CASE Tick
  BY <1>9 DEF Tick, Older
<1>10. ASSUME NEW w \in Workers, WorkerStep(w)
       PROVE  \/ rows[t].state = "done"
              \/ worker[w].pc = "succeeded" /\ worker[w].task = t
  BY <1>1, <1>2, <1>3, <1>5, <1>6, <1>7, <1>8, <1>10
     DEF WorkerStep, Startup, Verdict, Start, MigrateLegacyConflict, RenameLegacy,
         FinishOpen, ClaimNothing, FinishWork, MarkLost, Crash
<1>11. QED
  BY <1>1, <1>2, <1>4, <1>9, <1>10 DEF Next, vars, GetTaskStatus

LEMMA DoneKept ==
  ASSUME TypeOK, ServerTypeOK, DeletingIsOnRecord, BusyHoldsTask, SucceededIsSearchable,
         DoneIsSearchable, [ServerNext]_server
  PROVE  DoneIsSearchable'
<1> SUFFICES ASSUME NEW t \in Tasks \ LegacyTasks, rows'[t].state = "done",
                    NEW d \in Batch[t], d \notin deleted'
             PROVE  vector'[d] > 0 /\ d \in fts'
  BY DEF DoneIsSearchable, LegacyTasks
<1>1. /\ VectorStep /\ FtsStep /\ StoreTypeOK /\ d \notin deleted /\ [Next]_vars /\ d \in Docs
  BY EveryStepIsVectorStep, EveryStepIsFtsStep, DeletedGrows, ServerStepIsQueueStep DEF ServerTypeOK
<1>2. vector[d] > 0 /\ d \in fts
  <2>1. CASE rows[t].state = "done"
    BY <1>1, <2>1 DEF DoneIsSearchable, LegacyTasks
  <2>2. CASE \E w \in Workers : worker[w].pc = "succeeded" /\ worker[w].task = t
    BY <1>1, <2>2 DEF SucceededIsSearchable
  <2>3. QED
    BY <1>1, <2>1, <2>2, DoneByVerdict
<1>3. QED
  BY <1>1, <1>2, RowsAreKept, HitsAreKept

-----------------------------------------------------------------------------
(* Nothing resurrects a document *)

\* A row enters the table by a client's batch or by the import.
LEMMA EnteringTheTable ==
  ASSUME TypeOK, OwnedWhileProcessing, [ServerNext]_server, NEW t \in Tasks, ~InTable(t), InTable(t)'
  PROVE  \/ PostBatch(t)
         \/ t \in LegacyTasks /\ \E w \in Workers : MigrateLegacy(w)
<1>0. /\ rows \in [Tasks -> Row] /\ rows[t] \in Row
      /\ rows[t].state = "absent" /\ rows[t].owner = NoWorker
  BY DEF TypeOK, InTable, OwnedWhileProcessing
<1>1. ~UNCHANGED rows
  BY <1>0 DEF InTable
<1>2. rows' # Reclaimed
  BY <1>0, ReclaimKeepsTurn DEF InTable
<1>3. ASSUME NEW u \in Tasks, PostBatch(u) PROVE u = t
  BY <1>0, <1>3 DEF PostBatch, EnqueueBatch, InTable
<1>4. ASSUME NEW w \in Workers, MigrateLegacy(w) PROVE t \in LegacyTasks
  BY <1>0, <1>4 DEF MigrateLegacy, InTable
<1>5. ASSUME NEW w \in Workers, ClaimNextTask(w) PROVE FALSE
  <2>1. PICK u \in Claimable(Reclaimed) : rows' = [Reclaimed EXCEPT ![u] = Attempt(@, w)]
    BY <1>5 DEF ClaimNextTask, Oldest
  <2>2. u # t
    BY <1>0, ClaimableUntouched DEF Claimable
  <2>3. rows'[t] = Reclaimed[t]
    BY <2>1, <2>2 DEF Reclaimed
  <2>4. QED
    BY <1>0, <2>3, ReclaimKeepsTurn DEF InTable
<1>6. ASSUME NEW w \in Workers, RenewLease(w) \/ MarkDone(w) \/ MarkFailedOrRequeue(w)
      PROVE  FALSE
  <2>1. rows'[t] = rows[t]
    BY <1>0, <1>6 DEF RenewLease, MarkDone, MarkFailedOrRequeue
  <2>2. QED
    BY <1>0, <2>1 DEF InTable
<1>7. ~Tick
  BY <1>0 DEF Tick, Older, InTable
<1>8. CASE QueueStep
  BY <1>1, <1>2, <1>4, <1>5, <1>6, <1>7, <1>8
     DEF QueueStep, Startup, Verdict, Start, MigrateLegacyConflict, RenameLegacy,
         FinishOpen, ClaimNothing, MarkLost, GetTaskStatus
<1>9. QED
  BY <1>1, <1>3, <1>8
     DEF ServerNext, server, vars, WorkVectorAdd, WorkFtsAdd, WorkFails, FinishWork, ServerCrash,
         Crash, PostIngest, FinishIngest, DeleteDoc, FinishDelete, CallFails

\* A client sends a document again.
Sent(d) ==
  \/ \E t \in Tasks : d \in Batch[t] /\ PostBatch(t)
  \/ \E c \in Calls, w \in Workers : d = call[c].doc /\ PostIngest(c, w)

\* A document nothing is bringing back is brought back only by a client that
\* sends it again: no retry, reclaim, import, verdict or crash does.
LEMMA PendingNeedsClient ==
  ASSUME TypeOK, ServerTypeOK, OwnedWhileProcessing, LegacyNeverLost, ImportHasFile,
         [ServerNext]_server, NEW d, ~Pending(d), ~Sent(d)
  PROVE  ~Pending(d)'
<1>0. [Next]_vars
  BY ServerStepIsQueueStep
<1>1. ASSUME NEW t \in Tasks, d \in Batch[t], rows'[t].state \in {"queued", "processing"}
      PROVE  FALSE
  <2>1. /\ rows[t] \in Row /\ rows[t].state \notin {"queued", "processing"}
        /\ rows[t].owner # NoWorker <=> rows[t].state = "processing"
        /\ \A w \in Workers : worker[w].task # t
    BY <1>1 DEF TypeOK, OwnedWhileProcessing, Pending
  <2>2. RowStep(t)
    BY <1>0, EveryStepIsRowStep
  <2>3. CASE rows'[t] = rows[t] \/ Aged(t)
    BY <1>1, <2>1, <2>3 DEF Aged, Older
  <2>4. CASE Claimed(t) \/ Renewed(t) \/ Reclaim(t) \/ Finished(t) \/ Erred(t)
    BY <2>1, <2>4 DEF Claimed, Renewed, Reclaim, Expired, Finished, Erred, OwnVerdict
  <2>5. CASE Accepted(t) \/ Imported(t)
    <3>1. ~InTable(t) /\ InTable(t)'
      BY <1>1, <2>5 DEF Accepted, Imported, InTable
    <3>2. PICK w \in Workers : MigrateLegacy(w) /\ t \in LegacyTasks
      BY <1>1, <3>1, EnteringTheTable DEF Sent
    <3>3. json = "present"
      BY <3>1, <3>2 DEF MigrateLegacy, ImportHasFile, LegacyNeverLost, TypeOK
    <3>4. QED
      BY <1>1, <3>2, <3>3 DEF Pending, LegacyTasks
  <2>6. QED
    BY <2>2, <2>3, <2>4, <2>5 DEF RowStep
<1>2. ASSUME NEW w \in Workers, worker'[w].task # NoTask, d \in Batch[worker'[w].task]
      PROVE  FALSE
  <2>1. CASE Rests(w)
    BY <1>2, <2>1 DEF Rests, Pending
  <2>2. CASE Takes(w)
    <3>1. PICK t \in Tasks : worker'[w].task = t /\ rows[t].state = "queued"
      BY <2>2 DEF Takes
    <3>2. QED
      BY <1>2, <3>1 DEF Pending
  <2>3. CASE Returns(w)
    <3>1. worker'[w].task = worker[w].task
      BY <2>3 DEF Returns
    <3>2. QED
      BY <1>2, <3>1 DEF Pending
  <2>4. QED
    BY <1>0, <1>2, <2>1, <2>2, <2>3, EveryStepMovesWorkers DEF LetsGo
<1>3. json' = "present" => json = "present"
  BY <1>0 DEF Next, vars, WorkerStep, Startup, Verdict, Start, MigrateLegacy, RenameLegacy,
         MigrateLegacyConflict, FinishOpen, ClaimNextTask, ClaimNothing, RenewLease, FinishWork,
         MarkDone, MarkFailedOrRequeue, MarkLost, Crash, EnqueueBatch, GetTaskStatus, Tick
<1>4. ASSUME NEW c \in Calls, call'[c].at = "ingesting", call'[c].doc = d PROVE FALSE
  <2>1. CallStep(c)
    BY EveryStepIsCallStep DEF ServerTypeOK
  <2>2. CASE CallStays(c)
    BY <1>4, <2>2 DEF CallStays, Pending
  <2>3. CASE CallPosts(c)
    BY <1>4, <2>3 DEF CallPosts, Sent
  <2>4. QED
    BY <1>4, <2>1, <2>2, <2>3 DEF CallStep, CallEnds, CallDeletes
<1>5. QED
  BY <1>1, <1>2, <1>3, <1>4 DEF Pending

\* Neither store gains a document nothing is bringing back.
LEMMA RowsNeedPending ==
  ASSUME ServerTypeOK, BusyHoldsTask, [ServerNext]_server, NEW d \in Docs,
         ~Pending(d), ~Sent(d), vector[d] = 0
  PROVE  vector'[d] = 0
<1>1. ASSUME NEW w \in Workers, WorkVectorAdd(w) PROVE vector'[d] = 0
  <2>1. d \notin Batch[worker[w].task]
    BY <1>1 DEF WorkVectorAdd, BusyHoldsTask, Pending
  <2>2. QED
    BY <1>1, <2>1 DEF WorkVectorAdd, VectorAdd
<1>2. ASSUME NEW c \in Calls, NEW w \in Workers, PostIngest(c, w) PROVE vector'[d] = 0
  <2>1. d \notin {call[c].doc}
    BY <1>2 DEF Sent
  <2>2. QED
    BY <1>2, <2>1 DEF PostIngest, VectorAdd
<1>3. ASSUME NEW c \in Calls, NEW w \in Workers, DeleteDoc(c, w) PROVE vector'[d] = 0
  BY <1>3 DEF DeleteDoc, VectorDelete, ServerTypeOK, StoreTypeOK
<1>4. QED
  BY <1>1, <1>2, <1>3
     DEF ServerNext, QueueStep, WorkFtsAdd, WorkFails, ServerCrash, PostBatch, FinishIngest,
         FinishDelete, CallFails, FtsAdd, FtsDelete, server

LEMMA HitsNeedPending ==
  ASSUME FtsStep, BusyHoldsTask, added \subseteq Workers, NEW d, ~Pending(d), d \notin fts
  PROVE  d \notin fts'
<1>1. \A w \in added : worker[w].pc = "working" => d \notin Batch[worker[w].task]
  BY DEF BusyHoldsTask, Pending
<1>2. \A c \in Calls : call[c].at = "ingesting" => d # call[c].doc
  BY DEF Pending
<1>3. QED
  BY <1>1, <1>2 DEF FtsStep

\* Sending a document disturbs every delete of it that is under way, and takes
\* it off the record of what is gone.
LEMMA SendingDisturbs ==
  ASSUME ServerTypeOK, NEW c \in Calls, call'[c].undisturbed, NEW d, d = call[c].doc
  PROVE  ~Sent(d)
<1>1. ASSUME NEW t \in Tasks, PostBatch(t) PROVE d \notin Batch[t]
  <2>1. call' = Disturbed(Batch[t], call) /\ call \in [Calls -> CallState]
    BY <1>1 DEF PostBatch, ServerTypeOK
  <2>2. QED
    BY <2>1, DisturbedKeeps
<1>2. ASSUME NEW e \in Calls, NEW w \in Workers, PostIngest(e, w) PROVE d # call[e].doc
  <2> DEFINE calls == Advance(e, "ingesting", w, FALSE)
  <2>1. calls \in [Calls -> CallState]
    BY AdvanceType DEF ServerTypeOK
  <2>2. call' = Disturbed({call[e].doc}, calls)
    BY <1>2 DEF PostIngest
  <2>3. calls[c].doc = call[c].doc
    <3>1. PICK k \in CallState : k = call[e]
      BY DEF ServerTypeOK
    <3> DEFINE j == [k EXCEPT !.at = "ingesting", !.process = w, !.undisturbed = FALSE]
    <3>2. j.doc = k.doc
      BY DEF CallState
    <3>3. (c = e => calls[c] = j) /\ (c # e => calls[c] = call[c])
      BY <3>1 DEF Advance, ServerTypeOK
    <3> HIDE DEF j, calls
    <3>4. QED
      BY <3>1, <3>2, <3>3
  <2> HIDE DEF calls
  <2>4. calls[c].doc \notin {call[e].doc}
    BY <2>1, <2>2, DisturbedKeeps
  <2>5. QED
    BY <2>3, <2>4
<1>3. QED
  BY <1>1, <1>2 DEF Sent

LEMMA GoneStep ==
  ASSUME [ServerNext]_server, NEW d \in gone'
  PROVE  /\ ~Sent(d)
         /\ \/ d \in gone
            \/ \E c \in Calls : FinishDelete(c) /\ call[c].undisturbed /\ d = call[c].doc
<1>1. ~Sent(d)
  BY DEF Sent, PostBatch, PostIngest
<1>2. QED
  BY <1>1
     DEF ServerNext, QueueStep, WorkVectorAdd, WorkFtsAdd, WorkFails, ServerCrash, PostBatch,
         PostIngest, FinishIngest, DeleteDoc, FinishDelete, CallFails, server, historyVars

LEMMA NothingBringsBackKept ==
  ASSUME TypeOK, ServerTypeOK, OwnedWhileProcessing, LegacyNeverLost, ImportHasFile,
         BusyHoldsTask, NothingBringsBack, [ServerNext]_server
  PROVE  NothingBringsBack'
<1>1. ASSUME NEW d \in gone' PROVE ~Pending(d)'
  <2>1. ~Sent(d) /\ ~Pending(d)
    <3>1. CASE d \in gone
      BY <1>1, <3>1, GoneStep DEF NothingBringsBack
    <3>2. ASSUME NEW c \in Calls, FinishDelete(c), call[c].undisturbed, d = call[c].doc
          PROVE  ~Pending(d)
      BY <3>2 DEF FinishDelete, NothingBringsBack, ServerTypeOK, CallState
    <3>3. QED
      BY <1>1, <3>1, <3>2, GoneStep
  <2>2. QED
    BY <2>1, PendingNeedsClient
<1>2. ASSUME NEW c \in Calls, NEW d \in Docs,
             call'[c].at = "deleting", call'[c].undisturbed, d = call'[c].doc
      PROVE  vector'[d] = 0 /\ ~Pending(d)'
  <2>1. CallStep(c) /\ d = call[c].doc
    BY <1>2, EveryStepIsCallStep
       DEF ServerTypeOK, CallStep, CallStays, CallEnds, CallPosts, CallDeletes
  <2>2. ~Sent(d)
    BY <1>2, <2>1, SendingDisturbs
  <2>3. CASE CallStays(c)
    <3>1. vector[d] = 0 /\ ~Pending(d)
      BY <1>2, <2>1, <2>3 DEF CallStays, NothingBringsBack
    <3>2. QED
      BY <2>2, <3>1, RowsNeedPending, PendingNeedsClient
  <2>4. CASE CallDeletes(c)
    <3>1. ~Pending(d)
      BY <1>2, <2>1, <2>4 DEF CallDeletes
    <3>2. vector'[d] = 0
      BY <2>1, <2>4 DEF CallDeletes, DeleteDoc, VectorDelete, ServerTypeOK, StoreTypeOK
    <3>3. ~Pending(d)'
      BY <2>2, <3>1, PendingNeedsClient
    <3>4. QED
      BY <3>2, <3>3
  <2>5. QED
    BY <1>2, <2>1, <2>3, <2>4 DEF CallStep, CallEnds, CallPosts
<1>3. QED
  BY <1>1, <1>2 DEF NothingBringsBack

LEMMA DeleteSticksKept ==
  ASSUME ServerTypeOK, BusyHoldsTask, NothingBringsBack, DeleteSticks, [ServerNext]_server
  PROVE  DeleteSticks'
<1> SUFFICES ASSUME NEW d \in gone' PROVE vector'[d] = 0 /\ d \notin fts'
  BY DEF DeleteSticks
<1>1. CASE d \in gone
  <2>1. /\ ~Pending(d) /\ ~Sent(d) /\ d \in Docs /\ vector[d] = 0 /\ d \notin fts
        /\ FtsStep /\ added \subseteq Workers
    BY <1>1, GoneStep, EveryStepIsFtsStep DEF NothingBringsBack, DeleteSticks, ServerTypeOK
  <2>2. QED
    BY <2>1, RowsNeedPending, HitsNeedPending
<1>2. ASSUME NEW c \in Calls, FinishDelete(c), call[c].undisturbed, d = call[c].doc
      PROVE  vector'[d] = 0 /\ d \notin fts'
  BY <1>2 DEF FinishDelete, FtsDelete, NothingBringsBack, ServerTypeOK, CallState
<1>3. QED
  BY <1>1, <1>2, GoneStep

-----------------------------------------------------------------------------
(* Every copy is paid for *)

LEMMA SpentIsFinite ==
  ASSUME NEW table \in [Tasks -> Row], NEW d
  PROVE  IsFiniteSet(UNION {{t} \X (1..table[t].attempts) : t \in {t \in Tasks : d \in Batch[t]}})
<1> DEFINE T == {t \in Tasks : d \in Batch[t]}
           S == {{t} \X (1..table[t].attempts) : t \in T}
           f == [t \in T |-> {t} \X (1..table[t].attempts)]
<1>1. IsFiniteSet(T)
  BY FS_Subset
<1>2. f \in Surjection(T, S)
  BY DEF Surjection
<1>3. IsFiniteSet(S)
  <2> HIDE DEF f, S, T
  <2>1. QED
    BY <1>1, <1>2, FS_Surjection
<1>4. ASSUME NEW x \in S PROVE IsFiniteSet(x)
  <2>1. PICK t \in T : x = {t} \X (1..table[t].attempts)
    OBVIOUS
  <2>2. PICK n \in Int : n = table[t].attempts
    BY DEF Row
  <2>3. IsFiniteSet(1..n)
    <3>1. 1 \in Int
      OBVIOUS
    <3>2. QED
      BY <3>1, FS_Interval
  <2>4. IsFiniteSet({t})
    BY FS_Singleton
  <2>5. QED
    BY <2>1, <2>2, <2>3, <2>4, FS_Product
<1>5. QED
  <2> HIDE DEF S
  <2>1. IsFiniteSet(UNION S)
    BY <1>3, <1>4, FS_UNION
  <2>2. QED
    BY <2>1 DEF S

\* Attempts are never taken back: not by a retry, a reclaim or an import.
LEMMA AttemptsGrow ==
  ASSUME TypeOK, AbsentIsUntried, [Next]_vars, NEW t \in Tasks
  PROVE  rows[t].attempts \in Nat /\ rows'[t].attempts \in Nat
         /\ rows[t].attempts <= rows'[t].attempts
<1>1. /\ RowStep(t) /\ rows[t] \in Row
      /\ rows[t].state = "absent" => rows[t].attempts = 0
  BY EveryStepIsRowStep DEF TypeOK, AbsentIsUntried
<1>2. rows'[t] \in Row
  BY <1>1, RowStepType
<1>3. rows[t].attempts \in Nat /\ rows'[t].attempts \in Nat
  BY <1>1, <1>2 DEF Row
<1>4. CASE rows'[t] = rows[t] \/ Aged(t)
  BY <1>3, <1>4 DEF Aged, Older
<1>5. CASE Accepted(t) \/ Imported(t)
  BY <1>1, <1>3, <1>5 DEF Accepted, Imported, InTable
<1>6. CASE Claimed(t)
  BY <1>1, <1>3, <1>6 DEF Claimed, Attempt
<1>7. CASE Renewed(t)
  BY <1>1, <1>3, <1>7 DEF Renewed, Row
<1>8. CASE Reclaim(t) \/ Finished(t) \/ Erred(t)
  BY <1>3, <1>8 DEF Reclaim, Finished, Erred, AfterLostAttempt, Released, Unowned
<1>9. QED
  BY <1>1, <1>4, <1>5, <1>6, <1>7, <1>8 DEF RowStep

LEMMA SpentGrows ==
  ASSUME TypeOK, AbsentIsUntried, [Next]_vars, NEW d
  PROVE  AttemptsSpent(d) \subseteq AttemptsSpent(d)'
<1> SUFFICES ASSUME NEW t \in Tasks, d \in Batch[t], NEW x \in {t} \X (1..rows[t].attempts)
             PROVE  x \in {t} \X (1..rows'[t].attempts)
  BY DEF AttemptsSpent
<1>1. QED
  BY AttemptsGrow

LEMMA CallsContribute ==
  ASSUME ServerTypeOK, [ServerNext]_server, NEW d
  PROVE  ContributingCalls(d) \subseteq ContributingCalls(d)'
<1> SUFFICES ASSUME NEW c \in Calls, call[c].doc = d, call[c].at # "new"
             PROVE  call'[c].doc = d /\ call'[c].at # "new"
  BY DEF ContributingCalls
<1>1. QED
  BY EveryStepIsCallStep
     DEF ServerTypeOK, CallStep, CallStays, CallEnds, CallPosts, CallDeletes

\* The sizes are numbers, before and after a step.
LEMMA SizesAreNumbers ==
  ASSUME TypeOK, TypeOK', ServerTypeOK, ServerTypeOK', NEW d \in Docs
  PROVE  /\ IsFiniteSet(AttemptsSpent(d)) /\ IsFiniteSet(AttemptsSpent(d)')
         /\ IsFiniteSet(ContributingCalls(d)) /\ IsFiniteSet(ContributingCalls(d)')
         /\ IsFiniteSet(Unwritten(d)) /\ IsFiniteSet(Unwritten(d)')
         /\ vector[d] \in Nat /\ vector'[d] \in Nat
<1>1. IsFiniteSet(AttemptsSpent(d)) /\ IsFiniteSet(AttemptsSpent(d)')
  BY SpentIsFinite DEF TypeOK, AttemptsSpent
<1>2. IsFiniteSet(ContributingCalls(d)) /\ IsFiniteSet(ContributingCalls(d)')
  BY FS_Subset DEF ContributingCalls
<1>3. IsFiniteSet(Unwritten(d)) /\ IsFiniteSet(Unwritten(d)')
  BY FS_Subset DEF Unwritten
<1>4. QED
  BY <1>1, <1>2, <1>3 DEF ServerTypeOK, StoreTypeOK

Balance(d) ==
  vector[d] + Cardinality(Unwritten(d))
    <= Cardinality(AttemptsSpent(d)) + Cardinality(ContributingCalls(d))

\* The four ways a step keeps the balance: it adds nothing; an attempt begins and
\* is credited; a worker uses its credit; a direct call is credited and used.
LEMMA NothingAdded ==
  ASSUME NEW v \in Nat, NEW vn \in Nat, vn <= v,
         NEW U, NEW Un, NEW A, NEW An, NEW C, NEW Cn,
         IsFiniteSet(U), IsFiniteSet(Un), IsFiniteSet(A), IsFiniteSet(An),
         IsFiniteSet(C), IsFiniteSet(Cn),
         Un \subseteq U, A \subseteq An, C \subseteq Cn,
         v + Cardinality(U) <= Cardinality(A) + Cardinality(C)
  PROVE  vn + Cardinality(Un) <= Cardinality(An) + Cardinality(Cn)
<1>1. /\ Cardinality(Un) <= Cardinality(U) /\ Cardinality(A) <= Cardinality(An)
      /\ Cardinality(C) <= Cardinality(Cn)
  BY FS_Subset
<1>2. /\ Cardinality(U) \in Nat /\ Cardinality(Un) \in Nat /\ Cardinality(A) \in Nat
      /\ Cardinality(An) \in Nat /\ Cardinality(C) \in Nat /\ Cardinality(Cn) \in Nat
  BY FS_CardinalityType
<1>3. QED
  BY <1>1, <1>2

LEMMA AttemptCredited ==
  ASSUME NEW v \in Nat, NEW U, NEW Un, NEW A, NEW An, NEW C,
         IsFiniteSet(U), IsFiniteSet(Un), IsFiniteSet(A), IsFiniteSet(An), IsFiniteSet(C),
         NEW w \in Un, Un \subseteq U \cup {w}, NEW a \in An, a \notin A, A \subseteq An,
         v + Cardinality(U) <= Cardinality(A) + Cardinality(C)
  PROVE  v + Cardinality(Un) <= Cardinality(An) + Cardinality(C)
<1>1. /\ Cardinality(Un \ {w}) = Cardinality(Un) - 1 /\ IsFiniteSet(Un \ {w})
      /\ Cardinality(An \ {a}) = Cardinality(An) - 1 /\ IsFiniteSet(An \ {a})
  BY FS_RemoveElement
<1>2. Cardinality(Un \ {w}) <= Cardinality(U)
  BY FS_Subset
<1>3. Cardinality(A) <= Cardinality(An \ {a})
  <2>1. A \subseteq An \ {a}
    OBVIOUS
  <2>2. QED
    BY <1>1, <2>1, FS_Subset
<1>4. /\ Cardinality(U) \in Nat /\ Cardinality(Un) \in Nat /\ Cardinality(A) \in Nat
      /\ Cardinality(An) \in Nat /\ Cardinality(C) \in Nat
  BY FS_CardinalityType
<1>5. QED
  BY <1>1, <1>2, <1>3, <1>4

LEMMA CreditUsed ==
  ASSUME NEW v \in Nat, NEW U, NEW Un, NEW A, NEW C,
         IsFiniteSet(U), IsFiniteSet(Un), IsFiniteSet(A), IsFiniteSet(C),
         NEW w \in U, Un \subseteq U \ {w},
         v + Cardinality(U) <= Cardinality(A) + Cardinality(C)
  PROVE  (v + 1) + Cardinality(Un) <= Cardinality(A) + Cardinality(C)
<1>1. IsFiniteSet(U \ {w}) /\ Cardinality(U \ {w}) = Cardinality(U) - 1
  BY FS_RemoveElement
<1>2. Cardinality(Un) <= Cardinality(U \ {w})
  BY <1>1, FS_Subset
<1>3. /\ Cardinality(U) \in Nat /\ Cardinality(Un) \in Nat /\ Cardinality(A) \in Nat
      /\ Cardinality(C) \in Nat
  BY FS_CardinalityType
<1>4. QED
  BY <1>1, <1>2, <1>3

LEMMA CallPaysItsWay ==
  ASSUME NEW v \in Nat, NEW U, NEW A, NEW C, NEW Cn,
         IsFiniteSet(U), IsFiniteSet(A), IsFiniteSet(C), IsFiniteSet(Cn),
         NEW c, c \notin C, C \cup {c} \subseteq Cn,
         v + Cardinality(U) <= Cardinality(A) + Cardinality(C)
  PROVE  (v + 1) + Cardinality(U) <= Cardinality(A) + Cardinality(Cn)
<1>1. IsFiniteSet(C \cup {c}) /\ Cardinality(C \cup {c}) = Cardinality(C) + 1
  BY FS_AddElement
<1>2. Cardinality(C \cup {c}) <= Cardinality(Cn)
  BY <1>1, FS_Subset
<1>3. /\ Cardinality(U) \in Nat /\ Cardinality(A) \in Nat
      /\ Cardinality(C) \in Nat /\ Cardinality(Cn) \in Nat
  BY FS_CardinalityType
<1>4. QED
  BY <1>1, <1>2, <1>3

\* Outside a claim, no worker gets new work, and none that holds a credit loses
\* it but by using it or by ending its work.
LEMMA UnwrittenStays ==
  ASSUME NEW d, NEW w \in Unwritten(d)', Rests(w), w \notin added
  PROVE  w \in Unwritten(d)
BY DEF Unwritten, Rests

LEMMA ClaimBalances ==
  ASSUME TypeOK, TypeOK', ServerTypeOK, ServerTypeOK', AbsentIsUntried, CopiesAndCredits,
         NEW w \in Workers, ClaimNextTask(w), UNCHANGED <<vector, added, call>>,
         NEW d \in Docs, BusyHoldsTask, FirstHalfWritten
  PROVE  Balance(d)'
<1>0. [Next]_vars
  BY DEF Next, WorkerStep
<1>1. /\ Balance(d) /\ vector'[d] = vector[d]
      /\ ContributingCalls(d)' = ContributingCalls(d)
      /\ AttemptsSpent(d) \subseteq AttemptsSpent(d)'
  BY <1>0, SpentGrows DEF CopiesAndCredits, Balance, ContributingCalls
<1>2. \A v \in Workers : Rests(v) \/ (v = w /\ Takes(v))
  BY ClaimMoves
<1>3. Unwritten(d)' \subseteq Unwritten(d) \cup {w}
  BY <1>2, UnwrittenStays DEF Unwritten
<1>4. CASE w \in Unwritten(d)' /\ ~Rests(w)
  <2>1. PICK t \in Tasks : /\ worker'[w] = [pc |-> "working", task |-> t]
                           /\ rows'[t] = Attempt(rows[t], w)
    BY <1>2, <1>4 DEF Takes
  <2>2. d \in Batch[t]
    BY <1>4, <2>1 DEF Unwritten
  <2> DEFINE n == rows[t].attempts
             a == <<t, n + 1>>
  <2>3. n \in Nat /\ rows'[t].attempts = n + 1
    BY <2>1 DEF TypeOK, Row, Attempt
  <2>4. a \notin AttemptsSpent(d)
    BY <2>3 DEF AttemptsSpent
  <2>5. a \in {t} \X (1..rows'[t].attempts)
    BY <2>3
  <2>6. a \in AttemptsSpent(d)'
    BY <2>2, <2>5 DEF AttemptsSpent
  <2> HIDE DEF n, a
  <2>7. QED
    BY <1>1, <1>3, <1>4, <2>4, <2>6, SizesAreNumbers, AttemptCredited DEF Balance
<1>5. CASE ~(w \in Unwritten(d)' /\ ~Rests(w))
  <2>1. Unwritten(d)' \subseteq Unwritten(d)
    BY <1>2, <1>5, UnwrittenStays DEF Unwritten
  <2>2. QED
    BY <1>1, <2>1, SizesAreNumbers, NothingAdded DEF Balance
<1>6. QED
  BY <1>4, <1>5

\* A step that gives no worker work and no store a row keeps the balance.
LEMMA QuietStepBalances ==
  ASSUME TypeOK, TypeOK', ServerTypeOK, ServerTypeOK', AbsentIsUntried, CopiesAndCredits,
         [ServerNext]_server, NEW d \in Docs, vector'[d] <= vector[d],
         \A w \in Workers : worker'[w].pc = "working" =>
           Rests(w) /\ (w \in added => w \in added')
  PROVE  Balance(d)'
<1>1. /\ Balance(d) /\ ContributingCalls(d) \subseteq ContributingCalls(d)'
      /\ AttemptsSpent(d) \subseteq AttemptsSpent(d)'
  BY ServerStepIsQueueStep, SpentGrows, CallsContribute DEF CopiesAndCredits, Balance
<1>2. Unwritten(d)' \subseteq Unwritten(d)
  BY DEF Unwritten, Rests
<1>3. QED
  BY <1>1, <1>2, SizesAreNumbers, NothingAdded DEF Balance

LEMMA CopiesAndCreditsKept ==
  ASSUME TypeOK, TypeOK', ServerTypeOK, ServerTypeOK', AbsentIsUntried, BusyHoldsTask,
         FirstHalfWritten, CopiesAndCredits, [ServerNext]_server
  PROVE  CopiesAndCredits'
<1> SUFFICES ASSUME NEW d \in Docs PROVE Balance(d)'
  BY DEF CopiesAndCredits, Balance
<1>0. vector[d] \in Nat /\ vector \in [Docs -> Nat] /\ added \subseteq Workers
  BY DEF ServerTypeOK, StoreTypeOK
<1>1. ASSUME NEW w \in Workers, ClaimNextTask(w), UNCHANGED <<vector, added, call>>
      PROVE  Balance(d)'
  BY <1>1, ClaimBalances
<1>2. CASE QueueStep /\ ~ \E w \in Workers : ClaimNextTask(w)
  <2>1. ASSUME NEW v \in Workers PROVE Rests(v) \/ LetsGo(v)
    <3>1. CASE UNCHANGED worker
      BY <3>1 DEF Rests
    <3>2. QED
      BY <1>2, <3>1, StartupMoves, VerdictMoves
         DEF QueueStep, ClaimNothing, RenewLease, GetTaskStatus, Tick
  <2>2. added' = added /\ vector' = vector
    BY <1>2 DEF QueueStep
  <2>3. QED
    BY <1>0, <2>1, <2>2, QuietStepBalances DEF LetsGo
<1>3. ASSUME NEW w \in Workers, WorkVectorAdd(w) PROVE Balance(d)'
  <2>1. /\ worker' = worker /\ rows' = rows /\ call' = call /\ added' = added \cup {w}
        /\ vector'[d] = vector[d] + IF d \in Batch[worker[w].task] THEN 1 ELSE 0
        /\ worker[w].pc = "working" /\ w \notin added
    BY <1>3 DEF WorkVectorAdd, VectorAdd, vars
  <2>2. /\ Balance(d) /\ ContributingCalls(d)' = ContributingCalls(d)
        /\ AttemptsSpent(d)' = AttemptsSpent(d) /\ Unwritten(d)' = Unwritten(d) \ {w}
    BY <2>1 DEF CopiesAndCredits, Balance, ContributingCalls, AttemptsSpent, Unwritten
  <2>3. CASE d \in Batch[worker[w].task]
    <3>1. w \in Unwritten(d) /\ vector'[d] = vector[d] + 1
      BY <2>1, <2>3 DEF Unwritten
    <3>2. QED
      BY <1>0, <2>2, <3>1, SizesAreNumbers, CreditUsed DEF Balance
  <2>4. CASE d \notin Batch[worker[w].task]
    <3>1. vector'[d] <= vector[d]
      BY <1>0, <2>1, <2>4
    <3>2. QED
      BY <2>1, <3>1, QuietStepBalances DEF Rests
  <2>5. QED
    BY <2>3, <2>4
<1>4. ASSUME NEW w \in Workers, WorkFtsAdd(w) \/ WorkFails(w) \/ ServerCrash(w)
      PROVE  Balance(d)'
  <2>1. added' = added \ {w} /\ vector' = vector
    BY <1>4 DEF WorkFtsAdd, WorkFails, ServerCrash, FtsAdd
  <2>2. PICK pc : pc # "working" /\ worker' = [worker EXCEPT ![w] = [pc |-> pc, task |-> worker'[w].task]]
    BY <1>4 DEF WorkFtsAdd, WorkFails, ServerCrash, FinishWork, Crash, GoTo, TypeOK
  <2>3. \A v \in Workers : worker'[v].pc = "working" => v # w /\ Rests(v)
    BY <2>2 DEF TypeOK, Rests
  <2>4. QED
    BY <1>0, <2>1, <2>3, QuietStepBalances
<1>5. ASSUME NEW c \in Calls, NEW w \in Workers, PostIngest(c, w) PROVE Balance(d)'
  <2>1. /\ worker' = worker /\ rows' = rows /\ added' = added /\ call[c].at = "new"
        /\ vector'[d] = vector[d] + IF d \in {call[c].doc} THEN 1 ELSE 0
    BY <1>5 DEF PostIngest, VectorAdd, vars
  <2>2. /\ Balance(d) /\ ContributingCalls(d) \subseteq ContributingCalls(d)'
        /\ AttemptsSpent(d)' = AttemptsSpent(d) /\ Unwritten(d)' = Unwritten(d)
    BY <2>1, CallsContribute DEF CopiesAndCredits, Balance, AttemptsSpent, Unwritten
  <2>3. CASE d = call[c].doc
    <3>1. c \notin ContributingCalls(d) /\ vector'[d] = vector[d] + 1
      BY <2>1, <2>3 DEF ContributingCalls
    <3>2. c \in ContributingCalls(d)'
      BY <1>5, <2>3, PostIngestMoves DEF ServerTypeOK, ContributingCalls
    <3>3. QED
      BY <1>0, <2>2, <3>1, <3>2, SizesAreNumbers, CallPaysItsWay DEF Balance
  <2>4. CASE d # call[c].doc
    <3>1. vector'[d] <= vector[d]
      BY <1>0, <2>1, <2>4
    <3>2. QED
      BY <2>1, <3>1, QuietStepBalances DEF Rests
  <2>5. QED
    BY <2>3, <2>4
<1>6. ASSUME NEW c \in Calls, NEW w \in Workers, DeleteDoc(c, w) PROVE Balance(d)'
  <2>1. worker' = worker /\ added' = added /\ vector' = [vector EXCEPT ![call[c].doc] = 0]
    BY <1>6 DEF DeleteDoc, VectorDelete, vars
  <2>2. vector'[d] <= vector[d]
    BY <1>0, <2>1
  <2>3. QED
    BY <2>1, <2>2, QuietStepBalances DEF Rests
<1>7. CASE worker' = worker /\ added' = added /\ vector' = vector
  BY <1>0, <1>7, QuietStepBalances DEF Rests
<1>8. QED
  BY <1>1, <1>2, <1>3, <1>4, <1>5, <1>6, <1>7
     DEF ServerNext, QueueStep, PostBatch, EnqueueBatch, FinishIngest, FinishDelete, CallFails,
         FtsAdd, FtsDelete, server, vars

-----------------------------------------------------------------------------
(* The theorems *)

\* What a step of the server preserves, given the queue's own invariant.
ServerIInv ==
  /\ ServerTypeOK
  /\ BusyHoldsTask /\ ImportHasFile /\ AbsentIsUntried
  /\ FirstHalfWritten /\ DeletingIsOnRecord
  /\ SucceededIsSearchable /\ DoneIsSearchable /\ HitsHaveRows
  /\ NothingBringsBack /\ DeleteSticks
  /\ CopiesAndCredits

LEMMA CreditsAreFinite ==
  ASSUME TypeOK, NEW d
  PROVE  /\ IsFiniteSet(AttemptsSpent(d)) /\ IsFiniteSet(ContributingCalls(d))
         /\ IsFiniteSet(Unwritten(d))
<1>1. IsFiniteSet(AttemptsSpent(d))
  BY SpentIsFinite DEF TypeOK, AttemptsSpent
<1>2. IsFiniteSet(ContributingCalls(d))
  BY FS_Subset DEF ContributingCalls
<1>3. IsFiniteSet(Unwritten(d))
  BY FS_Subset DEF Unwritten
<1>4. QED
  BY <1>1, <1>2, <1>3

LEMMA NobodyOwesACopy ==
  ASSUME ServerInit
  PROVE  CopiesAndCredits
<1> SUFFICES ASSUME NEW d \in Docs PROVE Balance(d)
  BY DEF CopiesAndCredits, Balance
<1>1. vector[d] = 0 /\ Unwritten(d) = {}
  BY DEF ServerInit, Init, StoreInit, Unwritten
<1>2. TypeOK
  BY DEF ServerInit, Init, TypeOK, Absent, Unowned, Row, TaskState, Phase
<1>3. Cardinality(AttemptsSpent(d)) \in Nat /\ Cardinality(ContributingCalls(d)) \in Nat
  BY <1>2, CreditsAreFinite, FS_CardinalityType
<1>4. QED
  BY <1>1, <1>3, FS_EmptySet DEF Balance

LEMMA ServerStartsWell ==
  ASSUME ServerInit
  PROVE  ServerIInv
<1>1. \A c \in Calls : call[c] \in CallState /\ call[c].at = "new" /\ ~call[c].undisturbed
  <2> SUFFICES ASSUME NEW c \in Calls
               PROVE  call[c] \in CallState /\ call[c].at = "new" /\ ~call[c].undisturbed
    OBVIOUS
  <2>1. PICK e \in Docs : call[c] = [at |-> "new", doc |-> e, process |-> NoWorker,
                                     undisturbed |-> FALSE]
    BY DEF ServerInit
  <2>2. QED
    BY <2>1 DEF CallState
<1>2. ServerTypeOK
  BY <1>1 DEF ServerInit, StoreInit, ServerTypeOK, StoreTypeOK
<1>3. BusyHoldsTask /\ ImportHasFile /\ AbsentIsUntried
  BY DEF ServerInit, Init, Absent, Unowned, BusyHoldsTask, ImportHasFile, AbsentIsUntried
<1>4. FirstHalfWritten /\ DeletingIsOnRecord
  BY <1>1 DEF ServerInit, FirstHalfWritten, DeletingIsOnRecord
<1>5. SucceededIsSearchable /\ DoneIsSearchable /\ HitsHaveRows
  BY DEF ServerInit, Init, StoreInit, Absent, Unowned, SucceededIsSearchable,
         DoneIsSearchable, HitsHaveRows
<1>6. NothingBringsBack /\ DeleteSticks
  BY <1>1 DEF ServerInit, NothingBringsBack, DeleteSticks
<1>7. QED
  BY <1>2, <1>3, <1>4, <1>5, <1>6, NobodyOwesACopy DEF ServerIInv

LEMMA ServerKeepsWell ==
  ASSUME TypeOK, TypeOK', OwnedWhileProcessing, LegacyNeverLost, ServerIInv, [ServerNext]_server
  PROVE  ServerIInv'
<1>1. [Next]_vars
  BY ServerStepIsQueueStep
<1>2. ServerTypeOK'
  BY ServerTypeKept DEF ServerIInv
<1>3. BusyHoldsTask' /\ ImportHasFile' /\ AbsentIsUntried'
  BY <1>1, BusyHoldsTaskKept, ImportHasFileKept, AbsentIsUntriedKept DEF ServerIInv
<1>4. FirstHalfWritten' /\ DeletingIsOnRecord'
  BY FirstHalfWrittenKept, OnRecordKept DEF ServerIInv
<1>5. SucceededIsSearchable' /\ DoneIsSearchable' /\ HitsHaveRows'
  BY SucceededKept, DoneKept, HitsHaveRowsKept DEF ServerIInv
<1>6. NothingBringsBack' /\ DeleteSticks'
  BY NothingBringsBackKept, DeleteSticksKept DEF ServerIInv
<1>7. CopiesAndCredits'
  BY <1>2, CopiesAndCreditsKept DEF ServerIInv
<1>8. QED
  BY <1>2, <1>3, <1>4, <1>5, <1>6, <1>7 DEF ServerIInv

LEMMA ServerInductive == ServerSpec => [](ServerIInv /\ QueueInv)
<1>1. ServerInit => ServerIInv
  BY ServerStartsWell
<1>2. QueueInv => TypeOK /\ OwnedWhileProcessing /\ LegacyNeverLost
  BY DEF QueueInv
<1>3. QueueInv /\ QueueInv' /\ ServerIInv /\ [ServerNext]_server => ServerIInv'
  BY ServerKeepsWell DEF QueueInv
<1>4. QED
  BY <1>1, <1>3, ServerRunsTheQueue, QueueCorrect, PTL DEF ServerSpec

LEMMA CreditsImplyPaidFor ==
  ASSUME ServerTypeOK, TypeOK, CopiesAndCredits
  PROVE  CopiesArePaidFor
<1> SUFFICES ASSUME NEW d \in Docs
             PROVE  vector[d] <= Cardinality(AttemptsSpent(d)) + Cardinality(ContributingCalls(d))
  BY DEF CopiesArePaidFor
<1>1. /\ IsFiniteSet(AttemptsSpent(d)) /\ IsFiniteSet(ContributingCalls(d))
      /\ IsFiniteSet(Unwritten(d)) /\ vector[d] \in Nat
  BY CreditsAreFinite DEF ServerTypeOK, StoreTypeOK
<1>2. /\ Cardinality(AttemptsSpent(d)) \in Nat /\ Cardinality(ContributingCalls(d)) \in Nat
      /\ Cardinality(Unwritten(d)) \in Nat
  BY <1>1, FS_CardinalityType
<1>3. QED
  BY <1>1, <1>2 DEF CopiesAndCredits

\* The stores, the direct calls and the queue keep their invariant together: no
\* crash, lost lease or retry leaves a row nobody paid for, or a Tantivy entry
\* without its Lance row.
THEOREM ServerCorrect == ServerSpec => []ServerInv
<1>1. ServerIInv /\ QueueInv => ServerInv
  BY CreditsImplyPaidFor DEF ServerIInv, QueueInv, ServerInv
<1>2. QED
  BY <1>1, ServerInductive, PTL

\* A batch reported done is searchable in full.
THEOREM DoneCorrect == ServerSpec => []DoneIsSearchable
<1>1. ServerIInv => DoneIsSearchable
  BY DEF ServerIInv
<1>2. QED
  BY <1>1, ServerInductive, PTL

\* An answered delete that nothing was undoing stays done.
THEOREM DeleteCorrect == ServerSpec => []DeleteSticks
<1>1. ServerIInv => DeleteSticks
  BY DEF ServerIInv
<1>2. QED
  BY <1>1, ServerInductive, PTL
=============================================================================
