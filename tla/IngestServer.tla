---------------------------- MODULE IngestServer ----------------------------
(***************************************************************************)
(* crisp-index-server as a whole: the durable queue (IngestQueue) feeding  *)
(* the two stores (SearchStore) through its worker, next to the handlers   *)
(* that write to the stores directly, POST /v1/ingest and DELETE           *)
(* /v1/docs/:id.  Every write to both stores is two steps, with crashes,   *)
(* failures and every other handler in between.                            *)
(***************************************************************************)
EXTENDS IngestQueue, SearchStore

CONSTANTS
  Batch,      \* task -> the documents of its batch
  Calls       \* bound: HTTP calls that write to the stores directly

\* The last three: a run of the server has finitely many of each.
ASSUME ServerAssumption ==
  /\ Batch \in [Tasks -> SUBSET Docs]
  /\ IsFiniteSet(Tasks)
  /\ IsFiniteSet(Workers)
  /\ IsFiniteSet(Calls)

VARIABLES
  added,    \* workers whose batch is in Lance and not yet in Tantivy
  call,     \* direct calls: not made, between their two writes, or answered
  deleted,  \* history: documents some client asked to delete
  gone      \* history: documents deleted while nothing was bringing them back

historyVars == <<deleted, gone>>
server == <<rows, json, worker, vector, fts, added, call, deleted, gone>>

\* A direct call between its two writes belongs to the process that runs it.
\* "undisturbed": a delete that nothing could undo so far.
CallState ==
  [at : {"new", "ingesting", "deleting", "over"},
   doc : Docs, process : Workers \cup {NoWorker}, undisturbed : BOOLEAN]

ServerTypeOK ==
  /\ StoreTypeOK
  /\ added \subseteq Workers
  /\ call \in [Calls -> CallState]
  /\ deleted \subseteq Docs
  /\ gone \subseteq deleted

ServerInit ==
  /\ Init
  /\ StoreInit
  /\ added = {}
  /\ call \in [Calls -> {[at |-> "new", doc |-> d, process |-> NoWorker,
                          undisturbed |-> FALSE] : d \in Docs}]
  /\ deleted = {}
  /\ gone = {}

-----------------------------------------------------------------------------
(* Bookkeeping of who can still write a document *)

\* Something accepted earlier may still add d: a task that is not over, a
\* worker still busy with it (its lease lost or not), or a direct ingest.
Pending(d) ==
  \/ \E t \in Tasks : d \in Batch[t] /\ rows[t].state \in {"queued", "processing"}
  \/ \E w \in Workers : worker[w].task # NoTask /\ d \in Batch[worker[w].task]
  \/ \E c \in Calls : call[c].at = "ingesting" /\ call[c].doc = d
  \/ json = "present" /\ \E t \in DOMAIN Legacy : d \in Batch[t]

\* Accepting docs again ends what was said of their deletion.
Disturbed(docs, calls) ==
  [c \in Calls |-> IF calls[c].doc \in docs
                   THEN [calls[c] EXCEPT !.undisturbed = FALSE] ELSE calls[c]]

-----------------------------------------------------------------------------
(* The worker's work: hydrate, Lance, Tantivy *)

\* Mutant: the batch may be added again within one attempt.
WorkVectorAddAgain(w) ==
  /\ worker[w].pc = "working"
  /\ VectorAdd(Batch[worker[w].task])
  /\ added' = added \cup {w}
  /\ UNCHANGED <<vars, call, historyVars>>

\* SearchIndex::ingest_batch, first half.
WorkVectorAdd(w) ==
  /\ worker[w].pc = "working" /\ w \notin added
  /\ VectorAdd(Batch[worker[w].task])
  /\ added' = added \cup {w}
  /\ UNCHANGED <<vars, call, historyVars>>

\* Second half; the work is done.
WorkFtsAdd(w) ==
  /\ w \in added
  /\ FtsAdd(Batch[worker[w].task])
  /\ FinishWork(w, "succeeded")
  /\ added' = added \ {w}
  /\ UNCHANGED <<call, historyVars>>

\* Mutant: the error is logged and the task goes on to mark_done.
WorkFailsSilently(w) ==
  /\ FinishWork(w, "succeeded")
  /\ added' = added \ {w}
  /\ UNCHANGED <<vector, fts, call, historyVars>>

\* hydrate_missing_embeddings, the Lance add or the Tantivy write fails (another
\* writer holds its lock): nothing that was written is taken back.
WorkFails(w) ==
  /\ FinishWork(w, "errored")
  /\ added' = added \ {w}
  /\ UNCHANGED <<vector, fts, call, historyVars>>

QueueStep ==
  /\ \/ \E w \in Workers : \/ Startup(w)
                           \/ ClaimNextTask(w) \/ ClaimNothing(w)
                           \/ RenewLease(w) \/ Verdict(w)
     \/ GetTaskStatus
     \/ Tick
  /\ UNCHANGED <<vector, fts, added, call, historyVars>>

\* A process takes its worker's work and its open calls with it.
ServerCrash(w) ==
  /\ Crash(w)
  /\ added' = added \ {w}
  /\ call' = [c \in Calls |-> IF call[c].process = w /\ call[c].at # "over"
                              THEN [call[c] EXCEPT !.at = "over"] ELSE call[c]]
  /\ UNCHANGED <<vector, fts, historyVars>>

PostBatch(t) ==
  /\ EnqueueBatch(t)
  /\ gone' = gone \ Batch[t]
  /\ call' = Disturbed(Batch[t], call)
  /\ UNCHANGED <<vector, fts, added, deleted>>

-----------------------------------------------------------------------------
(* Direct calls *)

Advance(c, at, process, undisturbed) ==
  [call EXCEPT ![c] = [@ EXCEPT !.at = at, !.process = process,
                                !.undisturbed = undisturbed]]

\* Mutant: Tantivy first.
PostIngestFtsFirst(c, w) ==
  /\ w \in Serving /\ call[c].at = "new"
  /\ FtsAdd({call[c].doc})
  /\ call' = Disturbed({call[c].doc}, Advance(c, "ingesting", w, FALSE))
  /\ gone' = gone \ {call[c].doc}
  /\ UNCHANGED <<vars, added, deleted>>

\* POST /v1/ingest, Lance first ...
PostIngest(c, w) ==
  /\ w \in Serving /\ call[c].at = "new"
  /\ VectorAdd({call[c].doc})
  /\ call' = Disturbed({call[c].doc}, Advance(c, "ingesting", w, FALSE))
  /\ gone' = gone \ {call[c].doc}
  /\ UNCHANGED <<vars, added, deleted>>

\* ... then Tantivy, and the answer 200.
FinishIngest(c) ==
  /\ call[c].at = "ingesting"
  /\ FtsAdd({call[c].doc})
  /\ call' = Advance(c, "over", call[c].process, FALSE)
  /\ UNCHANGED <<vars, added, historyVars>>

\* DELETE /v1/docs/:id, Lance first ...
DeleteDoc(c, w) ==
  /\ w \in Serving /\ call[c].at = "new"
  /\ VectorDelete(call[c].doc)
  /\ call' = Advance(c, "deleting", w, ~Pending(call[c].doc))
  /\ deleted' = deleted \cup {call[c].doc}
  /\ UNCHANGED <<vars, added, gone>>

\* ... then Tantivy, and the answer 200.
FinishDelete(c) ==
  /\ call[c].at = "deleting"
  /\ FtsDelete(call[c].doc)
  /\ call' = Advance(c, "over", call[c].process, FALSE)
  /\ gone' = IF call[c].undisturbed THEN gone \cup {call[c].doc} ELSE gone
  /\ UNCHANGED <<vars, added, deleted>>

\* The Tantivy write of a direct call fails: 500, the Lance write stays.
CallFails(c) ==
  /\ call[c].at \in {"ingesting", "deleting"}
  /\ call' = Advance(c, "over", call[c].process, FALSE)
  /\ UNCHANGED <<vars, vector, fts, added, historyVars>>

-----------------------------------------------------------------------------
ServerNext ==
  \/ QueueStep
  \/ \E w \in Workers : WorkVectorAdd(w) \/ WorkFtsAdd(w) \/ WorkFails(w) \/ ServerCrash(w)
  \/ \E t \in Tasks : PostBatch(t)
  \/ \E c \in Calls : \/ \E w \in Workers : PostIngest(c, w) \/ DeleteDoc(c, w)
                      \/ FinishIngest(c) \/ FinishDelete(c) \/ CallFails(c)

ServerSpec == ServerInit /\ [][ServerNext]_server

-----------------------------------------------------------------------------
(* Properties *)

\* A batch reported done was written to both stores in full: each of its
\* documents is searchable, unless a client has asked to delete it.  Crashes
\* between the two writes, lost leases and lost verdicts do not break it.
DoneIsSearchable ==
  \A t \in Tasks \ DOMAIN Legacy : rows[t].state = "done" =>
    \A d \in Batch[t] \ deleted : vector[d] > 0 /\ d \in fts

\* Tantivy never knows a document Lance has no row for (a hit that cannot be
\* hydrated, index.rs:466), as long as nobody deletes it: Lance is written
\* first by every path and a failed second half leaves only Lance ahead.
HitsHaveRows ==
  \A d \in fts \ deleted : vector[d] > 0

\* A delete that was answered while nothing was bringing the document back
\* stays done until a client sends the document again: no queued retry, no
\* worker that lost its lease and no crash resurrects it.
DeleteSticks ==
  \A d \in gone : vector[d] = 0 /\ d \notin fts

\* Every copy of a document's row was paid for by an attempt or by a direct
\* call: a worker never adds a batch twice in one attempt.
ContributingCalls(d) == {c \in Calls : call[c].doc = d /\ call[c].at # "new"}
AttemptsSpent(d) ==
  UNION {{t} \X (1..rows[t].attempts) : t \in {t \in Tasks : d \in Batch[t]}}
CopiesArePaidFor ==
  \A d \in Docs :
    vector[d] <= Cardinality(AttemptsSpent(d)) + Cardinality(ContributingCalls(d))

\* The stores and calls are well formed, no row is there that nobody paid for,
\* Lance knows what Tantivy knows, and the queue keeps its own invariant under
\* the worker of the whole server.
ServerInv == ServerTypeOK /\ CopiesArePaidFor /\ HitsHaveRows /\ QueueInv
=============================================================================
