----------------------------- MODULE SyncOutbox -----------------------------
(***************************************************************************)
(* The sync outbox (src-tauri/src/sync/mod.rs): rows that wait to be sent  *)
(* to a server, and the three loops that send them.  push_pending sends    *)
(* to the index server, drain_cb_outbox posts manifests to the cloud       *)
(* backup in one request, drain_cb_file_uploads sends files to it.  They   *)
(* share the table, claim without a lease and may run at the same time.    *)
(* Queued_at is taken to follow the ids.                                   *)
(***************************************************************************)
EXTENDS Naturals, FiniteSets, Sequences, SequencesExt

CONSTANTS
  Entries,     \* ids of sync_outbox, in AUTOINCREMENT order
  Pushers, Drainers, Uploaders,  \* concurrent calls of each loop
  MaxTries,    \* the 10 of claim_batch
  Batch,       \* the limit of each loop's claims
  MaxCrashes   \* bound: restarts of the app

ASSUME OutboxAssumption ==
  /\ Entries \subseteq Nat /\ IsFiniteSet(Entries)
  /\ MaxTries \in Nat \ {0} /\ MaxCrashes \in Nat
  /\ Batch \in [Pushers \cup Drainers \cup Uploaders -> Nat \ {0}]
  /\ Pushers \cap Drainers = {} /\ (Pushers \cup Drainers) \cap Uploaders = {}

Kinds == {"ingest", "cb_manifest_push", "cb_file_upload"}
Loops == Pushers \cup Drainers \cup Uploaders

VARIABLES
  outbox,    \* sync_outbox
  onDisk,    \* entries whose file to upload exists
  loop,      \* todo: claimed rows not looked at yet; batch: rows in the request
  accepted,  \* history: entries the server took
  crashes

outboxVars == <<outbox, onDisk, loop, accepted, crashes>>

Idle == [pc |-> "idle", todo |-> <<>>, batch |-> <<>>, answer |-> "none"]
Sorting(rows) == [pc |-> "sorting", todo |-> rows, batch |-> <<>>, answer |-> "none"]

OutboxTypeOK ==
  /\ outbox \in [Entries -> [status : {"unused", "queued", "gone"}, op : Kinds \cup {"none"},
                             readable : BOOLEAN, retries : Nat]]
  /\ onDisk \subseteq Entries /\ accepted \subseteq Entries
  /\ crashes \in 0..MaxCrashes
  /\ \A l \in Loops :
       /\ loop[l].pc \in {"idle", "sorting", "marking"}
       /\ loop[l].todo \in Seq(Entries) /\ loop[l].batch \in Seq(Entries)
       /\ loop[l].answer \in {"none", "ok", "error"}
       /\ loop[l].pc = "marking" => loop[l].batch # <<>> /\ loop[l].answer # "none"

OutboxInit ==
  /\ outbox = [e \in Entries |-> [status |-> "unused", op |-> "none",
                                  readable |-> TRUE, retries |-> 0]]
  /\ onDisk = {} /\ accepted = {} /\ crashes = 0
  /\ loop = [l \in Loops |-> Idle]

Queued(e) == outbox[e].status = "queued"
Pending == {e \in Entries : Queued(e) /\ outbox[e].retries < MaxTries}
Oldest(ids, limit) == {e \in ids : Cardinality({f \in ids : f < e}) < limit}
InOrder(ids) == {rows \in [1 .. Cardinality(ids) -> ids] :
                   \A j, k \in DOMAIN rows : j < k => rows[j] < rows[k]}
OfOp(op) == {e \in Entries : outbox[e].op = op}

-----------------------------------------------------------------------------
(* The rows *)

Enqueue(e, op, readable) ==
  /\ outbox[e].status = "unused"
  /\ \A f \in Entries : f < e => outbox[f].status # "unused"
  /\ outbox' = [outbox EXCEPT ![e] = [status |-> "queued", op |-> op,
                                      readable |-> readable, retries |-> 0]]
  /\ onDisk' = IF op = "cb_file_upload" THEN onDisk \cup {e} ELSE onDisk
  /\ UNCHANGED <<loop, accepted, crashes>>

MarkDone(e) == outbox' = [outbox EXCEPT ![e].status = "gone"]

\* Mutant: the error is stored and the count is not.
MarkErrorUncounted(e) == UNCHANGED outbox

\* The row may be gone by now.
MarkError(e) ==
  outbox' = IF Queued(e) THEN [outbox EXCEPT ![e].retries = @ + 1] ELSE outbox

ClearFailed ==
  /\ \E e \in Entries : Queued(e) /\ outbox[e].retries >= MaxTries
  /\ outbox' = [e \in Entries |-> IF Queued(e) /\ outbox[e].retries >= MaxTries
                                  THEN [outbox[e] EXCEPT !.status = "gone"] ELSE outbox[e]]
  /\ UNCHANGED <<onDisk, loop, accepted, crashes>>

\* The user moves or deletes the file.
FileGone(e) ==
  /\ e \in onDisk /\ onDisk' = onDisk \ {e}
  /\ UNCHANGED <<outbox, loop, accepted, crashes>>

-----------------------------------------------------------------------------
(* The loops *)

\* drain_cb_outbox claims first and filters what it claimed.
Claimed(l) ==
  CASE l \in Pushers -> Oldest(Pending, Batch[l])
    [] l \in Drainers -> Oldest(Pending, Batch[l]) \cap OfOp("cb_manifest_push")
    [] OTHER -> Oldest(Pending \cap OfOp("cb_file_upload"), Batch[l])

Claim(l) ==
  /\ loop[l].pc = "idle" /\ Claimed(l) # {}
  /\ \E rows \in InOrder(Claimed(l)) : loop' = [loop EXCEPT ![l] = Sorting(rows)]
  /\ UNCHANGED <<outbox, onDisk, accepted, crashes>>

\* What push_pending and the drains do not send: an operation the server has no
\* endpoint for, and a payload that does not parse.
Refuses(l, e) == ~outbox[e].readable \/ (l \in Pushers /\ outbox[e].op # "ingest")

\* On to the next row of the claim, or back to wait for the next tick.
Skip(l) ==
  LET rest == Tail(loop[l].todo) IN
  loop' = [loop EXCEPT ![l] = IF rest = <<>> /\ loop[l].batch = <<>> THEN Idle
                              ELSE [loop[l] EXCEPT !.todo = rest]]

\* Every mark's error is ignored: the mark may be lost.
Refuse(l) ==
  /\ loop[l].pc = "sorting" /\ loop[l].todo # <<>>
  /\ LET e == Head(loop[l].todo) IN
       /\ Refuses(l, e)
       /\ MarkError(e) \/ UNCHANGED outbox
  /\ Skip(l)
  /\ UNCHANGED <<onDisk, accepted, crashes>>

\* A file that is no longer there is silently done.
Missing(l) ==
  /\ l \in Uploaders /\ loop[l].pc = "sorting" /\ loop[l].todo # <<>>
  /\ LET e == Head(loop[l].todo) IN
       /\ ~Refuses(l, e) /\ e \notin onDisk
       /\ MarkDone(e) \/ UNCHANGED outbox
  /\ Skip(l)
  /\ UNCHANGED <<onDisk, accepted, crashes>>

\* A manifest that parses joins the one request.
Gather(l) ==
  /\ l \in Drainers /\ loop[l].pc = "sorting" /\ loop[l].todo # <<>>
  /\ LET e == Head(loop[l].todo) IN
       /\ ~Refuses(l, e)
       /\ loop' = [loop EXCEPT ![l] = [loop[l] EXCEPT !.todo = Tail(loop[l].todo),
                                                   !.batch = Append(loop[l].batch, e)]]
  /\ UNCHANGED <<outbox, onDisk, accepted, crashes>>

\* The request and its answer: the server may take the rows and the answer be
\* lost.
Request(l, rows, todo) ==
  \E answer \in {"ok", "error"}, took \in BOOLEAN :
    /\ answer = "ok" => took
    /\ accepted' = IF took THEN accepted \cup ToSet(rows) ELSE accepted
    /\ loop' = [loop EXCEPT ![l] = [pc |-> "marking", todo |-> todo,
                                    batch |-> rows, answer |-> answer]]
    /\ UNCHANGED <<outbox, onDisk, crashes>>

Send(l) ==
  /\ loop[l].pc = "sorting"
  /\ \/ /\ l \in Drainers /\ loop[l].todo = <<>> /\ loop[l].batch # <<>>
        /\ Request(l, loop[l].batch, <<>>)
     \/ /\ l \notin Drainers /\ loop[l].todo # <<>>
        /\ LET e == Head(loop[l].todo) IN
             /\ ~Refuses(l, e)
             /\ l \in Uploaders => e \in onDisk
             /\ Request(l, <<e>>, Tail(loop[l].todo))

\* Mutant: what was sent is done, whatever the answer.
VerdictDone(l, e) == MarkDone(e)

Verdict(l, e) == IF loop[l].answer = "ok" THEN MarkDone(e) ELSE MarkError(e)

\* Mutant: the loop does not see that the batch is over.
MarkedOn(l, rest) ==
  loop' = [loop EXCEPT ![l] = [loop[l] EXCEPT !.batch = rest]]

\* The next row of the request, or of the claim, or the next tick.
Marked(l, rest) ==
  loop' = [loop EXCEPT ![l] =
             CASE rest # <<>> -> [loop[l] EXCEPT !.batch = rest]
               [] rest = <<>> /\ loop[l].todo # <<>> -> Sorting(loop[l].todo)
               [] OTHER -> Idle]

Mark(l) ==
  /\ loop[l].pc = "marking"
  /\ LET e == Head(loop[l].batch) IN Verdict(l, e) \/ UNCHANGED outbox
  /\ Marked(l, Tail(loop[l].batch))
  /\ UNCHANGED <<onDisk, accepted, crashes>>

CrashApp ==
  /\ crashes < MaxCrashes /\ crashes' = crashes + 1
  /\ loop' = [l \in Loops |-> Idle]
  /\ UNCHANGED <<outbox, onDisk, accepted>>

-----------------------------------------------------------------------------
LoopStep(l) == Claim(l) \/ Refuse(l) \/ Missing(l) \/ Gather(l) \/ Send(l) \/ Mark(l)

OutboxNext ==
  \/ \E e \in Entries, op \in Kinds, readable \in BOOLEAN : Enqueue(e, op, readable)
  \/ \E e \in Entries : FileGone(e)
  \/ \E l \in Loops : LoopStep(l)
  \/ ClearFailed \/ CrashApp

OutboxSpec == OutboxInit /\ [][OutboxNext]_outboxVars

\* The two drains run every 30 seconds, requests have timeouts, and the database
\* does not refuse a mark for ever.  push_pending runs when the user asks.
OutboxFairSpec ==
  /\ OutboxSpec
  /\ \A l \in Drainers \cup Uploaders :
       /\ WF_outboxVars(LoopStep(l))
       /\ SF_outboxVars(LoopStep(l) /\ outbox' # outbox)

-----------------------------------------------------------------------------
(* Properties *)

\* A row leaves the outbox because its server took it, because the user cleared
\* what was given up, or because its file is gone: not by the answer to another
\* loop, a lost mark or a restart.
LeavesAccountedFor ==
  [][\A e \in Entries : Queued(e) /\ outbox'[e].status = "gone" =>
       \/ e \in accepted
       \/ outbox[e].retries >= MaxTries
       \/ outbox[e].op = "cb_file_upload" /\ e \notin onDisk]_outboxVars

\* Rows that are pending come to an end although failing ones take the places of
\* the batch: they leave, or are given up.
EntriesSettle ==
  \A e \in Entries :
    e \in Pending \ OfOp("ingest") ~> e \notin Pending \/ Pending \cap OfOp("ingest") # {}
=============================================================================
