--------------------------- MODULE OfflineReplay ---------------------------
(***************************************************************************)
(* The offline queue (src-tauri/src/sync/offline_queue.rs) and its replay  *)
(* (replay_offline_queue in sync/tauri_commands.rs): failed drive writes   *)
(* are staged as a file and queued as a row, and replayed by the           *)
(* maintenance loop and by the "replay" command, which may run at the same *)
(* time.  A replay reads a batch once and works through it; every row      *)
(* operation is one statement.  Created_at is taken to follow the ids.     *)
(***************************************************************************)
EXTENDS Naturals, FiniteSets, Sequences, SequencesExt

CONSTANTS
  Ops,          \* ids of queued_ops, in AUTOINCREMENT order
  Replayers,    \* concurrent calls of replay_offline_queue
  Maintenance,  \* the one of them that the maintenance loop makes
  MaxRetries,   \* MAX_RETRIES
  BatchLimit,   \* the limit each of them passes
  MaxCrashes,   \* bound: restarts of the app
  MaxResets     \* bound: presses of "retry failed"

ASSUME OfflineAssumption ==
  /\ Ops \subseteq Nat /\ IsFiniteSet(Ops) /\ Maintenance \in Replayers /\ MaxRetries \in Nat \ {0}
  /\ BatchLimit \in [Replayers -> Nat \ {0}]
  /\ MaxCrashes \in Nat /\ MaxResets \in Nat

VARIABLES
  op,        \* queued_ops
  files,     \* staged files, by the op they were staged for
  replay,    \* the replayers
  uploaded,  \* history: ops whose bytes arrived
  withdrawn, \* history: ops cancelled while no replay had them in its batch
  crashes, resets

offlineVars == <<op, files, replay, uploaded, withdrawn, crashes, resets>>

OfflineTypeOK ==
  /\ op \in [Ops -> [status : {"unused", "pending", "failed", "cancelled", "gone"},
                     retries : Nat, type : {"drive_upload", "other"}]]
  /\ files \subseteq Ops /\ uploaded \subseteq Ops /\ withdrawn \subseteq Ops
  /\ \A r \in Replayers :
       /\ replay[r].pc \in {"idle", "entry", "uploading", "cleaning", "finishing", "failing"}
       /\ replay[r].batch \in Seq(Ops)
       /\ replay[r].pc # "idle" => replay[r].batch # <<>>
  /\ crashes \in 0..MaxCrashes /\ resets \in 0..MaxResets

OfflineInit ==
  /\ op = [o \in Ops |-> [status |-> "unused", retries |-> 0, type |-> "drive_upload"]]
  /\ files = {} /\ uploaded = {} /\ withdrawn = {}
  /\ replay = [r \in Replayers |-> [pc |-> "idle", batch |-> <<>>]]
  /\ crashes = 0 /\ resets = 0

Stored(o) == op[o].status \notin {"unused", "gone"}
Entry(r) == Head(replay[r].batch)
Working(r, pc) == replay[r].pc = pc
Goto(r, pc) == replay' = [replay EXCEPT ![r].pc = pc]

\* On to the next entry of the batch.
NextEntry(r) ==
  LET rest == Tail(replay[r].batch) IN
  replay' = [replay EXCEPT ![r] = [pc |-> IF rest = <<>> THEN "idle" ELSE "entry",
                                   batch |-> rest]]

-----------------------------------------------------------------------------
(* The rows *)

\* queue_failed_drive_upload stages the bytes first; sync_offline_enqueue takes
\* operations of any type.
Enqueue(o, type) ==
  /\ op[o].status = "unused"
  /\ \A p \in Ops : p < o => op[p].status # "unused"
  /\ files' = IF type = "drive_upload" THEN files \cup {o} ELSE files
  /\ op' = [op EXCEPT ![o] = [status |-> "pending", retries |-> 0, type |-> type]]
  /\ UNCHANGED <<replay, uploaded, withdrawn, crashes, resets>>

\* dequeue_batch: ORDER BY created_at LIMIT.
Due == {o \in Ops : op[o].status = "pending" /\ op[o].retries < MaxRetries}
First(r) == {o \in Due : Cardinality({p \in Due : p < o}) < BatchLimit[r]}
Batches(r) == {b \in [1 .. Cardinality(First(r)) -> First(r)] :
                 \A j, k \in DOMAIN b : j < k => b[j] < b[k]}

MarkDone(o) == op' = [op EXCEPT ![o].status = "gone"]

\* Mutant: the budget is compared with the count before this failure.
AfterFailureLate(c) ==
  [c EXCEPT !.retries = c.retries + 1,
            !.status = IF c.retries >= MaxRetries THEN "failed" ELSE "pending"]

AfterFailure(c) ==
  [c EXCEPT !.retries = c.retries + 1,
            !.status = IF c.retries + 1 >= MaxRetries THEN "failed" ELSE "pending"]

\* The row may be cancelled or gone by now: the UPDATE asks only for its id.
MarkFailed(o) == op' = IF Stored(o) THEN [op EXCEPT ![o] = AfterFailure(op[o])] ELSE op

CancelOp(o) ==
  /\ op[o].status = "pending"
  /\ op' = [op EXCEPT ![o].status = "cancelled"]
  /\ withdrawn' = IF \E r \in Replayers : Contains(replay[r].batch, o)
                   THEN withdrawn ELSE withdrawn \cup {o}
  /\ UNCHANGED <<files, replay, uploaded, crashes, resets>>

\* Mutant: every row that is not pending is reset.
RetryEverything ==
  /\ resets < MaxResets
  /\ op' = [o \in Ops |-> IF Stored(o) THEN [op[o] EXCEPT !.status = "pending", !.retries = 0]
                          ELSE op[o]]
  /\ resets' = resets + 1
  /\ UNCHANGED <<files, replay, uploaded, withdrawn, crashes>>

RetryAllFailed ==
  /\ resets < MaxResets
  /\ \E o \in Ops : op[o].status = "failed"
  /\ op' = [o \in Ops |-> IF op[o].status = "failed"
                          THEN [op[o] EXCEPT !.status = "pending", !.retries = 0]
                          ELSE op[o]]
  /\ resets' = resets + 1
  /\ UNCHANGED <<files, replay, uploaded, withdrawn, crashes>>

\* purge_old: the failed ones that are older than the cut, here after o.
PurgeOld(o) ==
  /\ op[o].status = "failed"
  /\ op' = [p \in Ops |-> IF p <= o /\ op[p].status = "failed"
                          THEN [op[p] EXCEPT !.status = "gone"] ELSE op[p]]
  /\ UNCHANGED <<files, replay, uploaded, withdrawn, crashes, resets>>

-----------------------------------------------------------------------------
(* replay_offline_queue *)

Begin(r) ==
  /\ Working(r, "idle") /\ Due # {}
  /\ \E b \in Batches(r) : replay' = [replay EXCEPT ![r] = [pc |-> "entry", batch |-> b]]
  /\ UNCHANGED <<op, files, uploaded, withdrawn, crashes, resets>>

\* The staged bytes are read; an operation of another type, and a file that
\* cannot be read, fail.
Read(r) ==
  /\ Working(r, "entry")
  /\ \/ op[Entry(r)].type = "drive_upload" /\ Entry(r) \in files /\ Goto(r, "uploading")
     \/ Goto(r, "failing")
  /\ UNCHANGED <<op, files, uploaded, withdrawn, crashes, resets>>

\* Mutant: the bytes are dropped when the transfer is submitted.
UploadDropping(r) ==
  /\ Working(r, "uploading")
  /\ files' = files \ {Entry(r)}
  /\ \/ /\ uploaded' = uploaded \cup {Entry(r)}
        /\ Goto(r, "finishing")
     \/ Goto(r, "failing") /\ UNCHANGED <<uploaded>>
  /\ UNCHANGED <<op, withdrawn, crashes, resets>>

\* The transfer queue's answer: bytes can arrive and be reported as an error.
Upload(r) ==
  /\ Working(r, "uploading")
  /\ \/ /\ uploaded' = uploaded \cup {Entry(r)}
        /\ Goto(r, "cleaning") \/ Goto(r, "failing")
     \/ Goto(r, "failing") /\ UNCHANGED <<uploaded>>
  /\ UNCHANGED <<op, files, withdrawn, crashes, resets>>

\* remove_file, its error ignored.
Clean(r) ==
  /\ Working(r, "cleaning")
  /\ files' \in {files, files \ {Entry(r)}}
  /\ Goto(r, "finishing")
  /\ UNCHANGED <<op, uploaded, withdrawn, crashes, resets>>

\* mark_done; if the database refuses, the rest of the batch is given up.
Finish(r) ==
  /\ Working(r, "finishing")
  /\ \/ MarkDone(Entry(r)) /\ NextEntry(r)
     \/ replay' = [replay EXCEPT ![r] = [pc |-> "idle", batch |-> <<>>]] /\ UNCHANGED op
  /\ UNCHANGED <<files, uploaded, withdrawn, crashes, resets>>

\* Mutant: what failed is dropped like what succeeded.
FailDone(r) ==
  /\ Working(r, "failing")
  /\ MarkDone(Entry(r)) /\ NextEntry(r)
  /\ UNCHANGED <<files, uploaded, withdrawn, crashes, resets>>

Fail(r) ==
  /\ Working(r, "failing")
  /\ \/ MarkFailed(Entry(r)) /\ NextEntry(r)
     \/ replay' = [replay EXCEPT ![r] = [pc |-> "idle", batch |-> <<>>]] /\ UNCHANGED op
  /\ UNCHANGED <<files, uploaded, withdrawn, crashes, resets>>

\* The app stops: the rows and the staged files are what is left.
CrashApp ==
  /\ crashes < MaxCrashes /\ crashes' = crashes + 1
  /\ replay' = [r \in Replayers |-> [pc |-> "idle", batch |-> <<>>]]
  /\ UNCHANGED <<op, files, uploaded, withdrawn, resets>>

-----------------------------------------------------------------------------
ReplayStep(r) == Begin(r) \/ Read(r) \/ Upload(r) \/ Clean(r) \/ Finish(r) \/ Fail(r)

OfflineNext ==
  \/ \E o \in Ops, type \in {"drive_upload", "other"} : Enqueue(o, type)
  \/ \E o \in Ops : CancelOp(o) \/ PurgeOld(o)
  \/ RetryAllFailed
  \/ \E r \in Replayers : ReplayStep(r)
  \/ CrashApp

OfflineSpec == OfflineInit /\ [][OfflineNext]_offlineVars

\* The maintenance loop comes round, its probe succeeds in the end, and the
\* database does not refuse a verdict for ever.  The command is not owed.
OfflineFairSpec ==
  /\ OfflineSpec
  /\ WF_offlineVars(ReplayStep(Maintenance))
  /\ SF_offlineVars((Finish(Maintenance) \/ Fail(Maintenance)) /\ op' # op)

-----------------------------------------------------------------------------
(* Properties *)

\* Staged bytes are there until they have arrived: no order of replays, errors
\* and restarts deletes the only copy of a write that is still queued.
BytesKept ==
  \A o \in Ops : Stored(o) /\ op[o].type = "drive_upload" /\ o \notin uploaded => o \in files

\* An operation leaves the queue because its bytes arrived, or because it had
\* failed for good and was purged.
GoneIsAccountedFor ==
  [][\A o \in Ops : Stored(o) /\ op'[o].status = "gone"
        => o \in uploaded \/ op[o].status = "failed"]_offlineVars

\* An operation that is pending can be replayed: the two conditions of
\* dequeue_batch never part, whoever counts the failures.
PendingHasBudget == \A o \in Ops : op[o].status = "pending" => op[o].retries < MaxRetries

\* Rows, staged files and replays are well formed, what is pending is due, and
\* the only copy of a write that has not arrived is kept.
ReplayInv == OfflineTypeOK /\ PendingHasBudget /\ BytesKept

\* An operation that is cancelled while no replay has read it stays cancelled,
\* and with it its record: replays, verdicts and resets of the others pass it by.
CancelledStaysCancelled == \A o \in withdrawn : op[o].status = "cancelled"

\* No pending operation waits for ever: it arrives, fails for good, or is
\* cancelled, although failing operations take the places of the batch.
PendingSettles == \A o \in Ops : op[o].status = "pending" ~> op[o].status # "pending"
=============================================================================
