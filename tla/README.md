# CrispSorter: a TLA+ model of its queues, stores, runs and sync

CrispSorter sorts, indexes and backs up documents. It is a Tauri desktop app
(`src-tauri`, Rust; `src`, Svelte), an optional self-hosted search server
(`crisp-index-server`), and a set of crates (catalogues, cloud-drive clients).
Most of its lines are conversions (extractors, PDF tools, protocol clients, user
interface). What is hard in it is small: queues that survive a crash, leases,
two stores written one after the other, runs of workers that outlive the button
that started them, outboxes, retries, cancellations. This directory models those.
Paths below are relative to the repository's root.

Contents: 1 inventory · 2 modules and how they correspond to the code · 3 runs ·
4 bounds and abstractions · 5 fairness · 6 proofs · 7 where code and
documentation disagree · 8 what is not modelled.

## 1. Inventory

| component | source | state | operations | hard because | modelled in |
|---|---|---|---|---|---|
| ingest task queue | `crisp-index-server/src/queue.rs` | SQLite table `ingest_tasks`, the legacy `ingest_tasks.json`, one worker loop per server process | open/migrate/reclaim, enqueue, status, claim, heartbeat, mark done, mark failed or requeue | leases, two processes during a restart, crashes anywhere, an import that is a commit plus a rename | `IngestQueue` |
| index server | `crisp-index-server/src/{index,main,embedder}.rs`, `routes/*` | a LanceDB table and a Tantivy index; the handlers keep nothing | ingest, batch ingest, delete, update_location, search, task status, rows_since | two stores and no transaction over both; handlers next to the worker | `IngestServer`, `SearchStore` |
| desktop job queue | `src-tauri/src/jobs/mod.rs` | SQLite tables `ingest_jobs` (with counters) and `file_queue` | create, add files, claim, mark done/error/skipped, reclaim, remove | counters kept beside rows, no ownership token | `JobQueue` |
| ingest panel | `src/lib/components/IndexIngest.svelte` | per mounted view: active job, running, paused, abort controller; per call of `startIngest`: its batch | mount, start, stop, pause, add, remove, clear | awaits between reads and writes of shared variables, runs that outlive their view | `IngestRuns` |
| background ingest | `src-tauri/src/bg_ingest/mod.rs` | in-memory queue, status, worker count | enqueue, ensure workers, pause, resume, cancel, clear, worker loop | status and counter read and written at different times by several tasks | `BackgroundIngest` |
| batch store | `src/lib/batch/store.svelte.ts`, `BatchReview.svelte`, `src-tauri/src/batch_session/mod.rs` | the list of items, the flags of the manager, per run its index and queue; session rows | add, remove, clear, start, stop, forced stop, reset, reprocess, extraction and LLM workers, saves, resume | workers share an index and a queue, items are removed under them, a stop is noticed late, what is saved is a copy of a moment | `BatchRun` |
| batch sorting | `executeSorting`, `executeBatch`, the command `execute_batch` in `src-tauri/src/lib.rs` | the files, the items' status and target, `isExecuting` | ask, begin, sidecar, rename or copy, remove the source, apply the answer | files with one name, errors in the middle, edits and a second click meanwhile, restarts | `BatchSort` |
| LLM providers and consent | `queryRR` in the batch store, `lib/llm/client.ts`, `thirdPartyConsent.ts`, `ThirdPartyAiConsent.svelte` | round-robin index, providers sidelined or cooling, the dialog, the consent setting | sweep, query with retries, cooldown, ask, grant, withdraw, stop | several callers, one dialog, one record read and written back; text must not leave without a yes | `LlmProviders` |
| transfer queue | `src-tauri/src/sync/transfer_queue.rs` | registry of transfers, semaphore, cancel flags and notifications | submit, run with retries, cancel, prune | cancellation racing start, I/O, back-off and completion; a registry at its limit | `TransferQueue`, `TransferPromise` |
| offline queue | `src-tauri/src/sync/offline_queue.rs`, `replay_offline_queue` in `tauri_commands.rs` | SQLite table `queued_ops`, staged files | enqueue, dequeue batch, mark done/failed, cancel, retry failed, purge, replay | two replays at once, a cancel during a replay, a crash between file and row | `OfflineReplay` |
| sync manager | `src-tauri/src/sync/mod.rs` | SQLite tables `sync_outbox`, `sync_state` | enqueue, claim, push, two drains, clear failed; pull | at-least-once delivery without leases by three loops; a pull by watermark | `SyncOutbox` (not the pull) |
| sync pairs, conflict policies, delta | `sync/pairs.rs`, `conflict.rs`, `delta.rs` | pairs file; otherwise pure | add/remove/update, resolve, diff/patch | sequential functions | no |
| backup state and scheduler | `sync/backup_state.rs`, `backup_scheduler.rs` | SQLite runs and shard watermarks | start/finish run, record shard, next wake | a run interrupted by a crash, time boundaries | no |
| cloud backup client | `sync/cloud_backup.rs`, `partition.rs` | remote API, manifests, partition map | push, pull, register shards | calls to a remote API | no |
| local index | `src-tauri/src/index/*` | LanceDB, Tantivy, SQLite side tables | ingest, search, versioning, retention, migrations | the same pair of stores as the server's | no |
| watcher and rules | `src-tauri/src/watcher/*` | watch handles, rules | watch, unwatch, events | debouncing | no |
| secrets and vaults | `src-tauri/src/secrets/*` | keychain or passphrase vault | get, put, switch, move | moving secrets between vaults | no |
| pdf editing sessions | `src-tauri/src/pdf_session.rs` | a list of edits and a cursor per document | open, edit, undo, save | conversions under one lock | no |
| drives, OAuth, folder access, audit | `src-tauri/src/{drives,folder_access,audit}` | tokens, bookmarks, log | I/O | network and file I/O | no |
| extractors, speech, translation, pdf tools, user interface, command line | the rest of `src-tauri/src`, `src` | none that outlives a call | conversions | no state machine | no |
| catalogue and drive crates | `crates/*` | files, remote services | parse, scan, encrypt, transfer | conversions and I/O | no |
| vendored code | `patches/*`, `static/pdf.worker*`, `gh_temp` | | | third-party | no |

How they interact. The ingest panel drives the job queue by `invoke` calls and writes
the local index; `bg_ingest_start` feeds the background ingest, which writes the same
index and enqueues manifests and uploads in the sync outbox; three loops send the
outbox, one of them to the index server's `POST /v1/ingest`. The index server
answers batches with a task id, and its worker takes them from the durable queue to
the two stores, next to the handlers that write to the stores directly. The batch
store extracts files and asks the language models about them, saves what it learns to
the session rows, and hands accepted items to the sort command, after which the index
is told the new path. A drive write that fails is staged in the offline queue; its
replay submits it to the transfer queue, which runs every upload and download.

What makes each correct: an accepted task, file, row or operation is never lost,
ends, and is not reported done before it is; a verdict comes from whoever is
entitled to it; budgets of attempts and permits add up; a stop, a cancel, a pause, a
delete or a withdrawn consent takes effect and lasts; no content is lost on the way to
its new place; stores that should agree do, where the code says so.

## 2. Modules and the code

Definitions keep the names of the code where TLA+ allows it; `PROJECT.json` maps
every one to its lines. An operator whose comment starts with "Mutant:" is not part
of the specification: it is a plausible defect of the definition it precedes, used
to see that a property notices it.

**`IngestQueue`** — `queue.rs`. `rows` is the table `ingest_tasks`, `json` the legacy
file, `worker[w]` one server process: its startup, then its worker loop and the task
in hand. Each method that opens one SQLite transaction is one action
(`ClaimNextTask` reclaims, selects, and updates); the startup is several, as the
import is a commit followed by a rename. The handlers are `EnqueueBatch` and
`GetTaskStatus`, which reclaims before it reads. `Crash` may come at any point;
`MarkLost` is a verdict whose write failed, which the loop logs. Absolute deadlines
are kept as the time left; `Tick` shortens them.

**`TaskLifecycle`** — what a client that polls `GET /v1/tasks/:id` is promised.
`IngestQueue` implements it (`ImplementsLifecycle`).

**`SearchStore`, `IngestServer`** — `index.rs` and the routes. `vector` counts a
document's `chunk_index = 0` rows in Lance, which only appends; `fts` is Tantivy,
which replaces. `IngestServer` extends the queue and the stores, splits every
write to both stores into its two halves, and lets the worker, direct ingests,
deletes, failures and crashes interleave. A worker of the server is one of the queue:
`ServerSpec` refines the queue's `Spec`, which is a theorem. `deleted` and `gone` are
histories.

**`JobQueue`** — `jobs/mod.rs`, one operator per method; no behaviour of its own.

**`IngestRuns`** — `IndexIngest.svelte` on `JobQueue`. `view[v]` is one mounted
instance of the component, `run[n]` one call of `startIngest` or `startL1Ingest`,
with a step between any two awaits. A run reads and writes the variables of its own
view even after the view was unmounted, which is what makes it hard.

**`BackgroundIngest`** — `bg_ingest/mod.rs`. A step is what happens between taking
and releasing the mutex, or one access to `active_workers` outside of it.
`ensure_worker` is `Count`, `Recount` and one `Spawn` per worker; `worker_loop` is
`ExitStopping`, `ExitEmpty`, `Take`, `Finish`.

**`BatchRun`** — `processAll` and everything the user can do to a list while it runs.
`listed` and `item` are the list, `mgr` the manager's flags (`processing`, `stop`, the
abort controller), `run[n]` one call of `processAll` with the index its extractors
share and the queue its LLM workers take from, `worker[n][w]` one worker at its
await, `saved` and `stored` the session rows. Between two awaits everything else may
happen: `Visit` takes the next position of a list that rows may have been
removed from, `Take` waits for an item or for the close of the queue,
`Finish`/`Flushed` are the end of the run and its bulk save. `Stop` is a click,
`StopAgain` the forced one, `ForceReset` the reset that frees the flags while the
workers still await, `Restart` the app closed and `resumeLastSession`.

**`BatchSort`** — the sort. `files` maps paths to contents, the content of an item
being the item itself, so that two items with one target, or a sidecar that takes the
target of a text file, are seen to overwrite each other. `Click` tests `isExecuting`,
`Begin` sets it, with the user's answer in between; the steps `Refuse`,
`WriteSidecar`, `Rename`, `Copy`, `TransferFails`, `RemoveSource` are the loop of
`execute_batch`; `Apply` is what `executeBatch` does with the answer, to whatever the
items are by then. `trampled`, `sentTo`, `muddled` are histories.

**`LlmProviders`** — `queryRR` and `LLMClient.query`. `call[w]` is what a caller awaits:
the record of consents, the dialog, the setting being read and written, a request, a
pause between two tries, a sleep until a provider has cooled down. `Sweep` is the
synchronous part of `queryRR`, from one request to the next or to the end.
`first` is `rrIdx`, `broken` is `rrBroken`, `parked` the cooldowns.

**`TransferQueue`, `TransferPromise`** — `transfer_queue.rs`. `task[j]` is a task of
`run_with_retries` with its place, its attempt, the result in hand, the cancelled
flag, and whether a Notify it listens to has fired. Testing the flag and beginning
to listen are two steps, so a cancel in between is missed, as `notify_waiters` is.
`TransferPromise` is what a caller's handle promises; `outcome` maps to it.

**`OfflineReplay`** — `offline_queue.rs` and the replay. A replay reads a batch, and
works through it: reading the staged file, the upload, removing the file, the
verdict, each a step. Two replays (the maintenance loop, the command) run at once.

**`SyncOutbox`** — the outbox of `sync/mod.rs`. `loop[l]` is one call of
`push_pending`, `drain_cb_outbox` or `drain_cb_file_uploads`: rows claimed and not
looked at, rows in the request, and the answer being marked row by row.

**`MC…`** modules give constants for TLC. **`IngestQueueProofs`**,
**`IngestServerProofs`**, **`IngestRunsProofs`**, **`BatchRunProofs`**,
**`BatchSortProofs`**, **`LlmProvidersProofs`**, **`OfflineReplayProofs`** and
**`BackgroundWorkProofs`** (transfer queue, background ingest, outbox) hold the theorems
(section 6).

## 3. Runs

| run | instance | shows |
|---|---|---|
| `ingest_queue` | 2 new tasks and a legacy one, interrupted on its last attempt and unreadable; 2 processes, a crash and restart; lease 2, budget 2 | `QueueInv`: types, one owner per row in progress, attempts within the budget and failures not early, no legacy task lost. `FirstAttemptsInOrder`. `LeaseProtectsOwner`: nobody else touches a row whose lease runs. `ImplementsLifecycle`: verdicts are final and a poll never sees a step back. `EveryTaskEnds` |
| `ingest_server` | a batch and two direct calls on one document, 3 processes of which 2 alive | `ServerInv`: every hit has a row, no row is added that no attempt or call paid for, and the queue's invariant in the composition. `DoneIsSearchable`. `DeleteSticks`: a delete that was answered is not undone by what was accepted before |
| `ingest_runs_views` | one file, 2 jobs, 2 views, 2 runs at either level, restarts | `RunsInv`: types; two runs hold one file only after a reclaim took it from the first. `DoneIsIndexed`, `DoneIsNeverRequeued`. `InProgressIsHeld`: a file in progress is in the hands of the run that claimed it, or that run died or could not write its verdict |
| `ingest_runs_batches` | two files in a batch, a full run, pauses | `RunsEnd`: a run that is not left paused ends |
| `background_ingest` | 3 starts, 3 files, 3 workers, pauses, cancels, clears | `SchedulerInv`: the counter is exact, no file is lost or taken twice. `SomebodyActs`: no status is left behind that nobody will change. `AskedIsTaken` |
| `batch_run` | two files, 2 runs, an extraction and an LLM worker each, and one mishap: a stop, a reset, a removal, a second run for one file, a sort, a restart, a failing call | `BatchInv`: one worker per item unless a run was cut off; what is removed stays gone. `FlagTellsTheTruth`. `QuietIsSaved`: a restart shows what was on the screen. `RunSettlesItsItems`. `ComesToRest`: every run ends and nothing stays at "extracting" or "analyzing" |
| `batch_sort` | a text file and another file, two names, 2 sorts in 3 modes, an edit, a reset, restarts | `SortInv`: the last copy of a content is never taken away, only overwritten by another of the same name. `DoneIsThere`, `ErrorLeavesSource`. `SortsEnd` |
| `llm_providers` | a remote and a local provider, 2 LLM workers and a chat, 2 tries, a burst, 3 calls, a click | `ProvidersInv`: one request per dialog; a call that fails unasked has its reasons. `SentOnlyWithPermission`. `StopIsObeyed`. `CallsEnd` |
| `llm_fallback` | two providers, one worker, one call; violation | `NoFallbackOverlooked` fails: section 7 |
| `transfer_queue` | 2 jobs, 1 permit, 2 retries, a registry of 1 | `TransferInv`: permits add up, live jobs stay registered, what is shown is true. `CancelIsObeyed`: a job cancelled at rest does no more I/O. `KeepsPromise`: the queue implements `TransferPromise`. `TransfersEnd` |
| `offline_replay` | 2 operations, 2 replays, 2 retries, a restart, a reset | `ReplayInv`: staged bytes are kept until they arrived, and what is pending is due. `CancelledStaysCancelled` outside of a replay's batch. `GoneIsAccountedFor`. `PendingSettles` |
| `sync_outbox` | 2 rows of any of three kinds, the 3 loops, 2 tries, a restart | `OutboxTypeOK`. `LeavesAccountedFor`: a row leaves only because its server took it, its file is gone, or the user cleared it. `EntriesSettle`: the rows of the drains come to an end |

The twelve runs take some ten minutes; `ingest_runs_views` has the most states (1.7
million), the others have between 45,000 and 580,000.

## 4. Bounds and abstractions

Every bound is a constant with "bound" in its comment, or a guard that says so.

- *Two of everything that competes.* The hazards are of two actors on one thing: two
  processes on a task, two runs on a row, two replays on a batch, two sorts of one
  list, two callers and one dialog, a cancel and a task. A third process or view is
  there where one must die to make room. Budgets of two attempts show a retry and a
  last one. A registry of one and a permit of one make eviction and waiting happen at
  once. `BatchSize`, batch limits and the outbox's claims are 1 where a batch must
  leave work behind and 2 where rows of one batch must meet.
- *Mishaps.* `batch_run` allows one disturbance per behaviour (`MaxMishaps`), of any
  kind and at any point, and a forced stop after a stop; two workers of each kind
  would add states and no new pair of steps, since two runs already bring two workers
  of each kind together. `llm_providers` allows one withdrawal or stop; three
  calls are enough for a chat to ask for consent while two workers are under way.
- *Colliding names.* `BatchSort` begins with all items at one target: the text file's
  target is the path of the other's sidecar. Distinct names, the usual case, are
  reached by the edit.
- *Time.* `IngestQueue` keeps the time left; `Lease = 2` with `RetryBase = 1`
  distinguishes an early heartbeat, a late one and an expired lease. Elsewhere a
  timeout, a cooldown or a back-off is a step that may be taken at any time.
- *Counters.* Attempts are bounded by their budgets. Restarts, resets and views are
  bounded by constants; `Crash`, `Unmount` and `CloseApp` leave a spare so that the
  bounded system does not just run out of processes or views.
- *Order.* Ids are used in the order AUTOINCREMENT (or `NEXT_JOB_ID`) gives them,
  and `created_at` and `queued_at` are taken to follow the ids. The batch list is in
  the order of the ids; that no property depends on the display order is assumed.
- *Data.* A document is followed through its first chunk, a file through its row, a
  payload is readable or not. Extraction, embedding and a model's answer have an
  outcome and no content. One SQLite transaction or statement under the connection's
  lock is one step; LanceDB, Tantivy, tokio's semaphore and Notify are modelled by what
  the code relies on.
- *Symmetry* is used over process ids and over direct calls in `ingest_server`, which
  checks invariants only: nothing orders them.
- *`MCView`* (in `MCIngestRuns`) leaves out of a state what neither a later step nor a
  property of the run can tell apart: the counters (no guard reads them), facts
  about rows that are gone and views nothing uses, `claimant` and `taken` of rows
  nobody holds. Only `ingest_runs_views` uses it, which checks invariants and one
  action property over row states.
- *Deadlock* is checked for the task queue and the server, whose processes always have
  a step. The other systems do stop (all files done, all presses of a button used up),
  so their cfgs say `CHECK_DEADLOCK FALSE`; that nothing stops early is what the
  liveness properties say.
- In `background_ingest` `Concurrency` is 1, the only value the app sets
  (`bg_ingest/mod.rs`, `Default`), with several starts. In `TransferQueue` jobs are
  registered in the order of their ids.
- `ingest_runs_views` has no pauses and `ingest_runs_batches` has them: a paused run
  stays where it is, which matters to liveness and adds nothing to who holds what.

## 5. Fairness

- `IngestQueue`: a supervisor restarts a dead server (weak fairness of the startup);
  the worker loop goes on; `ingest_batch` returns; time passes. Heartbeats, requests
  and crashes are never owed. The unreadable payload ends because its leases expire
  and each claim costs an attempt.
- `IngestRuns`: weak fairness of each run: JavaScript goes on and a pending `invoke`
  is answered. The user owes nothing.
- `BackgroundIngest`: the runtime polls every task that is ready, and a file's
  extraction ends (it has a timeout).
- `BatchRun`: weak fairness of "some pending await is answered": an extraction ends by
  its timeout, a request by the client's. No particular worker is favoured, and no
  click is owed, not even the forced stop.
- `BatchSort`: weak fairness of the command and of its answer. The user does not owe
  an answer to the question: a sort that is still asking has not begun.
- `LlmProviders`: weak fairness of what is pending: requests are answered or time out,
  pauses and cooldowns end, the settings store answers. The user's answer is not part
  of it; `CallsEnd` says on its left side that dialogs do not stay open for ever.
- `TransferQueue`: weak fairness of each task's steps (I/O has timeouts), strong
  fairness of `Acquire` because tokio's semaphore is first come, first served: a
  job that waits is not passed over for ever.
- `OfflineReplay`: weak fairness of the maintenance loop's replay; the database does
  not refuse its verdicts for ever (strong fairness of a verdict that changes the
  row). The command is the user's and is not owed.
- `SyncOutbox`: the same for the two drains, which run every 30 seconds. `push_pending`
  runs when the user asks, so `EntriesSettle` speaks of the rows of the drains, in
  states without rows that only a push would send (see section 7 for the others).

## 6. Proofs

TLAPS proves the theorems below for all values of the constants that satisfy the
modules' assumptions, which say only that bounds are positive where the code's are,
that sets of rows, jobs or files are finite, that ids are numbers, and that the "no
such thing" values are not things (`ParameterAssumption` and `LegacyAssumption`: a
legacy file is one the older release wrote; `ServerAssumption`, `TransferAssumption`,
`QueueAssumption`, `RunsAssumption`, `BackgroundAssumption`, `OfflineAssumption`,
`OutboxAssumption`, `SortAssumption`, `ProvidersAssumption`, and `BatchAssumption`: a run
has at least one worker of each kind, as `store.svelte.ts:490` clamps both numbers to
1 to 16). Every proof has the same shape: an inductive invariant (`IndInv` or `IInv`), one
lemma per action of the code, and the theorems from `Spec => []IndInv`. Every safety
invariant and every action property that a run checks is proved.

`IngestQueueProofs`: `QueueCorrect`, `OrderCorrect`, `OwnershipCorrect`,
`AttemptsCorrect`, `LegacyCorrect`, `TerminalIsFinalCorrect`,
`LeaseProtectsOwnerCorrect`, `LifecycleImplemented`. Most of the system's steps change
many rows at once (a reclaim, an import, a tick), so the proof first shows, action by
action, that each row makes one of a few kinds of move (`RowStep`), and then argues
about moves. A queued row has budget left, a processing row has been begun; a row
nobody tried is due, which is what keeps first attempts in order; a process only
renames the legacy file after the import was committed. That "owner" and "processing"
go together is the invariant that matters: `mark_done` and `mark_failed_or_requeue`
test `worker_id` alone.

`IngestServerProofs`: `ServerRunsTheQueue`, `ServerCorrect`, `DoneCorrect`,
`DeleteCorrect`. The first shows that each step of the server is a step of the queue or
leaves it alone, so the queue's theorems carry over and its invariant is available in
the rest. Three arguments follow, each over the few kinds of move that a step makes in a
store (`VectorStep`, `FtsStep`), in a direct call (`CallStep`) or in a worker.
Who is between the two writes has written the first (`FirstHalfWritten`), and work is
called a success after both (`SucceededIsSearchable`), so a done task is searchable.
The bound on copies is not inductive by itself: an attempt that has begun and not yet
appended must still have its copy to its credit. `CopiesAndCredits` counts copies plus
outstanding credits, and a step adds nothing, begins an attempt, or uses a credit;
attempts are never taken back, not even by a reclaim. For deletes `NothingBringsBack`
says that no queued, held or half-written work, and no legacy file, has a document that
is gone, or that an undisturbed delete is about to remove; a document leaves that state
only when a client sends it (`PendingNeedsClient`), which disturbs the delete.

Transfers, in `BackgroundWorkProofs`: `InvCorrect`, `CancelCorrect`, `PermitsCorrect`, `LiveCorrect`,
`FinalCorrect`, `PromiseImplemented`. Every step moves one job, so one lemma shows that
a step keeps the invariant if the job it moves is left as `JobOK` says and the permit
moves with it. `JobOK` is needed because the properties alone are not inductive: a job
that was cancelled at rest has its flag set and has not gone past the next test of it; a
good result in hand means that the bytes arrived; a job about to sleep has an attempt
left.

`IngestRunsProofs`: `RunsCorrect`, `DoneIsIndexedCorrect`, `HeldCorrect`,
`NeverRequeuedCorrect`. The operations of the job queue are summed up by what they do to
rows (`RowEffect`: which rows they finish, which they put back). `Phased` says what
a run has in hand at each await, `Exclusive` that two runs share only what a reclaim
took, `AllCovered` that a row in progress has somebody or an excuse; `Keeps` then shows
once that the invariant survives any change with an acceptable effect.

Background ingest, in `BackgroundWorkProofs`: `SchedulerCorrect`, `SomebodyActsCorrect`. `Accounts` relates
the counter to the workers alive and those a start is still to spawn; lemmas about
cardinalities carry it through spawns and exits.

`OfflineReplayProofs`: `ReplayCorrect`, `CancelledCorrect`, `GoneCorrect`. `OpOK` says
where an operation's bytes are, `ReplayOK` what a replay knows about the head of its
batch although another replay, a cancel or a reset may have changed the row since.

The outbox, in `BackgroundWorkProofs`: `OutboxCorrect`, `LeavesCorrect`. `LoopOK` says that a loop marking
an answer "ok" holds only rows that were accepted, whatever the other loops did to
them meanwhile; `RowsMove` that rows keep their kind.

`BatchRunProofs`: `BatchCorrect`, `FlagCorrect`, `SavedCorrect`, `SettlesCorrect`. The
properties are far from inductive: two workers of a run could be handed one file by a
queue and an index that overlap, and nothing in the properties says they do not. `IInv`
has these parts. `HoldsWhat`: a worker has a file exactly when it is at one. `Flags`:
`isProcessing` and the abort controller belong to one run that is on, and a run without
them was cut off or failed; it is what makes two busy workers of different runs an
excused case. `Hands`: within a run the files held and queued are all different and
their places in the list are below the shared index, so what the index comes to next
is in nobody's hands. It has to survive rows being removed in front of the index, which
only moves files down (`PlaceAfterRemoval`), and files being added, which go to the
end because ids only grow; that is in `Rows`, with the fact that what was removed while
nobody had it is in no run's hands. `Dirty`: a difference between a file and its row is
that of a run whose last save is still to come, of a failed run, or of a failed save.
`Calm`: in a run nobody disturbed each file of the scope is in hand, ahead of the index,
or settled, the analysts' files have the run's own abort signal, and an analyst is only
gone when the queue is empty and the extractors are. The worker's steps are first
reduced to four ways in which what a run has in hand can change (`Gives`, `GoesOn`,
`Visits`, `Takes`), and the clicks to three things that can happen to the runs
(`ClickMoves`), so each part of the invariant is argued about a few moves. The last
theorem also needs that only `Finish` ends a run's work (`OnlyFinishFlushes`), and that
each kind of worker exists: a run without analysts would leave its queue behind.

`BatchSortProofs`: `SortCorrect`, `DoneCorrect`, `ErrorCorrect`. `Stays` is the fact about the file
system every step keeps (a content that is at a target stays there or is trampled);
`SortOK` says of each running sort that the results it has so far are true, `Sent` that
a done item's content is where it was sent, and `RemoveSource` is only reached once the
copy is there. `Orderly` holds as long as no two sorts overlapped: each item comes up
once, and its source goes only when its result says that it was moved.

`LlmProvidersProofs`: `ProvidersCorrect`, `PermissionCorrect`, `StopCorrect`. `PlaceOK` is
what a call's place says about the sweep it is in, `ConsentOK` what it says about the
user's answers, `RecordOK` that the record, and every copy of it on its way back, holds
only providers that were agreed to. `SweepResult` is about the synchronous part of
`queryRR`: what it passes over and where it stops.

Only model-checked: everything under fairness (`EveryTaskEnds`, `RunsEnd`,
`AskedIsTaken`, `ComesToRest`, `SortsEnd`, `CallsEnd`, `TransfersEnd`, `PendingSettles`,
`EntriesSettle`), which is out of the prover's reach, and `NoFallbackOverlooked`, which is
false.

## 7. Where code and documentation disagree

One disagreement has a run that shows it, `llm_fallback`: when a provider fails,
`queryRR` moves `rrIdx` past it while its loop's offset moves too
(`store.svelte.ts:957`), so the sum skips a provider. With two providers the item fails
although the second was never asked; `HISTORY.md:3953` says that "processAll phase 2
cycles through fallback providers on failure".

Others were met while modelling. The models behave as the code does, and no property
states the documentation's version.

Server and queues:

- `crisp-index-server/src/index.rs:135` appends; `crisp-index-server/README.md:173` says
  re-ingesting the same chunk overwrites the previous record.
- `queue.rs:709` queues an interrupted legacy task whatever its count, so it may be
  attempted once more than `QUEUE_MAX_ATTEMPTS`, which "includ[es] the first try"
  (`crisp-index-server/README.md:70`). `MostAttempts` has the exact bound.
- `IndexIngest.svelte:1621`: a run that drained the queue sets its job done without
  looking again, so a file added meanwhile is pending in a job that no mount looks at
  (line 843); `jobs/mod.rs:3` says that on restart exactly the unfinished files are
  picked back up.
- `onMount` may switch `activeJobId` under a run, which then reclaims and closes a
  job that is not its own and leaves its own row in progress. `InProgressIsHeld` excuses
  exactly that.
- A run paused in a view that is then unmounted polls for ever: no button reaches it.
  Two calls of `addPaths` that both find no job create two. Neither is modelled as a
  property, as the code does not prevent them.
- `jobs/mod.rs:342` adds the length of the list to `done_files`, so a file reclaimed from
  a live run and done twice is counted twice; the counters count verdicts, not files.

Background ingest:

- `bg_ingest/mod.rs:235` counts workers and spawns without the mutex, so two starts
  may both spawn; the comment at line 217 says no extras are spawned.
- `bg_ingest/mod.rs:229` sets Running before the workers exist; one that leaves
  in between sets Idle over it, and files are ingested under Idle, where pause and
  cancel do nothing (line 78 says the status drives those buttons).
- `bg_ingest/mod.rs:226`: a start made while a worker has yet to notice Stopping spawns
  nobody, and its files wait for another start; `lib.rs:657` says it starts the worker
  if it is not running. `AskedIsTaken` therefore excludes starts during a stop.

Batch store, sorting and providers:

- `store.svelte.ts:213` says items reset to "queued" are extracted again; a worker keeps
  the text they have, or restores it from the database (line 579).
- The comment at line 194 lets workers run "to a clean exit" after a forced stop. They
  do not all: one whose run was cut off still writes its item's status, while a new run
  may be at the same item. `OneWorkerPerItem` has the exact exception.
- Line 444 says the queue "back-pressures at QUEUE_CAP"; no such limit exists.
- In the script modes nothing is moved, yet items are marked done and, for
  `script_move`, the index is told the new path (line 1306). The path it is told is the
  target the item has when the answer comes, not the one that was sent.
- `client.ts:360` throws `RateLimitError` "so the caller picks the next provider
  immediately"; the `catch` of the same `try` (line 372) retries it like any failure
  until the tries are used up.
- `store.svelte.ts:968`: after its second sweep a call may sleep for the soonest cooldown
  once more, and then fails without having looked again.
- `thirdPartyConsent.ts:132` and `:141` read the record, await, and write it back, so a
  grant and a withdrawal that overlap lose one of the two. `SentOnlyWithPermission`
  excuses exactly this overlap.

Sync:

- A panicking transfer closure leaves its job shown as active for ever, and the registry
  does not evict it (`transfer_queue.rs:525`).
- `offline_queue.rs:182`: the verdict of a replay that read its batch before a cancel
  makes the cancelled row pending again; line 188 says a cancel retains the record.
  `CancelledStaysCancelled` therefore speaks of cancels outside of a replay's batch.
- `tauri_commands.rs:994`: a replay goes on after a failure, so two writes of one
  path may arrive in reverse; `offline_queue.rs:11` says FIFO.
- `tauri_commands.rs:949`: an unsupported operation is retried like any other; line 945
  calls the failure terminal.
- `tauri_commands.rs:1161`: the watermark of a pull moves to the largest `indexed_at` of a
  page that is neither ordered nor complete.
- `sync/mod.rs:412`: `drain_cb_outbox` claims rows of every operation and filters, so
  rows nobody sends hide manifests for ever; `lib.rs:3188` says the next tick picks
  them up. `EntriesSettle` therefore excludes states with rows only a push sends.
- `sync/mod.rs:206`: failures are counted for ever, so ten ticks of an outage give every
  queued row up; `bg_ingest/mod.rs:353` says the outbox preserves the intent.
- `sync/mod.rs:308`: `push_pending` charges the tries of rows other loops send.

Watcher (read, not modelled): starting a watch again with another mode updates
`entry.mode` (`watcher/mod.rs:401`), but the handler keeps the mode it captured; nothing
listens to `folder-watch:auto-process`.

## 8. Not modelled

Within the modelled components:

- index server: `update_location`, index builds and searching;
- ingest panel: level L2's promotion, the creation of two jobs by two `addPaths` at
  once, what it displays;
- background ingest: the inside of `ingest_one`, and a panic of an extractor (it would
  leave `active_workers` raised); a panic of a transfer's closure is modelled;
- batch store: the undo history, rules, selection, duplicates, and what is displayed;
  a file is extracted as one step (its stages have timeouts and no effect on others);
- sorting: the export of scripts, undo, and folders the user may not write to;
- providers: those that run inside the app, model lists, starting local servers;
- sync manager: the pull and its conflict table; the blocking wrappers of the transfer
  queue.

Whole components, with the reason:

- *sync pairs, conflict policies, delta*: configuration rows, and sequential functions
  of two snapshots that no other actor sees half done; their unit tests walk through
  the cases.
- *backup state and scheduler*: the scheduler computes what is due from stored jobs and
  starts nothing itself; `backup_state` writes one row per call.
- *cloud backup client*: what can go wrong depends on a server that is not in the
  repository.
- *watcher and rules*: its events end in the user interface; `folder-watch:added` adds an
  item to the batch, which is `BatchRun`'s `AddItem`.
- *local index*: the same pair of stores as the server's, which `SearchStore` models where
  several clients share them; searching is a conversion.
- *secrets and vaults*: calls to the operating system's keychain.
- *pdf editing sessions*: a list of edits and a cursor under one lock; what an edit does
  is a conversion of a PDF.
- *drives, OAuth, folder access, audit; extractors, speech, translation, pdf tools, user
  interface, command line; catalogue and drive crates*: I/O and conversions, no state
  that outlives a call.
- *vendored code*: third-party.

Most of the repository's JavaScript is not the project's own or has no state machine:
the two copies of `static/pdf.worker` are 128,000 of some 164,000 lines, and the next
largest files are settings forms, translations of labels, and views. The modelled share
of all lines is therefore small; of the code that has concurrent state it is most.
