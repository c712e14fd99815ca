-------------------------- MODULE BackgroundIngest --------------------------
(***************************************************************************)
(* The background ingest scheduler (src-tauri/src/bg_ingest/mod.rs): a     *)
(* queue in memory, a status, and up to Concurrency worker tasks that      *)
(* ensure_worker spawns after every bg_ingest_start.  The state is behind  *)
(* one mutex; active_workers is an atomic counter that is raised outside   *)
(* of it.  A step is what happens between taking and releasing the mutex,  *)
(* or one access to the counter outside of it.                             *)
(***************************************************************************)
EXTENDS Naturals, FiniteSets, Sequences, SequencesExt

CONSTANTS
  Items,        \* bound: the paths ever enqueued
  Starts,       \* bound: the calls of bg_ingest_start
  Workers,      \* bound: the worker tasks ever spawned
  Concurrency,  \* BackgroundIngest.concurrency
  MayCancel     \* bound: whether the user pauses, cancels and clears

ASSUME BackgroundAssumption == Concurrency \in Nat \ {0} /\ IsFiniteSet(Workers)

VARIABLES
  pending,  \* BackgroundIngest.queue
  status,   \* BackgroundIngest.status
  active,   \* active_workers
  starter,  \* the tasks of ensure_worker
  worker,   \* the tasks of worker_loop
  seen,     \* history: items enqueued
  dropped,  \* history: items dropped by clear
  asked     \* history: items enqueued while not paused or stopping, and not paused,
            \* cancelled or cleared since

bgVars == <<pending, status, active, starter, worker, seen, dropped, asked>>

NoItem == "none"
BgStatus == {"idle", "running", "paused", "stopping"}

BgTypeOK ==
  /\ pending \in Seq(Items) /\ status \in BgStatus /\ active \in Nat
  /\ starter \in [Starts -> [pc : {"unused", "counting", "recounting", "spawning", "over"},
                             left : 0..Concurrency]]
  /\ worker \in [Workers -> [pc : {"unused", "top", "busy", "over"}, item : Items \cup {NoItem}]]
  /\ seen \subseteq Items /\ dropped \subseteq seen
  /\ asked \subseteq seen

BgInit ==
  /\ pending = <<>> /\ status = "idle" /\ active = 0
  /\ starter = [s \in Starts |-> [pc |-> "unused", left |-> 0]]
  /\ worker = [w \in Workers |-> [pc |-> "unused", item |-> NoItem]]
  /\ seen = {} /\ dropped = {}
  /\ asked = {}

Alive == {w \in Workers : worker[w].pc \in {"top", "busy"}}
InHand == {worker[w].item : w \in {v \in Workers : worker[v].pc = "busy"}}
Need == IF active < Concurrency THEN Concurrency - active ELSE 0

-----------------------------------------------------------------------------
(* bg_ingest_start and ensure_worker *)

StartIngest(s, i) ==
  /\ starter[s].pc = "unused" /\ i \notin seen
  /\ pending' = Append(pending, i)
  /\ seen' = seen \cup {i}
  /\ starter' = [starter EXCEPT ![s].pc = "counting"]
  /\ asked' = IF status \in {"stopping", "paused"} THEN asked ELSE asked \cup {i}
  /\ UNCHANGED <<status, active, worker, dropped>>

Count(s) ==
  /\ starter[s].pc = "counting"
  /\ \/ /\ Need = 0
        /\ starter' = [starter EXCEPT ![s].pc = "over"]
        /\ UNCHANGED status
     \/ /\ Need > 0
        /\ starter' = [starter EXCEPT ![s].pc = "recounting"]
        /\ status' = "running"
  /\ UNCHANGED <<pending, active, worker, seen, dropped, asked>>

\* The mutex was released in between.
Recount(s) ==
  /\ starter[s].pc = "recounting"
  /\ starter' = [starter EXCEPT ![s] =
                   [pc |-> IF Need = 0 THEN "over" ELSE "spawning", left |-> Need]]
  /\ UNCHANGED <<pending, status, active, worker, seen, dropped, asked>>

\* One turn of the loop that spawns: counted, then started.
Spawn(s) ==
  /\ starter[s].pc = "spawning"
  /\ \E w \in Workers :
       /\ worker[w].pc = "unused"
       /\ \A v \in Workers : worker[v].pc = "unused" => w <= v
       /\ worker' = [worker EXCEPT ![w].pc = "top"]
  /\ active' = active + 1
  /\ starter' = [starter EXCEPT ![s] =
                   [pc |-> IF @.left = 1 THEN "over" ELSE "spawning", left |-> @.left - 1]]
  /\ UNCHANGED <<pending, status, seen, dropped, asked>>

-----------------------------------------------------------------------------
(* worker_loop *)

\* Mutant: an idle status is left to whoever finds the counter at zero.
LeaveStatus(w) ==
  /\ worker' = [worker EXCEPT ![w].pc = "over"]
  /\ active' = active - 1
  /\ status' = IF active = 0 THEN "idle" ELSE status

\* Mutant: the worker returns and is still counted.
LeaveCounted(w) ==
  /\ worker' = [worker EXCEPT ![w].pc = "over"]
  /\ status' = IF active = 1 THEN "idle" ELSE status
  /\ UNCHANGED active

\* The worker returns; the last one out sets the status.
Leave(w) ==
  /\ worker' = [worker EXCEPT ![w].pc = "over"]
  /\ active' = active - 1
  /\ status' = IF active = 1 THEN "idle" ELSE status

ExitStopping(w) ==
  /\ worker[w].pc = "top" /\ status = "stopping"
  /\ Leave(w)
  /\ UNCHANGED <<pending, starter, seen, dropped, asked>>

ExitEmpty(w) ==
  /\ worker[w].pc = "top" /\ status \notin {"stopping", "paused"}
  /\ pending = <<>>
  /\ Leave(w)
  /\ UNCHANGED <<pending, starter, seen, dropped, asked>>

Take(w) ==
  /\ worker[w].pc = "top" /\ status \notin {"stopping", "paused"}
  /\ pending # <<>>
  /\ worker' = [worker EXCEPT ![w] = [pc |-> "busy", item |-> Head(pending)]]
  /\ pending' = Tail(pending)
  /\ UNCHANGED <<status, active, starter, seen, dropped, asked>>

\* ingest_one came back, well or not: the next turn of the loop.
Finish(w) ==
  /\ worker[w].pc = "busy"
  /\ worker' = [worker EXCEPT ![w] = [pc |-> "top", item |-> NoItem]]
  /\ UNCHANGED <<pending, status, active, starter, seen, dropped, asked>>

-----------------------------------------------------------------------------
(* The other commands *)

Pause ==
  /\ MayCancel /\ status = "running"
  /\ status' = "paused" /\ asked' = {}
  /\ UNCHANGED <<pending, active, starter, worker, seen, dropped>>

Resume ==
  /\ status = "paused"
  /\ status' = "running"
  /\ asked' = asked \cup ToSet(pending)
  /\ UNCHANGED <<pending, active, starter, worker, seen, dropped>>

CancelIngest ==
  /\ MayCancel /\ status # "idle"
  /\ status' = "stopping" /\ asked' = {}
  /\ UNCHANGED <<pending, active, starter, worker, seen, dropped>>

Clear ==
  /\ MayCancel /\ pending # <<>>
  /\ pending' = <<>>
  /\ dropped' = dropped \cup ToSet(pending)
  /\ asked' = {}
  /\ UNCHANGED <<status, active, starter, worker, seen>>

-----------------------------------------------------------------------------
StarterStep(s) == Count(s) \/ Recount(s) \/ Spawn(s)
WorkerStep(w) == ExitStopping(w) \/ ExitEmpty(w) \/ Take(w) \/ Finish(w)

BgNext ==
  \/ \E s \in Starts, i \in Items : StartIngest(s, i)
  \/ \E s \in Starts : StarterStep(s)
  \/ \E w \in Workers : WorkerStep(w)
  \/ Pause \/ Resume \/ CancelIngest \/ Clear

BgSpec == BgInit /\ [][BgNext]_bgVars

\* The runtime polls every task that is ready, the extractor has a timeout,
\* and the foreground operations workers yield to come to an end.
BgFairSpec ==
  /\ BgSpec
  /\ \A s \in Starts : WF_bgVars(StarterStep(s))
  /\ \A w \in Workers : WF_bgVars(WorkerStep(w))

-----------------------------------------------------------------------------
(* Properties *)

\* active_workers, raised outside of the mutex and lowered inside, always says
\* how many workers there are: ensure_worker and the last worker out rely on it.
ActiveIsExact == active = Cardinality(Alive)

\* Every item is in one place: waiting once, or in one worker's hands.
ItemsInOnePlace ==
  /\ IsInjective(pending)
  /\ ToSet(pending) \cap InHand = {}
  /\ \A v, w \in Workers :
       v # w /\ worker[v].pc = "busy" /\ worker[w].pc = "busy" => worker[v].item # worker[w].item

\* The scheduler's variables have their types, its counter is exact and no item
\* is lost or taken twice between the mutex, the counter and the workers.
SchedulerInv == BgTypeOK /\ ActiveIsExact /\ ItemsInOnePlace

\* A status other than idle is never left behind with nobody to change it: the
\* panel would show work, or a stop, that never ends.
SomebodyActs ==
  status # "idle" => Alive # {} \/ \E s \in Starts : starter[s].pc \in {"recounting", "spawning"}

\* An item that was asked for, while the workers were not stopping, is taken,
\* unless the user pauses, cancels or clears: no start is lost between a worker
\* that leaves and an ensure_worker that still counts it.
AskedIsTaken ==
  \A i \in Items : i \in asked ~> i \notin asked \/ ~Contains(pending, i)
=============================================================================
