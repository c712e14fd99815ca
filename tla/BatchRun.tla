------------------------------ MODULE BatchRun ------------------------------
(***************************************************************************)
(* The batch list ("Stapel") of the desktop app: BatchManager in           *)
(* lib/batch/store.svelte.ts.  A run is one call of processAll.  It has    *)
(* extraction workers, which share one index into the list, and analysts   *)
(* (the LLM workers), which take what was extracted from the run's queue.  *)
(* JavaScript is atomic between two awaits: each action below is what one  *)
(* worker, one run or one click does until it awaits.  Stop, a second      *)
(* Stop and the force reset change the flags of the manager while workers  *)
(* of the run they belonged to are still at an await.                      *)
(***************************************************************************)
EXTENDS Integers, Sequences, FiniteSets

CONSTANTS
  Items,        \* bound: the ids ever given, 1 .. n, in the order they are given
  Runs,         \* bound: calls of processAll that get past isProcessing
  Extractors,   \* extractionWorkers of one run
  Analysts,     \* llmWorkers of one run
  MaxMishaps,   \* bound: clicks but those that add, start or stop again; restarts; failing calls
  NoRun,        \* extractionAbort and llmAbort are null
  NoItem

ASSUME BatchAssumption ==
  /\ Items \subseteq Nat /\ IsFiniteSet(Items)
  /\ IsFiniteSet(Extractors) /\ Extractors # {} /\ IsFiniteSet(Analysts) /\ Analysts # {}
  /\ Extractors \cap Analysts = {}
  /\ NoItem \notin Items /\ NoRun \notin Runs

VARIABLES
  listed,    \* this.items; the list is in the order of the ids
  item,      \* the BatchItem objects, those no longer listed included
  mgr,       \* the flags of the BatchManager
  run,       \* the calls of processAll
  worker,    \* the workers of each run
  saved,     \* batch_items: the status in the row of each item
  stored,    \* extracted_texts: the items with a row
  failures,  \* calls of the session store that failed, counted for the bound
  clicks,    \* clicks and restarts, counted for the bound
  lost,      \* history: items whose last save failed
  free       \* history: items removed while nobody had them in hand

vars == <<listed, item, mgr, run, worker, saved, stored, failures, clicks, lost, free>>

Status == {"new", "queued", "unfinished", "extracting", "analyzing", "review", "done", "error"}
NoRow == "none"
Workers == Extractors \cup Analysts

\* "setup": the awaits before the workers start.  "flushing": upsertItemsBulk
\* of the finally block.  "dead": the app was closed.
RunPhase == {"unused", "setup", "running", "flushing", "over", "dead"}

\* "looking": the history and the stored text.  "rejected": an exception left
\* the worker.
WorkerPhase == {"off", "top", "looking", "extracting", "waiting", "analyzing",
                "exited", "rejected"}

Idle == [pc |-> "off", item |-> NoItem, ctl |-> NoRun]
Unused == [pc |-> "unused", scope |-> {}, only |-> FALSE, next |-> 0, queue |-> <<>>,
           aborted |-> FALSE, failed |-> FALSE, cut |-> FALSE, calm |-> TRUE]

TypeOK ==
  /\ listed \subseteq Items /\ stored \subseteq Items
  /\ item \in [Items -> [status : Status, text : BOOLEAN]]
  /\ mgr \in [processing : BOOLEAN, stop : BOOLEAN, ctl : Runs \cup {NoRun}, recent : BOOLEAN]
  /\ run \in [Runs -> [pc : RunPhase, scope : SUBSET Items, only : BOOLEAN, next : Nat,
                       queue : Seq(Items), aborted : BOOLEAN, failed : BOOLEAN,
                       cut : BOOLEAN, calm : BOOLEAN]]
  /\ worker \in [Runs -> [Workers -> [pc : WorkerPhase, item : Items \cup {NoItem},
                                      ctl : Runs \cup {NoRun}]]]
  /\ saved \in [Items -> Status \cup {NoRow}]

NoneProcessing == [processing |-> FALSE, stop |-> FALSE, ctl |-> NoRun, recent |-> FALSE]

Init ==
  /\ listed = {} /\ stored = {} /\ lost = {} /\ free = {} /\ failures = 0 /\ clicks = 0
  /\ item = [i \in Items |-> [status |-> "new", text |-> FALSE]]
  /\ mgr = NoneProcessing
  /\ run = [n \in Runs |-> Unused]
  /\ worker = [n \in Runs |-> [w \in Workers |-> Idle]]
  /\ saved = [i \in Items |-> NoRow]

-----------------------------------------------------------------------------
Least(S) == CHOOSE i \in S : \A j \in S : i <= j
Nth(k) == CHOOSE i \in listed : Cardinality({j \in listed : j < i}) = k
Live(n) == run[n].pc \in {"setup", "running", "flushing"}
Busy(n, w) == worker[n][w].pc \notin {"off", "exited", "rejected"}
AtWork(n) == \E w \in Workers : Busy(n, w)
Held(n, w) == worker[n][w].item
Abortable(n) == n # NoRun /\ run[n].aborted

\* The workers and queues that still lead to item i.
InHand(i) ==
  \E n \in Runs : \/ \E w \in Workers : Busy(n, w) /\ Held(n, w) = i
                  \/ \E k \in DOMAIN run[n].queue : run[n].queue[k] = i

SetStatus(S, status) == item' = [i \in Items |-> IF i \in S THEN [item[i] EXCEPT !.status = status] ELSE item[i]]

\* upsertItem, upsertItemsBulk: the rows are taken when the call is made.
Written(S) ==
  /\ saved' = [i \in Items |-> IF i \in S THEN item'[i].status ELSE saved[i]]
  /\ lost' = lost \ S /\ UNCHANGED failures
WriteFails(S) ==
  /\ clicks + failures < MaxMishaps
  /\ failures' = failures + 1 /\ lost' = lost \cup S /\ UNCHANGED saved
Saved(S) == Written(S) \/ WriteFails(S)
Unsaved == UNCHANGED <<saved, lost, failures>>

NeedsProcessing(n, i) ==
  i \in run[n].scope /\ item[i].status \in {"queued", "error", "unfinished"}

\* Something other than the run's own workers has changed what it works on.
Stirred(r) == [n \in Runs |-> IF Live(n) THEN [r[n] EXCEPT !.calm = FALSE] ELSE r[n]]

Goto(n, w, pc) == worker' = [worker EXCEPT ![n][w].pc = pc]
Leave(n, w, pc) == worker' = [worker EXCEPT ![n][w] = [Idle EXCEPT !.pc = pc]]

-----------------------------------------------------------------------------
(* The user *)

AddItem(i) ==
  /\ item[i].status = "new" /\ \A j \in Items : j < i => item[j].status # "new"
  /\ listed' = listed \cup {i}
  /\ SetStatus({i}, "queued")
  /\ Saved({i})
  /\ UNCHANGED <<mgr, run, worker, stored, free>>

RemoveItems(S) ==
  /\ S # {} /\ S \subseteq listed
  /\ listed' = listed \ S
  /\ \/ /\ saved' = [i \in Items |-> IF i \in S THEN NoRow ELSE saved[i]]
        /\ stored' = stored \ S
        /\ free' = free \cup {i \in S : ~InHand(i)}
        /\ UNCHANGED failures
     \/ /\ clicks + failures < MaxMishaps /\ failures' = failures + 1
        /\ UNCHANGED <<saved, stored, free>>
  /\ run' = Stirred(run)
  /\ UNCHANGED <<item, mgr, worker, lost>>

Remove(i) == RemoveItems({i})

Clear == ~mgr.processing /\ RemoveItems(listed)

\* The head of processAll: it answers at once while a run is on.
StartRun(scope, only, r) ==
  IF mgr.processing THEN run' = Stirred(r) /\ UNCHANGED mgr
  ELSE \E n \in Runs :
         /\ run[n].pc = "unused" /\ \A m \in Runs : run[m].pc = "unused" => n <= m
         /\ run' = [Stirred(r) EXCEPT ![n] =
              [Unused EXCEPT !.pc = "setup", !.scope = scope, !.only = only,
                             !.calm = \A m \in Runs : ~Live(m) /\ ~AtWork(m)]]
         /\ mgr' = [mgr EXCEPT !.processing = TRUE, !.stop = FALSE, !.ctl = n]

\* The start button
Start ==
  /\ ~mgr.processing
  /\ \E i \in listed : item[i].status \in {"queued", "error"}
  /\ StartRun(Items, FALSE, run)
  /\ UNCHANGED <<listed, item, worker, saved, stored, failures, lost, free>>

\* resetToQueued, then processAll
ResetToQueued ==
  LET changed == {i \in listed : item[i].status \in {"review", "error", "unfinished"}} IN
  /\ ~mgr.processing
  /\ \E i \in listed : item[i].status = "review"
  /\ SetStatus(changed, "queued")
  /\ \/ Written(changed) /\ StartRun(Items, FALSE, run)
     \/ WriteFails(changed) /\ UNCHANGED <<mgr, run>>
  /\ UNCHANGED <<listed, worker, stored, free>>

\* reprocessItems (with or without enforceOcr) and reextractItems (only)
Reprocess(i, again, only) ==
  /\ i \in listed
  /\ item' = [item EXCEPT ![i] = [status |-> "queued", text |-> @.text /\ ~again]]
  /\ Saved({i})
  /\ StartRun({i}, only, run)
  /\ UNCHANGED <<listed, worker, stored, free>>

\* executeBatch has sorted item i.  It was sortable when the sorting began,
\* and is marked whatever its status is now.
Sorted(i) ==
  /\ i \in listed
  /\ item[i].status \in {"review", "error", "unfinished", "queued"}
  /\ SetStatus({i}, "done")
  /\ Saved({i})
  /\ run' = Stirred(run)
  /\ UNCHANGED <<listed, mgr, worker, stored, free>>

Aborted(r) == IF mgr.ctl = NoRun THEN r ELSE [r EXCEPT ![mgr.ctl].aborted = TRUE]
Cut(r) == IF mgr.ctl = NoRun THEN r ELSE [r EXCEPT ![mgr.ctl] = [@ EXCEPT !.aborted = TRUE, !.cut = TRUE]]

\* stopAll
Stop ==
  /\ mgr.processing
  /\ run' = Stirred(Aborted(run))
  /\ mgr' = [mgr EXCEPT !.stop = TRUE, !.recent = TRUE]
  /\ UNCHANGED <<listed, item, worker, saved, stored, failures, lost, free>>

\* stopAll, less than 5 s after a click on Stop, of this run or an earlier one
StopAgain ==
  /\ mgr.processing /\ mgr.recent
  /\ run' = Stirred(Cut(run))
  /\ mgr' = [NoneProcessing EXCEPT !.recent = TRUE]
  /\ UNCHANGED <<listed, item, worker, saved, stored, failures, lost, free>>

ForceReset ==
  LET stuck == {i \in listed : item[i].status \in {"extracting", "analyzing", "unfinished"}} IN
  /\ mgr.processing \/ stuck # {}
  /\ run' = Stirred(Cut(run))
  /\ mgr' = [NoneProcessing EXCEPT !.stop = TRUE]
  /\ SetStatus(stuck, "queued")
  /\ IF stuck = {} THEN Unsaved ELSE Saved(stuck)
  /\ UNCHANGED <<listed, worker, stored, free>>

\* The app is closed and started again: resumeLastSession.
Restart ==
  LET rows == {i \in Items : saved[i] # NoRow} IN
  /\ listed' = rows
  /\ item' = [i \in Items |->
       IF i \notin rows THEN item[i]
       ELSE [status |-> IF saved[i] \in {"extracting", "analyzing"} THEN "unfinished" ELSE saved[i],
             text |-> FALSE]]
  /\ mgr' = NoneProcessing
  /\ run' = [n \in Runs |-> IF run[n].pc = "unused" THEN Unused ELSE [Unused EXCEPT !.pc = "dead"]]
  /\ worker' = [n \in Runs |-> [w \in Workers |-> Idle]]
  /\ lost' = {i \in rows : saved[i] \in {"extracting", "analyzing"}}
  /\ UNCHANGED <<saved, stored, failures, free>>

-----------------------------------------------------------------------------
(* A run *)

\* The flags are reset whoever set them last: a run that is at work loses them.
ResetFlags(n, r) ==
  /\ mgr' = [NoneProcessing EXCEPT !.recent = mgr.recent]
  /\ run' = [m \in Runs |-> IF m = mgr.ctl /\ m # n THEN [r[m] EXCEPT !.cut = TRUE] ELSE r[m]]

\* The awaits before the workers start; what an earlier run left behind is lifted.
Setup(n) ==
  /\ run[n].pc = "setup"
  /\ SetStatus({i \in listed \cap run[n].scope : item[i].status \in {"extracting", "analyzing"}}, "queued")
  /\ run' = [run EXCEPT ![n].pc = "running"]
  /\ worker' = [worker EXCEPT ![n] = [w \in Workers |->
                  [Idle EXCEPT !.pc = IF w \in Analysts /\ run[n].only THEN "exited" ELSE "top"]]]
  /\ UNCHANGED <<listed, mgr, saved, stored, failures, lost, free>>

\* Nothing uses what is left of a run whose workers are gone.
Ended(n) ==
  IF AtWork(n) THEN [run[n] EXCEPT !.pc = "over"]
  ELSE [Unused EXCEPT !.pc = "over", !.failed = run[n].failed, !.cut = run[n].cut]

\* The outer catch: the flags are reset a second time.
Catch(n) ==
  /\ ResetFlags(n, [run EXCEPT ![n] = Ended(n)])
  /\ Saved(listed)

\* Mutant: an exception before the workers start leaves the flags.
SetupFailsSilently(n) ==
  /\ run[n].pc = "setup"
  /\ run' = [run EXCEPT ![n] = Ended(n)]
  /\ UNCHANGED <<listed, item, mgr, worker, saved, stored, failures, lost, free>>

SetupFails(n) ==
  /\ run[n].pc = "setup"
  /\ UNCHANGED <<listed, item, worker, stored, free>>
  /\ Catch(n)

ExtractorsDone(n) == \A w \in Extractors : worker[n][w].pc = "exited"
AllDone(n) == \A w \in Workers : worker[n][w].pc = "exited"
Rejected(n) == \E w \in Workers : worker[n][w].pc = "rejected"

\* Promise.all answers; the finally block, up to its await, which saves the items S.
FinishWith(n, done, S) ==
  /\ run[n].pc = "running"
  /\ done \/ Rejected(n)
  /\ UNCHANGED <<listed, item, worker, stored, free>>
  /\ \E ok \in BOOLEAN :
       /\ IF ok THEN Written(S) ELSE WriteFails(S)
       /\ ResetFlags(n, [run EXCEPT ![n] = [@ EXCEPT !.pc = "flushing", !.failed = Rejected(n) \/ ~ok]])

\* Mutants: the run does not wait for its analysts; it saves what it was given and
\* not what is listed; it saves nothing.
FinishEarly(n) == FinishWith(n, ExtractorsDone(n), listed)
FinishUnsaved(n) == FinishWith(n, AllDone(n), {})

Finish(n) == FinishWith(n, AllDone(n), listed)

Flushed(n) ==
  /\ run[n].pc = "flushing"
  /\ UNCHANGED <<listed, item, worker, stored, free>>
  /\ IF run[n].failed THEN Catch(n)
     ELSE run' = [run EXCEPT ![n] = Ended(n)] /\ Unsaved /\ UNCHANGED mgr

-----------------------------------------------------------------------------
(* An extraction worker *)

\* The worker of run n is done with item i: upsertItem, awaited outside the try.
Save(n, w, i) ==
  \/ Written({i}) /\ Leave(n, w, "top")
  \/ WriteFails({i}) /\ Leave(n, w, "rejected")

\* Items with text that need no processing are queued on the way.
Passed(n, from, to) ==
  LET k == {j \in from .. to - 1 : item[Nth(j)].text}
      nth(m) == CHOOSE j \in k : Cardinality({h \in k : h < j}) = m - 1
  IN IF run[n].only THEN <<>> ELSE [m \in 1 .. Cardinality(k) |-> Nth(nth(m))]

\* The next item of the list, by the shared index, which is advanced by step.
VisitBy(n, w, step) ==
  LET len == Cardinality(listed)
      r == run[n]
      ahead == {k \in r.next .. len - 1 : NeedsProcessing(n, Nth(k))}
      upTo == IF ahead = {} THEN len ELSE Least(ahead)
  IN
  /\ worker[n][w].pc = "top"
  /\ IF mgr.stop THEN Leave(n, w, "exited") /\ UNCHANGED run
     ELSE /\ run' = [run EXCEPT ![n] = [r EXCEPT
                        !.next = IF r.next > len THEN r.next + 1 ELSE upTo + step,
                        !.queue = r.queue \o Passed(n, r.next, upTo)]]
          /\ worker' = [worker EXCEPT ![n][w] =
                          IF ahead = {} THEN [Idle EXCEPT !.pc = "exited"]
                          ELSE [Idle EXCEPT !.pc = "looking", !.item = Nth(upTo)]]
  /\ Unsaved /\ UNCHANGED <<listed, item, mgr, stored, free>>

\* Mutant: the index is read and not advanced.
VisitAgain(n, w) == VisitBy(n, w, 0)
Visit(n, w) == VisitBy(n, w, 1)

\* What an item is set to when its text is there, and where it goes.
TextReady(n, i) ==
  /\ item' = [item EXCEPT ![i] = [status |-> IF run[n].only THEN "review" ELSE "queued", text |-> TRUE]]
  /\ run' = [run EXCEPT ![n].queue = IF run[n].only THEN @ ELSE Append(@, i)]

\* lookupHistory and getExtractedText: content that was sorted before, text
\* that is at hand or stored, or a file that has to be read.
Looked(n, w) ==
  LET i == Held(n, w) IN
  /\ worker[n][w].pc = "looking"
  /\ \/ SetStatus({i}, "review") /\ UNCHANGED run /\ Save(n, w, i)
     \/ (item[i].text \/ i \in stored) /\ TextReady(n, i) /\ Save(n, w, i)
     \/ /\ ~item[i].text /\ i \notin stored
        /\ SetStatus({i}, "extracting") /\ Goto(n, w, "extracting")
        /\ Unsaved /\ UNCHANGED run
  /\ UNCHANGED <<listed, mgr, stored, free>>

LookupFails(n, w) ==
  /\ worker[n][w].pc = "looking"
  /\ clicks + failures < MaxMishaps /\ failures' = failures + 1
  /\ Leave(n, w, "rejected")
  /\ UNCHANGED <<listed, item, mgr, run, saved, stored, lost, free>>

\* The text was read; an empty one is not queued.
Extracted(n, w) ==
  LET i == Held(n, w) IN
  /\ worker[n][w].pc = "extracting"
  /\ \/ TextReady(n, i) /\ stored' = stored \cup (IF saved[i] = NoRow THEN {} ELSE {i})
     \/ /\ item' = [item EXCEPT ![i] = [status |-> IF run[n].only THEN "review" ELSE "queued", text |-> FALSE]]
        /\ UNCHANGED <<run, stored>>
  /\ Save(n, w, i)
  /\ UNCHANGED <<listed, mgr, free>>

\* Stop is noticed between two steps of the extraction.
ExtractStopped(n, w) ==
  /\ worker[n][w].pc = "extracting" /\ mgr.stop
  /\ \E status \in {"queued", "unfinished"} : SetStatus({Held(n, w)}, status)
  /\ Leave(n, w, "exited")
  /\ Unsaved /\ UNCHANGED <<listed, mgr, run, stored, free>>

\* A watchdog or the file timeout fires, the signal was aborted, or the file
\* cannot be read.
ExtractFails(n, w) ==
  LET i == Held(n, w) IN
  /\ worker[n][w].pc = "extracting" /\ ~mgr.stop
  /\ \E status \in {"unfinished", "error"} : SetStatus({i}, status)
  /\ Save(n, w, i)
  /\ UNCHANGED <<listed, mgr, run, stored, free>>

-----------------------------------------------------------------------------
(* An LLM worker *)

Halted == mgr.stop \/ Abortable(mgr.ctl)

\* queueTake: an item, the end of the queue, or wait, until an item or the end
\* (closes) is there.
TakeUntil(n, w, closes) ==
  LET q == run[n].queue
      i == Head(q)
      needed == item[i].status \in {"queued", "unfinished"} /\ item[i].text /\ i \in run[n].scope
  IN
  /\ w \in Analysts /\ worker[n][w].pc \in {"top", "waiting"}
  /\ IF worker[n][w].pc = "top" /\ Halted THEN Leave(n, w, "exited") /\ UNCHANGED <<run, item>>
     ELSE IF q = <<>>
     THEN /\ worker[n][w].pc = "top" \/ closes
          /\ Leave(n, w, IF ExtractorsDone(n) THEN "exited" ELSE "waiting")
          /\ UNCHANGED <<run, item>>
     ELSE /\ run' = [run EXCEPT ![n].queue = Tail(q)]
          /\ IF needed
             THEN /\ SetStatus({i}, "analyzing")
                  /\ worker' = [worker EXCEPT ![n][w] = [pc |-> "analyzing", item |-> i, ctl |-> mgr.ctl]]
             ELSE Leave(n, w, "top") /\ UNCHANGED item
  /\ Unsaved /\ UNCHANGED <<listed, mgr, stored, free>>

\* Mutant: queueClose does not wake those who wait.
TakeUnclosed(n, w) == TakeUntil(n, w, FALSE)
Take(n, w) == TakeUntil(n, w, ExtractorsDone(n))

\* The answer, or an error that is not an abort.
Analyzed(n, w) ==
  LET i == Held(n, w) IN
  /\ worker[n][w].pc = "analyzing"
  /\ \/ ~Halted /\ SetStatus({i}, "review")
     \/ ~mgr.stop /\ SetStatus({i}, "error")
  /\ Save(n, w, i)
  /\ UNCHANGED <<listed, mgr, run, stored, free>>

\* The request was aborted, or Stop is noticed when it ends.
AnalysisStopped(n, w) ==
  /\ worker[n][w].pc = "analyzing"
  /\ Halted \/ Abortable(worker[n][w].ctl)
  /\ SetStatus({Held(n, w)}, "queued")
  /\ Leave(n, w, "exited")
  /\ Unsaved /\ UNCHANGED <<listed, mgr, run, stored, free>>

-----------------------------------------------------------------------------
ExtractorStep(n, w) ==
  \/ Visit(n, w) \/ Looked(n, w) \/ LookupFails(n, w) \/ Extracted(n, w)
  \/ ExtractStopped(n, w) \/ ExtractFails(n, w)
AnalystStep(n, w) ==
  Take(n, w) \/ Analyzed(n, w) \/ AnalysisStopped(n, w)
RunStep(n) == Setup(n) \/ SetupFails(n) \/ Finish(n) \/ Flushed(n)

Click ==
  \/ \E i \in Items : Remove(i) \/ Sorted(i)
  \/ \E i \in Items, again, only \in BOOLEAN : (only => again) /\ Reprocess(i, again, only)
  \/ Clear \/ ResetToQueued \/ Stop \/ ForceReset \/ Restart

Pending ==
  \/ \E n \in Runs : RunStep(n)
  \/ \E n \in Runs, w \in Extractors : ExtractorStep(n, w)
  \/ \E n \in Runs, w \in Analysts : AnalystStep(n, w)

Work == Start \/ StopAgain \/ (\E i \in Items : AddItem(i)) \/ Pending

Next ==
  \/ clicks + failures < MaxMishaps /\ clicks' = clicks + 1 /\ Click
  \/ UNCHANGED clicks /\ Work

Spec == Init /\ [][Next]_vars

\* Some pending await is answered: an extraction by its timeout at the latest,
\* a request by the client's.
FairSpec == Spec /\ WF_vars(UNCHANGED clicks /\ Pending)

-----------------------------------------------------------------------------
(* Properties *)

\* Two workers are at the same file only when one of them belongs to a run that
\* was cut off from the flags; within a run the shared index and the queue hand
\* out each item once.
OneWorkerPerItem ==
  \A m, n \in Runs, v, w \in Workers :
    /\ <<m, v>> # <<n, w>>
    /\ worker[m][v].pc \in {"looking", "extracting", "analyzing"}
    /\ worker[n][w].pc \in {"looking", "extracting", "analyzing"}
    /\ Held(m, v) = Held(n, w)
    => m # n /\ \E r \in {m, n} : run[r].cut \/ run[r].failed

\* What the user removed while no worker had it does not come back, however
\* many saves of whole lists and single items are still to come.
RemovedStaysGone == \A i \in free : saved[i] = NoRow /\ i \notin listed

BatchInv == TypeOK /\ OneWorkerPerItem /\ RemovedStaysGone

\* The button that says whether a run is on tells the truth until a stop is
\* forced, a reset is forced or a run fails.
FlagTellsTheTruth ==
  (\A n \in Runs : ~run[n].cut /\ ~run[n].failed) =>
    \A n \in Runs :
      /\ run[n].pc \in {"setup", "running"} <=> mgr.processing /\ mgr.ctl = n
      /\ AtWork(n) => run[n].pc = "running"

\* A run that nobody disturbed leaves nothing half done: every item it was asked
\* for has left the pipeline, or has no text to analyse.
RunSettlesItsItems ==
  [][\A n \in Runs : run[n].pc = "running" /\ run'[n].pc = "flushing" /\ run'[n].calm /\ ~run'[n].failed =>
       \A i \in listed \cap run[n].scope :
         \/ item[i].status \in {"review", "done", "error", "unfinished"}
         \/ item[i].status = "queued" /\ ~item[i].text]_vars

\* When all is quiet a restart shows the list as it is, except for saves that
\* failed and items a failed run's workers let go of later.
QuietIsSaved ==
  (\A n \in Runs : ~Live(n) /\ ~run[n].failed /\ ~AtWork(n)) =>
    \A i \in listed : i \in lost \/ saved[i] = item[i].status

\* Every run ends, stopped, cut off, failed or left alone, and no item of the
\* list stays at "extracting" or "analyzing".
AtRest ==
  /\ \A n \in Runs : ~Live(n)
  /\ \A i \in listed : item[i].status \notin {"extracting", "analyzing"}
ComesToRest == ~AtRest ~> AtRest
=============================================================================
