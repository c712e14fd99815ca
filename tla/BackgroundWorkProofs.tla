------------------------ MODULE BackgroundWorkProofs ------------------------
(* Proofs about the parts of the desktop app that work behind the user's     *)
(* back: the sync outbox and its loops (SyncOutbox), the transfer queue      *)
(* (TransferQueue) and the background ingest scheduler (BackgroundIngest).   *)
(* One part after the other, each for every value of its constants: any      *)
(* number of rows, loops, tries and restarts; of jobs, permits and attempts; *)
(* of items, starts and workers.                                             *)
EXTENDS SyncOutbox, TransferQueue, BackgroundIngest, FiniteSetTheorems, TLAPS

-----------------------------------------------------------------------------
(* The sync outbox: the inductive invariant *)

USE OutboxAssumption

RowRec == [status : {"unused", "queued", "gone"}, op : Kinds \cup {"none"},
           readable : BOOLEAN, retries : Nat]

LoopRec == [pc : {"idle", "sorting", "marking"}, todo : Seq(Entries), batch : Seq(Entries),
            answer : {"none", "ok", "error"}]

\* The rows of file uploads, those that have left the outbox included.
Uploads == {e \in Entries : outbox[e].status # "unused" /\ outbox[e].op = "cb_file_upload"}

\* What holds of loop l in state c when the rows took are the server's and the
\* rows ups are uploads: what is about to be marked done has been taken, and an
\* upload loop works on nothing but uploads.
LoopOK(l, c, took, ups) ==
  /\ c.pc = "marking" => c.batch # <<>> /\ c.answer # "none"
  /\ c.pc = "marking" /\ c.answer = "ok" => \A k \in DOMAIN c.batch : c.batch[k] \in took
  /\ l \in Uploaders => \A k \in DOMAIN c.todo : c.todo[k] \in ups

OutboxSets == onDisk \subseteq Entries /\ accepted \subseteq Entries /\ crashes \in 0 .. MaxCrashes

OutboxIndInv ==
  /\ OutboxSets
  /\ outbox \in [Entries -> RowRec]
  /\ loop \in [Loops -> LoopRec] /\ \A l \in Loops : LoopOK(l, loop[l], accepted, Uploads)

\* Why a row may leave, and one step of LeavesAccountedFor.
Excused(e) ==
  \/ e \in accepted
  \/ outbox[e].retries >= MaxTries
  \/ outbox[e].op = "cb_file_upload" /\ e \notin onDisk

Accounted == \A e \in Entries : Queued(e) /\ outbox'[e].status = "gone" => Excused(e)

-----------------------------------------------------------------------------
(* Steps that change one loop, or one row *)

\* The rows keep their kind, and only those of done leave.
RowsMove(done) ==
  /\ outbox' \in [Entries -> RowRec] /\ Uploads \subseteq Uploads'
  /\ \A e \in Entries : outbox'[e].status = "gone" => e \in done \/ outbox[e].status = "gone"

LoopsGood ==
  loop' \in [Loops -> LoopRec] /\ \A l \in Loops : LoopOK(l, loop'[l], accepted', Uploads')

LEMMA Together ==
  ASSUME OutboxIndInv, NEW done, RowsMove(done), \A e \in done \cap Entries : Excused(e), OutboxSets', LoopsGood
  PROVE  OutboxIndInv' /\ Accounted
<1>1. Accounted
  BY DEF Accounted, RowsMove, Queued
<1>2. QED
  BY <1>1 DEF OutboxIndInv, RowsMove, LoopsGood

LEMMA RowsSame ==
  ASSUME OutboxIndInv, outbox' = outbox
  PROVE  RowsMove({})
BY DEF OutboxIndInv, RowsMove, Uploads

LEMMA MarkDoneFacts ==
  ASSUME OutboxIndInv, NEW e \in Entries, MarkDone(e)
  PROVE  RowsMove({e})
<1> DEFINE c == outbox[e]
           x == [c EXCEPT !.status = "gone"]
<1>1. c \in RowRec /\ outbox' = [outbox EXCEPT ![e] = x] /\ c = outbox[e]
  BY DEF OutboxIndInv, MarkDone
<1> HIDE DEF c
<1>2. x \in RowRec /\ x.status = "gone" /\ x.op = c.op
  BY <1>1 DEF RowRec
<1> HIDE DEF x
<1>3. outbox' \in [Entries -> RowRec] /\ outbox'[e] = x /\ \A f \in Entries \ {e} : outbox'[f] = outbox[f]
  BY <1>1, <1>2 DEF OutboxIndInv
<1>4. QED
  BY <1>1, <1>2, <1>3 DEF RowsMove, Uploads

LEMMA MarkErrorFacts ==
  ASSUME OutboxIndInv, NEW e \in Entries, MarkError(e)
  PROVE  RowsMove({})
<1>1. CASE Queued(e)
  <2> DEFINE c == outbox[e]
             x == [c EXCEPT !.retries = c.retries + 1]
  <2>1. c \in RowRec /\ outbox' = [outbox EXCEPT ![e] = x] /\ c = outbox[e] /\ c.status = "queued"
    BY <1>1 DEF OutboxIndInv, MarkError, Queued
  <2> HIDE DEF c
  <2>2. c.retries + 1 \in Nat
    BY <2>1 DEF RowRec
  <2>3. x \in RowRec /\ x.status = c.status /\ x.op = c.op
    BY <2>1, <2>2 DEF RowRec
  <2> HIDE DEF x
  <2>4. outbox' \in [Entries -> RowRec] /\ outbox'[e] = x /\ \A f \in Entries \ {e} : outbox'[f] = outbox[f]
    BY <2>1, <2>3 DEF OutboxIndInv
  <2>5. QED
    BY <2>1, <2>3, <2>4 DEF RowsMove, Uploads
<1>2. CASE ~ Queued(e)
  BY <1>2, RowsSame DEF MarkError
<1>3. QED
  BY <1>1, <1>2

\* Loop l comes into state c; what the server has taken and what is an upload
\* stay so.
LEMMA OneLoop ==
  ASSUME OutboxIndInv, NEW l \in Loops, NEW c \in LoopRec, loop' = [loop EXCEPT ![l] = c],
         accepted \subseteq accepted', Uploads \subseteq Uploads', LoopOK(l, c, accepted', Uploads')
  PROVE  LoopsGood
<1>1. loop' \in [Loops -> LoopRec] /\ loop'[l] = c /\ \A m \in Loops \ {l} : loop'[m] = loop[m]
  BY DEF OutboxIndInv
<1>2. ASSUME NEW m \in Loops \ {l} PROVE LoopOK(m, loop'[m], accepted', Uploads')
  <2>1. LoopOK(m, loop[m], accepted, Uploads)
    BY DEF OutboxIndInv
  <2>2. QED
    BY <1>1, <2>1 DEF LoopOK
<1>3. QED
  BY <1>1, <1>2 DEF LoopsGood

LEMMA LoopsSame ==
  ASSUME OutboxIndInv, loop' = loop, accepted \subseteq accepted', Uploads \subseteq Uploads'
  PROVE  LoopsGood
<1>1. ASSUME NEW l \in Loops PROVE LoopOK(l, loop'[l], accepted', Uploads')
  <2>1. LoopOK(l, loop[l], accepted, Uploads)
    BY DEF OutboxIndInv
  <2>2. QED
    BY <2>1 DEF LoopOK
<1>2. QED
  BY <1>1 DEF LoopsGood, OutboxIndInv

LEMMA IdleFacts ==
  ASSUME NEW l, NEW took, NEW ups
  PROVE  Idle \in LoopRec /\ LoopOK(l, Idle, took, ups)
BY DEF Idle, LoopRec, LoopOK

LEMMA SortingFacts ==
  ASSUME NEW l, NEW took, NEW ups, NEW rows \in Seq(Entries),
         l \in Uploaders => \A k \in DOMAIN rows : rows[k] \in ups
  PROVE  Sorting(rows) \in LoopRec /\ LoopOK(l, Sorting(rows), took, ups)
BY DEF Sorting, LoopRec, LoopOK

\* The first row of a claim or a request, and the others.
LEMMA SeqFacts ==
  ASSUME NEW s \in Seq(Entries), s # <<>>
  PROVE  /\ 1 \in DOMAIN s /\ Head(s) = s[1] /\ Head(s) \in Entries /\ Tail(s) \in Seq(Entries)
         /\ \A k \in DOMAIN Tail(s) : k + 1 \in DOMAIN s /\ Tail(s)[k] = s[k + 1]
OBVIOUS

-----------------------------------------------------------------------------
(* The outbox's rows *)

LEMMA EnqueueStep ==
  ASSUME OutboxIndInv, NEW e \in Entries, NEW op \in Kinds, NEW readable \in BOOLEAN, Enqueue(e, op, readable)
  PROVE  OutboxIndInv' /\ Accounted
<1> DEFINE x == [status |-> "queued", op |-> op, readable |-> readable, retries |-> 0]
<1>1. /\ outbox[e].status = "unused" /\ outbox' = [outbox EXCEPT ![e] = x]
      /\ onDisk' \subseteq onDisk \cup {e} /\ UNCHANGED <<loop, accepted, crashes>>
  BY DEF Enqueue
<1>2. x \in RowRec /\ x.status = "queued"
  BY DEF RowRec
<1> HIDE DEF x
<1>3. outbox' \in [Entries -> RowRec] /\ outbox'[e] = x /\ \A f \in Entries \ {e} : outbox'[f] = outbox[f]
  BY <1>1, <1>2 DEF OutboxIndInv
<1>4. RowsMove({})
  BY <1>1, <1>2, <1>3 DEF RowsMove, Uploads
<1>5. LoopsGood
  BY <1>1, <1>4, LoopsSame DEF RowsMove
<1>6. OutboxSets'
  BY <1>1 DEF OutboxIndInv, OutboxSets
<1>7. QED
  BY <1>4, <1>5, <1>6, Together

LEMMA ClearStep == ASSUME OutboxIndInv, ClearFailed PROVE OutboxIndInv' /\ Accounted
<1>1. /\ outbox' = [e \in Entries |-> IF Queued(e) /\ outbox[e].retries >= MaxTries
                                      THEN [outbox[e] EXCEPT !.status = "gone"] ELSE outbox[e]]
      /\ UNCHANGED <<onDisk, loop, accepted, crashes>>
  BY DEF ClearFailed
<1>2. ASSUME NEW e \in Entries
      PROVE  /\ outbox'[e] \in RowRec
             /\ outbox'[e].op = outbox[e].op
             /\ outbox'[e].status = "unused" => outbox[e].status = "unused"
             /\ outbox'[e].status = "gone" => outbox[e].status = "gone" \/ outbox[e].retries >= MaxTries
  <2> DEFINE c == outbox[e]
             x == [c EXCEPT !.status = "gone"]
  <2>1. c \in RowRec /\ c = outbox[e]
    BY DEF OutboxIndInv
  <2>2. outbox'[e] = c \/ (outbox'[e] = x /\ c.retries >= MaxTries)
    BY <1>1
  <2> HIDE DEF c
  <2>3. x \in RowRec /\ x.status = "gone" /\ x.op = c.op
    BY <2>1 DEF RowRec
  <2> HIDE DEF x
  <2>4. QED
    BY <2>1, <2>2, <2>3
<1> DEFINE spent == {e \in Entries : outbox[e].retries >= MaxTries}
<1>3. outbox' \in [Entries -> RowRec]
  <2>1. outbox' = [e \in Entries |-> outbox'[e]]
    BY <1>1
  <2>2. QED
    BY <1>2, <2>1
<1>4. RowsMove(spent)
  BY <1>2, <1>3 DEF RowsMove, Uploads
<1>5. \A e \in spent \cap Entries : Excused(e)
  BY DEF Excused
<1>6. LoopsGood
  BY <1>1, <1>4, LoopsSame DEF RowsMove
<1>7. OutboxSets'
  BY <1>1 DEF OutboxIndInv, OutboxSets
<1> HIDE DEF spent
<1>8. QED
  BY <1>4, <1>5, <1>6, <1>7, Together

LEMMA FileGoneStep == ASSUME OutboxIndInv, NEW e \in Entries, FileGone(e) PROVE OutboxIndInv' /\ Accounted
<1>1. onDisk' = onDisk \ {e} /\ UNCHANGED <<outbox, loop, accepted, crashes>>
  BY DEF FileGone
<1>2. RowsMove({})
  BY <1>1, RowsSame
<1>3. LoopsGood
  BY <1>1, <1>2, LoopsSame DEF RowsMove
<1>4. OutboxSets'
  BY <1>1 DEF OutboxIndInv, OutboxSets
<1>5. QED
  BY <1>2, <1>3, <1>4, Together

LEMMA CrashStep == ASSUME OutboxIndInv, CrashApp PROVE OutboxIndInv' /\ Accounted
<1>1. crashes < MaxCrashes /\ crashes' = crashes + 1 /\ loop' = [l \in Loops |-> Idle]
      /\ UNCHANGED <<outbox, onDisk, accepted>>
  BY DEF CrashApp
<1>2. RowsMove({})
  BY <1>1, RowsSame
<1>3. LoopsGood
  BY <1>1, IdleFacts DEF LoopsGood
<1>4. OutboxSets'
  <2>1. crashes \in 0 .. MaxCrashes
    BY DEF OutboxIndInv, OutboxSets
  <2>2. crashes + 1 \in 0 .. MaxCrashes
    BY <1>1, <2>1
  <2>3. QED
    BY <1>1, <2>2 DEF OutboxIndInv, OutboxSets
<1>5. QED
  BY <1>2, <1>3, <1>4, Together

LEMMA StutterStep == ASSUME OutboxIndInv, UNCHANGED outboxVars PROVE OutboxIndInv' /\ Accounted
<1>1. UNCHANGED <<outbox, onDisk, loop, accepted, crashes>>
  BY DEF outboxVars
<1>2. RowsMove({})
  BY <1>1, RowsSame
<1>3. LoopsGood
  BY <1>1, <1>2, LoopsSame DEF RowsMove
<1>4. OutboxSets'
  BY <1>1 DEF OutboxIndInv, OutboxSets
<1>5. QED
  BY <1>2, <1>3, <1>4, Together

-----------------------------------------------------------------------------
(* The outbox's loops *)

\* What a loop claims are rows of the outbox; an upload loop claims uploads.
LEMMA ClaimedFacts ==
  ASSUME OutboxIndInv, NEW l \in Loops
  PROVE  Claimed(l) \subseteq Entries /\ (l \in Uploaders => Claimed(l) \subseteq Uploads)
<1>1. Pending \subseteq Entries /\ \A e \in Pending : outbox[e].status = "queued"
  BY DEF Pending, Queued
<1>2. \A ids, limit : Oldest(ids, limit) \subseteq ids
  BY DEF Oldest
<1>3. CASE l \in Uploaders
  <2>1. Claimed(l) = Oldest(Pending \cap OfOp("cb_file_upload"), Batch[l])
    BY <1>3 DEF Claimed
  <2>2. Claimed(l) \subseteq Pending \cap OfOp("cb_file_upload")
    BY <1>2, <2>1
  <2>3. QED
    BY <1>1, <2>2 DEF OfOp, Uploads
<1>4. CASE l \in Pushers
  <2>1. Claimed(l) = Oldest(Pending, Batch[l]) /\ l \notin Uploaders
    BY <1>4 DEF Claimed
  <2>2. Oldest(Pending, Batch[l]) \subseteq Entries
    BY <1>1, <1>2
  <2>3. QED
    BY <2>1, <2>2
<1>5. CASE l \in Drainers
  <2>1. Claimed(l) = Oldest(Pending, Batch[l]) \cap OfOp("cb_manifest_push") /\ l \notin Uploaders
    BY <1>5 DEF Claimed
  <2>2. Oldest(Pending, Batch[l]) \subseteq Entries
    BY <1>1, <1>2
  <2>3. Claimed(l) \subseteq Oldest(Pending, Batch[l])
    BY <2>1
  <2>4. QED
    BY <2>1, <2>2, <2>3
<1>6. QED
  BY <1>3, <1>4, <1>5 DEF Loops

LEMMA InOrderFacts ==
  ASSUME NEW ids, ids \subseteq Entries, NEW rows \in InOrder(ids)
  PROVE  rows \in Seq(Entries) /\ \A k \in DOMAIN rows : rows[k] \in ids
<1> DEFINE n == Cardinality(ids)
<1>1. n \in Nat
  BY FS_Subset, FS_CardinalityType
<1>2. rows \in [1 .. n -> ids]
  BY DEF InOrder
<1> HIDE DEF n
<1>3. rows \in [1 .. n -> Entries]
  BY <1>2
<1>4. QED
  BY <1>1, <1>2, <1>3

LEMMA ClaimStep == ASSUME OutboxIndInv, NEW l \in Loops, Claim(l) PROVE OutboxIndInv' /\ Accounted
<1>1. PICK rows \in InOrder(Claimed(l)) : loop' = [loop EXCEPT ![l] = Sorting(rows)]
  BY DEF Claim
<1>2. UNCHANGED <<outbox, onDisk, accepted, crashes>>
  BY DEF Claim
<1>3. /\ rows \in Seq(Entries)
      /\ l \in Uploaders => \A k \in DOMAIN rows : rows[k] \in Uploads
  BY ClaimedFacts, InOrderFacts
<1>4. RowsMove({})
  BY <1>2, RowsSame
<1>5. l \in Uploaders => \A k \in DOMAIN rows : rows[k] \in Uploads'
  BY <1>3, <1>4 DEF RowsMove
<1>6. Sorting(rows) \in LoopRec /\ LoopOK(l, Sorting(rows), accepted', Uploads')
  BY <1>3, <1>5, SortingFacts
<1>7. LoopsGood
  BY <1>1, <1>2, <1>4, <1>6, OneLoop DEF RowsMove
<1>8. OutboxSets'
  BY <1>2 DEF OutboxIndInv, OutboxSets
<1>9. QED
  BY <1>4, <1>7, <1>8, Together

\* The row a loop looks at.
LEMMA HeadFacts ==
  ASSUME OutboxIndInv, NEW l \in Loops, loop[l].todo # <<>>
  PROVE  /\ loop[l] \in LoopRec /\ LoopOK(l, loop[l], accepted, Uploads)
         /\ Head(loop[l].todo) \in Entries /\ Tail(loop[l].todo) \in Seq(Entries)
         /\ l \in Uploaders => /\ Head(loop[l].todo) \in Uploads
                               /\ \A k \in DOMAIN Tail(loop[l].todo) : Tail(loop[l].todo)[k] \in Uploads
<1>1. loop[l] \in LoopRec /\ LoopOK(l, loop[l], accepted, Uploads) /\ loop[l].todo \in Seq(Entries)
  BY DEF OutboxIndInv, LoopRec
<1> DEFINE s == loop[l].todo
<1>2. s \in Seq(Entries) /\ s # <<>> /\ (l \in Uploaders => \A k \in DOMAIN s : s[k] \in Uploads)
  BY <1>1 DEF LoopOK
<1> HIDE DEF s
<1>3. /\ 1 \in DOMAIN s /\ Head(s) = s[1] /\ Head(s) \in Entries /\ Tail(s) \in Seq(Entries)
      /\ \A k \in DOMAIN Tail(s) : k + 1 \in DOMAIN s /\ Tail(s)[k] = s[k + 1]
  BY <1>2, SeqFacts
<1>4. QED
  BY <1>1, <1>2, <1>3 DEF s

LEMMA SkipFacts ==
  ASSUME OutboxIndInv, NEW l \in Loops, loop[l].pc = "sorting", loop[l].todo # <<>>, Skip(l),
         accepted' = accepted, Uploads \subseteq Uploads'
  PROVE  LoopsGood
<1> DEFINE c == loop[l]
           rest == Tail(c.todo)
           x == [c EXCEPT !.todo = rest]
<1>1. /\ c \in LoopRec /\ LoopOK(l, c, accepted, Uploads) /\ rest \in Seq(Entries) /\ c.pc = "sorting"
      /\ l \in Uploaders => \A k \in DOMAIN rest : rest[k] \in Uploads
  BY HeadFacts
<1>2. loop' = [loop EXCEPT ![l] = Idle] \/ loop' = [loop EXCEPT ![l] = x]
  BY DEF Skip
<1> HIDE DEF c, rest
<1>3. x \in LoopRec /\ x.pc = "sorting" /\ x.todo = rest
  BY <1>1 DEF LoopRec
<1> HIDE DEF x
<1>4. LoopOK(l, x, accepted', Uploads')
  BY <1>1, <1>3 DEF LoopOK
<1>5. LoopOK(l, Idle, accepted', Uploads') /\ Idle \in LoopRec
  BY IdleFacts
<1>6. CASE loop' = [loop EXCEPT ![l] = Idle]
  BY <1>5, <1>6, OneLoop
<1>7. CASE loop' = [loop EXCEPT ![l] = x]
  BY <1>3, <1>4, <1>7, OneLoop
<1>8. QED
  BY <1>2, <1>6, <1>7

LEMMA RefuseStep == ASSUME OutboxIndInv, NEW l \in Loops, Refuse(l) PROVE OutboxIndInv' /\ Accounted
<1>1. /\ loop[l].pc = "sorting" /\ loop[l].todo # <<>> /\ Skip(l)
      /\ UNCHANGED <<onDisk, accepted, crashes>>
  BY DEF Refuse
<1>2. PICK e \in Entries : MarkError(e) \/ UNCHANGED outbox
  BY <1>1, HeadFacts DEF Refuse
<1>3. RowsMove({})
  BY <1>2, MarkErrorFacts, RowsSame
<1>4. LoopsGood
  BY <1>1, <1>3, SkipFacts DEF RowsMove
<1>5. OutboxSets'
  BY <1>1 DEF OutboxIndInv, OutboxSets
<1>6. QED
  BY <1>3, <1>4, <1>5, Together

LEMMA MissingStep == ASSUME OutboxIndInv, NEW l \in Loops, Missing(l) PROVE OutboxIndInv' /\ Accounted
<1>1. /\ loop[l].pc = "sorting" /\ loop[l].todo # <<>> /\ Skip(l) /\ l \in Uploaders
      /\ UNCHANGED <<onDisk, accepted, crashes>>
  BY DEF Missing
<1>2. PICK e \in Uploads : e \notin onDisk /\ (MarkDone(e) \/ UNCHANGED outbox)
  BY <1>1, HeadFacts DEF Missing
<1>3. e \in Entries /\ Excused(e)
  BY <1>2 DEF Uploads, Excused
<1>4. LoopsGood
  <2>1. Uploads \subseteq Uploads'
    BY <1>2, <1>3, MarkDoneFacts, RowsSame DEF RowsMove
  <2>2. QED
    BY <1>1, <2>1, SkipFacts
<1>5. OutboxSets'
  BY <1>1 DEF OutboxIndInv, OutboxSets
<1>6. CASE MarkDone(e)
  <2>1. RowsMove({e})
    BY <1>3, <1>6, MarkDoneFacts
  <2>2. \A f \in {e} \cap Entries : Excused(f)
    BY <1>3
  <2>3. QED
    BY <1>4, <1>5, <2>1, <2>2, Together
<1>7. CASE UNCHANGED outbox
  <2>1. RowsMove({})
    BY <1>7, RowsSame
  <2>2. QED
    BY <1>4, <1>5, <2>1, Together
<1>8. QED
  BY <1>2, <1>6, <1>7

LEMMA GatherStep == ASSUME OutboxIndInv, NEW l \in Loops, Gather(l) PROVE OutboxIndInv' /\ Accounted
<1> DEFINE c == loop[l]
           e == Head(c.todo)
           x == [c EXCEPT !.todo = Tail(c.todo), !.batch = Append(c.batch, e)]
<1>1. /\ l \in Drainers /\ c.pc = "sorting" /\ loop[l].todo # <<>>
      /\ loop' = [loop EXCEPT ![l] = x] /\ UNCHANGED <<outbox, onDisk, accepted, crashes>>
  BY DEF Gather
<1>2. RowsMove({})
  BY <1>1, RowsSame
<1>3. c \in LoopRec /\ e \in Entries /\ Tail(c.todo) \in Seq(Entries)
  BY <1>1, HeadFacts
<1> HIDE DEF c, e
<1>4. Append(c.batch, e) \in Seq(Entries)
  BY <1>3 DEF LoopRec
<1>5. x \in LoopRec /\ x.pc = "sorting"
  BY <1>1, <1>3, <1>4 DEF LoopRec
<1> HIDE DEF x
<1>6. LoopOK(l, x, accepted', Uploads')
  BY <1>1, <1>5 DEF LoopOK
<1>7. LoopsGood
  BY <1>1, <1>2, <1>5, <1>6, OneLoop DEF RowsMove
<1>8. OutboxSets'
  BY <1>1 DEF OutboxIndInv, OutboxSets
<1>9. QED
  BY <1>2, <1>7, <1>8, Together

\* A request is answered: what is to be marked done has been taken.
LEMMA RequestFacts ==
  ASSUME OutboxIndInv, NEW l \in Loops, NEW rows \in Seq(Entries), NEW todo \in Seq(Entries),
         rows # <<>>, Request(l, rows, todo),
         l \in Uploaders => \A k \in DOMAIN todo : todo[k] \in Uploads
  PROVE  OutboxIndInv' /\ Accounted
<1>1. PICK answer \in {"ok", "error"}, took \in BOOLEAN :
        /\ answer = "ok" => took
        /\ accepted' = IF took THEN accepted \cup ToSet(rows) ELSE accepted
        /\ loop' = [loop EXCEPT ![l] = [pc |-> "marking", todo |-> todo,
                                        batch |-> rows, answer |-> answer]]
        /\ UNCHANGED <<outbox, onDisk, crashes>>
  BY DEF Request
<1> DEFINE x == [pc |-> "marking", todo |-> todo, batch |-> rows, answer |-> answer]
<1>2. RowsMove({})
  BY <1>1, RowsSame
<1>3. /\ accepted \subseteq accepted' /\ accepted' \subseteq Entries
      /\ answer = "ok" => \A k \in DOMAIN rows : rows[k] \in accepted'
  <2>1. ToSet(rows) \subseteq Entries /\ \A k \in DOMAIN rows : rows[k] \in ToSet(rows)
    <3>1. ToSet(rows) = {rows[k] : k \in DOMAIN rows}
      BY DEF ToSet
    <3>2. \A k \in DOMAIN rows : rows[k] \in Entries
      OBVIOUS
    <3>3. QED
      BY <3>1, <3>2
  <2>2. accepted \subseteq Entries
    BY DEF OutboxIndInv, OutboxSets
  <2>3. QED
    BY <1>1, <2>1, <2>2
<1>4. /\ x \in LoopRec /\ x.batch = rows /\ x.todo = todo
      /\ x.pc = "marking" /\ x.answer = answer /\ answer # "none"
  BY DEF LoopRec
<1>5. loop' = [loop EXCEPT ![l] = x]
  BY <1>1
<1> HIDE DEF x
<1>6. LoopOK(l, x, accepted', Uploads')
  BY <1>2, <1>3, <1>4 DEF LoopOK, RowsMove
<1>7. LoopsGood
  BY <1>2, <1>3, <1>4, <1>5, <1>6, OneLoop DEF RowsMove
<1>8. OutboxSets'
  BY <1>1, <1>3 DEF OutboxIndInv, OutboxSets
<1>9. QED
  BY <1>2, <1>7, <1>8, Together

LEMMA SendStep == ASSUME OutboxIndInv, NEW l \in Loops, Send(l) PROVE OutboxIndInv' /\ Accounted
<1>1. CASE l \in Drainers /\ loop[l].batch # <<>> /\ Request(l, loop[l].batch, <<>>)
  <2>1. loop[l].batch \in Seq(Entries) /\ l \notin Uploaders /\ <<>> \in Seq(Entries)
    BY <1>1 DEF OutboxIndInv, LoopRec
  <2> DEFINE rows == loop[l].batch
             todo == <<>>
  <2>2. /\ rows \in Seq(Entries) /\ rows # <<>> /\ todo \in Seq(Entries) /\ Request(l, rows, todo)
        /\ l \notin Uploaders
    BY <1>1, <2>1
  <2> HIDE DEF rows, todo
  <2>3. QED
    BY <2>2, RequestFacts
<1>2. CASE loop[l].todo # <<>> /\ Request(l, <<Head(loop[l].todo)>>, Tail(loop[l].todo))
  <2>1. /\ <<Head(loop[l].todo)>> \in Seq(Entries) /\ Tail(loop[l].todo) \in Seq(Entries)
        /\ l \in Uploaders => \A k \in DOMAIN Tail(loop[l].todo) : Tail(loop[l].todo)[k] \in Uploads
    BY <1>2, HeadFacts
  <2>2. <<Head(loop[l].todo)>> # <<>>
    OBVIOUS
  <2> DEFINE rows == <<Head(loop[l].todo)>>
             todo == Tail(loop[l].todo)
  <2>3. /\ rows \in Seq(Entries) /\ rows # <<>> /\ todo \in Seq(Entries) /\ Request(l, rows, todo)
        /\ l \in Uploaders => \A k \in DOMAIN todo : todo[k] \in Uploads
    BY <1>2, <2>1, <2>2
  <2> HIDE DEF rows, todo
  <2>4. QED
    BY <2>3, RequestFacts
<1>3. QED
  BY <1>1, <1>2 DEF Send

LEMMA MarkStep == ASSUME OutboxIndInv, NEW l \in Loops, Mark(l) PROVE OutboxIndInv' /\ Accounted
<1> DEFINE c == loop[l]
           rest == Tail(c.batch)
           x == [c EXCEPT !.batch = rest]
<1>1. /\ c.pc = "marking" /\ Marked(l, rest) /\ UNCHANGED <<onDisk, accepted, crashes>>
      /\ Verdict(l, Head(c.batch)) \/ UNCHANGED outbox
  BY DEF Mark
<1>2. /\ c \in LoopRec /\ LoopOK(l, c, accepted, Uploads) /\ c.batch \in Seq(Entries) /\ c.batch # <<>>
      /\ c.todo \in Seq(Entries)
  BY <1>1 DEF OutboxIndInv, LoopOK, LoopRec
<1>3. /\ 1 \in DOMAIN c.batch /\ Head(c.batch) = c.batch[1] /\ Head(c.batch) \in Entries
      /\ rest \in Seq(Entries)
      /\ \A k \in DOMAIN rest : k + 1 \in DOMAIN c.batch /\ rest[k] = c.batch[k + 1]
  BY <1>2, SeqFacts
<1>4. PICK e \in Entries :
        /\ e = Head(c.batch)
        /\ \/ c.answer = "ok" /\ e \in accepted /\ MarkDone(e)
           \/ MarkError(e)
           \/ UNCHANGED outbox
  <2>1. c.answer = "ok" => Head(c.batch) \in accepted
    BY <1>1, <1>2, <1>3 DEF LoopOK
  <2>2. QED
    BY <1>1, <1>3, <2>1 DEF Verdict
<1>5. Uploads \subseteq Uploads'
  BY <1>4, MarkDoneFacts, MarkErrorFacts, RowsSame DEF RowsMove
<1>6. \/ loop' = [loop EXCEPT ![l] = x] /\ rest # <<>>
      \/ loop' = [loop EXCEPT ![l] = Sorting(c.todo)]
      \/ loop' = [loop EXCEPT ![l] = Idle]
  BY <1>1 DEF Marked
<1>7. LoopsGood
  <2>1. CASE loop' = [loop EXCEPT ![l] = Idle]
    BY <1>1, <1>5, <2>1, IdleFacts, OneLoop
  <2>2. CASE loop' = [loop EXCEPT ![l] = Sorting(c.todo)]
    <3>1. l \in Uploaders => \A k \in DOMAIN c.todo : c.todo[k] \in Uploads'
      BY <1>2, <1>5 DEF LoopOK
    <3>2. Sorting(c.todo) \in LoopRec /\ LoopOK(l, Sorting(c.todo), accepted', Uploads')
      BY <1>2, <3>1, SortingFacts
    <3>3. QED
      BY <1>1, <1>5, <2>2, <3>2, OneLoop
  <2>3. CASE loop' = [loop EXCEPT ![l] = x] /\ rest # <<>>
    <3> HIDE DEF c, rest
    <3>1. /\ x \in LoopRec /\ x.batch = rest /\ x.pc = "marking"
          /\ x.answer = c.answer /\ x.todo = c.todo
      BY <1>1, <1>2, <1>3 DEF LoopRec
    <3> HIDE DEF x
    <3>2. LoopOK(l, x, accepted', Uploads')
      BY <1>1, <1>2, <1>3, <1>5, <2>3, <3>1 DEF LoopOK
    <3>3. QED
      BY <1>1, <1>5, <2>3, <3>1, <3>2, OneLoop
  <2>4. QED
    BY <1>6, <2>1, <2>2, <2>3
<1>8. OutboxSets'
  BY <1>1 DEF OutboxIndInv, OutboxSets
<1>9. CASE e \in accepted /\ MarkDone(e)
  <2>1. RowsMove({e})
    BY <1>9, MarkDoneFacts
  <2>2. \A f \in {e} \cap Entries : Excused(f)
    BY <1>9 DEF Excused
  <2>3. QED
    BY <1>7, <1>8, <2>1, <2>2, Together
<1>10. CASE MarkError(e) \/ UNCHANGED outbox
  <2>1. RowsMove({})
    BY <1>10, MarkErrorFacts, RowsSame
  <2>2. QED
    BY <1>7, <1>8, <2>1, Together
<1>11. QED
  BY <1>4, <1>9, <1>10

-----------------------------------------------------------------------------
(* The outbox's invariant is inductive *)

LEMMA OutboxInitInd == OutboxInit => OutboxIndInv
<1> SUFFICES ASSUME OutboxInit PROVE OutboxIndInv
  OBVIOUS
<1>1. OutboxSets
  BY DEF OutboxInit, OutboxSets
<1>2. outbox \in [Entries -> RowRec]
  BY DEF OutboxInit, RowRec
<1>3. loop \in [Loops -> LoopRec] /\ \A l \in Loops : LoopOK(l, loop[l], accepted, Uploads)
  BY IdleFacts DEF OutboxInit
<1>4. QED
  BY <1>1, <1>2, <1>3 DEF OutboxIndInv

LEMMA OutboxNextInd == OutboxIndInv /\ [OutboxNext]_outboxVars => OutboxIndInv' /\ Accounted
<1> SUFFICES ASSUME OutboxIndInv, [OutboxNext]_outboxVars PROVE OutboxIndInv' /\ Accounted
  OBVIOUS
<1>1. ASSUME NEW e \in Entries, NEW op \in Kinds, NEW readable \in BOOLEAN, Enqueue(e, op, readable)
      PROVE  OutboxIndInv' /\ Accounted
  BY <1>1, EnqueueStep
<1>2. ASSUME NEW e \in Entries, FileGone(e) PROVE OutboxIndInv' /\ Accounted
  BY <1>2, FileGoneStep
<1>3. ASSUME NEW l \in Loops, LoopStep(l) PROVE OutboxIndInv' /\ Accounted
  BY <1>3, ClaimStep, RefuseStep, MissingStep, GatherStep, SendStep, MarkStep DEF LoopStep
<1>4. CASE ClearFailed
  BY <1>4, ClearStep
<1>5. CASE CrashApp
  BY <1>5, CrashStep
<1>6. CASE UNCHANGED outboxVars
  BY <1>6, StutterStep
<1>7. QED
  BY <1>1, <1>2, <1>3, <1>4, <1>5, <1>6 DEF OutboxNext

LEMMA OutboxInductive == OutboxSpec => []OutboxIndInv
<1>1. QED
  BY OutboxInitInd, OutboxNextInd, PTL DEF OutboxSpec

-----------------------------------------------------------------------------
(* Theorems of the outbox *)

\* Rows, claims and requests stay well formed, and a loop that waits for its
\* marks has something to mark and an answer to mark it with, whatever the
\* other loops do to the rows meanwhile.
THEOREM OutboxCorrect == OutboxSpec => []OutboxTypeOK
<1>1. OutboxIndInv => OutboxTypeOK
  <2> SUFFICES ASSUME OutboxIndInv PROVE OutboxTypeOK
    OBVIOUS
  <2>1. ASSUME NEW l \in Loops
        PROVE  /\ loop[l].pc \in {"idle", "sorting", "marking"}
               /\ loop[l].todo \in Seq(Entries) /\ loop[l].batch \in Seq(Entries)
               /\ loop[l].answer \in {"none", "ok", "error"}
               /\ loop[l].pc = "marking" => loop[l].batch # <<>> /\ loop[l].answer # "none"
    BY DEF OutboxIndInv, LoopRec, LoopOK
  <2>2. QED
    BY <2>1 DEF OutboxIndInv, OutboxSets, RowRec, OutboxTypeOK
<1>2. QED
  BY <1>1, OutboxInductive, PTL

\* A row leaves the outbox because its server took it, because the user cleared
\* what was given up, or because its file is gone, although three loops claim
\* without a lease and answers and marks are lost.
THEOREM LeavesCorrect == OutboxSpec => LeavesAccountedFor
<1>1. OutboxIndInv /\ [OutboxNext]_outboxVars =>
        [\A e \in Entries : Queued(e) /\ outbox'[e].status = "gone" =>
           \/ e \in accepted
           \/ outbox[e].retries >= MaxTries
           \/ outbox[e].op = "cb_file_upload" /\ e \notin onDisk]_outboxVars
  BY OutboxNextInd DEF Accounted, Excused
<1>2. QED
  BY <1>1, OutboxInductive, PTL DEF OutboxSpec, LeavesAccountedFor

-----------------------------------------------------------------------------
(* The transfer queue: the inductive invariant *)

HIDE OutboxAssumption
USE TransferAssumption

Running == {j \in Jobs : task[j].pc = "running"}
AtRest == {"checking", "returned", "resting", "sleeping"}

\* What holds of one job.
JobOK(j) ==
  /\ Live(j) => j \in jobs
  /\ j \in barred => task[j].cancelled /\ task[j].pc \in AtRest \cup {"over"}
  /\ shown[j] = "done" => j \in written
  /\ j \in panicked => task[j].pc = "over"
  /\ shown[j] \in Terminal <=> task[j].pc = "over" /\ j \notin panicked
  /\ task[j].pc \in {"resting", "sleeping"} => task[j].attempt < MaxRetries
  /\ task[j].pc = "returned" /\ task[j].result = "ok" => j \in written

TransferIndInv ==
  /\ TransferTypeOK
  /\ PermitsAccounted
  /\ \A j \in Jobs : JobOK(j)

LEMMA TransferInitInv == TransferInit => TransferIndInv
<1> SUFFICES ASSUME TransferInit PROVE TransferIndInv
  OBVIOUS
<1>1. TransferTypeOK
  BY DEF TransferInit, TransferTypeOK, TaskPhase, Terminal
<1>2. PermitsAccounted
  <2>1. {j \in Jobs : task[j].pc = "running"} = {}
    BY DEF TransferInit
  <2>2. QED
    BY <2>1, FS_EmptySet DEF TransferInit, PermitsAccounted
<1>3. \A j \in Jobs : JobOK(j)
  BY DEF TransferInit, JobOK, Live, Terminal, AtRest
<1>4. QED
  BY <1>1, <1>2, <1>3 DEF TransferIndInv

-----------------------------------------------------------------------------
(* Permits *)

\* A job that starts running takes the number of running jobs up by one, one
\* that stops takes it down, and there is at least the one that stops.
LEMMA RunningCount ==
  ASSUME NEW j \in Jobs
  PROVE  /\ Cardinality(Running) \in Nat
         /\ j \notin Running => Cardinality(Running \cup {j}) = Cardinality(Running) + 1
         /\ j \in Running => /\ Cardinality(Running \ {j}) = Cardinality(Running) - 1
                             /\ Cardinality(Running) > 0
<1>1. IsFiniteSet(Running)
  BY FS_Subset DEF Running
<1>2. Cardinality(Running) \in Nat
  BY <1>1, FS_CardinalityType
<1>3. ASSUME j \in Running
      PROVE  Cardinality(Running \ {j}) = Cardinality(Running) - 1 /\ Cardinality(Running) > 0
  <2>1. Cardinality(Running \ {j}) = Cardinality(Running) - 1
    BY <1>1, <1>3, FS_RemoveElement
  <2>2. IsFiniteSet(Running \ {j})
    BY <1>1, FS_RemoveElement
  <2>3. Cardinality(Running \ {j}) \in Nat
    BY <2>2, FS_CardinalityType
  <2>4. QED
    BY <1>2, <2>1, <2>3
<1>4. ASSUME j \notin Running
      PROVE  Cardinality(Running \cup {j}) = Cardinality(Running) + 1
  BY <1>1, <1>4, FS_AddElement
<1>5. QED
  BY <1>2, <1>3, <1>4

-----------------------------------------------------------------------------
(* What a step of one job must establish *)

TransferTyped == [pc : TaskPhase, attempt : 0..MaxRetries,
          result : {"none", "ok", "transient", "permanent"},
          cancelled : BOOLEAN, woken : BOOLEAN]
ShownStates == {"unused", "queued", "active", "retrying"} \cup Terminal

\* The other jobs' tasks and states stay as they are.
OneMoves(j) ==
  /\ task' \in [Jobs -> TransferTyped] /\ \A k \in Jobs \ {j} : task'[k] = task[k]
  /\ shown' \in [Jobs -> ShownStates] /\ \A k \in Jobs \ {j} : shown'[k] = shown[k]

\* Starting to run takes a permit, ceasing to run returns it.
PermitMoves(j) ==
  LET from == task[j].pc
      to == task'[j].pc IN
  /\ to = "running" /\ from # "running" => free > 0 /\ free' = free - 1
  /\ to # "running" /\ from = "running" => free' = free + 1
  /\ (to = "running" <=> from = "running") => free' = free

\* The registry and the histories change for the job that moves only.
SetsMove(j) ==
  /\ jobs' \subseteq Jobs /\ \A k \in Jobs \ {j} : k \in jobs /\ Live(k) => k \in jobs'
  /\ \/ written' = written
     \/ written' = written \cup {j}
  /\ \/ barred' = barred
     \/ barred' = barred \cup {j}
  /\ \/ panicked' = panicked
     \/ panicked' = panicked \cup {j}

LEMMA Types ==
  ASSUME TransferIndInv
  PROVE  /\ task \in [Jobs -> TransferTyped] /\ shown \in [Jobs -> ShownStates]
         /\ free \in 0..Permits /\ jobs \subseteq Jobs /\ written \subseteq Jobs
         /\ barred \subseteq Jobs /\ panicked \subseteq Jobs
         /\ \A j \in Jobs : JobOK(j)
BY DEF TransferIndInv, TransferTypeOK, TransferTyped, ShownStates

LEMMA PermitStep ==
  ASSUME TransferIndInv, NEW j \in Jobs, OneMoves(j), PermitMoves(j)
  PROVE  free' \in 0..Permits /\ PermitsAccounted'
<1> DEFINE After == {k \in Jobs : task'[k].pc = "running"}
<1>1. /\ (j \in After <=> task'[j].pc = "running") /\ (j \in Running <=> task[j].pc = "running")
      /\ \A k \in Jobs \ {j} : k \in After <=> k \in Running
      /\ After \subseteq Jobs /\ Running \subseteq Jobs
  BY DEF Running, OneMoves
<1> HIDE DEF After
<1>2. free \in 0..Permits /\ free + Cardinality(Running) = Permits
  BY DEF TransferIndInv, TransferTypeOK, PermitsAccounted, Running
<1>3. free' \in 0..Permits /\ free' + Cardinality(After) = Permits
  <2>1. CASE j \in After /\ j \notin Running
    <3>1. After = Running \cup {j}
      BY <1>1, <2>1
    <3>2. free > 0 /\ free' = free - 1
      BY <1>1, <2>1 DEF PermitMoves
    <3>3. QED
      BY <1>2, <2>1, <3>1, <3>2, RunningCount
  <2>2. CASE j \notin After /\ j \in Running
    <3>1. After = Running \ {j}
      BY <1>1, <2>2
    <3>2. free' = free + 1
      BY <1>1, <2>2 DEF PermitMoves
    <3>3. QED
      BY <1>2, <2>2, <3>1, <3>2, RunningCount
  <2>3. CASE j \in After <=> j \in Running
    <3>1. \A k \in Jobs : k \in After <=> k \in Running
      BY <1>1, <2>3
    <3>2. After = Running
      BY <1>1, <3>1
    <3>3. free' = free
      BY <1>1, <2>3 DEF PermitMoves
    <3>4. QED
      BY <1>2, <3>2, <3>3
  <2>4. QED
    BY <2>1, <2>2, <2>3
<1>4. QED
  BY <1>3 DEF PermitsAccounted, After

\* A step that moves one job keeps the invariant if it leaves that job as the
\* invariant says.
LEMMA StepInv ==
  ASSUME TransferIndInv, NEW j \in Jobs,
         OneMoves(j), PermitMoves(j), SetsMove(j), JobOK(j)'
  PROVE  TransferIndInv'
<1>1. free' \in 0..Permits /\ PermitsAccounted'
  BY PermitStep
<1>2. TransferTypeOK'
  <2>1. /\ jobs' \subseteq Jobs /\ written' \subseteq Jobs
        /\ barred' \subseteq Jobs /\ panicked' \subseteq Jobs
    BY Types DEF SetsMove
  <2>2. QED
    BY <1>1, <2>1 DEF OneMoves, TransferTypeOK, TransferTyped, ShownStates
<1>3. ASSUME NEW k \in Jobs \ {j} PROVE JobOK(k)'
  <2>1. JobOK(k) /\ task'[k] = task[k] /\ shown'[k] = shown[k]
    BY Types DEF OneMoves
  <2>2. /\ k \in jobs /\ Live(k) => k \in jobs'
        /\ k \in written' <=> k \in written
        /\ k \in barred' <=> k \in barred
        /\ k \in panicked' <=> k \in panicked
    BY DEF SetsMove
  <2>3. QED
    BY <2>1, <2>2 DEF JobOK, Live
<1>4. QED
  BY <1>1, <1>2, <1>3 DEF TransferIndInv

-----------------------------------------------------------------------------
(* The steps *)

LEMMA CheckInv ==
  ASSUME TransferIndInv, NEW j \in Jobs, Check(j)
  PROVE  TransferIndInv'
<1>1. /\ task \in [Jobs -> TransferTyped] /\ shown \in [Jobs -> ShownStates] /\ JobOK(j)
      /\ free \in 0..Permits
  BY Types
<1>2. OneMoves(j)
  BY <1>1 DEF Check, Over, Goto, Becomes, Show, OneMoves, TransferTyped, TaskPhase, ShownStates, Terminal
<1>3. PermitMoves(j) /\ SetsMove(j)
  BY <1>1, Types DEF Check, Over, Goto, Becomes, Show, PermitMoves, SetsMove, TransferTyped
<1>4. JobOK(j)'
  BY <1>1 DEF Check, Over, Goto, Becomes, Show, JobOK, Live, AtRest, TransferTyped, Terminal
<1>5. QED
  BY <1>2, <1>3, <1>4, StepInv

LEMMA EnterInv ==
  ASSUME TransferIndInv, NEW j \in Jobs, Enter(j)
  PROVE  TransferIndInv'
<1>1. /\ task \in [Jobs -> TransferTyped] /\ shown \in [Jobs -> ShownStates] /\ JobOK(j)
      /\ free \in 0..Permits
  BY Types
<1>2. OneMoves(j)
  BY <1>1 DEF Enter, Goto, Becomes, Show, OneMoves, TransferTyped, TaskPhase, ShownStates, Terminal
<1>3. PermitMoves(j) /\ SetsMove(j)
  BY <1>1, Types DEF Enter, Goto, Becomes, Show, PermitMoves, SetsMove, TransferTyped
<1>4. JobOK(j)'
  BY <1>1 DEF Enter, Goto, Becomes, Show, JobOK, Live, AtRest, TransferTyped, Terminal
<1>5. QED
  BY <1>2, <1>3, <1>4, StepInv

LEMMA AcquireInv ==
  ASSUME TransferIndInv, NEW j \in Jobs, Acquire(j)
  PROVE  TransferIndInv'
<1>1. /\ task \in [Jobs -> TransferTyped] /\ shown \in [Jobs -> ShownStates] /\ JobOK(j)
      /\ free \in 0..Permits
  BY Types
<1>2. OneMoves(j)
  BY <1>1 DEF Acquire, Becomes, Show, OneMoves, TransferTyped, TaskPhase, ShownStates, Terminal
<1>3. PermitMoves(j) /\ SetsMove(j)
  BY <1>1, Types DEF Acquire, Becomes, Show, PermitMoves, SetsMove, TransferTyped
<1>4. JobOK(j)'
  BY <1>1 DEF Acquire, Becomes, Show, JobOK, Live, AtRest, TransferTyped, Terminal
<1>5. QED
  BY <1>2, <1>3, <1>4, StepInv

LEMMA WokenInv ==
  ASSUME TransferIndInv, NEW j \in Jobs, Woken(j)
  PROVE  TransferIndInv'
<1>1. /\ task \in [Jobs -> TransferTyped] /\ shown \in [Jobs -> ShownStates] /\ JobOK(j)
      /\ free \in 0..Permits
  BY Types
<1>2. OneMoves(j)
  BY <1>1 DEF Woken, Listens, Over, Goto, Becomes, Show, OneMoves, TransferTyped, TaskPhase, ShownStates, Terminal
<1>3. PermitMoves(j) /\ SetsMove(j)
  BY <1>1, Types DEF Woken, Listens, Over, Goto, Becomes, Show, PermitMoves, SetsMove, TransferTyped
<1>4. JobOK(j)'
  BY <1>1 DEF Woken, Listens, Over, Goto, Becomes, Show, JobOK, Live, AtRest, TransferTyped, Terminal
<1>5. QED
  BY <1>2, <1>3, <1>4, StepInv

LEMMA ReturnsInv ==
  ASSUME TransferIndInv, NEW j \in Jobs, NEW result \in {"ok", "transient", "permanent"}, Returns(j, result)
  PROVE  TransferIndInv'
<1>1. /\ task \in [Jobs -> TransferTyped] /\ shown \in [Jobs -> ShownStates] /\ JobOK(j)
      /\ free \in 0..Permits
  BY Types
<1>2. OneMoves(j)
  BY <1>1 DEF Returns, Becomes, Show, OneMoves, TransferTyped, TaskPhase, ShownStates, Terminal
<1>3. PermitMoves(j) /\ SetsMove(j)
  BY <1>1, Types DEF Returns, Becomes, Show, PermitMoves, SetsMove, TransferTyped
<1>4. JobOK(j)'
  BY <1>1 DEF Returns, Becomes, Show, JobOK, Live, AtRest, TransferTyped, Terminal
<1>5. QED
  BY <1>2, <1>3, <1>4, StepInv

LEMMA PanicsInv ==
  ASSUME TransferIndInv, NEW j \in Jobs, Panics(j)
  PROVE  TransferIndInv'
<1>1. /\ task \in [Jobs -> TransferTyped] /\ shown \in [Jobs -> ShownStates] /\ JobOK(j)
      /\ free \in 0..Permits
  BY Types
<1>2. OneMoves(j)
  BY <1>1 DEF Panics, Goto, Becomes, Show, OneMoves, TransferTyped, TaskPhase, ShownStates, Terminal
<1>3. PermitMoves(j) /\ SetsMove(j)
  BY <1>1, Types DEF Panics, Goto, Becomes, Show, PermitMoves, SetsMove, TransferTyped
<1>4. JobOK(j)'
  BY <1>1 DEF Panics, Goto, Becomes, Show, JobOK, Live, AtRest, TransferTyped, Terminal
<1>5. QED
  BY <1>2, <1>3, <1>4, StepInv

LEMMA JudgeInv ==
  ASSUME TransferIndInv, NEW j \in Jobs, Judge(j)
  PROVE  TransferIndInv'
<1>1. /\ task \in [Jobs -> TransferTyped] /\ shown \in [Jobs -> ShownStates] /\ JobOK(j)
      /\ free \in 0..Permits
  BY Types
<1>2. OneMoves(j)
  BY <1>1 DEF Judge, Over, Goto, Becomes, Show, OneMoves, TransferTyped, TaskPhase, ShownStates, Terminal
<1>3. PermitMoves(j) /\ SetsMove(j)
  BY <1>1, Types DEF Judge, Over, Goto, Becomes, Show, PermitMoves, SetsMove, TransferTyped
<1>4. JobOK(j)'
  BY <1>1 DEF Judge, Over, Goto, Becomes, Show, JobOK, Live, AtRest, TransferTyped, Terminal
<1>5. QED
  BY <1>2, <1>3, <1>4, StepInv

LEMMA RestInv ==
  ASSUME TransferIndInv, NEW j \in Jobs, Rest(j)
  PROVE  TransferIndInv'
<1>1. /\ task \in [Jobs -> TransferTyped] /\ shown \in [Jobs -> ShownStates] /\ JobOK(j)
      /\ free \in 0..Permits
  BY Types
<1>2. OneMoves(j)
  BY <1>1 DEF Rest, Goto, Becomes, Show, OneMoves, TransferTyped, TaskPhase, ShownStates, Terminal
<1>3. PermitMoves(j) /\ SetsMove(j)
  BY <1>1, Types DEF Rest, Goto, Becomes, Show, PermitMoves, SetsMove, TransferTyped
<1>4. JobOK(j)'
  BY <1>1 DEF Rest, Goto, Becomes, Show, JobOK, Live, AtRest, TransferTyped, Terminal
<1>5. QED
  BY <1>2, <1>3, <1>4, StepInv

LEMMA RetryInv ==
  ASSUME TransferIndInv, NEW j \in Jobs, Retry(j)
  PROVE  TransferIndInv'
<1>1. /\ task \in [Jobs -> TransferTyped] /\ shown \in [Jobs -> ShownStates] /\ JobOK(j)
      /\ free \in 0..Permits
  BY Types
<1>2. OneMoves(j)
  BY <1>1 DEF Retry, Becomes, Show, OneMoves, TransferTyped, TaskPhase, ShownStates, Terminal, JobOK
<1>3. PermitMoves(j) /\ SetsMove(j)
  BY <1>1, Types DEF Retry, Becomes, Show, PermitMoves, SetsMove, TransferTyped
<1>4. JobOK(j)'
  BY <1>1 DEF Retry, Becomes, Show, JobOK, Live, AtRest, TransferTyped, Terminal
<1>5. QED
  BY <1>2, <1>3, <1>4, StepInv

\* register_job drops only jobs that are over.
LEMMA KeptLive ==
  ASSUME TransferIndInv, NEW j \in Jobs, task[j].pc = "unused",
         NEW k \in Jobs, k = j \/ (k \in jobs /\ Live(k))
  PROVE  k \in Kept(jobs \cup {j})
<1>1. shown[k] \notin Terminal
  BY Types DEF JobOK, Live
<1>2. QED
  BY <1>1 DEF Kept

LEMMA SubmitInv ==
  ASSUME TransferIndInv, NEW j \in Jobs, Submit(j)
  PROVE  TransferIndInv'
<1>1. /\ task \in [Jobs -> TransferTyped] /\ shown \in [Jobs -> ShownStates] /\ JobOK(j)
      /\ jobs \subseteq Jobs
  BY Types
<1>2. OneMoves(j)
  BY <1>1 DEF Submit, Goto, Becomes, Show, OneMoves, TransferTyped, TaskPhase, ShownStates
<1>3. PermitMoves(j)
  BY <1>1 DEF Submit, Goto, Becomes, PermitMoves, TransferTyped
<1>4. /\ SetsMove(j) /\ j \in jobs'
  BY <1>1, KeptLive DEF Submit, SetsMove, Kept
<1>5. JobOK(j)'
  BY <1>1, <1>4 DEF Submit, Goto, Becomes, Show, JobOK, Live, AtRest, TransferTyped, Terminal
<1>6. QED
  BY <1>2, <1>3, <1>4, <1>5, StepInv

LEMMA CancelInv ==
  ASSUME TransferIndInv, NEW j \in Jobs, Cancel(j)
  PROVE  TransferIndInv'
<1>1. /\ task \in [Jobs -> TransferTyped] /\ shown \in [Jobs -> ShownStates] /\ JobOK(j)
      /\ jobs \subseteq Jobs /\ Listens(j) \in BOOLEAN
  BY Types DEF Listens
<1>2. OneMoves(j)
  BY <1>1 DEF Cancel, OneMoves, TransferTyped
<1>3. /\ task'[j].pc = task[j].pc /\ task'[j].attempt = task[j].attempt
      /\ task'[j].result = task[j].result /\ task'[j].cancelled = TRUE
  BY <1>1 DEF Cancel, TransferTyped
<1>4. PermitMoves(j) /\ SetsMove(j)
  BY <1>1, <1>3 DEF Cancel, PermitMoves, SetsMove
<1>5. JobOK(j)'
  <2>1. j \in barred' => task[j].pc \in AtRest \cup {"over"}
    BY <1>1 DEF Cancel, JobOK, AtRest
  <2>2. QED
    BY <1>1, <1>3, <2>1 DEF Cancel, JobOK, Live
<1>6. QED
  BY <1>2, <1>4, <1>5, StepInv

LEMMA StutterInv == ASSUME TransferIndInv, UNCHANGED tqVars PROVE TransferIndInv'
BY DEF TransferIndInv, TransferTypeOK, PermitsAccounted, JobOK, Live, tqVars

LEMMA TransferNextInv == ASSUME TransferIndInv, [TransferNext]_tqVars PROVE TransferIndInv'
<1>1. CASE UNCHANGED tqVars
  BY <1>1, StutterInv
<1>2. ASSUME NEW j \in Jobs, Submit(j) \/ Cancel(j) \/ Acquire(j) \/ OtherStep(j)
      PROVE  TransferIndInv'
  <2>1. CASE Submit(j)
    BY <2>1, SubmitInv
  <2>2. CASE Cancel(j)
    BY <2>2, CancelInv
  <2>3. CASE Acquire(j)
    BY <2>3, AcquireInv
  <2>4. CASE OtherStep(j)
    BY <2>4, CheckInv, EnterInv, WokenInv, PanicsInv, JudgeInv, RestInv, RetryInv,
       ReturnsInv DEF OtherStep
  <2>5. QED
    BY <1>2, <2>1, <2>2, <2>3, <2>4
<1>3. QED
  BY <1>1, <1>2 DEF TransferNext

LEMMA Invariance == TransferSpec => []TransferIndInv
<1>1. TransferInit => TransferIndInv
  BY TransferInitInv
<1>2. TransferIndInv /\ [TransferNext]_tqVars => TransferIndInv'
  BY TransferNextInv
<1>3. QED
  BY <1>1, <1>2, PTL DEF TransferSpec

-----------------------------------------------------------------------------
(* Theorems of the transfer queue *)

\* Every reachable state of run_with_retries and its registry has its type:
\* permits never go below zero, and no attempt is counted beyond MAX_RETRIES.
THEOREM TypeCorrect == TransferSpec => []TransferTypeOK
<1>1. TransferIndInv => TransferTypeOK
  BY DEF TransferIndInv
<1>2. QED
  BY <1>1, Invariance, PTL

\* The semaphore's permits are neither lost nor invented, whatever number of jobs
\* there is and however their attempts end.
THEOREM PermitsCorrect == TransferSpec => []PermitsAccounted
<1>1. TransferIndInv => PermitsAccounted
  BY DEF TransferIndInv
<1>2. QED
  BY <1>1, Invariance, PTL

\* register_job never evicts a job that may still move bytes, even if there are
\* more of them than the registry has places.
THEOREM LiveCorrect == TransferSpec => []LiveStaysRegistered
<1>1. TransferIndInv => LiveStaysRegistered
  BY DEF TransferIndInv, JobOK, LiveStaysRegistered
<1>2. QED
  BY <1>1, Invariance, PTL

\* A job cancelled while it tests its flag, judges an answer or sleeps moves no
\* more bytes, although the Notify may be missed.
THEOREM CancelCorrect == TransferSpec => []CancelIsObeyed
<1>1. TransferIndInv => CancelIsObeyed
  BY DEF TransferIndInv, TransferTypeOK, JobOK, CancelIsObeyed, AtRest
<1>2. QED
  BY <1>1, Invariance, PTL

\* A job that shows "done" has moved its bytes, and shows an end when it is over.
THEOREM ShownCorrect == TransferSpec => []ShownIsTrue
<1>1. TransferIndInv => ShownIsTrue
  BY DEF TransferIndInv, JobOK, ShownIsTrue
<1>2. QED
  BY <1>1, Invariance, PTL

\* The invariant the runs check: the queue's types, permits, registry and shown
\* states hold together, for every number of jobs, permits and retries.
THEOREM InvCorrect == TransferSpec => []TransferInv
BY TypeCorrect, PermitsCorrect, LiveCorrect, ShownCorrect, PTL DEF TransferInv


\* What a job shows when it is over is not shown over again: run_with_retries
\* returns after it.
THEOREM FinalCorrect == TransferSpec => ShownIsFinal
<1>1. TransferIndInv /\ [TransferNext]_tqVars =>
        [\A j \in Jobs : shown[j] \in Terminal => shown'[j] = shown[j]]_tqVars
  <2> SUFFICES ASSUME TransferIndInv, [TransferNext]_tqVars, NEW k \in Jobs, shown[k] \in Terminal
               PROVE  shown'[k] = shown[k]
    OBVIOUS
  <2>1. task[k].pc = "over" /\ shown \in [Jobs -> ShownStates]
    BY Types DEF JobOK, TransferIndInv, TransferTypeOK, ShownStates
  <2>2. CASE UNCHANGED tqVars
    BY <2>2 DEF tqVars
  <2>3. ASSUME NEW j \in Jobs, Submit(j) \/ Cancel(j) \/ Acquire(j) \/ OtherStep(j)
        PROVE  shown'[k] = shown[k]
    <3>1. UNCHANGED shown \/ (task[j].pc # "over" /\ \E state : Show(j, state))
      BY <2>3 DEF Submit, Cancel, Acquire, OtherStep, Check, Enter, Woken, Listens, Panics,
                  Judge, Rest, Retry, Returns, Over
    <3>2. QED
      BY <2>1, <3>1 DEF Show
  <2>4. QED
    BY <2>2, <2>3 DEF TransferNext
<1>2. QED
  BY <1>1, Invariance, PTL DEF TransferSpec, ShownIsFinal

-----------------------------------------------------------------------------
(* The promise to the callers *)

\* A step that moves one job changes the outcome of no other.
LEMMA OutcomeStep ==
  ASSUME NEW j \in Jobs,
         \A k \in Jobs \ {j} : task'[k].pc = task[k].pc /\ shown'[k] = shown[k]
  PROVE  outcome' = [outcome EXCEPT ![j] = outcome'[j]]
<1>1. \A k \in Jobs \ {j} : outcome'[k] = outcome[k]
  BY DEF outcome
<1>2. outcome \in [Jobs -> {"unsubmitted", "awaited", "ok", "error"}]
  BY DEF outcome
<1>3. outcome' = [k \in Jobs |-> outcome'[k]]
  BY DEF outcome
<1>4. QED
  BY <1>1, <1>2, <1>3

LEMMA PromiseStep ==
  ASSUME TransferIndInv, NEW j \in Jobs, Submit(j) \/ Cancel(j) \/ Acquire(j) \/ OtherStep(j)
  PROVE  [Promise!PromiseNext]_<<outcome, written>>
<1>1. task \in [Jobs -> TransferTyped] /\ shown \in [Jobs -> ShownStates] /\ JobOK(j)
  BY Types DEF TransferIndInv, TransferTypeOK, TransferTyped, ShownStates
<1>2. \A k \in Jobs \ {j} : task'[k].pc = task[k].pc /\ shown'[k] = shown[k]
  <2>1. \A k \in Jobs \ {j} : task'[k] = task[k]
    BY <1>1 DEF Submit, Cancel, Acquire, OtherStep, Check, Enter, Woken, Panics,
                Judge, Rest, Retry, Returns, Over, Goto, Becomes
  <2>2. UNCHANGED shown \/ \E state : Show(j, state)
    BY DEF Submit, Cancel, Acquire, OtherStep, Check, Enter, Woken, Panics,
           Judge, Rest, Retry, Returns, Over
  <2>3. QED
    BY <1>1, <2>1, <2>2 DEF Show
<1>3. outcome' = [outcome EXCEPT ![j] = outcome'[j]]
  BY <1>2, OutcomeStep
<1>4. CASE Submit(j)
  <2>1. outcome[j] = "unsubmitted" /\ outcome'[j] = "awaited" /\ UNCHANGED written
    BY <1>1, <1>4 DEF Submit, Goto, Becomes, outcome
  <2>2. Promise!Submitted(j)
    BY <1>3, <2>1 DEF Promise!Submitted
  <2>3. QED
    BY <2>2 DEF Promise!PromiseNext
<1>5. CASE Cancel(j)
  <2>1. outcome' = outcome /\ UNCHANGED written
    BY <1>1, <1>5 DEF Cancel, outcome
  <2>2. QED
    BY <2>1
<1>6. CASE Acquire(j) \/ \E result \in {"ok", "transient", "permanent"} : Returns(j, result)
  <2>1. outcome[j] = "awaited" /\ outcome'[j] = "awaited"
    BY <1>1, <1>6 DEF Acquire, Returns, Becomes, outcome
  <2>2. outcome' = outcome
    BY <1>3, <2>1 DEF outcome
  <2>3. UNCHANGED written \/ written' = written \cup {j}
    BY <1>6 DEF Acquire, Returns
  <2>4. QED
    BY <2>1, <2>2, <2>3 DEF Promise!PromiseNext, Promise!Moved
<1>7. CASE OtherStep(j) /\ ~\E result \in {"ok", "transient", "permanent"} : Returns(j, result)
  <2>1. outcome[j] = "awaited" /\ UNCHANGED written
    BY <1>7 DEF OtherStep, Check, Enter, Woken, Listens, Panics, Judge, Rest, Retry, outcome
  <2>2. outcome'[j] \in {"awaited", "ok", "error"} /\ (outcome'[j] = "ok" => j \in written)
    <3>1. CASE Check(j) \/ Enter(j) \/ Woken(j) \/ Rest(j) \/ Retry(j)
      BY <1>1, <3>1 DEF Check, Enter, Woken, Rest, Retry, Over, Goto, Becomes, Show, outcome
    <3>2. CASE Judge(j)
      BY <1>1, <3>2 DEF Judge, Over, Goto, Becomes, Show, outcome, JobOK
    <3>3. CASE Panics(j)
      BY <1>1, <3>3 DEF Panics, Goto, Becomes, outcome, JobOK, Terminal
    <3>4. QED
      BY <1>7, <3>1, <3>2, <3>3 DEF OtherStep
  <2>3. CASE outcome'[j] = "awaited"
    <3>1. outcome' = outcome
      BY <1>3, <2>1, <2>3 DEF outcome
    <3>2. QED
      BY <2>1, <3>1
  <2>4. CASE outcome'[j] # "awaited"
    BY <1>3, <2>1, <2>2, <2>4 DEF Promise!PromiseNext, Promise!Ended
  <2>5. QED
    BY <2>3, <2>4
<1>8. QED
  BY <1>4, <1>5, <1>6, <1>7

\* TransferQueue implements TransferPromise: whatever cancels, retries and panics
\* do, a caller's answer comes once and is "ok" only if the bytes were moved.
THEOREM PromiseImplemented == TransferSpec => KeepsPromise
<1>1. TransferInit => Promise!PromiseInit
  BY DEF TransferInit, Promise!PromiseInit, outcome
<1>2. TransferIndInv /\ [TransferNext]_tqVars => [Promise!PromiseNext]_<<outcome, written>>
  <2>1. CASE UNCHANGED tqVars
    BY <2>1 DEF tqVars, outcome
  <2>2. ASSUME TransferIndInv, TransferNext PROVE [Promise!PromiseNext]_<<outcome, written>>
    BY <2>2, PromiseStep DEF TransferNext
  <2>3. QED
    BY <2>1, <2>2
<1>3. QED
  BY <1>1, <1>2, Invariance, PTL DEF TransferSpec, KeepsPromise, Promise!PromiseSpec,
     Promise!promiseVars

-----------------------------------------------------------------------------
(* Background ingest: the inductive invariant *)

HIDE TransferAssumption
USE BackgroundAssumption

\* What a start has still to spawn, and what was seen.
Accounts ==
  /\ \A s \in Starts : starter[s].pc = "spawning" => starter[s].left # 0
  /\ ToSet(pending) \subseteq seen
  /\ \A w \in Workers : worker[w].pc = "busy" => worker[w].item \in seen

BgIndInv == SchedulerInv /\ SomebodyActs /\ Accounts

StarterRec == [pc : {"unused", "counting", "recounting", "spawning", "over"}, left : 0 .. Concurrency]
WorkerRec == [pc : {"unused", "top", "busy", "over"}, item : Items \cup {NoItem}]

-----------------------------------------------------------------------------
(* The queue as a set, and the counter *)

LEMMA AppendFacts ==
  ASSUME NEW q \in Seq(Items), NEW i \in Items, i \notin ToSet(q), IsInjective(q)
  PROVE  /\ Append(q, i) \in Seq(Items) /\ IsInjective(Append(q, i))
         /\ ToSet(Append(q, i)) = ToSet(q) \cup {i}
<1> DEFINE b == Append(q, i)
           n == Len(q)
<1>1. /\ b \in Seq(Items) /\ n \in Nat /\ DOMAIN q = 1 .. n /\ DOMAIN b = 1 .. n + 1
      /\ b[n + 1] = i /\ \A k \in 1 .. n : b[k] = q[k]
  OBVIOUS
<1> HIDE DEF b, n
<1>2. \A k \in 1 .. n : q[k] # i
  BY <1>1 DEF ToSet
<1>3. \A k \in 1 .. n + 1 : k \in 1 .. n \/ k = n + 1
  BY <1>1
<1>4. IsInjective(b)
  BY <1>1, <1>2, <1>3 DEF IsInjective
<1>5. ToSet(b) = ToSet(q) \cup {i}
  <2>1. ToSet(b) \subseteq ToSet(q) \cup {i}
    BY <1>1, <1>3 DEF ToSet
  <2>2. ToSet(q) \subseteq ToSet(b) /\ i \in ToSet(b)
    <3>1. 1 .. n \subseteq 1 .. n + 1 /\ n + 1 \in 1 .. n + 1
      BY <1>1
    <3>2. QED
      BY <1>1, <3>1 DEF ToSet
  <2>3. QED
    BY <2>1, <2>2
<1>6. QED
  BY <1>1, <1>4, <1>5 DEF b

LEMMA TailFacts ==
  ASSUME NEW q \in Seq(Items), q # <<>>, IsInjective(q)
  PROVE  /\ Tail(q) \in Seq(Items) /\ IsInjective(Tail(q))
         /\ Head(q) \in ToSet(q) /\ Head(q) \in Items
         /\ ToSet(Tail(q)) \subseteq ToSet(q) \ {Head(q)}
BY DEF ToSet, IsInjective

LEMMA EmptyFacts == <<>> \in Seq(Items) /\ IsInjective(<<>>) /\ ToSet(<<>>) = {}
BY DEF ToSet, IsInjective

LEMMA AliveFinite == IsFiniteSet(Alive) /\ Cardinality(Alive) \in Nat
<1>1. Alive \subseteq Workers
  BY DEF Alive
<1>2. QED
  BY <1>1, FS_Subset, FS_CardinalityType

LEMMA Counted ==
  ASSUME ActiveIsExact
  PROVE  active \in Nat /\ (active = 0 <=> Alive = {})
BY AliveFinite, FS_EmptySet DEF ActiveIsExact
\* One worker more, or less, is alive.
LEMMA AliveGrows ==
  ASSUME ActiveIsExact, NEW w \in Workers, w \notin Alive, Alive' = Alive \cup {w}, active' = active + 1
  PROVE  ActiveIsExact'
BY AliveFinite, FS_AddElement DEF ActiveIsExact

LEMMA AliveShrinks ==
  ASSUME ActiveIsExact, NEW w \in Alive, Alive' = Alive \ {w}, active' = active - 1
  PROVE  ActiveIsExact' /\ active' \in Nat /\ (active = 1 => Alive' = {}) /\ (active # 1 => Alive' # {})
<1>1. active \in Nat /\ active # 0
  BY Counted
<1>2. IsFiniteSet(Alive') /\ Cardinality(Alive') = active'
  BY AliveFinite, FS_RemoveElement DEF ActiveIsExact
<1>3. Cardinality(Alive') = 0 <=> Alive' = {}
  BY <1>2, FS_EmptySet
<1>4. QED
  BY <1>1, <1>2, <1>3 DEF ActiveIsExact

-----------------------------------------------------------------------------
(* What a start does *)

LEMMA StartStep ==
  ASSUME BgIndInv, NEW s \in Starts, NEW i \in Items, StartIngest(s, i) PROVE BgIndInv'
<1>1. /\ BgTypeOK /\ ActiveIsExact /\ ItemsInOnePlace /\ SomebodyActs /\ Accounts
      /\ i \notin seen /\ pending' = Append(pending, i) /\ seen' = seen \cup {i}
      /\ starter' = [starter EXCEPT ![s].pc = "counting"] /\ starter[s].pc = "unused"
      /\ asked' \in {asked, asked \cup {i}}
      /\ UNCHANGED <<status, active, worker, dropped>>
  BY DEF BgIndInv, SchedulerInv, StartIngest
<1>2. starter \in [Starts -> StarterRec]
  BY <1>1 DEF BgTypeOK, StarterRec
<1>3. /\ starter' \in [Starts -> StarterRec] /\ starter'[s].pc = "counting"
      /\ \A t \in Starts \ {s} : starter'[t] = starter[t]
  BY <1>1, <1>2 DEF StarterRec
<1>4. /\ pending' \in Seq(Items) /\ IsInjective(pending')
      /\ ToSet(pending') = ToSet(pending) \cup {i}
  BY <1>1, AppendFacts DEF BgTypeOK, ItemsInOnePlace, Accounts
<1>5. BgTypeOK'
  BY <1>1, <1>3, <1>4 DEF BgTypeOK, StarterRec
<1>6. ActiveIsExact' /\ Alive' = Alive
  BY <1>1 DEF ActiveIsExact, Alive
<1>7. ItemsInOnePlace'
  BY <1>1, <1>4 DEF ItemsInOnePlace, Accounts, InHand
<1>8. SomebodyActs'
  BY <1>1, <1>3, <1>6 DEF SomebodyActs
<1>9. Accounts'
  BY <1>1, <1>3, <1>4 DEF Accounts
<1>10. QED
  BY <1>5, <1>6, <1>7, <1>8, <1>9 DEF BgIndInv, SchedulerInv

LEMMA CountStep == ASSUME BgIndInv, NEW s \in Starts, Count(s) PROVE BgIndInv'
<1>1. /\ BgTypeOK /\ ActiveIsExact /\ ItemsInOnePlace /\ SomebodyActs /\ Accounts
      /\ UNCHANGED <<pending, active, worker, seen, dropped, asked>> /\ starter[s].pc = "counting"
  BY DEF BgIndInv, SchedulerInv, Count
<1>2. starter \in [Starts -> StarterRec]
  BY <1>1 DEF BgTypeOK, StarterRec
<1>3. /\ starter' \in [Starts -> StarterRec] /\ starter'[s].pc \in {"over", "recounting"}
      /\ starter'[s].pc = "over" => status' = status
      /\ \A t \in Starts \ {s} : starter'[t] = starter[t]
      /\ status' \in {status, "running"}
  BY <1>2 DEF Count, StarterRec
<1>4. BgTypeOK'
  BY <1>1, <1>3 DEF BgTypeOK, StarterRec, BgStatus
<1>5. ActiveIsExact' /\ Alive' = Alive /\ ItemsInOnePlace'
  BY <1>1 DEF ActiveIsExact, Alive, ItemsInOnePlace, InHand
<1>6. SomebodyActs'
  BY <1>1, <1>3, <1>5 DEF SomebodyActs
<1>7. Accounts'
  BY <1>1, <1>3 DEF Accounts
<1>8. QED
  BY <1>4, <1>5, <1>6, <1>7 DEF BgIndInv, SchedulerInv

LEMMA RecountStep == ASSUME BgIndInv, NEW s \in Starts, Recount(s) PROVE BgIndInv'
<1>1. /\ BgTypeOK /\ ActiveIsExact /\ ItemsInOnePlace /\ SomebodyActs /\ Accounts
      /\ UNCHANGED <<pending, status, active, worker, seen, dropped, asked>>
      /\ starter' = [starter EXCEPT ![s] =
                       [pc |-> IF Need = 0 THEN "over" ELSE "spawning", left |-> Need]]
  BY DEF BgIndInv, SchedulerInv, Recount
<1>2. starter \in [Starts -> StarterRec]
  BY <1>1 DEF BgTypeOK, StarterRec
<1>3. Need \in 0 .. Concurrency /\ (Need = 0 => Alive # {})
  BY <1>1, Counted DEF Need
<1>4. /\ starter' \in [Starts -> StarterRec]
      /\ starter'[s].pc = (IF Need = 0 THEN "over" ELSE "spawning") /\ starter'[s].left = Need
      /\ \A t \in Starts \ {s} : starter'[t] = starter[t]
  BY <1>1, <1>2, <1>3 DEF StarterRec
<1>5. BgTypeOK'
  BY <1>1, <1>4 DEF BgTypeOK, StarterRec
<1>6. ActiveIsExact' /\ Alive' = Alive /\ ItemsInOnePlace'
  BY <1>1 DEF ActiveIsExact, Alive, ItemsInOnePlace, InHand
<1>7. SomebodyActs'
  BY <1>1, <1>3, <1>4, <1>6 DEF SomebodyActs
<1>8. Accounts'
  BY <1>1, <1>4 DEF Accounts
<1>9. QED
  BY <1>5, <1>6, <1>7, <1>8 DEF BgIndInv, SchedulerInv

LEMMA SpawnStep == ASSUME BgIndInv, NEW s \in Starts, Spawn(s) PROVE BgIndInv'
<1>1. /\ BgTypeOK /\ ActiveIsExact /\ ItemsInOnePlace /\ SomebodyActs /\ Accounts
      /\ UNCHANGED <<pending, status, seen, dropped, asked>> /\ active' = active + 1
      /\ starter[s].pc = "spawning"
      /\ starter' = [starter EXCEPT ![s] =
           [pc |-> IF starter[s].left = 1 THEN "over" ELSE "spawning", left |-> starter[s].left - 1]]
  BY DEF BgIndInv, SchedulerInv, Spawn
<1>2. PICK w \in Workers : worker[w].pc = "unused" /\ worker' = [worker EXCEPT ![w].pc = "top"]
  BY DEF Spawn
<1>3. starter \in [Starts -> StarterRec] /\ worker \in [Workers -> WorkerRec]
  BY <1>1 DEF BgTypeOK, StarterRec, WorkerRec
<1>4. starter[s].left \in 0 .. Concurrency /\ starter[s].left # 0
  BY <1>1, <1>3 DEF Accounts, StarterRec
<1>5. starter[s].left - 1 \in 0 .. Concurrency /\ (starter[s].left # 1 => starter[s].left - 1 # 0)
  BY <1>4
<1>6. /\ starter' \in [Starts -> StarterRec] /\ \A t \in Starts \ {s} : starter'[t] = starter[t]
      /\ starter'[s].pc = "spawning" => starter'[s].left # 0
  BY <1>1, <1>3, <1>5 DEF StarterRec
<1>7. /\ worker' \in [Workers -> WorkerRec] /\ worker'[w].pc = "top"
      /\ \A v \in Workers \ {w} : worker'[v] = worker[v]
  BY <1>2, <1>3 DEF WorkerRec
<1>8. w \notin Alive /\ Alive' = Alive \cup {w}
  BY <1>2, <1>7 DEF Alive
<1>9. ActiveIsExact' /\ active' \in Nat
  BY <1>1, <1>8, AliveGrows, Counted
<1>10. BgTypeOK'
  BY <1>1, <1>6, <1>7, <1>9 DEF BgTypeOK, StarterRec, WorkerRec
<1>11. InHand' = InHand
  BY <1>2, <1>7 DEF InHand
<1>12. ItemsInOnePlace'
  BY <1>1, <1>7, <1>11 DEF ItemsInOnePlace
<1>13. SomebodyActs'
  BY <1>8 DEF SomebodyActs
<1>14. Accounts'
  BY <1>1, <1>6, <1>7 DEF Accounts
<1>15. QED
  BY <1>9, <1>10, <1>12, <1>13, <1>14 DEF BgIndInv, SchedulerInv

-----------------------------------------------------------------------------
(* What a worker does *)

LEMMA LeaveStep ==
  ASSUME BgIndInv, NEW w \in Workers, worker[w].pc = "top", Leave(w),
         UNCHANGED <<pending, starter, seen, dropped, asked>>
  PROVE  BgIndInv'
<1>1. /\ BgTypeOK /\ ActiveIsExact /\ ItemsInOnePlace /\ SomebodyActs /\ Accounts
      /\ worker' = [worker EXCEPT ![w].pc = "over"] /\ active' = active - 1
      /\ status' = IF active = 1 THEN "idle" ELSE status
  BY DEF BgIndInv, SchedulerInv, Leave
<1>2. worker \in [Workers -> WorkerRec]
  BY <1>1 DEF BgTypeOK, WorkerRec
<1>3. /\ worker' \in [Workers -> WorkerRec] /\ worker'[w].pc = "over"
      /\ \A v \in Workers \ {w} : worker'[v] = worker[v]
  BY <1>1, <1>2 DEF WorkerRec
<1>4. w \in Alive /\ Alive' = Alive \ {w}
  BY <1>3 DEF Alive
<1>5. ActiveIsExact' /\ active' \in Nat /\ (active # 1 => Alive' # {})
  BY <1>1, <1>4, AliveShrinks
<1>6. BgTypeOK'
  BY <1>1, <1>3, <1>5 DEF BgTypeOK, WorkerRec, BgStatus
<1>7. InHand' = InHand
  BY <1>3 DEF InHand
<1>8. ItemsInOnePlace'
  BY <1>1, <1>3, <1>7 DEF ItemsInOnePlace
<1>9. SomebodyActs'
  BY <1>1, <1>5 DEF SomebodyActs
<1>10. Accounts'
  BY <1>1, <1>3 DEF Accounts
<1>11. QED
  BY <1>5, <1>6, <1>8, <1>9, <1>10 DEF BgIndInv, SchedulerInv

LEMMA TakeStep == ASSUME BgIndInv, NEW w \in Workers, Take(w) PROVE BgIndInv'
<1>1. /\ BgTypeOK /\ ActiveIsExact /\ ItemsInOnePlace /\ SomebodyActs /\ Accounts
      /\ worker[w].pc = "top" /\ pending # <<>> /\ pending' = Tail(pending)
      /\ worker' = [worker EXCEPT ![w] = [pc |-> "busy", item |-> Head(pending)]]
      /\ UNCHANGED <<status, active, starter, seen, dropped, asked>>
  BY DEF BgIndInv, SchedulerInv, Take
<1>2. worker \in [Workers -> WorkerRec]
  BY <1>1 DEF BgTypeOK, WorkerRec
<1>3. /\ pending' \in Seq(Items) /\ IsInjective(pending')
      /\ Head(pending) \in ToSet(pending) /\ Head(pending) \in Items
      /\ ToSet(pending') \subseteq ToSet(pending) \ {Head(pending)}
  BY <1>1, TailFacts DEF BgTypeOK, ItemsInOnePlace
<1>4. /\ worker' \in [Workers -> WorkerRec]
      /\ worker'[w].pc = "busy" /\ worker'[w].item = Head(pending)
      /\ \A v \in Workers \ {w} : worker'[v] = worker[v]
  BY <1>1, <1>2, <1>3 DEF WorkerRec
<1>5. BgTypeOK'
  BY <1>1, <1>3, <1>4 DEF BgTypeOK, WorkerRec
<1>6. Alive' = Alive
  BY <1>1, <1>4 DEF Alive
<1>7. InHand' = InHand \cup {Head(pending)}
  BY <1>1, <1>4 DEF InHand
<1>8. Head(pending) \notin InHand
  BY <1>1, <1>3 DEF ItemsInOnePlace
<1>9. \A v \in Workers \ {w} : worker[v].pc = "busy" => worker[v].item # Head(pending)
  BY <1>8 DEF InHand
<1>10. ItemsInOnePlace'
  BY <1>1, <1>3, <1>4, <1>7, <1>9 DEF ItemsInOnePlace
<1>11. ActiveIsExact' /\ SomebodyActs'
  BY <1>1, <1>6 DEF ActiveIsExact, SomebodyActs
<1>12. Accounts'
  BY <1>1, <1>3, <1>4 DEF Accounts
<1>13. QED
  BY <1>5, <1>10, <1>11, <1>12 DEF BgIndInv, SchedulerInv

LEMMA FinishStep == ASSUME BgIndInv, NEW w \in Workers, Finish(w) PROVE BgIndInv'
<1>1. /\ BgTypeOK /\ ActiveIsExact /\ ItemsInOnePlace /\ SomebodyActs /\ Accounts
      /\ worker[w].pc = "busy"
      /\ worker' = [worker EXCEPT ![w] = [pc |-> "top", item |-> NoItem]]
      /\ UNCHANGED <<pending, status, active, starter, seen, dropped, asked>>
  BY DEF BgIndInv, SchedulerInv, Finish
<1>2. worker \in [Workers -> WorkerRec]
  BY <1>1 DEF BgTypeOK, WorkerRec
<1>3. /\ worker' \in [Workers -> WorkerRec] /\ worker'[w].pc = "top"
      /\ \A v \in Workers \ {w} : worker'[v] = worker[v]
  BY <1>1, <1>2 DEF WorkerRec
<1>4. BgTypeOK'
  BY <1>1, <1>3 DEF BgTypeOK, WorkerRec
<1>5. Alive' = Alive
  BY <1>1, <1>3 DEF Alive
<1>6. InHand' \subseteq InHand
  BY <1>3 DEF InHand
<1>7. ItemsInOnePlace'
  BY <1>1, <1>3, <1>6 DEF ItemsInOnePlace
<1>8. ActiveIsExact' /\ SomebodyActs'
  BY <1>1, <1>5 DEF ActiveIsExact, SomebodyActs
<1>9. Accounts'
  BY <1>1, <1>3 DEF Accounts
<1>10. QED
  BY <1>4, <1>7, <1>8, <1>9 DEF BgIndInv, SchedulerInv

-----------------------------------------------------------------------------
(* The user's commands, which touch neither starts nor workers *)

LEMMA CommandStep ==
  ASSUME BgIndInv, UNCHANGED <<active, starter, worker, seen>>,
         status' \in BgStatus, status' # "idle" => status # "idle",
         pending' \in {pending, <<>>}, dropped' \subseteq seen, asked' \subseteq seen
  PROVE  BgIndInv'
<1>1. /\ BgTypeOK /\ ActiveIsExact /\ ItemsInOnePlace /\ SomebodyActs /\ Accounts
  BY DEF BgIndInv, SchedulerInv
<1>2. /\ pending' \in Seq(Items) /\ IsInjective(pending') /\ ToSet(pending') \subseteq ToSet(pending)
  BY <1>1, EmptyFacts DEF BgTypeOK, ItemsInOnePlace
<1>3. BgTypeOK'
  BY <1>1, <1>2 DEF BgTypeOK
<1>4. Alive' = Alive /\ InHand' = InHand
  BY DEF Alive, InHand
<1>5. ActiveIsExact' /\ SomebodyActs'
  BY <1>1, <1>4 DEF ActiveIsExact, SomebodyActs
<1>6. ItemsInOnePlace'
  BY <1>1, <1>2, <1>4 DEF ItemsInOnePlace
<1>7. Accounts'
  BY <1>1, <1>2 DEF Accounts
<1>8. QED
  BY <1>3, <1>5, <1>6, <1>7 DEF BgIndInv, SchedulerInv

-----------------------------------------------------------------------------
(* The scheduler's invariant is inductive *)

LEMMA BgInitInd == BgInit => BgIndInv
<1> SUFFICES ASSUME BgInit PROVE BgIndInv
  OBVIOUS
<1>1. Alive = {} /\ InHand = {} /\ active = 0
  BY DEF BgInit, Alive, InHand
<1>2. BgTypeOK
  BY EmptyFacts DEF BgInit, BgTypeOK, BgStatus
<1>3. ActiveIsExact
  BY <1>1, FS_EmptySet DEF ActiveIsExact
<1>4. ItemsInOnePlace
  BY <1>1, EmptyFacts DEF BgInit, ItemsInOnePlace
<1>5. SomebodyActs /\ Accounts
  BY EmptyFacts DEF BgInit, SomebodyActs, Accounts
<1>6. QED
  BY <1>2, <1>3, <1>4, <1>5 DEF BgIndInv, SchedulerInv

LEMMA BgNextInd == BgIndInv /\ [BgNext]_bgVars => BgIndInv'
<1> SUFFICES ASSUME BgIndInv, [BgNext]_bgVars PROVE BgIndInv'
  OBVIOUS
<1>1. /\ status \in BgStatus /\ dropped \subseteq seen /\ asked \subseteq seen
      /\ ToSet(pending) \subseteq seen
  BY DEF BgIndInv, SchedulerInv, BgTypeOK, Accounts
<1>2. ASSUME NEW s \in Starts, NEW i \in Items, StartIngest(s, i) PROVE BgIndInv'
  BY <1>2, StartStep
<1>3. ASSUME NEW s \in Starts, StarterStep(s) PROVE BgIndInv'
  BY <1>3, CountStep, RecountStep, SpawnStep DEF StarterStep
<1>4. ASSUME NEW w \in Workers, WorkerStep(w) PROVE BgIndInv'
  BY <1>4, LeaveStep, TakeStep, FinishStep DEF WorkerStep, ExitStopping, ExitEmpty
<1>5. CASE Pause
  BY <1>1, <1>5, CommandStep DEF Pause, BgStatus
<1>6. CASE Resume
  BY <1>1, <1>6, CommandStep DEF Resume, BgStatus
<1>7. CASE CancelIngest
  BY <1>1, <1>7, CommandStep DEF CancelIngest, BgStatus
<1>8. CASE Clear
  BY <1>1, <1>8, CommandStep DEF Clear
<1>9. CASE UNCHANGED bgVars
  BY <1>1, <1>9, CommandStep DEF bgVars
<1>10. QED
  BY <1>2, <1>3, <1>4, <1>5, <1>6, <1>7, <1>8, <1>9 DEF BgNext

LEMMA BgInductive == BgSpec => []BgIndInv
<1>1. QED
  BY BgInitInd, BgNextInd, PTL DEF BgSpec

-----------------------------------------------------------------------------
(* Theorems of background ingest *)

\* The counter that ensure_worker and the last worker out rely on says how many
\* workers there are, and no file is lost or taken twice, however many starts,
\* workers and commands interleave.
THEOREM SchedulerCorrect == BgSpec => []SchedulerInv
<1>1. BgIndInv => SchedulerInv
  BY DEF BgIndInv
<1>2. QED
  BY <1>1, BgInductive, PTL

\* A status other than idle always has somebody who will change it.
THEOREM SomebodyActsCorrect == BgSpec => []SomebodyActs
<1>1. BgIndInv => SomebodyActs
  BY DEF BgIndInv
<1>2. QED
  BY <1>1, BgInductive, PTL
=============================================================================
