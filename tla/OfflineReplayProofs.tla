------------------------- MODULE OfflineReplayProofs -------------------------
(* Proofs about OfflineReplay, for any number of operations, replays,       *)
(* retries, restarts and resets, and any batch limits.                      *)
EXTENDS OfflineReplay, FiniteSetTheorems, WellFoundedInduction, TLAPS

USE OfflineAssumption

-----------------------------------------------------------------------------
(* The inductive invariant *)

OpRec == [status : {"unused", "pending", "failed", "cancelled", "gone"},
          retries : Nat, type : {"drive_upload", "other"}]

RepRec == [pc : {"idle", "entry", "uploading", "cleaning", "finishing", "failing"}, batch : Seq(Ops)]

\* What holds of an operation.
OpOK(o) ==
  /\ op[o].status = "pending" => op[o].retries < MaxRetries
  /\ Stored(o) /\ op[o].type = "drive_upload" /\ o \notin uploaded => o \in files
  /\ o \in withdrawn => op[o].status = "cancelled"

\* What holds of a replay when the operations out have been withdrawn and the
\* operations sent have arrived: none that was withdrawn is in its batch, and
\* what is about to be removed from the queue has arrived.
ReplayOK(rep, out, sent) ==
  /\ rep.pc # "idle" => rep.batch # <<>>
  /\ \A k \in DOMAIN rep.batch : rep.batch[k] \notin out
  /\ rep.pc \in {"cleaning", "finishing"} => Head(rep.batch) \in sent

Sets ==
  /\ files \subseteq Ops /\ uploaded \subseteq Ops /\ withdrawn \subseteq Ops
  /\ crashes \in 0 .. MaxCrashes /\ resets \in 0 .. MaxResets

IndInv ==
  /\ Sets
  /\ op \in [Ops -> OpRec] /\ \A o \in Ops : OpOK(o)
  /\ replay \in [Replayers -> RepRec] /\ \A r \in Replayers : ReplayOK(replay[r], withdrawn, uploaded)

\* One step of GoneIsAccountedFor.
Accounted == \A o \in Ops : Stored(o) /\ op'[o].status = "gone" => o \in uploaded \/ op[o].status = "failed"

-----------------------------------------------------------------------------
(* Steps that change one replay, or one operation *)

\* The operations stay as they are; a staged file may go once it has arrived.
LEMMA OpsKept ==
  ASSUME IndInv, UNCHANGED <<op, withdrawn, crashes, resets>>,
         files' \subseteq files, \A o \in files \ files' : o \in uploaded',
         uploaded \subseteq uploaded', uploaded' \subseteq Ops
  PROVE  Sets' /\ op' \in [Ops -> OpRec] /\ (\A o \in Ops : OpOK(o)') /\ Accounted
<1>1. Sets'
  BY DEF IndInv, Sets
<1>2. \A o \in Ops : OpOK(o)'
  BY DEF IndInv, OpOK, Stored
<1>3. Accounted
  BY DEF Accounted, Stored
<1>4. QED
  BY <1>1, <1>2, <1>3 DEF IndInv

LEMMA OneReplay ==
  ASSUME IndInv, NEW r \in Replayers, NEW d \in RepRec, replay' = [replay EXCEPT ![r] = d],
         withdrawn' = withdrawn, uploaded \subseteq uploaded', ReplayOK(d, withdrawn', uploaded')
  PROVE  replay' \in [Replayers -> RepRec] /\ \A v \in Replayers : ReplayOK(replay'[v], withdrawn', uploaded')
<1>1. replay' \in [Replayers -> RepRec] /\ replay'[r] = d /\ \A v \in Replayers \ {r} : replay'[v] = replay[v]
  BY DEF IndInv
<1>2. \A v \in Replayers \ {r} : ReplayOK(replay'[v], withdrawn', uploaded')
  <2>1. \A v \in Replayers \ {r} : ReplayOK(replay[v], withdrawn, uploaded)
    BY DEF IndInv
  <2>2. QED
    BY <1>1, <2>1 DEF ReplayOK
<1>3. QED
  BY <1>1, <1>2 DEF ReplayOK

\* Replays do not notice what happens to the rows.
LEMMA ReplaysKept ==
  ASSUME IndInv, UNCHANGED <<replay, withdrawn, uploaded>>
  PROVE  replay' \in [Replayers -> RepRec] /\ \A v \in Replayers : ReplayOK(replay'[v], withdrawn', uploaded')
BY DEF IndInv, ReplayOK

LEMMA EntryFacts ==
  ASSUME IndInv, NEW r \in Replayers, replay[r].pc # "idle"
  PROVE  /\ replay[r] \in RepRec /\ ReplayOK(replay[r], withdrawn, uploaded) /\ replay[r].batch \in Seq(Ops)
         /\ replay[r].batch # <<>> /\ Entry(r) = Head(replay[r].batch)
         /\ Entry(r) \in Ops /\ Entry(r) \notin withdrawn
<1>1. /\ replay[r] \in RepRec /\ ReplayOK(replay[r], withdrawn, uploaded) /\ replay[r].batch \in Seq(Ops)
      /\ replay[r].batch # <<>> /\ Entry(r) = Head(replay[r].batch)
  BY DEF IndInv, RepRec, ReplayOK, Entry
<1>2. 1 \in DOMAIN replay[r].batch /\ Head(replay[r].batch) = replay[r].batch[1] /\ replay[r].batch[1] \in Ops
  BY <1>1
<1>3. QED
  BY <1>1, <1>2 DEF ReplayOK

\* On to the next entry, or the end of the batch.
LEMMA NextEntryFacts ==
  ASSUME IndInv, NEW r \in Replayers, replay[r].pc # "idle", NextEntry(r),
         withdrawn' = withdrawn, uploaded \subseteq uploaded'
  PROVE  replay' \in [Replayers -> RepRec] /\ \A v \in Replayers : ReplayOK(replay'[v], withdrawn', uploaded')
<1> DEFINE b == replay[r].batch
           rest == Tail(b)
           d == [pc |-> IF rest = <<>> THEN "idle" ELSE "entry", batch |-> rest]
<1>1. b \in Seq(Ops) /\ b # <<>> /\ \A k \in DOMAIN b : b[k] \notin withdrawn
  BY EntryFacts DEF ReplayOK
<1> HIDE DEF b
<1>2. rest \in Seq(Ops) /\ \A k \in DOMAIN rest : k + 1 \in DOMAIN b /\ rest[k] = b[k + 1]
  BY <1>1
<1> HIDE DEF rest
<1>3. d \in RepRec /\ ReplayOK(d, withdrawn', uploaded')
  BY <1>1, <1>2 DEF RepRec, ReplayOK
<1>4. replay' = [replay EXCEPT ![r] = d]
  BY DEF NextEntry, rest, b
<1> HIDE DEF d
<1>5. QED
  BY <1>3, <1>4, OneReplay

\* The batch is given up.
LEMMA GivenUp ==
  ASSUME IndInv, NEW r \in Replayers, replay' = [replay EXCEPT ![r] = [pc |-> "idle", batch |-> <<>>]],
         withdrawn' = withdrawn, uploaded \subseteq uploaded'
  PROVE  replay' \in [Replayers -> RepRec] /\ \A v \in Replayers : ReplayOK(replay'[v], withdrawn', uploaded')
<1> DEFINE d == [pc |-> "idle", batch |-> <<>>]
<1>1. d \in RepRec /\ ReplayOK(d, withdrawn', uploaded')
  BY DEF RepRec, ReplayOK
<1> HIDE DEF d
<1>2. QED
  BY <1>1, OneReplay DEF d

\* Another phase for the same batch.
LEMMA GotoFacts ==
  ASSUME IndInv, NEW r \in Replayers, replay[r].pc # "idle",
         NEW pc \in {"uploading", "cleaning", "finishing", "failing"}, Goto(r, pc),
         withdrawn' = withdrawn, uploaded \subseteq uploaded',
         pc \in {"cleaning", "finishing"} => Entry(r) \in uploaded'
  PROVE  replay' \in [Replayers -> RepRec] /\ \A v \in Replayers : ReplayOK(replay'[v], withdrawn', uploaded')
<1> DEFINE c == replay[r]
           d == [c EXCEPT !.pc = pc]
<1>1. c \in RepRec /\ ReplayOK(c, withdrawn, uploaded) /\ c.batch # <<>> /\ Entry(r) = Head(c.batch)
  BY EntryFacts
<1>2. replay' = [replay EXCEPT ![r] = d]
  BY DEF Goto
<1> HIDE DEF c
<1>3. d \in RepRec /\ d.pc = pc /\ d.batch = c.batch
  BY <1>1 DEF RepRec
<1> HIDE DEF d
<1>4. ReplayOK(d, withdrawn', uploaded')
  BY <1>1, <1>3 DEF ReplayOK
<1>5. QED
  BY <1>2, <1>3, <1>4, OneReplay

\* One row changes, and nothing else of the queue.
LEMMA OneOp ==
  ASSUME IndInv, NEW o \in Ops, NEW x \in OpRec, op' = [op EXCEPT ![o] = x],
         Sets', files \subseteq files', uploaded' = uploaded, withdrawn \subseteq withdrawn',
         withdrawn' \subseteq withdrawn \cup {o}, OpOK(o)',
         Stored(o) /\ x.status = "gone" => o \in uploaded \/ op[o].status = "failed"
  PROVE  Sets' /\ op' \in [Ops -> OpRec] /\ (\A p \in Ops : OpOK(p)') /\ Accounted
<1>1. op' \in [Ops -> OpRec] /\ op'[o] = x /\ \A p \in Ops \ {o} : op'[p] = op[p]
  BY DEF IndInv
<1>2. ASSUME NEW p \in Ops \ {o} PROVE OpOK(p)'
  <2>1. OpOK(p) /\ op'[p] = op[p]
    BY <1>1 DEF IndInv
  <2>2. QED
    BY <2>1 DEF OpOK, Stored
<1>3. Accounted
  BY <1>1 DEF Accounted, Stored
<1>4. QED
  BY <1>1, <1>2, <1>3

-----------------------------------------------------------------------------
(* The rows *)

LEMMA EnqueueStep ==
  ASSUME IndInv, NEW o \in Ops, NEW type \in {"drive_upload", "other"}, Enqueue(o, type)
  PROVE  IndInv' /\ Accounted
<1> DEFINE x == [status |-> "pending", retries |-> 0, type |-> type]
<1>1. /\ x \in OpRec /\ op' = [op EXCEPT ![o] = x] /\ op[o].status = "unused"
      /\ files' = IF type = "drive_upload" THEN files \cup {o} ELSE files
      /\ UNCHANGED <<replay, uploaded, withdrawn, crashes, resets>>
  BY DEF Enqueue, OpRec
<1>2. op'[o] = x /\ x.status = "pending" /\ x.retries = 0 /\ x.type = type
  BY <1>1 DEF IndInv
<1> HIDE DEF x
<1>3. Sets'
  BY <1>1 DEF IndInv, Sets
<1>4. OpOK(o)'
  <2>1. o \notin withdrawn
    BY <1>1 DEF IndInv, OpOK
  <2>2. QED
    BY <1>1, <1>2, <2>1 DEF OpOK
<1>5. Sets' /\ op' \in [Ops -> OpRec] /\ (\A p \in Ops : OpOK(p)') /\ Accounted
  BY <1>1, <1>2, <1>3, <1>4, OneOp
<1>6. QED
  BY <1>1, <1>5, ReplaysKept DEF IndInv

LEMMA CancelOpStep ==
  ASSUME IndInv, NEW o \in Ops, CancelOp(o) PROVE IndInv' /\ Accounted
<1> DEFINE c == op[o]
           x == [c EXCEPT !.status = "cancelled"]
<1>1. /\ op' = [op EXCEPT ![o] = x] /\ c \in OpRec /\ c.status = "pending" /\ op[o].status = "pending"
      /\ withdrawn' \in {withdrawn, withdrawn \cup {o}}
      /\ UNCHANGED <<files, replay, uploaded, crashes, resets>>
  BY DEF CancelOp, IndInv
<1>2. (\E r \in Replayers : Contains(replay[r].batch, o)) => withdrawn' = withdrawn
  BY DEF CancelOp
<1> HIDE DEF c
<1>3. x \in OpRec /\ x.status = "cancelled" /\ x.type = c.type
  BY <1>1 DEF OpRec
<1> HIDE DEF x
<1>4. op'[o] = x
  BY <1>1 DEF IndInv
<1>5. Sets'
  BY <1>1 DEF IndInv, Sets
<1>6. OpOK(o)'
  <2>1. OpOK(o)
    BY DEF IndInv
  <2>2. QED
    BY <1>1, <1>3, <1>4, <2>1 DEF OpOK, Stored, c
<1>7. Sets' /\ op' \in [Ops -> OpRec] /\ (\A p \in Ops : OpOK(p)') /\ Accounted
  BY <1>1, <1>3, <1>5, <1>6, OneOp
<1>8. ASSUME NEW r \in Replayers PROVE ReplayOK(replay'[r], withdrawn', uploaded')
  <2>1. ReplayOK(replay[r], withdrawn, uploaded) /\ replay[r].batch \in Seq(Ops)
    BY DEF IndInv, RepRec
  <2>2. \A k \in DOMAIN replay[r].batch : replay[r].batch[k] = o => Contains(replay[r].batch, o)
    BY <2>1 DEF Contains
  <2>3. QED
    BY <1>1, <1>2, <2>1, <2>2 DEF ReplayOK
<1>9. QED
  BY <1>1, <1>7, <1>8 DEF IndInv

\* Several rows change at once, none of them withdrawn.
LEMMA RetryStep == ASSUME IndInv, RetryAllFailed PROVE IndInv' /\ Accounted
<1>1. /\ op' = [o \in Ops |-> IF op[o].status = "failed"
                              THEN [op[o] EXCEPT !.status = "pending", !.retries = 0]
                              ELSE op[o]]
      /\ resets' = resets + 1 /\ resets < MaxResets
      /\ UNCHANGED <<files, replay, uploaded, withdrawn, crashes>>
  BY DEF RetryAllFailed
<1>2. ASSUME NEW o \in Ops
      PROVE  op'[o] \in OpRec /\ OpOK(o)' /\ (op'[o].status = "gone" => op[o].status = "gone")
  <2> DEFINE c == op[o]
             x == [c EXCEPT !.status = "pending", !.retries = 0]
  <2>1. OpOK(o) /\ c \in OpRec
    BY DEF IndInv
  <2>2. op'[o] = IF c.status = "failed" THEN x ELSE c
    BY <1>1
  <2>3. c = op[o]
    OBVIOUS
  <2> HIDE DEF c
  <2>4. x \in OpRec /\ x.status = "pending" /\ x.retries = 0 /\ x.type = c.type
    BY <2>1 DEF OpRec
  <2> HIDE DEF x
  <2>5. CASE c.status = "failed"
    <3>1. op'[o] = x /\ op[o].status = "failed" /\ op[o].type = x.type
      BY <2>2, <2>3, <2>4, <2>5
    <3>2. 0 < MaxRetries
      OBVIOUS
    <3>3. (op[o].status = "failed" /\ op[o].type = "drive_upload" /\ o \notin uploaded => o \in files) /\ o \notin withdrawn
      BY <2>1, <3>1 DEF OpOK, Stored
    <3>4. OpOK(o)'
      BY <1>1, <2>4, <3>1, <3>2, <3>3 DEF OpOK, Stored
    <3>5. QED
      BY <2>4, <3>1, <3>4
  <2>6. CASE c.status # "failed"
    <3>1. op'[o] = op[o]
      BY <2>2, <2>3, <2>6
    <3>2. QED
      BY <1>1, <2>1, <2>3, <3>1 DEF OpOK, Stored
  <2>7. QED
    BY <2>5, <2>6
<1>3. Sets'
  <2>1. resets \in 0 .. MaxResets /\ resets < MaxResets
    BY DEF IndInv, Sets, RetryAllFailed
  <2>2. resets + 1 \in 0 .. MaxResets
    BY <2>1
  <2>3. QED
    BY <1>1, <2>2 DEF IndInv, Sets
<1>4. op' \in [Ops -> OpRec] /\ (\A o \in Ops : OpOK(o)') /\ Accounted
  BY <1>1, <1>2 DEF Accounted, Stored
<1>5. QED
  BY <1>1, <1>3, <1>4, ReplaysKept DEF IndInv

LEMMA PurgeStep == ASSUME IndInv, NEW q \in Ops, PurgeOld(q) PROVE IndInv' /\ Accounted
<1>1. /\ op' = [p \in Ops |-> IF p <= q /\ op[p].status = "failed"
                              THEN [op[p] EXCEPT !.status = "gone"] ELSE op[p]]
      /\ UNCHANGED <<files, replay, uploaded, withdrawn, crashes, resets>>
  BY DEF PurgeOld
<1>2. ASSUME NEW o \in Ops
      PROVE  /\ op'[o] \in OpRec /\ OpOK(o)'
             /\ op'[o].status = "gone" => op[o].status \in {"gone", "failed"}
  <2> DEFINE c == op[o]
             x == [c EXCEPT !.status = "gone"]
  <2>1. OpOK(o) /\ c \in OpRec
    BY DEF IndInv
  <2>2. op'[o] = c \/ (op'[o] = x /\ c.status = "failed")
    BY <1>1
  <2>3. c = op[o]
    OBVIOUS
  <2> HIDE DEF c
  <2>4. x \in OpRec /\ x.status = "gone"
    BY <2>1 DEF OpRec
  <2> HIDE DEF x
  <2>5. QED
    BY <1>1, <2>1, <2>2, <2>3, <2>4 DEF OpOK, Stored
<1>3. Sets'
  BY <1>1 DEF IndInv, Sets
<1>4. op' \in [Ops -> OpRec] /\ (\A o \in Ops : OpOK(o)') /\ Accounted
  BY <1>1, <1>2 DEF Accounted, Stored
<1>5. QED
  BY <1>1, <1>3, <1>4, ReplaysKept DEF IndInv
-----------------------------------------------------------------------------
(* The replay *)

\* The batch that dequeue_batch returns is not empty when something is due, and
\* holds pending operations only.
LEMMA BatchFacts ==
  ASSUME NEW r \in Replayers, Due # {}, NEW b \in Batches(r)
  PROVE  b \in Seq(Ops) /\ b # <<>> /\ \A k \in DOMAIN b : b[k] \in Due
<1> DEFINE S == First(r)
           n == Cardinality(S)
<1>1. Due \subseteq Ops /\ Due \subseteq Nat /\ S \subseteq Due
  BY DEF Due, First
<1>2. IsFiniteSet(S) /\ n \in Nat
  BY <1>1, FS_Subset, FS_CardinalityType
<1>3. S # {}
  <2>1. PICK o \in Due : \A p \in Due : ~ (<<p, o>> \in OpToRel(<, Nat))
    BY <1>1, WFMin, NatLessThanWellFounded
  <2>2. {p \in Due : p < o} = {}
    BY <1>1, <2>1 DEF OpToRel
  <2>3. 0 < BatchLimit[r]
    OBVIOUS
  <2>4. o \in S
    BY <2>2, <2>3, FS_EmptySet DEF First
  <2>5. QED
    BY <2>4
<1>4. n # 0
  BY <1>2, <1>3, FS_EmptySet
<1>5. b \in [1 .. n -> S]
  BY DEF Batches
<1> HIDE DEF S, n
<1>6. b \in Seq(Ops)
  <2>1. b \in [1 .. n -> Ops]
    BY <1>1, <1>5
  <2>2. QED
    BY <1>2, <2>1
<1>7. 1 \in DOMAIN b
  BY <1>2, <1>4, <1>5
<1>8. \A k \in DOMAIN b : b[k] \in Due
  BY <1>1, <1>5
<1>9. QED
  BY <1>6, <1>7, <1>8

LEMMA BeginStep == ASSUME IndInv, NEW r \in Replayers, Begin(r) PROVE IndInv' /\ Accounted
<1>1. /\ Due # {} /\ UNCHANGED <<op, files, uploaded, withdrawn, crashes, resets>>
      /\ \E b \in Batches(r) : replay' = [replay EXCEPT ![r] = [pc |-> "entry", batch |-> b]]
  BY DEF Begin
<1>2. PICK b \in Batches(r) : replay' = [replay EXCEPT ![r] = [pc |-> "entry", batch |-> b]]
  BY <1>1
<1> DEFINE d == [pc |-> "entry", batch |-> b]
<1>3. b \in Seq(Ops) /\ b # <<>> /\ \A k \in DOMAIN b : b[k] \in Due
  BY <1>1, BatchFacts
<1>4. \A o \in Due : o \notin withdrawn
  BY DEF Due, IndInv, OpOK
<1>5. d \in RepRec /\ ReplayOK(d, withdrawn', uploaded')
  BY <1>1, <1>3, <1>4 DEF RepRec, ReplayOK
<1> HIDE DEF d
<1>6. replay' \in [Replayers -> RepRec] /\ \A v \in Replayers : ReplayOK(replay'[v], withdrawn', uploaded')
  BY <1>1, <1>2, <1>5, OneReplay DEF d
<1>7. Sets' /\ op' \in [Ops -> OpRec] /\ (\A o \in Ops : OpOK(o)') /\ Accounted
  BY <1>1, OpsKept DEF IndInv, Sets
<1>8. QED
  BY <1>6, <1>7 DEF IndInv

LEMMA ReadStep == ASSUME IndInv, NEW r \in Replayers, Read(r) PROVE IndInv' /\ Accounted
<1>1. /\ replay[r].pc = "entry" /\ (Goto(r, "uploading") \/ Goto(r, "failing"))
      /\ UNCHANGED <<op, files, uploaded, withdrawn, crashes, resets>>
  BY DEF Read, Working
<1>2. replay' \in [Replayers -> RepRec] /\ \A v \in Replayers : ReplayOK(replay'[v], withdrawn', uploaded')
  BY <1>1, GotoFacts
<1>3. Sets' /\ op' \in [Ops -> OpRec] /\ (\A o \in Ops : OpOK(o)') /\ Accounted
  BY <1>1, OpsKept DEF IndInv, Sets
<1>4. QED
  BY <1>2, <1>3 DEF IndInv

LEMMA UploadStep == ASSUME IndInv, NEW r \in Replayers, Upload(r) PROVE IndInv' /\ Accounted
<1>1. /\ replay[r].pc = "uploading" /\ UNCHANGED <<op, files, withdrawn, crashes, resets>>
      /\ \/ uploaded' = uploaded \cup {Entry(r)} /\ (Goto(r, "cleaning") \/ Goto(r, "failing"))
         \/ uploaded' = uploaded /\ Goto(r, "failing")
  BY DEF Upload, Working
<1>2. Entry(r) \in Ops
  BY <1>1, EntryFacts
<1>3. uploaded \subseteq uploaded' /\ uploaded' \subseteq Ops
  BY <1>1, <1>2 DEF IndInv, Sets
<1>4. \/ Goto(r, "failing")
      \/ Goto(r, "cleaning") /\ Entry(r) \in uploaded'
  BY <1>1
<1>5. replay' \in [Replayers -> RepRec] /\ \A v \in Replayers : ReplayOK(replay'[v], withdrawn', uploaded')
  BY <1>1, <1>3, <1>4, GotoFacts
<1>6. Sets' /\ op' \in [Ops -> OpRec] /\ (\A o \in Ops : OpOK(o)') /\ Accounted
  BY <1>1, <1>3, OpsKept
<1>7. QED
  BY <1>5, <1>6 DEF IndInv

LEMMA CleanStep == ASSUME IndInv, NEW r \in Replayers, Clean(r) PROVE IndInv' /\ Accounted
<1>1. /\ replay[r].pc = "cleaning" /\ Goto(r, "finishing")
      /\ files' \in {files, files \ {Entry(r)}}
      /\ UNCHANGED <<op, uploaded, withdrawn, crashes, resets>>
  BY DEF Clean, Working
<1>2. Entry(r) \in uploaded
  BY <1>1, EntryFacts DEF ReplayOK
<1>3. replay' \in [Replayers -> RepRec] /\ \A v \in Replayers : ReplayOK(replay'[v], withdrawn', uploaded')
  BY <1>1, <1>2, GotoFacts
<1>4. Sets' /\ op' \in [Ops -> OpRec] /\ (\A o \in Ops : OpOK(o)') /\ Accounted
  <2>1. /\ files' \subseteq files /\ (\A o \in files \ files' : o \in uploaded')
        /\ uploaded \subseteq uploaded' /\ uploaded' \subseteq Ops
    BY <1>1, <1>2 DEF IndInv, Sets
  <2>2. QED
    BY <1>1, <2>1, OpsKept
<1>5. QED
  BY <1>3, <1>4 DEF IndInv

\* The database refuses the verdict.
LEMMA RefusedStep ==
  ASSUME IndInv, NEW r \in Replayers, replay' = [replay EXCEPT ![r] = [pc |-> "idle", batch |-> <<>>]],
         UNCHANGED <<op, files, uploaded, withdrawn, crashes, resets>>
  PROVE  IndInv' /\ Accounted
<1>1. replay' \in [Replayers -> RepRec] /\ \A v \in Replayers : ReplayOK(replay'[v], withdrawn', uploaded')
  BY GivenUp
<1>2. Sets' /\ op' \in [Ops -> OpRec] /\ (\A o \in Ops : OpOK(o)') /\ Accounted
  BY OpsKept DEF IndInv, Sets
<1>3. QED
  BY <1>1, <1>2 DEF IndInv

LEMMA FinishStep == ASSUME IndInv, NEW r \in Replayers, Finish(r) PROVE IndInv' /\ Accounted
<1>1. /\ replay[r].pc = "finishing" /\ UNCHANGED <<files, uploaded, withdrawn, crashes, resets>>
  BY DEF Finish, Working
<1>2. CASE replay' = [replay EXCEPT ![r] = [pc |-> "idle", batch |-> <<>>]] /\ UNCHANGED op
  BY <1>1, <1>2, RefusedStep
<1>3. CASE MarkDone(Entry(r)) /\ NextEntry(r)
  <2>1. PICK o \in Ops : o = Entry(r) /\ o \notin withdrawn /\ o \in uploaded
    BY <1>1, EntryFacts DEF ReplayOK
  <2> DEFINE c == op[o]
             x == [c EXCEPT !.status = "gone"]
  <2>2. c \in OpRec /\ op' = [op EXCEPT ![o] = x]
    BY <1>3, <2>1 DEF IndInv, MarkDone
  <2> HIDE DEF c
  <2>3. x \in OpRec /\ x.status = "gone"
    BY <2>2 DEF OpRec
  <2> HIDE DEF x
  <2>4. op'[o] = x
    BY <2>1, <2>2 DEF IndInv
  <2>5. OpOK(o)'
    BY <1>1, <2>1, <2>3, <2>4 DEF OpOK, Stored
  <2>6. Sets'
    BY <1>1 DEF IndInv, Sets
  <2>7. Sets' /\ op' \in [Ops -> OpRec] /\ (\A p \in Ops : OpOK(p)') /\ Accounted
    BY <1>1, <2>1, <2>2, <2>3, <2>5, <2>6, OneOp
  <2>8. replay' \in [Replayers -> RepRec] /\ \A v \in Replayers : ReplayOK(replay'[v], withdrawn', uploaded')
    BY <1>1, <1>3, NextEntryFacts
  <2>9. QED
    BY <2>7, <2>8 DEF IndInv
<1>4. QED
  BY <1>2, <1>3 DEF Finish

\* A failure spends one try, and what is still pending has another.
LEMMA FailureFacts ==
  ASSUME NEW c \in OpRec
  PROVE  /\ AfterFailure(c) \in OpRec /\ AfterFailure(c).type = c.type
         /\ AfterFailure(c).status \in {"pending", "failed"}
         /\ AfterFailure(c).status = "pending" => AfterFailure(c).retries < MaxRetries
<1> DEFINE n == c.retries + 1
           s == IF n >= MaxRetries THEN "failed" ELSE "pending"
<1>1. n \in Nat /\ MaxRetries \in Nat /\ s \in {"pending", "failed"} /\ (s = "pending" => n < MaxRetries)
  BY DEF OpRec
<1>2. AfterFailure(c) = [c EXCEPT !.retries = n, !.status = s]
  BY DEF AfterFailure
<1> HIDE DEF n, s
<1>3. QED
  BY <1>1, <1>2 DEF OpRec

LEMMA FailStep == ASSUME IndInv, NEW r \in Replayers, Fail(r) PROVE IndInv' /\ Accounted
<1>1. /\ replay[r].pc = "failing" /\ UNCHANGED <<files, uploaded, withdrawn, crashes, resets>>
  BY DEF Fail, Working
<1>2. CASE replay' = [replay EXCEPT ![r] = [pc |-> "idle", batch |-> <<>>]] /\ UNCHANGED op
  BY <1>1, <1>2, RefusedStep
<1>3. CASE MarkFailed(Entry(r)) /\ NextEntry(r)
  <2>1. PICK o \in Ops : o = Entry(r) /\ o \notin withdrawn
    BY <1>1, EntryFacts
  <2> DEFINE c == op[o]
             y == AfterFailure(c)
  <2>2. c \in OpRec /\ OpOK(o) /\ c = op[o]
    BY <2>1 DEF IndInv
  <2>3. op' = IF Stored(o) THEN [op EXCEPT ![o] = y] ELSE op
    BY <1>3, <2>1 DEF MarkFailed
  <2> HIDE DEF c
  <2>4. /\ y \in OpRec /\ y.type = c.type /\ y.status \in {"pending", "failed"}
        /\ y.status = "pending" => y.retries < MaxRetries
    BY <2>2, FailureFacts
  <2> HIDE DEF y
  <2>5. replay' \in [Replayers -> RepRec] /\ \A v \in Replayers : ReplayOK(replay'[v], withdrawn', uploaded')
    BY <1>1, <1>3, NextEntryFacts
  <2>6. Sets'
    BY <1>1 DEF IndInv, Sets
  <2>7. CASE Stored(o)
    <3>1. op' = [op EXCEPT ![o] = y] /\ op'[o] = y
      BY <2>1, <2>3, <2>7 DEF IndInv
    <3>2. OpOK(o)'
      BY <1>1, <2>1, <2>2, <2>4, <2>7, <3>1 DEF OpOK, Stored
    <3>3. Sets' /\ op' \in [Ops -> OpRec] /\ (\A p \in Ops : OpOK(p)') /\ Accounted
      BY <1>1, <2>1, <2>4, <2>6, <3>1, <3>2, OneOp
    <3>4. QED
      BY <2>5, <3>3 DEF IndInv
  <2>8. CASE ~ Stored(o)
    <3>1. Sets' /\ op' \in [Ops -> OpRec] /\ (\A p \in Ops : OpOK(p)') /\ Accounted
      BY <1>1, <2>3, <2>8, OpsKept DEF IndInv, Sets
    <3>2. QED
      BY <2>5, <3>1 DEF IndInv
  <2>9. QED
    BY <2>7, <2>8
<1>4. QED
  BY <1>2, <1>3 DEF Fail

LEMMA CrashStep == ASSUME IndInv, CrashApp PROVE IndInv' /\ Accounted
<1>1. /\ crashes < MaxCrashes /\ crashes' = crashes + 1
      /\ replay' = [r \in Replayers |-> [pc |-> "idle", batch |-> <<>>]]
      /\ UNCHANGED <<op, files, uploaded, withdrawn, resets>>
  BY DEF CrashApp
<1>2. Sets'
  <2>1. crashes \in 0 .. MaxCrashes
    BY DEF IndInv, Sets
  <2>2. crashes + 1 \in 0 .. MaxCrashes
    BY <1>1, <2>1
  <2>3. QED
    BY <1>1, <2>2 DEF IndInv, Sets
<1>3. \A o \in Ops : OpOK(o)'
  BY <1>1 DEF IndInv, OpOK, Stored
<1>4. replay' \in [Replayers -> RepRec] /\ \A v \in Replayers : ReplayOK(replay'[v], withdrawn', uploaded')
  BY <1>1 DEF RepRec, ReplayOK
<1>5. QED
  BY <1>1, <1>2, <1>3, <1>4 DEF IndInv, Accounted, Stored

-----------------------------------------------------------------------------
LEMMA InitInd == OfflineInit => IndInv
<1> SUFFICES ASSUME OfflineInit PROVE IndInv
  OBVIOUS
<1>1. Sets
  BY DEF OfflineInit, Sets
<1>2. op \in [Ops -> OpRec] /\ \A o \in Ops : OpOK(o)
  BY DEF OfflineInit, OpRec, OpOK, Stored
<1>3. replay \in [Replayers -> RepRec] /\ \A r \in Replayers : ReplayOK(replay[r], withdrawn, uploaded)
  BY DEF OfflineInit, RepRec, ReplayOK
<1>4. QED
  BY <1>1, <1>2, <1>3 DEF IndInv

LEMMA NextInd == IndInv /\ [OfflineNext]_offlineVars => IndInv' /\ Accounted
<1> SUFFICES ASSUME IndInv, [OfflineNext]_offlineVars PROVE IndInv' /\ Accounted
  OBVIOUS
<1>1. ASSUME NEW o \in Ops, NEW type \in {"drive_upload", "other"}, Enqueue(o, type)
      PROVE  IndInv' /\ Accounted
  BY <1>1, EnqueueStep
<1>2. ASSUME NEW o \in Ops, CancelOp(o) \/ PurgeOld(o) PROVE IndInv' /\ Accounted
  BY <1>2, CancelOpStep, PurgeStep
<1>3. CASE RetryAllFailed
  BY <1>3, RetryStep
<1>4. ASSUME NEW r \in Replayers, ReplayStep(r) PROVE IndInv' /\ Accounted
  BY <1>4, BeginStep, ReadStep, UploadStep, CleanStep, FinishStep, FailStep DEF ReplayStep
<1>5. CASE CrashApp
  BY <1>5, CrashStep
<1>6. CASE UNCHANGED offlineVars
  <2>1. UNCHANGED <<op, files, replay, uploaded, withdrawn, crashes, resets>>
    BY <1>6 DEF offlineVars
  <2>2. Sets' /\ op' \in [Ops -> OpRec] /\ (\A o \in Ops : OpOK(o)') /\ Accounted
    BY <2>1, OpsKept DEF IndInv, Sets
  <2>3. QED
    BY <2>1, <2>2, ReplaysKept DEF IndInv
<1>7. QED
  BY <1>1, <1>2, <1>3, <1>4, <1>5, <1>6 DEF OfflineNext

LEMMA Inductive == OfflineSpec => []IndInv
<1>1. QED
  BY InitInd, NextInd, PTL DEF OfflineSpec

-----------------------------------------------------------------------------
(* Theorems *)

\* Replays that run at once, failures, cancels, resets and restarts never delete
\* the only copy of a write that has not arrived, and never leave an operation
\* pending that dequeue_batch no longer takes.
THEOREM ReplayCorrect == OfflineSpec => []ReplayInv
<1>1. IndInv => ReplayInv
  <2> SUFFICES ASSUME IndInv PROVE ReplayInv
    OBVIOUS
  <2>1. OfflineTypeOK
    BY DEF IndInv, Sets, OpRec, RepRec, ReplayOK, OfflineTypeOK
  <2>2. PendingHasBudget /\ BytesKept
    BY DEF IndInv, OpOK, PendingHasBudget, BytesKept
  <2>3. QED
    BY <2>1, <2>2 DEF ReplayInv
<1>2. QED
  BY <1>1, Inductive, PTL

\* What the user cancels while no replay has read it stays cancelled.
THEOREM CancelledCorrect == OfflineSpec => []CancelledStaysCancelled
<1>1. IndInv => CancelledStaysCancelled
  BY DEF IndInv, Sets, OpOK, CancelledStaysCancelled
<1>2. QED
  BY <1>1, Inductive, PTL

\* An operation leaves the queue because its bytes arrived, or because it had
\* failed for good and was purged.
THEOREM GoneCorrect == OfflineSpec => GoneIsAccountedFor
<1>1. IndInv /\ [OfflineNext]_offlineVars =>
        [\A o \in Ops : Stored(o) /\ op'[o].status = "gone"
           => o \in uploaded \/ op[o].status = "failed"]_offlineVars
  BY NextInd DEF Accounted
<1>2. QED
  BY <1>1, Inductive, PTL DEF OfflineSpec, GoneIsAccountedFor
=============================================================================
