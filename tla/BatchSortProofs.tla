-------------------------- MODULE BatchSortProofs --------------------------
(* Proofs about BatchSort, for any list of files, any names, any number of  *)
(* sorts that overlap and any number of edits and restarts.                 *)
EXTENDS BatchSort, FiniteSetTheorems, TLAPS

USE SortAssumption

-----------------------------------------------------------------------------
(* The inductive invariant *)

Targets == {"file", "text"} \X Names

Aims == UNION {[D -> Names] : D \in SUBSET Items}
Results == UNION {[D -> Result] : D \in SUBSET Items}

SortRec == [pc : SortPhase, mode : Modes \cup {"move"}, todo : Seq(Items), aim : Aims, result : Results]

\* Item i is at path p of the file system disk, unless it is one of those lost.
There(i, p, disk, lost) == disk[p] = i \/ i \in lost

RustPhase == {"checking", "writing", "removing"}

\* What holds of a sort: what it reports as moved is at its target, and so is
\* the item whose source it is about to remove.
SortOK(s, disk, lost) ==
  /\ s.pc \in {"unused", "asking"} => DOMAIN s.result = {}
  /\ s.pc \in RustPhase => /\ s.todo # <<>> /\ s.mode # "script_move"
                           /\ \A k \in DOMAIN s.todo : s.todo[k] \in DOMAIN s.aim
  /\ s.pc = "removing" => There(Head(s.todo), Target(Head(s.todo), s.aim[Head(s.todo)]), disk, lost)
  /\ s.mode # "script_move" => \A i \in DOMAIN s.result :
       s.result[i] \in Success => i \in DOMAIN s.aim /\ There(i, Target(i, s.aim[i]), disk, lost)

\* The file system: a source holds its own content or nothing.
Disk ==
  /\ files \in [Paths -> Items \cup {Text, Nothing}]
  /\ \A i \in Items : files[Source(i)] \in {i, Nothing}
  /\ LastCopyIsKept

Shape ==
  /\ item \in [Items -> [status : {"review", "done", "error"}, name : Names]]
  /\ saved \in [Items -> {"review", "done", "error"}]
  /\ indexAt \in [Items -> Paths]

\* What was sent somewhere is there, whatever became of its status since.
Sent ==
  \A i \in Items : sentTo[i] # Nothing => sentTo[i] \in Targets /\ There(i, sentTo[i], files, trampled)

Sorting == sort \in [Sorts -> SortRec] /\ \A n \in Sorts : SortOK(sort[n], files, trampled)

IndInv == Disk /\ Shape /\ Sent /\ Sorting

-----------------------------------------------------------------------------
(* Paths *)

LEMMA PathFacts ==
  /\ Targets \subseteq Paths
  /\ \A i \in Items : Source(i) \in Paths /\ Source(i) \notin Targets
  /\ \A i, j \in Items : Source(i) = Source(j) => i = j
  /\ \A i, name : name \in Names => Target(i, name) \in Targets /\ Sidecar(name) \in Targets
BY DEF Targets, Paths, Source, Target, Sidecar

LEMMA AimFacts ==
  ASSUME NEW s \in SortRec, NEW i \in DOMAIN s.aim
  PROVE  i \in Items /\ s.aim[i] \in Names /\ Target(i, s.aim[i]) \in Targets
<1>1. i \in Items /\ s.aim[i] \in Names
  BY DEF SortRec, Aims
<1>2. QED
  BY <1>1, PathFacts

LEMMA AimOf == ASSUME NEW D \in SUBSET Items, NEW f \in [D -> Names] PROVE f \in Aims
<1>1. [D -> Names] \in {[E -> Names] : E \in SUBSET Items}
  OBVIOUS
<1>2. QED
  BY <1>1 DEF Aims

LEMMA ResultOf == ASSUME NEW D \in SUBSET Items, NEW f \in [D -> Result] PROVE f \in Results
<1>1. [D -> Result] \in {[E -> Result] : E \in SUBSET Items}
  OBVIOUS
<1>2. QED
  BY <1>1 DEF Results

-----------------------------------------------------------------------------
(* The file system *)

\* Nothing that is at a target leaves it unnoticed.
Stays ==
  \A i \in Items, p \in Targets : There(i, p, files, trampled) => There(i, p, files', trampled')

LEMMA DiskSame ==
  ASSUME Disk, files' = files, trampled' = trampled
  PROVE  Disk' /\ Stays
BY DEF Disk, LastCopyIsKept, Stays, There

LEMMA PutFacts ==
  ASSUME Disk, NEW p \in Targets, NEW c \in Items \cup {Text}, Put(p, c)
  PROVE  Disk' /\ Stays /\ files'[p] = c
<1>1. /\ files' = [files EXCEPT ![p] = c]
      /\ trampled' = trampled \cup (IF files[p] \in Items \ {c} THEN {files[p]} ELSE {})
  BY DEF Put, Trample
<1>2. p \in Paths /\ \A i \in Items : Source(i) \in Paths /\ Source(i) # p
  BY PathFacts
<1>3. /\ files' \in [Paths -> Items \cup {Text, Nothing}] /\ files'[p] = c
      /\ \A q \in Paths \ {p} : files'[q] = files[q]
  BY <1>1, <1>2 DEF Disk
<1>4. \A i \in Items, q \in Paths : There(i, q, files, trampled) => There(i, q, files', trampled')
  BY <1>1, <1>3 DEF There
<1>5. \A i \in Items : files'[Source(i)] \in {i, Nothing}
  BY <1>2, <1>3 DEF Disk
<1>6. LastCopyIsKept'
  <2>1. ASSUME NEW i \in Items PROVE i \in trampled' \/ \E q \in Paths : files'[q] = i
    <3>1. CASE i \in trampled
      BY <1>1, <3>1
    <3>2. CASE i \notin trampled
      <4>1. PICK q \in Paths : files[q] = i
        BY <3>2 DEF Disk, LastCopyIsKept
      <4>2. There(i, q, files', trampled')
        BY <1>4, <4>1 DEF There
      <4>3. QED
        BY <4>2 DEF There
    <3>3. QED
      BY <3>1, <3>2
  <2>2. QED
    BY <2>1 DEF LastCopyIsKept
<1>7. Stays
  BY <1>4, PathFacts DEF Stays
<1>8. QED
  BY <1>3, <1>5, <1>6, <1>7 DEF Disk

LEMMA RenameFacts ==
  ASSUME Disk, NEW i \in Items, NEW p \in Targets, files[Source(i)] # Nothing,
         files' = [files EXCEPT ![p] = files[Source(i)], ![Source(i)] = Nothing],
         Trample(p, files[Source(i)])
  PROVE  Disk' /\ Stays /\ files'[p] = i
<1> DEFINE from == Source(i)
<1>1. files[from] = i /\ trampled' = trampled \cup (IF files[p] \in Items \ {i} THEN {files[p]} ELSE {})
  BY DEF Disk, Trample
<1>2. /\ p \in Paths /\ from \in Paths /\ p # from
      /\ \A j \in Items : Source(j) \in Paths /\ Source(j) # p /\ (Source(j) = from => j = i)
  BY PathFacts
<1>3. files' = [files EXCEPT ![p] = i, ![from] = Nothing]
  BY <1>1
<1> HIDE DEF from
<1>4. /\ files' \in [Paths -> Items \cup {Text, Nothing}] /\ files'[p] = i /\ files'[from] = Nothing
      /\ \A q \in Paths \ {p, from} : files'[q] = files[q]
  BY <1>2, <1>3 DEF Disk
<1>5. \A j \in Items : files'[Source(j)] \in {j, Nothing}
  BY <1>2, <1>4 DEF Disk, from
<1>6. \A j \in Items, q \in Paths \ {from} : There(j, q, files, trampled) => There(j, q, files', trampled')
  BY <1>1, <1>4 DEF There
<1>7. LastCopyIsKept'
  <2>1. ASSUME NEW j \in Items, j # i, j \notin trampled PROVE j \in trampled' \/ \E q \in Paths : files'[q] = j
    <3>1. PICK q \in Paths : files[q] = j
      BY <2>1 DEF Disk, LastCopyIsKept
    <3>2. q # from
      BY <1>1, <2>1, <3>1
    <3>3. QED
      BY <1>6, <3>1, <3>2 DEF There
  <2>2. QED
    BY <1>1, <1>2, <1>4, <2>1 DEF LastCopyIsKept
<1>8. Stays
  <2>1. \A q \in Targets : q \in Paths \ {from}
    BY PathFacts DEF from
  <2>2. QED
    BY <1>6, <2>1 DEF Stays
<1>9. QED
  BY <1>4, <1>5, <1>7, <1>8 DEF Disk

\* The source of an item goes that is at its target.
LEMMA RemoveFacts ==
  ASSUME Disk, NEW i \in Items, NEW p \in Targets, There(i, p, files, trampled),
         files' = [files EXCEPT ![Source(i)] = Nothing], trampled' = trampled
  PROVE  Disk' /\ Stays
<1> DEFINE from == Source(i)
<1>1. /\ p \in Paths /\ from \in Paths /\ p # from /\ files[from] \in {i, Nothing}
      /\ \A j \in Items : Source(j) \in Paths /\ (Source(j) = from => j = i)
  BY PathFacts DEF Disk
<1>2. files' = [files EXCEPT ![from] = Nothing]
  OBVIOUS
<1> HIDE DEF from
<1>3. /\ files' \in [Paths -> Items \cup {Text, Nothing}] /\ files'[from] = Nothing
      /\ \A q \in Paths \ {from} : files'[q] = files[q]
  BY <1>1, <1>2 DEF Disk
<1>4. \A j \in Items : files'[Source(j)] \in {j, Nothing}
  BY <1>1, <1>3 DEF Disk, from
<1>5. \A j \in Items, q \in Paths \ {from} : There(j, q, files, trampled) => There(j, q, files', trampled')
  BY <1>3 DEF There
<1>6. LastCopyIsKept'
  <2>1. There(i, p, files', trampled')
    BY <1>1, <1>5
  <2>2. ASSUME NEW j \in Items, j # i, j \notin trampled PROVE \E q \in Paths : files'[q] = j
    <3>1. PICK q \in Paths : files[q] = j
      BY <2>2 DEF Disk, LastCopyIsKept
    <3>2. q # from
      BY <1>1, <2>2, <3>1
    <3>3. QED
      BY <1>3, <3>1, <3>2
  <2>3. QED
    BY <1>1, <2>1, <2>2 DEF LastCopyIsKept, There
<1>7. Stays
  <2>1. \A q \in Targets : q \in Paths \ {from}
    BY PathFacts DEF from
  <2>2. QED
    BY <1>5, <2>1 DEF Stays
<1>8. QED
  BY <1>3, <1>4, <1>6, <1>7 DEF Disk

-----------------------------------------------------------------------------
(* The sorts *)

LEMMA SortStays ==
  ASSUME NEW s \in SortRec, SortOK(s, files, trampled), Stays
  PROVE  SortOK(s, files', trampled')
<1>1. s.todo \in Seq(Items) /\ s.pc \in SortPhase
  BY DEF SortRec
<1>2. CASE s.pc = "removing"
  <2>1. s.todo # <<>> /\ 1 \in DOMAIN s.todo /\ Head(s.todo) = s.todo[1] /\ Head(s.todo) \in DOMAIN s.aim
    BY <1>1, <1>2 DEF SortOK, RustPhase
  <2>2. Head(s.todo) \in Items /\ Target(Head(s.todo), s.aim[Head(s.todo)]) \in Targets
    BY <2>1, AimFacts
  <2>3. There(Head(s.todo), Target(Head(s.todo), s.aim[Head(s.todo)]), files', trampled')
    BY <1>2, <2>2 DEF SortOK, Stays
  <2>4. ASSUME NEW i \in DOMAIN s.result, s.mode # "script_move", s.result[i] \in Success
        PROVE  i \in DOMAIN s.aim /\ There(i, Target(i, s.aim[i]), files', trampled')
    BY <2>4, AimFacts DEF SortOK, Stays
  <2>5. QED
    BY <1>2, <2>3, <2>4 DEF SortOK
<1>3. CASE s.pc # "removing"
  <2>1. ASSUME NEW i \in DOMAIN s.result, s.mode # "script_move", s.result[i] \in Success
        PROVE  i \in DOMAIN s.aim /\ There(i, Target(i, s.aim[i]), files', trampled')
    BY <2>1, AimFacts DEF SortOK, Stays
  <2>2. QED
    BY <1>3, <2>1 DEF SortOK
<1>4. QED
  BY <1>2, <1>3

\* Sort n comes into state s while nothing leaves a target.
LEMMA OneSort ==
  ASSUME IndInv, NEW n \in Sorts, NEW s \in SortRec, sort' = [sort EXCEPT ![n] = s],
         Stays, SortOK(s, files', trampled')
  PROVE  Sorting'
<1>1. sort' \in [Sorts -> SortRec] /\ sort'[n] = s /\ \A m \in Sorts \ {n} : sort'[m] = sort[m]
  BY DEF IndInv, Sorting
<1>2. ASSUME NEW m \in Sorts \ {n} PROVE SortOK(sort'[m], files', trampled')
  <2>1. sort[m] \in SortRec /\ SortOK(sort[m], files, trampled)
    BY DEF IndInv, Sorting
  <2>2. QED
    BY <1>1, <2>1, SortStays
<1>3. QED
  BY <1>1, <1>2 DEF Sorting

LEMMA SortsSame ==
  ASSUME IndInv, sort' = sort, Stays
  PROVE  Sorting'
<1>1. ASSUME NEW n \in Sorts PROVE SortOK(sort'[n], files', trampled')
  BY SortStays DEF IndInv, Sorting
<1>2. QED
  BY <1>1 DEF IndInv, Sorting

LEMMA SentStays ==
  ASSUME IndInv, sentTo' = sentTo, Stays
  PROVE  Sent'
BY DEF IndInv, Sent, Stays

\* A sort that has not begun, or is over.
LEMMA RestFacts ==
  ASSUME NEW mode \in Modes \cup {"move"}, NEW pc \in {"unused", "asking", "over"}, NEW disk, NEW lost
  PROVE  AtRest(pc, mode) \in SortRec /\ SortOK(AtRest(pc, mode), disk, lost)
<1> DEFINE noAim == [i \in {} |-> Nothing]
           noResult == [i \in {} |-> "ok"]
           s == [pc |-> pc, mode |-> mode, todo |-> <<>>, aim |-> noAim, result |-> noResult]
<1>1. AtRest(pc, mode) = s
  BY DEF AtRest
<1>2. DOMAIN noResult = {} /\ noAim \in Aims
  <2>1. noAim \in [{} -> Names]
    OBVIOUS
  <2>2. QED
    BY <2>1, AimOf
<1>3. noResult \in Results
  <2>1. noResult \in [{} -> Result]
    OBVIOUS
  <2>2. QED
    BY <2>1, ResultOf
<1> HIDE DEF noAim, noResult
<1>4. s \in SortRec
  BY <1>2, <1>3 DEF SortRec, SortPhase
<1>5. SortOK(s, disk, lost)
  BY <1>2 DEF SortOK, RustPhase
<1>6. QED
  BY <1>1, <1>4, <1>5

\* The item a sort is at.
LEMMA CurrentFacts ==
  ASSUME IndInv, NEW n \in Sorts, sort[n].pc \in RustPhase
  PROVE  /\ sort[n] \in SortRec /\ SortOK(sort[n], files, trampled) /\ sort[n].todo # <<>>
         /\ sort[n].todo \in Seq(Items)
         /\ Current(n) \in Items /\ Current(n) \in DOMAIN sort[n].aim /\ Goal(n) \in Names
         /\ Target(Current(n), Goal(n)) \in Targets /\ Sidecar(Goal(n)) \in Targets
<1> DEFINE s == sort[n]
<1>1. s \in SortRec /\ SortOK(s, files, trampled)
  BY DEF IndInv, Sorting
<1>2. s.todo \in Seq(Items) /\ s.todo # <<>> /\ s.pc \in RustPhase
  BY <1>1 DEF SortOK, SortRec
<1>3. 1 \in DOMAIN s.todo /\ Head(s.todo) = s.todo[1]
  BY <1>2
<1>4. Head(s.todo) \in DOMAIN s.aim
  BY <1>1, <1>2, <1>3 DEF SortOK
<1> HIDE DEF s
<1>5. Head(s.todo) \in Items /\ s.aim[Head(s.todo)] \in Names
  BY <1>1, <1>4, AimFacts
<1>6. Current(n) = Head(s.todo) /\ Goal(n) = s.aim[Head(s.todo)]
  BY DEF Current, Goal, s
<1>7. QED
  BY <1>1, <1>2, <1>4, <1>5, <1>6, PathFacts DEF s

LEMMA SettleFacts ==
  ASSUME IndInv, NEW n \in Sorts, sort[n].pc \in RustPhase, NEW result \in Result, Settle(n, result),
         Stays, result \in Success => There(Current(n), Target(Current(n), Goal(n)), files', trampled')
  PROVE  Sorting'
<1>1. PICK i \in Items : i = Current(n)
  BY CurrentFacts
<1>2. PICK s \in SortRec : s = sort[n]
  BY CurrentFacts
<1>3. /\ SortOK(s, files, trampled) /\ s.todo # <<>> /\ s.todo \in Seq(Items) /\ s.mode # "script_move"
      /\ i \in DOMAIN s.aim /\ Goal(n) = s.aim[i]
      /\ \A k \in DOMAIN s.todo : s.todo[k] \in DOMAIN s.aim
  BY <1>1, <1>2, CurrentFacts DEF Goal, SortOK
<1>4. SortOK(s, files', trampled')
  BY <1>3, SortStays
<1> DEFINE r == [j \in DOMAIN s.result \cup {i} |-> IF j = i THEN result ELSE s.result[j]]
           rest == Tail(s.todo)
           pc == IF Len(s.todo) = 1 THEN "answered" ELSE "checking"
           x == [s EXCEPT !.result = r, !.todo = rest, !.pc = pc]
<1>5. sort' = [sort EXCEPT ![n] = x]
  BY <1>1, <1>2 DEF Settle
<1>6. r \in Results
  <2>1. DOMAIN s.result \cup {i} \in SUBSET Items /\ \A j \in DOMAIN s.result : s.result[j] \in Result
    BY DEF SortRec, Results
  <2>2. r \in [DOMAIN s.result \cup {i} -> Result]
    BY <2>1
  <2>3. QED
    BY <2>1, <2>2, ResultOf
<1>7. /\ rest \in Seq(Items) /\ pc \in {"answered", "checking"}
      /\ pc = "checking" => rest # <<>> /\ \A k \in DOMAIN rest : rest[k] \in DOMAIN s.aim
  <2>1. Len(s.todo) \in Nat /\ Len(s.todo) # 0 /\ rest \in Seq(Items) /\ Len(rest) = Len(s.todo) - 1
    BY <1>3
  <2>2. \A k \in DOMAIN rest : k + 1 \in DOMAIN s.todo /\ rest[k] = s.todo[k + 1]
    BY <1>3
  <2>3. Len(s.todo) # 1 => rest # <<>>
    <3>1. Len(<<>>) = 0
      OBVIOUS
    <3>2. rest = <<>> => Len(rest) = 0
      BY <3>1
    <3> HIDE DEF rest
    <3>3. QED
      BY <2>1, <3>2
  <2>4. QED
    BY <1>3, <2>1, <2>2, <2>3
<1>8. \A j \in DOMAIN r : r[j] \in Success => j \in DOMAIN s.aim /\ There(j, Target(j, s.aim[j]), files', trampled')
  BY <1>1, <1>3, <1>4 DEF SortOK
<1> HIDE DEF r, rest, pc
<1>9. /\ x \in SortRec /\ x.result = r /\ x.todo = rest /\ x.pc = pc
      /\ x.mode = s.mode /\ x.aim = s.aim
  BY <1>6, <1>7 DEF SortRec, SortPhase
<1> HIDE DEF x
<1>10. SortOK(x, files', trampled')
  BY <1>3, <1>7, <1>8, <1>9 DEF SortOK, RustPhase
<1>11. QED
  BY <1>5, <1>9, <1>10, OneSort

\* The step within an item.
LEMMA PhaseFacts ==
  ASSUME IndInv, NEW n \in Sorts, sort[n].pc \in RustPhase, NEW pc \in RustPhase,
         sort' = [sort EXCEPT ![n].pc = pc], Stays,
         pc = "removing" => There(Current(n), Target(Current(n), Goal(n)), files', trampled')
  PROVE  Sorting'
<1>1. PICK i \in Items : i = Current(n)
  BY CurrentFacts
<1>2. PICK s \in SortRec : s = sort[n]
  BY CurrentFacts
<1>3. /\ SortOK(s, files, trampled) /\ s.pc \in RustPhase
      /\ i = Head(s.todo) /\ Goal(n) = s.aim[i]
  BY <1>1, <1>2, CurrentFacts DEF Goal, Current
<1>4. SortOK(s, files', trampled')
  BY <1>3, SortStays
<1> DEFINE x == [s EXCEPT !.pc = pc]
<1>5. sort' = [sort EXCEPT ![n] = x]
  BY <1>2
<1>6. /\ x \in SortRec /\ x.result = s.result /\ x.todo = s.todo /\ x.pc = pc
      /\ x.mode = s.mode /\ x.aim = s.aim
  BY DEF SortRec, SortPhase, RustPhase
<1> HIDE DEF x
<1>7. SortOK(x, files', trampled')
  BY <1>1, <1>3, <1>4, <1>6 DEF SortOK, RustPhase
<1>8. QED
  BY <1>5, <1>6, <1>7, OneSort

-----------------------------------------------------------------------------
(* execute_batch *)

\* What a step of the command has to do, as it leaves the items alone.
LEMMA RustFacts ==
  ASSUME IndInv, Disk', Stays, Sorting', UNCHANGED <<item, saved, indexAt, sentTo>>
  PROVE  IndInv'
<1>1. Shape'
  BY DEF IndInv, Shape
<1>2. QED
  BY <1>1, SentStays DEF IndInv

LEMMA RefuseStep == ASSUME IndInv, NEW n \in Sorts, Refuse(n) PROVE IndInv'
<1>1. /\ sort[n].pc \in RustPhase /\ UNCHANGED <<files, trampled, item, saved, indexAt, sentTo>>
      /\ \E why \in {"missing", "failed"} : Settle(n, why)
  BY DEF Refuse, RustPhase
<1>2. Disk' /\ Stays
  BY <1>1, DiskSame DEF IndInv
<1>3. PICK why \in {"missing", "failed"} : Settle(n, why)
  BY <1>1
<1>4. why \in Result /\ why \notin Success
  BY DEF Result, Success
<1>5. Sorting'
  BY <1>1, <1>2, <1>3, <1>4, SettleFacts
<1>6. QED
  BY <1>1, <1>2, <1>5, RustFacts

LEMMA WriteSidecarStep == ASSUME IndInv, NEW n \in Sorts, WriteSidecar(n) PROVE IndInv'
<1>1. /\ sort[n].pc \in RustPhase /\ sort' = [sort EXCEPT ![n].pc = "writing"]
      /\ Put(Sidecar(Goal(n)), Text) \/ UNCHANGED <<files, trampled>>
      /\ UNCHANGED <<item, saved, indexAt, sentTo>>
  BY DEF WriteSidecar, RustPhase
<1>2. PICK p \in Targets : p = Sidecar(Goal(n))
  BY <1>1, CurrentFacts
<1>3. Disk' /\ Stays
  BY <1>1, <1>2, DiskSame, PutFacts DEF IndInv
<1>4. Sorting'
  BY <1>1, <1>3, PhaseFacts DEF RustPhase
<1>5. QED
  BY <1>1, <1>3, <1>4, RustFacts

LEMMA RenameStep == ASSUME IndInv, NEW n \in Sorts, Rename(n) PROVE IndInv'
<1>1. /\ sort[n].pc \in RustPhase /\ Settle(n, "ok") /\ UNCHANGED <<item, saved, indexAt, sentTo>>
  BY DEF Rename, RustPhase
<1>2. PICK i \in Items, p \in Targets : i = Current(n) /\ p = Target(Current(n), Goal(n))
  BY <1>1, CurrentFacts
<1>3. /\ files[Source(i)] # Nothing /\ Trample(p, files[Source(i)])
      /\ files' = [files EXCEPT ![p] = files[Source(i)], ![Source(i)] = Nothing]
  BY <1>2 DEF Rename
<1>4. Disk' /\ Stays /\ files'[p] = i
  BY <1>3, RenameFacts DEF IndInv
<1>5. There(Current(n), Target(Current(n), Goal(n)), files', trampled') /\ "ok" \in Result
  BY <1>2, <1>4 DEF There, Result
<1>6. Sorting'
  BY <1>1, <1>4, <1>5, SettleFacts
<1>7. QED
  BY <1>1, <1>4, <1>6, RustFacts

LEMMA CopyStep == ASSUME IndInv, NEW n \in Sorts, Copy(n) PROVE IndInv'
<1>1. /\ sort[n].pc \in RustPhase /\ UNCHANGED <<item, saved, indexAt, sentTo>>
      /\ Settle(n, "ok") \/ Settle(n, "copied") \/ sort' = [sort EXCEPT ![n].pc = "removing"]
  BY DEF Copy, RustPhase
<1>2. PICK i \in Items, p \in Targets : i = Current(n) /\ p = Target(Current(n), Goal(n))
  BY <1>1, CurrentFacts
<1>3. files[Source(i)] = i /\ Put(p, i)
  BY <1>2 DEF Copy, IndInv, Disk
<1>4. Disk' /\ Stays /\ files'[p] = i
  BY <1>3, PutFacts DEF IndInv
<1>5. There(Current(n), Target(Current(n), Goal(n)), files', trampled') /\ {"ok", "copied"} \subseteq Result
  BY <1>2, <1>4 DEF There, Result
<1>6. Sorting'
  BY <1>1, <1>4, <1>5, SettleFacts, PhaseFacts DEF RustPhase
<1>7. QED
  BY <1>1, <1>4, <1>6, RustFacts

LEMMA TransferFailsStep == ASSUME IndInv, NEW n \in Sorts, TransferFails(n) PROVE IndInv'
<1>1. /\ sort[n].pc \in RustPhase /\ Settle(n, "failed") /\ UNCHANGED <<item, saved, indexAt, sentTo>>
      /\ Put(Target(Current(n), Goal(n)), Text) \/ UNCHANGED <<files, trampled>>
  BY DEF TransferFails, RustPhase
<1>2. PICK p \in Targets : p = Target(Current(n), Goal(n))
  BY <1>1, CurrentFacts
<1>3. Disk' /\ Stays
  BY <1>1, <1>2, DiskSame, PutFacts DEF IndInv
<1>4. "failed" \in Result /\ "failed" \notin Success
  BY DEF Result, Success
<1>5. Sorting'
  BY <1>1, <1>3, <1>4, SettleFacts
<1>6. QED
  BY <1>1, <1>3, <1>5, RustFacts

LEMMA RemoveSourceStep == ASSUME IndInv, NEW n \in Sorts, RemoveSource(n) PROVE IndInv'
<1>1. /\ sort[n].pc = "removing" /\ sort[n].pc \in RustPhase /\ trampled' = trampled
      /\ \/ files' = [files EXCEPT ![Source(Current(n))] = Nothing] /\ Settle(n, "ok")
         \/ UNCHANGED files /\ Settle(n, "undeleted")
      /\ UNCHANGED <<item, saved, indexAt, sentTo>>
  BY DEF RemoveSource, RustPhase
<1>2. PICK i \in Items, p \in Targets : i = Current(n) /\ p = Target(Current(n), Goal(n))
  BY <1>1, CurrentFacts
<1>3. There(i, p, files, trampled)
  BY <1>1, <1>2, CurrentFacts DEF SortOK, Current, Goal
<1>4. Disk' /\ Stays
  BY <1>1, <1>2, <1>3, DiskSame, RemoveFacts DEF IndInv
<1>5. There(i, p, files', trampled') /\ {"ok", "undeleted"} \subseteq Result
  BY <1>3, <1>4 DEF Stays, Result
<1>6. Sorting'
  BY <1>1, <1>2, <1>4, <1>5, SettleFacts
<1>7. QED
  BY <1>1, <1>4, <1>6, RustFacts

-----------------------------------------------------------------------------
(* The panel *)

\* What a step that leaves the files alone has to do.
LEMMA PanelFacts ==
  ASSUME IndInv, files' = files, trampled' = trampled, Shape', Sent', Sorting'
  PROVE  IndInv'
BY DiskSame DEF IndInv

LEMMA ShapeSame == ASSUME IndInv, UNCHANGED <<item, saved, indexAt>> PROVE Shape'
BY DEF IndInv, Shape

LEMMA ClickStep == ASSUME IndInv, NEW n \in Sorts, NEW mode \in Modes, Click(n, mode) PROVE IndInv'
<1>1. /\ sort' = [sort EXCEPT ![n] = AtRest("asking", mode)]
      /\ UNCHANGED <<files, trampled, item, saved, indexAt, sentTo>>
  BY DEF Click
<1>2. Stays
  BY <1>1, DiskSame DEF IndInv
<1>3. AtRest("asking", mode) \in SortRec /\ SortOK(AtRest("asking", mode), files', trampled')
  BY RestFacts
<1>4. Sorting' /\ Sent' /\ Shape'
  BY <1>1, <1>2, <1>3, OneSort, SentStays, ShapeSame
<1>5. QED
  BY <1>1, <1>4, PanelFacts

LEMMA DeclineStep == ASSUME IndInv, NEW n \in Sorts, Decline(n) PROVE IndInv'
<1>1. /\ sort' = [sort EXCEPT ![n] = AtRest("over", "move")]
      /\ UNCHANGED <<files, trampled, item, saved, indexAt, sentTo>>
  BY DEF Decline
<1>2. Stays
  BY <1>1, DiskSame DEF IndInv
<1>3. AtRest("over", "move") \in SortRec /\ SortOK(AtRest("over", "move"), files', trampled')
  BY RestFacts
<1>4. Sorting' /\ Sent' /\ Shape'
  BY <1>1, <1>2, <1>3, OneSort, SentStays, ShapeSame
<1>5. QED
  BY <1>1, <1>4, PanelFacts

LEMMA BeginStep == ASSUME IndInv, NEW n \in Sorts, Begin(n) PROVE IndInv'
<1> DEFINE due == {i \in Items : item[i].status \in Sortable}
           script == sort[n].mode = "script_move"
           aim == [i \in due |-> item[i].name]
           result == IF script THEN [i \in due |-> "ok"] ELSE sort[n].result
           pc == IF script THEN "answered" ELSE "checking"
           x(todo) == [pc |-> pc, mode |-> sort[n].mode, todo |-> IF script THEN <<>> ELSE todo,
                       aim |-> aim, result |-> result]
<1>1. /\ sort[n].pc = "asking" /\ due # {} /\ UNCHANGED <<files, trampled, item, saved, indexAt, sentTo>>
      /\ \E todo \in Listed(due) : sort' = [sort EXCEPT ![n] = x(todo)]
  BY DEF Begin
<1>2. PICK todo \in Listed(due) : sort' = [sort EXCEPT ![n] = x(todo)]
  BY <1>1
<1>3. sort[n] \in SortRec /\ DOMAIN sort[n].result = {} /\ sort[n].mode \in Modes \cup {"move"}
  BY <1>1 DEF IndInv, Sorting, SortOK, SortRec
<1>4. todo \in Seq(Items) /\ todo # <<>> /\ \A k \in DOMAIN todo : todo[k] \in due
  <2> DEFINE len == Cardinality(due)
  <2>1. IsFiniteSet(due) /\ len \in Nat /\ len # 0
    BY <1>1, FS_Subset, FS_CardinalityType, FS_EmptySet
  <2>2. todo \in [1 .. len -> due] /\ due \subseteq Items
    BY DEF Listed
  <2> HIDE DEF len, due
  <2>3. todo \in [1 .. len -> Items] /\ 1 \in DOMAIN todo
    BY <2>1, <2>2
  <2>4. QED
    BY <2>1, <2>2, <2>3
<1>5. aim \in Aims /\ DOMAIN aim = due
  <2>1. \A i \in due : item[i].name \in Names
    BY DEF IndInv, Shape
  <2>2. due \in SUBSET Items /\ aim \in [due -> Names]
    BY <2>1
  <2>3. QED
    BY <2>2, AimOf
<1>6. result \in Results /\ (~ script => DOMAIN result = {})
  <2>1. due \in SUBSET Items /\ [i \in due |-> "ok"] \in [due -> Result]
    BY DEF Result
  <2>2. [i \in due |-> "ok"] \in Results
    BY <2>1, ResultOf
  <2>3. sort[n].result \in Results
    BY <1>3 DEF SortRec
  <2>4. QED
    BY <1>3, <2>2, <2>3
<1>7. PICK s : s = x(todo)
  OBVIOUS
<1>8. /\ s.pc = pc /\ s.mode = sort[n].mode /\ s.todo = (IF script THEN <<>> ELSE todo)
      /\ s.aim = aim /\ s.result = result /\ s \in SortRec
  <2>1. pc \in SortPhase /\ (IF script THEN <<>> ELSE todo) \in Seq(Items)
    BY <1>4 DEF SortPhase
  <2> HIDE DEF aim, result, pc
  <2>2. QED
    BY <1>3, <1>5, <1>6, <1>7, <2>1 DEF SortRec
<1>9. SortOK(s, files', trampled')
  <2> HIDE DEF aim, result, due
  <2>1. CASE script
    BY <1>8, <2>1 DEF SortOK, RustPhase
  <2>2. CASE ~ script
    BY <1>4, <1>5, <1>6, <1>8, <2>2 DEF SortOK, RustPhase
  <2>3. QED
    BY <2>1, <2>2
<1>10. sort' = [sort EXCEPT ![n] = s]
  BY <1>2, <1>7
<1>11. Stays
  BY <1>1, DiskSame DEF IndInv
<1> HIDE DEF x, due
<1>12. Sorting' /\ Sent' /\ Shape'
  BY <1>1, <1>8, <1>9, <1>10, <1>11, OneSort, SentStays, ShapeSame
<1>13. QED
  BY <1>1, <1>12, PanelFacts

LEMMA EditStep == ASSUME IndInv, NEW i \in Items, Edit(i) PROVE IndInv'
<1>1. UNCHANGED <<files, trampled, sort, saved, indexAt, sentTo>>
  BY DEF Edit
<1>2. PICK name \in Names : item' = [item EXCEPT ![i].name = name]
  BY DEF Edit
<1>3. Stays
  BY <1>1, DiskSame DEF IndInv
<1>4. Shape'
  <2> DEFINE c == item[i]
             e == [c EXCEPT !.name = name]
  <2>1. c \in [status : {"review", "done", "error"}, name : Names]
    BY DEF IndInv, Shape
  <2>2. item' = [item EXCEPT ![i] = e]
    BY <1>2
  <2> HIDE DEF c
  <2>3. e \in [status : {"review", "done", "error"}, name : Names]
    BY <2>1
  <2> HIDE DEF e
  <2>4. QED
    BY <1>1, <2>2, <2>3 DEF IndInv, Shape
<1>5. Sorting' /\ Sent'
  BY <1>1, <1>3, SortsSame, SentStays
<1>6. QED
  BY <1>1, <1>4, <1>5, PanelFacts

LEMMA IdleStep ==
  ASSUME IndInv, UNCHANGED <<files, trampled, sort, item, saved, indexAt, sentTo>>
  PROVE  IndInv'
<1>1. Stays
  BY DiskSame DEF IndInv
<1>2. Sorting' /\ Sent' /\ Shape'
  BY <1>1, SortsSame, SentStays, ShapeSame
<1>3. QED
  BY <1>2, PanelFacts

LEMMA RestartStep == ASSUME IndInv, Restart PROVE IndInv'
<1>1. /\ sort' = [n \in Sorts |-> IF sort[n].pc = "unused" THEN sort[n] ELSE AtRest("over", "move")]
      /\ item' = [i \in Items |-> [item[i] EXCEPT !.status = saved[i]]]
      /\ sentTo' = [i \in Items |-> IF saved[i] = "done" THEN sentTo[i] ELSE Nothing]
      /\ UNCHANGED <<files, saved, indexAt, trampled>>
  BY DEF Restart
<1>2. Stays
  BY <1>1, DiskSame DEF IndInv
<1>3. Sorting'
  <2>1. AtRest("over", "move") \in SortRec /\ SortOK(AtRest("over", "move"), files', trampled')
    BY RestFacts
  <2>2. \A n \in Sorts : sort[n] \in SortRec /\ SortOK(sort[n], files', trampled')
    BY <1>2, SortStays DEF IndInv, Sorting
  <2>3. \A n \in Sorts : sort'[n] \in SortRec /\ SortOK(sort'[n], files', trampled')
    BY <1>1, <2>1, <2>2
  <2>4. QED
    BY <1>1, <2>3 DEF Sorting
<1>4. Shape'
  <2>1. ASSUME NEW i \in Items PROVE item'[i] \in [status : {"review", "done", "error"}, name : Names]
    <3> DEFINE c == item[i]
               st == saved[i]
    <3>1. c \in [status : {"review", "done", "error"}, name : Names] /\ st \in {"review", "done", "error"}
      BY DEF IndInv, Shape
    <3>2. item'[i] = [c EXCEPT !.status = st]
      BY <1>1
    <3> HIDE DEF c, st
    <3>3. QED
      BY <3>1, <3>2
  <2>2. QED
    BY <1>1, <2>1 DEF IndInv, Shape
<1>5. Sent'
  BY <1>1 DEF IndInv, Sent
<1>6. QED
  BY <1>1, <1>3, <1>4, <1>5, PanelFacts

\* The results of a sort are applied: what counts as sorted is at its target.
LEMMA ApplyStep == ASSUME IndInv, NEW n \in Sorts, Apply(n) PROVE IndInv'
<1> DEFINE s == sort[n]
           r == s.result
           won == {i \in DOMAIN r : r[i] \in Success}
<1>1. /\ item' = [i \in Items |-> IF i \notin DOMAIN r THEN item[i]
                                  ELSE [item[i] EXCEPT !.status = IF i \in won THEN "done" ELSE "error"]]
      /\ sentTo' = [i \in Items |-> IF i \notin won THEN sentTo[i]
                                    ELSE IF s.mode = "script_move" THEN Nothing ELSE Target(i, s.aim[i])]
      /\ sort' = [sort EXCEPT ![n] = AtRest("over", "move")]
      /\ UNCHANGED <<files, trampled>>
  BY DEF Apply, ApplyWith
<1>2. PICK heard \in SUBSET Items :
        indexAt' = [i \in Items |-> IF i \in heard THEN Target(i, item[i].name) ELSE indexAt[i]]
  <2> DEFINE told == {i \in won : s.mode # "copy" /\ r[i] # "copied"}
  <2>1. told \subseteq Items
    BY DEF IndInv, Sorting, SortRec, Results
  <2>2. \E heard \in {told, {}} :
          indexAt' = [i \in Items |-> IF i \in heard THEN Target(i, item[i].name) ELSE indexAt[i]]
    BY DEF Apply, ApplyWith
  <2> HIDE DEF told
  <2>3. PICK heard \in {told, {}} :
          indexAt' = [i \in Items |-> IF i \in heard THEN Target(i, item[i].name) ELSE indexAt[i]]
    BY <2>2
  <2>4. heard \in SUBSET Items
    BY <2>1
  <2>5. QED
    BY <2>3, <2>4
<1>3. PICK kept \in BOOLEAN :
        saved' = [i \in Items |-> IF kept /\ i \in DOMAIN r THEN item'[i].status ELSE saved[i]]
  BY DEF Apply, ApplyWith
<1>4. Stays
  BY <1>1, DiskSame DEF IndInv
<1>5. Sorting'
  <2>1. AtRest("over", "move") \in SortRec /\ SortOK(AtRest("over", "move"), files', trampled')
    BY RestFacts
  <2>2. QED
    BY <1>1, <1>4, <2>1, OneSort
<1>6. s \in SortRec /\ SortOK(s, files, trampled)
  BY DEF IndInv, Sorting
<1> HIDE DEF s
<1>7. Sent'
  <2>1. ASSUME NEW i \in Items, sentTo'[i] # Nothing
        PROVE  sentTo'[i] \in Targets /\ There(i, sentTo'[i], files, trampled)
    <3>1. CASE i \notin won
      BY <1>1, <2>1, <3>1 DEF IndInv, Sent
    <3>2. CASE i \in won
      <4>1. sentTo'[i] = Target(i, s.aim[i]) /\ s.mode # "script_move"
        BY <1>1, <2>1, <3>2
      <4>2. i \in DOMAIN s.aim /\ There(i, Target(i, s.aim[i]), files, trampled)
        BY <1>6, <3>2, <4>1 DEF SortOK
      <4>3. QED
        BY <1>6, <4>1, <4>2, AimFacts
    <3>3. QED
      BY <3>1, <3>2
  <2>2. QED
    BY <1>1, <2>1 DEF Sent
<1>8. Shape'
  <2> HIDE DEF r, won
  <2>1. ASSUME NEW i \in Items
        PROVE  item'[i] \in [status : {"review", "done", "error"}, name : Names]
    <3> DEFINE c == item[i]
               st == IF i \in won THEN "done" ELSE "error"
    <3>1. c \in [status : {"review", "done", "error"}, name : Names]
      BY DEF IndInv, Shape
    <3>2. item'[i] = c \/ item'[i] = [c EXCEPT !.status = st]
      BY <1>1
    <3>3. st \in {"review", "done", "error"}
      OBVIOUS
    <3> HIDE DEF c, st
    <3>4. QED
      BY <3>1, <3>2, <3>3
  <2>2. item' \in [Items -> [status : {"review", "done", "error"}, name : Names]]
    <3>1. item' = [i \in Items |-> item'[i]]
      BY <1>1
    <3>2. QED
      BY <2>1, <3>1
  <2>3. saved' \in [Items -> {"review", "done", "error"}]
    <3>1. \A i \in Items : saved[i] \in {"review", "done", "error"}
      BY DEF IndInv, Shape
    <3>2. \A i \in Items : item'[i].status \in {"review", "done", "error"}
      BY <2>1
    <3>3. QED
      BY <1>3, <3>1, <3>2
  <2>4. indexAt' \in [Items -> Paths]
    <3>1. \A i \in Items : indexAt[i] \in Paths /\ item[i].name \in Names
      BY DEF IndInv, Shape
    <3>2. \A i \in Items : Target(i, item[i].name) \in Paths
      BY <3>1, PathFacts
    <3>3. QED
      BY <1>2, <3>1, <3>2
  <2>5. QED
    BY <2>2, <2>3, <2>4 DEF Shape
<1>9. QED
  BY <1>1, <1>5, <1>7, <1>8, PanelFacts

-----------------------------------------------------------------------------
LEMMA InitInd == Init => IndInv
<1> SUFFICES ASSUME Init PROVE IndInv
  OBVIOUS
<1>1. Disk
  <2>1. \A i \in Items : Source(i) \in Paths /\ files[Source(i)] = i
    BY PathFacts DEF Init, Source
  <2>2. files \in [Paths -> Items \cup {Text, Nothing}]
    <3>1. \A p \in Paths : p[1] = "source" => p[2] \in Items
      BY DEF Paths
    <3>2. QED
      BY <3>1 DEF Init
  <2>3. QED
    BY <2>1, <2>2 DEF Disk, LastCopyIsKept
<1>2. Shape
  BY PathFacts DEF Init, Shape
<1>3. Sent
  BY DEF Init, Sent
<1>4. Sorting
  BY RestFacts DEF Init, Sorting
<1>5. QED
  BY <1>1, <1>2, <1>3, <1>4 DEF IndInv

LEMMA NextInd == IndInv /\ [Next]_vars => IndInv'
<1> SUFFICES ASSUME IndInv, [Next]_vars PROVE IndInv'
  OBVIOUS
<1>1. ASSUME NEW n \in Sorts, NEW mode \in Modes, Click(n, mode) PROVE IndInv'
  BY <1>1, ClickStep
<1>2. ASSUME NEW n \in Sorts, Decline(n) \/ Begin(n) \/ Apply(n) PROVE IndInv'
  BY <1>2, DeclineStep, BeginStep, ApplyStep
<1>3. ASSUME NEW n \in Sorts, RustStep(n) PROVE IndInv'
  BY <1>3, RefuseStep, WriteSidecarStep, RenameStep, CopyStep, TransferFailsStep, RemoveSourceStep
     DEF RustStep
<1>4. ASSUME NEW i \in Items, Edit(i) PROVE IndInv'
  BY <1>4, EditStep
<1>5. CASE ForceReset
  BY <1>5, IdleStep DEF ForceReset
<1>6. CASE Restart
  BY <1>6, RestartStep
<1>7. CASE UNCHANGED vars
  BY <1>7, IdleStep DEF vars
<1>8. QED
  BY <1>1, <1>2, <1>3, <1>4, <1>5, <1>6, <1>7 DEF Next

LEMMA Inductive == Spec => []IndInv
<1>1. QED
  BY InitInd, NextInd, PTL DEF Spec

-----------------------------------------------------------------------------
(* One sort at a time *)

AtIt == RustPhase \cup {"answered"}

\* A sort under way: each item comes up once, none was done when it began.
Steady(s, list) ==
  s.pc \in AtIt =>
    /\ \A j, k \in DOMAIN s.todo : s.todo[j] = s.todo[k] => j = k
    /\ \A k \in DOMAIN s.todo : s.todo[k] \notin DOMAIN s.result
    /\ DOMAIN s.result \subseteq DOMAIN s.aim
    /\ \A i \in DOMAIN s.aim : list[i].status # "done"

\* The sort s has moved item i.
Moved(s, i) == s.pc \in AtIt /\ i \in DOMAIN s.result /\ s.result[i] \in Success

Alone == \A m, n \in Sorts : sort[m].pc \in AtIt /\ sort[n].pc \in AtIt => m = n

\* An item is where it was, or done, or the sort under way has moved it.
SourceKept(i) ==
  \/ files[Source(i)] = i
  \/ item[i].status = "done"
  \/ \E n \in Sorts : Moved(sort[n], i)

Orderly ==
  ~muddled => /\ Alone /\ \A n \in Sorts : Steady(sort[n], item)
              /\ \A i \in Items : SourceKept(i)

LEMMA BegunFacts == \A n \in Sorts : Begun(n) <=> sort[n].pc \in AtIt
BY DEF Begun, InRust, AtIt, RustPhase

\* A step that neither begins, goes on with nor ends a sort.
LEMMA QuietStep ==
  ASSUME Orderly, files' = files, muddled' = muddled,
         \A i \in Items : item'[i].status = item[i].status,
         \A n \in Sorts : sort[n] \in SortRec,
         \A n \in Sorts : sort'[n] = sort[n] \/ (sort[n].pc \notin AtIt /\ sort'[n].pc \notin AtIt)
  PROVE  Orderly'
<1> SUFFICES ASSUME ~muddled' PROVE /\ Alone' /\ \A n \in Sorts : Steady(sort'[n], item')
                                    /\ \A i \in Items : SourceKept(i)'
  BY DEF Orderly
<1>1. Alone /\ (\A n \in Sorts : Steady(sort[n], item)) /\ \A i \in Items : SourceKept(i)
  BY DEF Orderly
<1>2. Alone'
  BY <1>1 DEF Alone
<1>3. ASSUME NEW n \in Sorts PROVE Steady(sort'[n], item')
  <2>1. \A i \in DOMAIN sort[n].aim : i \in Items
    BY AimFacts
  <2>2. QED
    BY <1>1, <2>1 DEF Steady
<1>4. ASSUME NEW i \in Items PROVE SourceKept(i)'
  <2>1. \A n \in Sorts : Moved(sort[n], i) => Moved(sort'[n], i)
    BY DEF Moved
  <2>2. QED
    BY <1>1, <2>1 DEF SourceKept
<1>5. QED
  BY <1>2, <1>3, <1>4

\* The step within an item.
LEMMA OrderlyPhase ==
  ASSUME IndInv, Orderly, NEW n \in Sorts, sort[n].pc \in RustPhase, NEW pc \in RustPhase,
         sort' = [sort EXCEPT ![n].pc = pc], item' = item, muddled' = muddled,
         \A i \in Items : files'[Source(i)] = files[Source(i)]
  PROVE  Orderly'
<1> SUFFICES ASSUME ~muddled' PROVE /\ Alone' /\ \A m \in Sorts : Steady(sort'[m], item')
                                    /\ \A i \in Items : SourceKept(i)'
  BY DEF Orderly
<1>1. Alone /\ (\A m \in Sorts : Steady(sort[m], item)) /\ \A i \in Items : SourceKept(i)
  BY DEF Orderly
<1>2. PICK s \in SortRec : s = sort[n]
  BY CurrentFacts
<1> DEFINE x == [s EXCEPT !.pc = pc]
<1>3. /\ sort' = [sort EXCEPT ![n] = x] /\ DOMAIN sort = Sorts
      /\ x.pc \in AtIt /\ s.pc \in AtIt
      /\ x.todo = s.todo /\ x.aim = s.aim /\ x.result = s.result
  BY <1>2 DEF SortRec, AtIt, IndInv, Sorting
<1> HIDE DEF x
<1>4. sort'[n] = x /\ \A m \in Sorts \ {n} : sort'[m] = sort[m]
  BY <1>3
<1>5. Alone'
  BY <1>1, <1>2, <1>3, <1>4 DEF Alone
<1>6. ASSUME NEW m \in Sorts PROVE Steady(sort'[m], item')
  BY <1>1, <1>2, <1>3, <1>4 DEF Steady
<1>7. ASSUME NEW i \in Items PROVE SourceKept(i)'
  <2>1. \A m \in Sorts : Moved(sort[m], i) => Moved(sort'[m], i)
    BY <1>2, <1>3, <1>4 DEF Moved
  <2>2. QED
    BY <1>1, <2>1 DEF SourceKept
<1>8. QED
  BY <1>5, <1>6, <1>7

\* The current item has its result: its source may only be gone if it was moved.
LEMMA OrderlySettle ==
  ASSUME IndInv, Orderly, NEW n \in Sorts, sort[n].pc \in RustPhase, NEW result, Settle(n, result),
         item' = item, muddled' = muddled,
         \A i \in Items : files'[Source(i)] = files[Source(i)] \/ (i = Current(n) /\ result \in Success)
  PROVE  Orderly'
<1> SUFFICES ASSUME ~muddled' PROVE /\ Alone' /\ \A m \in Sorts : Steady(sort'[m], item')
                                    /\ \A i \in Items : SourceKept(i)'
  BY DEF Orderly
<1>1. Alone /\ (\A m \in Sorts : Steady(sort[m], item)) /\ \A i \in Items : SourceKept(i)
  BY DEF Orderly
<1>2. PICK s \in SortRec : s = sort[n]
  BY CurrentFacts
<1>3. PICK c \in Items : c = Current(n)
  BY CurrentFacts
<1>4. s.todo \in Seq(Items) /\ s.todo # <<>> /\ c \in DOMAIN s.aim /\ s.pc \in AtIt
  BY <1>2, <1>3, CurrentFacts DEF AtIt
<1>5. 1 \in DOMAIN s.todo /\ c = s.todo[1]
  BY <1>2, <1>3, <1>4 DEF Current
<1> DEFINE r == [j \in DOMAIN s.result \cup {c} |-> IF j = c THEN result ELSE s.result[j]]
           rest == Tail(s.todo)
           pc == IF Len(s.todo) = 1 THEN "answered" ELSE "checking"
           x == [s EXCEPT !.result = r, !.todo = rest, !.pc = pc]
<1>6. sort' = [sort EXCEPT ![n] = x]
  BY <1>2, <1>3 DEF Settle
<1>7. pc \in AtIt
  BY DEF AtIt, RustPhase
<1>8. Steady(s, item)
  BY <1>1, <1>2
<1>9. /\ \A j, k \in DOMAIN rest : rest[j] = rest[k] => j = k
      /\ \A k \in DOMAIN rest : rest[k] \notin DOMAIN s.result \cup {c}
  <2>1. \A k \in DOMAIN rest : k \in Nat \ {0} /\ k + 1 \in DOMAIN s.todo /\ rest[k] = s.todo[k + 1]
    BY <1>4
  <2>2. \A k \in DOMAIN rest : k + 1 # 1
    BY <2>1
  <2>3. \A j, k \in DOMAIN rest : j + 1 = k + 1 => j = k
    BY <2>1
  <2> HIDE DEF rest
  <2>4. QED
    BY <1>4, <1>5, <1>8, <2>1, <2>2, <2>3 DEF Steady
<1>10. DOMAIN r = DOMAIN s.result \cup {c} /\ r[c] = result /\ \A j \in DOMAIN s.result \ {c} : r[j] = s.result[j]
  OBVIOUS
<1> HIDE DEF r, rest, pc
<1>11. x.pc = pc /\ x.todo = rest /\ x.aim = s.aim /\ x.result = r /\ DOMAIN sort = Sorts
  BY DEF SortRec, IndInv, Sorting
<1> HIDE DEF x
<1>12. sort'[n] = x /\ \A m \in Sorts \ {n} : sort'[m] = sort[m]
  BY <1>6, <1>11
<1>13. Alone'
  BY <1>1, <1>2, <1>4, <1>7, <1>11, <1>12 DEF Alone
<1>14. Steady(x, item)
  BY <1>4, <1>7, <1>8, <1>9, <1>10, <1>11 DEF Steady
<1>15. ASSUME NEW m \in Sorts PROVE Steady(sort'[m], item')
  BY <1>1, <1>12, <1>14
<1>16. c \notin DOMAIN s.result
  BY <1>4, <1>5, <1>8 DEF Steady
<1>17. ASSUME NEW i \in Items PROVE SourceKept(i)'
  <2>1. CASE files'[Source(i)] = files[Source(i)]
    <3>1. \A m \in Sorts : Moved(sort[m], i) => Moved(sort'[m], i)
      BY <1>2, <1>4, <1>7, <1>10, <1>11, <1>12, <1>16 DEF Moved
    <3>2. QED
      BY <1>1, <2>1, <3>1 DEF SourceKept
  <2>2. CASE i = c /\ result \in Success
    <3>1. Moved(sort'[n], i)
      BY <1>7, <1>10, <1>11, <1>12, <2>2 DEF Moved
    <3>2. QED
      BY <3>1 DEF SourceKept
  <2>3. QED
    BY <1>3, <2>1, <2>2
<1>18. QED
  BY <1>13, <1>15, <1>17

LEMMA RustOrderly == ASSUME IndInv, Orderly, NEW n \in Sorts, RustStep(n) PROVE Orderly'
<1>1. item' = item /\ muddled' = muddled /\ sort[n].pc \in RustPhase
  BY DEF RustStep, Refuse, WriteSidecar, Rename, Copy, TransferFails, RemoveSource, RustPhase
<1>2. PICK c \in Items : c = Current(n)
  BY <1>1, CurrentFacts
<1>3. /\ Target(Current(n), Goal(n)) \in Targets /\ Sidecar(Goal(n)) \in Targets
      /\ \A i \in Items : Source(i) \in Paths /\ Source(i) \notin Targets /\ (Source(i) = Source(c) => i = c)
  BY <1>1, CurrentFacts, PathFacts
<1>4. DOMAIN files = Paths
  BY DEF IndInv, Disk
<1> DEFINE Same == \A i \in Items : files'[Source(i)] = files[Source(i)]
           SameBut == \A i \in Items : files'[Source(i)] = files[Source(i)] \/ i = c
<1>5. ASSUME NEW p \in Targets, NEW content, Put(p, content) PROVE Same
  BY <1>3, <1>4, <1>5 DEF Put
<1>6. "ok" \in Success /\ "copied" \in Success
  BY DEF Success
<1>7. CASE Refuse(n)
  <2>1. Same /\ \E why \in {"missing", "failed"} : Settle(n, why)
    BY <1>7 DEF Refuse
  <2>2. QED
    BY <1>1, <2>1, OrderlySettle
<1>8. CASE WriteSidecar(n)
  <2>1. Same /\ sort' = [sort EXCEPT ![n].pc = "writing"]
    BY <1>3, <1>5, <1>8 DEF WriteSidecar
  <2>2. QED
    BY <1>1, <2>1, OrderlyPhase DEF RustPhase
<1>9. CASE Rename(n)
  <2>1. SameBut /\ Settle(n, "ok")
    BY <1>2, <1>3, <1>4, <1>9 DEF Rename
  <2>2. QED
    BY <1>1, <1>2, <1>6, <2>1, OrderlySettle
<1>10. CASE Copy(n)
  <2>1. Same
    BY <1>3, <1>5, <1>10 DEF Copy
  <2>2. Settle(n, "ok") \/ Settle(n, "copied") \/ sort' = [sort EXCEPT ![n].pc = "removing"]
    BY <1>10 DEF Copy
  <2>3. QED
    BY <1>1, <2>1, <2>2, OrderlySettle, OrderlyPhase DEF RustPhase
<1>11. CASE TransferFails(n)
  <2>1. Same /\ Settle(n, "failed")
    BY <1>3, <1>5, <1>11 DEF TransferFails
  <2>2. QED
    BY <1>1, <2>1, OrderlySettle
<1>12. CASE RemoveSource(n)
  <2>1. (SameBut /\ Settle(n, "ok")) \/ (Same /\ Settle(n, "undeleted"))
    BY <1>2, <1>3, <1>4, <1>12 DEF RemoveSource
  <2>2. QED
    BY <1>1, <1>2, <1>6, <2>1, OrderlySettle
<1>13. QED
  BY <1>7, <1>8, <1>9, <1>10, <1>11, <1>12 DEF RustStep

LEMMA BeginOrderly == ASSUME IndInv, Orderly, NEW n \in Sorts, Begin(n) PROVE Orderly'
<1> DEFINE due == {i \in Items : item[i].status \in Sortable}
           script == sort[n].mode = "script_move"
<1>1. PICK todo \in Listed(due) :
        sort' = [sort EXCEPT ![n] =
          [pc |-> IF script THEN "answered" ELSE "checking", mode |-> sort[n].mode,
           todo |-> IF script THEN <<>> ELSE todo,
           aim |-> [i \in due |-> item[i].name],
           result |-> IF script THEN [i \in due |-> "ok"] ELSE sort[n].result]]
  BY DEF Begin
<1>2. /\ sort[n].pc = "asking" /\ files' = files /\ item' = item
      /\ muddled' = (muddled \/ \E m \in Sorts \ {n} : Begun(m))
  BY DEF Begin
<1> SUFFICES ASSUME ~muddled' PROVE /\ Alone' /\ \A m \in Sorts : Steady(sort'[m], item')
                                    /\ \A i \in Items : SourceKept(i)'
  BY DEF Orderly
<1>3. ~muddled /\ \A m \in Sorts \ {n} : sort[m].pc \notin AtIt
  BY <1>2, BegunFacts
<1>4. (\A m \in Sorts : Steady(sort[m], item)) /\ \A i \in Items : SourceKept(i)
  BY <1>3 DEF Orderly
<1>5. sort[n].pc \notin AtIt /\ DOMAIN sort[n].result = {}
  BY <1>2 DEF AtIt, RustPhase, IndInv, Sorting, SortOK
<1>6. \A i \in due : item[i].status # "done"
  BY DEF Sortable
<1>7. \A j, k \in DOMAIN todo : todo[j] = todo[k] => j = k
  <2>1. todo \in [1 .. Cardinality(due) -> due]
        /\ \A j, k \in DOMAIN todo : j < k =>
             \E p, q \in DOMAIN Order : p < q /\ Order[p] = todo[j] /\ Order[q] = todo[k]
    BY DEF Listed
  <2>2. DOMAIN todo \subseteq Int /\ DOMAIN Order \subseteq Int
    BY <2>1
  <2>3. ASSUME NEW j \in DOMAIN todo, NEW k \in DOMAIN todo, todo[j] = todo[k], j < k PROVE FALSE
    <3>1. PICK p, q \in DOMAIN Order : p < q /\ Order[p] = todo[j] /\ Order[q] = todo[k]
      BY <2>1, <2>3
    <3>2. p = q
      BY <2>3, <3>1
    <3>3. QED
      BY <2>2, <3>1, <3>2
  <2> HIDE DEF due
  <2>4. QED
    BY <2>2, <2>3
<1> HIDE DEF due
<1> DEFINE pc == IF script THEN "answered" ELSE "checking"
           steps == IF script THEN <<>> ELSE todo
           aim == [i \in due |-> item[i].name]
           r == IF script THEN [i \in due |-> "ok"] ELSE sort[n].result
           x == [pc |-> pc, mode |-> sort[n].mode, todo |-> steps, aim |-> aim, result |-> r]
<1>8. sort' = [sort EXCEPT ![n] = x] /\ DOMAIN sort = Sorts
  BY <1>1 DEF IndInv, Sorting
<1>9. /\ \A j, k \in DOMAIN steps : steps[j] = steps[k] => j = k
      /\ \A k \in DOMAIN steps : steps[k] \notin DOMAIN r
      /\ DOMAIN r \subseteq due /\ DOMAIN aim = due
  <2>1. CASE script
    <3>1. steps = <<>> /\ DOMAIN r = due /\ DOMAIN steps = {}
      BY <2>1
    <3>2. QED
      BY <3>1
  <2>2. CASE ~script
    BY <1>5, <1>7, <2>2
  <2>3. QED
    BY <2>1, <2>2
<1> HIDE DEF pc, steps, aim, r
<1>10. x.todo = steps /\ x.aim = aim /\ x.result = r
  OBVIOUS
<1> HIDE DEF x
<1>11. Steady(x, item)
  BY <1>6, <1>9, <1>10 DEF Steady
<1>12. sort'[n] = x /\ \A m \in Sorts \ {n} : sort'[m] = sort[m]
  BY <1>8
<1>13. Alone'
  BY <1>3, <1>12 DEF Alone
<1>14. ASSUME NEW m \in Sorts PROVE Steady(sort'[m], item')
  BY <1>2, <1>4, <1>11, <1>12
<1>15. ASSUME NEW i \in Items PROVE SourceKept(i)'
  <2>1. \A m \in Sorts : ~Moved(sort[m], i)
    BY <1>3, <1>5 DEF Moved
  <2>2. QED
    BY <1>2, <1>4, <2>1 DEF SourceKept
<1>16. QED
  BY <1>13, <1>14, <1>15

LEMMA ApplyOrderly == ASSUME IndInv, Orderly, NEW n \in Sorts, Apply(n) PROVE Orderly'
<1>1. PICK s \in SortRec : s = sort[n]
  BY DEF IndInv, Sorting
<1>2. PICK r : r = s.result
  OBVIOUS
<1> DEFINE won == {i \in DOMAIN r : r[i] \in Success}
<1>3. /\ s.pc = "answered" /\ files' = files /\ muddled' = muddled
      /\ item' = [i \in Items |-> IF i \notin DOMAIN r THEN item[i]
                                  ELSE [item[i] EXCEPT !.status = IF i \in won THEN "done" ELSE "error"]]
      /\ sort' = [sort EXCEPT ![n] = AtRest("over", "move")]
  BY <1>1, <1>2 DEF Apply, ApplyWith
<1> SUFFICES ASSUME ~muddled' PROVE /\ Alone' /\ \A m \in Sorts : Steady(sort'[m], item')
                                    /\ \A i \in Items : SourceKept(i)'
  BY DEF Orderly
<1>4. Alone /\ (\A m \in Sorts : Steady(sort[m], item)) /\ \A i \in Items : SourceKept(i)
  BY <1>3 DEF Orderly
<1>5. s.pc \in AtIt /\ \A m \in Sorts \ {n} : sort[m].pc \notin AtIt
  BY <1>1, <1>3, <1>4 DEF Alone, AtIt
<1>6. DOMAIN sort = Sorts /\ AtRest("over", "move").pc = "over"
  BY DEF IndInv, Sorting, AtRest
<1>7. sort'[n].pc \notin AtIt /\ \A m \in Sorts \ {n} : sort'[m] = sort[m]
  BY <1>3, <1>6 DEF AtIt, RustPhase
<1>8. \A m \in Sorts : sort'[m].pc \notin AtIt
  BY <1>5, <1>7
<1>9. \A i \in DOMAIN r : item[i].status # "done"
  BY <1>1, <1>2, <1>4, <1>5 DEF Steady
<1>10. ASSUME NEW i \in Items PROVE SourceKept(i)'
  <2>1. \A m \in Sorts : Moved(sort[m], i) => m = n /\ i \in won
    BY <1>1, <1>2, <1>5 DEF Moved
  <2>2. CASE i \in won
    <3> DEFINE c == item[i]
    <3>1. c \in [status : {"review", "done", "error"}, name : Names]
      BY DEF IndInv, Shape
    <3>2. item'[i] = [c EXCEPT !.status = "done"]
      BY <1>3, <2>2
    <3> HIDE DEF c
    <3>3. item'[i].status = "done"
      BY <3>1, <3>2
    <3>4. QED
      BY <3>3 DEF SourceKept
  <2>3. CASE i \in DOMAIN r \ won
    BY <1>3, <1>4, <1>9, <2>1, <2>3 DEF SourceKept
  <2>4. CASE i \notin DOMAIN r
    <3>1. item'[i] = item[i] /\ i \notin won
      BY <1>3, <2>4
    <3>2. QED
      BY <1>3, <1>4, <2>1, <3>1 DEF SourceKept
  <2>5. QED
    BY <2>2, <2>3, <2>4
<1>11. QED
  BY <1>8, <1>10 DEF Alone, Steady

LEMMA PanelOrderly ==
  ASSUME IndInv, Orderly,
         \/ \E n \in Sorts, mode \in Modes : Click(n, mode)
         \/ \E n \in Sorts : Decline(n)
         \/ \E i \in Items : Edit(i)
         \/ ForceReset \/ UNCHANGED vars
  PROVE  Orderly'
<1>1. files' = files /\ muddled' = muddled
  BY DEF Click, Decline, Edit, ForceReset, vars
<1>2. ASSUME NEW i \in Items PROVE item'[i].status = item[i].status
  <2> DEFINE c == item[i]
  <2>1. c \in [status : {"review", "done", "error"}, name : Names]
    BY DEF IndInv, Shape
  <2>2. \/ item' = item
        \/ \E j \in Items, name \in Names : item' = [item EXCEPT ![j].name = name]
    BY DEF Click, Decline, Edit, ForceReset, vars
  <2>3. DOMAIN item = Items
    BY DEF IndInv, Shape
  <2>4. item'[i] = c \/ \E name \in Names : item'[i] = [c EXCEPT !.name = name]
    BY <2>2, <2>3
  <2> HIDE DEF c
  <2>5. item'[i].status = c.status
    BY <2>1, <2>4
  <2>6. QED
    BY <2>5 DEF c
<1>3. \A n \in Sorts : sort[n] \in SortRec
  BY DEF IndInv, Sorting
<1>4. \/ sort' = sort
      \/ \E n \in Sorts, pc \in {"asking", "over"}, mode \in Modes \cup {"move"} :
           sort[n].pc \in {"unused", "asking"} /\ sort' = [sort EXCEPT ![n] = AtRest(pc, mode)]
  BY DEF Click, Decline, Edit, ForceReset, vars
<1>5. \A pc, mode : AtRest(pc, mode).pc = pc
  BY DEF AtRest
<1>6. {"unused", "asking", "over"} \cap AtIt = {} /\ DOMAIN sort = Sorts
  BY DEF AtIt, RustPhase, IndInv, Sorting
<1>7. \A n \in Sorts : sort'[n] = sort[n] \/ (sort[n].pc \notin AtIt /\ sort'[n].pc \notin AtIt)
  BY <1>4, <1>5, <1>6
<1>8. QED
  BY <1>1, <1>2, <1>3, <1>7, QuietStep

LEMMA OrderlyInductive == Spec => [](IndInv /\ Orderly)
<1>1. Init => Orderly
  <2> SUFFICES ASSUME Init PROVE Orderly
    OBVIOUS
  <2>1. \A n \in Sorts : sort[n].pc \notin AtIt
    BY DEF Init, AtRest, AtIt, RustPhase
  <2>2. \A i \in Items : files[Source(i)] = i
    BY PathFacts DEF Init, Source
  <2>3. QED
    BY <2>1, <2>2 DEF Orderly, Alone, Steady, SourceKept
<1>2. IndInv /\ Orderly /\ [Next]_vars => Orderly'
  <2> SUFFICES ASSUME IndInv, Orderly, [Next]_vars PROVE Orderly'
    OBVIOUS
  <2>1. CASE Restart
    BY <2>1 DEF Restart, Orderly
  <2>2. ASSUME NEW n \in Sorts, Begin(n) PROVE Orderly'
    BY <2>2, BeginOrderly
  <2>3. ASSUME NEW n \in Sorts, Apply(n) PROVE Orderly'
    BY <2>3, ApplyOrderly
  <2>4. ASSUME NEW n \in Sorts, RustStep(n) PROVE Orderly'
    BY <2>4, RustOrderly
  <2>5. QED
    BY <2>1, <2>2, <2>3, <2>4, PanelOrderly DEF Next
<1>3. QED
  BY <1>1, <1>2, InitInd, NextInd, PTL DEF Spec

-----------------------------------------------------------------------------
(* Theorems *)

\* However many sorts overlap, whatever fails in execute_batch and whenever the
\* app is closed: the last copy of a file only goes when another content of the
\* same name is put over it.
THEOREM SortCorrect == Spec => []SortInv
<1>1. IndInv => SortInv
  <2> SUFFICES ASSUME IndInv PROVE SortInv
    OBVIOUS
  <2>1. ASSUME NEW n \in Sorts
        PROVE  /\ sort[n].pc \in SortPhase /\ sort[n].mode \in Modes \cup {"move"}
               /\ sort[n].todo \in Seq(Items)
               /\ \A i \in DOMAIN sort[n].result : sort[n].result[i] \in Result
    <3>1. sort[n] \in SortRec
      BY DEF IndInv, Sorting
    <3>2. QED
      BY <3>1 DEF SortRec, Results
  <2>2. TypeOK
    BY <2>1 DEF IndInv, Disk, Shape, TypeOK
  <2>3. QED
    BY <2>2 DEF IndInv, Disk, SortInv
<1>2. QED
  BY <1>1, Inductive, PTL

\* A file reported as sorted is where it was sent, unless another content was
\* put over it.
THEOREM DoneCorrect == Spec => []DoneIsThere
<1>1. IndInv => DoneIsThere
  BY DEF IndInv, Sent, There, DoneIsThere
<1>2. QED
  BY <1>1, Inductive, PTL

\* A file reported as failed is still where it was, unless two sorts ran at once
\* or the app was closed in the middle of one.
THEOREM ErrorCorrect == Spec => []ErrorLeavesSource
<1>1. IndInv /\ Orderly => ErrorLeavesSource
  <2> SUFFICES ASSUME IndInv, Orderly, NEW i \in Items, item[i].status = "error", ~muddled,
                      ~(\E n \in Sorts : Begun(n) /\ i \in DOMAIN sort[n].aim)
               PROVE  files[Source(i)] = i
    BY DEF ErrorLeavesSource
  <2>1. \A n \in Sorts : ~Moved(sort[n], i)
    BY BegunFacts DEF Orderly, Moved, Steady
  <2>2. QED
    BY <2>1 DEF Orderly, SourceKept
<1>2. QED
  BY <1>1, OrderlyInductive, PTL
=============================================================================
