--------------------------- MODULE BatchRunProofs ---------------------------
(* Proofs about BatchRun, for any number of files, runs, extraction workers *)
(* and analysts, and of clicks, failures and restarts.                      *)
EXTENDS BatchRun, FiniteSetTheorems, WellFoundedInduction, TLAPS

USE BatchAssumption

-----------------------------------------------------------------------------
(* Finite sets of numbers in order: the position of a file in the list *)

Below(S, i) == {j \in S : j < i}
Place(S, i) == Cardinality(Below(S, i))

LEMMA LeastIs ==
  ASSUME NEW S \in SUBSET Nat, S # {}
  PROVE  Least(S) \in S /\ \A j \in S : Least(S) <= j
<1>1. PICK i \in S : \A j \in S : ~ (<<j, i>> \in OpToRel(<, Nat))
  BY WFMin, NatLessThanWellFounded
<1>2. ASSUME NEW j \in S PROVE i <= j
  <2>1. i \in Nat /\ j \in Nat
    OBVIOUS
  <2>2. ~ (<<j, i>> \in OpToRel(<, Nat))
    BY <1>1
  <2>3. QED
    BY <2>1, <2>2 DEF OpToRel
<1>3. QED
  BY <1>2 DEF Least

LEMMA BelowIs ==
  ASSUME NEW S \in SUBSET Nat, NEW i \in Nat
  PROVE  \A j : j \in Below(S, i) <=> j \in S /\ j \in Nat /\ j < i
<1> SUFFICES ASSUME NEW j PROVE j \in Below(S, i) <=> j \in S /\ j \in Nat /\ j < i
  OBVIOUS
<1>1. j \in S => j \in Nat
  OBVIOUS
<1>2. QED
  BY <1>1 DEF Below

LEMMA PlaceIsNumber ==
  ASSUME NEW S \in SUBSET Nat, IsFiniteSet(S), NEW i
  PROVE  IsFiniteSet(Below(S, i)) /\ Place(S, i) \in Nat /\ Place(S, i) <= Cardinality(S)
BY FS_Subset, FS_CardinalityType DEF Below, Place

\* A larger element has a later place.
LEMMA PlaceGrows ==
  ASSUME NEW S \in SUBSET Nat, IsFiniteSet(S), NEW i \in S, NEW j \in Nat, i < j
  PROVE  Place(S, i) < Place(S, j)
<1>1. /\ IsFiniteSet(Below(S, i)) /\ IsFiniteSet(Below(S, j))
      /\ Place(S, i) \in Nat /\ Place(S, j) \in Nat
  BY PlaceIsNumber
<1>2. i \notin Below(S, i) /\ Below(S, i) \cup {i} \subseteq Below(S, j)
  <2>1. i \in Nat
    OBVIOUS
  <2>2. \A h \in Nat : h < i => h < j
    BY <2>1
  <2>3. QED
    BY <2>1, <2>2, BelowIs
<1>3. /\ IsFiniteSet(Below(S, i) \cup {i})
      /\ Cardinality(Below(S, i) \cup {i}) = Place(S, i) + 1
  BY <1>1, <1>2, FS_AddElement DEF Place
<1>4. Cardinality(Below(S, i) \cup {i}) <= Place(S, j)
  BY <1>1, <1>2, FS_Subset DEF Place
<1>5. QED
  BY <1>1, <1>3, <1>4

LEMMA PlaceIsOwn ==
  ASSUME NEW S \in SUBSET Nat, IsFiniteSet(S), NEW i \in S, NEW j \in S, Place(S, i) = Place(S, j)
  PROVE  i = j
<1>1. Place(S, i) \in Nat /\ Place(S, j) \in Nat
  BY PlaceIsNumber
<1>2. CASE i < j
  BY <1>1, <1>2, PlaceGrows
<1>3. CASE j < i
  BY <1>1, <1>3, PlaceGrows
<1>4. QED
  BY <1>2, <1>3

LEMMA PlaceInSet ==
  ASSUME NEW S \in SUBSET Nat, IsFiniteSet(S), NEW i \in S
  PROVE  Place(S, i) < Cardinality(S)
<1>1. i \notin Below(S, i) /\ Below(S, i) \cup {i} \subseteq S
  BY DEF Below
<1>2. IsFiniteSet(Below(S, i)) /\ Place(S, i) \in Nat /\ Cardinality(S) \in Nat
  BY PlaceIsNumber, FS_CardinalityType
<1>3. /\ IsFiniteSet(Below(S, i) \cup {i})
      /\ Cardinality(Below(S, i) \cup {i}) = Place(S, i) + 1
  BY <1>1, <1>2, FS_AddElement DEF Place
<1>4. Cardinality(Below(S, i) \cup {i}) <= Cardinality(S)
  BY <1>1, FS_Subset
<1>5. QED
  BY <1>2, <1>3, <1>4

\* Every finite set of numbers with an element has a largest one.
LEMMA LargestExists ==
  ASSUME NEW S \in SUBSET Nat, IsFiniteSet(S), S # {}
  PROVE  \E i \in S : \A j \in S : j <= i
<1> DEFINE R == {Cardinality(S) - Place(S, i) : i \in S}
<1>1. R \in SUBSET Nat /\ R # {}
  <2>1. \A i \in S : Place(S, i) \in Nat /\ Place(S, i) <= Cardinality(S)
    BY PlaceIsNumber
  <2>2. Cardinality(S) \in Nat
    BY FS_CardinalityType
  <2>3. \A i \in S : Cardinality(S) - Place(S, i) \in Nat
    BY <2>1, <2>2
  <2>4. QED
    BY <2>3
<1>2. PICK r \in R : \A s \in R : r <= s
  <2> HIDE DEF R
  <2>1. QED
    BY <1>1, LeastIs
<1>3. PICK i \in S : r = Cardinality(S) - Place(S, i)
  OBVIOUS
<1>4. ASSUME NEW j \in S, i < j PROVE FALSE
  <2>1. Place(S, i) < Place(S, j) /\ Place(S, i) \in Nat /\ Place(S, j) \in Nat
    BY <1>4, PlaceGrows, PlaceIsNumber
  <2>2. Cardinality(S) - Place(S, i) <= Cardinality(S) - Place(S, j)
    BY <1>2, <1>3
  <2>3. Cardinality(S) \in Nat
    BY FS_CardinalityType
  <2>4. QED
    BY <2>1, <2>2, <2>3
<1>5. QED
  BY <1>4

\* Every place before the end is taken.
LEMMA PlaceIsTaken ==
  ASSUME NEW S \in SUBSET Nat, IsFiniteSet(S), NEW k \in Nat, k < Cardinality(S)
  PROVE  \E i \in S : Place(S, i) = k
<1> DEFINE L == {i \in S : Place(S, i) >= k}
<1>1. L # {}
  <2>1. S # {} /\ Cardinality(S) \in Nat
    BY FS_EmptySet, FS_CardinalityType
  <2>2. PICK m \in S : \A j \in S : j <= m
    BY <2>1, LargestExists
  <2>3. Below(S, m) = S \ {m}
    <3>1. \A j \in S : j \in Nat /\ m \in Nat /\ j <= m
      BY <2>2
    <3>2. \A j \in S : j < m <=> j # m
      BY <3>1
    <3>3. QED
      BY <3>2 DEF Below
  <2>4. Place(S, m) = Cardinality(S) - 1
    BY <2>3, FS_RemoveElement DEF Place
  <2>5. QED
    BY <2>1, <2>4
<1>2. PICK i \in L : \A j \in L : i <= j
  <2>1. L \in SUBSET Nat
    OBVIOUS
  <2> HIDE DEF L
  <2>2. QED
    BY <1>1, <2>1, LeastIs
<1>3. IsFiniteSet(Below(S, i)) /\ Place(S, i) \in Nat /\ Below(S, i) \in SUBSET Nat
  BY PlaceIsNumber DEF Below
<1>4. CASE Place(S, i) > k
  <2>1. Below(S, i) # {}
    BY <1>3, <1>4, FS_EmptySet DEF Place
  <2>2. PICK m \in Below(S, i) : \A j \in Below(S, i) : j <= m
    BY <1>3, <2>1, LargestExists
  <2>3. Below(S, m) = Below(S, i) \ {m} /\ m \in S /\ m < i
    <3>1. m \in S /\ m \in Nat /\ i \in Nat /\ m < i
      BY <2>2, BelowIs
    <3>2. \A j \in Nat : j < m => j < i /\ j # m
      BY <3>1
    <3>3. \A j \in Nat : j <= m /\ j # m => j < m
      BY <3>1
    <3>4. QED
      BY <2>2, <3>1, <3>2, <3>3, BelowIs
  <2>4. Place(S, m) = Place(S, i) - 1
    <3>1. m \in Below(S, i)
      BY <2>2
    <3>2. PICK B \in SUBSET Nat : B = Below(S, i) /\ IsFiniteSet(B)
      BY <1>3
    <3>3. Cardinality(B \ {m}) = IF m \in B THEN Cardinality(B) - 1 ELSE Cardinality(B)
      BY <3>2, FS_RemoveElement
    <3>4. Cardinality(Below(S, i) \ {m}) = Cardinality(Below(S, i)) - 1
      BY <3>1, <3>2, <3>3
    <3>5. QED
      BY <2>3, <3>4 DEF Place
  <2>5. m \in L
    BY <1>3, <1>4, <2>3, <2>4
  <2>6. QED
    BY <1>2, <2>3, <2>5
<1>5. QED
  BY <1>2, <1>3, <1>4

\* Taking elements away moves no other back; a new one at the end moves none.
LEMMA PlaceAfterRemoval ==
  ASSUME NEW S \in SUBSET Nat, IsFiniteSet(S), NEW T \in SUBSET S, NEW i
  PROVE  Place(T, i) <= Place(S, i)
BY FS_Subset, PlaceIsNumber DEF Place, Below

LEMMA PlaceAfterAdding ==
  ASSUME NEW S \in SUBSET Nat, NEW i \in Nat, NEW a \in Nat, i < a
  PROVE  Place(S \cup {a}, i) = Place(S, i)
<1>1. Below(S \cup {a}, i) = Below(S, i)
  BY DEF Below
<1>2. QED
  BY <1>1 DEF Place

-----------------------------------------------------------------------------
(* Types *)

ItemRec == [status : Status, text : BOOLEAN]
MgrRec == [processing : BOOLEAN, stop : BOOLEAN, ctl : Runs \cup {NoRun}, recent : BOOLEAN]
RunRec == [pc : RunPhase, scope : SUBSET Items, only : BOOLEAN, next : Nat, queue : Seq(Items),
           aborted : BOOLEAN, failed : BOOLEAN, cut : BOOLEAN, calm : BOOLEAN]
WorkerRec == [pc : WorkerPhase, item : Items \cup {NoItem}, ctl : Runs \cup {NoRun}]

LEMMA TypeIs ==
  TypeOK <=> /\ listed \subseteq Items /\ stored \subseteq Items
             /\ item \in [Items -> ItemRec] /\ mgr \in MgrRec
             /\ run \in [Runs -> RunRec] /\ worker \in [Runs -> [Workers -> WorkerRec]]
             /\ saved \in [Items -> Status \cup {NoRow}]
BY DEF TypeOK, ItemRec, MgrRec, RunRec, WorkerRec

LEMMA UnusedIs ==
  /\ Unused \in RunRec
  /\ Unused.pc = "unused" /\ Unused.next = 0 /\ Unused.queue = <<>>
  /\ ~Unused.failed /\ ~Unused.aborted /\ ~Unused.cut
<1>1. <<>> \in Seq(Items) /\ {} \in SUBSET Items /\ 0 \in Nat
  OBVIOUS
<1>2. PICK q \in Seq(Items) : q = <<>>
  BY <1>1
<1>3. PICK s \in SUBSET Items : s = {}
  BY <1>1
<1>4. Unused = [pc |-> "unused", scope |-> s, only |-> FALSE, next |-> 0, queue |-> q,
                aborted |-> FALSE, failed |-> FALSE, cut |-> FALSE, calm |-> TRUE]
  BY <1>2, <1>3, Zenon DEF Unused
<1>5. Unused \in RunRec
  BY <1>4 DEF RunRec, RunPhase
<1>6. QED
  BY <1>2, <1>4, <1>5

LEMMA NthIs ==
  ASSUME listed \subseteq Items, NEW k \in Nat, k < Cardinality(listed)
  PROVE  Nth(k) \in listed /\ Nth(k) \in Items /\ Place(listed, Nth(k)) = k
<1>1. IsFiniteSet(listed) /\ listed \in SUBSET Nat
  BY FS_Subset
<1>2. \E i \in listed : Place(listed, i) = k
  BY <1>1, PlaceIsTaken
<1>3. Nth(k) = CHOOSE i \in listed : Place(listed, i) = k
  BY DEF Nth, Place, Below
<1>4. QED
  BY <1>2, <1>3

LEMMA NthOfPlace ==
  ASSUME listed \subseteq Items, NEW i \in listed
  PROVE  /\ Place(listed, i) \in Nat /\ Place(listed, i) < Cardinality(listed)
         /\ Cardinality(listed) \in Nat /\ Nth(Place(listed, i)) = i
<1>1. IsFiniteSet(listed) /\ listed \in SUBSET Nat
  BY FS_Subset
<1>2. Place(listed, i) \in Nat /\ Place(listed, i) < Cardinality(listed)
  BY <1>1, PlaceIsNumber, PlaceInSet
<1>3. Nth(Place(listed, i)) \in listed /\ Place(listed, Nth(Place(listed, i))) = Place(listed, i)
  BY <1>2, NthIs
<1>4. Nth(Place(listed, i)) = i
  <2>1. PICK j \in listed : j = Nth(Place(listed, i))
    BY <1>3
  <2>2. Place(listed, j) = Place(listed, i)
    BY <1>3, <2>1
  <2>3. QED
    BY <1>1, <2>1, <2>2, PlaceIsOwn
<1>5. Cardinality(listed) \in Nat
  BY <1>1, FS_CardinalityType
<1>6. QED
  BY <1>2, <1>4, <1>5

\* What is queued on the way: the listed files of these places that have text,
\* each once.
LEMMA PassedIs ==
  ASSUME listed \subseteq Items, NEW n \in Runs, NEW from \in Nat, NEW to \in Nat,
         to <= Cardinality(listed)
  PROVE  /\ Passed(n, from, to) \in Seq(Items)
         /\ run[n].only => Passed(n, from, to) = <<>>
         /\ \A m \in DOMAIN Passed(n, from, to) :
              LET i == Passed(n, from, to)[m] IN
              i \in listed /\ from <= Place(listed, i) /\ Place(listed, i) < to
         /\ \A m, l \in DOMAIN Passed(n, from, to) :
              Passed(n, from, to)[m] = Passed(n, from, to)[l] => m = l
         /\ ~run[n].only => \A i \in listed :
              item[i].text /\ from <= Place(listed, i) /\ Place(listed, i) < to
                => \E m \in DOMAIN Passed(n, from, to) : Passed(n, from, to)[m] = i
<1> DEFINE K == {j \in from .. to - 1 : item[Nth(j)].text}
           nth(m) == CHOOSE j \in K : Cardinality({h \in K : h < j}) = m - 1
           P == Passed(n, from, to)
<1>1. K \in SUBSET Nat /\ IsFiniteSet(K) /\ Cardinality(K) \in Nat
  <2>1. from .. to - 1 \in SUBSET Nat
    OBVIOUS
  <2>2. IsFiniteSet(from .. to - 1)
    BY FS_Interval
  <2>3. K \in SUBSET (from .. to - 1)
    OBVIOUS
  <2> HIDE DEF K
  <2>4. IsFiniteSet(K)
    BY <2>2, <2>3, FS_Subset
  <2>5. QED
    BY <2>1, <2>3, <2>4, FS_CardinalityType
<1>2. Cardinality(listed) \in Nat
  <2>1. IsFiniteSet(listed)
    BY FS_Subset
  <2>2. QED
    BY <2>1, FS_CardinalityType
<1>3. \A j \in K : j \in Nat /\ from <= j /\ j < to /\ item[Nth(j)].text
  OBVIOUS
<1>4. \A j \in K : Nth(j) \in listed /\ Nth(j) \in Items /\ Place(listed, Nth(j)) = j
  <2>1. \A j \in K : j \in Nat /\ j < Cardinality(listed)
    BY <1>2, <1>3
  <2> HIDE DEF K
  <2>2. QED
    BY <2>1, NthIs
<1>5. P = IF run[n].only THEN <<>> ELSE [m \in 1 .. Cardinality(K) |-> Nth(nth(m))]
  BY DEF Passed
<1>6. ASSUME NEW m \in 1 .. Cardinality(K) PROVE nth(m) \in K /\ Place(K, nth(m)) = m - 1
  <2>1. m - 1 \in Nat /\ m - 1 < Cardinality(K)
    BY <1>1, <1>6
  <2>2. nth(m) = CHOOSE j \in K : Place(K, j) = m - 1
    BY DEF Place, Below
  <2> HIDE DEF K, nth
  <2>3. \E j \in K : Place(K, j) = m - 1
    BY <1>1, <2>1, PlaceIsTaken
  <2>4. QED
    BY <2>2, <2>3
<1> HIDE DEF K, nth, P
<1>7. CASE run[n].only
  BY <1>5, <1>7 DEF P
<1>8. CASE ~run[n].only
  <2>1. P = [m \in 1 .. Cardinality(K) |-> Nth(nth(m))]
    BY <1>5, <1>8
  <2>2. \A m \in 1 .. Cardinality(K) : P[m] = Nth(nth(m)) /\ P[m] \in Items
    BY <1>4, <1>6, <2>1
  <2>3. DOMAIN P = 1 .. Cardinality(K) /\ P \in Seq(Items)
    BY <1>1, <2>1, <2>2
  <2>4. ASSUME NEW m \in DOMAIN P
        PROVE  P[m] \in listed /\ from <= Place(listed, P[m]) /\ Place(listed, P[m]) < to
    BY <1>3, <1>4, <1>6, <2>2, <2>3
  <2>5. ASSUME NEW m \in DOMAIN P, NEW l \in DOMAIN P, P[m] = P[l] PROVE m = l
    <3>1. m \in 1 .. Cardinality(K) /\ l \in 1 .. Cardinality(K) /\ m \in Int /\ l \in Int
      BY <2>3
    <3>2. nth(m) = nth(l)
      BY <1>4, <1>6, <2>2, <2>5, <3>1
    <3>3. QED
      BY <1>6, <3>1, <3>2
  <2>6. ASSUME NEW i \in listed, item[i].text, from <= Place(listed, i), Place(listed, i) < to
        PROVE  \E m \in DOMAIN P : P[m] = i
    <3>1. Place(listed, i) \in Nat /\ Nth(Place(listed, i)) = i
      BY NthOfPlace
    <3>2. Place(listed, i) \in K
      BY <2>6, <3>1 DEF K
    <3>3. PICK j \in K : Nth(j) = i
      BY <3>1, <3>2
    <3>4. Place(K, j) \in Nat /\ Place(K, j) < Cardinality(K)
      BY <1>1, PlaceIsNumber, PlaceInSet
    <3>5. Place(K, j) + 1 \in 1 .. Cardinality(K) /\ (Place(K, j) + 1) - 1 = Place(K, j)
      BY <1>1, <3>4
    <3>6. nth(Place(K, j) + 1) = j
      <4>1. PICK h \in K : h = nth(Place(K, j) + 1)
        BY <1>6, <3>5
      <4>2. Place(K, h) = Place(K, j)
        BY <1>6, <3>5, <4>1
      <4>3. QED
        BY <1>1, <4>1, <4>2, PlaceIsOwn
    <3>7. QED
      BY <2>2, <2>3, <3>3, <3>5, <3>6
  <2>7. QED
    BY <1>8, <2>3, <2>4, <2>5, <2>6 DEF P
<1>9. QED
  BY <1>7, <1>8

-----------------------------------------------------------------------------
(* What the user's clicks do to the runs *)

SameRun(new, old) ==
  /\ new.pc = old.pc /\ new.scope = old.scope /\ new.only = old.only
  /\ new.next = old.next /\ new.queue = old.queue /\ new.failed = old.failed

LEMMA StirredKeeps ==
  ASSUME NEW r \in [Runs -> RunRec]
  PROVE  /\ Stirred(r) \in [Runs -> RunRec]
         /\ \A n \in Runs : /\ SameRun(Stirred(r)[n], r[n]) /\ Stirred(r)[n].cut = r[n].cut
                            /\ Stirred(r)[n].calm => ~Live(n)
<1>1. ASSUME NEW n \in Runs
      PROVE  /\ Stirred(r)[n] \in RunRec
             /\ SameRun(Stirred(r)[n], r[n]) /\ Stirred(r)[n].cut = r[n].cut
             /\ Stirred(r)[n].calm => ~Live(n)
  <2>1. PICK a \in RunRec : a = r[n]
    OBVIOUS
  <2> DEFINE b == [a EXCEPT !.calm = FALSE]
  <2>2. b \in RunRec /\ SameRun(b, a) /\ b.cut = a.cut /\ ~b.calm
    BY DEF RunRec, SameRun
  <2>3. Stirred(r)[n] = IF Live(n) THEN b ELSE a
    BY <2>1 DEF Stirred
  <2> HIDE DEF b
  <2>4. CASE Live(n)
    BY <2>1, <2>2, <2>3, <2>4
  <2>5. CASE ~Live(n)
    BY <2>1, <2>3, <2>5 DEF SameRun
  <2>6. QED
    BY <2>4, <2>5
<1>2. Stirred(r) = [n \in Runs |-> Stirred(r)[n]]
  BY DEF Stirred
<1>3. QED
  BY <1>1, <1>2

LEMMA AbortedKeeps ==
  ASSUME TypeOK
  PROVE  /\ Aborted(run) \in [Runs -> RunRec]
         /\ \A n \in Runs : /\ SameRun(Aborted(run)[n], run[n])
                            /\ Aborted(run)[n].cut = run[n].cut
<1>0. run \in [Runs -> RunRec] /\ mgr.ctl \in Runs \cup {NoRun}
  BY TypeIs DEF MgrRec
<1>1. CASE mgr.ctl = NoRun
  BY <1>0, <1>1 DEF Aborted, SameRun
<1>2. CASE mgr.ctl \in Runs
  <2>1. PICK a \in RunRec : a = run[mgr.ctl]
    BY <1>0, <1>2
  <2> DEFINE b == [a EXCEPT !.aborted = TRUE]
  <2>2. b \in RunRec /\ SameRun(b, a) /\ b.cut = a.cut
    BY DEF RunRec, SameRun
  <2>3. Aborted(run) = [run EXCEPT ![mgr.ctl] = b]
    BY <1>2, <2>1 DEF Aborted
  <2> HIDE DEF b
  <2>4. QED
    BY <1>0, <1>2, <2>1, <2>2, <2>3 DEF SameRun
<1>3. QED
  BY <1>0, <1>1, <1>2

LEMMA CutKeeps ==
  ASSUME TypeOK
  PROVE  /\ Cut(run) \in [Runs -> RunRec]
         /\ \A n \in Runs : /\ SameRun(Cut(run)[n], run[n])
                            /\ run[n].cut \/ n = mgr.ctl => Cut(run)[n].cut
<1>0. run \in [Runs -> RunRec] /\ mgr.ctl \in Runs \cup {NoRun}
  BY TypeIs DEF MgrRec
<1>1. CASE mgr.ctl = NoRun
  BY <1>0, <1>1 DEF Cut, SameRun
<1>2. CASE mgr.ctl \in Runs
  <2>1. PICK a \in RunRec : a = run[mgr.ctl]
    BY <1>0, <1>2
  <2> DEFINE b == [a EXCEPT !.aborted = TRUE, !.cut = TRUE]
  <2>2. b \in RunRec /\ SameRun(b, a) /\ b.cut
    BY DEF RunRec, SameRun
  <2>3. Cut(run) = [run EXCEPT ![mgr.ctl] = b]
    BY <1>2, <2>1 DEF Cut
  <2> HIDE DEF b
  <2>4. QED
    BY <1>0, <1>2, <2>1, <2>2, <2>3 DEF SameRun
<1>3. QED
  BY <1>0, <1>1, <1>2

\* Every run is as it was, but stirred.
Stirs ==
  \A n \in Runs : /\ SameRun(run'[n], run[n])
                  /\ run[n].cut => run'[n].cut
                  /\ run'[n].calm => ~Live(n)
\* Run n begins.
Begins(n) ==
  /\ run[n].pc = "unused" /\ ~mgr.processing
  /\ mgr'.processing /\ mgr'.ctl = n /\ ~mgr'.stop
  /\ run'[n].pc = "setup" /\ run'[n].next = 0 /\ run'[n].queue = <<>>
  /\ ~run'[n].failed /\ ~run'[n].aborted
  /\ run'[n].calm => \A m \in Runs : ~Live(m) /\ ~AtWork(m)
  /\ \A m \in Runs \ {n} : /\ SameRun(run'[m], run[m])
                           /\ run[m].cut => run'[m].cut
                           /\ run'[m].calm => ~Live(m)
FlagsStay == mgr'.ctl = mgr.ctl /\ mgr'.processing = mgr.processing
FlagsReset == mgr'.ctl = NoRun /\ ~mgr'.processing
CutsOff == mgr.ctl # NoRun => run'[mgr.ctl].cut

ClickMoves ==
  \/ run' = run /\ mgr' = mgr /\ ~mgr.processing
  \/ Stirs /\ FlagsStay
  \/ Stirs /\ FlagsReset /\ CutsOff
  \/ \E n \in Runs : Begins(n)

LEMMA StartRunMoves ==
  ASSUME TypeOK, NEW scope \in SUBSET Items, NEW only \in BOOLEAN, StartRun(scope, only, run)
  PROVE  run' \in [Runs -> RunRec] /\ mgr' \in MgrRec /\ ClickMoves
<1>0. run \in [Runs -> RunRec] /\ mgr \in MgrRec
  BY TypeIs
<1>1. CASE mgr.processing
  BY <1>0, <1>1, StirredKeeps DEF StartRun, ClickMoves, Stirs, FlagsStay
<1>2. CASE ~mgr.processing
  <2>1. PICK n \in Runs :
          /\ run[n].pc = "unused"
          /\ run' = [Stirred(run) EXCEPT ![n] =
               [Unused EXCEPT !.pc = "setup", !.scope = scope, !.only = only,
                              !.calm = \A m \in Runs : ~Live(m) /\ ~AtWork(m)]]
          /\ mgr' = [mgr EXCEPT !.processing = TRUE, !.stop = FALSE, !.ctl = n]
    BY <1>2 DEF StartRun
  <2>2. mgr' \in MgrRec /\ mgr'.processing /\ mgr'.ctl = n /\ ~mgr'.stop
    BY <1>0, <2>1 DEF MgrRec
  <2>3. PICK calm \in BOOLEAN : calm = (\A m \in Runs : ~Live(m) /\ ~AtWork(m))
    OBVIOUS
  <2>4. PICK u \in RunRec : u = Unused
    BY UnusedIs
  <2> DEFINE b == [u EXCEPT !.pc = "setup", !.scope = scope, !.only = only, !.calm = calm]
  <2>5. run' = [Stirred(run) EXCEPT ![n] = b]
    BY <2>1, <2>3, <2>4
  <2>99. /\ u.next = 0 /\ u.queue = <<>> /\ ~u.failed /\ ~u.aborted
    BY <2>4, UnusedIs
  <2>10. /\ b \in RunRec
         /\ b.pc = "setup" /\ b.next = 0 /\ b.queue = <<>> /\ ~b.failed /\ ~b.aborted
         /\ b.calm = calm
    BY <2>99 DEF RunRec, RunPhase
  <2>6. Begins(n)
    <3>1. \A m \in Runs :
            /\ SameRun(Stirred(run)[m], run[m])
            /\ Stirred(run)[m].cut = run[m].cut
            /\ Stirred(run)[m].calm => ~Live(m)
      BY <1>0, StirredKeeps
    <3>2. run'[n] = b /\ \A m \in Runs \ {n} : run'[m] = Stirred(run)[m]
      BY <1>0, <2>5, StirredKeeps
    <3>3. /\ b.pc = "setup" /\ b.next = 0 /\ b.queue = <<>> /\ ~b.failed /\ ~b.aborted
          /\ b.calm => \A m \in Runs : ~Live(m) /\ ~AtWork(m)
      BY <2>3, <2>10
    <3> HIDE DEF b
    <3>4. QED
      BY <1>2, <2>1, <2>2, <3>1, <3>2, <3>3 DEF Begins
  <2>7. run' \in [Runs -> RunRec]
    <3> HIDE DEF b
    <3>1. QED
      BY <1>0, <2>5, <2>10, StirredKeeps
  <2>8. QED
    BY <2>2, <2>6, <2>7 DEF ClickMoves
<1>3. QED
  BY <1>1, <1>2

ClickStep ==
  \/ \E i \in Items : Remove(i) \/ Sorted(i)
  \/ \E i \in Items, again, only \in BOOLEAN : Reprocess(i, again, only)
  \/ Clear \/ ResetToQueued \/ Stop \/ StopAgain \/ ForceReset \/ Start

LEMMA ClicksMove ==
  ASSUME TypeOK, ClickStep
  PROVE  /\ run' \in [Runs -> RunRec] /\ mgr' \in MgrRec /\ worker' = worker
         /\ ClickMoves
<1>0. run \in [Runs -> RunRec] /\ mgr \in MgrRec
  BY TypeIs
<1>1. ASSUME NEW S, RemoveItems(S)
      PROVE  run' \in [Runs -> RunRec] /\ mgr' \in MgrRec /\ worker' = worker /\ ClickMoves
  BY <1>0, <1>1, StirredKeeps DEF RemoveItems, ClickMoves, Stirs, FlagsStay
<1>2. ASSUME NEW i \in Items, Sorted(i)
      PROVE  run' \in [Runs -> RunRec] /\ mgr' \in MgrRec /\ worker' = worker /\ ClickMoves
  BY <1>0, <1>2, StirredKeeps DEF Sorted, ClickMoves, Stirs, FlagsStay
<1>3. ASSUME NEW i \in Items, NEW again \in BOOLEAN, NEW only \in BOOLEAN,
             Reprocess(i, again, only)
      PROVE  run' \in [Runs -> RunRec] /\ mgr' \in MgrRec /\ worker' = worker /\ ClickMoves
  <2>1. {i} \in SUBSET Items /\ StartRun({i}, only, run) /\ worker' = worker
    BY <1>3 DEF Reprocess
  <2>2. QED
    BY <2>1, StartRunMoves
<1>4. CASE ResetToQueued \/ Start
  <2>1. worker' = worker
    BY <1>4 DEF ResetToQueued, Start
  <2>2. CASE run' = run /\ mgr' = mgr /\ ~mgr.processing
    BY <1>0, <2>1, <2>2 DEF ClickMoves
  <2>3. CASE \E only \in BOOLEAN : StartRun(Items, only, run)
    <3>1. Items \in SUBSET Items
      OBVIOUS
    <3>2. QED
      BY <2>1, <2>3, <3>1, StartRunMoves
  <2>4. StartRun(Items, FALSE, run) => \E only \in BOOLEAN : StartRun(Items, only, run)
    OBVIOUS
  <2>5. QED
    BY <1>4, <2>2, <2>3, <2>4 DEF ResetToQueued, Start
<1>5. CASE Stop
  <2>1. Aborted(run) \in [Runs -> RunRec] /\ run' = Stirred(Aborted(run)) /\ worker' = worker
    BY <1>5, AbortedKeeps DEF Stop
  <2>2. run' \in [Runs -> RunRec] /\ Stirs
    BY <2>1, AbortedKeeps, StirredKeeps DEF Stirs, SameRun
  <2>3. mgr' \in MgrRec /\ FlagsStay
    BY <1>0, <1>5 DEF Stop, MgrRec, FlagsStay
  <2>4. QED
    BY <2>1, <2>2, <2>3 DEF ClickMoves
<1>6. CASE StopAgain \/ ForceReset
  <2>1. Cut(run) \in [Runs -> RunRec] /\ run' = Stirred(Cut(run)) /\ worker' = worker
    BY <1>6, CutKeeps DEF StopAgain, ForceReset
  <2>2. run' \in [Runs -> RunRec] /\ Stirs
    BY <2>1, CutKeeps, StirredKeeps DEF Stirs, SameRun
  <2>3. mgr' \in MgrRec /\ FlagsReset
    BY <1>0, <1>6 DEF StopAgain, ForceReset, NoneProcessing, MgrRec, FlagsReset
  <2>4. CutsOff
    BY <1>0, <2>1, CutKeeps, StirredKeeps DEF CutsOff, MgrRec
  <2>5. QED
    BY <2>1, <2>2, <2>3, <2>4 DEF ClickMoves
<1>7. QED
  BY <1>1, <1>2, <1>3, <1>4, <1>5, <1>6 DEF ClickStep, Remove, Clear

-----------------------------------------------------------------------------
(* The inductive invariant *)

Holding == {"looking", "extracting", "analyzing"}
Holds(n, w) == worker[n][w].pc \in Holding
Queued(n, i) == \E k \in DOMAIN run[n].queue : run[n].queue[k] = i
InRun(n, i) == Queued(n, i) \/ \E w \in Workers : Holds(n, w) /\ Held(n, w) = i

\* Only a worker that is at a file has one.
HoldsWhat == \A n \in Runs, w \in Workers : worker[n][w].item \in Items <=> Holds(n, w)

\* The flags belong to one run that is on; a run without them was cut off or failed.
Flags ==
  /\ mgr.processing <=> mgr.ctl # NoRun
  /\ mgr.ctl # NoRun => run[mgr.ctl].pc \in {"setup", "running"}
  /\ \A n \in Runs :
       /\ run[n].pc \in {"unused", "setup", "running"} => ~run[n].failed
       /\ AtWork(n) => run[n].pc = "running" \/ run[n].failed
       /\ run[n].pc \in {"setup", "running"} \/ AtWork(n)
            => run[n].cut \/ run[n].failed \/ mgr.ctl = n

\* What the workers of a run hold and what its queue holds are different files,
\* and the shared index is past them.
HandsOf(n) ==
  /\ \A v, w \in Workers : Holds(n, v) /\ Holds(n, w) /\ Held(n, v) = Held(n, w) => v = w
  /\ \A k, l \in DOMAIN run[n].queue : run[n].queue[k] = run[n].queue[l] => k = l
  /\ \A w \in Workers : Holds(n, w) => ~Queued(n, Held(n, w))
  /\ \A i \in listed : InRun(n, i) => Place(listed, i) < run[n].next
Hands == \A n \in Runs : HandsOf(n)

\* Files that were never added have the largest ids; what was removed is gone.
Rows ==
  /\ free \subseteq Items
  /\ \A i \in Items :
       /\ i \in listed \/ saved[i] # NoRow \/ i \in free => item[i].status # "new"
       /\ \A n \in Runs : InRun(n, i) => item[i].status # "new" /\ i \notin free
       /\ saved[i] # "new"
       /\ i \in free => i \notin listed /\ saved[i] = NoRow
       /\ item[i].status = "new" => ~item[i].text /\ \A j \in Items : i < j => item[j].status = "new"

\* What differs from its row is in a run that has yet to save, or its save failed.
Dirty ==
  \A i \in listed : \/ i \in lost \/ saved[i] = item[i].status
                    \/ \E n \in Runs : run[n].pc = "running" \/ run[n].failed

Fresh == \A n \in Runs : run[n].pc = "setup" => run[n].next = 0 /\ run[n].queue = <<>>

Settled(i) ==
  \/ item[i].status \in {"review", "done", "error", "unfinished"}
  \/ item[i].status = "queued" /\ ~item[i].text
\* The extraction workers have yet to come to i.
Ahead(n, i) ==
  /\ run[n].next <= Place(listed, i) /\ item[i].status = "queued"
  /\ \A w \in Extractors : worker[n][w].pc # "exited"

Alone(n) ==
  /\ mgr.ctl = n /\ ~mgr.stop /\ ~run[n].aborted
  /\ \A m \in Runs \ {n} : ~Live(m) /\ ~AtWork(m)

Followed(n) ==
  \A i \in listed \cap run[n].scope :
    /\ InRun(n, i) \/ Settled(i) \/ Ahead(n, i)
    /\ Queued(n, i) => item[i].status \notin {"extracting", "analyzing"}

CalmRun(n) ==
  /\ \A w \in Workers : worker[n][w].pc = "analyzing" => worker[n][w].ctl = n
  /\ run[n].only => run[n].queue = <<>> /\ \A w \in Analysts : worker[n][w].pc = "exited"
  /\ ~run[n].only /\ (\E w \in Analysts : worker[n][w].pc = "exited")
       => run[n].queue = <<>> /\ ExtractorsDone(n)
  /\ ~Rejected(n) => Followed(n)

\* In a run that nobody disturbed no file of its scope is forgotten.
Calm ==
  \A n \in Runs : run[n].calm =>
    /\ run[n].pc \in {"setup", "running"} => Alone(n)
    /\ run[n].pc = "running" => CalmRun(n)

IInv == TypeOK /\ HoldsWhat /\ Flags /\ Hands /\ Rows /\ Dirty /\ Fresh /\ Calm

LEMMA IInvIsEnough ==
  ASSUME IInv
  PROVE  BatchInv /\ FlagTellsTheTruth /\ QuietIsSaved
<1>1. TypeOK
  BY DEF IInv
<1>2. OneWorkerPerItem
  <2> SUFFICES ASSUME NEW m \in Runs, NEW n \in Runs, NEW v \in Workers, NEW w \in Workers,
                      <<m, v>> # <<n, w>>, Holds(m, v), Holds(n, w), Held(m, v) = Held(n, w)
               PROVE  m # n /\ \E r \in {m, n} : run[r].cut \/ run[r].failed
    BY DEF OneWorkerPerItem, Holds, Holding
  <2>1. m # n
    BY DEF IInv, Hands, HandsOf
  <2>2. AtWork(m) /\ AtWork(n)
    BY DEF AtWork, Busy, Holds, Holding
  <2>3. (mgr.ctl # m \/ mgr.ctl # n) /\ Flags
    BY <2>1 DEF IInv
  <2>4. QED
    BY <2>1, <2>2, <2>3 DEF Flags
<1>3. RemovedStaysGone
  BY DEF IInv, Rows, RemovedStaysGone
<1>4. FlagTellsTheTruth
  <2> SUFFICES ASSUME \A n \in Runs : ~run[n].cut /\ ~run[n].failed, NEW n \in Runs
               PROVE  /\ run[n].pc \in {"setup", "running"} <=> mgr.processing /\ mgr.ctl = n
                      /\ AtWork(n) => run[n].pc = "running"
    BY DEF FlagTellsTheTruth
  <2>1. Flags
    BY DEF IInv
  <2>2. QED
    BY <2>1 DEF Flags
<1>5. QuietIsSaved
  BY DEF IInv, Dirty, QuietIsSaved, Live
<1>6. QED
  BY <1>1, <1>2, <1>3, <1>4, <1>5 DEF BatchInv

-----------------------------------------------------------------------------
(* The flags and the hands, kept by the clicks *)

LEMMA UnusedIsIdle ==
  ASSUME Flags, NEW n \in Runs, run[n].pc = "unused"
  PROVE  ~AtWork(n) /\ ~run[n].failed
BY DEF Flags

LEMMA ClicksKeepFlags ==
  ASSUME TypeOK, HoldsWhat, Flags, Fresh, ClickMoves,
         run' \in [Runs -> RunRec], mgr' \in MgrRec, worker' = worker
  PROVE  HoldsWhat' /\ Flags' /\ Fresh'
<1>0. mgr.ctl \in Runs \cup {NoRun}
  BY TypeIs DEF MgrRec
<1>1. HoldsWhat' /\ \A m \in Runs : AtWork(m)' <=> AtWork(m)
  BY DEF HoldsWhat, Holds, AtWork, Busy
<1>2. CASE run' = run /\ mgr' = mgr /\ ~mgr.processing
  BY <1>1, <1>2 DEF Flags, Fresh
<1>3. CASE Stirs /\ FlagsStay
  BY <1>0, <1>1, <1>3 DEF Stirs, SameRun, FlagsStay, Flags, Fresh
<1>4. CASE Stirs /\ FlagsReset /\ CutsOff
  <2>1. mgr'.processing <=> mgr'.ctl # NoRun
    BY <1>4 DEF FlagsReset
  <2>2. ASSUME NEW m \in Runs
        PROVE  /\ run'[m].pc \in {"unused", "setup", "running"} => ~run'[m].failed
               /\ AtWork(m)' => run'[m].pc = "running" \/ run'[m].failed
               /\ run'[m].pc \in {"setup", "running"} \/ AtWork(m)'
                    => run'[m].cut \/ run'[m].failed \/ mgr'.ctl = m
    <3>1. m = mgr.ctl => run'[m].cut
      BY <1>4, <2>2 DEF CutsOff
    <3>2. QED
      BY <1>1, <1>4, <2>2, <3>1 DEF Stirs, SameRun, Flags
  <2>3. mgr'.ctl = NoRun
    BY <1>4 DEF FlagsReset
  <2>4. Fresh'
    BY <1>4 DEF Stirs, SameRun, Fresh
  <2>5. QED
    BY <1>1, <2>1, <2>2, <2>3, <2>4 DEF Flags
<1>5. CASE \E n \in Runs : Begins(n)
  <2>1. PICK n \in Runs : Begins(n)
    BY <1>5
  <2>2. ~AtWork(n) /\ mgr.ctl = NoRun /\ mgr'.ctl = n /\ n # NoRun
    BY <2>1, UnusedIsIdle DEF Begins, Flags
  <2>3. ASSUME NEW m \in Runs
        PROVE  /\ run'[m].pc \in {"unused", "setup", "running"} => ~run'[m].failed
               /\ AtWork(m)' => run'[m].pc = "running" \/ run'[m].failed
               /\ run'[m].pc \in {"setup", "running"} \/ AtWork(m)'
                    => run'[m].cut \/ run'[m].failed \/ mgr'.ctl = m
               /\ run'[m].pc = "setup" => run'[m].next = 0 /\ run'[m].queue = <<>>
    <3>1. CASE m = n
      BY <1>1, <2>1, <2>2, <3>1 DEF Begins
    <3>2. CASE m # n
      BY <1>1, <2>1, <2>2, <3>2 DEF Begins, SameRun, Flags, Fresh
    <3>3. QED
      BY <3>1, <3>2
  <2>4. (mgr'.processing <=> mgr'.ctl # NoRun) /\ run'[mgr'.ctl].pc = "setup"
    BY <2>1, <2>2 DEF Begins
  <2>5. QED
    BY <1>1, <2>3, <2>4 DEF Flags, Fresh
<1>6. QED
  BY <1>2, <1>3, <1>4, <1>5 DEF ClickMoves

\* A run whose workers, queue and index are left alone.
SameHands(n) ==
  worker'[n] = worker[n] /\ run'[n].queue = run[n].queue /\ run'[n].next = run[n].next

LEMMA SameInRun ==
  ASSUME NEW n \in Runs, worker'[n] = worker[n], run'[n].queue = run[n].queue
  PROVE  /\ \A i : InRun(n, i)' <=> InRun(n, i)
         /\ \A i : Queued(n, i)' <=> Queued(n, i)
         /\ \A w \in Workers : (Holds(n, w)' <=> Holds(n, w)) /\ Held(n, w)' = Held(n, w)
<1>1. \A i : Queued(n, i)' <=> Queued(n, i)
  BY DEF Queued
<1>2. \A w \in Workers : (Holds(n, w)' <=> Holds(n, w)) /\ Held(n, w)' = Held(n, w)
  BY DEF Holds, Held
<1>3. QED
  BY <1>1, <1>2 DEF InRun

LEMMA HandsStay ==
  ASSUME NEW n \in Runs, HandsOf(n), SameHands(n), run[n].next \in Nat,
         listed \subseteq Items, listed' \subseteq Items,
         \A i \in listed' : InRun(n, i) => i \in listed /\ Place(listed', i) <= Place(listed, i)
  PROVE  HandsOf(n)'
<1>1. /\ \A i : InRun(n, i)' <=> InRun(n, i)
      /\ \A i : Queued(n, i)' <=> Queued(n, i)
      /\ \A w \in Workers : (Holds(n, w)' <=> Holds(n, w)) /\ Held(n, w)' = Held(n, w)
  BY SameInRun DEF SameHands
<1>2. \A v, w \in Workers : Holds(n, v)' /\ Holds(n, w)' /\ Held(n, v)' = Held(n, w)' => v = w
  BY <1>1 DEF HandsOf
<1>3. \A k, l \in DOMAIN run'[n].queue : run'[n].queue[k] = run'[n].queue[l] => k = l
  BY DEF HandsOf, SameHands
<1>4. \A w \in Workers : Holds(n, w)' => ~Queued(n, Held(n, w))'
  <2>1. ASSUME NEW w \in Workers, Holds(n, w)' PROVE ~Queued(n, Held(n, w))'
    <3>1. PICK h : h = Held(n, w)
      OBVIOUS
    <3>2. h = Held(n, w)' /\ ~Queued(n, h)
      BY <1>1, <2>1, <3>1 DEF HandsOf
    <3>3. ~Queued(n, h)'
      BY <1>1, <3>2
    <3>4. QED
      BY <3>2, <3>3 DEF Queued
  <2>2. QED
    BY <2>1
<1>5. ASSUME NEW i \in listed', InRun(n, i)' PROVE Place(listed', i) < run'[n].next
  <2>1. InRun(n, i)
    BY <1>1, <1>5
  <2>2. i \in listed /\ Place(listed', i) <= Place(listed, i) /\ Place(listed, i) < run[n].next
    BY <2>1 DEF HandsOf
  <2>3. IsFiniteSet(listed) /\ IsFiniteSet(listed') /\ listed \in SUBSET Nat /\ listed' \in SUBSET Nat
    BY FS_Subset
  <2>4. Place(listed, i) \in Nat /\ Place(listed', i) \in Nat
    BY <2>3, PlaceIsNumber
  <2>5. QED
    BY <2>2, <2>4 DEF SameHands
<1>6. QED
  BY <1>2, <1>3, <1>4, <1>5 DEF HandsOf

\* A run that holds nothing.
LEMMA NoHands ==
  ASSUME NEW n \in Runs, run[n].queue = <<>>, \A w \in Workers : ~Holds(n, w)
  PROVE  HandsOf(n) /\ \A i : ~InRun(n, i) /\ ~Queued(n, i)
<1>1. DOMAIN run[n].queue = {}
  BY SMT
<1>2. \A i : ~InRun(n, i) /\ ~Queued(n, i)
  BY <1>1 DEF InRun, Queued
<1>3. QED
  BY <1>1, <1>2 DEF HandsOf

LEMMA NoHandsNext ==
  ASSUME NEW n \in Runs, run'[n].queue = <<>>, \A w \in Workers : ~Holds(n, w)'
  PROVE  HandsOf(n)' /\ \A i : ~InRun(n, i)' /\ ~Queued(n, i)'
<1>1. DOMAIN run'[n].queue = {}
  BY SMT
<1>2. \A i : ~InRun(n, i)' /\ ~Queued(n, i)'
  BY <1>1 DEF InRun, Queued
<1>3. QED
  BY <1>1, <1>2 DEF HandsOf

\* No click puts a file into a run.
LEMMA ClicksKeepHands ==
  ASSUME TypeOK, HoldsWhat, Flags, Hands, ClickMoves,
         run' \in [Runs -> RunRec], worker' = worker, listed' \subseteq listed
  PROVE  /\ Hands'
         /\ \A n \in Runs : \A i : InRun(n, i)' => InRun(n, i)
         /\ \A n \in Runs : run[n].pc = "running" \/ run[n].failed
                              => run'[n].pc = "running" \/ run'[n].failed
<1>0. /\ listed \subseteq Items /\ listed' \subseteq Items /\ IsFiniteSet(listed)
      /\ listed \in SUBSET Nat /\ listed' \in SUBSET listed
      /\ \A n \in Runs : run[n].next \in Nat
  <2>1. listed \subseteq Items /\ \A n \in Runs : run[n] \in RunRec
    BY TypeIs
  <2>2. IsFiniteSet(listed) /\ listed \in SUBSET Nat
    BY <2>1, FS_Subset
  <2>3. QED
    BY <2>1, <2>2 DEF RunRec
<1>1. \A i \in listed' : i \in listed /\ Place(listed', i) <= Place(listed, i)
  BY <1>0, PlaceAfterRemoval
<1>2. ASSUME NEW n \in Runs, SameRun(run'[n], run[n])
      PROVE  /\ HandsOf(n)' /\ \A i : InRun(n, i)' => InRun(n, i)
             /\ run[n].pc = "running" \/ run[n].failed
                  => run'[n].pc = "running" \/ run'[n].failed
  <2>1. SameHands(n) /\ HandsOf(n)
    BY <1>2 DEF SameRun, SameHands, Hands
  <2>2. HandsOf(n)'
    BY <1>0, <1>1, <2>1, HandsStay
  <2>3. \A i : InRun(n, i)' => InRun(n, i)
    BY <2>1, SameInRun DEF SameHands
  <2>4. QED
    BY <1>2, <2>2, <2>3 DEF SameRun
<1>3. ASSUME NEW n \in Runs, Begins(n)
      PROVE  /\ HandsOf(n)' /\ \A i : InRun(n, i)' => InRun(n, i)
             /\ run[n].pc = "running" \/ run[n].failed
                  => run'[n].pc = "running" \/ run'[n].failed
  <2>1. ~AtWork(n) /\ run[n].pc = "unused" /\ ~run[n].failed /\ run'[n].queue = <<>>
    BY <1>3, UnusedIsIdle DEF Begins
  <2>2. \A w \in Workers : ~Holds(n, w)'
    BY <2>1 DEF AtWork, Busy, Holds, Holding
  <2>3. HandsOf(n)' /\ \A i : ~InRun(n, i)'
    BY <2>1, <2>2, NoHandsNext
  <2>4. QED
    BY <2>1, <2>3
<1>4. \A n \in Runs : SameRun(run'[n], run[n]) \/ Begins(n)
  <2>1. CASE run' = run
    BY <2>1 DEF SameRun
  <2>2. CASE Stirs
    BY <2>2 DEF Stirs
  <2>3. CASE \E m \in Runs : Begins(m)
    BY <2>3 DEF Begins
  <2>4. QED
    BY <2>1, <2>2, <2>3 DEF ClickMoves
<1>5. QED
  BY <1>2, <1>3, <1>4 DEF Hands

LEMMA ClicksKeepCalm ==
  ASSUME TypeOK, Flags, Calm, ClickMoves, worker' = worker
  PROVE  Calm'
<1>1. CASE run' = run /\ mgr' = mgr /\ ~mgr.processing
  <2>1. mgr.ctl = NoRun
    BY <1>1 DEF Flags
  <2>2. \A n \in Runs : run[n].calm => run[n].pc \notin {"setup", "running"}
    BY <2>1 DEF Calm, Alone
  <2>3. QED
    BY <1>1, <2>2 DEF Calm
<1>2. CASE Stirs
  <2>1. \A n \in Runs : run'[n].calm => run'[n].pc \notin {"setup", "running"}
    BY <1>2 DEF Stirs, SameRun, Live
  <2>2. QED
    BY <2>1 DEF Calm
<1>3. CASE \E n \in Runs : Begins(n)
  <2>1. PICK n \in Runs : Begins(n)
    BY <1>3
  <2>2. \A m \in Runs : m # n /\ run'[m].calm => run'[m].pc \notin {"setup", "running"}
    BY <2>1 DEF Begins, SameRun, Live
  <2>3. run'[n].calm => Alone(n)'
    <3>1. ASSUME run'[n].calm, NEW m \in Runs, m # n PROVE ~Live(m)' /\ ~AtWork(m)'
      <4>1. ~Live(m) /\ ~AtWork(m) /\ run'[m].pc = run[m].pc
        BY <2>1, <3>1 DEF Begins, SameRun
      <4>2. QED
        BY <4>1 DEF Live, AtWork, Busy
    <3>2. mgr'.ctl = n /\ ~mgr'.stop /\ ~run'[n].aborted
      BY <2>1 DEF Begins
    <3>3. QED
      BY <3>1, <3>2 DEF Alone
  <2>4. run'[n].pc = "setup"
    BY <2>1 DEF Begins
  <2>5. QED
    BY <2>2, <2>3, <2>4 DEF Calm
<1>4. QED
  BY <1>1, <1>2, <1>3 DEF ClickMoves

-----------------------------------------------------------------------------
(* Statuses, texts and rows *)

LEMMA StatusIs ==
  ASSUME item \in [Items -> ItemRec], NEW S, NEW s \in Status, SetStatus(S, s)
  PROVE  /\ item' \in [Items -> ItemRec]
         /\ \A i \in Items : /\ i \notin S => item'[i] = item[i]
                             /\ i \in S => item'[i].status = s
                             /\ item'[i].text = item[i].text
<1>1. ASSUME NEW i \in Items
      PROVE  /\ item'[i] \in ItemRec /\ item'[i].text = item[i].text
             /\ i \notin S => item'[i] = item[i]
             /\ i \in S => item'[i].status = s
  <2>1. PICK r \in ItemRec : r = item[i]
    OBVIOUS
  <2> DEFINE q == [r EXCEPT !.status = s]
  <2>2. q \in ItemRec /\ q.status = s /\ q.text = r.text
    BY DEF ItemRec
  <2>3. item'[i] = IF i \in S THEN q ELSE r
    BY <2>1 DEF SetStatus
  <2> HIDE DEF q
  <2>4. QED
    BY <2>1, <2>2, <2>3
<1>2. item' = [i \in Items |-> item'[i]]
  BY DEF SetStatus
<1>3. QED
  BY <1>1, <1>2

\* What a step does to the rows that saves the files S.
Saves(S) ==
  /\ saved' \in [Items -> Status \cup {NoRow}]
  /\ \A i \in Items : /\ i \in S => i \in lost' \/ saved'[i] = item'[i].status
                      /\ i \in S => saved'[i] = saved[i] \/ saved'[i] = item'[i].status
                      /\ i \notin S => saved'[i] = saved[i] /\ (i \in lost => i \in lost')

LEMMA SavedSaves ==
  ASSUME saved \in [Items -> Status \cup {NoRow}], item' \in [Items -> ItemRec], NEW S, Saved(S)
  PROVE  Saves(S)
<1>1. CASE Written(S)
  <2>1. \A i \in Items : item'[i].status \in Status
    BY DEF ItemRec
  <2>2. QED
    BY <1>1, <2>1 DEF Written, Saves
<1>2. CASE WriteFails(S)
  BY <1>2 DEF WriteFails, Saves
<1>3. QED
  BY <1>1, <1>2 DEF Saved

LEMMA UnsavedSaves ==
  ASSUME saved \in [Items -> Status \cup {NoRow}], Unsaved
  PROVE  Saves({})
BY DEF Unsaved, Saves

\* A step that leaves the list as it is and touches no file that was never added
\* and no row of a file that is gone.
RowsMove ==
  /\ listed' = listed /\ free' = free
  /\ \A i \in Items :
       /\ item'[i] = item[i] \/ (item[i].status # "new" /\ item'[i].status # "new")
       /\ saved'[i] = saved[i] \/ (i \notin free /\ item'[i].status # "new" /\ saved'[i] = item'[i].status)
       /\ \A n \in Runs : InRun(n, i)' => i \in listed \/ \E m \in Runs : InRun(m, i)

LEMMA RowsKept ==
  ASSUME Rows, RowsMove
  PROVE  Rows'
<1>1. ASSUME NEW i \in Items
      PROVE  /\ item'[i].status = "new" => item'[i] = item[i]
             /\ item[i].status # "new" => item'[i].status # "new"
  BY <1>1 DEF RowsMove
<1>2. ASSUME NEW i \in Items, i \in listed \/ saved'[i] # NoRow \/ i \in free
      PROVE  item'[i].status # "new"
  <2>1. i \in listed \/ saved[i] # NoRow \/ i \in free => item[i].status # "new"
    BY DEF Rows
  <2>2. CASE saved'[i] = saved[i]
    BY <1>1, <1>2, <2>1, <2>2
  <2>3. CASE saved'[i] # saved[i]
    BY <2>3 DEF RowsMove
  <2>4. QED
    BY <2>2, <2>3
<1>3. ASSUME NEW i \in Items, NEW n \in Runs, InRun(n, i)'
      PROVE  item'[i].status # "new" /\ i \notin free
  <2>1. i \in listed \/ \E m \in Runs : InRun(m, i)
    BY <1>3 DEF RowsMove
  <2>2. CASE i \in listed
    BY <1>1, <2>2 DEF Rows
  <2>3. CASE \E m \in Runs : InRun(m, i)
    BY <1>1, <2>3 DEF Rows
  <2>4. QED
    BY <2>1, <2>2, <2>3
<1>4. ASSUME NEW i \in Items
      PROVE  /\ saved'[i] # "new"
             /\ i \in free => i \notin listed /\ saved'[i] = NoRow
  BY DEF RowsMove, Rows
<1>5. ASSUME NEW i \in Items, item'[i].status = "new"
      PROVE  ~item'[i].text /\ \A j \in Items : i < j => item'[j].status = "new"
  <2>1. item'[i] = item[i] /\ item[i].status = "new"
    BY <1>1, <1>5
  <2>2. ~item[i].text /\ \A j \in Items : i < j => item[j].status = "new"
    BY <2>1 DEF Rows
  <2>3. \A j \in Items : item[j].status = "new" => item'[j].status = "new"
    BY DEF RowsMove
  <2>4. QED
    BY <2>1, <2>2, <2>3
<1>6. free' = free /\ listed' = listed /\ free \subseteq Items
  BY DEF RowsMove, Rows
<1>7. QED
  BY <1>2, <1>3, <1>4, <1>5, <1>6 DEF Rows

\* What every click does to the files, but those that change the list.
ClickSaves(S) ==
  /\ listed' = listed /\ stored' = stored /\ free' = free
  /\ item' \in [Items -> ItemRec]
  /\ \A i \in Items : /\ i \notin S => item'[i] = item[i]
                      /\ i \in S => item'[i].status # "new"
  /\ Saves(S)

LEMMA ClickSavesKeeps ==
  ASSUME TypeOK, Rows, Dirty, NEW S \in SUBSET listed, ClickSaves(S),
         \A n \in Runs : \A i : InRun(n, i)' => InRun(n, i),
         \A n \in Runs : run[n].pc = "running" \/ run[n].failed
                           => run'[n].pc = "running" \/ run'[n].failed
  PROVE  Rows' /\ Dirty'
<1>0. listed \subseteq Items
  BY TypeIs
<1>1. \A i \in S : i \in Items /\ item[i].status # "new" /\ i \notin free
  BY <1>0 DEF Rows
<1>2. RowsMove
  <2>1. ASSUME NEW i \in Items
        PROVE  /\ item'[i] = item[i] \/ (item[i].status # "new" /\ item'[i].status # "new")
               /\ saved'[i] = saved[i]
                    \/ (i \notin free /\ item'[i].status # "new" /\ saved'[i] = item'[i].status)
    BY <1>1 DEF ClickSaves, Saves
  <2>2. QED
    BY <2>1 DEF ClickSaves, RowsMove
<1>3. Rows'
  BY <1>2, RowsKept
<1>4. Dirty'
  <2>1. ASSUME NEW i \in listed, i \notin lost', saved'[i] # item'[i].status
        PROVE  \E n \in Runs : run'[n].pc = "running" \/ run'[n].failed
    <3>1. i \in Items /\ i \notin S
      BY <1>0, <2>1 DEF ClickSaves, Saves
    <3>2. i \notin lost /\ saved[i] # item[i].status
      BY <2>1, <3>1 DEF ClickSaves, Saves
    <3>3. QED
      BY <3>2 DEF Dirty
  <2>2. listed' = listed
    BY DEF ClickSaves
  <2>3. QED
    BY <2>1, <2>2 DEF Dirty
<1>5. QED
  BY <1>3, <1>4

SavingClick ==
  \/ \E i \in Items : Sorted(i)
  \/ \E i \in Items, again, only \in BOOLEAN : Reprocess(i, again, only)
  \/ ResetToQueued \/ Stop \/ StopAgain \/ ForceReset \/ Start

LEMMA ClicksSave ==
  ASSUME TypeOK, SavingClick
  PROVE  \E S \in SUBSET listed : ClickSaves(S)
<1>0. item \in [Items -> ItemRec] /\ saved \in [Items -> Status \cup {NoRow}] /\ listed \subseteq Items
  BY TypeIs
<1>1. ASSUME NEW S \in SUBSET listed, NEW s \in Status, s # "new", SetStatus(S, s), Saved(S),
             listed' = listed, stored' = stored, free' = free
      PROVE  ClickSaves(S)
  BY <1>0, <1>1, StatusIs, SavedSaves DEF ClickSaves
<1>2. CASE \E i \in Items : Sorted(i)
  <2>1. PICK i \in Items : Sorted(i)
    BY <1>2
  <2>2. PICK s \in Status : s = "done"
    BY DEF Status
  <2>3. /\ {i} \in SUBSET listed /\ SetStatus({i}, s) /\ Saved({i}) /\ s # "new"
        /\ listed' = listed /\ stored' = stored /\ free' = free
    BY <2>1, <2>2 DEF Sorted
  <2>4. QED
    BY <1>1, <2>3
<1>3. CASE \E i \in Items, again, only \in BOOLEAN : Reprocess(i, again, only)
  <2>1. PICK i \in Items, again \in BOOLEAN, only \in BOOLEAN : Reprocess(i, again, only)
    BY <1>3
  <2>2. PICK t \in BOOLEAN : t = (item[i].text /\ ~again)
    <3>1. item[i].text \in BOOLEAN
      BY <1>0 DEF ItemRec
    <3>2. QED
      BY <3>1
  <2> DEFINE r == [status |-> "queued", text |-> t]
  <2>3. r \in ItemRec /\ r.status = "queued"
    BY DEF ItemRec, Status
  <2>4. item' = [item EXCEPT ![i] = r]
    BY <2>1, <2>2 DEF Reprocess
  <2> HIDE DEF r
  <2>5. /\ item' \in [Items -> ItemRec]
        /\ \A j \in Items : (j \notin {i} => item'[j] = item[j]) /\ (j \in {i} => item'[j].status # "new")
    BY <1>0, <2>3, <2>4
  <2>6. {i} \in SUBSET listed /\ Saved({i}) /\ listed' = listed /\ stored' = stored /\ free' = free
    BY <2>1 DEF Reprocess
  <2>7. Saves({i})
    BY <1>0, <2>5, <2>6, SavedSaves
  <2>8. QED
    BY <2>5, <2>6, <2>7 DEF ClickSaves
<1>4. CASE ResetToQueued
  <2> DEFINE changed == {i \in listed : item[i].status \in {"review", "error", "unfinished"}}
  <2>1. PICK S \in SUBSET listed : S = changed
    OBVIOUS
  <2>2. PICK s \in Status : s = "queued"
    BY DEF Status
  <2>3. /\ SetStatus(S, s) /\ Saved(S) /\ s # "new"
        /\ listed' = listed /\ stored' = stored /\ free' = free
    BY <1>4, <2>1, <2>2 DEF ResetToQueued, Saved
  <2>4. QED
    BY <1>1, <2>3
<1>5. CASE Stop \/ StopAgain \/ Start
  <2>1. item' = item /\ Unsaved /\ listed' = listed /\ stored' = stored /\ free' = free
    BY <1>5 DEF Stop, StopAgain, Start, Unsaved
  <2>2. Saves({})
    BY <1>0, <2>1, UnsavedSaves
  <2>3. ClickSaves({})
    BY <1>0, <2>1, <2>2 DEF ClickSaves
  <2>4. QED
    BY <2>3
<1>6. CASE ForceReset
  <2> DEFINE stuck == {i \in listed : item[i].status \in {"extracting", "analyzing", "unfinished"}}
  <2>1. PICK S \in SUBSET listed : S = stuck
    OBVIOUS
  <2>2. PICK s \in Status : s = "queued"
    BY DEF Status
  <2>3. /\ SetStatus(S, s) /\ s # "new"
        /\ IF S = {} THEN Unsaved ELSE Saved(S)
        /\ listed' = listed /\ stored' = stored /\ free' = free
    BY <1>6, <2>1, <2>2 DEF ForceReset
  <2>4. CASE Saved(S)
    BY <1>1, <2>3, <2>4
  <2>5. CASE S = {} /\ Unsaved
    <3>1. Saves(S)
      BY <1>0, <2>5, UnsavedSaves
    <3>2. ClickSaves(S)
      BY <1>0, <2>2, <2>3, <3>1, StatusIs DEF ClickSaves
    <3>3. QED
      BY <3>2
  <2>6. QED
    BY <2>3, <2>4, <2>5
<1>7. QED
  BY <1>2, <1>3, <1>4, <1>5, <1>6 DEF SavingClick

\* Every click but those that change the list keeps the invariant.
LEMMA SavingClicksKeep ==
  ASSUME IInv, SavingClick
  PROVE  IInv'
<1>1. /\ TypeOK /\ HoldsWhat /\ Flags /\ Hands /\ Rows /\ Dirty /\ Fresh /\ Calm
      /\ ClickStep
  BY DEF IInv, SavingClick, ClickStep
<1>2. run' \in [Runs -> RunRec] /\ mgr' \in MgrRec /\ worker' = worker /\ ClickMoves
  BY <1>1, ClicksMove
<1>3. PICK S \in SUBSET listed : ClickSaves(S)
  BY <1>1, ClicksSave
<1>4. /\ listed' = listed /\ stored' = stored
      /\ item' \in [Items -> ItemRec] /\ saved' \in [Items -> Status \cup {NoRow}]
  BY <1>3 DEF ClickSaves, Saves
<1>5. TypeOK'
  <2>1. listed \subseteq Items /\ stored \subseteq Items
        /\ worker \in [Runs -> [Workers -> WorkerRec]]
    BY <1>1, TypeIs
  <2>2. QED
    BY <1>2, <1>4, <2>1, TypeIs DEF TypeOK, ItemRec, MgrRec, RunRec, WorkerRec
<1>6. HoldsWhat' /\ Flags' /\ Fresh'
  BY <1>1, <1>2, ClicksKeepFlags
<1>7. /\ Hands'
      /\ \A n \in Runs : \A i : InRun(n, i)' => InRun(n, i)
      /\ \A n \in Runs : run[n].pc = "running" \/ run[n].failed
                           => run'[n].pc = "running" \/ run'[n].failed
  BY <1>1, <1>2, <1>4, ClicksKeepHands
<1>8. Rows' /\ Dirty'
  BY <1>1, <1>3, <1>7, ClickSavesKeeps
<1>9. Calm'
  BY <1>1, <1>2, ClicksKeepCalm
<1>10. QED
  BY <1>5, <1>6, <1>7, <1>8, <1>9 DEF IInv

LEMMA InRunIsInHand ==
  ASSUME NEW n \in Runs, NEW i, InRun(n, i)
  PROVE  InHand(i)
BY DEF InRun, InHand, Queued, Holds, Holding, Busy

LEMMA RemovalsKeep ==
  ASSUME IInv, NEW S, RemoveItems(S)
  PROVE  IInv'
<1>1. TypeOK /\ HoldsWhat /\ Flags /\ Hands /\ Rows /\ Dirty /\ Fresh /\ Calm
  BY DEF IInv
<1>2. /\ listed' = listed \ S /\ S \subseteq listed /\ item' = item /\ mgr' = mgr
      /\ worker' = worker /\ lost' = lost /\ run' = Stirred(run)
  BY DEF RemoveItems
<1>3. /\ listed \subseteq Items /\ stored \subseteq Items /\ item \in [Items -> ItemRec]
      /\ mgr \in MgrRec /\ run \in [Runs -> RunRec]
      /\ worker \in [Runs -> [Workers -> WorkerRec]]
      /\ saved \in [Items -> Status \cup {NoRow}]
  BY <1>1, TypeIs
<1>4. run' \in [Runs -> RunRec] /\ ClickMoves
  BY <1>2, <1>3, StirredKeeps DEF ClickMoves, Stirs, FlagsStay
<1>5. \/ /\ saved' = [i \in Items |-> IF i \in S THEN NoRow ELSE saved[i]]
         /\ stored' = stored \ S
         /\ free' = free \cup {i \in S : ~InHand(i)}
      \/ saved' = saved /\ stored' = stored /\ free' = free
  BY DEF RemoveItems
<1>6. TypeOK'
  <2>1. saved' \in [Items -> Status \cup {NoRow}] /\ stored' \subseteq Items
    BY <1>3, <1>5
  <2>2. QED
    BY <1>2, <1>3, <1>4, <2>1 DEF TypeOK, ItemRec, MgrRec, RunRec, WorkerRec
<1>7. HoldsWhat' /\ Flags' /\ Fresh'
  BY <1>1, <1>2, <1>3, <1>4, ClicksKeepFlags
<1>8. /\ Hands'
      /\ \A n \in Runs : \A i : InRun(n, i)' => InRun(n, i)
      /\ \A n \in Runs : run[n].pc = "running" \/ run[n].failed
                           => run'[n].pc = "running" \/ run'[n].failed
  BY <1>1, <1>2, <1>4, ClicksKeepHands
<1>9. Rows'
  <2>1. ASSUME NEW i \in Items
        PROVE  /\ i \in listed' \/ saved'[i] # NoRow \/ i \in free' => item'[i].status # "new"
               /\ saved'[i] # "new"
               /\ i \in free' => i \notin listed' /\ saved'[i] = NoRow
               /\ item'[i].status = "new"
                    => ~item'[i].text /\ \A j \in Items : i < j => item'[j].status = "new"
    <3>1. /\ i \in listed \/ saved[i] # NoRow \/ i \in free => item[i].status # "new"
          /\ saved[i] # "new"
          /\ i \in free => i \notin listed /\ saved[i] = NoRow
          /\ item[i].status = "new"
               => ~item[i].text /\ \A j \in Items : i < j => item[j].status = "new"
      BY <1>1 DEF Rows
    <3>2. CASE i \in S
      BY <1>2, <1>3, <1>5, <3>1, <3>2 DEF NoRow
    <3>3. CASE i \notin S
      BY <1>2, <1>3, <1>5, <3>1, <3>3
    <3>4. QED
      BY <3>2, <3>3
  <2>2. ASSUME NEW i \in Items, NEW n \in Runs, InRun(n, i)'
        PROVE  item'[i].status # "new" /\ i \notin free'
    <3>1. InRun(n, i) /\ InHand(i)
      BY <1>8, <2>2, InRunIsInHand
    <3>2. item[i].status # "new" /\ i \notin free
      BY <1>1, <3>1 DEF Rows
    <3>3. QED
      BY <1>2, <1>5, <3>1, <3>2
  <2>3. free' \subseteq Items
    BY <1>1, <1>2, <1>3, <1>5 DEF Rows
  <2>4. QED
    BY <2>1, <2>2, <2>3 DEF Rows
<1>10. Dirty'
  <2>1. ASSUME NEW i \in listed', i \notin lost', saved'[i] # item'[i].status
        PROVE  \E n \in Runs : run'[n].pc = "running" \/ run'[n].failed
    <3>1. i \in listed /\ i \in Items /\ i \notin S /\ i \notin lost /\ saved[i] # item[i].status
      BY <1>2, <1>3, <1>5, <2>1
    <3>2. QED
      BY <1>1, <1>8, <3>1 DEF Dirty
  <2>2. QED
    BY <2>1 DEF Dirty
<1>11. Calm'
  BY <1>1, <1>2, <1>4, ClicksKeepCalm
<1>12. QED
  BY <1>6, <1>7, <1>8, <1>9, <1>10, <1>11 DEF IInv

LEMMA AddItemKeeps ==
  ASSUME IInv, NEW a \in Items, AddItem(a)
  PROVE  IInv'
<1>1. TypeOK /\ HoldsWhat /\ Flags /\ Hands /\ Rows /\ Dirty /\ Fresh /\ Calm
  BY DEF IInv
<1>2. /\ item[a].status = "new" /\ \A j \in Items : j < a => item[j].status # "new"
      /\ listed' = listed \cup {a} /\ mgr' = mgr /\ run' = run /\ worker' = worker
      /\ stored' = stored /\ free' = free /\ Saved({a})
  BY DEF AddItem
<1>3. /\ listed \subseteq Items /\ stored \subseteq Items /\ item \in [Items -> ItemRec]
      /\ mgr \in MgrRec /\ run \in [Runs -> RunRec]
      /\ worker \in [Runs -> [Workers -> WorkerRec]]
      /\ saved \in [Items -> Status \cup {NoRow}]
      /\ listed \in SUBSET Nat /\ IsFiniteSet(listed) /\ a \in Nat
  <2>1. listed \subseteq Items /\ IsFiniteSet(Items)
    BY <1>1, TypeIs
  <2>2. IsFiniteSet(listed) /\ listed \in SUBSET Nat /\ a \in Nat
    BY <2>1, FS_Subset
  <2>3. QED
    BY <1>1, <2>2, TypeIs
<1>4. /\ item' \in [Items -> ItemRec]
      /\ \A i \in Items : i # a => item'[i] = item[i]
      /\ item'[a].status = "queued" /\ ~item'[a].text
  <2>1. PICK s \in Status : s = "queued"
    BY DEF Status
  <2>2. SetStatus({a}, s)
    BY <2>1 DEF AddItem
  <2>3. ~item[a].text
    BY <1>1, <1>2 DEF Rows
  <2>4. /\ item' \in [Items -> ItemRec]
        /\ \A i \in Items : /\ i \notin {a} => item'[i] = item[i]
                            /\ i \in {a} => item'[i].status = s
                            /\ item'[i].text = item[i].text
    BY <1>3, <2>2, StatusIs
  <2>5. QED
    BY <2>1, <2>3, <2>4
<1>5. Saves({a})
  BY <1>2, <1>3, <1>4, SavedSaves
<1>6. TypeOK'
  BY <1>2, <1>3, <1>4, <1>5 DEF Saves, TypeOK, ItemRec, MgrRec, RunRec, WorkerRec
<1>7. HoldsWhat' /\ Flags' /\ Fresh'
  BY <1>1, <1>2 DEF HoldsWhat, Holds, Flags, Fresh, AtWork, Busy
<1>8. /\ a \notin listed /\ a \notin free /\ saved[a] = NoRow
      /\ \A n \in Runs : ~InRun(n, a)
  BY <1>1, <1>2 DEF Rows
<1>9. \A i \in listed : i < a /\ i \in Items
  <2>1. ASSUME NEW i \in listed PROVE i < a
    <3>1. i \in Nat /\ i \in Items /\ i # a /\ item[i].status # "new"
      BY <1>1, <1>3, <1>8, <2>1 DEF Rows
    <3>2. a < i => item[i].status = "new"
      BY <1>1, <1>2, <3>1 DEF Rows
    <3>3. QED
      BY <1>3, <3>1, <3>2
  <2>2. QED
    BY <1>3, <2>1
<1>10. \A i \in listed : Place(listed', i) = Place(listed, i)
  <2>1. ASSUME NEW i \in listed PROVE Place(listed \cup {a}, i) = Place(listed, i)
    <3>1. i \in Nat /\ i < a
      BY <1>3, <1>9
    <3>2. QED
      BY <1>3, <3>1, PlaceAfterAdding
  <2>2. QED
    BY <1>2, <2>1
<1>11. \A n \in Runs : /\ \A i : InRun(n, i)' <=> InRun(n, i)
                       /\ \A i : Queued(n, i)' <=> Queued(n, i)
  BY <1>2, SameInRun
<1>12. Hands'
  <2>1. ASSUME NEW n \in Runs PROVE HandsOf(n)'
    <3>1. HandsOf(n) /\ SameHands(n) /\ run[n].next \in Nat
      <4>1. run[n] \in RunRec
        BY <1>3
      <4>2. QED
        BY <1>1, <1>2, <4>1 DEF Hands, SameHands, RunRec
    <3>2. listed' \subseteq Items
      BY <1>2, <1>3
    <3>3. ASSUME NEW i \in listed', InRun(n, i)
          PROVE  i \in listed /\ Place(listed', i) <= Place(listed, i)
      <4>1. i \in listed
        BY <1>2, <1>8, <3>3
      <4>2. Place(listed, i) \in Nat /\ Place(listed', i) = Place(listed, i)
        BY <1>3, <1>10, <4>1, PlaceIsNumber
      <4>3. QED
        BY <4>1, <4>2
    <3>4. QED
      BY <1>3, <3>1, <3>2, <3>3, HandsStay
  <2>2. QED
    BY <2>1 DEF Hands
<1>13. Rows'
  <2>1. ASSUME NEW i \in Items
        PROVE  /\ i \in listed' \/ saved'[i] # NoRow \/ i \in free' => item'[i].status # "new"
               /\ saved'[i] # "new"
               /\ i \in free' => i \notin listed' /\ saved'[i] = NoRow
               /\ item'[i].status = "new"
                    => ~item'[i].text /\ \A j \in Items : i < j => item'[j].status = "new"
    <3>1. /\ i \in listed \/ saved[i] # NoRow \/ i \in free => item[i].status # "new"
          /\ saved[i] # "new"
          /\ i \in free => i \notin listed /\ saved[i] = NoRow
          /\ item[i].status = "new"
               => ~item[i].text /\ \A j \in Items : i < j => item[j].status = "new"
      BY <1>1 DEF Rows
    <3>2. CASE i = a
      BY <1>2, <1>4, <1>5, <1>8, <3>1, <3>2 DEF Saves
    <3>3. CASE i # a
      <4>1. item'[i] = item[i] /\ saved'[i] = saved[i]
        BY <1>4, <1>5, <3>3 DEF Saves
      <4>2. item[i].status = "new" => \A j \in Items : i < j => item'[j].status = "new"
        <5>1. ASSUME item[i].status = "new", NEW j \in Items, i < j PROVE j # a
          BY <1>2, <5>1
        <5>2. QED
          BY <1>4, <3>1, <5>1
      <4>3. QED
        BY <1>2, <3>1, <3>3, <4>1, <4>2
    <3>4. QED
      BY <3>2, <3>3
  <2>2. ASSUME NEW i \in Items, NEW n \in Runs, InRun(n, i)'
        PROVE  item'[i].status # "new" /\ i \notin free'
    <3>1. InRun(n, i) /\ i # a
      BY <1>8, <1>11, <2>2
    <3>2. QED
      BY <1>1, <1>2, <1>4, <3>1 DEF Rows
  <2>3. free' \subseteq Items
    BY <1>1, <1>2 DEF Rows
  <2>4. QED
    BY <2>1, <2>2, <2>3 DEF Rows
<1>14. Dirty'
  <2>1. ASSUME NEW i \in listed', i \notin lost', saved'[i] # item'[i].status
        PROVE  \E n \in Runs : run'[n].pc = "running" \/ run'[n].failed
    <3>1. i # a /\ i \in listed /\ i \in Items
      BY <1>2, <1>3, <1>5, <2>1 DEF Saves
    <3>2. i \notin lost /\ saved[i] # item[i].status
      BY <1>4, <1>5, <2>1, <3>1 DEF Saves
    <3>3. QED
      BY <1>1, <1>2, <3>1, <3>2 DEF Dirty
  <2>2. QED
    BY <2>1 DEF Dirty
<1>15. Calm'
  <2>1. ASSUME NEW n \in Runs, run[n].calm, run[n].pc = "running", ~Rejected(n)
        PROVE  Followed(n)'
    <3>1. Followed(n)
      BY <1>1, <2>1 DEF Calm, CalmRun
    <3>2. ASSUME NEW i \in listed \cap run[n].scope
          PROVE  /\ InRun(n, i)' \/ Settled(i)' \/ Ahead(n, i)'
                 /\ Queued(n, i)' => item'[i].status \notin {"extracting", "analyzing"}
      <4>1. item'[i] = item[i] /\ Place(listed', i) = Place(listed, i)
        BY <1>4, <1>8, <1>9, <1>10, <3>2
      <4>2. Ahead(n, i) => Ahead(n, i)'
        BY <1>2, <4>1 DEF Ahead
      <4>3. Settled(i) => Settled(i)'
        BY <4>1 DEF Settled
      <4>4. QED
        BY <1>11, <3>1, <3>2, <4>1, <4>2, <4>3 DEF Followed
    <3>3. Settled(a)' /\ item'[a].status \notin {"extracting", "analyzing"}
      BY <1>4 DEF Settled
    <3>4. QED
      BY <1>2, <3>2, <3>3 DEF Followed
  <2>2. \A n \in Runs : (Alone(n)' <=> Alone(n)) /\ (Rejected(n)' <=> Rejected(n))
    BY <1>2 DEF Alone, Live, AtWork, Busy, Rejected
  <2>3. ASSUME NEW n \in Runs, run[n].calm, run[n].pc = "running" PROVE CalmRun(n)'
    <3>1. CalmRun(n)
      BY <1>1, <2>3 DEF Calm
    <3>2. QED
      BY <1>2, <2>1, <2>2, <2>3, <3>1 DEF CalmRun, ExtractorsDone
  <2>4. QED
    BY <1>1, <1>2, <2>2, <2>3 DEF Calm
<1>16. QED
  BY <1>6, <1>7, <1>12, <1>13, <1>14, <1>15 DEF IInv

LEMMA RestartKeeps ==
  ASSUME IInv, Restart
  PROVE  IInv'
<1>1. TypeOK /\ Rows
  BY DEF IInv
<1>2. /\ stored \subseteq Items /\ item \in [Items -> ItemRec]
      /\ saved \in [Items -> Status \cup {NoRow}]
  BY <1>1, TypeIs
<1> DEFINE rows == {i \in Items : saved[i] # NoRow}
<1>3. PICK R \in SUBSET Items : R = rows
  OBVIOUS
<1>4. /\ listed' = R /\ mgr' = NoneProcessing /\ saved' = saved /\ stored' = stored /\ free' = free
      /\ run' = [n \in Runs |-> IF run[n].pc = "unused" THEN Unused ELSE [Unused EXCEPT !.pc = "dead"]]
      /\ worker' = [n \in Runs |-> [w \in Workers |-> Idle]]
      /\ lost' = {i \in R : saved[i] \in {"extracting", "analyzing"}}
      /\ item' = [i \in Items |->
           IF i \notin R THEN item[i]
           ELSE [status |-> IF saved[i] \in {"extracting", "analyzing"} THEN "unfinished" ELSE saved[i],
                 text |-> FALSE]]
  BY <1>3 DEF Restart
<1>5. ASSUME NEW i \in Items
      PROVE  /\ item'[i] \in ItemRec /\ (i \notin R => item'[i] = item[i])
             /\ i \in R => item'[i].status # "new" /\ ~item'[i].text
                           /\ (i \in lost' \/ saved'[i] = item'[i].status)
  <2>1. CASE i \notin R
    BY <1>2, <1>4, <2>1
  <2>2. CASE i \in R
    <3>1. saved[i] \in Status /\ saved[i] # "new"
      BY <1>1, <1>2, <1>3, <2>2 DEF Rows
    <3>2. PICK s \in Status : /\ s = IF saved[i] \in {"extracting", "analyzing"} THEN "unfinished" ELSE saved[i]
                              /\ s # "new"
      BY <3>1 DEF Status
    <3>3. item'[i] = [status |-> s, text |-> FALSE]
      BY <1>4, <2>2, <3>2
    <3>4. item'[i] \in ItemRec /\ item'[i].status = s /\ ~item'[i].text
      BY <3>3 DEF ItemRec
    <3>5. i \in lost' \/ saved'[i] = s
      BY <1>4, <2>2, <3>2
    <3>6. QED
      BY <2>2, <3>2, <3>4, <3>5
  <2>3. QED
    BY <2>1, <2>2
<1>6. item' \in [Items -> ItemRec]
  <2>1. item' = [i \in Items |-> item'[i]]
    BY <1>4
  <2>2. QED
    BY <1>5, <2>1
<1>7. ASSUME NEW n \in Runs
      PROVE  /\ run'[n] \in RunRec /\ run'[n].pc \in {"unused", "dead"}
             /\ ~run'[n].failed /\ run'[n].queue = <<>>
  <2>1. PICK u \in RunRec : u = Unused
    BY UnusedIs
  <2> DEFINE d == [u EXCEPT !.pc = "dead"]
  <2>2. d \in RunRec /\ d.pc = "dead" /\ d.failed = u.failed /\ d.queue = u.queue
    BY DEF RunRec, RunPhase
  <2>3. run'[n] = IF run[n].pc = "unused" THEN u ELSE d
    BY <1>4, <2>1
  <2>4. u.pc = "unused" /\ ~u.failed /\ u.queue = <<>>
    BY <2>1, UnusedIs
  <2> HIDE DEF d
  <2>5. CASE run[n].pc = "unused"
    BY <2>3, <2>4, <2>5
  <2>6. CASE run[n].pc # "unused"
    BY <2>2, <2>3, <2>4, <2>6
  <2>7. QED
    BY <2>5, <2>6
<1>8. Idle \in WorkerRec /\ Idle.pc = "off" /\ Idle.item = NoItem
  BY DEF Idle, WorkerRec, WorkerPhase
<1>9. \A n \in Runs, w \in Workers : worker'[n][w] = Idle
  BY <1>4
<1>10. NoneProcessing \in MgrRec /\ ~NoneProcessing.processing /\ NoneProcessing.ctl = NoRun
  BY DEF NoneProcessing, MgrRec
<1>11. run' \in [Runs -> RunRec] /\ worker' \in [Runs -> [Workers -> WorkerRec]]
  <2>1. run' = [n \in Runs |-> run'[n]]
    BY <1>4
  <2>2. QED
    BY <1>4, <1>7, <1>8, <2>1
<1>12. TypeOK'
  BY <1>2, <1>4, <1>6, <1>10, <1>11 DEF TypeOK, ItemRec, MgrRec, RunRec, WorkerRec
<1>13. \A n \in Runs : /\ ~AtWork(n)' /\ \A w \in Workers : ~Holds(n, w)' /\ worker'[n][w].item = NoItem
  BY <1>8, <1>9 DEF AtWork, Busy, Holds, Holding
<1>14. HoldsWhat' /\ Flags' /\ Fresh' /\ Calm'
  BY <1>4, <1>7, <1>10, <1>13 DEF HoldsWhat, Flags, Fresh, Calm
<1>15. Hands' /\ \A n \in Runs : \A i : ~InRun(n, i)'
  BY <1>7, <1>13, NoHandsNext DEF Hands
<1>16. Dirty'
  BY <1>4, <1>5 DEF Dirty
<1>17. Rows'
  <2>1. ASSUME NEW i \in Items
        PROVE  /\ i \in listed' \/ saved'[i] # NoRow \/ i \in free' => item'[i].status # "new"
               /\ saved'[i] # "new"
               /\ i \in free' => i \notin listed' /\ saved'[i] = NoRow
               /\ item'[i].status = "new"
                    => ~item'[i].text /\ \A j \in Items : i < j => item'[j].status = "new"
    <3>1. /\ i \in listed \/ saved[i] # NoRow \/ i \in free => item[i].status # "new"
          /\ saved[i] # "new"
          /\ i \in free => i \notin listed /\ saved[i] = NoRow
          /\ item[i].status = "new"
               => ~item[i].text /\ \A j \in Items : i < j => item[j].status = "new"
      BY <1>1 DEF Rows
    <3>2. ASSUME item'[i].status = "new"
          PROVE  item'[i] = item[i] /\ \A j \in Items : i < j => item'[j].status = "new"
      <4>1. i \notin R /\ item'[i] = item[i] /\ item[i].status = "new"
        BY <1>5, <3>2
      <4>2. ASSUME NEW j \in Items, i < j PROVE item'[j].status = "new"
        <5>1. item[j].status = "new"
          BY <3>1, <4>1, <4>2
        <5>2. saved[j] = NoRow
          BY <1>1, <5>1 DEF Rows
        <5>3. QED
          BY <1>3, <1>5, <5>1, <5>2
      <4>3. QED
        BY <4>1, <4>2
    <3>3. i \in R <=> saved[i] # NoRow
      BY <1>3
    <3>4. QED
      BY <1>4, <1>5, <3>1, <3>2, <3>3
  <2>2. QED
    BY <1>1, <1>4, <1>15, <2>1 DEF Rows
<1>18. QED
  BY <1>12, <1>14, <1>15, <1>16, <1>17 DEF IInv

-----------------------------------------------------------------------------
(* The steps of a run *)

LEMMA EndedIs ==
  ASSUME NEW n \in Runs, run[n] \in RunRec
  PROVE  /\ Ended(n) \in RunRec /\ Ended(n).pc = "over"
         /\ Ended(n).failed = run[n].failed
         /\ \/ Ended(n).queue = run[n].queue /\ Ended(n).next = run[n].next
            \/ ~AtWork(n) /\ Ended(n).queue = <<>>
<1>1. PICK r \in RunRec : r = run[n]
  OBVIOUS
<1>2. PICK u \in RunRec : u = Unused
  BY UnusedIs
<1> DEFINE a == [r EXCEPT !.pc = "over"]
           b == [u EXCEPT !.pc = "over", !.failed = r.failed, !.cut = r.cut]
<1>3. /\ a \in RunRec /\ a.pc = "over" /\ a.failed = r.failed
      /\ a.queue = r.queue /\ a.next = r.next
  BY DEF RunRec, RunPhase
<1>4. b \in RunRec /\ b.pc = "over" /\ b.failed = r.failed /\ b.queue = u.queue
  BY DEF RunRec, RunPhase
<1>5. u.queue = <<>>
  BY <1>2, UnusedIs
<1>6. Ended(n) = IF AtWork(n) THEN a ELSE b
  BY <1>1, <1>2 DEF Ended
<1> HIDE DEF a, b
<1>7. CASE AtWork(n)
  BY <1>1, <1>3, <1>6, <1>7
<1>8. CASE ~AtWork(n)
  BY <1>1, <1>4, <1>5, <1>6, <1>8
<1>9. QED
  BY <1>7, <1>8

\* The runs of r, but that the one that had the flags is cut off.
LEMMA ResetFlagsIs ==
  ASSUME mgr \in MgrRec, NEW n \in Runs, NEW r \in [Runs -> RunRec], ResetFlags(n, r)
  PROVE  /\ mgr' \in MgrRec /\ FlagsReset
         /\ run' \in [Runs -> RunRec]
         /\ run'[n] = r[n]
         /\ \A m \in Runs : /\ SameRun(run'[m], r[m]) /\ run'[m].calm = r[m].calm
                            /\ r[m].cut \/ (m = mgr.ctl /\ m # n) => run'[m].cut
<1>1. mgr' \in MgrRec /\ FlagsReset
  BY DEF ResetFlags, NoneProcessing, MgrRec, FlagsReset
<1>2. ASSUME NEW m \in Runs
      PROVE  /\ run'[m] \in RunRec
             /\ m = n => run'[m] = r[m]
             /\ SameRun(run'[m], r[m]) /\ run'[m].calm = r[m].calm
             /\ r[m].cut \/ (m = mgr.ctl /\ m # n) => run'[m].cut
  <2>1. PICK a \in RunRec : a = r[m]
    OBVIOUS
  <2> DEFINE b == [a EXCEPT !.cut = TRUE]
  <2>2. b \in RunRec /\ SameRun(b, a) /\ b.calm = a.calm /\ b.cut
    BY DEF RunRec, SameRun
  <2>3. run'[m] = IF m = mgr.ctl /\ m # n THEN b ELSE a
    BY <2>1 DEF ResetFlags
  <2> HIDE DEF b
  <2>4. CASE m = mgr.ctl /\ m # n
    BY <2>1, <2>2, <2>3, <2>4
  <2>5. CASE ~(m = mgr.ctl /\ m # n)
    BY <2>1, <2>3, <2>5 DEF SameRun
  <2>6. QED
    BY <2>4, <2>5
<1>3. run' = [m \in Runs |-> run'[m]]
  BY DEF ResetFlags
<1>4. QED
  BY <1>1, <1>2, <1>3

\* What a run's last steps have in common.
EndsRun(n) ==
  /\ Live(n)
  /\ listed' = listed /\ item' = item /\ worker' = worker /\ stored' = stored /\ free' = free
  /\ run' \in [Runs -> RunRec] /\ mgr' \in MgrRec
  /\ run'[n].pc \in {"flushing", "over"}
  /\ AtWork(n) => run'[n].failed
  /\ \/ mgr' = mgr /\ mgr.ctl # n
     \/ FlagsReset /\ \A m \in Runs : m = mgr.ctl /\ m # n => run'[m].cut
  /\ \A m \in Runs \ {n} : /\ SameRun(run'[m], run[m]) /\ run'[m].calm = run[m].calm
                           /\ run[m].cut => run'[m].cut
  /\ SameHands(n) \/ (~AtWork(n) /\ run'[n].queue = <<>>)
  /\ Saves(listed) \/ (Saves({}) /\ run[n].pc # "running" /\ ~run[n].failed)

LEMMA CatchEndsRun ==
  ASSUME IInv, NEW n \in Runs, Live(n), Catch(n),
         AtWork(n) => run[n].failed,
         listed' = listed, item' = item, worker' = worker, stored' = stored, free' = free
  PROVE  EndsRun(n)
<1>1. /\ run \in [Runs -> RunRec] /\ mgr \in MgrRec /\ item \in [Items -> ItemRec]
      /\ saved \in [Items -> Status \cup {NoRow}]
  BY TypeIs DEF IInv
<1>2. PICK e \in RunRec : e = Ended(n)
  BY <1>1, EndedIs
<1>3. /\ e.pc = "over" /\ e.failed = run[n].failed
      /\ \/ e.queue = run[n].queue /\ e.next = run[n].next
         \/ ~AtWork(n) /\ e.queue = <<>>
  BY <1>1, <1>2, EndedIs
<1>4. PICK r \in [Runs -> RunRec] : r = [run EXCEPT ![n] = e]
  BY <1>1
<1>5. ResetFlags(n, r)
  BY <1>2, <1>4 DEF Catch
<1>6. r[n] = e /\ \A m \in Runs \ {n} : r[m] = run[m]
  BY <1>1, <1>4
<1>7. /\ mgr' \in MgrRec /\ FlagsReset
      /\ run' \in [Runs -> RunRec]
      /\ run'[n] = r[n]
      /\ \A m \in Runs : /\ SameRun(run'[m], r[m]) /\ run'[m].calm = r[m].calm
                         /\ r[m].cut \/ (m = mgr.ctl /\ m # n) => run'[m].cut
  BY <1>1, <1>5, ResetFlagsIs
<1>8. Saves(listed)
  BY <1>1, SavedSaves DEF Catch
<1>9. SameHands(n) \/ (~AtWork(n) /\ run'[n].queue = <<>>)
  BY <1>3, <1>6, <1>7 DEF SameHands
<1>10. run'[n].pc = "over" /\ (AtWork(n) => run'[n].failed)
  BY <1>3, <1>6, <1>7
<1>11. \A m \in Runs \ {n} : /\ SameRun(run'[m], run[m]) /\ run'[m].calm = run[m].calm
                             /\ run[m].cut => run'[m].cut
  BY <1>6, <1>7
<1>12. QED
  BY <1>7, <1>8, <1>9, <1>10, <1>11 DEF EndsRun

LEMMA LastStepsEndRun ==
  ASSUME IInv, NEW n \in Runs, SetupFails(n) \/ Finish(n) \/ Flushed(n)
  PROVE  /\ EndsRun(n)
         /\ Finish(n) => /\ run[n].pc = "running" /\ run'[n].pc = "flushing"
                         /\ run'[n].calm = run[n].calm
                         /\ ~run'[n].failed => ~Rejected(n) /\ AllDone(n)
         /\ ~Finish(n) => run[n].pc # "running"
<1>1. /\ run \in [Runs -> RunRec] /\ mgr \in MgrRec /\ item \in [Items -> ItemRec]
      /\ saved \in [Items -> Status \cup {NoRow}] /\ Flags
  BY TypeIs DEF IInv
<1>2. CASE SetupFails(n)
  <2>1. /\ run[n].pc = "setup" /\ Catch(n)
        /\ listed' = listed /\ item' = item /\ worker' = worker /\ stored' = stored /\ free' = free
    BY <1>2 DEF SetupFails
  <2>2. Live(n) /\ ~AtWork(n)
    BY <1>1, <2>1 DEF Live, Flags
  <2>3. EndsRun(n)
    BY <2>1, <2>2, CatchEndsRun
  <2>4. ~Finish(n)
    BY <2>1 DEF Finish, FinishWith
  <2>5. QED
    BY <2>1, <2>3, <2>4
<1>3. CASE Finish(n)
  <2>1. /\ run[n].pc = "running" /\ (AllDone(n) \/ Rejected(n))
        /\ listed' = listed /\ item' = item /\ worker' = worker /\ stored' = stored /\ free' = free
    BY <1>3 DEF Finish, FinishWith
  <2>2. PICK ok \in BOOLEAN :
          /\ IF ok THEN Written(listed) ELSE WriteFails(listed)
          /\ ResetFlags(n, [run EXCEPT ![n] = [@ EXCEPT !.pc = "flushing", !.failed = Rejected(n) \/ ~ok]])
    BY <1>3 DEF Finish, FinishWith
  <2>3. PICK bad \in BOOLEAN : bad = (Rejected(n) \/ ~ok)
    OBVIOUS
  <2>4. PICK a \in RunRec : a = run[n]
    BY <1>1
  <2> DEFINE b == [a EXCEPT !.pc = "flushing", !.failed = bad]
  <2>5. /\ b \in RunRec /\ b.pc = "flushing" /\ b.failed = bad /\ b.calm = a.calm
        /\ b.queue = a.queue /\ b.next = a.next
    BY DEF RunRec, RunPhase
  <2>6. PICK r \in [Runs -> RunRec] : r = [run EXCEPT ![n] = b]
    <3> HIDE DEF b
    <3>1. QED
      BY <1>1, <2>5
  <2>7. ResetFlags(n, r)
    BY <2>2, <2>3, <2>4, <2>6
  <2> HIDE DEF b
  <2>8. r[n] = b /\ \A m \in Runs \ {n} : r[m] = run[m]
    BY <1>1, <2>6
  <2>9. /\ mgr' \in MgrRec /\ FlagsReset
        /\ run' \in [Runs -> RunRec]
        /\ run'[n] = r[n]
        /\ \A m \in Runs : /\ SameRun(run'[m], r[m]) /\ run'[m].calm = r[m].calm
                           /\ r[m].cut \/ (m = mgr.ctl /\ m # n) => run'[m].cut
    BY <1>1, <2>7, ResetFlagsIs
  <2>10. Saves(listed)
    <3>1. Saved(listed)
      BY <2>2 DEF Saved
    <3>2. QED
      BY <1>1, <2>1, <3>1, SavedSaves
  <2>11. AtWork(n) => Rejected(n)
    BY <2>1 DEF AllDone, AtWork, Busy
  <2>12. SameHands(n)
    BY <2>1, <2>4, <2>5, <2>8, <2>9 DEF SameHands
  <2>13. \A m \in Runs \ {n} : /\ SameRun(run'[m], run[m]) /\ run'[m].calm = run[m].calm
                               /\ run[m].cut => run'[m].cut
    BY <2>8, <2>9
  <2>14. /\ run'[n].pc = "flushing" /\ run'[n].calm = run[n].calm
         /\ Rejected(n) => run'[n].failed
         /\ ~run'[n].failed => ~Rejected(n) /\ AllDone(n)
    BY <2>1, <2>3, <2>4, <2>5, <2>8, <2>9
  <2>15. EndsRun(n)
    BY <2>1, <2>9, <2>10, <2>11, <2>12, <2>13, <2>14 DEF EndsRun, Live
  <2>16. QED
    BY <1>3, <2>1, <2>14, <2>15
<1>4. CASE Flushed(n)
  <2>1. /\ run[n].pc = "flushing"
        /\ listed' = listed /\ item' = item /\ worker' = worker /\ stored' = stored /\ free' = free
    BY <1>4 DEF Flushed
  <2>2. Live(n) /\ ~Finish(n) /\ (AtWork(n) => run[n].failed)
    BY <1>1, <2>1 DEF Live, Finish, FinishWith, Flags
  <2>3. CASE run[n].failed
    <3>1. Catch(n)
      BY <1>4, <2>3 DEF Flushed
    <3>2. EndsRun(n)
      BY <2>1, <2>2, <3>1, CatchEndsRun
    <3>3. QED
      BY <2>1, <2>2, <3>2
  <2>4. CASE ~run[n].failed
    <3>1. PICK e \in RunRec : e = Ended(n)
      BY <1>1, EndedIs
    <3>2. /\ e.pc = "over"
          /\ \/ e.queue = run[n].queue /\ e.next = run[n].next
             \/ ~AtWork(n) /\ e.queue = <<>>
      BY <1>1, <3>1, EndedIs
    <3>3. run' = [run EXCEPT ![n] = e] /\ Unsaved /\ mgr' = mgr
      BY <1>4, <2>4, <3>1 DEF Flushed
    <3>4. /\ run' \in [Runs -> RunRec] /\ run'[n] = e
          /\ \A m \in Runs \ {n} : run'[m] = run[m]
      BY <1>1, <3>3
    <3>5. mgr.ctl # n
      <4>1. n # NoRun
        OBVIOUS
      <4>2. mgr.ctl = n => run[n].pc \in {"setup", "running"}
        BY <1>1, <4>1 DEF Flags
      <4>3. QED
        BY <2>1, <4>2
    <3>6. Saves({})
      BY <1>1, <3>3, UnsavedSaves
    <3>7. SameHands(n) \/ (~AtWork(n) /\ run'[n].queue = <<>>)
      BY <2>1, <3>2, <3>4 DEF SameHands
    <3>8. EndsRun(n)
      BY <1>1, <2>1, <2>2, <2>4, <3>2, <3>3, <3>4, <3>5, <3>6, <3>7 DEF EndsRun, SameRun
    <3>9. QED
      BY <2>1, <2>2, <3>8
  <2>5. QED
    BY <2>3, <2>4
<1>5. QED
  BY <1>2, <1>3, <1>4

LEMMA EndsRunKeeps ==
  ASSUME IInv, NEW n \in Runs, EndsRun(n)
  PROVE  IInv'
<1>1. TypeOK /\ HoldsWhat /\ Flags /\ Hands /\ Rows /\ Dirty /\ Fresh /\ Calm
  BY DEF IInv
<1>2. /\ listed \subseteq Items /\ stored \subseteq Items /\ item \in [Items -> ItemRec]
      /\ run \in [Runs -> RunRec] /\ worker \in [Runs -> [Workers -> WorkerRec]]
      /\ \A m \in Runs : run[m].next \in Nat
  <2>1. run \in [Runs -> RunRec]
    BY <1>1, TypeIs
  <2>2. \A m \in Runs : run[m].next \in Nat
    BY <2>1 DEF RunRec
  <2>3. QED
    BY <1>1, <2>1, <2>2, TypeIs
<1>3. /\ listed' = listed /\ item' = item /\ worker' = worker /\ stored' = stored /\ free' = free
      /\ run' \in [Runs -> RunRec] /\ mgr' \in MgrRec
      /\ saved' \in [Items -> Status \cup {NoRow}]
  BY DEF EndsRun, Saves
<1>4. \A m \in Runs : AtWork(m)' <=> AtWork(m)
  BY <1>3 DEF AtWork, Busy
<1>5. TypeOK'
  BY <1>2, <1>3 DEF TypeOK, ItemRec, MgrRec, RunRec, WorkerRec
<1>6. HoldsWhat'
  BY <1>1, <1>3 DEF HoldsWhat, Holds
<1>7. Flags'
  <2>1. (mgr'.processing <=> mgr'.ctl # NoRun) /\ (mgr'.ctl # NoRun => mgr' = mgr /\ mgr.ctl # n)
    BY <1>1 DEF EndsRun, Flags, FlagsReset
  <2>2. mgr'.ctl # NoRun => run'[mgr'.ctl].pc \in {"setup", "running"}
    <3>1. ASSUME mgr'.ctl # NoRun PROVE run'[mgr'.ctl].pc \in {"setup", "running"}
      <4>1. mgr.ctl \in Runs \ {n} /\ run[mgr.ctl].pc \in {"setup", "running"} /\ mgr' = mgr
        BY <1>1, <2>1, <3>1, TypeIs DEF Flags, MgrRec
      <4>2. SameRun(run'[mgr.ctl], run[mgr.ctl])
        BY <4>1 DEF EndsRun
      <4>3. QED
        BY <4>1, <4>2 DEF SameRun
    <3>2. QED
      BY <3>1
  <2>3. ASSUME NEW m \in Runs
        PROVE  /\ run'[m].pc \in {"unused", "setup", "running"} => ~run'[m].failed
               /\ AtWork(m)' => run'[m].pc = "running" \/ run'[m].failed
               /\ run'[m].pc \in {"setup", "running"} \/ AtWork(m)'
                    => run'[m].cut \/ run'[m].failed \/ mgr'.ctl = m
    <3>1. CASE m = n
      BY <1>4, <3>1 DEF EndsRun
    <3>2. CASE m # n
      <4>1. SameRun(run'[m], run[m]) /\ (run[m].cut => run'[m].cut)
        BY <3>2 DEF EndsRun
      <4>2. mgr' = mgr \/ (m = mgr.ctl => run'[m].cut)
        BY <3>2 DEF EndsRun
      <4>3. QED
        BY <1>1, <1>4, <4>1, <4>2 DEF SameRun, Flags
    <3>3. QED
      BY <3>1, <3>2
  <2>4. QED
    BY <2>1, <2>2, <2>3 DEF Flags
<1>8. ASSUME NEW m \in Runs
      PROVE  HandsOf(m)' /\ \A i : InRun(m, i)' => InRun(m, i)
  <2>1. CASE SameHands(m)
    <3>1. HandsOf(m) /\ \A i \in listed' : i \in listed /\ Place(listed', i) <= Place(listed, i)
      <4>1. IsFiniteSet(listed) /\ listed \in SUBSET Nat
        BY <1>2, FS_Subset
      <4>2. QED
        BY <1>1, <1>3, <4>1, PlaceAfterRemoval DEF Hands
    <3>2. HandsOf(m)'
      BY <1>2, <1>3, <2>1, <3>1, HandsStay
    <3>3. QED
      BY <2>1, <3>2, SameInRun DEF SameHands
  <2>2. CASE ~SameHands(m)
    <3>1. ~AtWork(m) /\ run'[m].queue = <<>>
      BY <1>3, <2>2 DEF EndsRun, SameRun, SameHands
    <3>2. \A w \in Workers : ~Holds(m, w)'
      BY <1>3, <3>1 DEF AtWork, Busy, Holds, Holding
    <3>3. QED
      BY <3>1, <3>2, NoHandsNext
  <2>3. QED
    BY <2>1, <2>2
<1>9. Hands'
  BY <1>8 DEF Hands
<1>10. Rows'
  <2>1. ASSUME NEW i \in Items
        PROVE  /\ item'[i] = item[i]
               /\ saved'[i] = saved[i]
                    \/ (i \notin free /\ item'[i].status # "new" /\ saved'[i] = item'[i].status)
    <3>1. i \in listed => i \notin free /\ item[i].status # "new"
      BY <1>1, <2>1 DEF Rows
    <3>2. QED
      BY <1>3, <3>1 DEF EndsRun, Saves
  <2>2. RowsMove
    BY <1>3, <1>8, <2>1 DEF RowsMove
  <2>3. QED
    BY <1>1, <2>2, RowsKept
<1>11. Dirty'
  <2>1. CASE Saves(listed)
    BY <1>2, <1>3, <2>1 DEF Saves, Dirty
  <2>2. CASE Saves({}) /\ run[n].pc # "running" /\ ~run[n].failed
    <3>1. ASSUME NEW i \in listed, i \notin lost', saved'[i] # item'[i].status
          PROVE  \E m \in Runs : run'[m].pc = "running" \/ run'[m].failed
      <4>1. i \in Items /\ i \notin lost /\ saved[i] # item[i].status
        BY <1>2, <1>3, <2>2, <3>1 DEF Saves
      <4>2. PICK m \in Runs : run[m].pc = "running" \/ run[m].failed
        BY <1>1, <4>1 DEF Dirty
      <4>3. m # n
        BY <2>2, <4>2
      <4>4. SameRun(run'[m], run[m])
        BY <4>3 DEF EndsRun
      <4>5. QED
        BY <4>2, <4>4 DEF SameRun
    <3>2. QED
      BY <1>3, <3>1 DEF Dirty
  <2>3. QED
    BY <2>1, <2>2 DEF EndsRun
<1>12. Fresh'
  BY <1>1 DEF EndsRun, SameRun, Fresh
<1>13. Calm'
  <2>1. ASSUME NEW m \in Runs, run'[m].calm, run'[m].pc \in {"setup", "running"} PROVE FALSE
    <3>1. m # n
      BY <2>1 DEF EndsRun
    <3>2. run[m].calm /\ run[m].pc \in {"setup", "running"} /\ Live(n)
      BY <2>1, <3>1 DEF EndsRun, SameRun
    <3>3. QED
      BY <1>1, <3>1, <3>2 DEF Calm, Alone
  <2>2. QED
    BY <2>1 DEF Calm
<1>14. QED
  BY <1>5, <1>6, <1>7, <1>9, <1>10, <1>11, <1>12, <1>13 DEF IInv

LEMMA SetupKeeps ==
  ASSUME IInv, NEW n \in Runs, Setup(n)
  PROVE  IInv'
<1>1. TypeOK /\ HoldsWhat /\ Flags /\ Hands /\ Rows /\ Dirty /\ Fresh /\ Calm
  BY DEF IInv
<1>2. /\ listed \subseteq Items /\ stored \subseteq Items /\ item \in [Items -> ItemRec]
      /\ mgr \in MgrRec /\ run \in [Runs -> RunRec]
      /\ worker \in [Runs -> [Workers -> WorkerRec]]
      /\ saved \in [Items -> Status \cup {NoRow}]
      /\ listed \in SUBSET Nat /\ IsFiniteSet(listed)
  <2>1. listed \subseteq Items
    BY <1>1, TypeIs
  <2>2. QED
    BY <1>1, <2>1, TypeIs, FS_Subset
<1>3. /\ run[n].pc = "setup" /\ listed' = listed /\ mgr' = mgr /\ saved' = saved
      /\ stored' = stored /\ lost' = lost /\ free' = free
  BY DEF Setup
<1>4. run[n].next = 0 /\ run[n].queue = <<>> /\ ~AtWork(n)
  BY <1>1, <1>3 DEF Fresh, Flags
<1>5. PICK T \in SUBSET Items :
        /\ T = {i \in listed \cap run[n].scope : item[i].status \in {"extracting", "analyzing"}}
        /\ T \subseteq listed
  BY <1>2
<1>6. /\ item' \in [Items -> ItemRec]
      /\ \A i \in Items : /\ i \notin T => item'[i] = item[i]
                          /\ i \in T => item'[i].status = "queued"
  <2>1. PICK s \in Status : s = "queued"
    BY DEF Status
  <2>2. SetStatus(T, s)
    BY <1>5, <2>1 DEF Setup
  <2>3. QED
    BY <1>2, <2>1, <2>2, StatusIs
<1>7. /\ run' \in [Runs -> RunRec] /\ run'[n].pc = "running"
      /\ \A m \in Runs \ {n} : run'[m] = run[m]
      /\ run'[n].scope = run[n].scope /\ run'[n].only = run[n].only
      /\ run'[n].next = run[n].next /\ run'[n].queue = run[n].queue
      /\ run'[n].aborted = run[n].aborted /\ run'[n].failed = run[n].failed
      /\ run'[n].cut = run[n].cut /\ run'[n].calm = run[n].calm
  <2>1. PICK a \in RunRec : a = run[n]
    BY <1>2
  <2> DEFINE b == [a EXCEPT !.pc = "running"]
  <2>2. /\ b \in RunRec /\ b.pc = "running" /\ b.scope = a.scope /\ b.only = a.only
        /\ b.next = a.next /\ b.queue = a.queue /\ b.aborted = a.aborted
        /\ b.failed = a.failed /\ b.cut = a.cut /\ b.calm = a.calm
    BY DEF RunRec, RunPhase
  <2>3. run' = [run EXCEPT ![n] = b]
    BY <2>1 DEF Setup
  <2> HIDE DEF b
  <2>4. QED
    BY <1>2, <2>1, <2>2, <2>3
<1>8. /\ worker' \in [Runs -> [Workers -> WorkerRec]]
      /\ \A m \in Runs \ {n} : worker'[m] = worker[m]
      /\ \A w \in Workers : /\ worker'[n][w].item = NoItem
                            /\ worker'[n][w].pc = "top"
                               \/ (worker'[n][w].pc = "exited" /\ w \in Analysts /\ run[n].only)
                            /\ w \in Analysts /\ run[n].only => worker'[n][w].pc = "exited"
  <2>1. PICK a \in WorkerRec : a = Idle
    BY DEF Idle, WorkerRec, WorkerPhase
  <2>2. a.item = NoItem
    BY <2>1 DEF Idle
  <2> DEFINE t == [a EXCEPT !.pc = "top"]
             x == [a EXCEPT !.pc = "exited"]
  <2>3. /\ t \in WorkerRec /\ t.pc = "top" /\ t.item = a.item
        /\ x \in WorkerRec /\ x.pc = "exited" /\ x.item = a.item
    BY DEF WorkerRec, WorkerPhase
  <2>4. PICK f : f = [w \in Workers |->
                  [Idle EXCEPT !.pc = IF w \in Analysts /\ run[n].only THEN "exited" ELSE "top"]]
    OBVIOUS
  <2>5. worker' = [worker EXCEPT ![n] = f]
    BY <2>4 DEF Setup
  <2>6. f = [w \in Workers |-> IF w \in Analysts /\ run[n].only THEN x ELSE t]
    BY <2>1, <2>4
  <2> HIDE DEF t, x
  <2>7. f \in [Workers -> WorkerRec]
    BY <2>3, <2>6
  <2>8. worker'[n] = f
    BY <1>2, <2>5
  <2>9. QED
    BY <1>2, <2>2, <2>3, <2>5, <2>6, <2>7, <2>8
<1>9. TypeOK'
  BY <1>2, <1>3, <1>6, <1>7, <1>8 DEF TypeOK, ItemRec, MgrRec, RunRec, WorkerRec
<1>10. \A w \in Workers : ~Holds(n, w)' /\ ~(worker'[n][w].pc = "analyzing")
                          /\ worker'[n][w].pc # "rejected"
  BY <1>8 DEF Holds, Holding
<1>11. HandsOf(n)' /\ \A i : ~InRun(n, i)' /\ ~Queued(n, i)'
  BY <1>4, <1>7, <1>10, NoHandsNext
<1>12. HoldsWhat'
  <2>1. ASSUME NEW m \in Runs, NEW w \in Workers
        PROVE  worker'[m][w].item \in Items <=> Holds(m, w)'
    <3>1. CASE m = n
      BY <1>8, <1>10, <3>1
    <3>2. CASE m # n
      <4>1. worker'[m] = worker[m]
        BY <1>8, <3>2
      <4>2. QED
        BY <1>1, <4>1 DEF HoldsWhat, Holds
    <3>3. QED
      BY <3>1, <3>2
  <2>2. QED
    BY <2>1 DEF HoldsWhat
<1>13. Flags'
  <2>1. ASSUME NEW m \in Runs
        PROVE  /\ run'[m].pc \in {"unused", "setup", "running"} => ~run'[m].failed
               /\ AtWork(m)' => run'[m].pc = "running" \/ run'[m].failed
               /\ run'[m].pc \in {"setup", "running"} \/ AtWork(m)'
                    => run'[m].cut \/ run'[m].failed \/ mgr'.ctl = m
               /\ mgr.ctl = m => run'[m].pc \in {"setup", "running"}
    <3>1. CASE m = n
      BY <1>1, <1>3, <1>7, <3>1 DEF Flags
    <3>2. CASE m # n
      <4>1. worker'[m] = worker[m] /\ run'[m] = run[m]
        BY <1>7, <1>8, <3>2
      <4>2. m # NoRun
        OBVIOUS
      <4>3. QED
        BY <1>1, <1>3, <4>1, <4>2 DEF Flags, AtWork, Busy
    <3>3. QED
      BY <3>1, <3>2
  <2>2. mgr.ctl \in Runs \cup {NoRun}
    BY <1>2 DEF MgrRec
  <2>3. QED
    BY <1>1, <1>3, <2>1, <2>2 DEF Flags
<1>14. ASSUME NEW m \in Runs
       PROVE  HandsOf(m)' /\ \A i : InRun(m, i)' => InRun(m, i)
  <2>1. CASE m # n
    <3>1. SameHands(m) /\ HandsOf(m) /\ run[m].next \in Nat
      <4>1. run[m] \in RunRec
        BY <1>2
      <4>2. QED
        BY <1>1, <1>7, <1>8, <2>1, <4>1 DEF SameHands, Hands, RunRec
    <3>2. \A i \in listed' : i \in listed /\ Place(listed', i) <= Place(listed, i)
      BY <1>2, <1>3, PlaceAfterRemoval
    <3>3. HandsOf(m)'
      BY <1>2, <1>3, <3>1, <3>2, HandsStay
    <3>4. QED
      BY <3>1, <3>3, SameInRun DEF SameHands
  <2>2. QED
    BY <1>11, <2>1
<1>15. Hands'
  BY <1>14 DEF Hands
<1>16. Rows'
  <2>1. ASSUME NEW i \in Items
        PROVE  item'[i] = item[i] \/ (item[i].status # "new" /\ item'[i].status # "new")
    <3>1. i \in listed => item[i].status # "new"
      BY <1>1 DEF Rows
    <3>2. QED
      BY <1>5, <1>6, <3>1
  <2>2. RowsMove
    BY <1>3, <1>14, <2>1 DEF RowsMove
  <2>3. QED
    BY <1>1, <2>2, RowsKept
<1>17. Dirty'
  BY <1>7 DEF Dirty
<1>18. Fresh'
  <2>1. ASSUME NEW m \in Runs, run'[m].pc = "setup" PROVE run'[m].next = 0 /\ run'[m].queue = <<>>
    <3>1. m # n
      BY <1>7, <2>1
    <3>2. QED
      BY <1>1, <1>7, <2>1, <3>1 DEF Fresh
  <2>2. QED
    BY <2>1 DEF Fresh
<1>19. Calm'
  <2>1. ASSUME NEW m \in Runs, m # n, run'[m].calm PROVE run'[m].pc \notin {"setup", "running"}
    <3>1. run'[m] = run[m] /\ Live(n)
      BY <1>3, <1>7, <2>1 DEF Live
    <3>2. QED
      BY <1>1, <2>1, <3>1 DEF Calm, Alone
  <2>2. ASSUME run[n].calm PROVE Alone(n)'
    <3>1. Alone(n)
      BY <1>1, <1>3, <2>2 DEF Calm
    <3>2. \A m \in Runs \ {n} : ~Live(m)' /\ ~AtWork(m)'
      BY <1>7, <1>8, <3>1 DEF Alone, Live, AtWork, Busy
    <3>3. QED
      BY <1>3, <1>7, <3>1, <3>2 DEF Alone
  <2>3. ASSUME run[n].calm PROVE CalmRun(n)'
    <3>1. \A w \in Extractors : worker'[n][w].pc = "top" /\ w \in Workers
      BY <1>8 DEF Workers
    <3>2. \A w \in Analysts : w \in Workers
      BY DEF Workers
    <3>3. Followed(n)'
      <4>1. ASSUME NEW i \in listed \cap run[n].scope
            PROVE  Settled(i)' \/ Ahead(n, i)'
        <5>1. i \in Items /\ item[i] \in ItemRec /\ item[i].status # "new"
              /\ run'[n].next <= Place(listed', i)
          <6>1. Place(listed, i) \in Nat
            BY <1>2, PlaceIsNumber
          <6>2. i \in Items /\ item[i].status # "new"
            BY <1>1, <1>2 DEF Rows
          <6>3. QED
            BY <1>2, <1>3, <1>4, <1>7, <6>1, <6>2
        <5>2. item[i].status \in Status
          BY <5>1 DEF ItemRec
        <5>3. CASE i \in T
          BY <1>6, <3>1, <5>1, <5>3 DEF Ahead
        <5>4. CASE i \notin T
          <6>1. item[i].status \notin {"extracting", "analyzing", "new"} /\ item'[i] = item[i]
            BY <1>5, <1>6, <4>1, <5>1, <5>4
          <6>2. CASE item[i].status = "queued"
            BY <3>1, <5>1, <6>1, <6>2 DEF Ahead
          <6>3. CASE item[i].status # "queued"
            BY <5>2, <6>1, <6>3 DEF Settled, Status
          <6>4. QED
            BY <6>2, <6>3
        <5>5. QED
          BY <5>3, <5>4
      <4>2. QED
        BY <1>3, <1>7, <1>11, <4>1 DEF Followed
    <3>4. run'[n].only => run'[n].queue = <<>> /\ \A w \in Analysts : worker'[n][w].pc = "exited"
      BY <1>4, <1>7, <1>8, <3>2
    <3>5. ~run'[n].only => \A w \in Analysts : worker'[n][w].pc # "exited"
      BY <1>7, <1>8, <3>2
    <3>6. QED
      BY <1>10, <3>3, <3>4, <3>5 DEF CalmRun
  <2>4. QED
    BY <1>7, <2>1, <2>2, <2>3 DEF Calm
<1>20. QED
  BY <1>9, <1>12, <1>13, <1>15, <1>16, <1>17, <1>18, <1>19 DEF IInv

-----------------------------------------------------------------------------
(* The steps of a worker: what it has in hand *)

Elem(q, i) == \E k \in DOMAIN q : q[k] = i
Distinct(q) == \A k, l \in DOMAIN q : q[k] = q[l] => k = l

LEMMA AppendElem ==
  ASSUME NEW S, NEW q \in Seq(S), NEW h \in S
  PROVE  /\ \A i : Elem(Append(q, h), i) <=> Elem(q, i) \/ i = h
         /\ Distinct(q) /\ ~Elem(q, h) => Distinct(Append(q, h))
<1>1. /\ Len(q) \in Nat /\ DOMAIN q = 1 .. Len(q)
      /\ DOMAIN Append(q, h) = 1 .. Len(q) + 1
      /\ \A k \in 1 .. Len(q) : Append(q, h)[k] = q[k]
      /\ Append(q, h)[Len(q) + 1] = h
  OBVIOUS
<1>2. \A k \in 1 .. Len(q) + 1 : k \in 1 .. Len(q) \/ k = Len(q) + 1
  BY <1>1
<1>3. 1 .. Len(q) \subseteq 1 .. Len(q) + 1 /\ Len(q) + 1 \in 1 .. Len(q) + 1
  BY <1>1
<1>4. \A i : Elem(Append(q, h), i) <=> Elem(q, i) \/ i = h
  BY <1>1, <1>2, <1>3, Zenon DEF Elem
<1>5. ASSUME Distinct(q), ~Elem(q, h) PROVE Distinct(Append(q, h))
  <2>1. \A k \in 1 .. Len(q) : q[k] # h
    BY <1>1, <1>5 DEF Elem
  <2>2. \A k, l \in 1 .. Len(q) : q[k] = q[l] => k = l
    BY <1>1, <1>5 DEF Distinct
  <2>3. ASSUME NEW k \in 1 .. Len(q) + 1, NEW l \in 1 .. Len(q) + 1,
               Append(q, h)[k] = Append(q, h)[l]
        PROVE  k = l
    BY <1>1, <1>2, <2>1, <2>2, <2>3
  <2>4. QED
    BY <1>1, <2>3 DEF Distinct
<1>6. QED
  BY <1>4, <1>5

LEMMA TailElem ==
  ASSUME NEW S, NEW q \in Seq(S), q # <<>>
  PROVE  /\ Head(q) \in S /\ Tail(q) \in Seq(S)
         /\ \A i : Elem(q, i) <=> i = Head(q) \/ Elem(Tail(q), i)
         /\ Distinct(q) => Distinct(Tail(q)) /\ ~Elem(Tail(q), Head(q))
<1>1. /\ Len(q) \in Nat /\ Len(q) >= 1 /\ DOMAIN q = 1 .. Len(q)
      /\ Head(q) = q[1] /\ Head(q) \in S /\ Tail(q) \in Seq(S)
      /\ DOMAIN Tail(q) = 1 .. Len(q) - 1
      /\ \A k \in 1 .. Len(q) - 1 : Tail(q)[k] = q[k + 1]
  OBVIOUS
<1>2. /\ \A k \in 1 .. Len(q) - 1 : k + 1 \in 1 .. Len(q) /\ k + 1 # 1
      /\ \A k \in 1 .. Len(q) : k = 1 \/ (k - 1 \in 1 .. Len(q) - 1 /\ (k - 1) + 1 = k)
      /\ 1 \in 1 .. Len(q)
  BY <1>1
<1>3. ASSUME NEW i PROVE Elem(q, i) <=> i = Head(q) \/ Elem(Tail(q), i)
  <2>1. ASSUME NEW k \in 1 .. Len(q), q[k] = i, k # 1 PROVE Elem(Tail(q), i)
    <3>1. k - 1 \in 1 .. Len(q) - 1 /\ Tail(q)[k - 1] = q[k]
      BY <1>1, <1>2, <2>1
    <3>2. QED
      BY <1>1, <2>1, <3>1 DEF Elem
  <2>2. Elem(q, i) => i = Head(q) \/ Elem(Tail(q), i)
    BY <1>1, <2>1 DEF Elem
  <2>3. ASSUME NEW k \in 1 .. Len(q) - 1, Tail(q)[k] = i PROVE Elem(q, i)
    BY <1>1, <1>2, <2>3 DEF Elem
  <2>4. QED
    BY <1>1, <1>2, <2>2, <2>3 DEF Elem
<1>4. ASSUME Distinct(q) PROVE Distinct(Tail(q)) /\ ~Elem(Tail(q), Head(q))
  <2>1. \A k, l \in 1 .. Len(q) : q[k] = q[l] => k = l
    BY <1>1, <1>4 DEF Distinct
  <2>2. ASSUME NEW k \in 1 .. Len(q) - 1, NEW l \in 1 .. Len(q) - 1, Tail(q)[k] = Tail(q)[l]
        PROVE  k = l
    <3>1. k + 1 = l + 1
      BY <1>1, <1>2, <2>1, <2>2
    <3>2. QED
      BY <3>1
  <2>3. ASSUME NEW k \in 1 .. Len(q) - 1 PROVE Tail(q)[k] # Head(q)
    BY <1>1, <1>2, <2>1, <2>3
  <2>4. QED
    BY <1>1, <2>2, <2>3 DEF Distinct, Elem
<1>5. QED
  BY <1>1, <1>3, <1>4

LEMMA ConcatElem ==
  ASSUME NEW S, NEW q \in Seq(S), NEW p \in Seq(S)
  PROVE  /\ q \o p \in Seq(S)
         /\ \A i : Elem(q \o p, i) <=> Elem(q, i) \/ Elem(p, i)
         /\ Distinct(q) /\ Distinct(p) /\ (\A i : ~(Elem(q, i) /\ Elem(p, i))) => Distinct(q \o p)
<1>1. /\ Len(q) \in Nat /\ DOMAIN q = 1 .. Len(q)
      /\ Len(p) \in Nat /\ DOMAIN p = 1 .. Len(p)
      /\ q \o p \in Seq(S) /\ DOMAIN (q \o p) = 1 .. Len(q) + Len(p)
  OBVIOUS
<1>2. /\ \A k \in 1 .. Len(q) : (q \o p)[k] = q[k]
      /\ \A k \in 1 .. Len(p) : (q \o p)[Len(q) + k] = p[k]
  BY <1>1
<1>3. /\ \A k \in 1 .. Len(q) + Len(p) :
           k \in 1 .. Len(q) \/ (k - Len(q) \in 1 .. Len(p) /\ Len(q) + (k - Len(q)) = k)
      /\ \A k \in 1 .. Len(q) : k \in 1 .. Len(q) + Len(p)
      /\ \A k \in 1 .. Len(p) : Len(q) + k \in 1 .. Len(q) + Len(p)
  BY <1>1
<1> DEFINE c == q \o p
<1>4. /\ \A k \in DOMAIN c : (k \in DOMAIN q /\ c[k] = q[k])
                             \/ \E m \in DOMAIN p : k = Len(q) + m /\ c[k] = p[m]
      /\ \A k \in DOMAIN q : k \in DOMAIN c /\ c[k] = q[k]
      /\ \A m \in DOMAIN p : \E k \in DOMAIN c : c[k] = p[m]
  <2>1. ASSUME NEW k \in 1 .. Len(q) + Len(p)
        PROVE  (k \in 1 .. Len(q) /\ c[k] = q[k])
               \/ \E m \in 1 .. Len(p) : k = Len(q) + m /\ c[k] = p[m]
    <3>1. CASE k \in 1 .. Len(q)
      BY <1>2, <3>1
    <3>2. CASE k - Len(q) \in 1 .. Len(p) /\ Len(q) + (k - Len(q)) = k
      <4>1. PICK m \in 1 .. Len(p) : m = k - Len(q) /\ Len(q) + m = k
        BY <3>2
      <4>2. c[k] = p[m]
        BY <1>2, <4>1
      <4>3. QED
        BY <4>1, <4>2
    <3>3. QED
      BY <1>3, <3>1, <3>2
  <2>2. ASSUME NEW m \in 1 .. Len(p) PROVE \E k \in 1 .. Len(q) + Len(p) : c[k] = p[m]
    BY <1>2, <1>3
  <2>3. \A k \in 1 .. Len(q) : k \in 1 .. Len(q) + Len(p) /\ c[k] = q[k]
    BY <1>2, <1>3
  <2>4. QED
    BY <1>1, <2>1, <2>2, <2>3
<1> HIDE DEF c
<1>5. \A i : Elem(c, i) <=> Elem(q, i) \/ Elem(p, i)
  <2> SUFFICES ASSUME NEW i PROVE Elem(c, i) <=> Elem(q, i) \/ Elem(p, i)
    OBVIOUS
  <2>1. Elem(c, i) => Elem(q, i) \/ Elem(p, i)
    BY <1>4 DEF Elem
  <2>2. Elem(q, i) => Elem(c, i)
    BY <1>4 DEF Elem
  <2>3. Elem(p, i) => Elem(c, i)
    BY <1>4 DEF Elem
  <2>4. QED
    BY <2>1, <2>2, <2>3
<1>6. ASSUME Distinct(q), Distinct(p), \A i : ~(Elem(q, i) /\ Elem(p, i))
      PROVE  Distinct(c)
  <2>1. ASSUME NEW k \in DOMAIN c, NEW l \in DOMAIN c, c[k] = c[l] PROVE k = l
    <3>1. CASE k \in DOMAIN q /\ c[k] = q[k] /\ l \in DOMAIN q /\ c[l] = q[l]
      BY <1>6, <2>1, <3>1 DEF Distinct
    <3>2. CASE k \in DOMAIN q /\ c[k] = q[k] /\ \E m \in DOMAIN p : c[l] = p[m]
      BY <1>6, <2>1, <3>2 DEF Elem
    <3>3. CASE l \in DOMAIN q /\ c[l] = q[l] /\ \E m \in DOMAIN p : c[k] = p[m]
      BY <1>6, <2>1, <3>3 DEF Elem
    <3>4. CASE /\ \E m \in DOMAIN p : k = Len(q) + m /\ c[k] = p[m]
               /\ \E m \in DOMAIN p : l = Len(q) + m /\ c[l] = p[m]
      BY <1>6, <2>1, <3>4 DEF Distinct
    <3>5. QED
      BY <1>4, <3>1, <3>2, <3>3, <3>4
  <2>2. QED
    BY <2>1 DEF Distinct
<1>7. QED
  BY <1>1, <1>5, <1>6 DEF c

\* The four ways in which what run n has in hand changes.
Gives(n, w) ==
  /\ ~Holds(n, w)' /\ run'[n].next = run[n].next
  /\ \/ run'[n].queue = run[n].queue
     \/ Holds(n, w) /\ run'[n].queue = Append(run[n].queue, Held(n, w))
GoesOn(n, w) ==
  /\ Holds(n, w) /\ Held(n, w)' = Held(n, w)
  /\ run'[n].next = run[n].next /\ run'[n].queue = run[n].queue
Visits(n, w) ==
  /\ ~Holds(n, w) /\ run'[n].next >= run[n].next
  /\ \E p \in Seq(Items) :
       /\ run'[n].queue = run[n].queue \o p /\ Distinct(p)
       /\ \A i : Elem(p, i) => /\ i \in listed /\ run[n].next <= Place(listed, i)
                               /\ Place(listed, i) < run'[n].next
       /\ Holds(n, w)' => /\ Held(n, w)' \in listed /\ ~Elem(p, Held(n, w)')
                          /\ run[n].next <= Place(listed, Held(n, w)')
                          /\ Place(listed, Held(n, w)') < run'[n].next
Takes(n, w) ==
  /\ ~Holds(n, w) /\ run[n].queue # <<>>
  /\ run'[n].next = run[n].next /\ run'[n].queue = Tail(run[n].queue)
  /\ Holds(n, w)' => Held(n, w)' = Head(run[n].queue)

\* What every step of worker w of run n leaves as it is.
WorkerFrame(n, w) ==
  /\ listed' = listed /\ mgr' = mgr /\ free' = free
  /\ worker' \in [Runs -> [Workers -> WorkerRec]]
  /\ \A m \in Runs \ {n} : worker'[m] = worker[m] /\ run'[m] = run[m]
  /\ \A v \in Workers \ {w} : worker'[n][v] = worker[n][v]
  /\ run' \in [Runs -> RunRec]
  /\ run'[n].pc = run[n].pc /\ run'[n].scope = run[n].scope /\ run'[n].only = run[n].only
  /\ run'[n].aborted = run[n].aborted /\ run'[n].failed = run[n].failed
  /\ run'[n].cut = run[n].cut /\ run'[n].calm = run[n].calm

WorkerData(n) ==
  /\ stored' \subseteq Items
  /\ item' \in [Items -> ItemRec] /\ saved' \in [Items -> Status \cup {NoRow}]
  /\ \A i \in Items :
       /\ item'[i] = item[i] \/ (InRun(n, i) /\ item'[i].status # "new")
       /\ saved'[i] = saved[i]
            \/ (InRun(n, i) /\ item'[i].status # "new" /\ saved'[i] = item'[i].status)

WorkerMoves(n, w) ==
  /\ Busy(n, w) /\ WorkerFrame(n, w) /\ WorkerData(n)
  /\ worker'[n][w].item \in Items <=> Holds(n, w)'
  /\ Gives(n, w) \/ GoesOn(n, w) \/ Visits(n, w) \/ Takes(n, w)

LEMMA HandsAfter ==
  ASSUME TypeOK, HoldsWhat, NEW n \in Runs, NEW w \in Workers, HandsOf(n), WorkerMoves(n, w)
  PROVE  /\ HandsOf(n)'
         /\ \A i : InRun(n, i)' => InRun(n, i) \/ i \in listed
<1>1. /\ run[n].queue \in Seq(Items) /\ run[n].next \in Nat /\ run'[n].next \in Nat
      /\ listed \subseteq Items /\ listed' = listed
      /\ \A i \in listed : Place(listed, i) \in Nat
  <2>1. run[n] \in RunRec /\ run'[n] \in RunRec
    BY TypeIs DEF WorkerMoves, WorkerFrame
  <2>2. listed \subseteq Items /\ IsFiniteSet(listed) /\ listed \in SUBSET Nat
    BY TypeIs, FS_Subset
  <2>3. QED
    BY <2>1, <2>2, PlaceIsNumber DEF RunRec, WorkerMoves, WorkerFrame
<1>2. PICK q \in Seq(Items) : q = run[n].queue
  BY <1>1
<1>3. PICK x : x = run'[n].queue
  OBVIOUS
<1>4. /\ \A i : Queued(n, i) <=> Elem(q, i)
      /\ \A i : Queued(n, i)' <=> Elem(x, i)
  BY <1>2, <1>3 DEF Queued, Elem
<1>5. \A v \in Workers : v # w => (Holds(n, v)' <=> Holds(n, v)) /\ Held(n, v)' = Held(n, v)
  BY DEF WorkerMoves, WorkerFrame, Holds, Held
<1>6. PICK h : h = Held(n, w)
  OBVIOUS
<1>7. PICK g : g = Held(n, w)'
  OBVIOUS
<1>8. /\ \A v, u \in Workers : Holds(n, v) /\ Holds(n, u) /\ Held(n, v) = Held(n, u) => v = u
      /\ Distinct(q)
      /\ \A v \in Workers : Holds(n, v) => ~Elem(q, Held(n, v))
      /\ \A i \in listed : InRun(n, i) => Place(listed, i) < run[n].next
  <2>1. Distinct(q)
    BY <1>2 DEF HandsOf, Distinct
  <2>2. QED
    BY <1>4, <2>1 DEF HandsOf
<1>9. \A i : InRun(n, i) <=> Elem(q, i) \/ \E v \in Workers : Holds(n, v) /\ Held(n, v) = i
  BY <1>4 DEF InRun
<1>10. ASSUME Distinct(x), Holds(n, w)' => ~Elem(x, g),
              \A v \in Workers : v # w /\ Holds(n, v) => ~Elem(x, Held(n, v)),
              \A v \in Workers : v # w /\ Holds(n, v) /\ Holds(n, w)' => Held(n, v) # g,
              run'[n].next >= run[n].next,
              \A i : Elem(x, i) \/ (Holds(n, w)' /\ i = g) =>
                 InRun(n, i) \/ (i \in listed /\ Place(listed, i) < run'[n].next)
       PROVE  /\ HandsOf(n)'
              /\ \A i : InRun(n, i)' => InRun(n, i) \/ i \in listed
  <2>1. \A v, u \in Workers : Holds(n, v)' /\ Holds(n, u)' /\ Held(n, v)' = Held(n, u)' => v = u
    BY <1>5, <1>7, <1>8, <1>10
  <2>2. \A k, l \in DOMAIN run'[n].queue : run'[n].queue[k] = run'[n].queue[l] => k = l
    BY <1>3, <1>10 DEF Distinct
  <2>3. ASSUME NEW v \in Workers, Holds(n, v)' PROVE ~Queued(n, Held(n, v))'
    <3>1. PICK i : i = Held(n, v)'
      OBVIOUS
    <3>2. ~Elem(x, i)
      <4>1. CASE v = w
        BY <1>7, <1>10, <2>3, <3>1, <4>1
      <4>2. CASE v # w
        BY <1>5, <1>10, <2>3, <3>1, <4>2
      <4>3. QED
        BY <4>1, <4>2
    <3>3. QED
      BY <1>3, <3>1, <3>2 DEF Queued, Elem
  <2>4. ASSUME NEW i, InRun(n, i)'
        PROVE  InRun(n, i) \/ (i \in listed /\ Place(listed, i) < run'[n].next)
    <3>1. Elem(x, i) \/ \E v \in Workers : Holds(n, v)' /\ Held(n, v)' = i
      BY <1>4, <2>4 DEF InRun
    <3>2. CASE Elem(x, i)
      BY <1>10, <3>2
    <3>3. ASSUME NEW v \in Workers, Holds(n, v)', Held(n, v)' = i
          PROVE  InRun(n, i) \/ (i \in listed /\ Place(listed, i) < run'[n].next)
      <4>1. CASE v = w
        BY <1>7, <1>10, <3>3, <4>1
      <4>2. CASE v # w
        BY <1>5, <1>9, <3>3, <4>2
      <4>3. QED
        BY <4>1, <4>2
    <3>4. QED
      BY <3>1, <3>2, <3>3
  <2>5. ASSUME NEW i \in listed', InRun(n, i)' PROVE Place(listed', i) < run'[n].next
    <3>1. i \in listed /\ Place(listed, i) \in Nat
      BY <1>1, <2>5
    <3>2. CASE InRun(n, i)
      <4>1. Place(listed, i) < run[n].next
        BY <1>8, <3>1, <3>2
      <4>2. QED
        BY <1>1, <1>10, <3>1, <4>1
    <3>3. CASE Place(listed, i) < run'[n].next
      BY <1>1, <3>3
    <3>4. QED
      BY <2>4, <2>5, <3>2, <3>3
  <2>6. HandsOf(n)'
    BY <2>1, <2>2, <2>3, <2>5 DEF HandsOf
  <2>7. QED
    BY <2>4, <2>6
<1>11. CASE Gives(n, w)
  <2>1. ~Holds(n, w)' /\ run'[n].next >= run[n].next
    BY <1>1, <1>11 DEF Gives
  <2>2. CASE x = q
    BY <1>8, <1>9, <1>10, <2>1, <2>2
  <2>3. CASE Holds(n, w) /\ x = Append(q, h)
    <3>1. h \in Items
      BY <1>6, <2>3 DEF HoldsWhat, Held
    <3>2. /\ \A i : Elem(x, i) <=> Elem(q, i) \/ i = h
          /\ Distinct(x)
      BY <1>6, <1>8, <2>3, <3>1, AppendElem
    <3>3. \A v \in Workers : v # w /\ Holds(n, v) => Held(n, v) # h
      BY <1>6, <1>8, <2>3
    <3>4. \A i : Elem(x, i) => InRun(n, i)
      BY <1>6, <1>9, <2>3, <3>2
    <3>5. QED
      BY <1>8, <1>10, <2>1, <3>2, <3>3, <3>4
  <2>4. QED
    BY <1>2, <1>3, <1>6, <1>11, <2>2, <2>3 DEF Gives
<1>12. CASE GoesOn(n, w)
  <2>1. Holds(n, w) /\ g = h /\ run'[n].next >= run[n].next /\ x = q
    BY <1>1, <1>2, <1>3, <1>6, <1>7, <1>12 DEF GoesOn
  <2>2. QED
    BY <1>6, <1>8, <1>9, <1>10, <2>1
<1>13. CASE Visits(n, w)
  <2>1. PICK p \in Seq(Items) :
          /\ x = q \o p /\ Distinct(p)
          /\ \A i : Elem(p, i) => /\ i \in listed /\ run[n].next <= Place(listed, i)
                                  /\ Place(listed, i) < run'[n].next
          /\ Holds(n, w)' => /\ g \in listed /\ ~Elem(p, g)
                             /\ run[n].next <= Place(listed, g)
                             /\ Place(listed, g) < run'[n].next
    BY <1>2, <1>3, <1>7, <1>13 DEF Visits
  <2>2. ~Holds(n, w) /\ run'[n].next >= run[n].next
    BY <1>13 DEF Visits
  <2>3. ASSUME NEW i \in listed, run[n].next <= Place(listed, i) PROVE ~InRun(n, i)
    <3>1. Place(listed, i) \in Nat
      BY <1>1
    <3>2. InRun(n, i) => Place(listed, i) < run[n].next
      BY <1>8
    <3>3. QED
      BY <1>1, <2>3, <3>1, <3>2
  <2>4. \A i : ~(Elem(q, i) /\ Elem(p, i))
    BY <1>9, <2>1, <2>3
  <2>5. Distinct(x) /\ \A i : Elem(x, i) <=> Elem(q, i) \/ Elem(p, i)
    BY <1>8, <2>1, <2>4, ConcatElem
  <2>6. Holds(n, w)' => ~Elem(x, g)
    BY <1>9, <2>1, <2>3, <2>5
  <2>7. \A v \in Workers : v # w /\ Holds(n, v) => ~Elem(x, Held(n, v))
    BY <1>8, <1>9, <2>1, <2>3, <2>5
  <2>8. \A v \in Workers : v # w /\ Holds(n, v) /\ Holds(n, w)' => Held(n, v) # g
    BY <1>9, <2>1, <2>3
  <2>9. \A i : Elem(x, i) \/ (Holds(n, w)' /\ i = g) =>
                 InRun(n, i) \/ (i \in listed /\ Place(listed, i) < run'[n].next)
    BY <1>9, <2>1, <2>5
  <2>10. QED
    BY <1>10, <2>2, <2>5, <2>6, <2>7, <2>8, <2>9
<1>14. CASE Takes(n, w)
  <2>1. /\ ~Holds(n, w) /\ q # <<>> /\ x = Tail(q) /\ run'[n].next >= run[n].next
        /\ Holds(n, w)' => g = Head(q)
    BY <1>1, <1>2, <1>3, <1>7, <1>14 DEF Takes
  <2>2. /\ \A i : Elem(q, i) <=> i = Head(q) \/ Elem(x, i)
        /\ Distinct(x) /\ ~Elem(x, Head(q))
    BY <1>8, <2>1, TailElem
  <2>3. \A v \in Workers : v # w /\ Holds(n, v) => ~Elem(x, Held(n, v)) /\ Held(n, v) # Head(q)
    BY <1>8, <2>2
  <2>4. \A i : Elem(x, i) \/ i = Head(q) => InRun(n, i)
    BY <1>9, <2>2
  <2>5. QED
    BY <1>10, <2>1, <2>2, <2>3, <2>4
<1>15. QED
  BY <1>11, <1>12, <1>13, <1>14 DEF WorkerMoves

\* A worker's step keeps every part of the invariant but Calm.
LEMMA WorkerMovesKeep ==
  ASSUME IInv, NEW n \in Runs, NEW w \in Workers, WorkerMoves(n, w)
  PROVE  /\ TypeOK' /\ HoldsWhat' /\ Flags' /\ Hands' /\ Rows' /\ Dirty' /\ Fresh'
         /\ (run[n].calm /\ run[n].pc = "running" /\ Alone(n) /\ CalmRun(n) => CalmRun(n)') => Calm'
<1>1. TypeOK /\ HoldsWhat /\ Flags /\ Hands /\ Rows /\ Dirty /\ Fresh /\ Calm
  BY DEF IInv
<1>2. WorkerFrame(n, w) /\ WorkerData(n) /\ Busy(n, w)
  BY DEF WorkerMoves
<1>3. TypeOK'
  <2>1. listed \subseteq Items /\ mgr \in MgrRec
    BY <1>1, TypeIs
  <2>2. QED
    BY <1>2, <2>1 DEF WorkerFrame, WorkerData, TypeOK, ItemRec, MgrRec, RunRec, WorkerRec
<1>4. HoldsWhat'
  <2>1. ASSUME NEW m \in Runs, NEW v \in Workers
        PROVE  worker'[m][v].item \in Items <=> Holds(m, v)'
    <3>1. CASE m = n /\ v = w
      BY <3>1 DEF WorkerMoves
    <3>2. CASE ~(m = n /\ v = w)
      <4>1. worker'[m][v] = worker[m][v]
        BY <1>2, <3>2 DEF WorkerFrame
      <4>2. QED
        BY <1>1, <4>1 DEF HoldsWhat, Holds
    <3>3. QED
      BY <3>1, <3>2
  <2>2. QED
    BY <2>1 DEF HoldsWhat
<1>5. AtWork(n) /\ \A m \in Runs : AtWork(m)' => AtWork(m)
  <2>1. AtWork(n)
    BY <1>2 DEF AtWork
  <2>2. \A m \in Runs \ {n} : AtWork(m)' => AtWork(m)
    BY <1>2 DEF WorkerFrame, AtWork, Busy
  <2>3. QED
    BY <2>1, <2>2
<1>6. run[n].pc # "setup" /\ (run[n].pc = "running" \/ run[n].failed)
  BY <1>1, <1>5 DEF Flags
<1>7. \A m \in Runs : /\ run'[m].pc = run[m].pc /\ run'[m].failed = run[m].failed
                      /\ run'[m].cut = run[m].cut /\ run'[m].calm = run[m].calm
                      /\ run'[m].aborted = run[m].aborted
  BY <1>2 DEF WorkerFrame
<1>8. Flags'
  <2>1. mgr' = mgr /\ mgr.ctl \in Runs \cup {NoRun}
    BY <1>1, <1>2, TypeIs DEF WorkerFrame, MgrRec
  <2>2. QED
    BY <1>1, <1>5, <1>7, <2>1 DEF Flags
<1>9. HandsOf(n)' /\ \A i : InRun(n, i)' => InRun(n, i) \/ i \in listed
  BY <1>1, HandsAfter DEF Hands
<1>10. ASSUME NEW m \in Runs, m # n PROVE HandsOf(m)' /\ \A i : InRun(m, i)' <=> InRun(m, i)
  <2>1. SameHands(m) /\ HandsOf(m) /\ listed' = listed
    BY <1>1, <1>2, <1>10 DEF SameHands, WorkerFrame, Hands
  <2>2. run[m].next \in Nat /\ listed \subseteq Items /\ IsFiniteSet(listed) /\ listed \in SUBSET Nat
    <3>1. run[m] \in RunRec /\ listed \subseteq Items
      BY <1>1, TypeIs
    <3>2. QED
      BY <3>1, FS_Subset DEF RunRec
  <2>3. \A i \in listed' : i \in listed /\ Place(listed', i) <= Place(listed, i)
    BY <2>1, <2>2, PlaceAfterRemoval
  <2>4. HandsOf(m)'
    BY <2>1, <2>2, <2>3, HandsStay
  <2>5. QED
    BY <2>1, <2>4, SameInRun DEF SameHands
<1>11. Hands'
  BY <1>9, <1>10 DEF Hands
<1>12. Rows'
  <2>1. ASSUME NEW i \in Items
        PROVE  /\ item'[i] = item[i] \/ (item[i].status # "new" /\ item'[i].status # "new")
               /\ saved'[i] = saved[i]
                    \/ (i \notin free /\ item'[i].status # "new" /\ saved'[i] = item'[i].status)
    <3>1. InRun(n, i) => item[i].status # "new" /\ i \notin free
      BY <1>1 DEF Rows
    <3>2. QED
      BY <1>2, <3>1 DEF WorkerData
  <2>2. RowsMove
    BY <1>2, <1>9, <1>10, <2>1 DEF RowsMove, WorkerFrame
  <2>3. QED
    BY <1>1, <2>2, RowsKept
<1>13. Dirty'
  BY <1>6, <1>7 DEF Dirty
<1>14. Fresh'
  <2>1. ASSUME NEW m \in Runs, run'[m].pc = "setup" PROVE run'[m].next = 0 /\ run'[m].queue = <<>>
    <3>1. m # n
      BY <1>6, <1>7, <2>1
    <3>2. run'[m] = run[m]
      BY <1>2, <3>1 DEF WorkerFrame
    <3>3. QED
      BY <1>1, <2>1, <3>2 DEF Fresh
  <2>2. QED
    BY <2>1 DEF Fresh
<1>15. ASSUME run[n].calm /\ run[n].pc = "running" /\ Alone(n) /\ CalmRun(n) => CalmRun(n)'
       PROVE  Calm'
  <2>1. ASSUME NEW m \in Runs, m # n, run'[m].calm PROVE run'[m].pc \notin {"setup", "running"}
    <3>1. run[m].calm /\ run[m].pc = run'[m].pc
      BY <1>7, <2>1
    <3>2. QED
      BY <1>1, <1>5, <2>1, <3>1 DEF Calm, Alone
  <2>2. ASSUME run'[n].calm, run'[n].pc \in {"setup", "running"} PROVE Alone(n)' /\ CalmRun(n)'
    <3>1. run[n].calm /\ run[n].pc = "running" /\ Alone(n) /\ CalmRun(n)
      BY <1>1, <1>6, <1>7, <2>2 DEF Calm
    <3>2. \A m \in Runs \ {n} : ~Live(m)' /\ ~AtWork(m)'
      BY <1>5, <1>7, <3>1 DEF Alone, Live
    <3>3. Alone(n)'
      BY <1>2, <1>7, <3>1, <3>2 DEF Alone, WorkerFrame
    <3>4. QED
      BY <1>15, <3>1, <3>3
  <2>3. QED
    BY <2>1, <2>2 DEF Calm
<1>16. QED
  BY <1>3, <1>4, <1>8, <1>11, <1>12, <1>13, <1>14, <1>15

-----------------------------------------------------------------------------
(* The steps of a worker, one by one *)

LEMMA IdleIs ==
  Idle \in WorkerRec /\ Idle.pc = "off" /\ Idle.item = NoItem
BY DEF Idle, WorkerRec, WorkerPhase

LEMMA WorkerSet ==
  ASSUME worker \in [Runs -> [Workers -> WorkerRec]], NEW n \in Runs, NEW w \in Workers,
         NEW r \in WorkerRec, worker' = [worker EXCEPT ![n][w] = r]
  PROVE  /\ worker' \in [Runs -> [Workers -> WorkerRec]] /\ worker'[n][w] = r
         /\ \A m \in Runs \ {n} : worker'[m] = worker[m]
         /\ \A v \in Workers \ {w} : worker'[n][v] = worker[n][v]
<1>1. PICK f \in [Workers -> WorkerRec] : f = worker[n]
  OBVIOUS
<1>2. PICK g \in [Workers -> WorkerRec] : g = [f EXCEPT ![w] = r]
  OBVIOUS
<1>3. worker' = [worker EXCEPT ![n] = g]
  BY <1>1, <1>2
<1>4. g[w] = r /\ \A v \in Workers \ {w} : g[v] = f[v]
  BY <1>2
<1>5. QED
  BY <1>1, <1>3, <1>4

Gone == {"top", "exited", "rejected", "waiting"}

LEMMA LeftIs ==
  ASSUME worker \in [Runs -> [Workers -> WorkerRec]], NEW n \in Runs, NEW w \in Workers,
         NEW p \in Gone, Leave(n, w, p)
  PROVE  /\ worker' \in [Runs -> [Workers -> WorkerRec]]
         /\ worker'[n][w].pc = p /\ worker'[n][w].item = NoItem /\ ~Holds(n, w)'
         /\ \A m \in Runs \ {n} : worker'[m] = worker[m]
         /\ \A v \in Workers \ {w} : worker'[n][v] = worker[n][v]
<1>1. PICK a \in WorkerRec : a = Idle /\ a.item = NoItem
  BY IdleIs
<1> DEFINE r == [a EXCEPT !.pc = p]
<1>2. r \in WorkerRec /\ r.pc = p /\ r.item = NoItem
  BY <1>1 DEF WorkerRec, WorkerPhase, Gone
<1>3. worker' = [worker EXCEPT ![n][w] = r]
  BY <1>1 DEF Leave
<1> HIDE DEF r
<1>4. /\ worker' \in [Runs -> [Workers -> WorkerRec]] /\ worker'[n][w] = r
      /\ \A m \in Runs \ {n} : worker'[m] = worker[m]
      /\ \A v \in Workers \ {w} : worker'[n][v] = worker[n][v]
  BY <1>2, <1>3, WorkerSet
<1>5. ~Holds(n, w)'
  BY <1>2, <1>4 DEF Holds, Holding, Gone
<1>6. QED
  BY <1>2, <1>4, <1>5

LEMMA HeldIs ==
  ASSUME HoldsWhat, NEW n \in Runs, NEW w \in Workers, Holds(n, w)
  PROVE  Held(n, w) \in Items /\ InRun(n, Held(n, w)) /\ Busy(n, w)
BY DEF HoldsWhat, Held, Holds, Holding, InRun, Busy

\* The runs as they are.
LEMMA SameRuns ==
  ASSUME run \in [Runs -> RunRec], NEW n \in Runs, run' = run
  PROVE  /\ run' \in [Runs -> RunRec] /\ \A m \in Runs : run'[m] = run[m]
OBVIOUS

\* A worker that is done with its file: it lets go of it, and may queue it.
Settles(n, w) ==
  /\ Holds(n, w)
  /\ listed' = listed /\ mgr' = mgr /\ free' = free /\ stored' \subseteq Items
  /\ item' \in [Items -> ItemRec]
  /\ \A j \in Items : j # Held(n, w) => item'[j] = item[j]
  /\ Save(n, w, Held(n, w))
  /\ \/ /\ run' = run
        /\ \/ item'[Held(n, w)].status \in {"review", "error", "unfinished"}
           \/ item'[Held(n, w)].status = "queued" /\ ~item'[Held(n, w)].text
     \/ /\ run' = [run EXCEPT ![n].queue = Append(@, Held(n, w))]
        /\ w \in Extractors /\ ~run[n].only /\ item'[Held(n, w)].status = "queued"

LEMMA SettlesKeeps ==
  ASSUME IInv, NEW n \in Runs, NEW w \in Workers, Settles(n, w)
  PROVE  WorkerMoves(n, w) /\ (CalmRun(n) => CalmRun(n)')
<1>1. /\ TypeOK /\ HoldsWhat /\ HandsOf(n)
      /\ run \in [Runs -> RunRec] /\ worker \in [Runs -> [Workers -> WorkerRec]]
      /\ saved \in [Items -> Status \cup {NoRow}] /\ run[n].queue \in Seq(Items)
  <2>1. TypeOK /\ HoldsWhat /\ HandsOf(n)
    BY DEF IInv, Hands
  <2>2. run[n] \in RunRec
    BY <2>1, TypeIs
  <2>3. QED
    BY <2>1, <2>2, TypeIs DEF RunRec
<1>2. PICK i \in Items : i = Held(n, w)
  BY <1>1, HeldIs DEF Settles
<1>3. InRun(n, i) /\ Busy(n, w) /\ Holds(n, w) /\ ~Queued(n, i)
  BY <1>1, <1>2, HeldIs DEF Settles, HandsOf
<1>4. /\ item' \in [Items -> ItemRec] /\ \A j \in Items : j # i => item'[j] = item[j]
      /\ item'[i].status # "new"
  BY <1>2 DEF Settles
<1>5. PICK p \in {"top", "rejected"} : Saves({i}) /\ Leave(n, w, p)
  <2>1. CASE Written({i}) /\ Leave(n, w, "top")
    <3>1. Saves({i})
      BY <1>1, <1>4, <2>1, SavedSaves DEF Saved
    <3>2. QED
      BY <2>1, <3>1
  <2>2. CASE WriteFails({i}) /\ Leave(n, w, "rejected")
    <3>1. Saves({i})
      BY <1>1, <1>4, <2>2, SavedSaves DEF Saved
    <3>2. QED
      BY <2>2, <3>1
  <2>3. Save(n, w, i)
    BY <1>2 DEF Settles
  <2>4. QED
    BY <2>1, <2>2, <2>3 DEF Save
<1>6. p \in Gone
  BY DEF Gone
<1>7. /\ worker' \in [Runs -> [Workers -> WorkerRec]]
      /\ worker'[n][w].pc = p /\ worker'[n][w].item = NoItem /\ ~Holds(n, w)'
      /\ \A m \in Runs \ {n} : worker'[m] = worker[m]
      /\ \A v \in Workers \ {w} : worker'[n][v] = worker[n][v]
  BY <1>1, <1>5, <1>6, LeftIs
<1>8. PICK q \in Seq(Items) :
        /\ run' = [run EXCEPT ![n] = [@ EXCEPT !.queue = q]]
        /\ \/ /\ q = run[n].queue
              /\ \/ item'[i].status \in {"review", "error", "unfinished"}
                 \/ item'[i].status = "queued" /\ ~item'[i].text
           \/ /\ q = Append(run[n].queue, i)
              /\ w \in Extractors /\ ~run[n].only /\ item'[i].status = "queued"
  <2>1. PICK a \in RunRec : a = run[n]
    BY <1>1
  <2>2. a = [a EXCEPT !.queue = a.queue]
    BY DEF RunRec
  <2>3. CASE /\ run' = run
             /\ \/ item'[i].status \in {"review", "error", "unfinished"}
                \/ item'[i].status = "queued" /\ ~item'[i].text
    <3>1. run' = [run EXCEPT ![n] = [@ EXCEPT !.queue = run[n].queue]]
      <4>1. run = [run EXCEPT ![n] = a]
        BY <1>1, <2>1
      <4>2. QED
        BY <2>1, <2>2, <2>3, <4>1
    <3>2. QED
      BY <1>1, <2>3, <3>1
  <2>4. CASE /\ run' = [run EXCEPT ![n].queue = Append(@, i)]
             /\ w \in Extractors /\ ~run[n].only /\ item'[i].status = "queued"
    <3>1. Append(run[n].queue, i) \in Seq(Items)
      BY <1>1
    <3>2. run' = [run EXCEPT ![n] = [@ EXCEPT !.queue = Append(run[n].queue, i)]]
      BY <2>4
    <3>3. QED
      BY <2>4, <3>1, <3>2
  <2>5. QED
    BY <1>2, <2>3, <2>4 DEF Settles
<1>9. /\ run' \in [Runs -> RunRec] /\ \A m \in Runs \ {n} : run'[m] = run[m]
      /\ run'[n].queue = q /\ run'[n].next = run[n].next
      /\ run'[n].pc = run[n].pc /\ run'[n].scope = run[n].scope /\ run'[n].only = run[n].only
      /\ run'[n].aborted = run[n].aborted /\ run'[n].failed = run[n].failed
      /\ run'[n].cut = run[n].cut /\ run'[n].calm = run[n].calm
  <2>1. PICK a \in RunRec : a = run[n]
    BY <1>1
  <2> DEFINE b == [a EXCEPT !.queue = q]
  <2>2. /\ b \in RunRec /\ b.queue = q /\ b.next = a.next /\ b.pc = a.pc /\ b.scope = a.scope
        /\ b.only = a.only /\ b.aborted = a.aborted /\ b.failed = a.failed
        /\ b.cut = a.cut /\ b.calm = a.calm
    BY DEF RunRec
  <2>3. run' = [run EXCEPT ![n] = b]
    BY <1>8, <2>1
  <2> HIDE DEF b
  <2>4. QED
    BY <1>1, <2>1, <2>2, <2>3
<1>10. WorkerFrame(n, w)
  BY <1>7, <1>9 DEF Settles, WorkerFrame
<1>11. WorkerData(n)
  BY <1>3, <1>4, <1>5 DEF Settles, WorkerData, Saves
<1>12. Gives(n, w)
  BY <1>2, <1>3, <1>7, <1>8, <1>9 DEF Gives
<1>13. WorkerMoves(n, w)
  BY <1>3, <1>7, <1>10, <1>11, <1>12 DEF WorkerMoves
<1>14. ASSUME CalmRun(n) PROVE CalmRun(n)'
  <2>1. w \in Analysts => ~run[n].only /\ q = run[n].queue
    <3>1. worker[n][w].pc # "exited"
      BY <1>3 DEF Holds, Holding
    <3>2. QED
      BY <1>8, <1>14, <3>1 DEF CalmRun
  <2>2. \A v \in Workers : v # w => worker'[n][v] = worker[n][v]
    BY <1>7
  <2>3. worker'[n][w].pc \in {"top", "rejected"} /\ worker[n][w].pc \in Holding
    BY <1>3, <1>7 DEF Holds
  <2>4. \A v \in Workers : worker'[n][v].pc = "analyzing" => worker'[n][v].ctl = n
    BY <1>14, <2>2, <2>3 DEF CalmRun
  <2>5. run'[n].only => run'[n].queue = <<>> /\ \A v \in Analysts : worker'[n][v].pc = "exited"
    <3>1. ASSUME run'[n].only PROVE run'[n].queue = <<>>
      BY <1>8, <1>9, <1>14, <3>1 DEF CalmRun
    <3>2. ASSUME run'[n].only, NEW v \in Analysts PROVE worker'[n][v].pc = "exited"
      <4>1. worker[n][v].pc = "exited" /\ v \in Workers
        BY <1>9, <1>14, <3>2 DEF CalmRun, Workers
      <4>2. v # w
        BY <2>3, <4>1 DEF Holding
      <4>3. QED
        BY <2>2, <4>1, <4>2
    <3>3. QED
      BY <3>1, <3>2
  <2>6. ASSUME ~run'[n].only, NEW v \in Analysts, worker'[n][v].pc = "exited"
        PROVE  run'[n].queue = <<>> /\ ExtractorsDone(n)'
    <3>1. v # w /\ v \in Workers /\ worker[n][v].pc = "exited"
      BY <2>2, <2>3, <2>6 DEF Workers
    <3>2. run[n].queue = <<>> /\ ExtractorsDone(n)
      BY <1>9, <1>14, <2>6, <3>1 DEF CalmRun
    <3>3. w \notin Extractors
      BY <2>3, <3>2 DEF ExtractorsDone, Holding
    <3>4. w \in Analysts /\ \A u \in Extractors : u # w /\ u \in Workers
      BY <3>3 DEF Workers
    <3>5. QED
      BY <1>9, <2>1, <2>2, <3>2, <3>4 DEF ExtractorsDone
  <2>7. ASSUME ~Rejected(n)' PROVE Followed(n)'
    <3>1. ~Rejected(n)
      <4>1. ASSUME NEW v \in Workers, worker[n][v].pc = "rejected" PROVE FALSE
        <5>1. v # w
          BY <2>3, <4>1 DEF Holding
        <5>2. QED
          BY <2>2, <2>7, <4>1, <5>1 DEF Rejected
      <4>2. QED
        BY <4>1 DEF Rejected
    <3>2. Followed(n)
      BY <1>14, <3>1 DEF CalmRun
    <3>3. /\ \A j : Queued(n, j) => Queued(n, j)'
          /\ \A j : Queued(n, j)' => Queued(n, j) \/ (j = i /\ item'[i].status = "queued")
          /\ q # run[n].queue => Queued(n, i)'
      <4>1. CASE q = run[n].queue
        BY <1>9, <4>1 DEF Queued
      <4>2. CASE q = Append(run[n].queue, i) /\ item'[i].status = "queued"
        <5>1. PICK o \in Seq(Items) : o = run[n].queue
          BY <1>1
        <5>2. \A j : Elem(q, j) <=> Elem(o, j) \/ j = i
          BY <4>2, <5>1, AppendElem
        <5>3. \A j : (Queued(n, j) <=> Elem(o, j)) /\ (Queued(n, j)' <=> Elem(q, j))
          BY <1>9, <5>1 DEF Queued, Elem
        <5>4. QED
          BY <4>2, <5>2, <5>3
      <4>3. QED
        BY <1>8, <4>1, <4>2
    <3>4. ASSUME NEW j \in listed \cap run[n].scope
          PROVE  /\ InRun(n, j)' \/ Settled(j)' \/ Ahead(n, j)'
                 /\ Queued(n, j)' => item'[j].status \notin {"extracting", "analyzing"}
      <4>0. j \in Items
        BY <1>1, TypeIs
      <4>1. CASE j = i
        <5>1. Queued(n, j)' => item'[j].status \notin {"extracting", "analyzing"}
          BY <1>3, <3>3, <4>1
        <5>2. CASE q = run[n].queue
          BY <1>8, <4>1, <5>1, <5>2, <1>3, <3>3 DEF Settled, InRun
        <5>3. CASE q # run[n].queue
          BY <3>3, <4>1, <5>1, <5>3 DEF InRun
        <5>4. QED
          BY <5>2, <5>3
      <4>2. CASE j # i
        <5>1. item'[j] = item[j]
          BY <1>4, <4>0, <4>2
        <5>2. InRun(n, j) => InRun(n, j)'
          <6>1. ASSUME NEW v \in Workers, Holds(n, v), Held(n, v) = j PROVE InRun(n, j)'
            <7>1. v # w
              BY <1>2, <4>2, <6>1
            <7>2. Holds(n, v)' /\ Held(n, v)' = j
              BY <2>2, <6>1, <7>1 DEF Holds, Held
            <7>3. QED
              BY <7>2 DEF InRun
          <6>2. Queued(n, j) => InRun(n, j)'
            BY <3>3 DEF InRun
          <6>3. QED
            BY <6>1, <6>2 DEF InRun
        <5>3. Settled(j) => Settled(j)'
          BY <5>1 DEF Settled
        <5>4. Ahead(n, j) => Ahead(n, j)'
          <6>1. \A v \in Extractors : v \in Workers
            BY DEF Workers
          <6>2. listed' = listed
            BY DEF Settles
          <6>3. QED
            BY <1>9, <2>2, <2>3, <5>1, <6>1, <6>2 DEF Ahead
        <5>5. QED
          BY <3>2, <3>3, <3>4, <4>2, <5>1, <5>2, <5>3, <5>4 DEF Followed
      <4>3. QED
        BY <4>1, <4>2
    <3>5. QED
      BY <1>9, <3>4 DEF Followed, Settles
  <2>8. QED
    BY <2>4, <2>5, <2>6, <2>7 DEF CalmRun
<1>15. QED
  BY <1>13, <1>14

LEMMA TextReadyIs ==
  ASSUME item \in [Items -> ItemRec], run \in [Runs -> RunRec],
         NEW n \in Runs, NEW i \in Items, TextReady(n, i)
  PROVE  /\ item' \in [Items -> ItemRec] /\ \A j \in Items : j # i => item'[j] = item[j]
         /\ \/ run' = run /\ item'[i].status = "review"
            \/ /\ run' = [run EXCEPT ![n].queue = Append(@, i)]
               /\ ~run[n].only /\ item'[i].status = "queued"
<1>1. PICK s \in {"review", "queued"} : s = IF run[n].only THEN "review" ELSE "queued"
  OBVIOUS
<1> DEFINE r == [status |-> s, text |-> TRUE]
<1>2. r \in ItemRec /\ r.status = s
  BY DEF ItemRec, Status
<1>3. item' = [item EXCEPT ![i] = r]
  BY <1>1 DEF TextReady
<1> HIDE DEF r
<1>4. /\ item' \in [Items -> ItemRec] /\ \A j \in Items : j # i => item'[j] = item[j]
      /\ item'[i].status = s
  BY <1>2, <1>3
<1>5. CASE run[n].only
  <2>1. PICK a \in RunRec : a = run[n]
    OBVIOUS
  <2>2. a = [a EXCEPT !.queue = a.queue]
    BY DEF RunRec
  <2>3. run' = [run EXCEPT ![n] = [a EXCEPT !.queue = a.queue]]
    BY <1>5, <2>1 DEF TextReady
  <2>4. run = [run EXCEPT ![n] = a]
    BY <2>1
  <2>5. QED
    BY <1>1, <1>4, <1>5, <2>2, <2>3, <2>4
<1>6. CASE ~run[n].only
  <2>1. run' = [run EXCEPT ![n].queue = Append(@, i)]
    BY <1>6 DEF TextReady
  <2>2. QED
    BY <1>1, <1>4, <1>6, <2>1
<1>7. QED
  BY <1>5, <1>6

\* The steps that settle a file.
LEMMA StepsSettle ==
  ASSUME IInv, NEW n \in Runs, NEW w \in Workers,
         \/ w \in Extractors /\ Looked(n, w) /\ worker'[n][w].pc # "extracting"
         \/ w \in Extractors /\ (Extracted(n, w) \/ ExtractFails(n, w))
         \/ Analyzed(n, w)
  PROVE  Settles(n, w)
<1>1. /\ HoldsWhat /\ item \in [Items -> ItemRec] /\ stored \subseteq Items
      /\ run \in [Runs -> RunRec]
  BY TypeIs DEF IInv
<1>2. Holds(n, w)
  BY DEF Looked, Extracted, ExtractFails, Analyzed, Holds, Holding
<1>3. PICK i \in Items : i = Held(n, w)
  BY <1>1, <1>2, HeldIs
<1>4. ASSUME NEW s \in {"review", "error", "unfinished"}, SetStatus({i}, s)
      PROVE  /\ item' \in [Items -> ItemRec] /\ \A j \in Items : j # i => item'[j] = item[j]
             /\ item'[i].status = s
  <2>1. s \in Status
    BY DEF Status
  <2>2. QED
    BY <1>1, <1>4, <2>1, StatusIs
<1>5. CASE Looked(n, w) /\ w \in Extractors /\ worker'[n][w].pc # "extracting"
  <2>1. listed' = listed /\ mgr' = mgr /\ stored' = stored /\ free' = free
    BY <1>5 DEF Looked
  <2>2. CASE SetStatus({i}, "review") /\ run' = run /\ Save(n, w, i)
    <3>1. PICK s \in {"review", "error", "unfinished"} : s = "review"
      OBVIOUS
    <3>2. /\ item' \in [Items -> ItemRec] /\ \A j \in Items : j # i => item'[j] = item[j]
          /\ item'[i].status = s
      BY <1>4, <2>2, <3>1
    <3>3. QED
      BY <1>1, <1>2, <1>3, <2>1, <2>2, <3>2 DEF Settles
  <2>3. CASE TextReady(n, i) /\ Save(n, w, i)
    BY <1>1, <1>2, <1>3, <1>5, <2>1, <2>3, TextReadyIs DEF Settles
  <2>4. CASE Goto(n, w, "extracting")
    <3>1. worker[n][w] \in WorkerRec
      BY TypeIs DEF IInv
    <3>2. worker'[n][w].pc = "extracting"
      BY <2>4, <3>1, TypeIs DEF Goto, IInv, WorkerRec
    <3>3. QED
      BY <1>5, <3>2
  <2>5. QED
    BY <1>3, <1>5, <2>2, <2>3, <2>4 DEF Looked
<1>6. CASE Extracted(n, w) /\ w \in Extractors
  <2>1. listed' = listed /\ mgr' = mgr /\ free' = free /\ Save(n, w, i)
    BY <1>3, <1>6 DEF Extracted
  <2>2. CASE TextReady(n, i) /\ stored' = stored \cup (IF saved[i] = NoRow THEN {} ELSE {i})
    <3>1. stored' \subseteq Items
      BY <1>1, <2>2
    <3>2. QED
      BY <1>1, <1>2, <1>3, <1>6, <2>1, <2>2, <3>1, TextReadyIs DEF Settles
  <2>3. CASE /\ item' = [item EXCEPT ![i] =
                           [status |-> IF run[n].only THEN "review" ELSE "queued", text |-> FALSE]]
             /\ run' = run /\ stored' = stored
    <3>1. PICK s \in {"review", "queued"} : s = IF run[n].only THEN "review" ELSE "queued"
      OBVIOUS
    <3> DEFINE r == [status |-> s, text |-> FALSE]
    <3>2. r \in ItemRec /\ r.status = s /\ ~r.text
      BY DEF ItemRec, Status
    <3>3. item' = [item EXCEPT ![i] = r]
      BY <2>3, <3>1
    <3> HIDE DEF r
    <3>4. /\ item' \in [Items -> ItemRec] /\ \A j \in Items : j # i => item'[j] = item[j]
          /\ item'[i].status = s /\ ~item'[i].text
      BY <1>1, <3>2, <3>3
    <3>5. QED
      BY <1>1, <1>2, <1>3, <2>1, <2>3, <3>4 DEF Settles
  <2>4. QED
    BY <1>3, <1>6, <2>2, <2>3 DEF Extracted
<1>7. CASE ExtractFails(n, w)
  <2>1. PICK s \in {"unfinished", "error"} : SetStatus({i}, s)
    BY <1>3, <1>7 DEF ExtractFails
  <2>2. s \in {"review", "error", "unfinished"}
    BY <2>1
  <2>3. /\ item' \in [Items -> ItemRec] /\ \A j \in Items : j # i => item'[j] = item[j]
        /\ item'[i].status = s
    BY <1>4, <2>1, <2>2
  <2>4. /\ listed' = listed /\ mgr' = mgr /\ run' = run /\ stored' = stored /\ free' = free
        /\ Save(n, w, i)
    BY <1>3, <1>7 DEF ExtractFails
  <2>5. QED
    BY <1>1, <1>2, <1>3, <2>2, <2>3, <2>4 DEF Settles
<1>8. CASE Analyzed(n, w)
  <2>1. PICK s \in {"review", "error", "unfinished"} : SetStatus({i}, s)
    BY <1>3, <1>8 DEF Analyzed
  <2>2. /\ item' \in [Items -> ItemRec] /\ \A j \in Items : j # i => item'[j] = item[j]
        /\ item'[i].status = s
    BY <1>4, <2>1
  <2>3. /\ listed' = listed /\ mgr' = mgr /\ run' = run /\ stored' = stored /\ free' = free
        /\ Save(n, w, i)
    BY <1>3, <1>8 DEF Analyzed
  <2>4. QED
    BY <1>1, <1>2, <1>3, <2>1, <2>2, <2>3 DEF Settles
<1>9. QED
  BY <1>5, <1>6, <1>7, <1>8

\* A worker that drops its file without a save.
LEMMA DropsMove ==
  ASSUME IInv, NEW n \in Runs, NEW w \in Workers, Holds(n, w), NEW p \in Gone, Leave(n, w, p),
         listed' = listed, mgr' = mgr, free' = free, stored' = stored, run' = run, saved' = saved,
         item' \in [Items -> ItemRec],
         \A j \in Items : \/ item'[j] = item[j]
                          \/ j = Held(n, w) /\ item'[j].status \in {"queued", "unfinished"}
  PROVE  WorkerMoves(n, w)
<1>1. /\ HoldsWhat /\ stored \subseteq Items /\ run \in [Runs -> RunRec]
      /\ worker \in [Runs -> [Workers -> WorkerRec]]
      /\ saved \in [Items -> Status \cup {NoRow}]
  BY TypeIs DEF IInv
<1>2. Held(n, w) \in Items /\ InRun(n, Held(n, w)) /\ Busy(n, w)
  BY <1>1, HeldIs
<1>3. /\ worker' \in [Runs -> [Workers -> WorkerRec]]
      /\ worker'[n][w].item = NoItem /\ ~Holds(n, w)'
      /\ \A m \in Runs \ {n} : worker'[m] = worker[m]
      /\ \A v \in Workers \ {w} : worker'[n][v] = worker[n][v]
  BY <1>1, LeftIs
<1>4. WorkerFrame(n, w) /\ Gives(n, w)
  BY <1>1, <1>3 DEF WorkerFrame, Gives
<1>5. WorkerData(n)
  BY <1>1, <1>2 DEF WorkerData
<1>6. QED
  BY <1>2, <1>3, <1>4, <1>5 DEF WorkerMoves

LEMMA StopsMove ==
  ASSUME IInv, NEW n \in Runs, NEW w \in Workers, ExtractStopped(n, w) \/ AnalysisStopped(n, w)
  PROVE  WorkerMoves(n, w) /\ ~(Alone(n) /\ CalmRun(n))
<1>1. /\ HoldsWhat /\ item \in [Items -> ItemRec]
  BY TypeIs DEF IInv
<1>2. /\ Holds(n, w) /\ listed' = listed /\ mgr' = mgr /\ free' = free /\ stored' = stored
      /\ run' = run /\ saved' = saved
  BY DEF ExtractStopped, AnalysisStopped, Unsaved, Holds, Holding
<1>3. PICK i \in Items : i = Held(n, w)
  BY <1>1, <1>2, HeldIs
<1>4. PICK s \in {"queued", "unfinished"} : SetStatus({i}, s)
  BY <1>3 DEF ExtractStopped, AnalysisStopped
<1>5. /\ item' \in [Items -> ItemRec]
      /\ \A j \in Items : \/ item'[j] = item[j]
                          \/ j = i /\ item'[j].status \in {"queued", "unfinished"}
  <2>1. s \in Status
    BY <1>4 DEF Status
  <2>2. QED
    BY <1>1, <1>4, <2>1, StatusIs
<1>6. PICK p \in Gone : p = "exited" /\ Leave(n, w, p)
  BY DEF ExtractStopped, AnalysisStopped, Gone
<1>7. WorkerMoves(n, w)
  BY <1>2, <1>3, <1>5, <1>6, DropsMove
<1>8. ASSUME Alone(n), CalmRun(n) PROVE FALSE
  <2>1. ~mgr.stop /\ mgr.ctl = n /\ ~run[n].aborted
    BY <1>8 DEF Alone
  <2>2. worker[n][w].pc = "analyzing" => worker[n][w].ctl = n
    BY <1>8 DEF CalmRun
  <2>3. QED
    BY <2>1, <2>2 DEF ExtractStopped, AnalysisStopped, Halted, Abortable
<1>9. QED
  BY <1>7, <1>8

LEMMA LookupFailsMoves ==
  ASSUME IInv, NEW n \in Runs, NEW w \in Extractors, LookupFails(n, w)
  PROVE  WorkerMoves(n, w) /\ (CalmRun(n) => CalmRun(n)')
<1>0. w \in Workers /\ w \notin Analysts /\ \A v \in Extractors \cup Analysts : v \in Workers
  BY DEF Workers
<1>1. item \in [Items -> ItemRec] /\ worker \in [Runs -> [Workers -> WorkerRec]]
  BY TypeIs DEF IInv
<1>2. /\ Holds(n, w) /\ listed' = listed /\ mgr' = mgr /\ free' = free /\ stored' = stored
      /\ run' = run /\ saved' = saved /\ item' = item /\ worker[n][w].pc = "looking"
  BY DEF LookupFails, Holds, Holding
<1>3. PICK p \in Gone : p = "rejected" /\ Leave(n, w, p)
  BY DEF LookupFails, Gone
<1>4. WorkerMoves(n, w)
  BY <1>0, <1>1, <1>2, <1>3, DropsMove
<1>5. /\ worker'[n][w].pc = "rejected"
      /\ \A v \in Workers \ {w} : worker'[n][v] = worker[n][v]
  BY <1>0, <1>1, <1>3, LeftIs
<1>6. ASSUME CalmRun(n) PROVE CalmRun(n)'
  <2>1. \A v \in Analysts : worker'[n][v] = worker[n][v]
    BY <1>0, <1>5
  <2>2. \A v \in Workers : worker'[n][v].pc = "analyzing" => worker'[n][v].ctl = n
    BY <1>5, <1>6 DEF CalmRun
  <2>3. Rejected(n)'
    BY <1>0, <1>5 DEF Rejected
  <2>4. ~ExtractorsDone(n)
    BY <1>2 DEF ExtractorsDone
  <2>5. QED
    BY <1>2, <1>6, <2>1, <2>2, <2>3, <2>4 DEF CalmRun
<1>7. QED
  BY <1>4, <1>6

\* The file has to be read.
LEMMA GoesOnMoves ==
  ASSUME IInv, NEW n \in Runs, NEW w \in Extractors, Looked(n, w),
         worker'[n][w].pc = "extracting"
  PROVE  WorkerMoves(n, w) /\ (CalmRun(n) => CalmRun(n)')
<1>0. w \in Workers /\ w \notin Analysts /\ \A v \in Extractors \cup Analysts : v \in Workers
  BY DEF Workers
<1>1. /\ HoldsWhat /\ HandsOf(n) /\ item \in [Items -> ItemRec] /\ stored \subseteq Items
      /\ run \in [Runs -> RunRec] /\ worker \in [Runs -> [Workers -> WorkerRec]]
      /\ saved \in [Items -> Status \cup {NoRow}] /\ listed \subseteq Items
  BY TypeIs DEF IInv, Hands
<1>2. /\ Holds(n, w) /\ worker[n][w].pc = "looking"
      /\ listed' = listed /\ mgr' = mgr /\ stored' = stored /\ free' = free
  BY DEF Looked, Holds, Holding
<1>3. PICK i \in Items : i = Held(n, w)
  BY <1>0, <1>1, <1>2, HeldIs
<1>4. InRun(n, i) /\ Busy(n, w) /\ ~Queued(n, i)
  BY <1>0, <1>1, <1>2, <1>3, HeldIs DEF HandsOf
<1>5. ~Save(n, w, i)
  <2>1. ASSUME NEW p \in {"top", "rejected"}, Leave(n, w, p) PROVE FALSE
    <3>1. p \in Gone
      BY DEF Gone
    <3>2. worker'[n][w].pc = p
      BY <1>0, <1>1, <2>1, <3>1, LeftIs
    <3>3. QED
      BY <3>2
  <2>2. Save(n, w, i) => \E p \in {"top", "rejected"} : Leave(n, w, p)
    BY DEF Save
  <2>3. QED
    BY <2>1, <2>2
<1>6. /\ SetStatus({i}, "extracting") /\ Goto(n, w, "extracting") /\ Unsaved /\ run' = run
  BY <1>3, <1>5 DEF Looked
<1>7. /\ item' \in [Items -> ItemRec] /\ \A j \in Items : j # i => item'[j] = item[j]
      /\ item'[i].status = "extracting"
  <2>1. PICK s \in Status : s = "extracting"
    BY DEF Status
  <2>2. SetStatus({i}, s)
    BY <1>6, <2>1
  <2>3. QED
    BY <1>1, <2>1, <2>2, StatusIs
<1>8. /\ worker' \in [Runs -> [Workers -> WorkerRec]]
      /\ worker'[n][w].item = i
      /\ \A m \in Runs \ {n} : worker'[m] = worker[m]
      /\ \A v \in Workers \ {w} : worker'[n][v] = worker[n][v]
  <2>1. PICK a \in WorkerRec : a = worker[n][w]
    BY <1>0, <1>1
  <2> DEFINE b == [a EXCEPT !.pc = "extracting"]
  <2>2. b \in WorkerRec /\ b.item = a.item
    BY DEF WorkerRec, WorkerPhase
  <2>3. worker' = [worker EXCEPT ![n][w] = b]
    BY <1>6, <2>1 DEF Goto
  <2>4. a.item = i
    BY <1>3, <2>1 DEF Held
  <2> HIDE DEF b
  <2>5. QED
    BY <1>0, <1>1, <2>2, <2>3, <2>4, WorkerSet
<1>9. Holds(n, w)' /\ Held(n, w)' = i
  BY <1>8 DEF Holds, Holding, Held
<1>10. WorkerFrame(n, w) /\ GoesOn(n, w)
  BY <1>1, <1>2, <1>3, <1>6, <1>8, <1>9 DEF WorkerFrame, GoesOn
<1>11. WorkerData(n)
  BY <1>1, <1>2, <1>4, <1>6, <1>7 DEF WorkerData, Unsaved
<1>12. WorkerMoves(n, w)
  BY <1>4, <1>8, <1>9, <1>10, <1>11 DEF WorkerMoves
<1>13. ASSUME CalmRun(n) PROVE CalmRun(n)'
  <2>1. \A v \in Analysts : worker'[n][v] = worker[n][v]
    BY <1>0, <1>8
  <2>2. \A v \in Workers : worker'[n][v].pc = "analyzing" => worker'[n][v].ctl = n
    BY <1>8, <1>13 DEF CalmRun
  <2>3. ~ExtractorsDone(n)
    BY <1>2 DEF ExtractorsDone
  <2>4. ASSUME ~Rejected(n)' PROVE Followed(n)'
    <3>1. ~Rejected(n)
      BY <1>2, <1>8, <2>4 DEF Rejected
    <3>2. Followed(n)
      BY <1>13, <3>1 DEF CalmRun
    <3>3. \A j : Queued(n, j)' <=> Queued(n, j)
      BY <1>6 DEF Queued
    <3>4. ASSUME NEW j \in listed \cap run[n].scope
          PROVE  /\ InRun(n, j)' \/ Settled(j)' \/ Ahead(n, j)'
                 /\ Queued(n, j)' => item'[j].status \notin {"extracting", "analyzing"}
      <4>1. CASE j = i
        BY <1>0, <1>4, <1>9, <3>3, <4>1 DEF InRun
      <4>2. CASE j # i
        <5>1. item'[j] = item[j]
          BY <1>1, <1>7, <4>2
        <5>2. InRun(n, j) => InRun(n, j)'
          <6>1. ASSUME NEW v \in Workers, Holds(n, v), Held(n, v) = j PROVE InRun(n, j)'
            <7>1. v # w
              BY <1>3, <4>2, <6>1
            <7>2. Holds(n, v)' /\ Held(n, v)' = j
              BY <1>8, <6>1, <7>1 DEF Holds, Held
            <7>3. QED
              BY <7>2 DEF InRun
          <6>2. Queued(n, j) => InRun(n, j)'
            BY <3>3 DEF InRun
          <6>3. QED
            BY <6>1, <6>2 DEF InRun
        <5>3. Settled(j) => Settled(j)'
          BY <5>1 DEF Settled
        <5>4. Ahead(n, j) => Ahead(n, j)'
          BY <1>0, <1>2, <1>6, <1>8, <5>1 DEF Ahead
        <5>5. QED
          BY <3>2, <3>3, <3>4, <5>1, <5>2, <5>3, <5>4 DEF Followed
      <4>3. QED
        BY <4>1, <4>2
    <3>5. QED
      BY <1>2, <1>6, <3>4 DEF Followed
  <2>5. QED
    BY <1>6, <1>13, <2>1, <2>2, <2>3, <2>4 DEF CalmRun
<1>14. QED
  BY <1>12, <1>13

\* The index goes to the next file that needs processing, or to the end.
LEMMA VisitIs ==
  ASSUME IInv, NEW n \in Runs, NEW w \in Extractors, Visit(n, w), ~mgr.stop
  PROVE  \E up \in Nat :
           /\ up <= Cardinality(listed)
           /\ \A i \in listed : run[n].next <= Place(listed, i) /\ NeedsProcessing(n, i)
                                  => up <= Place(listed, i)
           /\ Passed(n, run[n].next, up) \in Seq(Items)
           /\ WorkerFrame(n, w)
           /\ run'[n].queue = run[n].queue \o Passed(n, run[n].next, up)
           /\ run'[n].next > up /\ run'[n].next >= run[n].next
           /\ \/ /\ up = Cardinality(listed)
                 /\ worker'[n][w].pc = "exited" /\ worker'[n][w].item = NoItem
              \/ /\ up < Cardinality(listed) /\ run[n].next <= up /\ run'[n].next = up + 1
                 /\ worker'[n][w].pc = "looking" /\ worker'[n][w].item = Nth(up)
<1> DEFINE len == Cardinality(listed)
           ahead == {k \in run[n].next .. len - 1 : NeedsProcessing(n, Nth(k))}
<1>0. w \in Workers
  BY DEF Workers
<1>1. /\ run \in [Runs -> RunRec] /\ worker \in [Runs -> [Workers -> WorkerRec]]
      /\ listed \subseteq Items /\ len \in Nat
      /\ run[n].next \in Nat /\ run[n].queue \in Seq(Items)
  <2>1. listed \subseteq Items /\ run \in [Runs -> RunRec] /\ worker \in [Runs -> [Workers -> WorkerRec]]
    BY TypeIs DEF IInv
  <2>2. run[n] \in RunRec
    BY <2>1
  <2>3. IsFiniteSet(listed)
    BY <2>1, FS_Subset
  <2>4. QED
    BY <2>1, <2>2, <2>3, FS_CardinalityType DEF RunRec
<1>2. PICK next \in Nat : next = run[n].next
  BY <1>1
<1>3. PICK S \in SUBSET Nat : S = ahead /\ \A k \in S : next <= k /\ k < len
  <2>1. \A k \in next .. len - 1 : k \in Nat /\ next <= k /\ k < len
    BY <1>1
  <2>2. QED
    BY <1>2, <2>1
<1>4. PICK up : up = IF S = {} THEN len ELSE Least(S)
  OBVIOUS
<1>5. /\ up \in Nat /\ up <= len
      /\ S # {} => up \in S /\ next <= up /\ up < len
      /\ S = {} => up = len
      /\ \A k \in S : up <= k
  <2>1. CASE S = {}
    BY <1>1, <1>4, <2>1
  <2>2. CASE S # {}
    <3>1. Least(S) \in S /\ \A j \in S : Least(S) <= j
      BY <2>2, LeastIs
    <3>2. QED
      BY <1>1, <1>3, <1>4, <2>2, <3>1
  <2>3. QED
    BY <2>1, <2>2
<1>6. ASSUME NEW i \in listed, next <= Place(listed, i), NeedsProcessing(n, i)
      PROVE  up <= Place(listed, i)
  <2>1. /\ Place(listed, i) \in Nat /\ Place(listed, i) < len /\ Nth(Place(listed, i)) = i
    BY <1>1, NthOfPlace
  <2>2. Place(listed, i) \in next .. len - 1
    BY <1>1, <1>6, <2>1
  <2>3. Place(listed, i) \in S
    BY <1>2, <1>3, <1>6, <2>1, <2>2
  <2>4. QED
    BY <1>5, <2>3
<1>7. PICK p \in Seq(Items) : p = Passed(n, next, up)
  BY <1>1, <1>5, PassedIs
<1>8. PICK x \in Nat : x = IF next > len THEN next + 1 ELSE up + 1
  BY <1>5
<1>9. x > up /\ x >= next /\ (up < len /\ next <= up => x = up + 1)
  BY <1>1, <1>5, <1>8
<1>10. PICK a \in RunRec : a = run[n]
  BY <1>1
<1>11. PICK q \in Seq(Items) : q = run[n].queue \o p
  <2>1. PICK o \in Seq(Items) : o = run[n].queue
    BY <1>1
  <2>2. o \o p \in Seq(Items)
    BY ConcatElem
  <2>3. QED
    BY <2>1, <2>2
<1>12. /\ run' = [run EXCEPT ![n] = [a EXCEPT !.next = x, !.queue = q]]
       /\ worker' = [worker EXCEPT ![n][w] =
                      IF S = {} THEN [Idle EXCEPT !.pc = "exited"]
                      ELSE [Idle EXCEPT !.pc = "looking", !.item = Nth(up)]]
       /\ listed' = listed /\ mgr' = mgr /\ free' = free
  <2>1. /\ run' = [run EXCEPT ![n] = [run[n] EXCEPT
                     !.next = IF next > len THEN next + 1 ELSE up + 1,
                     !.queue = run[n].queue \o Passed(n, next, up)]]
        /\ worker' = [worker EXCEPT ![n][w] =
                       IF S = {} THEN [Idle EXCEPT !.pc = "exited"]
                       ELSE [Idle EXCEPT !.pc = "looking", !.item = Nth(up)]]
        /\ listed' = listed /\ mgr' = mgr /\ free' = free
    BY <1>2, <1>3, <1>4 DEF Visit, VisitBy
  <2>2. QED
    BY <1>7, <1>8, <1>10, <1>11, <2>1
<1> HIDE DEF len, ahead
<1> DEFINE b == [a EXCEPT !.next = x, !.queue = q]
<1>13. /\ b \in RunRec /\ b.next = x /\ b.queue = q /\ b.pc = a.pc /\ b.scope = a.scope
       /\ b.only = a.only /\ b.aborted = a.aborted /\ b.failed = a.failed
       /\ b.cut = a.cut /\ b.calm = a.calm
  BY DEF RunRec
<1>14. PICK c \in WorkerRec :
         /\ worker' = [worker EXCEPT ![n][w] = c]
         /\ \/ S = {} /\ c.pc = "exited" /\ c.item = NoItem
            \/ S # {} /\ c.pc = "looking" /\ c.item = Nth(up)
  <2>1. PICK d \in WorkerRec : d = Idle /\ d.item = NoItem
    BY IdleIs
  <2>2. CASE S = {}
    <3> DEFINE c == [d EXCEPT !.pc = "exited"]
    <3>1. c \in WorkerRec /\ c.pc = "exited" /\ c.item = d.item
      BY DEF WorkerRec, WorkerPhase
    <3>2. worker' = [worker EXCEPT ![n][w] = c]
      BY <1>12, <2>1, <2>2
    <3> HIDE DEF c
    <3>3. QED
      BY <2>1, <2>2, <3>1, <3>2
  <2>3. CASE S # {}
    <3>1. PICK i \in Items : i = Nth(up)
      BY <1>1, <1>5, <2>3, NthIs DEF len
    <3> DEFINE c == [d EXCEPT !.pc = "looking", !.item = i]
    <3>2. c \in WorkerRec /\ c.pc = "looking" /\ c.item = i
      BY DEF WorkerRec, WorkerPhase
    <3>3. worker' = [worker EXCEPT ![n][w] = c]
      BY <1>12, <2>1, <2>3, <3>1
    <3> HIDE DEF c
    <3>4. QED
      BY <2>3, <3>1, <3>2, <3>3
  <2>4. QED
    BY <2>2, <2>3
<1>15. /\ run' = [run EXCEPT ![n] = b]
  BY <1>12
<1> HIDE DEF b
<1>16. run'[n] = b /\ run' \in [Runs -> RunRec] /\ \A m \in Runs \ {n} : run'[m] = run[m]
  BY <1>1, <1>13, <1>15
<1>17. /\ worker' \in [Runs -> [Workers -> WorkerRec]] /\ worker'[n][w] = c
       /\ \A m \in Runs \ {n} : worker'[m] = worker[m]
       /\ \A v \in Workers \ {w} : worker'[n][v] = worker[n][v]
  BY <1>0, <1>1, <1>14, WorkerSet
<1>18. WorkerFrame(n, w)
  BY <1>10, <1>12, <1>13, <1>16, <1>17 DEF WorkerFrame
<1>19. /\ \/ /\ up = len
             /\ worker'[n][w].pc = "exited" /\ worker'[n][w].item = NoItem
          \/ /\ up < len /\ next <= up /\ run'[n].next = up + 1
             /\ worker'[n][w].pc = "looking" /\ worker'[n][w].item = Nth(up)
       /\ run'[n].next = x /\ run'[n].queue = q
  BY <1>5, <1>9, <1>13, <1>14, <1>16, <1>17
<1>20. QED
  BY <1>2, <1>5, <1>6, <1>7, <1>9, <1>11, <1>18, <1>19 DEF len

LEMMA VisitMoves ==
  ASSUME IInv, NEW n \in Runs, NEW w \in Extractors, Visit(n, w)
  PROVE  WorkerMoves(n, w) /\ (Alone(n) /\ CalmRun(n) => CalmRun(n)')
<1>0. w \in Workers /\ w \notin Analysts /\ \A v \in Extractors \cup Analysts : v \in Workers
  BY DEF Workers
<1>1. /\ HoldsWhat /\ HandsOf(n) /\ item \in [Items -> ItemRec] /\ stored \subseteq Items
      /\ run \in [Runs -> RunRec] /\ worker \in [Runs -> [Workers -> WorkerRec]]
      /\ saved \in [Items -> Status \cup {NoRow}] /\ listed \subseteq Items
      /\ run[n].next \in Nat /\ run[n].queue \in Seq(Items)
      /\ \A i \in listed : Place(listed, i) \in Nat
  <2>1. HoldsWhat /\ HandsOf(n) /\ TypeOK
    BY DEF IInv, Hands
  <2>2. run[n] \in RunRec /\ listed \subseteq Items
    BY <2>1, TypeIs
  <2>3. \A i \in listed : Place(listed, i) \in Nat
    BY <2>1, <2>2, NthOfPlace
  <2>4. QED
    BY <2>1, <2>2, <2>3, TypeIs DEF RunRec
<1>2. /\ worker[n][w].pc = "top" /\ Busy(n, w) /\ ~Holds(n, w)
      /\ listed' = listed /\ mgr' = mgr /\ stored' = stored /\ free' = free
      /\ item' = item /\ saved' = saved
  BY DEF Visit, VisitBy, Unsaved, Busy, Holds, Holding
<1>3. WorkerData(n)
  BY <1>1, <1>2 DEF WorkerData
<1>4. CASE mgr.stop
  <2>1. Leave(n, w, "exited") /\ run' = run
    BY <1>4 DEF Visit, VisitBy
  <2>2. PICK p \in Gone : p = "exited" /\ Leave(n, w, p)
    BY <2>1 DEF Gone
  <2>3. /\ worker' \in [Runs -> [Workers -> WorkerRec]]
        /\ worker'[n][w].item = NoItem /\ ~Holds(n, w)'
        /\ \A m \in Runs \ {n} : worker'[m] = worker[m]
        /\ \A v \in Workers \ {w} : worker'[n][v] = worker[n][v]
    BY <1>0, <1>1, <2>2, LeftIs
  <2>4. WorkerFrame(n, w) /\ Gives(n, w)
    BY <1>1, <1>2, <2>1, <2>3 DEF WorkerFrame, Gives
  <2>5. WorkerMoves(n, w)
    BY <1>2, <1>3, <2>3, <2>4 DEF WorkerMoves
  <2>6. QED
    BY <1>4, <2>5 DEF Alone
<1>5. CASE ~mgr.stop
  <2>1. PICK up \in Nat :
          /\ up <= Cardinality(listed)
          /\ \A i \in listed : run[n].next <= Place(listed, i) /\ NeedsProcessing(n, i)
                                 => up <= Place(listed, i)
          /\ Passed(n, run[n].next, up) \in Seq(Items)
          /\ WorkerFrame(n, w)
          /\ run'[n].queue = run[n].queue \o Passed(n, run[n].next, up)
          /\ run'[n].next > up /\ run'[n].next >= run[n].next
          /\ \/ /\ up = Cardinality(listed)
                /\ worker'[n][w].pc = "exited" /\ worker'[n][w].item = NoItem
             \/ /\ up < Cardinality(listed) /\ run[n].next <= up /\ run'[n].next = up + 1
                /\ worker'[n][w].pc = "looking" /\ worker'[n][w].item = Nth(up)
    BY <1>5, VisitIs
  <2>2. PICK p \in Seq(Items) : p = Passed(n, run[n].next, up)
    BY <2>1
  <2>3. PICK next \in Nat : next = run[n].next
    BY <1>1
  <2>4. PICK next2 \in Nat : next2 = run'[n].next /\ next2 > up /\ next2 >= next
    <3>1. run'[n] \in RunRec
      BY <2>1 DEF WorkerFrame
    <3>2. QED
      BY <2>1, <2>3, <3>1 DEF RunRec
  <2>5. /\ run[n].only => p = <<>>
        /\ \A i : Elem(p, i) => i \in listed /\ next <= Place(listed, i) /\ Place(listed, i) < up
        /\ Distinct(p)
    <3>1. /\ run[n].only => Passed(n, next, up) = <<>>
          /\ \A m \in DOMAIN Passed(n, next, up) :
               LET i == Passed(n, next, up)[m] IN
               i \in listed /\ next <= Place(listed, i) /\ Place(listed, i) < up
          /\ \A m, l \in DOMAIN Passed(n, next, up) :
               Passed(n, next, up)[m] = Passed(n, next, up)[l] => m = l
      BY <1>1, <2>1, PassedIs
    <3>2. QED
      BY <2>2, <2>3, <3>1 DEF Elem, Distinct
  <2>6. ASSUME up < Cardinality(listed), next <= up, next2 = up + 1,
               worker'[n][w].pc = "looking", worker'[n][w].item = Nth(up)
        PROVE  WorkerMoves(n, w)
    <3>1. PICK g \in listed : g = Nth(up) /\ Place(listed, g) = up /\ g \in Items
      BY <1>1, <2>6, NthIs
    <3>2. Holds(n, w)' /\ Held(n, w)' = g /\ worker'[n][w].item = g
      BY <2>6, <3>1 DEF Holds, Holding, Held
    <3>3. ~Elem(p, g)
      BY <2>5, <3>1
    <3>4. \A i : Elem(p, i) => Place(listed, i) < next2
      <4>1. ASSUME NEW i, Elem(p, i) PROVE Place(listed, i) < next2
        <5>1. i \in listed /\ Place(listed, i) \in Nat /\ Place(listed, i) < up
          BY <1>1, <2>5, <4>1
        <5>2. QED
          BY <2>4, <5>1
      <4>2. QED
        BY <4>1
    <3>5. Visits(n, w)
      BY <1>2, <2>1, <2>2, <2>3, <2>4, <2>5, <2>6, <3>1, <3>2, <3>3, <3>4 DEF Visits
    <3>6. QED
      BY <1>2, <1>3, <2>1, <3>1, <3>2, <3>5 DEF WorkerMoves
  <2>7. ASSUME up = Cardinality(listed), worker'[n][w].pc = "exited", worker'[n][w].item = NoItem
        PROVE  WorkerMoves(n, w)
    <3>1. ~Holds(n, w)' /\ worker'[n][w].item \notin Items
      BY <2>7 DEF Holds, Holding
    <3>2. \A i : Elem(p, i) => Place(listed, i) < next2
      <4>1. ASSUME NEW i, Elem(p, i) PROVE Place(listed, i) < next2
        <5>1. i \in listed /\ Place(listed, i) \in Nat /\ Place(listed, i) < up
          BY <1>1, <2>5, <4>1
        <5>2. QED
          BY <2>4, <5>1
      <4>2. QED
        BY <4>1
    <3>3. Visits(n, w)
      BY <1>2, <2>1, <2>2, <2>3, <2>4, <2>5, <3>1, <3>2 DEF Visits
    <3>4. QED
      BY <1>2, <1>3, <2>1, <3>1, <3>3 DEF WorkerMoves
  <2>8. WorkerMoves(n, w)
    BY <2>1, <2>3, <2>4, <2>6, <2>7
  <2>9. ASSUME Alone(n), CalmRun(n) PROVE CalmRun(n)'
    <3>1. /\ \A v \in Workers : v # w => worker'[n][v] = worker[n][v]
          /\ run'[n].only = run[n].only /\ run'[n].scope = run[n].scope
      BY <2>1 DEF WorkerFrame
    <3>2. /\ \A v \in Analysts : worker'[n][v] = worker[n][v]
          /\ worker'[n][w].pc \in {"looking", "exited"}
      BY <1>0, <2>1, <3>1
    <3>3. \A v \in Workers : worker'[n][v].pc = "analyzing" => worker'[n][v].ctl = n
      BY <2>9, <3>1, <3>2 DEF CalmRun
    <3>4. run'[n].only => run'[n].queue = <<>> /\ \A v \in Analysts : worker'[n][v].pc = "exited"
      <4>1. ASSUME run[n].only PROVE run'[n].queue = <<>>
        <5>1. run[n].queue = <<>> /\ p = <<>>
          BY <2>5, <2>9, <4>1 DEF CalmRun
        <5>2. run'[n].queue = <<>> \o <<>>
          BY <2>1, <2>2, <5>1
        <5>3. QED
          BY <5>2
      <4>2. QED
        BY <2>9, <3>1, <3>2, <4>1 DEF CalmRun
    <3>5. ~ExtractorsDone(n)
      BY <1>2 DEF ExtractorsDone
    <3>6. ~run'[n].only => \A v \in Analysts : worker'[n][v].pc # "exited"
      BY <2>9, <3>1, <3>2, <3>5 DEF CalmRun
    <3>7. ASSUME ~Rejected(n)' PROVE Followed(n)'
      <4>1. ~Rejected(n)
        BY <1>2, <3>1, <3>7 DEF Rejected
      <4>2. Followed(n)
        BY <2>9, <4>1 DEF CalmRun
      <4>3. \A j : Queued(n, j)' <=> Queued(n, j) \/ Elem(p, j)
        <5>1. PICK o \in Seq(Items) : o = run[n].queue
          BY <1>1
        <5>2. run'[n].queue = o \o p
          BY <2>1, <2>2, <5>1
        <5>3. \A j : Elem(o \o p, j) <=> Elem(o, j) \/ Elem(p, j)
          BY ConcatElem
        <5>4. QED
          BY <5>1, <5>2, <5>3 DEF Queued, Elem
      <4>4. ASSUME NEW j \in listed \cap run[n].scope
            PROVE  /\ InRun(n, j)' \/ Settled(j)' \/ Ahead(n, j)'
                   /\ Queued(n, j)' => item'[j].status \notin {"extracting", "analyzing"}
        <5>1. /\ InRun(n, j) \/ Settled(j) \/ Ahead(n, j)
              /\ Queued(n, j) => item[j].status \notin {"extracting", "analyzing"}
              /\ Place(listed, j) \in Nat
          BY <1>1, <4>2, <4>4 DEF Followed
        <5>2. InRun(n, j) => InRun(n, j)'
          <6>1. ASSUME NEW v \in Workers, Holds(n, v), Held(n, v) = j PROVE InRun(n, j)'
            <7>1. v # w
              BY <1>2, <6>1
            <7>2. Holds(n, v)' /\ Held(n, v)' = j
              BY <3>1, <6>1, <7>1 DEF Holds, Held
            <7>3. QED
              BY <7>2 DEF InRun
          <6>2. Queued(n, j) => InRun(n, j)'
            BY <4>3 DEF InRun
          <6>3. QED
            BY <6>1, <6>2 DEF InRun
        <5>3. Settled(j) => Settled(j)'
          BY <1>2 DEF Settled
        <5>4. Ahead(n, j) => InRun(n, j)' \/ Ahead(n, j)'
          <6>1. ASSUME Ahead(n, j) PROVE InRun(n, j)' \/ Ahead(n, j)'
            <7>1. /\ next <= Place(listed, j) /\ item[j].status = "queued"
                  /\ \A v \in Extractors : worker[n][v].pc # "exited"
              BY <2>3, <6>1 DEF Ahead
            <7>2. up <= Place(listed, j)
              BY <2>1, <2>3, <4>4, <7>1 DEF NeedsProcessing
            <7>3. Place(listed, j) < Cardinality(listed) /\ Cardinality(listed) \in Nat
                  /\ Nth(Place(listed, j)) = j
              BY <1>1, NthOfPlace
            <7>4. /\ up < Cardinality(listed) /\ next2 = up + 1
                  /\ worker'[n][w].pc = "looking" /\ worker'[n][w].item = Nth(up)
              BY <2>1, <2>4, <5>1, <7>2, <7>3
            <7>5. CASE Place(listed, j) = up
              <8>1. Holds(n, w)' /\ Held(n, w)' = j
                BY <7>3, <7>4, <7>5 DEF Holds, Holding, Held
              <8>2. QED
                BY <1>0, <8>1 DEF InRun
            <7>6. CASE Place(listed, j) # up
              <8>1. next2 <= Place(listed, j)
                BY <5>1, <7>2, <7>4, <7>6
              <8>2. \A v \in Extractors : worker'[n][v].pc # "exited"
                BY <1>0, <3>1, <7>1, <7>4
              <8>3. QED
                BY <1>2, <2>4, <7>1, <8>1, <8>2 DEF Ahead
            <7>7. QED
              BY <7>5, <7>6
          <6>2. QED
            BY <6>1
        <5>5. ASSUME Elem(p, j) PROVE item[j].status \notin {"extracting", "analyzing"}
          <6>1. next <= Place(listed, j)
            BY <2>5, <5>5
          <6>2. ~InRun(n, j)
            <7>1. InRun(n, j) => Place(listed, j) < next
              BY <1>1, <2>3, <4>4 DEF HandsOf
            <7>2. QED
              BY <5>1, <6>1, <7>1
          <6>3. QED
            BY <5>1, <6>2 DEF Settled, Ahead
        <5>6. QED
          BY <1>2, <4>3, <5>1, <5>2, <5>3, <5>4, <5>5
      <4>5. QED
        BY <1>2, <3>1, <4>4 DEF Followed
    <3>8. QED
      BY <3>3, <3>4, <3>6, <3>7 DEF CalmRun
  <2>10. QED
    BY <2>8, <2>9
<1>6. QED
  BY <1>4, <1>5

LEMMA TakeMoves ==
  ASSUME IInv, NEW n \in Runs, NEW w \in Analysts, Take(n, w)
  PROVE  WorkerMoves(n, w) /\ (Alone(n) /\ CalmRun(n) => CalmRun(n)')
<1>0. w \in Workers /\ w \notin Extractors /\ \A v \in Extractors \cup Analysts : v \in Workers
  BY DEF Workers
<1>1. /\ HoldsWhat /\ HandsOf(n) /\ Rows /\ item \in [Items -> ItemRec] /\ stored \subseteq Items
      /\ run \in [Runs -> RunRec] /\ worker \in [Runs -> [Workers -> WorkerRec]]
      /\ saved \in [Items -> Status \cup {NoRow}] /\ listed \subseteq Items
      /\ run[n] \in RunRec /\ run[n].queue \in Seq(Items) /\ mgr \in MgrRec
  <2>1. HoldsWhat /\ HandsOf(n) /\ Rows /\ TypeOK
    BY DEF IInv, Hands
  <2>2. run[n] \in RunRec
    BY <2>1, TypeIs
  <2>3. QED
    BY <2>1, <2>2, TypeIs DEF RunRec
<1>2. /\ worker[n][w].pc \in {"top", "waiting"} /\ Busy(n, w) /\ ~Holds(n, w)
      /\ listed' = listed /\ mgr' = mgr /\ stored' = stored /\ free' = free /\ saved' = saved
  BY DEF Take, TakeUntil, Unsaved, Busy, Holds, Holding
<1>3. PICK q \in Seq(Items) : q = run[n].queue
  BY <1>1
<1>4. PICK i : i = Head(q)
  OBVIOUS
<1>5. PICK needed \in BOOLEAN :
        needed = (item[i].status \in {"queued", "unfinished"} /\ item[i].text /\ i \in run[n].scope)
  OBVIOUS
<1>6. \/ /\ worker[n][w].pc = "top" /\ Halted /\ Leave(n, w, "exited") /\ run' = run /\ item' = item
      \/ /\ q = <<>> /\ run' = run /\ item' = item
         /\ Leave(n, w, IF ExtractorsDone(n) THEN "exited" ELSE "waiting")
      \/ /\ q # <<>> /\ run' = [run EXCEPT ![n].queue = Tail(q)]
         /\ \/ /\ needed /\ SetStatus({i}, "analyzing")
               /\ worker' = [worker EXCEPT ![n][w] = [pc |-> "analyzing", item |-> i, ctl |-> mgr.ctl]]
            \/ ~needed /\ Leave(n, w, "top") /\ item' = item
  BY <1>3, <1>4, <1>5 DEF Take, TakeUntil
<1>7. ASSUME Alone(n), CalmRun(n) PROVE ~run[n].only /\ ~Halted
  BY <1>2, <1>7 DEF Alone, CalmRun, Halted, Abortable
<1>8. ASSUME NEW p \in Gone, Leave(n, w, p), run' = run, item' = item
      PROVE  /\ WorkerMoves(n, w) /\ worker'[n][w].pc = p
             /\ \A v \in Workers \ {w} : worker'[n][v] = worker[n][v]
             /\ \A j : InRun(n, j) => InRun(n, j)'
             /\ \A j : Queued(n, j)' <=> Queued(n, j)
  <2>1. /\ worker' \in [Runs -> [Workers -> WorkerRec]]
        /\ worker'[n][w].pc = p /\ worker'[n][w].item = NoItem /\ ~Holds(n, w)'
        /\ \A m \in Runs \ {n} : worker'[m] = worker[m]
        /\ \A v \in Workers \ {w} : worker'[n][v] = worker[n][v]
    BY <1>0, <1>1, <1>8, LeftIs
  <2>2. WorkerFrame(n, w) /\ Gives(n, w)
    BY <1>1, <1>2, <1>8, <2>1 DEF WorkerFrame, Gives
  <2>3. WorkerData(n)
    BY <1>1, <1>2, <1>8 DEF WorkerData
  <2>4. \A j : Queued(n, j)' <=> Queued(n, j)
    BY <1>8 DEF Queued
  <2>5. ASSUME NEW j, NEW v \in Workers, Holds(n, v), Held(n, v) = j PROVE InRun(n, j)'
    <3>1. v # w
      BY <1>2, <2>5
    <3>2. Holds(n, v)' /\ Held(n, v)' = j
      BY <2>1, <2>5, <3>1 DEF Holds, Held
    <3>3. QED
      BY <3>2 DEF InRun
  <2>6. \A j : InRun(n, j) => InRun(n, j)'
    <3>1. \A j : Queued(n, j) => InRun(n, j)'
      BY <2>4 DEF InRun
    <3>2. QED
      BY <2>5, <3>1 DEF InRun
  <2>7. WorkerMoves(n, w)
    BY <1>2, <2>1, <2>2, <2>3 DEF WorkerMoves
  <2>8. QED
    BY <2>1, <2>4, <2>6, <2>7
<1>9. CASE worker[n][w].pc = "top" /\ Halted /\ Leave(n, w, "exited") /\ run' = run /\ item' = item
  <2>1. PICK p \in Gone : p = "exited" /\ Leave(n, w, p)
    BY <1>9 DEF Gone
  <2>2. WorkerMoves(n, w)
    BY <1>8, <1>9, <2>1
  <2>3. QED
    BY <1>7, <1>9, <2>2
<1>10. CASE /\ q = <<>> /\ run' = run /\ item' = item
            /\ Leave(n, w, IF ExtractorsDone(n) THEN "exited" ELSE "waiting")
  <2>1. PICK p \in Gone : p = (IF ExtractorsDone(n) THEN "exited" ELSE "waiting") /\ Leave(n, w, p)
    BY <1>10 DEF Gone
  <2>2. /\ WorkerMoves(n, w) /\ worker'[n][w].pc = p
        /\ \A v \in Workers \ {w} : worker'[n][v] = worker[n][v]
        /\ \A j : InRun(n, j) => InRun(n, j)'
        /\ \A j : Queued(n, j)' <=> Queued(n, j)
    BY <1>8, <1>10, <2>1
  <2>3. ASSUME Alone(n), CalmRun(n) PROVE CalmRun(n)'
    <3>1. \A v \in Extractors : worker'[n][v] = worker[n][v]
      BY <1>0, <2>2
    <3>2. p \in {"exited", "waiting"} /\ (p = "exited" => ExtractorsDone(n))
      BY <2>1
    <3>3. ExtractorsDone(n)' <=> ExtractorsDone(n)
      BY <3>1 DEF ExtractorsDone
    <3>4. \A v \in Workers : worker'[n][v].pc = "analyzing" => worker'[n][v].ctl = n
      BY <2>2, <2>3, <3>2 DEF CalmRun
    <3>5. ASSUME NEW v \in Analysts, worker'[n][v].pc = "exited" PROVE ExtractorsDone(n)
      <4>1. CASE v = w
        BY <2>2, <3>2, <3>5, <4>1
      <4>2. CASE v # w
        BY <1>0, <1>7, <2>2, <2>3, <3>5, <4>2 DEF CalmRun
      <4>3. QED
        BY <4>1, <4>2
    <3>6. ASSUME ~Rejected(n)' PROVE Followed(n)'
      <4>1. ~Rejected(n)
        BY <1>2, <2>2, <3>6 DEF Rejected
      <4>2. Followed(n)
        BY <2>3, <4>1 DEF CalmRun
      <4>3. \A j : (Settled(j) => Settled(j)') /\ (Ahead(n, j) => Ahead(n, j)')
        BY <1>2, <1>10, <3>1 DEF Settled, Ahead
      <4>4. QED
        BY <1>2, <1>10, <2>2, <4>2, <4>3 DEF Followed
    <3>7. QED
      BY <1>3, <1>7, <1>10, <2>3, <3>3, <3>4, <3>5, <3>6 DEF CalmRun
  <2>4. QED
    BY <2>2, <2>3
<1>11. CASE q # <<>> /\ run' = [run EXCEPT ![n].queue = Tail(q)]
  <2>1. /\ i \in Items /\ Tail(q) \in Seq(Items)
        /\ \A j : Elem(q, j) <=> j = i \/ Elem(Tail(q), j)
        /\ Distinct(q) => ~Elem(Tail(q), i)
    BY <1>4, <1>11, TailElem
  <2>2. \A j : Queued(n, j) <=> Elem(q, j)
    BY <1>3 DEF Queued, Elem
  <2>3. /\ run' \in [Runs -> RunRec] /\ \A m \in Runs \ {n} : run'[m] = run[m]
        /\ run'[n].queue = Tail(q) /\ run'[n].next = run[n].next
        /\ run'[n].pc = run[n].pc /\ run'[n].scope = run[n].scope /\ run'[n].only = run[n].only
        /\ run'[n].aborted = run[n].aborted /\ run'[n].failed = run[n].failed
        /\ run'[n].cut = run[n].cut /\ run'[n].calm = run[n].calm
    <3>1. PICK a \in RunRec : a = run[n]
      BY <1>1
    <3>2. PICK t \in Seq(Items) : t = Tail(q)
      BY <2>1
    <3> DEFINE b == [a EXCEPT !.queue = t]
    <3>3. /\ b \in RunRec /\ b.queue = t /\ b.next = a.next /\ b.pc = a.pc /\ b.scope = a.scope
          /\ b.only = a.only /\ b.aborted = a.aborted /\ b.failed = a.failed
          /\ b.cut = a.cut /\ b.calm = a.calm
      BY DEF RunRec
    <3>4. run' = [run EXCEPT ![n] = b]
      BY <1>11, <3>1, <3>2
    <3> HIDE DEF b
    <3>5. QED
      BY <1>1, <3>1, <3>2, <3>3, <3>4
  <2>4. \A j : Queued(n, j)' <=> Elem(Tail(q), j)
    BY <2>3 DEF Queued, Elem
  <2>5. /\ Queued(n, i) /\ ~Queued(n, i)' /\ InRun(n, i)
        /\ \A j : j # i => (Queued(n, j)' <=> Queued(n, j))
    <3>1. Distinct(q)
      BY <1>1, <1>3 DEF HandsOf, Distinct
    <3>2. QED
      BY <2>1, <2>2, <2>4, <3>1 DEF InRun
  <2>6. PICK c \in WorkerRec :
          /\ worker' = [worker EXCEPT ![n][w] = c]
          /\ item' \in [Items -> ItemRec]
          /\ \A j \in Items : j # i => item'[j] = item[j]
          /\ \/ /\ c.pc = "analyzing" /\ c.item = i /\ c.ctl = mgr.ctl
                /\ item'[i].status = "analyzing" /\ needed
             \/ c.pc = "top" /\ c.item = NoItem /\ item' = item /\ ~needed
    <3>1. CASE /\ needed /\ SetStatus({i}, "analyzing")
               /\ worker' = [worker EXCEPT ![n][w] = [pc |-> "analyzing", item |-> i, ctl |-> mgr.ctl]]
      <4>1. PICK s \in Status : s = "analyzing" /\ SetStatus({i}, s)
        BY <3>1 DEF Status
      <4>2. /\ item' \in [Items -> ItemRec]
            /\ \A j \in Items : j # i => item'[j] = item[j]
            /\ item'[i].status = "analyzing"
        BY <1>1, <2>1, <4>1, StatusIs
      <4>3. mgr.ctl \in Runs \cup {NoRun}
        BY <1>1 DEF MgrRec
      <4> DEFINE c == [pc |-> "analyzing", item |-> i, ctl |-> mgr.ctl]
      <4>4. c \in WorkerRec /\ c.pc = "analyzing" /\ c.item = i /\ c.ctl = mgr.ctl
        BY <2>1, <4>3 DEF WorkerRec, WorkerPhase
      <4>5. worker' = [worker EXCEPT ![n][w] = c]
        BY <3>1
      <4> HIDE DEF c
      <4>6. QED
        BY <3>1, <4>2, <4>4, <4>5
    <3>2. CASE ~needed /\ Leave(n, w, "top") /\ item' = item
      <4>1. PICK d \in WorkerRec : d = Idle /\ d.item = NoItem
        BY IdleIs
      <4> DEFINE c == [d EXCEPT !.pc = "top"]
      <4>2. c \in WorkerRec /\ c.pc = "top" /\ c.item = d.item
        BY DEF WorkerRec, WorkerPhase
      <4>3. worker' = [worker EXCEPT ![n][w] = c]
        BY <3>2, <4>1 DEF Leave
      <4> HIDE DEF c
      <4>4. QED
        BY <1>1, <3>2, <4>1, <4>2, <4>3
    <3>3. CASE worker[n][w].pc = "top" /\ Halted /\ Leave(n, w, "exited") /\ run' = run /\ item' = item
      <4>1. run'[n].queue = q
        BY <1>3, <3>3
      <4>2. Len(Tail(q)) # Len(q)
        BY <1>11
      <4>3. QED
        BY <2>3, <4>1, <4>2
    <3>4. QED
      BY <1>6, <1>11, <3>1, <3>2, <3>3
  <2>7. /\ worker' \in [Runs -> [Workers -> WorkerRec]] /\ worker'[n][w] = c
        /\ \A m \in Runs \ {n} : worker'[m] = worker[m]
        /\ \A v \in Workers \ {w} : worker'[n][v] = worker[n][v]
    BY <1>0, <1>1, <2>6, WorkerSet
  <2>8. /\ Holds(n, w)' <=> c.pc = "analyzing"
        /\ Held(n, w)' = c.item
    BY <2>6, <2>7 DEF Holds, Holding, Held
  <2>9. worker'[n][w].item \in Items <=> Holds(n, w)'
    BY <2>1, <2>6, <2>7, <2>8
  <2>10. WorkerFrame(n, w)
    BY <1>2, <2>3, <2>7 DEF WorkerFrame
  <2>11. WorkerData(n)
    BY <1>1, <1>2, <2>5, <2>6 DEF WorkerData
  <2>12. Takes(n, w)
    BY <1>2, <1>3, <1>4, <1>11, <2>3, <2>6, <2>8 DEF Takes
  <2>13. WorkerMoves(n, w)
    BY <1>2, <2>9, <2>10, <2>11, <2>12 DEF WorkerMoves
  <2>14. ASSUME Alone(n), CalmRun(n) PROVE CalmRun(n)'
    <3>1. /\ \A v \in Extractors : worker'[n][v] = worker[n][v]
          /\ worker'[n][w].pc \in {"analyzing", "top"} /\ mgr.ctl = n
      BY <1>0, <2>6, <2>7, <2>14 DEF Alone
    <3>2. \A v \in Workers : worker'[n][v].pc = "analyzing" => worker'[n][v].ctl = n
      BY <2>6, <2>7, <2>14, <3>1 DEF CalmRun
    <3>3. ~run[n].only /\ ~run'[n].only
      BY <1>7, <2>3, <2>14
    <3>4. ASSUME NEW v \in Analysts PROVE worker'[n][v].pc # "exited"
      <4>1. worker[n][v].pc # "exited"
        BY <1>3, <1>11, <2>14, <3>3 DEF CalmRun
      <4>2. CASE v = w
        BY <3>1, <4>2
      <4>3. CASE v # w
        BY <1>0, <2>7, <4>1, <4>3
      <4>4. QED
        BY <4>2, <4>3
    <3>5. ASSUME ~Rejected(n)' PROVE Followed(n)'
      <4>1. ~Rejected(n)
        BY <1>2, <2>7, <3>5 DEF Rejected
      <4>2. Followed(n)
        BY <2>14, <4>1 DEF CalmRun
      <4>3. ASSUME NEW j \in listed \cap run[n].scope
            PROVE  /\ InRun(n, j)' \/ Settled(j)' \/ Ahead(n, j)'
                   /\ Queued(n, j)' => item'[j].status \notin {"extracting", "analyzing"}
        <5>1. /\ InRun(n, j) \/ Settled(j) \/ Ahead(n, j)
              /\ Queued(n, j) => item[j].status \notin {"extracting", "analyzing"}
              /\ j \in Items /\ item[j].status \in Status /\ item[j].status # "new"
          <6>1. j \in Items /\ item[j] \in ItemRec /\ item[j].status # "new"
            BY <1>1, <4>3 DEF Rows
          <6>2. QED
            BY <4>2, <4>3, <6>1 DEF Followed, ItemRec
        <5>2. CASE j = i
          <6>1. CASE c.pc = "analyzing"
            BY <1>0, <2>5, <2>6, <2>8, <5>2, <6>1 DEF InRun
          <6>2. CASE c.pc # "analyzing"
            <7>1. item' = item /\ ~needed
              BY <2>6, <6>2
            <7>2. ~(item[j].status \in {"queued", "unfinished"} /\ item[j].text)
              BY <1>5, <4>3, <5>2, <7>1
            <7>3. item[j].status \notin {"extracting", "analyzing", "new"}
              BY <2>5, <5>1, <5>2
            <7>4. Settled(j)
              BY <5>1, <7>2, <7>3 DEF Settled, Status
            <7>5. QED
              BY <2>5, <5>2, <7>1, <7>4 DEF Settled
          <6>3. QED
            BY <6>1, <6>2
        <5>3. CASE j # i
          <6>1. item'[j] = item[j] /\ (Queued(n, j)' <=> Queued(n, j))
            BY <2>5, <2>6, <5>1, <5>3
          <6>2. ASSUME NEW v \in Workers, Holds(n, v), Held(n, v) = j PROVE InRun(n, j)'
            <7>1. v # w
              BY <1>2, <6>2
            <7>2. Holds(n, v)' /\ Held(n, v)' = j
              BY <2>7, <6>2, <7>1 DEF Holds, Held
            <7>3. QED
              BY <7>2 DEF InRun
          <6>3. InRun(n, j) => InRun(n, j)'
            BY <6>1, <6>2 DEF InRun
          <6>4. Settled(j) => Settled(j)'
            BY <6>1 DEF Settled
          <6>5. Ahead(n, j) => Ahead(n, j)'
            BY <1>2, <2>3, <3>1, <6>1 DEF Ahead
          <6>6. QED
            BY <5>1, <6>1, <6>3, <6>4, <6>5
        <5>4. QED
          BY <5>2, <5>3
      <4>4. QED
        BY <1>2, <2>3, <4>3 DEF Followed
    <3>6. QED
      BY <3>2, <3>3, <3>4, <3>5 DEF CalmRun
  <2>15. QED
    BY <2>13, <2>14
<1>12. QED
  BY <1>6, <1>9, <1>10, <1>11

-----------------------------------------------------------------------------
(* All steps *)

\* A worker's step moves what its run has in hand, and a calm run stays calm.
LEMMA WorkerStepsMove ==
  ASSUME IInv, NEW n \in Runs, NEW w \in Workers,
         (w \in Extractors /\ ExtractorStep(n, w)) \/ (w \in Analysts /\ AnalystStep(n, w))
  PROVE  WorkerMoves(n, w) /\ (Alone(n) /\ CalmRun(n) => CalmRun(n)')
<1>1. CASE w \in Extractors /\ ExtractorStep(n, w)
  <2>1. CASE Visit(n, w)
    BY <1>1, <2>1, VisitMoves
  <2>2. CASE Looked(n, w) /\ worker'[n][w].pc = "extracting"
    BY <1>1, <2>2, GoesOnMoves
  <2>3. CASE Looked(n, w) /\ worker'[n][w].pc # "extracting"
    <3>1. Settles(n, w)
      BY <1>1, <2>3, StepsSettle
    <3>2. QED
      BY <3>1, SettlesKeeps
  <2>4. CASE LookupFails(n, w)
    BY <1>1, <2>4, LookupFailsMoves
  <2>5. CASE Extracted(n, w) \/ ExtractFails(n, w)
    <3>1. Settles(n, w)
      BY <1>1, <2>5, StepsSettle
    <3>2. QED
      BY <3>1, SettlesKeeps
  <2>6. CASE ExtractStopped(n, w)
    BY <2>6, StopsMove
  <2>7. QED
    BY <1>1, <2>1, <2>2, <2>3, <2>4, <2>5, <2>6 DEF ExtractorStep
<1>2. CASE w \in Analysts /\ AnalystStep(n, w)
  <2>1. CASE Take(n, w)
    BY <1>2, <2>1, TakeMoves
  <2>2. CASE Analyzed(n, w)
    <3>1. Settles(n, w)
      BY <2>2, StepsSettle
    <3>2. QED
      BY <3>1, SettlesKeeps
  <2>3. CASE AnalysisStopped(n, w)
    BY <2>3, StopsMove
  <2>4. QED
    BY <1>2, <2>1, <2>2, <2>3 DEF AnalystStep
<1>3. QED
  BY <1>1, <1>2

LEMMA PendingKeeps ==
  ASSUME IInv, Pending
  PROVE  IInv'
<1>1. ASSUME NEW n \in Runs, RunStep(n)
      PROVE  IInv'
  <2>1. CASE Setup(n)
    BY <2>1, SetupKeeps
  <2>2. CASE SetupFails(n) \/ Finish(n) \/ Flushed(n)
    <3>1. EndsRun(n)
      BY <2>2, LastStepsEndRun
    <3>2. QED
      BY <3>1, EndsRunKeeps
  <2>3. QED
    BY <1>1, <2>1, <2>2 DEF RunStep
<1>2. ASSUME NEW n \in Runs, NEW w \in Workers,
             (w \in Extractors /\ ExtractorStep(n, w)) \/ (w \in Analysts /\ AnalystStep(n, w))
      PROVE  IInv'
  <2>1. WorkerMoves(n, w) /\ (Alone(n) /\ CalmRun(n) => CalmRun(n)')
    BY <1>2, WorkerStepsMove
  <2>2. /\ TypeOK' /\ HoldsWhat' /\ Flags' /\ Hands' /\ Rows' /\ Dirty' /\ Fresh'
        /\ Calm'
    BY <2>1, WorkerMovesKeep
  <2>3. QED
    BY <2>2 DEF IInv
<1>3. \A w \in Extractors \cup Analysts : w \in Workers
  BY DEF Workers
<1>4. CASE \E n \in Runs : RunStep(n)
  BY <1>1, <1>4
<1>5. CASE \E n \in Runs, w \in Extractors : ExtractorStep(n, w)
  <2>1. PICK n \in Runs, w \in Extractors : ExtractorStep(n, w)
    BY <1>5
  <2>2. w \in Workers
    BY <1>3
  <2>3. QED
    BY <1>2, <2>1, <2>2
<1>6. CASE \E n \in Runs, w \in Analysts : AnalystStep(n, w)
  <2>1. PICK n \in Runs, w \in Analysts : AnalystStep(n, w)
    BY <1>6
  <2>2. w \in Workers
    BY <1>3
  <2>3. QED
    BY <1>2, <2>1, <2>2
<1>7. QED
  BY <1>4, <1>5, <1>6 DEF Pending

\* The kinds of step there are.
LEMMA StepsAre ==
  ASSUME [Next]_vars
  PROVE  \/ SavingClick
         \/ \E S : RemoveItems(S)
         \/ \E i \in Items : AddItem(i)
         \/ Restart
         \/ Pending
         \/ UNCHANGED vars
<1>1. CASE Click
  <2>1. \A i \in Items : Remove(i) => \E S : RemoveItems(S)
    BY DEF Remove
  <2>2. Clear => \E S : RemoveItems(S)
    BY DEF Clear
  <2>3. QED
    BY <1>1, <2>1, <2>2 DEF Click, SavingClick
<1>2. CASE Work
  BY <1>2 DEF Work, SavingClick
<1>3. QED
  BY <1>1, <1>2 DEF Next

LEMMA StutterKeeps ==
  ASSUME IInv, UNCHANGED vars
  PROVE  IInv'
<1>1. /\ listed' = listed /\ item' = item /\ mgr' = mgr /\ run' = run /\ worker' = worker
      /\ saved' = saved /\ stored' = stored /\ lost' = lost /\ free' = free
  BY DEF vars
<1>2. /\ \A n, w : Busy(n, w)' <=> Busy(n, w)
      /\ \A n, w : Holds(n, w)' <=> Holds(n, w)
      /\ \A n, w : Held(n, w)' = Held(n, w)
      /\ \A n, i : Queued(n, i)' <=> Queued(n, i)
      /\ \A n : Live(n)' <=> Live(n)
      /\ \A i : Settled(i)' <=> Settled(i)
      /\ \A n, i : Ahead(n, i)' <=> Ahead(n, i)
      /\ \A n : Rejected(n)' <=> Rejected(n)
      /\ \A n : ExtractorsDone(n)' <=> ExtractorsDone(n)
  BY <1>1 DEF Busy, Holds, Held, Queued, Live, Settled, Ahead, Rejected, ExtractorsDone
<1>3. /\ \A n : AtWork(n)' <=> AtWork(n)
      /\ \A n, i : InRun(n, i)' <=> InRun(n, i)
  BY <1>2 DEF AtWork, InRun
<1>4. /\ \A n : Alone(n)' <=> Alone(n)
      /\ \A n : Followed(n)' <=> Followed(n)
  BY <1>1, <1>2, <1>3 DEF Alone, Followed
<1>5. \A n : CalmRun(n)' <=> CalmRun(n)
  BY <1>1, <1>2, <1>4 DEF CalmRun
<1>6. TypeOK' /\ HoldsWhat' /\ Fresh' /\ Dirty'
  BY <1>1, <1>2 DEF IInv, TypeOK, HoldsWhat, Fresh, Dirty
<1>7. Flags'
  BY <1>1, <1>3 DEF IInv, Flags
<1>8. Hands'
  BY <1>1, <1>2, <1>3 DEF IInv, Hands, HandsOf
<1>9. Rows'
  BY <1>1, <1>3 DEF IInv, Rows
<1>10. Calm'
  BY <1>1, <1>4, <1>5 DEF IInv, Calm
<1>11. QED
  BY <1>6, <1>7, <1>8, <1>9, <1>10 DEF IInv

LEMMA NextKeeps ==
  ASSUME IInv, [Next]_vars
  PROVE  IInv'
<1>1. CASE SavingClick
  BY <1>1, SavingClicksKeep
<1>2. ASSUME NEW S, RemoveItems(S)
      PROVE  IInv'
  BY <1>2, RemovalsKeep
<1>3. ASSUME NEW i \in Items, AddItem(i)
      PROVE  IInv'
  BY <1>3, AddItemKeeps
<1>4. CASE Restart
  BY <1>4, RestartKeeps
<1>5. CASE Pending
  BY <1>5, PendingKeeps
<1>6. CASE UNCHANGED vars
  BY <1>6, StutterKeeps
<1>7. QED
  BY <1>1, <1>2, <1>3, <1>4, <1>5, <1>6, StepsAre

LEMMA InitHolds ==
  ASSUME Init
  PROVE  IInv
<1>1. /\ listed = {} /\ stored = {} /\ lost = {} /\ free = {}
      /\ mgr = NoneProcessing
      /\ \A n \in Runs : run[n] = Unused
      /\ \A n \in Runs, w \in Workers : worker[n][w] = Idle
      /\ \A i \in Items : saved[i] = NoRow
  BY DEF Init
<1>2. /\ \A i \in Items : item[i].status = "new" /\ ~item[i].text
      /\ item \in [Items -> ItemRec]
  BY DEF Init, ItemRec, Status
<1>3. /\ mgr \in MgrRec /\ mgr.ctl = NoRun /\ ~mgr.processing
  BY <1>1 DEF NoneProcessing, MgrRec
<1>4. \A n \in Runs : /\ run[n].pc = "unused" /\ run[n].next = 0 /\ run[n].queue = <<>>
                      /\ ~run[n].failed
  BY <1>1, UnusedIs
<1>5. \A n \in Runs, w \in Workers : worker[n][w].pc = "off" /\ worker[n][w].item = NoItem
  BY <1>1, IdleIs
<1>6. /\ \A n \in Runs : ~AtWork(n)
      /\ \A n \in Runs, w \in Workers : ~Holds(n, w)
  BY <1>5 DEF AtWork, Busy, Holds, Holding
<1>7. \A n \in Runs, i \in Items : ~InRun(n, i)
  BY <1>4, <1>6 DEF InRun, Queued
<1>8. TypeOK
  <2>1. run \in [Runs -> RunRec]
    BY UnusedIs DEF Init
  <2>2. worker \in [Runs -> [Workers -> WorkerRec]]
    BY IdleIs DEF Init
  <2>3. saved \in [Items -> Status \cup {NoRow}]
    BY DEF Init
  <2>4. QED
    BY <1>1, <1>2, <1>3, <2>1, <2>2, <2>3, TypeIs
<1>9. HoldsWhat
  BY <1>5, <1>6 DEF HoldsWhat
<1>10. Flags
  BY <1>3, <1>4, <1>6 DEF Flags
<1>11. Hands
  BY <1>1, <1>4, <1>6 DEF Hands, HandsOf, Queued
<1>12. Rows
  BY <1>1, <1>2, <1>7 DEF Rows, NoRow
<1>13. Dirty /\ Fresh
  BY <1>1, <1>4 DEF Dirty, Fresh
<1>14. Calm
  BY <1>4 DEF Calm
<1>15. QED
  BY <1>8, <1>9, <1>10, <1>11, <1>12, <1>13, <1>14 DEF IInv

-----------------------------------------------------------------------------
(* The end of a run *)

\* A run goes on to its last save by Finish only, whatever the user, the other
\* runs and the workers do.
LEMMA OnlyFinishFlushes ==
  ASSUME IInv, [Next]_vars, NEW n \in Runs, run[n].pc = "running", run'[n].pc = "flushing"
  PROVE  Finish(n)
<1>1. TypeOK /\ run \in [Runs -> RunRec]
  BY TypeIs DEF IInv
<1>2. CASE ClickStep
  <2>1. ClickMoves
    BY <1>1, <1>2, ClicksMove
  <2>2. run'[n].pc = run[n].pc
    BY <2>1 DEF ClickMoves, Stirs, Begins, SameRun
  <2>3. QED
    BY <2>2
<1>3. ASSUME NEW S, RemoveItems(S)
      PROVE  Finish(n)
  BY <1>1, <1>3, StirredKeeps DEF RemoveItems, SameRun
<1>4. CASE \E i \in Items : AddItem(i)
  BY <1>4 DEF AddItem
<1>5. CASE Restart
  <2>1. run'[n] = Unused \/ run'[n] = [Unused EXCEPT !.pc = "dead"]
    BY <1>5 DEF Restart
  <2>2. PICK u \in RunRec : u = Unused
    BY UnusedIs
  <2>3. u.pc = "unused" /\ [u EXCEPT !.pc = "dead"].pc = "dead"
    BY <2>2, UnusedIs DEF RunRec
  <2>4. QED
    BY <2>1, <2>2, <2>3
<1>6. CASE UNCHANGED vars
  BY <1>6 DEF vars
<1>7. CASE Pending
  <2>1. ASSUME NEW m \in Runs, NEW w \in Workers,
               \/ w \in Extractors /\ ExtractorStep(m, w)
               \/ w \in Analysts /\ AnalystStep(m, w)
        PROVE  FALSE
    <3>1. WorkerFrame(m, w)
      BY <2>1, WorkerStepsMove DEF WorkerMoves
    <3>2. QED
      BY <3>1 DEF WorkerFrame
  <2>2. ASSUME NEW m \in Runs, Setup(m)
        PROVE  FALSE
    <3>1. run' = [run EXCEPT ![m].pc = "running"]
      BY <2>2 DEF Setup
    <3>2. PICK r \in RunRec : r = run[m]
      BY <1>1
    <3>3. [r EXCEPT !.pc = "running"].pc = "running"
      BY DEF RunRec
    <3>4. run'[n] = IF m = n THEN [r EXCEPT !.pc = "running"] ELSE run[n]
      BY <1>1, <3>1, <3>2
    <3>5. QED
      BY <3>3, <3>4
  <2>3. ASSUME NEW m \in Runs, SetupFails(m) \/ Finish(m) \/ Flushed(m)
        PROVE  Finish(n)
    <3>1. EndsRun(m) /\ (~Finish(m) => run[m].pc # "running")
      BY <2>3, LastStepsEndRun
    <3>2. m # n => run'[n].pc = run[n].pc
      BY <3>1 DEF EndsRun, SameRun
    <3>3. QED
      BY <3>1, <3>2
  <2>4. \A w \in Extractors \cup Analysts : w \in Workers
    BY DEF Workers
  <2>5. QED
    BY <1>7, <2>1, <2>2, <2>3, <2>4 DEF Pending, RunStep
<1>8. SavingClick => ClickStep
  BY DEF SavingClick, ClickStep
<1>9. QED
  BY <1>2, <1>3, <1>4, <1>5, <1>6, <1>7, <1>8, StepsAre

\* When the workers of a calm run are gone, so is everything it had to do.
LEMMA CalmRunIsDone ==
  ASSUME IInv, NEW n \in Runs, run[n].calm, run[n].pc = "running", ~Rejected(n), AllDone(n)
  PROVE  \A i \in listed \cap run[n].scope : Settled(i)
<1>1. CalmRun(n)
  BY DEF IInv, Calm
<1>2. /\ Followed(n)
      /\ \E w \in Analysts : worker[n][w].pc = "exited"
      /\ \E w \in Extractors : worker[n][w].pc = "exited"
      /\ \A w \in Workers : ~Holds(n, w)
  BY <1>1 DEF CalmRun, AllDone, Workers, Holds, Holding
<1>3. run[n].queue = <<>>
  BY <1>1, <1>2 DEF CalmRun
<1>4. \A i \in listed : ~InRun(n, i) /\ ~Ahead(n, i)
  BY <1>2, <1>3 DEF InRun, Queued, Ahead
<1>5. QED
  BY <1>2, <1>4 DEF Followed

-----------------------------------------------------------------------------
(* Theorems *)

\* In every state the flags of the manager belong to one run that is on, the
\* workers and the queue of a run hold different files that its index has
\* passed, the rows follow the list, and in a run nobody disturbed each file of
\* its scope is in hand, still ahead of the index, or settled.
THEOREM Inductive == Spec => []IInv
<1>1. Init => IInv
  BY InitHolds
<1>2. IInv /\ [Next]_vars => IInv'
  BY NextKeeps
<1>3. QED
  BY <1>1, <1>2, PTL DEF Spec

\* Two workers are at one file only if one belongs to a run that was cut off or
\* failed, and a file removed while nobody had it in hand never comes back: the
\* shared index and the queue of processAll, and removeItem, under every click,
\* stop, forced reset, failed save and restart.
THEOREM BatchCorrect == Spec => []BatchInv
<1>1. IInv => BatchInv
  BY IInvIsEnough
<1>2. QED
  BY <1>1, Inductive, PTL

\* As long as no stop and no reset was forced and no run failed, isProcessing is
\* set exactly while a run is on, and only a run that is on has workers at work.
THEOREM FlagCorrect == Spec => []FlagTellsTheTruth
<1>1. IInv => FlagTellsTheTruth
  BY IInvIsEnough
<1>2. QED
  BY <1>1, Inductive, PTL

\* When no run is on, none failed and no worker is at work, each listed file has
\* the status its row in batch_items has, unless its last save failed.
THEOREM SavedCorrect == Spec => []QuietIsSaved
<1>1. IInv => QuietIsSaved
  BY IInvIsEnough
<1>2. QED
  BY <1>1, Inductive, PTL

\* When a run nobody disturbed goes on to its last save, every listed file of
\* its scope has been settled by processAll: no file is skipped by the shared
\* index or left in the queue, however the workers interleave.
THEOREM SettlesCorrect == Spec => RunSettlesItsItems
<1> DEFINE Ends == \A n \in Runs :
              run[n].pc = "running" /\ run'[n].pc = "flushing" /\ run'[n].calm /\ ~run'[n].failed =>
                \A i \in listed \cap run[n].scope :
                  \/ item[i].status \in {"review", "done", "error", "unfinished"}
                  \/ item[i].status = "queued" /\ ~item[i].text
<1>1. ASSUME IInv, [Next]_vars
      PROVE  Ends
  <2> SUFFICES ASSUME NEW n \in Runs, run[n].pc = "running", run'[n].pc = "flushing",
                      run'[n].calm, ~run'[n].failed
               PROVE  \A i \in listed \cap run[n].scope : Settled(i)
    BY DEF Settled
  <2>1. Finish(n)
    BY <1>1, OnlyFinishFlushes
  <2>2. run[n].calm /\ ~Rejected(n) /\ AllDone(n)
    BY <1>1, <2>1, LastStepsEndRun
  <2>3. QED
    BY <1>1, <2>2, CalmRunIsDone
<1>2. IInv /\ [Next]_vars => [Ends]_vars
  BY <1>1
<1>3. QED
  BY <1>2, Inductive, PTL DEF Spec, RunSettlesItsItems

=============================================================================
