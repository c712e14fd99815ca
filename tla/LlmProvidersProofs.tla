------------------------- MODULE LlmProvidersProofs -------------------------
(* Proofs about LlmProviders, for any list of providers and any callers. *)
EXTENDS LlmProviders, WellFoundedInduction, TLAPS

USE ProvidersAssumption

-----------------------------------------------------------------------------
(* The list of providers *)

LEMMA ListFacts ==
  /\ N \in Nat \ {0}
  /\ \A k \in 1 .. N : Order[k] \in Providers
  /\ \A p \in Providers : \E k \in 1 .. N : Order[k] = p
<1>1. N \in Nat \ {0}
  BY DEF N
<1>2. \A k \in 1 .. N : Order[k] \in Providers
  BY DEF Providers
<1>3. \A p \in Providers : \E k \in 1 .. N : Order[k] = p
  BY DEF Providers
<1>4. QED
  BY <1>1, <1>2, <1>3

LEMMA Places ==
  ASSUME NEW n \in Nat \ {0}, NEW start \in 0 .. n - 1
  PROVE  /\ \A k \in Nat : (start + k) % n \in 0 .. n - 1
         /\ \A i \in 0 .. n - 1 : \E k \in 0 .. n - 1 : (start + k) % n = i
<1>1. \A k \in Nat : (start + k) % n \in 0 .. n - 1
  OBVIOUS
<1>2. ASSUME NEW i \in 0 .. n - 1 PROVE \E k \in 0 .. n - 1 : (start + k) % n = i
  <2>1. CASE i >= start
    <3>1. i - start \in 0 .. n - 1 /\ start + (i - start) = i
      BY <2>1
    <3>2. i % n = i
      OBVIOUS
    <3>3. QED
      BY <3>1, <3>2
  <2>2. CASE i < start
    <3>1. i - start + n \in 0 .. n - 1 /\ start + (i - start + n) = i + n
      BY <2>2
    <3>2. (i + n) % n = i
      OBVIOUS
    <3>3. QED
      BY <3>1, <3>2
  <2>3. QED
    BY <2>1, <2>2
<1>3. QED
  BY <1>1, <1>2

LEMMA PlacesOfList ==
  ASSUME NEW start \in 0 .. N - 1
  PROVE  \A i \in 0 .. N - 1 : \E k \in 0 .. N - 1 : (start + k) % N = i
<1> DEFINE n == N
<1>1. n \in Nat \ {0} /\ start \in 0 .. n - 1
  BY ListFacts
<1> HIDE DEF n
<1>2. \A i \in 0 .. n - 1 : \E k \in 0 .. n - 1 : (start + k) % n = i
  BY <1>1, Places
<1>3. QED
  BY <1>2 DEF n

LEMMA IndexFact == ASSUME NEW p \in Providers PROVE Index(p) \in 0 .. N - 1
<1>1. \E k \in 1 .. N : Order[k] = p
  BY ListFacts
<1>2. (CHOOSE k \in 1 .. N : Order[k] = p) \in 1 .. N
  BY <1>1
<1>3. QED
  BY <1>2, ListFacts DEF Index

-----------------------------------------------------------------------------
(* The inductive invariant *)

CallRec ==
  [pc : Pc, at : Providers \cup {NoProvider}, off : 0 .. N, sweep : 1 .. 2,
   tries : 0 .. MaxTries - 1, bursts : 0 .. MaxBursts, copy : SUBSET Providers,
   tried : SUBSET Providers, passed : SUBSET Providers, withdrawn : BOOLEAN]

AtProvider == {"gate", "unknown", "allowed", "asking", "granting", "recording", "sending", "pausing"}

\* Where a call c of caller w is, its loop has been.
PlaceOK(w, c) ==
  /\ c.pc \in AtProvider => c.at \in Providers /\ c.tried # {}
  /\ c.pc \in AtProvider /\ w \in Analysts => c.off < N
  /\ c.pc \in {"sleeping", "woken", "failed"} /\ c.tried = {} => c.passed = Providers

\* What the consent gate knows of a call.
ConsentOK(c) ==
  /\ c.pc \in {"unknown", "asking", "granting", "recording"} => c.at \notin Local
  /\ c.pc \in AtProvider /\ c.withdrawn => overlapped \/ c.at \in barred
  /\ c.pc \in {"granting", "recording"} =>
       /\ c.at \in agreed /\ ~c.withdrawn
       /\ overlapped \/ (c.at \notin barred /\ panel = NoPanel)
  /\ c.pc = "recording" => c.copy \subseteq agreed /\ (overlapped \/ c.copy \cap barred = {})
  /\ c.pc \in {"allowed", "sending", "pausing"} /\ c.at \notin Local =>
       c.at \in agreed /\ (c.withdrawn => overlapped)

RecordOK ==
  /\ onRecord \subseteq agreed /\ panel.copy \subseteq agreed
  /\ panel # NoPanel => panel.at \in Providers \ Local
  /\ overlapped \/ barred \cap (onRecord \cup panel.copy) = {}

IndInv ==
  /\ TypeOK /\ AskedIsShown /\ RecordOK
  /\ \A w \in Callers : PlaceOK(w, call[w]) /\ ConsentOK(call[w])

\* One step of StopIsObeyed.
Obeyed == \A w \in Analysts : aborted /\ call[w].pc # "sending" => call'[w].pc # "sending"

LEMMA CallTyped == TypeOK => call \in [Callers -> CallRec]
BY DEF TypeOK, CallRec

\* A call, but for its phase.
SameBut(c, d, pc) ==
  /\ d.pc = pc /\ d.at = c.at /\ d.off = c.off /\ d.copy = c.copy
  /\ d.tried = c.tried /\ d.passed = c.passed /\ d.withdrawn = c.withdrawn

\* Others may at most be woken by the step of one caller.
Others(w, all) ==
  \A v \in Callers \ {w} :
    all[v] = call[v] \/ (call[v].pc = "sleeping" /\ SameBut(call[v], all[v], "woken"))

\* A step of one call that leaves the record of consents alone.
LEMMA CallStep ==
  ASSUME IndInv, NEW w \in Callers, NEW all \in [Callers -> CallRec], Others(w, all),
         NEW d \in CallRec, call' = [all EXCEPT ![w] = d],
         UNCHANGED <<onRecord, panel, agreed, barred, overlapped>>,
         PlaceOK(w, d), ConsentOK(d), d.pc = "sending" => ~Stopped(w),
         dialog' \in Callers \cup {NoCaller}, d.pc = "asking" <=> dialog' = w,
         \A v \in Callers \ {w} : dialog' = v <=> dialog = v,
         parked' \subseteq Providers, broken' \subseteq Providers, first' \in 0 .. N - 1,
         aborted' = aborted
  PROVE  IndInv' /\ Obeyed
<1>1. call' \in [Callers -> CallRec] /\ call'[w] = d /\ \A v \in Callers \ {w} : call'[v] = all[v]
  OBVIOUS
<1>2. TypeOK'
  BY <1>1 DEF IndInv, TypeOK, CallRec
<1>3. \A v \in Callers \ {w} :
        /\ PlaceOK(v, call'[v]) /\ ConsentOK(call'[v])
        /\ call'[v].pc = "asking" <=> call[v].pc = "asking"
        /\ call'[v].pc = "sending" => call[v].pc = "sending"
  <2> SUFFICES ASSUME NEW v \in Callers \ {w}, call'[v] # call[v]
               PROVE  /\ PlaceOK(v, call'[v]) /\ ConsentOK(call'[v])
                      /\ call'[v].pc = "asking" <=> call[v].pc = "asking"
                      /\ call'[v].pc = "sending" => call[v].pc = "sending"
    BY DEF IndInv
  <2>1. call[v].pc = "sleeping" /\ SameBut(call[v], call'[v], "woken") /\ PlaceOK(v, call[v])
    BY <1>1 DEF Others, IndInv
  <2>2. QED
    BY <2>1 DEF SameBut, PlaceOK, ConsentOK, AtProvider
<1>4. AskedIsShown'
  BY <1>1, <1>3 DEF IndInv, AskedIsShown
<1>5. RecordOK'
  BY DEF IndInv, RecordOK
<1>6. \A v \in Callers : (PlaceOK(v, call[v]) /\ ConsentOK(call[v]))'
  BY <1>1, <1>3 DEF PlaceOK, ConsentOK
<1>7. Obeyed
  BY <1>1, <1>3 DEF Obeyed, Stopped, Callers
<1>8. QED
  BY <1>2, <1>4, <1>5, <1>6, <1>7 DEF IndInv

-----------------------------------------------------------------------------
(* The loop over the providers *)

\* What the loop leaves a call with.
Swept(w, d) ==
  /\ d.pc \in {"idle", "gate", "sleeping", "failed"}
  /\ PlaceOK(w, d)
  /\ d.pc = "gate" /\ d.withdrawn => d.at \in barred

LEMMA IdleTyped == Idle \in CallRec /\ Idle.pc = "idle"
BY ListFacts DEF CallRec, Idle, Pc, Rest

LEMMA EnteredSwept ==
  ASSUME NEW w \in Callers, NEW p \in Providers, NEW c \in CallRec, c.off < N
  PROVE  Entered(w, p, c) \in CallRec /\ Swept(w, Entered(w, p, c))
<1> DEFINE d == [c EXCEPT !.pc = "gate", !.at = p, !.tries = 0, !.bursts = 0,
                          !.tried = @ \cup {p}, !.withdrawn = p \in barred]
<1>1. d \in CallRec
  <2>1. /\ "gate" \in Pc /\ p \in Providers \cup {NoProvider} /\ 0 \in 0 .. MaxTries - 1
        /\ 0 \in 0 .. MaxBursts /\ (p \in barred) \in BOOLEAN
    BY DEF Pc
  <2>2. c.tried \cup {p} \in SUBSET Providers
    BY DEF CallRec
  <2>3. QED
    BY <2>1, <2>2 DEF CallRec
<1>2. d.pc = "gate" /\ d.at = p /\ d.tried # {} /\ d.off = c.off /\ (d.withdrawn => p \in barred)
  BY DEF CallRec
<1>3. Idle \in CallRec /\ Idle.pc = "idle"
  BY IdleTyped
<1> HIDE DEF d
<1>4. Entered(w, p, c) = Idle \/ Entered(w, p, c) = d
  BY DEF Entered, d
<1>5. QED
  BY <1>1, <1>2, <1>3, <1>4 DEF Swept, PlaceOK, AtProvider

\* The first of a set of places, or its end.
LEMMA FirstOpen ==
  ASSUME NEW off \in 0 .. N, NEW open \in SUBSET (off .. N - 1)
  PROVE  LET upTo == IF open = {} THEN N ELSE CHOOSE k \in open : \A j \in open : k <= j
         IN  upTo \in off .. N /\ (open # {} => upTo \in open)
<1>1. N \in Nat \ {0}
  BY ListFacts
<1>2. ASSUME open # {} PROVE \E k \in open : \A j \in open : k <= j
  <2>1. open \subseteq Nat
    BY <1>1
  <2>2. PICK k \in open : \A j \in open : ~ (<<j, k>> \in OpToRel(<, Nat))
    BY <1>2, <2>1, WFMin, NatLessThanWellFounded
  <2>3. \A j \in open : ~ (j < k)
    BY <2>1, <2>2 DEF OpToRel
  <2>4. QED
    BY <2>1, <2>3
<1>3. ASSUME open # {} PROVE (CHOOSE k \in open : \A j \in open : k <= j) \in open
  BY <1>2, <1>3
<1>4. CASE open = {}
  BY <1>1, <1>4
<1>5. CASE open # {}
  <2> DEFINE least == CHOOSE k \in open : \A j \in open : k <= j
  <2>1. least \in open /\ open \subseteq off .. N
    BY <1>1, <1>3, <1>5
  <2> HIDE DEF least
  <2>2. least \in off .. N /\ least \in open
    BY <2>1
  <2>3. QED
    BY <1>5, <2>2 DEF least
<1>6. QED
  BY <1>4, <1>5

LEMMA FailureTyped ==
  ASSUME NEW c \in CallRec
  PROVE  /\ Failure(c) \in CallRec /\ Failure(c).pc = "failed"
         /\ Failure(c).tried = c.tried /\ Failure(c).passed = c.passed
<1>1. c.tried \in SUBSET Providers /\ c.passed \in SUBSET Providers
  BY DEF CallRec
<1>2. /\ "failed" \in Pc /\ 0 \in 0 .. N /\ 1 \in 1 .. 2 /\ 0 \in 0 .. MaxTries - 1 /\ 0 \in 0 .. MaxBursts
      /\ {} \in SUBSET Providers /\ NoProvider \in Providers \cup {NoProvider}
  BY ListFacts DEF Pc, Rest
<1>3. Idle \in CallRec
  BY <1>2, IdleTyped
<1>4. QED
  BY <1>1, <1>2, <1>3 DEF CallRec, Failure

\* The loop ends in one of four ways; a call that fails or sleeps without having
\* asked anybody has passed every provider.
LEMMA SweepResult ==
  ASSUME NEW w \in Callers, NEW c \in CallRec, NEW all, NEW sidelined \in SUBSET Providers,
         NEW start \in 0 .. N - 1, Sweep(w, c, all, sidelined, start),
         c.off = 0 \/ c.tried # {}
  PROVE  /\ broken' \in SUBSET Providers /\ first' \in 0 .. N - 1
         /\ \E d \in CallRec : call' = [all EXCEPT ![w] = d] /\ Swept(w, d)
<1> DEFINE nth(k) == Order[((start + k) % N) + 1]
           open == {k \in c.off .. N - 1 : nth(k) \notin sidelined \cup parked'}
           upTo == IF open = {} THEN N ELSE CHOOSE k \in open : \A j \in open : k <= j
           been == {nth(k) : k \in c.off .. upTo - 1}
           d == [c EXCEPT !.off = upTo, !.passed = @ \cup been]
<1>1. N \in Nat \ {0} /\ c.off \in 0 .. N
  BY ListFacts DEF CallRec
<1>2. upTo \in 0 .. N /\ upTo \in c.off .. N /\ (open # {} => upTo < N)
  <2>1. open \in SUBSET (c.off .. N - 1)
    OBVIOUS
  <2> HIDE DEF open
  <2>2. upTo \in c.off .. N /\ (open # {} => upTo \in open)
    BY <1>1, <2>1, FirstOpen
  <2> HIDE DEF upTo
  <2>3. QED
    BY <1>1, <2>1, <2>2
<1>3. \A k \in Nat : nth(k) \in Providers
  <2>1. \A k \in Nat : (start + k) % N \in 0 .. N - 1
    BY <1>1, Places
  <2>2. \A k \in Nat : ((start + k) % N) + 1 \in 1 .. N
    BY <1>1, <2>1
  <2>3. QED
    BY <2>2, ListFacts
<1>4. been \in SUBSET Providers
  <2>1. \A k \in c.off .. upTo - 1 : k \in Nat
    BY <1>1, <1>2
  <2> HIDE DEF upTo, nth
  <2>2. QED
    BY <1>3, <2>1
<1>5. c.off = 0 /\ upTo = N => been = Providers
  <2> SUFFICES ASSUME c.off = 0, upTo = N, NEW p \in Providers PROVE p \in been
    BY <1>4
  <2>1. PICK i \in 1 .. N : Order[i] = p
    BY ListFacts
  <2> HIDE DEF upTo, nth
  <2>2. i - 1 \in 0 .. N - 1
    BY <1>1
  <2>3. \A j \in 0 .. N - 1 : \E k \in 0 .. N - 1 : (start + k) % N = j
    BY PlacesOfList
  <2>4. PICK k \in 0 .. N - 1 : (start + k) % N = i - 1
    BY <2>2, <2>3
  <2>5. nth(k) = p
    BY <1>1, <2>1, <2>4 DEF nth
  <2>6. QED
    BY <2>5
<1> HIDE DEF been
<1>6. /\ d \in CallRec /\ d.off = upTo /\ d.pc = c.pc /\ d.tried = c.tried
      /\ d.passed = c.passed \cup been
  <2> HIDE DEF upTo
  <2>1. c.passed \cup been \in SUBSET Providers
    BY <1>4 DEF CallRec
  <2>2. QED
    BY <1>2, <2>1 DEF CallRec
<1>7. /\ broken' = sidelined
      /\ \/ open # {} /\ call' = [all EXCEPT ![w] = Entered(w, nth(upTo), d)]
         \/ open = {} /\ c.off = 0 /\ \E p \in Providers :
              call' = [all EXCEPT ![w] = [d EXCEPT !.pc = "sleeping", !.at = p]]
         \/ open = {} /\ call' = [all EXCEPT ![w] = Failure(d)]
      /\ first' \in {start, 0}
  BY DEF Sweep, SweepTo, been
<1>8. \E e \in CallRec : call' = [all EXCEPT ![w] = e] /\ Swept(w, e)
  <2>1. CASE open # {} /\ call' = [all EXCEPT ![w] = Entered(w, nth(upTo), d)]
    <3>1. nth(upTo) \in Providers /\ d.off < N
      <4> HIDE DEF nth, upTo, open, d
      <4>1. QED
        BY <1>1, <1>2, <1>3, <1>6, <2>1
    <3> HIDE DEF nth, upTo, open, d
    <3>2. QED
      BY <1>6, <2>1, <3>1, EnteredSwept
  <2>2. CASE open = {} /\ c.off = 0 /\ \E p \in Providers :
              call' = [all EXCEPT ![w] = [d EXCEPT !.pc = "sleeping", !.at = p]]
    <3>1. PICK p \in Providers : call' = [all EXCEPT ![w] = [d EXCEPT !.pc = "sleeping", !.at = p]]
      BY <2>2
    <3>2. upTo = N /\ d.passed = Providers
      <4>1. upTo = N
        BY <2>2
      <4> HIDE DEF upTo, open, d
      <4>2. QED
        BY <1>5, <1>6, <2>2, <4>1 DEF CallRec
    <3> HIDE DEF nth, upTo, open, d
    <3> DEFINE e == [d EXCEPT !.pc = "sleeping", !.at = p]
    <3>3. e \in CallRec /\ e.pc = "sleeping" /\ e.passed = Providers
      BY <1>6, <3>2 DEF CallRec, Pc
    <3> HIDE DEF e
    <3>4. Swept(w, e)
      BY <3>3 DEF Swept, PlaceOK, AtProvider
    <3>5. QED
      BY <3>1, <3>3, <3>4 DEF e
  <2>3. CASE open = {} /\ call' = [all EXCEPT ![w] = Failure(d)]
    <3>1. upTo = N
      BY <2>3
    <3>2. d.tried = {} => d.passed = Providers
      <4> HIDE DEF upTo, open, d
      <4>1. QED
        BY <1>5, <1>6, <3>1 DEF CallRec
    <3> HIDE DEF nth, upTo, open, d
    <3>3. Failure(d) \in CallRec /\ Failure(d).pc = "failed"
      BY <1>6, FailureTyped
    <3>4. Failure(d).tried = d.tried /\ Failure(d).passed = d.passed
      BY FailureTyped, <1>6
    <3>5. Swept(w, Failure(d))
      BY <3>2, <3>3, <3>4 DEF Swept, PlaceOK, AtProvider
    <3>6. QED
      BY <2>3, <3>3, <3>5
  <2>4. QED
    BY <1>7, <2>1, <2>2, <2>3
<1> HIDE DEF d, been, upTo, open, nth
<1>9. first' \in 0 .. N - 1
  <2>1. 0 \in 0 .. N - 1
    BY ListFacts
  <2>2. CASE first' = start
    BY <2>2
  <2>3. CASE first' = 0
    BY <2>1, <2>3
  <2>4. QED
    BY <1>7, <2>2, <2>3
<1>10. QED
  BY <1>7, <1>8, <1>9

\* The loop is entered or goes on: one step of one caller.
LEMMA SweptStep ==
  ASSUME IndInv, NEW w \in Callers, NEW all \in [Callers -> CallRec], Others(w, all),
         NEW d \in CallRec, call' = [all EXCEPT ![w] = d], Swept(w, d),
         UNCHANGED <<onRecord, panel, agreed, barred, overlapped>>,
         dialog' \in Callers \cup {NoCaller}, dialog' # w,
         \A v \in Callers \ {w} : dialog' = v <=> dialog = v,
         parked' \subseteq Providers, broken' \subseteq Providers, first' \in 0 .. N - 1,
         aborted' = aborted
  PROVE  IndInv' /\ Obeyed
<1>1. PlaceOK(w, d) /\ ConsentOK(d) /\ d.pc # "sending" /\ d.pc # "asking"
  BY DEF Swept, ConsentOK, AtProvider
<1>2. QED
  BY <1>1, CallStep

LEMMA IdleSwept == ASSUME NEW w \in Callers PROVE Idle \in CallRec /\ Swept(w, Idle)
BY IdleTyped DEF Swept, PlaceOK, AtProvider

LEMMA NextPlace == ASSUME NEW p \in Providers PROVE (Index(p) + 1) % N \in 0 .. N - 1
<1>1. N \in Nat \ {0} /\ Index(p) + 1 \in Nat
  BY ListFacts, IndexFact
<1>2. QED
  BY <1>1

LEMMA LetDownStep ==
  ASSUME IndInv, NEW w \in Callers, call[w].pc \in AtProvider,
         NEW all \in [Callers -> CallRec], Others(w, all), all[w] = call[w], LetDown(w, all),
         UNCHANGED <<onRecord, panel, agreed, barred, overlapped>>,
         dialog' \in Callers \cup {NoCaller}, dialog' # w,
         \A v \in Callers \ {w} : dialog' = v <=> dialog = v,
         parked' \subseteq Providers, aborted' = aborted
  PROVE  IndInv' /\ Obeyed
<1> DEFINE c == call[w]
           e == [c EXCEPT !.off = @ + 1, !.at = NoProvider]
<1>1. c \in CallRec /\ PlaceOK(w, c)
  BY CallTyped DEF IndInv
<1>2. broken \subseteq Providers /\ first \in 0 .. N - 1
  BY DEF IndInv, TypeOK
<1>3. CASE w \in Chats
  <2>1. call' = [all EXCEPT ![w] = Idle] /\ UNCHANGED <<broken, first>>
    BY <1>3 DEF LetDown
  <2>2. QED
    BY <1>2, <2>1, IdleSwept, SweptStep
<1>4. CASE w \notin Chats
  <2>1. c.at \in Providers /\ c.tried # {} /\ c.off \in 0 .. N /\ c.off < N
    BY <1>1, <1>4 DEF PlaceOK, CallRec, Callers
  <2>2. e \in CallRec /\ e.tried # {}
    <3>1. c.off + 1 \in 0 .. N
      BY <2>1, ListFacts
    <3> HIDE DEF c
    <3>2. QED
      BY <1>1, <2>1, <3>1 DEF CallRec
  <2>3. Sweep(w, e, all, broken \cup {c.at}, (Index(c.at) + 1) % N)
    BY <1>4 DEF LetDown
  <2> HIDE DEF e
  <2>4. broken \cup {c.at} \in SUBSET Providers /\ (Index(c.at) + 1) % N \in 0 .. N - 1
    BY <1>2, <2>1, NextPlace
  <2>5. /\ broken' \in SUBSET Providers /\ first' \in 0 .. N - 1
        /\ \E d \in CallRec : call' = [all EXCEPT ![w] = d] /\ Swept(w, d)
    BY <2>2, <2>3, <2>4, SweepResult
  <2>6. QED
    BY <2>5, SweptStep
<1>5. QED
  BY <1>3, <1>4

\* The same, nobody having been woken and the dialog as it was.
LEMMA SweptAlone ==
  ASSUME IndInv, NEW w \in Callers, NEW d \in CallRec, call' = [call EXCEPT ![w] = d], Swept(w, d),
         UNCHANGED <<consent, parked, aborted>>, call[w].pc # "asking",
         broken' \subseteq Providers, first' \in 0 .. N - 1
  PROVE  IndInv' /\ Obeyed
<1>1. call \in [Callers -> CallRec]
  BY CallTyped DEF IndInv
<1>2. Others(w, call)
  BY DEF Others
<1>3. dialog' \in Callers \cup {NoCaller} /\ dialog' # w /\ dialog' = dialog
  BY DEF IndInv, TypeOK, AskedIsShown, consent
<1>4. parked' \subseteq Providers
  BY DEF IndInv, TypeOK
<1>5. UNCHANGED <<onRecord, panel, agreed, barred, overlapped>>
  BY DEF consent
<1>6. QED
  BY <1>1, <1>2, <1>3, <1>4, <1>5, SweptStep

\* The step of one caller that leaves everything else alone, the dialog included.
LEMMA QuietStep ==
  ASSUME IndInv, NEW w \in Callers, NEW d \in CallRec, call' = [call EXCEPT ![w] = d],
         UNCHANGED <<consent, parked, broken, aborted>>, first' \in 0 .. N - 1,
         PlaceOK(w, d), ConsentOK(d), d.pc = "sending" => ~Stopped(w),
         d.pc # "asking", call[w].pc # "asking"
  PROVE  IndInv' /\ Obeyed
<1>1. call \in [Callers -> CallRec] /\ Others(w, call)
  <2>1. call \in [Callers -> CallRec]
    BY CallTyped DEF IndInv
  <2>2. Others(w, call)
    BY DEF Others
  <2>3. QED
    BY <2>1, <2>2
<1>2. dialog' \in Callers \cup {NoCaller} /\ dialog' # w /\ dialog' = dialog
  BY DEF IndInv, TypeOK, AskedIsShown, consent
<1>3. parked' \subseteq Providers /\ broken' \subseteq Providers
  BY DEF IndInv, TypeOK
<1>4. UNCHANGED <<onRecord, panel, agreed, barred, overlapped>>
  BY DEF consent
<1>5. QED
  BY <1>1, <1>2, <1>3, <1>4, CallStep

\* A cooldown wakes the sleepers and touches nobody else.
LEMMA RousedKept ==
  ASSUME IndInv, NEW p \in Providers
  PROVE  /\ Roused(p) \in [Callers -> CallRec]
         /\ \A v \in Callers : \/ Roused(p)[v] = call[v]
                               \/ call[v].pc = "sleeping" /\ SameBut(call[v], Roused(p)[v], "woken")
<1>1. call \in [Callers -> CallRec]
  BY CallTyped DEF IndInv
<1>2. ASSUME NEW v \in Callers
      PROVE  /\ Roused(p)[v] \in CallRec
             /\ \/ Roused(p)[v] = call[v]
                \/ call[v].pc = "sleeping" /\ SameBut(call[v], Roused(p)[v], "woken")
  <2> DEFINE c == call[v]
             e == [c EXCEPT !.pc = "woken"]
  <2>1. c \in CallRec
    BY <1>1
  <2>2. Roused(p)[v] = c \/ (c.pc = "sleeping" /\ Roused(p)[v] = e)
    BY DEF Roused
  <2> HIDE DEF c
  <2>3. e \in CallRec /\ SameBut(c, e, "woken")
    BY <2>1 DEF CallRec, Pc, SameBut
  <2> HIDE DEF e
  <2>4. QED
    BY <2>1, <2>2, <2>3 DEF c
<1>3. Roused(p) = [v \in Callers |-> Roused(p)[v]]
  BY DEF Roused
<1>4. QED
  BY <1>2, <1>3

LEMMA CoolDownStep == ASSUME IndInv, NEW p \in Providers, CoolDown(p) PROVE IndInv' /\ Obeyed
<1>1. /\ call' = Roused(p) /\ parked' \subseteq Providers
      /\ UNCHANGED <<onRecord, panel, dialog, agreed, barred, overlapped, broken, first, aborted>>
  BY DEF CoolDown, consent, IndInv, TypeOK
<1>2. call' \in [Callers -> CallRec]
  BY <1>1, RousedKept
<1>3. \A v \in Callers : \/ call'[v] = call[v]
                         \/ call[v].pc = "sleeping" /\ SameBut(call[v], call'[v], "woken")
  BY <1>1, RousedKept
<1>4. \A v \in Callers :
        /\ PlaceOK(v, call'[v]) /\ ConsentOK(call'[v])
        /\ call'[v].pc = "asking" <=> call[v].pc = "asking"
        /\ call'[v].pc = "sending" => call[v].pc = "sending"
  <2> SUFFICES ASSUME NEW v \in Callers, call'[v] # call[v]
               PROVE  /\ PlaceOK(v, call'[v]) /\ ConsentOK(call'[v])
                      /\ call'[v].pc = "asking" <=> call[v].pc = "asking"
                      /\ call'[v].pc = "sending" => call[v].pc = "sending"
    BY DEF IndInv
  <2>1. call[v].pc = "sleeping" /\ SameBut(call[v], call'[v], "woken") /\ PlaceOK(v, call[v])
    BY <1>3 DEF IndInv
  <2>2. QED
    BY <2>1 DEF SameBut, PlaceOK, ConsentOK, AtProvider
<1>5. TypeOK'
  BY <1>1, <1>2 DEF IndInv, TypeOK, CallRec
<1>6. AskedIsShown' /\ RecordOK'
  BY <1>1, <1>4 DEF IndInv, AskedIsShown, RecordOK
<1>7. \A v \in Callers : (PlaceOK(v, call[v]) /\ ConsentOK(call[v]))'
  BY <1>1, <1>4 DEF PlaceOK, ConsentOK
<1>8. Obeyed
  BY <1>4 DEF Obeyed, Callers
<1>9. QED
  BY <1>5, <1>6, <1>7, <1>8 DEF IndInv

-----------------------------------------------------------------------------
(* The steps of queryRR *)

LEMMA AskStep == ASSUME IndInv, NEW w \in Analysts, Ask(w) PROVE IndInv' /\ Obeyed
<1>1. /\ Sweep(w, Idle, call, broken, first) /\ Idle.off = 0 /\ Idle \in CallRec
      /\ UNCHANGED <<consent, parked, aborted>> /\ call[w].pc # "asking"
  BY IdleTyped DEF Ask, Busy, Rest, Idle
<1>2. broken \in SUBSET Providers /\ first \in 0 .. N - 1 /\ w \in Callers
  BY DEF IndInv, TypeOK, Callers
<1>3. /\ broken' \in SUBSET Providers /\ first' \in 0 .. N - 1
      /\ \E d \in CallRec : call' = [call EXCEPT ![w] = d] /\ Swept(w, d)
  BY <1>1, <1>2, SweepResult
<1>4. QED
  BY <1>1, <1>2, <1>3, SweptAlone

LEMMA WokenStep == ASSUME IndInv, NEW w \in Callers, Woken(w) PROVE IndInv' /\ Obeyed
<1> DEFINE c == call[w]
           e == [c EXCEPT !.at = NoProvider, !.off = 0, !.sweep = 2]
<1>1. c \in CallRec /\ PlaceOK(w, c) /\ c.pc = "woken" /\ UNCHANGED <<consent, parked, aborted>>
  BY CallTyped DEF IndInv, Woken
<1>2. broken \in SUBSET Providers /\ first \in 0 .. N - 1
  BY DEF IndInv, TypeOK
<1>3. CASE c.sweep = 2
  <2>1. call' = [call EXCEPT ![w] = Failure(c)] /\ first' = 0 /\ UNCHANGED broken
    BY <1>3 DEF Woken
  <2> HIDE DEF c
  <2>2. Failure(c) \in CallRec /\ Swept(w, Failure(c))
    BY <1>1, FailureTyped DEF PlaceOK, Swept, AtProvider
  <2>3. first' \in 0 .. N - 1
    BY <2>1, ListFacts
  <2>4. QED
    BY <1>1, <1>2, <2>1, <2>2, <2>3, SweptAlone DEF c
<1>4. CASE c.sweep # 2
  <2>1. Sweep(w, e, call, broken, first)
    BY <1>4 DEF Woken
  <2>2. e \in CallRec /\ e.off = 0
    <3>1. 0 \in 0 .. N /\ 2 \in 1 .. 2 /\ NoProvider \in Providers \cup {NoProvider}
      BY ListFacts
    <3> HIDE DEF c
    <3>2. QED
      BY <1>1, <3>1 DEF CallRec
  <2> HIDE DEF e
  <2>3. /\ broken' \in SUBSET Providers /\ first' \in 0 .. N - 1
        /\ \E d \in CallRec : call' = [call EXCEPT ![w] = d] /\ Swept(w, d)
    BY <1>2, <2>1, <2>2, SweepResult
  <2>4. QED
    BY <1>1, <2>3, SweptAlone
<1>5. QED
  BY <1>3, <1>4

-----------------------------------------------------------------------------
(* The steps of query *)

\* A call whose phase changes, and at most the counters of its tries with it.
LEMMA PhaseTyped ==
  ASSUME NEW c \in CallRec, NEW pc \in Pc
  PROVE  [c EXCEPT !.pc = pc] \in CallRec /\ SameBut(c, [c EXCEPT !.pc = pc], pc)
BY DEF CallRec, SameBut

LEMMA CallOf ==
  ASSUME IndInv, NEW w \in Callers
  PROVE  call[w] \in CallRec /\ PlaceOK(w, call[w]) /\ ConsentOK(call[w]) /\ first \in 0 .. N - 1
BY CallTyped DEF IndInv, TypeOK

LEMMA ChatStep ==
  ASSUME IndInv, NEW w \in Chats, NEW p \in Providers, Chat(w, p) PROVE IndInv' /\ Obeyed
<1>1. w \in Callers /\ Idle \in CallRec /\ Idle.off = 0 /\ call[w].pc # "asking"
  BY IdleTyped DEF Callers, Chat, Busy, Rest, Idle
<1>2. Entered(w, p, Idle) \in CallRec /\ Swept(w, Entered(w, p, Idle))
  BY <1>1, ListFacts, EnteredSwept
<1>3. /\ call' = [call EXCEPT ![w] = Entered(w, p, Idle)]
      /\ UNCHANGED <<consent, parked, broken, first, aborted>>
  BY DEF Chat, robin
<1>4. broken \subseteq Providers /\ first \in 0 .. N - 1
  BY DEF IndInv, TypeOK
<1> DEFINE d == Entered(w, p, Idle)
<1> HIDE DEF d
<1>5. QED
  BY <1>1, <1>2, <1>3, <1>4, SweptAlone DEF d

LEMMA ReadRecordStep ==
  ASSUME IndInv, NEW w \in Callers, ReadRecord(w) PROVE IndInv' /\ Obeyed
<1> DEFINE c == call[w]
           pc == IF c.at \in Local \cup onRecord THEN "allowed" ELSE "unknown"
           d == [c EXCEPT !.pc = pc]
<1>1. c \in CallRec /\ PlaceOK(w, c) /\ ConsentOK(c) /\ first \in 0 .. N - 1
  BY CallOf
<1>2. /\ c.pc = "gate" /\ call' = [call EXCEPT ![w] = d]
      /\ UNCHANGED <<consent, parked, broken, first, aborted>>
  BY DEF ReadRecord, Goto, robin
<1>3. /\ pc \in {"allowed", "unknown"} /\ (pc = "unknown" => c.at \notin Local)
      /\ pc = "allowed" /\ c.at \notin Local => c.at \in onRecord
  OBVIOUS
<1> HIDE DEF c, pc
<1>4. d \in CallRec /\ SameBut(c, d, pc)
  BY <1>1, <1>3, PhaseTyped DEF Pc
<1> HIDE DEF d
<1>5. PlaceOK(w, d)
  BY <1>1, <1>2, <1>3, <1>4 DEF PlaceOK, SameBut, AtProvider
<1>6. ConsentOK(d)
  <2>1. onRecord \subseteq agreed /\ (overlapped \/ barred \cap onRecord = {})
    BY DEF IndInv, RecordOK
  <2>2. QED
    BY <1>1, <1>2, <1>3, <1>4, <2>1 DEF ConsentOK, SameBut, AtProvider
<1>7. d.pc # "sending" /\ d.pc # "asking" /\ call[w].pc # "asking"
  BY <1>2, <1>3, <1>4 DEF SameBut, c
<1>8. QED
  BY <1>1, <1>2, <1>4, <1>5, <1>6, <1>7, QuietStep

LEMMA PromptStep == ASSUME IndInv, NEW w \in Callers, Prompt(w) PROVE IndInv' /\ Obeyed
<1> DEFINE c == call[w]
           d == [c EXCEPT !.pc = "asking"]
<1>1. c \in CallRec /\ PlaceOK(w, c) /\ ConsentOK(c) /\ first \in 0 .. N - 1
  BY CallOf
<1>2. /\ c.pc = "unknown" /\ call \in [Callers -> CallRec]
      /\ UNCHANGED <<onRecord, panel, agreed, barred, overlapped, parked, aborted>>
      /\ parked \subseteq Providers /\ broken \subseteq Providers
      /\ dialog \in Callers \cup {NoCaller} /\ dialog # w
  BY CallTyped DEF Prompt, IndInv, TypeOK, AskedIsShown
<1>3. Others(w, call)
  BY DEF Others
<1>4. CASE dialog = NoCaller
  <2>1. dialog' = w /\ call' = [call EXCEPT ![w] = d] /\ UNCHANGED <<broken, first>>
    BY <1>4 DEF Prompt, Goto
  <2> HIDE DEF c
  <2>2. d \in CallRec /\ SameBut(c, d, "asking")
    BY <1>1, PhaseTyped DEF Pc
  <2> HIDE DEF d
  <2>3. PlaceOK(w, d)
    BY <1>1, <1>2, <2>2 DEF PlaceOK, SameBut, AtProvider
  <2>4. ConsentOK(d)
    BY <1>1, <1>2, <2>2 DEF ConsentOK, SameBut, AtProvider
  <2>5. d.pc = "asking"
    BY <2>2 DEF SameBut
  <2>6. \A v \in Callers \ {w} : dialog' = v <=> dialog = v
    BY <1>4, <2>1
  <2>7. QED
    BY <1>1, <1>2, <1>3, <2>1, <2>2, <2>3, <2>4, <2>5, <2>6, CallStep
<1>5. CASE dialog # NoCaller
  <2>1. LetDown(w, call) /\ dialog' = dialog
    BY <1>5 DEF Prompt
  <2>2. call[w].pc \in AtProvider
    BY <1>2 DEF AtProvider
  <2>3. QED
    BY <1>2, <1>3, <2>1, <2>2, LetDownStep
<1>6. QED
  BY <1>4, <1>5

LEMMA RefuseStep == ASSUME IndInv, Refuse PROVE IndInv' /\ Obeyed
<1>1. /\ dialog \in Callers /\ dialog' = NoCaller /\ NoCaller \notin Callers /\ LetDown(dialog, call)
      /\ UNCHANGED <<onRecord, panel, agreed, barred, overlapped, aborted>>
      /\ parked' \subseteq Providers /\ call \in [Callers -> CallRec]
  BY CallTyped DEF Refuse, IndInv, TypeOK
<1> DEFINE w == dialog
<1>2. call[w].pc \in AtProvider
  BY <1>1 DEF IndInv, AskedIsShown, AtProvider
<1>3. Others(w, call)
  BY DEF Others
<1>4. \A v \in Callers \ {w} : dialog' = v <=> dialog = v
  BY <1>1
<1>5. QED
  BY <1>1, <1>2, <1>3, <1>4, LetDownStep

\* The call is over.
LEMMA OverStep ==
  ASSUME IndInv, NEW w \in Callers, Over(w), UNCHANGED <<consent, parked, broken, aborted>>,
         first' \in 0 .. N - 1, call[w].pc # "asking"
  PROVE  IndInv' /\ Obeyed
<1>1. Idle \in CallRec /\ Swept(w, Idle) /\ call' = [call EXCEPT ![w] = Idle] /\ broken' \subseteq Providers
  BY IdleSwept DEF Over, IndInv, TypeOK
<1>2. QED
  BY <1>1, SweptAlone

LEMMA SendStep == ASSUME IndInv, NEW w \in Callers, Send(w) PROVE IndInv' /\ Obeyed
<1> DEFINE c == call[w]
           d == [c EXCEPT !.pc = "sending"]
<1>1. c \in CallRec /\ PlaceOK(w, c) /\ ConsentOK(c) /\ first \in 0 .. N - 1
  BY CallOf
<1>2. c.pc \in {"allowed", "pausing"} /\ UNCHANGED <<consent, parked, broken, first, aborted>>
  BY DEF Send, robin
<1>3. CASE Stopped(w)
  <2>1. Over(w)
    BY <1>3 DEF Send
  <2>2. QED
    BY <1>1, <1>2, <2>1, OverStep
<1>4. CASE ~Stopped(w)
  <2>1. call' = [call EXCEPT ![w] = d] /\ call[w].pc # "asking"
    BY <1>2, <1>4 DEF Send, Goto
  <2> HIDE DEF c
  <2>2. d \in CallRec /\ SameBut(c, d, "sending")
    BY <1>1, PhaseTyped DEF Pc
  <2> HIDE DEF d
  <2>3. PlaceOK(w, d)
    BY <1>1, <1>2, <2>2 DEF PlaceOK, SameBut, AtProvider
  <2>4. ConsentOK(d)
    BY <1>1, <1>2, <2>2 DEF ConsentOK, SameBut, AtProvider
  <2>5. d.pc # "asking"
    BY <2>2 DEF SameBut
  <2>6. QED
    BY <1>1, <1>2, <1>4, <2>1, <2>2, <2>3, <2>4, <2>5, QuietStep
<1>5. QED
  BY <1>3, <1>4

LEMMA AnsweredStep == ASSUME IndInv, NEW w \in Callers, Answered(w) PROVE IndInv' /\ Obeyed
<1>1. /\ Over(w) /\ call[w].pc = "sending" /\ UNCHANGED <<consent, parked, broken, aborted>>
      /\ first' \in {Index(call[w].at), first}
  BY DEF Answered
<1>2. Index(call[w].at) \in 0 .. N - 1
  BY <1>1, CallOf, IndexFact DEF PlaceOK, AtProvider
<1>3. first' \in 0 .. N - 1
  BY <1>1, <1>2, CallOf
<1>4. QED
  BY <1>1, <1>3, OverStep

LEMMA TimesOutStep == ASSUME IndInv, NEW w \in Callers, TimesOut(w) PROVE IndInv' /\ Obeyed
<1>1. Over(w) /\ call[w].pc = "sending" /\ UNCHANGED <<consent, parked, broken, first, aborted>>
  BY DEF TimesOut, robin
<1>2. QED
  BY <1>1, CallOf, OverStep

LEMMA InterruptedStep == ASSUME IndInv, NEW w \in Callers, Interrupted(w) PROVE IndInv' /\ Obeyed
<1>1. Over(w) /\ call[w].pc # "asking" /\ UNCHANGED <<consent, parked, broken, first, aborted>>
  BY DEF Interrupted, robin
<1>2. QED
  BY <1>1, CallOf, OverStep

LEMMA BurstStep == ASSUME IndInv, NEW w \in Callers, Burst(w) PROVE IndInv' /\ Obeyed
<1> DEFINE c == call[w]
           d == [c EXCEPT !.pc = "pausing", !.bursts = c.bursts + 1]
<1>1. c \in CallRec /\ PlaceOK(w, c) /\ ConsentOK(c) /\ first \in 0 .. N - 1
  BY CallOf
<1>2. /\ c.pc = "sending" /\ c.bursts < MaxBursts /\ call' = [call EXCEPT ![w] = d]
      /\ UNCHANGED <<consent, parked, broken, first, aborted>> /\ call[w].pc # "asking"
  BY DEF Burst, robin
<1> HIDE DEF c
<1>3. d \in CallRec /\ SameBut(c, d, "pausing")
  <2>1. c.bursts + 1 \in 0 .. MaxBursts
    BY <1>1, <1>2 DEF CallRec
  <2>2. QED
    BY <1>1, <2>1 DEF CallRec, Pc, SameBut
<1> HIDE DEF d
<1>4. PlaceOK(w, d)
  BY <1>1, <1>2, <1>3 DEF PlaceOK, SameBut, AtProvider
<1>5. ConsentOK(d)
  BY <1>1, <1>2, <1>3 DEF ConsentOK, SameBut, AtProvider
<1>6. d.pc = "pausing"
  BY <1>3 DEF SameBut
<1>7. QED
  BY <1>1, <1>2, <1>3, <1>4, <1>5, <1>6, QuietStep

LEMMA TryFailedStep ==
  ASSUME IndInv, NEW w \in Callers, call[w].pc = "sending",
         NEW all \in [Callers -> CallRec], Others(w, all), all[w] = call[w], TryFailed(w, all),
         UNCHANGED <<consent, aborted>>, parked' \subseteq Providers
  PROVE  IndInv' /\ Obeyed
<1> DEFINE c == call[w]
           d == [c EXCEPT !.pc = "pausing", !.tries = c.tries + 1]
<1>1. c \in CallRec /\ PlaceOK(w, c) /\ ConsentOK(c) /\ first \in 0 .. N - 1
  BY CallOf
<1>2. /\ UNCHANGED <<onRecord, panel, agreed, barred, overlapped>> /\ dialog' = dialog
      /\ dialog \in Callers \cup {NoCaller} /\ dialog # w /\ broken \subseteq Providers
  BY DEF consent, IndInv, TypeOK, AskedIsShown
<1>3. CASE c.tries + 1 < Tries(c.at)
  <2>1. call' = [all EXCEPT ![w] = d] /\ UNCHANGED <<broken, first>>
    BY <1>3 DEF TryFailed
  <2> HIDE DEF c
  <2>2. d \in CallRec /\ SameBut(c, d, "pausing")
    <3>1. c.tries + 1 \in 0 .. MaxTries - 1
      BY <1>1, <1>3 DEF CallRec, Tries
    <3>2. QED
      BY <1>1, <3>1 DEF CallRec, Pc, SameBut
  <2> HIDE DEF d
  <2>3. c.pc = "sending"
    BY DEF c
  <2>4. PlaceOK(w, d)
    BY <1>1, <2>2, <2>3 DEF PlaceOK, SameBut, AtProvider
  <2>5. ConsentOK(d)
    BY <1>1, <2>2, <2>3 DEF ConsentOK, SameBut, AtProvider
  <2>6. d.pc = "pausing"
    BY <2>2 DEF SameBut
  <2>7. QED
    BY <1>1, <1>2, <2>1, <2>2, <2>4, <2>5, <2>6, CallStep
<1>4. CASE ~(c.tries + 1 < Tries(c.at))
  <2>1. LetDown(w, all)
    BY <1>4 DEF TryFailed
  <2>2. call[w].pc \in AtProvider
    BY DEF AtProvider
  <2>3. QED
    BY <1>2, <2>1, <2>2, LetDownStep
<1>5. QED
  BY <1>3, <1>4

LEMMA RequestFailsStep == ASSUME IndInv, NEW w \in Callers, RequestFails(w) PROVE IndInv' /\ Obeyed
<1>1. /\ call[w].pc = "sending" /\ TryFailed(w, call) /\ UNCHANGED <<consent, aborted>>
      /\ parked' \subseteq Providers /\ call \in [Callers -> CallRec]
  BY CallTyped DEF RequestFails, IndInv, TypeOK
<1>2. Others(w, call)
  BY DEF Others
<1>3. QED
  BY <1>1, <1>2, TryFailedStep

LEMMA ThrottledStep == ASSUME IndInv, NEW w \in Callers, Throttled(w) PROVE IndInv' /\ Obeyed
<1> DEFINE p == call[w].at
           all == Roused(p)
<1>1. call[w].pc = "sending" /\ TryFailed(w, all) /\ UNCHANGED <<consent, aborted>>
  BY DEF Throttled
<1>2. p \in Providers
  BY <1>1, CallOf DEF PlaceOK, AtProvider
<1>3. parked' \subseteq Providers
  BY <1>2 DEF Throttled, IndInv, TypeOK
<1>4. /\ all \in [Callers -> CallRec]
      /\ \A v \in Callers : \/ all[v] = call[v]
                            \/ call[v].pc = "sleeping" /\ SameBut(call[v], all[v], "woken")
  BY <1>2, RousedKept
<1> HIDE DEF p, all
<1>5. Others(w, all) /\ all[w] = call[w]
  BY <1>1, <1>4 DEF Others
<1>6. QED
  BY <1>1, <1>3, <1>4, <1>5, TryFailedStep

-----------------------------------------------------------------------------
(* The record of consents, and the user *)

LEMMA ReadGrantStep == ASSUME IndInv, NEW w \in Callers, ReadGrant(w) PROVE IndInv' /\ Obeyed
<1> DEFINE c == call[w]
           d == [c EXCEPT !.pc = "recording", !.copy = onRecord]
<1>1. c \in CallRec /\ PlaceOK(w, c) /\ ConsentOK(c) /\ first \in 0 .. N - 1
  BY CallOf
<1>2. /\ c.pc = "granting" /\ call' = [call EXCEPT ![w] = d] /\ call[w].pc # "asking"
      /\ UNCHANGED <<consent, parked, broken, first, aborted>>
  BY DEF ReadGrant, robin
<1>3. /\ onRecord \in SUBSET Providers /\ onRecord \subseteq agreed
      /\ overlapped \/ barred \cap onRecord = {}
  BY DEF IndInv, TypeOK, RecordOK
<1> HIDE DEF c
<1>4. /\ d \in CallRec /\ d.pc = "recording" /\ d.copy = onRecord /\ d.at = c.at
      /\ d.off = c.off /\ d.tried = c.tried /\ d.withdrawn = c.withdrawn
  BY <1>1, <1>3 DEF CallRec, Pc
<1> HIDE DEF d
<1>5. PlaceOK(w, d)
  BY <1>1, <1>2, <1>4 DEF PlaceOK, AtProvider
<1>6. ConsentOK(d)
  BY <1>1, <1>2, <1>3, <1>4 DEF ConsentOK, AtProvider
<1>7. QED
  BY <1>1, <1>2, <1>4, <1>5, <1>6, QuietStep

LEMMA WriteGrantStep == ASSUME IndInv, NEW w \in Callers, WriteGrant(w) PROVE IndInv' /\ Obeyed
<1> DEFINE c == call[w]
           d == [c EXCEPT !.pc = "allowed", !.copy = {}]
<1>1. c \in CallRec /\ PlaceOK(w, c) /\ ConsentOK(c)
  BY CallOf
<1>2. /\ c.pc = "recording" /\ call' = [call EXCEPT ![w] = d]
      /\ onRecord' \in {onRecord, c.copy \cup {c.at}}
      /\ UNCHANGED <<panel, dialog, agreed, barred, overlapped, parked, broken, first, aborted>>
  BY DEF WriteGrant, robin
<1>3. call \in [Callers -> CallRec]
  BY CallTyped DEF IndInv
<1> HIDE DEF c
<1>4. /\ d \in CallRec /\ d.pc = "allowed" /\ d.at = c.at
      /\ d.off = c.off /\ d.tried = c.tried /\ d.withdrawn = c.withdrawn
  BY <1>1 DEF CallRec, Pc
<1> HIDE DEF d
<1>5. PlaceOK(w, d) /\ ConsentOK(d)
  BY <1>1, <1>2, <1>4 DEF PlaceOK, ConsentOK, AtProvider
<1>6. /\ c.at \in agreed /\ c.copy \subseteq agreed
      /\ overlapped \/ (c.at \notin barred /\ c.copy \cap barred = {})
  BY <1>1, <1>2 DEF ConsentOK
<1>7. onRecord' \subseteq agreed /\ (overlapped \/ onRecord' \cap barred = {})
  BY <1>2, <1>6 DEF IndInv, RecordOK
<1>8. /\ call' \in [Callers -> CallRec] /\ call'[w] = d
      /\ \A v \in Callers \ {w} : call'[v] = call[v]
  BY <1>2, <1>3, <1>4
<1>9. TypeOK'
  BY <1>2, <1>7, <1>8 DEF IndInv, TypeOK, CallRec
<1>10. AskedIsShown'
  BY <1>2, <1>4, <1>8 DEF IndInv, AskedIsShown, c
<1>11. RecordOK'
  BY <1>2, <1>7 DEF IndInv, RecordOK
<1>12. \A v \in Callers : (PlaceOK(v, call[v]) /\ ConsentOK(call[v]))'
  BY <1>2, <1>5, <1>8 DEF IndInv, PlaceOK, ConsentOK
<1>13. Obeyed
  BY <1>4, <1>8 DEF Obeyed, Callers
<1>14. QED
  BY <1>9, <1>10, <1>11, <1>12, <1>13 DEF IndInv

LEMMA AllowStep == ASSUME IndInv, Allow PROVE IndInv' /\ Obeyed
<1> DEFINE p == call[dialog].at
           new(v) == [call[v] EXCEPT !.withdrawn = @ /\ call[v].at # p,
                                     !.pc = IF v = dialog THEN "granting" ELSE @]
<1>1. /\ dialog \in Callers /\ dialog' = NoCaller /\ NoCaller \notin Callers
      /\ call \in [Callers -> CallRec] /\ call[dialog].pc = "asking"
      /\ UNCHANGED <<onRecord, panel, parked, broken, first, aborted>>
      /\ agreed' = agreed \cup {p} /\ barred' = barred \ {p}
      /\ (overlapped' <=> overlapped \/ panel # NoPanel) /\ overlapped' \in BOOLEAN
  BY CallTyped DEF Allow, IndInv, TypeOK, AskedIsShown, robin
<1>2. p \in Providers \ Local
  BY <1>1, CallOf DEF PlaceOK, ConsentOK, AtProvider
<1>3. call' = [v \in Callers |-> new(v)]
  BY DEF Allow
<1> HIDE DEF p
<1>4. ASSUME NEW v \in Callers
      PROVE  /\ call'[v] \in CallRec
             /\ SameBut([call[v] EXCEPT !.withdrawn = @ /\ call[v].at # p], call'[v],
                        IF v = dialog THEN "granting" ELSE call[v].pc)
  <2> DEFINE c == call[v]
  <2>1. c \in CallRec /\ call'[v] = [c EXCEPT !.withdrawn = @ /\ c.at # p,
                                              !.pc = IF v = dialog THEN "granting" ELSE @]
    BY <1>1, <1>3
  <2> HIDE DEF c
  <2>2. QED
    BY <2>1 DEF CallRec, Pc, SameBut, c
<1>5. \A v \in Callers :
        LET c == call[v]
            d == call'[v]
        IN  /\ d \in CallRec /\ d.at = c.at /\ d.off = c.off /\ d.copy = c.copy
            /\ d.tried = c.tried /\ d.passed = c.passed
            /\ d.withdrawn <=> c.withdrawn /\ c.at # p
            /\ d.pc = IF v = dialog THEN "granting" ELSE c.pc
  BY <1>1, <1>4 DEF SameBut, CallRec
<1>6. call' \in [Callers -> CallRec]
  BY <1>3, <1>5
<1>7. TypeOK'
  BY <1>1, <1>2, <1>6 DEF IndInv, TypeOK, CallRec
<1>8. AskedIsShown'
  BY <1>1, <1>5 DEF IndInv, AskedIsShown
<1>9. RecordOK'
  BY <1>1 DEF IndInv, RecordOK
<1>10. \A v \in Callers : PlaceOK(v, call'[v])
  BY <1>1, <1>5 DEF IndInv, PlaceOK, AtProvider
<1>11. ASSUME NEW v \in Callers PROVE ConsentOK(call[v])'
  <2>1. ConsentOK(call[v])
    BY DEF IndInv
  <2>2. CASE v = dialog
    <3>1. call'[v].pc = "granting" /\ call'[v].at = p /\ ~call'[v].withdrawn
      BY <1>1, <1>5, <2>2 DEF p
    <3>2. p \notin Local
      BY <1>2
    <3>3. QED
      BY <1>1, <3>1, <3>2 DEF ConsentOK, AtProvider
  <2>3. CASE v # dialog
    <3>1. /\ call'[v].pc = call[v].pc /\ call'[v].at = call[v].at /\ call'[v].copy = call[v].copy
          /\ call'[v].withdrawn <=> call[v].withdrawn /\ call[v].at # p
      BY <1>5, <2>3
    <3>2. QED
      BY <1>1, <2>1, <3>1 DEF ConsentOK, AtProvider
  <2>4. QED
    BY <2>2, <2>3
<1>12. Obeyed
  BY <1>1, <1>5 DEF Obeyed, Callers
<1>13. QED
  BY <1>7, <1>8, <1>9, <1>10, <1>11, <1>12 DEF IndInv, PlaceOK

LEMMA RevokeStep == ASSUME IndInv, NEW p \in Providers, Revoke(p) PROVE IndInv' /\ Obeyed
<1>1. /\ p \in onRecord /\ panel' = [at |-> p, copy |-> onRecord]
      /\ UNCHANGED <<onRecord, dialog, agreed, barred, parked, broken, first, aborted, call>>
      /\ overlapped' = (overlapped \/ \E w \in Callers : call[w].pc \in {"granting", "recording"})
  BY DEF Revoke, robin
<1>2. TypeOK'
  BY <1>1 DEF IndInv, TypeOK
<1>3. AskedIsShown' /\ RecordOK'
  BY <1>1 DEF IndInv, AskedIsShown, RecordOK, TypeOK
<1>4. ASSUME NEW v \in Callers PROVE (PlaceOK(v, call[v]) /\ ConsentOK(call[v]))'
  <2>1. PlaceOK(v, call[v]) /\ ConsentOK(call[v]) /\ (overlapped => overlapped')
    BY <1>1 DEF IndInv
  <2>2. call[v].pc \in {"granting", "recording"} => overlapped'
    BY <1>1
  <2>3. QED
    BY <1>1, <2>1, <2>2 DEF PlaceOK, ConsentOK
<1>5. Obeyed
  BY <1>1 DEF Obeyed
<1>6. QED
  BY <1>2, <1>3, <1>4, <1>5 DEF IndInv

LEMMA WriteRevokeStep == ASSUME IndInv, WriteRevoke PROVE IndInv' /\ Obeyed
<1>1. /\ panel # NoPanel /\ panel' = NoPanel /\ onRecord' = panel.copy \ {panel.at}
      /\ barred' = barred \cup {panel.at}
      /\ UNCHANGED <<dialog, agreed, overlapped, parked, broken, first, aborted, call>>
  BY DEF WriteRevoke, robin
<1>2. panel.at \in Providers \ Local /\ NoPanel.copy = {}
  BY <1>1 DEF IndInv, RecordOK, NoPanel
<1>3. NoPanel \in [at : Providers \cup {NoProvider}, copy : SUBSET Providers]
  BY DEF NoPanel
<1>4. onRecord' \subseteq agreed /\ (overlapped \/ onRecord' \cap barred' = {})
  BY <1>1 DEF IndInv, RecordOK
<1>5. TypeOK'
  BY <1>1, <1>2, <1>3, <1>4 DEF IndInv, TypeOK
<1>6. AskedIsShown' /\ RecordOK'
  BY <1>1, <1>2, <1>4 DEF IndInv, AskedIsShown, RecordOK
<1>7. ASSUME NEW v \in Callers PROVE (PlaceOK(v, call[v]) /\ ConsentOK(call[v]))'
  <2>1. PlaceOK(v, call[v]) /\ ConsentOK(call[v])
    BY DEF IndInv
  <2>2. QED
    BY <1>1, <2>1 DEF PlaceOK, ConsentOK, AtProvider
<1>8. Obeyed
  BY <1>1 DEF Obeyed
<1>9. QED
  BY <1>5, <1>6, <1>7, <1>8 DEF IndInv

\* A stop, and the start of the next run, leave the calls and the consents alone.
LEMMA CallsKept ==
  ASSUME IndInv, UNCHANGED <<consent, parked, call>>, aborted' \in BOOLEAN,
         broken' \subseteq Providers, first' \in 0 .. N - 1
  PROVE  IndInv' /\ Obeyed
<1>1. UNCHANGED <<onRecord, panel, dialog, agreed, barred, overlapped, parked, call>>
  BY DEF consent
<1>2. TypeOK' /\ AskedIsShown' /\ RecordOK'
  BY <1>1 DEF IndInv, TypeOK, AskedIsShown, RecordOK
<1>3. \A v \in Callers : (PlaceOK(v, call[v]) /\ ConsentOK(call[v]))'
  BY <1>1 DEF IndInv, PlaceOK, ConsentOK
<1>4. Obeyed
  BY <1>1 DEF Obeyed
<1>5. QED
  BY <1>2, <1>3, <1>4 DEF IndInv

-----------------------------------------------------------------------------
(* The invariant is inductive *)

LEMMA InitInd == Init => IndInv
<1> SUFFICES ASSUME Init PROVE IndInv
  OBVIOUS
<1>1. 0 \in 0 .. N - 1 /\ Idle \in CallRec /\ Idle.pc = "idle" /\ NoCaller \notin Callers
  BY ListFacts, IdleTyped
<1>2. NoPanel = [at |-> NoProvider, copy |-> {}]
  BY DEF NoPanel
<1> HIDE DEF Idle
<1>3. TypeOK
  BY <1>1, <1>2 DEF Init, TypeOK, CallRec
<1>4. AskedIsShown /\ RecordOK
  BY <1>1, <1>2 DEF Init, AskedIsShown, RecordOK
<1>5. \A v \in Callers : PlaceOK(v, call[v]) /\ ConsentOK(call[v])
  BY <1>1 DEF Init, PlaceOK, ConsentOK, AtProvider
<1>6. QED
  BY <1>3, <1>4, <1>5 DEF IndInv

LEMMA NextInd == IndInv /\ [Next]_vars => IndInv' /\ Obeyed
<1> SUFFICES ASSUME IndInv, [Next]_vars PROVE IndInv' /\ Obeyed
  OBVIOUS
<1>1. ASSUME NEW w \in Analysts, Ask(w) PROVE IndInv' /\ Obeyed
  BY <1>1, AskStep
<1>2. ASSUME NEW w \in Chats, NEW p \in Providers, Chat(w, p) PROVE IndInv' /\ Obeyed
  BY <1>2, ChatStep
<1>3. CASE Refuse
  BY <1>3, RefuseStep
<1>4. CASE Allow
  BY <1>4, AllowStep
<1>5. CASE Stop
  <2>1. UNCHANGED <<consent, parked, broken, first, call>> /\ aborted' \in BOOLEAN
    BY <1>5 DEF Stop, robin
  <2>2. broken' \subseteq Providers /\ first' \in 0 .. N - 1
    BY <2>1 DEF IndInv, TypeOK
  <2>3. QED
    BY <2>1, <2>2, CallsKept
<1>6. CASE NewRun
  <2>1. UNCHANGED <<consent, parked, call>> /\ aborted' \in BOOLEAN /\ broken' = {} /\ first' = 0
    BY <1>6 DEF NewRun
  <2>2. broken' \subseteq Providers /\ first' \in 0 .. N - 1
    BY <2>1, ListFacts
  <2>3. QED
    BY <2>1, <2>2, CallsKept
<1>7. ASSUME NEW p \in Providers, Revoke(p) PROVE IndInv' /\ Obeyed
  BY <1>7, RevokeStep
<1>8. CASE Pending
  <2>1. ASSUME NEW w \in Callers,
               \/ Woken(w) \/ ReadRecord(w) \/ Prompt(w) \/ ReadGrant(w) \/ WriteGrant(w)
               \/ Send(w) \/ Answered(w) \/ RequestFails(w) \/ Burst(w) \/ Throttled(w) \/ TimesOut(w)
               \/ Interrupted(w)
        PROVE  IndInv' /\ Obeyed
    BY <2>1, WokenStep, ReadRecordStep, PromptStep, ReadGrantStep, WriteGrantStep, SendStep,
       AnsweredStep, RequestFailsStep, BurstStep, ThrottledStep, TimesOutStep, InterruptedStep
  <2>2. ASSUME NEW p \in Providers, CoolDown(p) PROVE IndInv' /\ Obeyed
    BY <2>2, CoolDownStep
  <2>3. CASE WriteRevoke
    BY <2>3, WriteRevokeStep
  <2>4. QED
    BY <1>8, <2>1, <2>2, <2>3 DEF Pending
<1>9. CASE UNCHANGED vars
  <2>1. /\ UNCHANGED <<consent, parked, call, broken, first, aborted>>
        /\ broken \subseteq Providers /\ first \in 0 .. N - 1 /\ aborted \in BOOLEAN
    BY <1>9 DEF vars, consent, IndInv, TypeOK
  <2>2. QED
    BY <2>1, CallsKept
<1>10. QED
  BY <1>1, <1>2, <1>3, <1>4, <1>5, <1>6, <1>7, <1>8, <1>9 DEF Next

LEMMA IndInvHolds == Spec => []IndInv
<1>1. QED
  BY InitInd, NextInd, PTL DEF Spec

-----------------------------------------------------------------------------
(* Theorems *)

\* Types; whoever waits for the user's answer waits for the dialog that is open
\* (the promise of ThirdPartyAiConsent.svelte); a call of queryRR that fails
\* without having asked anybody found every provider sidelined or cooling.
THEOREM ProvidersCorrect == Spec => []ProvidersInv
<1>1. IndInv => ProvidersInv
  BY DEF IndInv, PlaceOK, ProvidersInv, FailureHasCause, Callers
<1>2. QED
  BY <1>1, IndInvHolds, PTL

\* The consent gate of LLMClient.query lets nothing through to a third party the
\* user did not say yes to, nor, unless a grant raced with a withdrawal, to one
\* whose consent was withdrawn before the call.
THEOREM PermissionCorrect == Spec => []SentOnlyWithPermission
<1>1. IndInv => SentOnlyWithPermission
  BY DEF IndInv, ConsentOK, SentOnlyWithPermission
<1>2. QED
  BY <1>1, IndInvHolds, PTL

\* After stopAll has aborted the signal no LLM worker sends another request.
THEOREM StopCorrect == Spec => StopIsObeyed
<1>1. IndInv /\ [Next]_vars => Obeyed
  BY NextInd
<1>2. Obeyed => [\A w \in Analysts : aborted /\ call[w].pc # "sending" => call'[w].pc # "sending"]_vars
  BY DEF Obeyed
<1>3. QED
  BY <1>1, <1>2, IndInvHolds, PTL DEF Spec, StopIsObeyed
=============================================================================
