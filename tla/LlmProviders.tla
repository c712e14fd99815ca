---------------------------- MODULE LlmProviders ----------------------------
(***************************************************************************)
(* Asking a language model: queryRR, with which the LLM workers of a batch *)
(* run go through the user's list of providers (lib/batch/store.svelte.ts),*)
(* LLMClient.query with its retries and cooldowns (lib/llm/client.ts), and *)
(* the consent gate every remote request passes (lib/llm/                  *)
(* thirdPartyConsent.ts, ThirdPartyAiConsent.svelte).  The chat and the    *)
(* test buttons of the settings call query for one provider.  Each action  *)
(* is what one caller does between two awaits.                             *)
(***************************************************************************)
EXTENDS Integers, Sequences, FiniteSets

CONSTANTS
  Order,      \* rrProviders: the active provider, then the fallbacks
  Local,      \* those that isThirdPartyEgress finds on this machine
  Analysts,   \* LLM workers of a run
  Chats,      \* the other callers of query
  MaxTries,   \* maxRetries of a remote provider (3); a local one has one try
  MaxBursts,  \* MAX_RL_RETRIES (6)
  MaxCalls,   \* bound: calls of queryRR and query
  MaxClicks,  \* bound: consents withdrawn, and stops
  NoCaller, NoProvider

N == Len(Order)
Providers == {Order[k] : k \in 1 .. N}
Callers == Analysts \cup Chats

ASSUME ProvidersAssumption ==
  /\ Order \in Seq(Providers) /\ N > 0 /\ Cardinality(Providers) = N
  /\ Local \subseteq Providers /\ NoProvider \notin Providers
  /\ Analysts \cap Chats = {} /\ NoCaller \notin Callers
  /\ MaxTries \in Nat \ {0} /\ MaxBursts \in Nat

VARIABLES
  onRecord,   \* the setting thirdPartyAiConsent
  panel,      \* revokeConsent between its read and its write
  dialog,     \* pending: the caller whose request the dialog shows
  parked,     \* providerCooldowns that have not elapsed
  broken,     \* rrBroken
  first,      \* rrIdx
  aborted,    \* llmAbort.signal.aborted
  call,       \* what each caller is at
  calls,      \* counts towards MaxCalls
  clicks,     \* counts towards MaxClicks
  agreed,     \* history: providers the user said yes to
  barred,     \* history: providers withdrawn since the last yes
  overlapped  \* history: a withdrawal and a grant were under way at once

vars == <<onRecord, panel, dialog, parked, broken, first, aborted, call, calls, clicks,
          agreed, barred, overlapped>>
consent == <<onRecord, panel, dialog, agreed, barred, overlapped>>
robin == <<parked, broken, first>>
counts == <<calls, clicks>>

Rest == {"idle", "failed"}
Pc == Rest \cup {"gate", "unknown", "allowed", "asking", "granting", "recording",
                 "sending", "pausing", "sleeping", "woken"}

\* off, sweep: the loops of queryRR.  tried, passed: history, the providers this
\* call asked, and those it passed over.  withdrawn: history, the user withdrew
\* consent before query was called and has not said yes since.
Idle == [pc |-> "idle", at |-> NoProvider, off |-> 0, sweep |-> 1, tries |-> 0, bursts |-> 0,
         copy |-> {}, tried |-> {}, passed |-> {}, withdrawn |-> FALSE]
NoPanel == [at |-> NoProvider, copy |-> {}]

TypeOK ==
  /\ onRecord \subseteq Providers \ Local /\ agreed \subseteq Providers \ Local
  /\ barred \subseteq Providers \ Local
  /\ panel \in [at : Providers \cup {NoProvider}, copy : SUBSET Providers]
  /\ dialog \in Callers \cup {NoCaller}
  /\ parked \subseteq Providers /\ broken \subseteq Providers /\ first \in 0 .. N - 1
  /\ aborted \in BOOLEAN /\ overlapped \in BOOLEAN
  /\ call \in [Callers -> [pc : Pc, at : Providers \cup {NoProvider}, off : 0 .. N, sweep : 1 .. 2,
                           tries : 0 .. MaxTries - 1, bursts : 0 .. MaxBursts, copy : SUBSET Providers,
                           tried : SUBSET Providers, passed : SUBSET Providers, withdrawn : BOOLEAN]]

Init ==
  /\ onRecord \in SUBSET (Providers \ Local) /\ agreed = onRecord
  /\ barred = {} /\ overlapped = FALSE /\ panel = NoPanel /\ dialog = NoCaller
  /\ parked = {} /\ broken = {} /\ first = 0 /\ aborted = FALSE
  /\ call = [w \in Callers |-> Idle] /\ calls = 0 /\ clicks = 0

-----------------------------------------------------------------------------
Busy(w) == call[w].pc \notin Rest
Stopped(w) == w \in Analysts /\ aborted
Tries(p) == IF p \in Local THEN 1 ELSE MaxTries
Index(p) == (CHOOSE k \in 1 .. N : Order[k] = p) - 1

Goto(w, pc) == call' = [call EXCEPT ![w].pc = pc]
Over(w) == call' = [call EXCEPT ![w] = Idle]

\* What is left of a call that fails.
Failure(c) == [Idle EXCEPT !.pc = "failed", !.tried = c.tried, !.passed = c.passed]

\* query is entered for provider p; the signal is looked at first.
Entered(w, p, c) ==
  IF Stopped(w) THEN Idle
  ELSE [c EXCEPT !.pc = "gate", !.at = p, !.tries = 0, !.bursts = 0,
                 !.tried = @ \cup {p}, !.withdrawn = p \in barred]

-----------------------------------------------------------------------------
(* queryRR *)

\* The loop goes on in call c, the other calls being as in all: to the next
\* provider that is neither sidelined nor parked; if this sweep found every one
\* cooling, to a sleep until the soonest is back; else to the end.
SweepTo(len, w, c, all, sidelined, start) ==
  LET nth(k) == Order[((start + k) % N) + 1]
      open == {k \in c.off .. len - 1 : nth(k) \notin sidelined \cup parked'}
      upTo == IF open = {} THEN len ELSE CHOOSE k \in open : \A j \in open : k <= j
      d == [c EXCEPT !.off = upTo, !.passed = @ \cup {nth(k) : k \in c.off .. upTo - 1}]
      allCool == open = {} /\ c.off = 0 /\ sidelined = {}
  IN
  /\ broken' = sidelined
  /\ \/ open # {} /\ call' = [all EXCEPT ![w] = Entered(w, nth(upTo), d)]
     \/ allCool /\ \E p \in Providers : call' = [all EXCEPT ![w] = [d EXCEPT !.pc = "sleeping", !.at = p]]
     \/ open = {} /\ ~allCool /\ call' = [all EXCEPT ![w] = Failure(d)]
  /\ first' = IF open # {} \/ allCool \/ Providers \subseteq sidelined THEN start ELSE 0

\* Mutant: the last provider is left out.
SweepShort(w, c, all, sidelined, start) == SweepTo(N - 1, w, c, all, sidelined, start)
Sweep(w, c, all, sidelined, start) == SweepTo(N, w, c, all, sidelined, start)

\* query throws: queryRR sidelines the provider and goes on.  Nothing it throws
\* is a RateLimitError: the loop of query catches that one itself.
LetDown(w, all) ==
  LET c == all[w] IN
  IF w \in Chats THEN call' = [all EXCEPT ![w] = Idle] /\ UNCHANGED <<broken, first>>
  ELSE Sweep(w, [c EXCEPT !.off = @ + 1, !.at = NoProvider], all,
             broken \cup {c.at}, (Index(c.at) + 1) % N)

\* An LLM worker needs an answer: of the item, or of its author's name.
Ask(w) ==
  /\ ~Busy(w) /\ ~aborted /\ calls < MaxCalls
  /\ calls' = calls + 1
  /\ UNCHANGED <<consent, parked, aborted, clicks>>
  /\ Sweep(w, Idle, call, broken, first)

\* The sleep is over; after the second one there is no third sweep.
Woken(w) ==
  /\ call[w].pc = "woken"
  /\ UNCHANGED <<consent, parked, aborted, counts>>
  /\ IF call[w].sweep = 2
     THEN /\ call' = [call EXCEPT ![w] = Failure(call[w])] /\ first' = 0 /\ UNCHANGED broken
     ELSE Sweep(w, [call[w] EXCEPT !.at = NoProvider, !.off = 0, !.sweep = 2], call, broken, first)

\* A cooldown of p ends, at the time that was known when a sleep began.
Roused(p) == [w \in Callers |-> IF call[w].pc = "sleeping" /\ call[w].at = p
                                THEN [call[w] EXCEPT !.pc = "woken"] ELSE call[w]]
CoolDown(p) ==
  /\ p \in parked
  /\ parked' = parked \ {p} /\ call' = Roused(p)
  /\ UNCHANGED <<consent, broken, first, aborted, counts>>

-----------------------------------------------------------------------------
(* query *)

\* The chat or a test button
Chat(w, p) ==
  /\ ~Busy(w) /\ calls < MaxCalls
  /\ calls' = calls + 1
  /\ call' = [call EXCEPT ![w] = Entered(w, p, Idle)]
  /\ UNCHANGED <<consent, robin, aborted, clicks>>

\* ensureThirdPartyConsent: the record is read ...
ReadRecord(w) ==
  /\ call[w].pc = "gate"
  /\ Goto(w, IF call[w].at \in Local \cup onRecord THEN "allowed" ELSE "unknown")
  /\ UNCHANGED <<consent, robin, aborted, counts>>

\* Mutant: an open dialog is taken for a yes.
PromptBusyAllowed(w) ==
  /\ call[w].pc = "unknown"
  /\ IF dialog = NoCaller THEN dialog' = w /\ Goto(w, "asking")
     ELSE Goto(w, "allowed") /\ UNCHANGED dialog
  /\ UNCHANGED <<onRecord, panel, agreed, barred, overlapped, robin, aborted, counts>>

\* ... and the user asked, unless the dialog shows another request: that is a no.
Prompt(w) ==
  /\ call[w].pc = "unknown"
  /\ UNCHANGED <<onRecord, panel, agreed, barred, overlapped, parked, aborted, counts>>
  /\ IF dialog = NoCaller
     THEN dialog' = w /\ Goto(w, "asking") /\ UNCHANGED <<broken, first>>
     ELSE LetDown(w, call) /\ UNCHANGED dialog

Refuse ==
  /\ dialog # NoCaller /\ dialog' = NoCaller
  /\ UNCHANGED <<onRecord, panel, agreed, barred, overlapped, parked, aborted, counts>>
  /\ LetDown(dialog, call)

Allow ==
  LET p == call[dialog].at IN
  /\ dialog # NoCaller /\ dialog' = NoCaller
  /\ call' = [w \in Callers |->
       [call[w] EXCEPT !.withdrawn = @ /\ call[w].at # p,
                       !.pc = IF w = dialog THEN "granting" ELSE @]]
  /\ agreed' = agreed \cup {p} /\ barred' = barred \ {p}
  /\ overlapped' = (overlapped \/ panel # NoPanel)
  /\ UNCHANGED <<onRecord, panel, robin, aborted, counts>>

\* grantConsent: the list is read, and saved with the provider added.
ReadGrant(w) ==
  /\ call[w].pc = "granting"
  /\ call' = [call EXCEPT ![w] = [@ EXCEPT !.pc = "recording", !.copy = onRecord]]
  /\ UNCHANGED <<consent, robin, aborted, counts>>

WriteGrant(w) ==
  LET c == call[w] IN
  /\ c.pc = "recording"
  /\ onRecord' = IF c.at \in c.copy THEN onRecord ELSE c.copy \cup {c.at}
  /\ call' = [call EXCEPT ![w] = [@ EXCEPT !.pc = "allowed", !.copy = {}]]
  /\ UNCHANGED <<panel, dialog, agreed, barred, overlapped, robin, aborted, counts>>

\* Mutant: the signal is not looked at before a try.
SendAnyway(w) ==
  /\ call[w].pc \in {"allowed", "pausing"}
  /\ Goto(w, "sending")
  /\ UNCHANGED <<consent, robin, aborted, counts>>

\* The head of the loop, and the request.
Send(w) ==
  /\ call[w].pc \in {"allowed", "pausing"}
  /\ IF Stopped(w) THEN Over(w) ELSE Goto(w, "sending")
  /\ UNCHANGED <<consent, robin, aborted, counts>>

Answered(w) ==
  /\ call[w].pc = "sending"
  /\ Over(w)
  /\ first' = IF w \in Analysts THEN Index(call[w].at) ELSE first
  /\ UNCHANGED <<consent, parked, broken, aborted, counts>>

\* One try is used up: a pause, or the last error.
TryFailed(w, c) ==
  IF c[w].tries + 1 < Tries(c[w].at)
  THEN call' = [c EXCEPT ![w] = [@ EXCEPT !.pc = "pausing", !.tries = c[w].tries + 1]] /\ UNCHANGED <<broken, first>>
  ELSE LetDown(w, c)

RequestFails(w) ==
  /\ call[w].pc = "sending"
  /\ UNCHANGED <<consent, parked, aborted, counts>>
  /\ TryFailed(w, call)

\* Mutant: short waits are not counted.
BurstForever(w) ==
  /\ call[w].pc = "sending"
  /\ Goto(w, "pausing")
  /\ UNCHANGED <<consent, robin, aborted, counts>>

\* 429 with a short wait: the same try again.
Burst(w) ==
  /\ call[w].pc = "sending" /\ call[w].bursts < MaxBursts
  /\ call' = [call EXCEPT ![w] = [@ EXCEPT !.pc = "pausing", !.bursts = call[w].bursts + 1]]
  /\ UNCHANGED <<consent, robin, aborted, counts>>

\* 429 with a long wait: the provider is parked, and the error caught as any other.
Throttled(w) ==
  LET p == call[w].at IN
  /\ call[w].pc = "sending"
  /\ parked' = parked \cup {p}
  /\ TryFailed(w, Roused(p))
  /\ UNCHANGED <<consent, aborted, counts>>

TimesOut(w) ==
  /\ call[w].pc = "sending"
  /\ Over(w)
  /\ UNCHANGED <<consent, robin, aborted, counts>>

\* The signal reaches a request, a pause or a sleep.
Interrupted(w) ==
  /\ Stopped(w) /\ call[w].pc \in {"sending", "pausing", "sleeping"}
  /\ Over(w)
  /\ UNCHANGED <<consent, robin, aborted, counts>>

-----------------------------------------------------------------------------
(* The user *)

\* stopAll
Stop ==
  /\ ~aborted /\ (\E w \in Analysts : Busy(w))
  /\ clicks < MaxClicks /\ clicks' = clicks + 1
  /\ aborted' = TRUE
  /\ UNCHANGED <<consent, robin, call, calls>>

\* processAll, once the workers of the run before have exited
NewRun ==
  /\ \A w \in Analysts : ~Busy(w)
  /\ aborted' = FALSE /\ broken' = {} /\ first' = 0
  /\ UNCHANGED <<consent, parked, call, counts>>

\* revokeConsent
Revoke(p) ==
  /\ p \in onRecord /\ panel = NoPanel
  /\ clicks < MaxClicks /\ clicks' = clicks + 1
  /\ panel' = [at |-> p, copy |-> onRecord]
  /\ overlapped' = (overlapped \/ \E w \in Callers : call[w].pc \in {"granting", "recording"})
  /\ UNCHANGED <<onRecord, dialog, agreed, barred, robin, aborted, call, calls>>

WriteRevoke ==
  /\ panel # NoPanel /\ panel' = NoPanel
  /\ onRecord' = panel.copy \ {panel.at}
  /\ barred' = barred \cup {panel.at}
  /\ UNCHANGED <<dialog, agreed, overlapped, robin, aborted, call, counts>>

-----------------------------------------------------------------------------
Pending ==
  \/ \E w \in Callers :
       \/ Woken(w) \/ ReadRecord(w) \/ Prompt(w) \/ ReadGrant(w) \/ WriteGrant(w)
       \/ Send(w) \/ Answered(w) \/ RequestFails(w) \/ Burst(w) \/ Throttled(w) \/ TimesOut(w)
       \/ Interrupted(w)
  \/ \E p \in Providers : CoolDown(p)
  \/ WriteRevoke

Next ==
  \/ \E w \in Analysts : Ask(w)
  \/ \E w \in Chats, p \in Providers : Chat(w, p)
  \/ Refuse \/ Allow \/ Stop \/ NewRun
  \/ \E p \in Providers : Revoke(p)
  \/ Pending

Spec == Init /\ [][Next]_vars

\* Requests are answered or time out, sleeps end, and the settings store answers.
FairSpec == Spec /\ WF_vars(Pending)

-----------------------------------------------------------------------------
(* Properties *)

\* Whoever waits for the user's answer waits for the dialog that is open: no
\* second request takes its place.
AskedIsShown == \A w \in Callers : call[w].pc = "asking" <=> dialog = w

\* A call that fails without having asked anybody found every provider sidelined
\* or cooling.
FailureHasCause ==
  \A w \in Analysts : call[w].pc = "failed" /\ call[w].tried = {} => call[w].passed = Providers

ProvidersInv == TypeOK /\ AskedIsShown /\ FailureHasCause

\* Nothing is on its way to a third party the user did not say yes to, nor to one
\* whose consent was withdrawn before the call, unless a grant raced with the
\* withdrawal.
SentOnlyWithPermission ==
  \A w \in Callers :
    call[w].pc \in {"sending", "pausing"} /\ call[w].at \notin Local =>
      call[w].at \in agreed /\ (call[w].withdrawn => overlapped)

\* After a stop no LLM worker sends another request, a yes in a dialog that was
\* still open included.
StopIsObeyed ==
  [][\A w \in Analysts : aborted /\ call[w].pc # "sending" => call'[w].pc # "sending"]_vars

\* Every call comes to an end, if the user answers the dialogs.
CallsEnd == []<>(dialog = NoCaller) => \A w \in Callers : Busy(w) ~> ~Busy(w)

\* HISTORY.md: the batch run "cycles through fallback providers on failure".  An
\* item fails only when every provider was asked, or passed over as sidelined or
\* cooling.
NoFallbackOverlooked ==
  \A w \in Analysts : call[w].pc = "failed" => call[w].tried \cup call[w].passed = Providers
=============================================================================
