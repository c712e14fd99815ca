--------------------------- MODULE TaskLifecycle ---------------------------
(***************************************************************************)
(* What a client that polls GET /v1/tasks/:id is promised about its task:  *)
(* the states it may see, in which order, and how the attempt counter      *)
(* moves.  No workers, no leases, no time, no crashes.  IngestQueue        *)
(* implements it.                                                          *)
(***************************************************************************)
EXTENDS Naturals

CONSTANTS Tasks,
          Patience,   \* task -> attempts after which a failure is final
          Runs        \* task -> attempts it may get at most

VARIABLES state, attempts

lifecycle == <<state, attempts>>

LifecycleTypeOK ==
  /\ state \in [Tasks -> {"absent", "queued", "processing", "done", "failed"}]
  /\ attempts \in [Tasks -> Nat]

Init == /\ state = [t \in Tasks |-> "absent"]
        /\ attempts = [t \in Tasks |-> 0]

\* A task goes from one state and counter to the next.  An import brings in a
\* task another server already worked on.
Accept(t) == /\ state[t] = "absent" /\ state'[t] = "queued"
             /\ attempts'[t] = 0

Import(t) == /\ state[t] = "absent" /\ state'[t] \in {"queued", "done", "failed"}
             /\ attempts'[t] <= Runs[t]

Begin(t) == /\ state[t] = "queued" /\ state'[t] = "processing"
            /\ attempts[t] < Runs[t] /\ attempts'[t] = attempts[t] + 1

GiveBack(t) == /\ state[t] = "processing" /\ state'[t] = "queued"
               /\ attempts[t] < Patience[t] /\ attempts'[t] = attempts[t]

GiveUp(t) == /\ state[t] = "processing" /\ state'[t] = "failed"
             /\ attempts[t] >= Patience[t] /\ attempts'[t] = attempts[t]

Succeed(t) == /\ state[t] = "processing" /\ state'[t] = "done"
              /\ attempts'[t] = attempts[t]

Stay(t) == state'[t] = state[t] /\ attempts'[t] = attempts[t]

Move(t) == \/ Accept(t) \/ Import(t) \/ Begin(t)
           \/ GiveBack(t) \/ GiveUp(t) \/ Succeed(t)

\* One transaction may move several tasks, each by one move.
Next == \A t \in Tasks : Move(t) \/ Stay(t)

Spec == Init /\ [][Next]_lifecycle
=============================================================================
