-------------------------- MODULE TransferPromise --------------------------
(***************************************************************************)
(* What a caller of the transfer queue is promised: a job that is          *)
(* submitted may move its bytes any number of times, ends once, and ends   *)
(* well only if the bytes were moved.  A job that ended badly may have     *)
(* moved them too.                                                         *)
(***************************************************************************)
CONSTANT Jobs

VARIABLES
  outcome,   \* what the caller's handle says
  moved      \* jobs whose bytes arrived

promiseVars == <<outcome, moved>>

Outcome == {"unsubmitted", "awaited", "ok", "error"}

PromiseInit == outcome = [j \in Jobs |-> "unsubmitted"] /\ moved = {}

Submitted(j) ==
  /\ outcome[j] = "unsubmitted"
  /\ outcome' = [outcome EXCEPT ![j] = "awaited"]
  /\ UNCHANGED moved

Moved(j) ==
  /\ outcome[j] = "awaited"
  /\ moved' = moved \cup {j}
  /\ UNCHANGED outcome

Ended(j) ==
  /\ outcome[j] = "awaited"
  /\ \E o \in {"ok", "error"} :
       /\ o = "ok" => j \in moved
       /\ outcome' = [outcome EXCEPT ![j] = o]
  /\ UNCHANGED moved

PromiseNext == \E j \in Jobs : Submitted(j) \/ Moved(j) \/ Ended(j)

PromiseSpec == PromiseInit /\ [][PromiseNext]_promiseVars
=============================================================================
