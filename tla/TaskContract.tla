---------------------------- MODULE TaskContract ----------------------------
(***************************************************************************)
(* What the durable DAG promises to the people who submit tasks, without   *)
(* its log, leases, batches and worker ids: a task is handed out only when *)
(* every task it needs is done, at most attempts + 1 times in all, and a   *)
(* closed task stays closed.                                               *)
(***************************************************************************)
EXTENDS Integers

CONSTANTS
  Tasks,
  Retries       \* retries a task is allowed after its first attempt

VARIABLES
  phase,        \* "none", "waiting", "held", "failed", "done" or "closed"
  needs,        \* tasks that must be done first
  left          \* hand-outs the task still has

contractVars == <<phase, needs, left>>

Submitted == {t \in Tasks : phase[t] # "none"}

ContractInit ==
  /\ phase = [t \in Tasks |-> "none"]
  /\ needs = [t \in Tasks |-> {}]
  /\ left = [t \in Tasks |-> Retries[t] + 1]

Submit(t, N) ==
  /\ t \notin Submitted
  /\ N \subseteq Submitted
  /\ phase' = [phase EXCEPT ![t] = "waiting"]
  /\ needs' = [needs EXCEPT ![t] = N]
  /\ UNCHANGED left

HandOut(t) ==
  /\ phase[t] = "waiting"
  /\ \A d \in needs[t] : phase[d] = "done"
  /\ left[t] > 0
  /\ phase' = [phase EXCEPT ![t] = "held"]
  /\ left' = [left EXCEPT ![t] = @ - 1]
  /\ UNCHANGED needs

Return(t, outcome) ==
  /\ phase[t] = "held"
  /\ phase' = [phase EXCEPT ![t] = outcome]
  /\ left' = [left EXCEPT ![t] = IF outcome = "done" THEN 0 ELSE @]
  /\ UNCHANGED needs

Retry(t) ==
  /\ phase[t] = "failed"
  /\ left[t] > 0
  /\ phase' = [phase EXCEPT ![t] = "waiting"]
  /\ UNCHANGED <<needs, left>>

Close(t) ==
  /\ phase[t] \in {"waiting", "held", "failed"}
  /\ phase' = [phase EXCEPT ![t] = "closed"]
  /\ left' = [left EXCEPT ![t] = 0]
  /\ UNCHANGED needs

ContractNext ==
  \E t \in Tasks :
    \/ \E N \in SUBSET Tasks : Submit(t, N)
    \/ HandOut(t)
    \/ \E outcome \in {"done", "failed"} : Return(t, outcome)
    \/ Retry(t)
    \/ Close(t)

ContractSpec == ContractInit /\ [][ContractNext]_contractVars
=============================================================================
