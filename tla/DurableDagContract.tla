------------------------- MODULE DurableDagContract -------------------------
(* The refinement mapping from DurableDag to TaskContract.                  *)
EXTENDS DurableDag

Phase(s) ==
  CASE s = "Absent"                   -> "none"
    [] s \in {"Pending", "Ready"}     -> "waiting"
    [] s \in Active                   -> "held"
    [] s = "Failed"                   -> "failed"
    [] s = "Succeeded"                -> "done"
    [] s \in Terminal \ {"Succeeded"} -> "closed"

\* Hand-outs left: none once terminal, else the retries left and the attempt
\* that a task not yet handed out still has to make.
Left(t) ==
  IF status[t] \in Terminal THEN 0
  ELSE MaxRetries[t] - retries[t]
       + (IF status[t] \in {"Absent", "Pending", "Ready"} THEN 1 ELSE 0)

Contract == INSTANCE TaskContract WITH
  Retries <- MaxRetries,
  phase <- [t \in Tasks |-> Phase(status[t])],
  needs <- deps,
  left <- [t \in Tasks |-> Left(t)]

\* Every step of the DAG is a step of the contract or invisible to it: no task
\* is handed out before its dependencies succeeded, more than max_retries + 1
\* times, or after it was closed, whatever its callers do and whichever
\* commits a crash cuts off.
ImplementsContract == Contract!ContractSpec
=============================================================================
