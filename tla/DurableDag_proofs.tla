-------------------------- MODULE DurableDag_proofs --------------------------
(***************************************************************************)
(* Proofs about DurableDag for every set of tasks and workers, every clock *)
(* and every retry limit.                                                  *)
(*                                                                         *)
(* The second half is about KnowledgeBase, for every set of facts, texts   *)
(* and pages, every grading, any number of edits, saves and walks, and     *)
(* promotions and walks that die or fail anywhere.                         *)
(***************************************************************************)
EXTENDS DurableDagContract, KnowledgeBase, TLAPS

USE DagAssumption

\* A dependency is always a task created before.
DepsClosed ==
  \A t \in Tasks : /\ deps[t] \subseteq Created
                   /\ t \notin Created => deps[t] = {}

\* A task is never retried more often than its specification allows.
RetriesBounded == \A t \in Tasks : retries[t] <= MaxRetries[t]

\* The inductive invariant.
DagInv ==
  /\ DagTypeOK
  /\ DepsClosed
  /\ DepsWellFounded
  /\ DependenciesSucceeded
  /\ BatchNeverStale
  /\ RetriesBounded

-----------------------------------------------------------------------------
\* now + ttl stays within 64 bits.
LEMMA SaturatingAddType ==
  ASSUME NEW a \in 0..MaxMs, NEW b \in 0..MaxMs
  PROVE  SaturatingAdd(a, b) \in 0..MaxMs
  BY DEF SaturatingAdd

\* The fields keep their types.
LEMMA TypeStep == DagTypeOK /\ [DagNext]_dagVars => DagTypeOK'
<1> SUFFICES ASSUME DagTypeOK, [DagNext]_dagVars PROVE DagTypeOK'
  OBVIOUS
<1> USE DEF DagTypeOK, taskVars, batchVars, Exclusive, Become, Statuses, Active
<1>1. ASSUME NEW t \in Tasks, NEW D \in SUBSET Tasks, CreateTask(t, D)
      PROVE  DagTypeOK'
  BY <1>1 DEF CreateTask, TaskCreated
<1>2. ASSUME NEW t \in Tasks, NEW w \in Workers, Schedule(t, w)
      PROVE  DagTypeOK'
  BY <1>2 DEF Schedule, TaskScheduled
<1>3. ASSUME NEW t \in Tasks, NEW w \in Workers, NEW now \in Times,
             NEW ttl \in Ttls, Start(t, w, now, ttl)
      PROVE  DagTypeOK'
  <2>1. SaturatingAdd(now, ttl) \in 0..MaxMs
    BY SaturatingAddType
  <2> QED BY <1>3, <2>1 DEF Start, TaskStarted
<1>4. ASSUME NEW t \in Tasks, NEW w \in Workers, NEW p \in Levels,
             NEW now \in Times, NEW ttl \in Ttls, Heartbeat(t, w, p, now, ttl)
      PROVE  DagTypeOK'
  <2>1. SaturatingAdd(now, ttl) \in 0..MaxMs
    BY SaturatingAddType
  <2> QED BY <1>4, <2>1 DEF Heartbeat, TaskHeartbeat
<1>5. ASSUME NEW t \in Tasks, Checkpoint(t) PROVE DagTypeOK'
  BY <1>5 DEF Checkpoint, TaskCheckpointSaved
<1>6. ASSUME NEW t \in Tasks, BeginValidation(t) PROVE DagTypeOK'
  BY <1>6 DEF BeginValidation, TaskValidationStarted
<1>7. ASSUME NEW t \in Tasks, Complete(t) PROVE DagTypeOK'
  BY <1>7 DEF Complete, TaskCompleted
<1>8. ASSUME NEW t \in Tasks, Fail(t) PROVE DagTypeOK'
  BY <1>8 DEF Fail, TaskFailed
<1>9. ASSUME NEW t \in Tasks, Reschedule(t) PROVE DagTypeOK'
  BY <1>9 DEF Reschedule, TaskRescheduled
<1>10. ASSUME NEW t \in Tasks, Cancel(t) PROVE DagTypeOK'
  BY <1>10 DEF Cancel, TaskCancelled
<1>11. ASSUME NEW t \in Tasks, ExhaustBudget(t) PROVE DagTypeOK'
  BY <1>11 DEF ExhaustBudget, TaskBudgetExhausted
<1>12. CASE RefreshReady
  BY <1>12 DEF RefreshReady, Promotable
<1>13. ASSUME NEW t \in Tasks, Promote(t) PROVE DagTypeOK'
  BY <1>13 DEF Promote, TaskReady
<1>14. ASSUME NEW now \in Times, ReapExpired(now) PROVE DagTypeOK'
  BY <1>14 DEF ReapExpired, Expired
<1>15. ASSUME NEW t \in Tasks, ReapFail(t) PROVE DagTypeOK'
  BY <1>15 DEF ReapFail, TaskFailed
<1>16. ASSUME NEW t \in Tasks, ReapReschedule(t) PROVE DagTypeOK'
  BY <1>16 DEF ReapReschedule, TaskRescheduled
<1>17. CASE Abandon
  BY <1>17 DEF Abandon
<1>18. CASE UNCHANGED dagVars
  BY <1>18 DEF dagVars
<1> QED
  BY <1>1, <1>2, <1>3, <1>4, <1>5, <1>6, <1>7, <1>8, <1>9, <1>10, <1>11,
     <1>12, <1>13, <1>14, <1>15, <1>16, <1>17, <1>18
     DEF DagNext, Method, BatchStep

-----------------------------------------------------------------------------
(* The dependency graph: only create_task touches it.                       *)

LEMMA GraphStep ==
  ASSUME DagTypeOK, [DagNext]_dagVars
  PROVE  \/ \E t \in Tasks, D \in SUBSET Tasks : TaskCreated(t, D)
         \/ deps' = deps /\ Created' = Created
<1> USE DEF DagTypeOK, Created, taskVars, Exclusive, Become, Active
<1>1. ASSUME NEW t \in Tasks, Method(t)
      PROVE  \/ \E D \in SUBSET Tasks : TaskCreated(t, D)
             \/ deps' = deps /\ Created' = Created
  <2>1. ASSUME NEW D \in SUBSET Tasks, CreateTask(t, D)
        PROVE  TaskCreated(t, D)
    BY <2>1 DEF CreateTask
  <2>2. ASSUME ~\E D \in SUBSET Tasks : CreateTask(t, D)
        PROVE  deps' = deps /\ Created' = Created
    BY <1>1, <2>2
       DEF Method, Schedule, Start, Heartbeat, Checkpoint, BeginValidation,
           Complete, Fail, Reschedule, Cancel, ExhaustBudget, TaskScheduled,
           TaskStarted, TaskHeartbeat, TaskCheckpointSaved,
           TaskValidationStarted, TaskCompleted, TaskFailed, TaskRescheduled,
           TaskCancelled, TaskBudgetExhausted
  <2> QED BY <2>1, <2>2
<1>2. ASSUME NEW t \in Tasks, BatchStep(t)
      PROVE  deps' = deps /\ Created' = Created
  BY <1>2 DEF BatchStep, Promote, ReapFail, ReapReschedule, TaskReady,
              TaskFailed, TaskRescheduled
<1>3. ASSUME \/ RefreshReady
             \/ \E now \in Times : ReapExpired(now)
             \/ Abandon
             \/ UNCHANGED dagVars
      PROVE  deps' = deps /\ Created' = Created
  BY <1>3 DEF RefreshReady, ReapExpired, Abandon, dagVars
<1> QED BY <1>1, <1>2, <1>3 DEF DagNext

LEMMA DepsClosedStep ==
  DagTypeOK /\ DepsClosed /\ [DagNext]_dagVars => DepsClosed'
<1> SUFFICES ASSUME DagTypeOK, DepsClosed, [DagNext]_dagVars
             PROVE  DepsClosed'
  OBVIOUS
<1>1. ASSUME NEW t \in Tasks, NEW D \in SUBSET Tasks, TaskCreated(t, D)
      PROVE  DepsClosed'
  BY <1>1 DEF DagTypeOK, DepsClosed, Created, TaskCreated
<1>2. ASSUME deps' = deps /\ Created' = Created
      PROVE  DepsClosed'
  BY <1>2 DEF DepsClosed
<1> QED BY <1>1, <1>2, GraphStep

\* A new task depends on old ones and no old one depends on it, so it can be
\* left out of any set in which a task without inner dependencies is sought.
LEMMA DepsWellFoundedStep ==
  DagTypeOK /\ DepsClosed /\ DepsWellFounded /\ [DagNext]_dagVars
    => DepsWellFounded'
<1> SUFFICES ASSUME DagTypeOK, DepsClosed, DepsWellFounded, [DagNext]_dagVars
             PROVE  DepsWellFounded'
  OBVIOUS
<1>1. ASSUME NEW t \in Tasks, NEW D \in SUBSET Tasks, TaskCreated(t, D)
      PROVE  DepsWellFounded'
  <2>1. /\ t \notin Created /\ D \subseteq Created /\ t \notin D
        /\ Created' = Created \cup {t}
        /\ deps'[t] = D
        /\ \A u \in Tasks \ {t} : deps'[u] = deps[u]
    BY <1>1 DEF DagTypeOK, Created, TaskCreated
  <2>2. SUFFICES ASSUME NEW S \in SUBSET Created', S # {}
                 PROVE  \E u \in S : deps'[u] \cap S = {}
    BY DEF DepsWellFounded
  <2>3. CASE S = {t}
    BY <2>1, <2>3
  <2>4. CASE S # {t}
    <3>1. S \ {t} \in SUBSET Created /\ S \ {t} # {}
      BY <2>1, <2>2, <2>4
    <3>2. PICK u \in S \ {t} : deps[u] \cap (S \ {t}) = {}
      BY <3>1 DEF DepsWellFounded
    <3>3. u \in Created /\ u \in Tasks
      BY <3>1, <3>2 DEF Created
    <3>4. t \notin deps[u]
      BY <2>1, <3>3 DEF DepsClosed
    <3>5. deps'[u] \cap S = {}
      BY <2>1, <3>2, <3>3, <3>4
    <3> QED BY <3>2, <3>5
  <2> QED BY <2>3, <2>4
<1>2. ASSUME deps' = deps /\ Created' = Created
      PROVE  DepsWellFounded'
  BY <1>2 DEF DepsWellFounded
<1> QED BY <1>1, <1>2, GraphStep

-----------------------------------------------------------------------------
(* Dependencies and batches.                                                *)

\* While refresh_ready or reap_expired has commits left, what its list says
\* about each task stays true, so it can rely on the list; and a dependency
\* that has succeeded never leaves Succeeded.
LEMMA ReleaseStep ==
  DagTypeOK /\ DepsClosed /\ DependenciesSucceeded /\ BatchNeverStale
    /\ [DagNext]_dagVars
  => DependenciesSucceeded' /\ BatchNeverStale'
<1> SUFFICES ASSUME DagTypeOK, DepsClosed, DependenciesSucceeded,
                    BatchNeverStale, [DagNext]_dagVars
             PROVE  DependenciesSucceeded' /\ BatchNeverStale'
  OBVIOUS
<1> USE DEF DagTypeOK, taskVars, batchVars, Exclusive, Idle, Become, Active,
            Released, DependenciesSucceeded, BatchNeverStale, Satisfied
<1>1. ASSUME NEW t \in Tasks, NEW D \in SUBSET Tasks, CreateTask(t, D)
      PROVE  DependenciesSucceeded' /\ BatchNeverStale'
  BY <1>1 DEF CreateTask, TaskCreated, Created, DepsClosed
<1>2. ASSUME NEW t \in Tasks, NEW w \in Workers, Schedule(t, w)
      PROVE  DependenciesSucceeded' /\ BatchNeverStale'
  BY <1>2 DEF Schedule, TaskScheduled
<1>3. ASSUME NEW t \in Tasks, NEW w \in Workers, NEW now \in Times,
             NEW ttl \in Ttls, Start(t, w, now, ttl)
      PROVE  DependenciesSucceeded' /\ BatchNeverStale'
  BY <1>3 DEF Start, TaskStarted
<1>4. ASSUME NEW t \in Tasks, NEW w \in Workers, NEW p \in Levels,
             NEW now \in Times, NEW ttl \in Ttls, Heartbeat(t, w, p, now, ttl)
      PROVE  DependenciesSucceeded' /\ BatchNeverStale'
  BY <1>4 DEF Heartbeat, TaskHeartbeat
<1>5. ASSUME NEW t \in Tasks, Checkpoint(t)
      PROVE  DependenciesSucceeded' /\ BatchNeverStale'
  BY <1>5 DEF Checkpoint, TaskCheckpointSaved
<1>6. ASSUME NEW t \in Tasks, BeginValidation(t)
      PROVE  DependenciesSucceeded' /\ BatchNeverStale'
  BY <1>6 DEF BeginValidation, TaskValidationStarted
<1>7. ASSUME NEW t \in Tasks, Complete(t)
      PROVE  DependenciesSucceeded' /\ BatchNeverStale'
  BY <1>7 DEF Complete, TaskCompleted
<1>8. ASSUME NEW t \in Tasks, Fail(t)
      PROVE  DependenciesSucceeded' /\ BatchNeverStale'
  BY <1>8 DEF Fail, TaskFailed
<1>9. ASSUME NEW t \in Tasks, Reschedule(t)
      PROVE  DependenciesSucceeded' /\ BatchNeverStale'
  BY <1>9 DEF Reschedule, TaskRescheduled
<1>10. ASSUME NEW t \in Tasks, Cancel(t)
       PROVE  DependenciesSucceeded' /\ BatchNeverStale'
  BY <1>10 DEF Cancel, TaskCancelled, Terminal
<1>11. ASSUME NEW t \in Tasks, ExhaustBudget(t)
       PROVE  DependenciesSucceeded' /\ BatchNeverStale'
  BY <1>11 DEF ExhaustBudget, TaskBudgetExhausted, Terminal
<1>12. CASE RefreshReady
  BY <1>12 DEF RefreshReady, Promotable
<1>13. ASSUME NEW t \in Tasks, Promote(t)
       PROVE  DependenciesSucceeded' /\ BatchNeverStale'
  BY <1>13 DEF Promote, TaskReady
<1>14. ASSUME NEW now \in Times, ReapExpired(now)
       PROVE  DependenciesSucceeded' /\ BatchNeverStale'
  BY <1>14 DEF ReapExpired, Expired
<1>15. ASSUME NEW t \in Tasks, ReapFail(t)
       PROVE  DependenciesSucceeded' /\ BatchNeverStale'
  BY <1>15 DEF ReapFail, TaskFailed
<1>16. ASSUME NEW t \in Tasks, ReapReschedule(t)
       PROVE  DependenciesSucceeded' /\ BatchNeverStale'
  BY <1>16 DEF ReapReschedule, TaskRescheduled
<1>17. CASE Abandon
  BY <1>17 DEF Abandon
<1>18. CASE UNCHANGED dagVars
  BY <1>18 DEF dagVars
<1> QED
  BY <1>1, <1>2, <1>3, <1>4, <1>5, <1>6, <1>7, <1>8, <1>9, <1>10, <1>11,
     <1>12, <1>13, <1>14, <1>15, <1>16, <1>17, <1>18
     DEF DagNext, Method, BatchStep

-----------------------------------------------------------------------------
(* The retry limit.                                                         *)

LEMMA RetriesStep ==
  DagTypeOK /\ RetriesBounded /\ [DagNext]_dagVars => RetriesBounded'
<1> SUFFICES ASSUME DagTypeOK, RetriesBounded, [DagNext]_dagVars
             PROVE  RetriesBounded'
  OBVIOUS
<1>1. ASSUME NEW t \in Tasks, TaskRescheduled(t) PROVE RetriesBounded'
  BY <1>1 DEF TaskRescheduled, RetriesBounded, DagTypeOK
<1>2. ASSUME UNCHANGED retries PROVE RetriesBounded'
  BY <1>2 DEF RetriesBounded
<1>3. \/ \E t \in Tasks : TaskRescheduled(t)
      \/ UNCHANGED retries
  <2>1. ASSUME NEW t \in Tasks, Method(t)
        PROVE  TaskRescheduled(t) \/ UNCHANGED retries
    BY <2>1
       DEF Method, CreateTask, Schedule, Start, Heartbeat, Checkpoint,
           BeginValidation, Complete, Fail, Reschedule, Cancel, ExhaustBudget,
           TaskCreated, TaskScheduled, TaskStarted, TaskHeartbeat,
           TaskCheckpointSaved, TaskValidationStarted, TaskCompleted,
           TaskFailed, TaskCancelled, TaskBudgetExhausted
  <2>2. ASSUME NEW t \in Tasks, BatchStep(t)
        PROVE  TaskRescheduled(t) \/ UNCHANGED retries
    BY <2>2 DEF BatchStep, Promote, ReapFail, ReapReschedule, TaskReady,
                TaskFailed
  <2> QED
    BY <2>1, <2>2
       DEF DagNext, RefreshReady, ReapExpired, Abandon, dagVars, taskVars
<1> QED BY <1>1, <1>2, <1>3

-----------------------------------------------------------------------------
(* The theorems.                                                            *)

LEMMA DagInvInit == DagInit => DagInv
<1> SUFFICES ASSUME DagInit PROVE DagInv
  OBVIOUS
<1>1. DagTypeOK
  BY DEF DagInit, DagTypeOK, Statuses
<1>2. Created = {}
  BY DEF DagInit, Created
<1>3. DepsClosed /\ DepsWellFounded
  BY <1>2 DEF DagInit, DepsClosed, DepsWellFounded
<1>4. DependenciesSucceeded /\ BatchNeverStale /\ RetriesBounded
  BY DEF DagInit, DependenciesSucceeded, BatchNeverStale, RetriesBounded,
         Released, Active
<1> QED BY <1>1, <1>3, <1>4 DEF DagInv

LEMMA DagInvStep == DagInv /\ [DagNext]_dagVars => DagInv'
  BY TypeStep, DepsClosedStep, DepsWellFoundedStep, ReleaseStep, RetriesStep
     DEF DagInv

THEOREM DagInvariant == DagSpec => []DagInv
  BY DagInvInit, DagInvStep, PTL DEF DagSpec

\* The fields of every task record keep their types, the clock and the lease
\* lifetime being added without overflow.
THEOREM DagTypeCorrect == DagSpec => []DagTypeOK
  BY DagInvariant, PTL DEF DagInv

\* No task is ever ready, held by a worker, failed or succeeded before all its
\* dependencies have succeeded, for any DAG, any callers, retries and crashes
\* between the commits of a method.
THEOREM DagDependencies == DagSpec => []DependenciesSucceeded
  BY DagInvariant, PTL DEF DagInv

\* The dependency graph never has a cycle.
THEOREM DagWellFounded == DagSpec => []DepsWellFounded
  BY DagInvariant, PTL DEF DagInv

\* refresh_ready and reap_expired never meet a task their list is wrong about,
\* so neither stops half way with an InvalidTransition error.
THEOREM DagBatches == DagSpec => []BatchNeverStale
  BY DagInvariant, PTL DEF DagInv

-----------------------------------------------------------------------------
(* The DAG implements the contract.                                         *)

\* The phase of every variant.
LEMMA PhaseValues ==
  /\ Phase("Absent") = "none"
  /\ Phase("Pending") = "waiting"
  /\ Phase("Ready") = "waiting"
  /\ Phase("Scheduled") = "held"
  /\ Phase("Running") = "held"
  /\ Phase("Validating") = "held"
  /\ Phase("Succeeded") = "done"
  /\ Phase("Failed") = "failed"
  /\ Phase("Cancelled") = "closed"
  /\ Phase("BudgetExhausted") = "closed"
  BY DEF Phase, Active, Terminal

\* What a change of one task's variant does to the mapped phases.
LEMMA PhaseOfOne ==
  ASSUME NEW t \in Tasks, NEW s \in Statuses, status \in [Tasks -> Statuses],
         status' = [status EXCEPT ![t] = s]
  PROVE  [u \in Tasks |-> Phase(status[u])]'
           = [[u \in Tasks |-> Phase(status[u])] EXCEPT ![t] = Phase(s)]
  OBVIOUS

\* The contract's variables do not move when neither the phase nor the number
\* of hand-outs left of any task does.
LEMMA ContractStutter ==
  ASSUME deps' = deps,
         \A t \in Tasks : Phase(status'[t]) = Phase(status[t]),
         \A t \in Tasks : Left(t)' = Left(t)
  PROVE  UNCHANGED Contract!contractVars
<1>1. [t \in Tasks |-> Phase(status[t])]' = [t \in Tasks |-> Phase(status[t])]
  OBVIOUS
<1>2. [t \in Tasks |-> Left(t)]' = [t \in Tasks |-> Left(t)]
  OBVIOUS
<1> QED BY <1>1, <1>2 DEF Contract!contractVars

\* A change of one task's variant and retry count moves its hand-outs only.
LEMMA LeftOfOne ==
  ASSUME NEW t \in Tasks, NEW s \in Statuses, status \in [Tasks -> Statuses],
         status' = [status EXCEPT ![t] = s],
         \A u \in Tasks \ {t} : retries'[u] = retries[u]
  PROVE  [u \in Tasks |-> Left(u)]'
           = [[u \in Tasks |-> Left(u)] EXCEPT ![t] = Left(t)']
<1>1. \A u \in Tasks \ {t} : Left(u)' = Left(u)
  BY DEF Left
<1> QED BY <1>1

LEMMA ContractStep ==
  DagInv /\ [DagNext]_dagVars => [Contract!ContractNext]_(Contract!contractVars)
<1> SUFFICES ASSUME DagInv, [DagNext]_dagVars
             PROVE  Contract!ContractNext \/ UNCHANGED Contract!contractVars
  OBVIOUS
<1> USE DEF DagInv, DagTypeOK
<1> DEFINE phase == [u \in Tasks |-> Phase(status[u])]
           left  == [u \in Tasks |-> Left(u)]
<1>1. ASSUME NEW t \in Tasks, NEW D \in SUBSET Tasks, TaskCreated(t, D)
      PROVE  Contract!ContractNext
  <2>1. phase' = [phase EXCEPT ![t] = "waiting"]
    BY <1>1, PhaseOfOne, PhaseValues DEF TaskCreated, Statuses
  <2>2. left' = left
    BY <1>1 DEF TaskCreated, Created, Left, Terminal
  <2>3. /\ t \notin {u \in Tasks : phase[u] # "none"}
        /\ D \subseteq {u \in Tasks : phase[u] # "none"}
    BY <1>1, PhaseValues DEF TaskCreated, Created, Statuses
  <2>4. Contract!Submit(t, D)
    BY <1>1, <2>1, <2>2, <2>3
       DEF Contract!Submit, Contract!Submitted, TaskCreated
  <2> QED BY <2>4 DEF Contract!ContractNext
<1>2. ASSUME NEW t \in Tasks, NEW w \in Workers, TaskScheduled(t, w)
      PROVE  Contract!ContractNext
  <2>1. phase' = [phase EXCEPT ![t] = "held"]
    BY <1>2, PhaseOfOne, PhaseValues DEF TaskScheduled, Become, Statuses
  <2>2. /\ left' = [left EXCEPT ![t] = @ - 1]
        /\ left[t] > 0
    <3>1. left' = [left EXCEPT ![t] = Left(t)']
      BY <1>2, LeftOfOne DEF TaskScheduled, Become, Statuses
    <3>2. Left(t) = MaxRetries[t] - retries[t] + 1
      BY <1>2 DEF TaskScheduled, Left, Terminal
    <3>3. Left(t)' = MaxRetries[t] - retries[t]
      BY <1>2 DEF TaskScheduled, Become, Left, Terminal
    <3>4. retries[t] \in Nat /\ MaxRetries[t] \in Nat
          /\ retries[t] <= MaxRetries[t]
      BY DEF RetriesBounded
    <3>5. Left(t)' = Left(t) - 1 /\ Left(t) > 0
      BY <3>2, <3>3, <3>4
    <3>6. left[t] = Left(t)
      OBVIOUS
    <3> HIDE DEF left
    <3> QED BY <3>1, <3>5, <3>6
  <2>3. phase[t] = "waiting" /\ \A d \in deps[t] : phase[d] = "done"
    BY <1>2, PhaseValues
       DEF TaskScheduled, DependenciesSucceeded, Released, Satisfied
  <2>4. Contract!HandOut(t)
    BY <1>2, <2>1, <2>2, <2>3 DEF Contract!HandOut, TaskScheduled
  <2> QED BY <2>4 DEF Contract!ContractNext
<1>3. ASSUME NEW t \in Tasks, TaskCompleted(t)
      PROVE  Contract!ContractNext
  <2>1. phase' = [phase EXCEPT ![t] = "done"]
    BY <1>3, PhaseOfOne, PhaseValues DEF TaskCompleted, Become, Statuses
  <2>2. left' = [left EXCEPT ![t] = 0]
    <3>1. left' = [left EXCEPT ![t] = Left(t)']
      BY <1>3, LeftOfOne DEF TaskCompleted, Become, Statuses
    <3>2. Left(t)' = 0
      BY <1>3 DEF TaskCompleted, Become, Left, Terminal
    <3> QED BY <3>1, <3>2
  <2>3. phase[t] = "held"
    BY <1>3, PhaseValues DEF TaskCompleted
  <2>4. Contract!Return(t, "done")
    BY <1>3, <2>1, <2>2, <2>3 DEF Contract!Return, TaskCompleted
  <2> QED BY <2>4 DEF Contract!ContractNext
<1>4. ASSUME NEW t \in Tasks, TaskFailed(t)
      PROVE  Contract!ContractNext
  <2>1. phase' = [phase EXCEPT ![t] = "failed"]
    BY <1>4, PhaseOfOne, PhaseValues DEF TaskFailed, Become, Statuses
  <2>2. left' = left
    BY <1>4 DEF TaskFailed, Become, Left, Active, Terminal
  <2>3. phase[t] = "held"
    BY <1>4, PhaseValues DEF TaskFailed, Active
  <2>4. Contract!Return(t, "failed")
    BY <1>4, <2>1, <2>2, <2>3 DEF Contract!Return, TaskFailed
  <2> QED BY <2>4 DEF Contract!ContractNext
<1>5. ASSUME NEW t \in Tasks, TaskRescheduled(t)
      PROVE  Contract!ContractNext
  <2>1. phase' = [phase EXCEPT ![t] = "waiting"]
    BY <1>5, PhaseOfOne, PhaseValues DEF TaskRescheduled, Become, Statuses
  <2>2. left' = left /\ left[t] > 0
    <3>1. left' = [left EXCEPT ![t] = Left(t)']
      BY <1>5, LeftOfOne DEF TaskRescheduled, Become, Statuses
    <3>2. Left(t) = MaxRetries[t] - retries[t]
      BY <1>5 DEF TaskRescheduled, Left, Terminal
    <3>3. Left(t)' = MaxRetries[t] - (retries[t] + 1) + 1
      BY <1>5 DEF TaskRescheduled, Become, Left, Terminal
    <3>4. retries[t] \in Nat /\ MaxRetries[t] \in Nat
          /\ retries[t] < MaxRetries[t]
      BY <1>5 DEF TaskRescheduled
    <3>5. Left(t)' = Left(t) /\ Left(t) > 0
      BY <3>2, <3>3, <3>4
    <3>6. left[t] = Left(t) /\ left = [left EXCEPT ![t] = Left(t)]
      OBVIOUS
    <3> HIDE DEF left
    <3> QED BY <3>1, <3>5, <3>6
  <2>3. phase[t] = "failed"
    BY <1>5, PhaseValues DEF TaskRescheduled
  <2>4. Contract!Retry(t)
    BY <1>5, <2>1, <2>2, <2>3 DEF Contract!Retry, TaskRescheduled
  <2> QED BY <2>4 DEF Contract!ContractNext
<1>6. ASSUME NEW t \in Tasks, TaskCancelled(t) \/ TaskBudgetExhausted(t)
      PROVE  Contract!ContractNext
  <2>1. phase' = [phase EXCEPT ![t] = "closed"]
    BY <1>6, PhaseOfOne, PhaseValues
       DEF TaskCancelled, TaskBudgetExhausted, Become, Statuses
  <2>2. left' = [left EXCEPT ![t] = 0]
    <3>1. left' = [left EXCEPT ![t] = Left(t)']
      BY <1>6, LeftOfOne
         DEF TaskCancelled, TaskBudgetExhausted, Become, Statuses
    <3>2. Left(t)' = 0
      BY <1>6 DEF TaskCancelled, TaskBudgetExhausted, Become, Left, Terminal
    <3> QED BY <3>1, <3>2
  <2>3. phase[t] \in {"waiting", "held", "failed"}
    BY <1>6, PhaseValues
       DEF TaskCancelled, TaskBudgetExhausted, Created, Statuses, Terminal
  <2>4. Contract!Close(t)
    BY <1>6, <2>1, <2>2, <2>3
       DEF Contract!Close, TaskCancelled, TaskBudgetExhausted
  <2> QED BY <2>4 DEF Contract!ContractNext
<1>7. ASSUME NEW t \in Tasks,
             \/ TaskReady(t)
             \/ \E w \in Workers, e \in 0..MaxMs : TaskStarted(t, w, e)
             \/ TaskValidationStarted(t)
      PROVE  UNCHANGED Contract!contractVars
  <2>1. deps' = deps /\ retries' = retries
    BY <1>7 DEF TaskReady, TaskStarted, TaskValidationStarted
  <2>2. \A u \in Tasks : Phase(status'[u]) = Phase(status[u])
    BY <1>7, PhaseValues DEF TaskReady, TaskStarted, TaskValidationStarted,
                             Become
  <2>3. \A u \in Tasks : Left(u)' = Left(u)
    BY <1>7, <2>1 DEF TaskReady, TaskStarted, TaskValidationStarted, Become,
                      Left, Terminal
  <2> QED BY <2>1, <2>2, <2>3, ContractStutter
<1>8. ASSUME UNCHANGED <<deps, status, retries>>
      PROVE  UNCHANGED Contract!contractVars
  <2>1. \A u \in Tasks : Left(u)' = Left(u)
    BY <1>8 DEF Left
  <2> QED BY <1>8, <2>1, ContractStutter
<1>9. ASSUME NEW t \in Tasks, Method(t)
      PROVE  Contract!ContractNext \/ UNCHANGED Contract!contractVars
  <2>1. ASSUME NEW w \in Workers, NEW now \in Times, NEW ttl \in Ttls,
               Start(t, w, now, ttl)
        PROVE  UNCHANGED Contract!contractVars
    <3>1. SaturatingAdd(now, ttl) \in 0..MaxMs
      BY SaturatingAddType
    <3> QED BY <1>7, <2>1, <3>1 DEF Start
  <2>2. ASSUME NEW w \in Workers, NEW p \in Levels, NEW now \in Times,
               NEW ttl \in Ttls, Heartbeat(t, w, p, now, ttl)
        PROVE  UNCHANGED Contract!contractVars
    BY <1>8, <2>2 DEF Heartbeat, TaskHeartbeat
  <2>3. ASSUME Checkpoint(t) PROVE UNCHANGED Contract!contractVars
    BY <1>8, <2>3 DEF Checkpoint, TaskCheckpointSaved
  <2> QED
    BY <1>1, <1>2, <1>3, <1>4, <1>5, <1>6, <1>7, <1>9, <2>1, <2>2, <2>3
       DEF Method, CreateTask, Schedule, BeginValidation, Complete, Fail,
           Reschedule, Cancel, ExhaustBudget
<1>10. ASSUME NEW t \in Tasks, BatchStep(t)
       PROVE  Contract!ContractNext \/ UNCHANGED Contract!contractVars
  BY <1>4, <1>5, <1>7, <1>10 DEF BatchStep, Promote, ReapFail, ReapReschedule
<1>11. ASSUME \/ RefreshReady
              \/ \E now \in Times : ReapExpired(now)
              \/ Abandon
              \/ UNCHANGED dagVars
       PROVE  UNCHANGED Contract!contractVars
  BY <1>8, <1>11 DEF RefreshReady, ReapExpired, Abandon, dagVars, taskVars
<1> QED BY <1>9, <1>10, <1>11 DEF DagNext

\* The event-sourced DAG implements the contract its callers rely on.
THEOREM DagRefinesContract == DagSpec => ImplementsContract
<1>1. DagInit => Contract!ContractInit
  BY DEF DagInit, Contract!ContractInit, Phase, Left, Active, Terminal
<1> QED
  BY <1>1, ContractStep, DagInvariant, PTL
     DEF DagSpec, ImplementsContract, Contract!ContractSpec

-----------------------------------------------------------------------------
(* Progress and checkpoints.                                                *)

LEMMA ProgressStep ==
  ASSUME DagTypeOK, [DagNext]_dagVars, NEW t \in Tasks
  PROVE  /\ progress'[t] < progress[t] => retries'[t] = retries[t] + 1
         /\ saved[t] => saved'[t]
<1>0. progress \in [Tasks -> 0 .. 100] /\ retries \in [Tasks -> Nat]
  BY DEF DagTypeOK
<1>1. ASSUME NEW u \in Tasks, TaskRescheduled(u)
      PROVE  /\ progress'[t] < progress[t] => retries'[t] = retries[t] + 1
             /\ saved[t] => saved'[t]
  <2>1. /\ retries' = [retries EXCEPT ![u] = retries[u] + 1]
        /\ progress' = [progress EXCEPT ![u] = 0] /\ saved' = saved
    BY <1>1 DEF TaskRescheduled
  <2>2. CASE u = t
    BY <1>0, <2>1, <2>2
  <2>3. CASE u # t
    BY <1>0, <2>1, <2>3
  <2> QED BY <2>2, <2>3
<1>2. ASSUME NEW u \in Tasks, TaskCompleted(u)
      PROVE  ~(progress'[t] < progress[t]) /\ saved' = saved
  <2>1. progress' = [progress EXCEPT ![u] = 100] /\ saved' = saved
    BY <1>2 DEF TaskCompleted
  <2> QED BY <1>0, <2>1
<1> USE DEF DagTypeOK, taskVars, Exclusive, Become
<1>3. ASSUME NEW u \in Tasks, NEW w \in Workers, NEW p \in Levels,
             NEW now \in Times, NEW ttl \in Ttls, Heartbeat(u, w, p, now, ttl)
      PROVE  ~(progress'[t] < progress[t]) /\ saved' = saved
  BY <1>3 DEF Heartbeat, TaskHeartbeat
<1>4. ASSUME NEW u \in Tasks, Checkpoint(u)
      PROVE  ~(progress'[t] < progress[t]) /\ (saved[t] => saved'[t])
  BY <1>4 DEF Checkpoint, TaskCheckpointSaved
<1>5. ASSUME NEW u \in Tasks, Method(u)
      PROVE  \/ \E D \in SUBSET Tasks : TaskCreated(u, D)
             \/ TaskRescheduled(u) \/ TaskCompleted(u) \/ Checkpoint(u)
             \/ \E w \in Workers, p \in Levels, now \in Times, ttl \in Ttls :
                   Heartbeat(u, w, p, now, ttl)
             \/ UNCHANGED <<progress, saved>>
  BY <1>5
     DEF Method, CreateTask, Schedule, Start, BeginValidation, Complete, Fail,
         Reschedule, Cancel, ExhaustBudget, TaskScheduled, TaskStarted,
         TaskValidationStarted, TaskFailed, TaskCancelled, TaskBudgetExhausted
<1>6. ASSUME NEW u \in Tasks, NEW D \in SUBSET Tasks, TaskCreated(u, D)
      PROVE  UNCHANGED <<progress, saved>>
  BY <1>6 DEF TaskCreated
<1>7. ASSUME NEW u \in Tasks, BatchStep(u)
      PROVE  TaskRescheduled(u) \/ UNCHANGED <<progress, saved>>
  BY <1>7 DEF BatchStep, Promote, ReapFail, ReapReschedule, TaskReady,
              TaskFailed
<1>8. ASSUME UNCHANGED <<progress, saved>>
      PROVE  ~(progress'[t] < progress[t]) /\ saved' = saved
  BY <1>8
<1>9. \/ \E u \in Tasks : Method(u) \/ BatchStep(u)
       \/ UNCHANGED <<progress, saved>>
  BY DEF DagNext, RefreshReady, ReapExpired, Abandon, dagVars
<1> QED
  BY <1>1, <1>2, <1>3, <1>4, <1>5, <1>6, <1>7, <1>8, <1>9

\* Within an attempt progress never goes back, and no step loses a checkpoint.
THEOREM DagProgress == DagSpec => ProgressAndCheckpointKept
<1>1. DagInv /\ [DagNext]_dagVars
        => [\A t \in Tasks :
              /\ progress'[t] < progress[t] => retries'[t] = retries[t] + 1
              /\ saved[t] => saved'[t]]_dagVars
  BY ProgressStep DEF DagInv
<1> QED
  BY <1>1, DagInvariant, PTL DEF DagSpec, ProgressAndCheckpointKept

\* Whatever is created, retried, reclaimed and cancelled, in any number of tasks: a
\* task is worked on only after its dependencies, and these have no cycle.
THEOREM DagIsSafe == DagSpec => []DagSafety
<1>1. DagTypeOK /\ DependenciesSucceeded /\ DepsWellFounded => DagSafety
  BY DEF DagSafety
<1> QED BY <1>1, DagTypeCorrect, DagDependencies, DagWellFounded, PTL

HIDE DagAssumption

-----------------------------------------------------------------------------
(* The promotion *)

\* One process promotes.
OneScan == \A p, q \in Promoters : p = q

Holding == {"judged", "opened", "written"}

\* A scan that is past the judgement of a candidate holds it.
PromotionTypes ==
  /\ PromotionTypeOK
  /\ \A p \in Promoters : promoter[p].pc \in Holding =>
       promoter[p].fact \in Facts /\ promoter[p].held \in Candidates

\* A scan knows the key of every fact that has a text.
KeysKnown ==
  \A p \in Promoters, f \in Facts :
    promoter[p].pc # "idle" /\ FullFact(f) => NormKey[facts[f].text] \in promoter[p].known

\* What it is about to write has a key of its own.
HeldIsNew ==
  \A p \in Promoters : promoter[p].pc \in {"judged", "opened"} =>
    NormKey[promoter[p].held.text] \notin promoter[p].known

UniqueInv == PromotionTypes /\ KeysKnown /\ HeldIsNew /\ FactsUnique

\* The candidates are what was distilled.
ReviewAsked == \A f \in Facts : review[f] # NoFile => review[f].text = asked[f]

\* What a scan holds is in review/ until it is in facts/.
HeldInReview ==
  \A p \in Promoters : promoter[p].pc \in Holding =>
    /\ review[promoter[p].fact] = promoter[p].held
    /\ promoter[p].pc = "written" =>
         FullFact(promoter[p].fact) /\ facts[promoter[p].fact].text = promoter[p].held.text

KeptInv == PromotionTypes /\ ReviewAsked /\ HeldInReview /\ NothingLost

Stages == {"idle", "scanning"} \cup Holding
FactRecords == [text : Texts \cup {NoFile}, reviewed : BOOLEAN]
Keys == {NormKey[t] : t \in Texts}
Scans == [pc : Stages, known : SUBSET Keys, left : SUBSET Facts, fact : Facts \cup {0}, held : Candidates \cup {NoFile}]

LEMMA TypesAre ==
  PromotionTypes <=>
    /\ review \in [Facts -> Candidates \cup {NoFile}] /\ facts \in [Facts -> FactRecords \cup {NoFile}]
    /\ promoter \in [Promoters -> Scans]
    /\ asked \in [Facts -> Texts \cup {NoFile}] /\ edited \in 0 .. MaxEdits
    /\ \A p \in Promoters : promoter[p].pc \in Holding =>
         promoter[p].fact \in Facts /\ promoter[p].held \in Candidates
<1>1. Stages = {"idle", "scanning", "judged", "opened", "written"}
  BY DEF Stages, Holding
<1> QED BY <1>1 DEF PromotionTypes, PromotionTypeOK, FactRecords, Scans, Keys

\* Candidates and facts are files.
LEMMA RecordsAre ==
  /\ NoFile \notin Candidates /\ NoFile \notin Texts /\ NoFile \notin FactRecords
  /\ \A c \in Candidates : c.text \in Texts /\ c.confidence \in Gradings \cup {DefaultConfidence} /\ c.reviewed \in BOOLEAN
  /\ \A r \in FactRecords : r.text \in Texts \cup {NoFile} /\ r.reviewed \in BOOLEAN
<1>1. \A x \in Gradings \cup {DefaultConfidence} : x \in 0 .. 100
  BY PromotionAssumption DEF DefaultConfidence
<1>2. \A c \in Candidates : c \in [text : Texts, confidence : 0 .. 100, reviewed : BOOLEAN]
  BY <1>1 DEF Candidates
<1> QED BY <1>2, PromotionAssumption DEF Candidates, FactRecords

LEMMA ScansAre ==
  /\ AtRest \in Scans /\ AtRest.pc = "idle"
  /\ \A s \in Scans : /\ s.pc \in Stages /\ s.known \subseteq Keys /\ s.left \subseteq Facts
                      /\ s.fact \in Facts \cup {0} /\ s.held \in Candidates \cup {NoFile}
BY DEF AtRest, Scans, Stages

LEMMA PromotionStarts == PromotionInit => UniqueInv /\ KeptInv
<1> SUFFICES ASSUME PromotionInit PROVE UniqueInv /\ KeptInv
  OBVIOUS
<1>1. \A p \in Promoters : promoter[p].pc = "idle" /\ promoter[p].pc \notin Holding
  BY ScansAre DEF PromotionInit, Holding
<1>2. PromotionTypes
  BY <1>1, ScansAre, TypesAre, PromotionAssumption DEF PromotionInit
<1>3. \A f \in Facts : facts[f] = NoFile /\ review[f] = NoFile /\ asked[f] = NoFile
  BY DEF PromotionInit
<1> QED BY <1>1, <1>2, <1>3
        DEF KeptInv, UniqueInv, KeysKnown, HeldIsNew, FactsUnique, ReviewAsked, HeldInReview, NothingLost, FullFact

\* What a step makes of a scan is a scan.
LEMMA PromotionTypesStep ==
  ASSUME PromotionTypes, [PromotionNext]_promotionVars
  PROVE  PromotionTypes'
<1> USE TypesAre
<1>1. /\ review \in [Facts -> Candidates \cup {NoFile}] /\ facts \in [Facts -> FactRecords \cup {NoFile}]
      /\ promoter \in [Promoters -> Scans]
      /\ asked \in [Facts -> Texts \cup {NoFile}] /\ edited \in 0 .. MaxEdits
      /\ \A p \in Promoters : promoter[p].pc \in Holding =>
           promoter[p].fact \in Facts /\ promoter[p].held \in Candidates
  OBVIOUS
<1> DEFINE Others(p) == \A q \in Promoters : q # p => promoter'[q] = promoter[q]
           Good(s) == s \in Scans /\ (s.pc \in Holding => s.fact \in Facts /\ s.held \in Candidates)
<1>2. ASSUME NEW p \in Promoters, NEW s, Good(s), promoter' = [promoter EXCEPT ![p] = s]
      PROVE  /\ promoter' \in [Promoters -> Scans]
             /\ \A q \in Promoters : Good(promoter'[q])
  BY <1>1, <1>2
<1>3. PromotionTypes' <=>
        /\ review' \in [Facts -> Candidates \cup {NoFile}] /\ facts' \in [Facts -> FactRecords \cup {NoFile}]
        /\ promoter' \in [Promoters -> Scans]
        /\ asked' \in [Facts -> Texts \cup {NoFile}] /\ edited' \in 0 .. MaxEdits
        /\ \A p \in Promoters : promoter'[p].pc \in Holding =>
             promoter'[p].fact \in Facts /\ promoter'[p].held \in Candidates
  <2>1. Stages = {"idle", "scanning", "judged", "opened", "written"}
    BY DEF Stages, Holding
  <2> QED BY <2>1 DEF PromotionTypes, PromotionTypeOK, FactRecords, Scans, Keys
<1>4. ASSUME NEW f \in Facts, NEW t \in Texts, Distil(f, t) PROVE PromotionTypes'
  <2>1. [text |-> t, confidence |-> DefaultConfidence, reviewed |-> FALSE] \in Candidates
    BY DEF Candidates
  <2>2. edited' \in 0 .. MaxEdits
    BY <1>1, <1>4, PromotionAssumption DEF Distil, MayEdit
  <2> QED BY <1>1, <1>3, <1>4, <2>1, <2>2 DEF Distil
<1>5. ASSUME NEW f \in Facts, NEW c \in Gradings, Approve(f, c) PROVE PromotionTypes'
  <2>1. review[f] \in Candidates
    BY <1>1, <1>5 DEF Approve
  <2>2. [review[f] EXCEPT !.confidence = c, !.reviewed = TRUE] \in Candidates
    BY <2>1 DEF Candidates
  <2>3. edited' \in 0 .. MaxEdits
    BY <1>1, <1>5, PromotionAssumption DEF Approve, MayEdit
  <2>4. review' = [review EXCEPT ![f] = [review[f] EXCEPT !.confidence = c, !.reviewed = TRUE]]
    BY <1>1, <1>5, <2>1 DEF Approve, Candidates
  <2> QED BY <1>1, <1>3, <1>5, <2>2, <2>3, <2>4 DEF Approve
<1>6. ASSUME NEW p \in Promoters, StartPromotion(p) PROVE PromotionTypes'
  <2>1. {NormKey[facts[f].text] : f \in {g \in Facts : FullFact(g)}} \subseteq Keys
    BY <1>1, RecordsAre DEF FullFact, Keys
  <2> DEFINE s == [AtRest EXCEPT !.pc = "scanning",
                      !.known = {NormKey[facts[f].text] : f \in {g \in Facts : FullFact(g)}},
                      !.left = {f \in Facts : review[f] # NoFile}]
  <2>2. Good(s)
    BY <2>1 DEF AtRest, Scans, Stages, Holding
  <2>3. promoter' = [promoter EXCEPT ![p] = s]
    BY <1>6 DEF StartPromotion
  <2> HIDE DEF s
  <2> QED BY <1>1, <1>2, <1>3, <1>6, <2>2, <2>3 DEF StartPromotion
<1>7. ASSUME NEW p \in Promoters, NEW f \in Facts, Judge(p, f) PROVE PromotionTypes'
  <2> DEFINE a == promoter[p]
             s == IF review[f] # NoFile /\ Passes(review[f], a.known)
                  THEN [a EXCEPT !.pc = "judged", !.fact = f, !.held = review[f]]
                  ELSE [a EXCEPT !.left = @ \ {f}]
  <2>1. a \in Scans /\ a.pc = "scanning" /\ (review[f] # NoFile => review[f] \in Candidates)
    BY <1>1, <1>7 DEF Judge
  <2>2. promoter' = [promoter EXCEPT ![p] = s]
    BY <1>1, <1>7, <2>1 DEF Judge, Scans
  <2> HIDE DEF a
  <2>3. Good(s)
    BY <2>1 DEF Scans, Stages, Holding
  <2> HIDE DEF s
  <2> QED BY <1>1, <1>2, <1>3, <1>7, <2>2, <2>3 DEF Judge
<1>8. ASSUME NEW p \in Promoters, OpenFact(p) PROVE PromotionTypes'
  <2> DEFINE s == [promoter[p] EXCEPT !.pc = "opened"]
  <2>1. [text |-> NoFile, reviewed |-> FALSE] \in FactRecords
    BY DEF FactRecords
  <2>2. promoter[p] \in Scans /\ promoter[p].pc \in Holding
    BY <1>1, <1>8 DEF OpenFact, Holding
  <2>3. promoter' = [promoter EXCEPT ![p] = s]
    BY <1>1, <1>8, <2>2 DEF OpenFact, Scans
  <2>4. Good(s)
    BY <1>1, <2>2 DEF Scans, Stages, Holding
  <2> HIDE DEF s
  <2>5. facts' \in [Facts -> FactRecords \cup {NoFile}]
    BY <1>1, <1>8, <2>1 DEF OpenFact
  <2> QED BY <1>1, <1>2, <1>3, <1>8, <2>3, <2>4, <2>5 DEF OpenFact
<1>9. ASSUME NEW p \in Promoters, WriteFact(p) PROVE PromotionTypes'
  <2> DEFINE a == promoter[p]
             s == [a EXCEPT !.pc = "written", !.known = @ \cup {NormKey[a.held.text]}]
  <2>1. a \in Scans /\ a.pc \in Holding /\ a.held \in Candidates /\ a.fact \in Facts
    BY <1>1, <1>9 DEF WriteFact, Holding
  <2>2. a.held.text \in Texts /\ [text |-> a.held.text, reviewed |-> a.held.reviewed] \in FactRecords
    BY <2>1, RecordsAre DEF FactRecords
  <2>3. promoter' = [promoter EXCEPT ![p] = s]
    BY <1>1, <1>9, <2>1 DEF WriteFact, Scans
  <2>4. facts' \in [Facts -> FactRecords \cup {NoFile}]
    BY <1>1, <1>9, <2>2 DEF WriteFact
  <2> HIDE DEF a
  <2>5. Good(s)
    BY <2>1, <2>2 DEF Scans, Stages, Holding, Keys
  <2> HIDE DEF s
  <2> QED BY <1>1, <1>2, <1>3, <1>9, <2>3, <2>4, <2>5 DEF WriteFact
<1>10. ASSUME NEW p \in Promoters, RemoveCandidate(p) PROVE PromotionTypes'
  <2> DEFINE a == promoter[p]
             s == IF review[a.fact] = NoFile THEN AtRest
                  ELSE [AtRest EXCEPT !.pc = "scanning", !.known = a.known, !.left = a.left \ {a.fact}]
  <2>1. a \in Scans
    BY <1>1
  <2>2. promoter' = [promoter EXCEPT ![p] = s]
    BY <1>10 DEF RemoveCandidate
  <2>4. review' \in [Facts -> Candidates \cup {NoFile}]
    BY <1>1, <1>10 DEF RemoveCandidate
  <2> HIDE DEF a
  <2>3. Good(s)
    BY <2>1, ScansAre DEF Scans, Stages, Holding, AtRest
  <2> HIDE DEF s
  <2> QED BY <1>1, <1>2, <1>3, <1>10, <2>2, <2>3, <2>4 DEF RemoveCandidate
<1>11. ASSUME NEW p \in Promoters, EndPromotion(p) \/ PromoterDies(p) PROVE PromotionTypes'
  <2>1. Good(AtRest)
    BY ScansAre DEF Holding
  <2> QED BY <1>1, <1>2, <1>3, <1>11, <2>1 DEF EndPromotion, PromoterDies
<1>12. CASE UNCHANGED promotionVars
  BY <1>1, <1>3, <1>12 DEF promotionVars
<1> QED BY <1>4, <1>5, <1>6, <1>7, <1>8, <1>9, <1>10, <1>11, <1>12 DEF PromotionNext

\* With one scan at a time the facts stay different: its keys have them all, and
\* what it writes is none of them.
LEMMA UniqueStep ==
  ASSUME OneScan, UniqueInv, [PromotionNext]_promotionVars
  PROVE  UniqueInv'
<1>1. PromotionTypes /\ PromotionTypes'
  BY PromotionTypesStep DEF UniqueInv
<1>2. /\ review \in [Facts -> Candidates \cup {NoFile}] /\ facts \in [Facts -> FactRecords \cup {NoFile}]
      /\ promoter \in [Promoters -> Scans]
      /\ \A p \in Promoters : promoter[p].pc \in Holding =>
           promoter[p].fact \in Facts /\ promoter[p].held \in Candidates
  BY <1>1, TypesAre
<1>3. KeysKnown /\ HeldIsNew /\ FactsUnique
  BY DEF UniqueInv
<1> SUFFICES KeysKnown' /\ HeldIsNew' /\ FactsUnique'
  BY <1>1 DEF UniqueInv
<1>4. ASSUME facts' = facts, NEW p \in Promoters, NEW s, promoter' = [promoter EXCEPT ![p] = s],
             s.pc # "idle" => \A f \in Facts : FullFact(f) => NormKey[facts[f].text] \in s.known,
             s.pc \in {"judged", "opened"} => NormKey[s.held.text] \notin s.known
      PROVE  KeysKnown' /\ HeldIsNew' /\ FactsUnique'
  <2>1. \A q \in Promoters : promoter'[q] = IF q = p THEN s ELSE promoter[q]
    BY <1>2, <1>4
  <2> QED BY <1>3, <1>4, <2>1 DEF KeysKnown, HeldIsNew, FactsUnique, FullFact
<1>5. ASSUME NEW f \in Facts, NEW t \in Texts, Distil(f, t) PROVE KeysKnown' /\ HeldIsNew' /\ FactsUnique'
  BY <1>3, <1>5 DEF Distil, KeysKnown, HeldIsNew, FactsUnique, FullFact
<1>6. ASSUME NEW f \in Facts, NEW c \in Gradings, Approve(f, c) PROVE KeysKnown' /\ HeldIsNew' /\ FactsUnique'
  BY <1>3, <1>6 DEF Approve, KeysKnown, HeldIsNew, FactsUnique, FullFact
<1>7. ASSUME NEW p \in Promoters, StartPromotion(p) PROVE KeysKnown' /\ HeldIsNew' /\ FactsUnique'
  <2> DEFINE s == [AtRest EXCEPT !.pc = "scanning",
                      !.known = {NormKey[facts[f].text] : f \in {g \in Facts : FullFact(g)}},
                      !.left = {f \in Facts : review[f] # NoFile}]
  <2>1. facts' = facts /\ promoter' = [promoter EXCEPT ![p] = s]
    BY <1>7 DEF StartPromotion
  <2>2. s.pc = "scanning" /\ s.known = {NormKey[facts[f].text] : f \in {g \in Facts : FullFact(g)}}
    BY DEF AtRest
  <2> HIDE DEF s
  <2> QED BY <1>4, <2>1, <2>2
<1>8. ASSUME NEW p \in Promoters, NEW f \in Facts, Judge(p, f) PROVE KeysKnown' /\ HeldIsNew' /\ FactsUnique'
  <2> DEFINE a == promoter[p]
             s == IF review[f] # NoFile /\ Passes(review[f], a.known)
                  THEN [a EXCEPT !.pc = "judged", !.fact = f, !.held = review[f]]
                  ELSE [a EXCEPT !.left = @ \ {f}]
  <2>1. a \in Scans /\ a.pc = "scanning" /\ facts' = facts
    BY <1>2, <1>8 DEF Judge
  <2>2. promoter' = [promoter EXCEPT ![p] = s]
    BY <1>2, <1>8, <2>1 DEF Judge, Scans
  <2>3. \A g \in Facts : FullFact(g) => NormKey[facts[g].text] \in a.known
    BY <1>3, <2>1 DEF KeysKnown
  <2> HIDE DEF a
  <2>4. /\ s.known = a.known
        /\ s.pc \in {"judged", "opened"} => Passes(review[f], a.known) /\ s.held = review[f]
    BY <2>1 DEF Scans
  <2> HIDE DEF s
  <2> QED BY <1>4, <2>1, <2>2, <2>3, <2>4 DEF Passes
<1>9. ASSUME NEW p \in Promoters, OpenFact(p) PROVE KeysKnown' /\ HeldIsNew' /\ FactsUnique'
  <2>1. promoter[p] \in Scans /\ promoter[p].fact \in Facts
    BY <1>2, <1>9 DEF OpenFact, Holding
  <2>2. \A q \in Promoters : /\ promoter'[q].known = promoter[q].known /\ promoter'[q].held = promoter[q].held
                             /\ promoter'[q].pc \in {promoter[q].pc, "opened"}
                             /\ promoter'[q].pc # promoter[q].pc => promoter[q].pc = "judged"
    BY <1>2, <1>9, <2>1 DEF OpenFact, Scans
  <2>3. \A f \in Facts : FullFact(f)' => FullFact(f) /\ facts'[f] = facts[f]
    BY <1>2, <1>9, <2>1 DEF OpenFact, FullFact
  <2> QED BY <1>3, <2>2, <2>3 DEF KeysKnown, HeldIsNew, FactsUnique
<1>10. ASSUME NEW p \in Promoters, WriteFact(p) PROVE KeysKnown' /\ HeldIsNew' /\ FactsUnique'
  <2> DEFINE key == NormKey[promoter[p].held.text]
  <2>1. /\ promoter[p] \in Scans /\ promoter[p].fact \in Facts /\ promoter[p].held \in Candidates
        /\ promoter[p].pc = "opened" /\ key \notin promoter[p].known
    BY <1>2, <1>3, <1>10 DEF WriteFact, Holding, HeldIsNew
  <2>2. promoter'[p].pc = "written" /\ promoter'[p].known = promoter[p].known \cup {key}
    BY <1>2, <1>10, <2>1 DEF WriteFact, Scans
  <2>3. \A f \in Facts : FullFact(f)' => \/ f = promoter[p].fact /\ NormKey[facts'[f].text] = key
                                         \/ f # promoter[p].fact /\ FullFact(f) /\ facts'[f] = facts[f]
    BY <1>2, <1>10, <2>1 DEF WriteFact, FullFact
  <2>4. \A f \in Facts : FullFact(f) => NormKey[facts[f].text] \in promoter[p].known
    BY <1>3, <2>1 DEF KeysKnown
  <2>5. \A q \in Promoters : q = p
    BY DEF OneScan
  <2> HIDE DEF key
  <2>6. KeysKnown'
    BY <2>2, <2>3, <2>4, <2>5 DEF KeysKnown
  <2>7. HeldIsNew'
    BY <2>2, <2>5 DEF HeldIsNew
  <2>8. FactsUnique'
    BY <1>3, <2>1, <2>3, <2>4 DEF FactsUnique
  <2> QED BY <2>6, <2>7, <2>8
<1>11. ASSUME NEW p \in Promoters, RemoveCandidate(p) PROVE KeysKnown' /\ HeldIsNew' /\ FactsUnique'
  <2> DEFINE a == promoter[p]
             s == IF review[a.fact] = NoFile THEN AtRest
                  ELSE [AtRest EXCEPT !.pc = "scanning", !.known = a.known, !.left = a.left \ {a.fact}]
  <2>1. facts' = facts /\ promoter' = [promoter EXCEPT ![p] = s] /\ a.pc = "written"
    BY <1>11 DEF RemoveCandidate
  <2>2. \A g \in Facts : FullFact(g) => NormKey[facts[g].text] \in a.known
    BY <1>3, <2>1 DEF KeysKnown
  <2> HIDE DEF a
  <2>3. s.pc \in {"idle", "scanning"} /\ (s.pc = "scanning" => s.known = a.known)
    BY DEF AtRest
  <2> HIDE DEF s
  <2> QED BY <1>4, <2>1, <2>2, <2>3
<1>12. ASSUME NEW p \in Promoters, EndPromotion(p) \/ PromoterDies(p) PROVE KeysKnown' /\ HeldIsNew' /\ FactsUnique'
  <2>1. facts' = facts /\ promoter' = [promoter EXCEPT ![p] = AtRest]
    BY <1>12 DEF EndPromotion, PromoterDies
  <2> QED BY <1>4, <2>1, ScansAre
<1>13. CASE UNCHANGED promotionVars
  BY <1>3, <1>13 DEF promotionVars, KeysKnown, HeldIsNew, FactsUnique, FullFact
<1> QED BY <1>5, <1>6, <1>7, <1>8, <1>9, <1>10, <1>11, <1>12, <1>13 DEF PromotionNext

\* A scan that nobody disturbs takes a candidate out of review/ when it is in facts/.
LEMMA KeptStep ==
  ASSUME OneScan, Unedited, KeptInv, [PromotionNext]_promotionVars
  PROVE  KeptInv'
<1>1. PromotionTypes /\ PromotionTypes'
  BY PromotionTypesStep DEF KeptInv
<1>2. /\ review \in [Facts -> Candidates \cup {NoFile}] /\ facts \in [Facts -> FactRecords \cup {NoFile}]
      /\ promoter \in [Promoters -> Scans] /\ asked \in [Facts -> Texts \cup {NoFile}]
      /\ \A p \in Promoters : promoter[p].pc \in Holding =>
           promoter[p].fact \in Facts /\ promoter[p].held \in Candidates
  BY <1>1, TypesAre
<1>3. ReviewAsked /\ HeldInReview /\ NothingLost
  BY DEF KeptInv
<1> SUFFICES ReviewAsked' /\ HeldInReview' /\ NothingLost'
  BY <1>1 DEF KeptInv
<1>4. ASSUME NEW f \in Facts, NEW t \in Texts, Distil(f, t) PROVE ReviewAsked' /\ HeldInReview' /\ NothingLost'
  <2> DEFINE c == [text |-> t, confidence |-> DefaultConfidence, reviewed |-> FALSE]
  <2>1. c \in Candidates /\ c # NoFile /\ c.text = t
    <3>1. c \in Candidates /\ c.text = t
      BY DEF Candidates
    <3> HIDE DEF c
    <3> QED BY <3>1, RecordsAre
  <2>2. /\ review' = [review EXCEPT ![f] = c] /\ asked' = [asked EXCEPT ![f] = t]
        /\ facts' = facts /\ promoter' = promoter /\ \A p \in Promoters : promoter[p].pc \notin Holding
    BY <1>4 DEF Distil, MayEdit, Holding
  <2> HIDE DEF c
  <2> QED BY <1>2, <1>3, <2>1, <2>2 DEF ReviewAsked, HeldInReview, NothingLost, FullFact
<1>5. ASSUME NEW f \in Facts, NEW c \in Gradings, Approve(f, c) PROVE ReviewAsked' /\ HeldInReview' /\ NothingLost'
  <2>1. review[f] \in Candidates /\ review[f] # NoFile
    BY <1>2, <1>5 DEF Approve
  <2> DEFINE d == [review[f] EXCEPT !.confidence = c, !.reviewed = TRUE]
  <2>2. d \in Candidates /\ d # NoFile /\ d.text = review[f].text
    <3>1. d \in Candidates /\ d.text = review[f].text
      BY <2>1 DEF Candidates
    <3> HIDE DEF d
    <3> QED BY <3>1, RecordsAre
  <2>3. /\ review' = [review EXCEPT ![f] = d] /\ asked' = asked /\ facts' = facts /\ promoter' = promoter
        /\ \A p \in Promoters : promoter[p].pc \notin Holding
    BY <1>2, <1>5, <2>1 DEF Approve, MayEdit, Holding, Candidates
  <2> HIDE DEF d
  <2> QED BY <1>2, <1>3, <2>1, <2>2, <2>3 DEF ReviewAsked, HeldInReview, NothingLost, FullFact
<1>6. ASSUME review' = review, facts' = facts, asked' = asked, NEW p \in Promoters,
             NEW s, promoter' = [promoter EXCEPT ![p] = s],
             s.pc \in Holding => s.pc = "judged" /\ review[s.fact] = s.held
      PROVE  ReviewAsked' /\ HeldInReview' /\ NothingLost'
  <2>1. \A q \in Promoters : promoter'[q] = IF q = p THEN s ELSE promoter[q]
    BY <1>2, <1>6
  <2> QED BY <1>3, <1>6, <2>1 DEF ReviewAsked, HeldInReview, NothingLost, FullFact
<1>7. ASSUME NEW p \in Promoters, StartPromotion(p) \/ EndPromotion(p) \/ PromoterDies(p)
      PROVE  ReviewAsked' /\ HeldInReview' /\ NothingLost'
  <2>1. /\ review' = review /\ facts' = facts /\ asked' = asked
        /\ \E s : promoter' = [promoter EXCEPT ![p] = s] /\ s.pc \in {"idle", "scanning"}
    BY <1>7, ScansAre DEF StartPromotion, EndPromotion, PromoterDies, AtRest
  <2> QED BY <1>6, <2>1 DEF Holding
<1>8. ASSUME NEW p \in Promoters, NEW f \in Facts, Judge(p, f) PROVE ReviewAsked' /\ HeldInReview' /\ NothingLost'
  <2> DEFINE a == promoter[p]
             s == IF review[f] # NoFile /\ Passes(review[f], a.known)
                  THEN [a EXCEPT !.pc = "judged", !.fact = f, !.held = review[f]]
                  ELSE [a EXCEPT !.left = @ \ {f}]
  <2>1. a \in Scans /\ a.pc = "scanning" /\ review' = review /\ facts' = facts /\ asked' = asked
    BY <1>2, <1>8 DEF Judge
  <2>2. promoter' = [promoter EXCEPT ![p] = s]
    BY <1>2, <1>8, <2>1 DEF Judge, Scans
  <2> HIDE DEF a
  <2>3. s.pc \in Holding => s.pc = "judged" /\ s.fact = f /\ s.held = review[f]
    BY <2>1 DEF Scans, Holding
  <2> HIDE DEF s
  <2> QED BY <1>6, <2>1, <2>2, <2>3
<1>9. \A p, q \in Promoters : q = p
  BY DEF OneScan
<1>10. ASSUME NEW p \in Promoters, OpenFact(p) PROVE ReviewAsked' /\ HeldInReview' /\ NothingLost'
  <2> DEFINE g == promoter[p].fact
  <2>1. /\ promoter[p] \in Scans /\ promoter[p].pc = "judged" /\ g \in Facts /\ promoter[p].held \in Candidates
        /\ review[g] = promoter[p].held
    BY <1>2, <1>3, <1>10 DEF OpenFact, Holding, HeldInReview
  <2>2. /\ review' = review /\ asked' = asked /\ promoter'[p].pc = "opened"
        /\ promoter'[p].fact = g /\ promoter'[p].held = promoter[p].held
        /\ \A f \in Facts : f # g => facts'[f] = facts[f]
    BY <1>2, <1>10, <2>1 DEF OpenFact, Scans
  <2>3. review[g] # NoFile /\ review[g].text = asked[g]
    BY <1>3, <2>1, RecordsAre DEF ReviewAsked
  <2> HIDE DEF g
  <2>4. ReviewAsked' /\ HeldInReview'
    BY <1>3, <1>9, <2>1, <2>2 DEF ReviewAsked, HeldInReview
  <2>5. NothingLost'
    BY <1>3, <2>1, <2>2, <2>3 DEF NothingLost, FullFact
  <2> QED BY <2>4, <2>5
<1>11. ASSUME NEW p \in Promoters, WriteFact(p) PROVE ReviewAsked' /\ HeldInReview' /\ NothingLost'
  <2> DEFINE g == promoter[p].fact
             h == promoter[p].held
             r == [text |-> h.text, reviewed |-> h.reviewed]
  <2>1. promoter[p] \in Scans /\ promoter[p].pc = "opened" /\ g \in Facts /\ h \in Candidates /\ review[g] = h
    BY <1>2, <1>3, <1>11 DEF WriteFact, Holding, HeldInReview
  <2>2. h # NoFile /\ h.text \in Texts /\ h.text # NoFile /\ r # NoFile /\ r.text = h.text
    BY <2>1, RecordsAre DEF FactRecords
  <2>3. /\ review' = review /\ asked' = asked /\ promoter'[p].pc = "written"
        /\ promoter'[p].fact = g /\ promoter'[p].held = h
        /\ facts' = [facts EXCEPT ![g] = r]
    BY <1>2, <1>11, <2>1 DEF WriteFact, Scans
  <2>4. review[g].text = asked[g]
    BY <1>3, <2>1, <2>2 DEF ReviewAsked
  <2> HIDE DEF g, h, r
  <2>5. ReviewAsked' /\ HeldInReview'
    BY <1>2, <1>3, <1>9, <2>1, <2>2, <2>3 DEF ReviewAsked, HeldInReview, FullFact
  <2>6. NothingLost'
    BY <1>2, <1>3, <2>1, <2>2, <2>3, <2>4 DEF NothingLost, FullFact
  <2> QED BY <2>5, <2>6
<1>12. ASSUME NEW p \in Promoters, RemoveCandidate(p) PROVE ReviewAsked' /\ HeldInReview' /\ NothingLost'
  <2> DEFINE g == promoter[p].fact
             h == promoter[p].held
  <2>1. /\ promoter[p].pc = "written" /\ g \in Facts /\ h \in Candidates /\ review[g] = h
        /\ FullFact(g) /\ facts[g].text = h.text
    BY <1>2, <1>3, <1>12 DEF RemoveCandidate, Holding, HeldInReview
  <2>2. review' = [review EXCEPT ![g] = NoFile] /\ facts' = facts /\ asked' = asked
    BY <1>12 DEF RemoveCandidate
  <2>3. review[g] # NoFile /\ h.text = asked[g]
    BY <1>3, <2>1, RecordsAre DEF ReviewAsked
  <2>4. promoter'[p].pc \notin Holding
    BY <1>2, <1>12 DEF RemoveCandidate, AtRest, Holding
  <2> HIDE DEF g, h
  <2>5. ReviewAsked' /\ HeldInReview'
    BY <1>2, <1>3, <1>9, <2>1, <2>2, <2>4 DEF ReviewAsked, HeldInReview
  <2>6. NothingLost'
    BY <1>2, <1>3, <2>1, <2>2, <2>3 DEF NothingLost, FullFact
  <2> QED BY <2>5, <2>6
<1>13. CASE UNCHANGED promotionVars
  BY <1>3, <1>13 DEF promotionVars, ReviewAsked, HeldInReview, NothingLost, FullFact
<1> QED BY <1>4, <1>5, <1>7, <1>8, <1>10, <1>11, <1>12, <1>13 DEF PromotionNext

\* Every fact that was distilled is in review/ or in facts/, once: of promotions
\* of one process at a time, which find review/ as the last one left it.
PromotionInv ==
  /\ PromotionTypes
  /\ OneScan => UniqueInv
  /\ OneScan /\ Unedited => KeptInv

LEMMA PromotionInvHolds == PromotionSpec => []PromotionInv
<1>1. PromotionInit => PromotionInv
  BY PromotionStarts DEF PromotionInv, UniqueInv
<1>2. PromotionInv /\ [PromotionNext]_promotionVars => PromotionInv'
  <2> SUFFICES ASSUME PromotionInv, [PromotionNext]_promotionVars PROVE PromotionInv'
    OBVIOUS
  <2>1. PromotionTypes'
    BY PromotionTypesStep DEF PromotionInv
  <2>2. OneScan => UniqueInv'
    BY UniqueStep DEF PromotionInv
  <2>3. OneScan /\ Unedited => KeptInv'
    BY KeptStep DEF PromotionInv
  <2> QED BY <2>1, <2>2, <2>3 DEF PromotionInv, OneScan
<1> QED BY <1>1, <1>2, PTL DEF PromotionSpec

-----------------------------------------------------------------------------
(* The index *)

Stamps == [mtime : 0 .. MaxSeconds, size : {SizeOf[n] : n \in 1 .. MaxSaves}]
PageFiles == [content : 1 .. MaxSaves, mtime : 0 .. MaxSeconds]
Walks == [pc : {"idle", "walking", "stated", "synced"}, seen : SUBSET Pages,
          left : SUBSET Pages, page : Pages \cup {Gone}, stamp : Stamps \cup {Gone},
          loaded : [Pages -> Stamps \cup {Gone}]]

\* A stamp of p that save n was given.
Stamped(p, stamp, n) ==
  n \in 1 .. saves /\ savedAt[n] = [page |-> p, mtime |-> stamp.mtime] /\ SizeOf[n] = stamp.size

\* An entry of a checkpoint is of a save that the wiki has, or had before a later one.
Covered(p, entry) ==
  entry # Gone => \E n \in 1 .. MaxSaves : Stamped(p, entry, n) /\ wiki[p] # Gone /\ n <= wiki[p]

EntriesCovered == \A p \in Pages : Covered(p, checkpoint[p]) /\ Covered(p, walk.loaded[p])

\* The file that is to be read is the one that was stamped, or a later one.
StampIsOld ==
  walk.pc = "stated" =>
    /\ walk.page \in Pages /\ walk.stamp \in Stamps
    /\ \E n \in 1 .. MaxSaves :
         /\ Stamped(walk.page, walk.stamp, n)
         /\ root[walk.page] # Gone => n <= root[walk.page].content

\* Saves are numbered in order, and the wiki has what was once a file.
SavesInOrder ==
  \A p \in Pages :
    /\ root[p] # Gone => Stamped(p, StampOf(root[p]), root[p].content)
    /\ wiki[p] # Gone => wiki[p] <= saves /\ (root[p] # Gone => wiki[p] <= root[p].content)

\* Without a failed walk, what can be found is in the entries.
Entries == IF walk.pc \in {"walking", "stated"} THEN walk.loaded ELSE checkpoint

FoundIsEntered == walkFaults = 0 => \A p \in Pages : postings[p] # Gone => Entries[p] # Gone

IndexInv ==
  /\ IndexTypeOK /\ SavesInOrder /\ EntriesCovered /\ StampIsOld
  /\ FoundIsRead /\ FoundIsEntered

LEMMA IndexTypesAre ==
  IndexTypeOK <=>
    /\ root \in [Pages -> PageFiles \cup {Gone}] /\ checkpoint \in [Pages -> Stamps \cup {Gone}]
    /\ wiki \in [Pages -> 1 .. MaxSaves \cup {Gone}] /\ postings \in [Pages -> 1 .. MaxSaves \cup {Gone}]
    /\ walk \in Walks
    /\ second \in 0 .. MaxSeconds /\ saves \in 0 .. MaxSaves /\ walkFaults \in 0 .. MaxWalkFaults
    /\ savedAt \in [1 .. MaxSaves -> [page : Pages, mtime : 0 .. MaxSeconds] \cup {Gone}]
BY DEF IndexTypeOK, Stamps, PageFiles, Walks

LEMMA IndexInvSafe == IndexInv => IndexSafety
<1> SUFFICES ASSUME IndexInv PROVE IndexSafety
  OBVIOUS
<1>1. /\ root \in [Pages -> PageFiles \cup {Gone}] /\ wiki \in [Pages -> 1 .. MaxSaves \cup {Gone}]
      /\ saves \in 0 .. MaxSaves
  BY IndexTypesAre DEF IndexInv
<1>2. ASSUME NEW p \in Pages, Unchanged(p), ~Ambiguous(p)
      PROVE  wiki[p] = root[p].content
  <2>1. root[p] # Gone /\ checkpoint[p] = StampOf(root[p]) /\ root[p] \in PageFiles
    BY <1>1, <1>2 DEF Unchanged
  <2>2. StampOf(root[p]) # Gone
    BY <2>1, IndexAssumption DEF StampOf, PageFiles
  <2>3. PICK n \in 1 .. MaxSaves : Stamped(p, StampOf(root[p]), n) /\ wiki[p] # Gone /\ n <= wiki[p]
    BY <2>1, <2>2 DEF IndexInv, EntriesCovered, Covered
  <2>4. Stamped(p, StampOf(root[p]), root[p].content) /\ wiki[p] <= root[p].content
    BY <2>1, <2>3 DEF IndexInv, SavesInOrder
  <2>5. [page |-> p, mtime |-> root[p].mtime] # Gone
    BY <2>1, IndexAssumption DEF PageFiles
  <2>6. n = root[p].content
    BY <1>1, <1>2, <2>1, <2>3, <2>4, <2>5 DEF Ambiguous, Stamped, StampOf, PageFiles
  <2> QED BY <1>1, <2>1, <2>3, <2>4, <2>6 DEF PageFiles
<1>3. DroppedNotFound
  BY DEF IndexInv, FoundIsEntered, Entries, DroppedNotFound
<1> QED BY <1>2, <1>3 DEF IndexInv, IndexSafety, SkippedIsProjected

LEMMA IndexStarts == IndexInit => IndexInv
<1> SUFFICES ASSUME IndexInit PROVE IndexInv
  OBVIOUS
<1>1. Nowhere \in [Pages -> Stamps \cup {Gone}] /\ WalkAt("idle") \in Walks /\ WalkAt("idle").pc = "idle"
      /\ WalkAt("idle").loaded = Nowhere
  BY DEF Nowhere, WalkAt, Walks
<1>2. IndexTypeOK
  BY <1>1, IndexTypesAre, IndexAssumption DEF IndexInit, Nowhere
<1>3. \A p \in Pages : root[p] = Gone /\ wiki[p] = Gone /\ postings[p] = Gone /\ checkpoint[p] = Gone
                       /\ walk.loaded[p] = Gone
  BY <1>1 DEF IndexInit, Nowhere
<1> QED BY <1>1, <1>2, <1>3 DEF IndexInit, IndexInv, SavesInOrder, EntriesCovered, Covered, StampIsOld,
             FoundIsRead, FoundIsEntered

LEMMA WalksAre ==
  /\ \A w \in Walks : /\ w.pc \in {"idle", "walking", "stated", "synced"} /\ w.left \subseteq Pages
                      /\ w.seen \subseteq Pages /\ w.page \in Pages \cup {Gone}
                      /\ w.stamp \in Stamps \cup {Gone} /\ w.loaded \in [Pages -> Stamps \cup {Gone}]
  /\ \A pc \in {"idle", "walking", "stated", "synced"} :
       /\ WalkAt(pc) \in Walks /\ WalkAt(pc).pc = pc /\ WalkAt(pc).loaded = Nowhere
  /\ Nowhere \in [Pages -> Stamps \cup {Gone}] /\ \A p \in Pages : Nowhere[p] = Gone
BY DEF Walks, WalkAt, Nowhere

LEMMA StampsAre ==
  ASSUME NEW file \in PageFiles
  PROVE  StampOf(file) \in Stamps /\ StampOf(file) # Gone
<1>1. SizeOf[file.content] \in Nat /\ file.content \in 1 .. MaxSaves /\ file.mtime \in 0 .. MaxSeconds
  BY IndexAssumption DEF PageFiles
<1> QED BY <1>1, IndexAssumption DEF StampOf, Stamps

\* A file is saved or removed.
LEMMA FilesStep ==
  ASSUME IndexInv, NEW p \in Pages, SavePage(p) \/ DeletePage(p)
  PROVE  IndexInv'
<1>1. /\ root \in [Pages -> PageFiles \cup {Gone}] /\ checkpoint \in [Pages -> Stamps \cup {Gone}]
      /\ wiki \in [Pages -> 1 .. MaxSaves \cup {Gone}] /\ postings \in [Pages -> 1 .. MaxSaves \cup {Gone}]
      /\ walk \in Walks
      /\ second \in 0 .. MaxSeconds /\ saves \in 0 .. MaxSaves /\ walkFaults \in 0 .. MaxWalkFaults
      /\ savedAt \in [1 .. MaxSaves -> [page : Pages, mtime : 0 .. MaxSeconds] \cup {Gone}]
  BY IndexTypesAre DEF IndexInv
<1>2. SavesInOrder /\ EntriesCovered /\ StampIsOld /\ FoundIsRead /\ FoundIsEntered
  BY DEF IndexInv
<1>3. MaxSaves \in Nat /\ MaxSeconds \in Nat /\ Gone \notin Nat
  BY IndexAssumption
<1>4. /\ wiki' = wiki /\ walk' = walk /\ checkpoint' = checkpoint /\ postings' = postings /\ walkFaults' = walkFaults
      /\ saves' \in {saves, saves + 1} /\ saves' \in 0 .. MaxSaves /\ second' \in 0 .. MaxSeconds
  BY <1>1, <1>3 DEF SavePage, DeletePage
<1>5. \A n \in 1 .. MaxSaves : n <= saves => savedAt'[n] = savedAt[n]
  <2>1. CASE SavePage(p)
    <3>1. savedAt' = [savedAt EXCEPT ![saves + 1] = [page |-> p, mtime |-> second]]
      BY <2>1 DEF SavePage
    <3>2. \A n \in 1 .. MaxSaves : n <= saves => n # saves + 1
      BY <1>1
    <3> QED BY <1>1, <3>1, <3>2
  <2>2. CASE DeletePage(p)
    BY <2>2 DEF DeletePage
  <2> QED BY <2>1, <2>2
<1>6. \A q, stamp, n : Stamped(q, stamp, n) => Stamped(q, stamp, n)'
  BY <1>1, <1>3, <1>4, <1>5 DEF Stamped
<1>7. \A q \in Pages : root'[q] = root[q] \/ root'[q] = Gone \/ (SavePage(p) /\ q = p)
  <2>1. CASE SavePage(p)
    BY <1>1, <2>1 DEF SavePage
  <2>2. CASE DeletePage(p)
    BY <1>1, <2>2 DEF DeletePage
  <2> QED BY <2>1, <2>2
<1>8. ASSUME SavePage(p)
      PROVE  /\ root'[p] = [content |-> saves + 1, mtime |-> second] /\ root'[p] \in PageFiles
             /\ savedAt'[saves + 1] = [page |-> p, mtime |-> second] /\ saves' = saves + 1
             /\ savedAt'[saves + 1] \in [page : Pages, mtime : 0 .. MaxSeconds]
  BY <1>1, <1>3, <1>8 DEF SavePage, PageFiles
<1>9. IndexTypeOK'
  <2>1. root' \in [Pages -> PageFiles \cup {Gone}]
    BY <1>1, <1>7, <1>8 DEF SavePage, DeletePage
  <2>2. savedAt' \in [1 .. MaxSaves -> [page : Pages, mtime : 0 .. MaxSeconds] \cup {Gone}]
    BY <1>1, <1>3, <1>8 DEF SavePage, DeletePage
  <2> QED BY <1>1, <1>4, <2>1, <2>2 DEF IndexTypeOK, Stamps, PageFiles, Walks
<1>10. SavesInOrder'
  <2> SUFFICES ASSUME NEW q \in Pages
               PROVE  /\ root'[q] # Gone => Stamped(q, StampOf(root[q]), root[q].content)'
                      /\ wiki'[q] # Gone => wiki'[q] <= saves' /\ (root'[q] # Gone => wiki'[q] <= root'[q].content)
    BY DEF SavesInOrder
  <2>1. /\ root[q] # Gone => Stamped(q, StampOf(root[q]), root[q].content)
        /\ wiki[q] # Gone => wiki[q] \in Nat /\ wiki[q] <= saves /\ (root[q] # Gone => wiki[q] <= root[q].content)
    BY <1>1, <1>2 DEF SavesInOrder
  <2>2. CASE root'[q] = root[q] \/ root'[q] = Gone
    BY <1>1, <1>4, <1>6, <2>1, <2>2
  <2>3. CASE SavePage(p) /\ q = p
    <3>1. /\ root'[p].content = saves + 1 /\ root'[p].mtime = second /\ saves + 1 \in 1 .. saves'
      BY <1>1, <1>8, <2>3
    <3>2. Stamped(p, StampOf(root[p]), root[p].content)'
      BY <1>8, <2>3, <3>1 DEF Stamped, StampOf
    <3> QED BY <1>1, <1>4, <1>8, <2>1, <2>3, <3>1, <3>2
  <2> QED BY <1>7, <2>2, <2>3
<1>11. EntriesCovered'
  BY <1>2, <1>4, <1>6 DEF EntriesCovered, Covered
<1>12. StampIsOld'
  <2> SUFFICES ASSUME walk.pc = "stated"
               PROVE  /\ walk.page \in Pages /\ walk.stamp \in Stamps
                      /\ \E n \in 1 .. MaxSaves :
                           /\ Stamped(walk.page, walk.stamp, n)'
                           /\ root'[walk.page] # Gone => n <= root'[walk.page].content
    BY <1>4 DEF StampIsOld
  <2>1. PICK n \in 1 .. MaxSaves : /\ Stamped(walk.page, walk.stamp, n)
                                   /\ root[walk.page] # Gone => n <= root[walk.page].content
    BY <1>2 DEF StampIsOld
  <2>2. walk.page \in Pages /\ walk.stamp \in Stamps
    BY <1>2 DEF StampIsOld
  <2>3. n \in 1 .. saves
    BY <2>1 DEF Stamped
  <2>4. root'[walk.page] # Gone => n <= root'[walk.page].content
    <3>1. CASE SavePage(p) /\ walk.page = p
      BY <1>1, <1>8, <2>3, <3>1
    <3>2. CASE root'[walk.page] = root[walk.page] \/ root'[walk.page] = Gone
      BY <2>1, <3>2
    <3>3. root'[walk.page] = root[walk.page] \/ root'[walk.page] = Gone \/ (SavePage(p) /\ walk.page = p)
      BY <1>7, <2>2
    <3> QED BY <3>1, <3>2, <3>3
  <2>5. Stamped(walk.page, walk.stamp, n)'
    <3>1. PICK q, stamp : q = walk.page /\ stamp = walk.stamp
      OBVIOUS
    <3>2. q = walk'.page /\ stamp = walk'.stamp
      BY <1>4, <3>1
    <3>3. Stamped(q, stamp, n)'
      BY <1>6, <2>1, <3>1
    <3> QED BY <3>2, <3>3
  <2> QED BY <2>2, <2>4, <2>5
<1>13. FoundIsRead' /\ FoundIsEntered'
  BY <1>2, <1>4 DEF FoundIsRead, FoundIsEntered, Entries
<1> QED BY <1>9, <1>10, <1>11, <1>12, <1>13 DEF IndexInv

\* What the walk, its end and a restart have in common: they touch no file.
LEMMA WalkSteps ==
  ASSUME IndexInv,
         \/ \E p \in Pages : Stat(p)
         \/ StartWalk \/ Vanished \/ UpsertFails
         \/ ProjectPage \/ EndWalk \/ SaveFails \/ Restart
  PROVE  IndexInv'
<1>1. /\ root \in [Pages -> PageFiles \cup {Gone}] /\ checkpoint \in [Pages -> Stamps \cup {Gone}]
      /\ wiki \in [Pages -> 1 .. MaxSaves \cup {Gone}] /\ postings \in [Pages -> 1 .. MaxSaves \cup {Gone}]
      /\ walk \in Walks
      /\ second \in 0 .. MaxSeconds /\ saves \in 0 .. MaxSaves /\ walkFaults \in 0 .. MaxWalkFaults
      /\ savedAt \in [1 .. MaxSaves -> [page : Pages, mtime : 0 .. MaxSeconds] \cup {Gone}]
  BY IndexTypesAre DEF IndexInv
<1>2. SavesInOrder /\ EntriesCovered /\ StampIsOld /\ FoundIsRead /\ FoundIsEntered
  BY DEF IndexInv
<1>3. MaxSaves \in Nat /\ MaxSeconds \in Nat /\ MaxWalkFaults \in Nat /\ Gone \notin Nat
  BY IndexAssumption
<1>4. root' = root /\ saves' = saves /\ savedAt' = savedAt /\ second' = second
  BY DEF Stat, StartWalk, Vanished, UpsertFails, ProjectPage, EndWalk, SaveFails, Restart
<1>5. \A q, stamp, n : Stamped(q, stamp, n)' <=> Stamped(q, stamp, n)
  BY <1>4 DEF Stamped
<1>6. walkFaults' \in 0 .. MaxWalkFaults /\ (walkFaults' = 0 => walkFaults = 0)
  <2>1. walkFaults' = walkFaults \/ (walkFaults < MaxWalkFaults /\ walkFaults' = walkFaults + 1)
    BY DEF Stat, StartWalk, Vanished, UpsertFails, ProjectPage, EndWalk, SaveFails, Restart
  <2> QED BY <1>1, <1>3, <2>1
<1> DEFINE Typed == /\ walk' \in Walks /\ checkpoint' \in [Pages -> Stamps \cup {Gone}]
                    /\ wiki' \in [Pages -> 1 .. MaxSaves \cup {Gone}] /\ postings' \in [Pages -> 1 .. MaxSaves \cup {Gone}]
\* A walk goes on, or ends, and leaves the wiki and the index as they are or drops pages from the index.
<1>7. ASSUME wiki' = wiki, Typed, \A q \in Pages : postings'[q] \in {postings[q], Gone},
             \A q \in Pages : walk'.loaded[q] \in {walk.loaded[q], checkpoint[q], Gone},
             \A q \in Pages : checkpoint'[q] \in {walk.loaded[q], checkpoint[q], Gone},
             walk'.pc = "stated" =>
               \E q \in Pages : root[q] # Gone /\ walk'.page = q /\ walk'.stamp = StampOf(root[q]),
             walkFaults' = 0 => \A q \in Pages :
               postings'[q] # Gone => (IF walk'.pc \in {"walking", "stated"} THEN walk'.loaded ELSE checkpoint')[q] # Gone
      PROVE  IndexInv'
  <2>1. IndexTypeOK'
    BY <1>1, <1>4, <1>6, <1>7 DEF IndexTypeOK, Stamps, PageFiles, Walks
  <2>2. SavesInOrder'
    <3> SUFFICES ASSUME NEW q \in Pages
                 PROVE  /\ root'[q] # Gone => Stamped(q, StampOf(root[q]), root[q].content)'
                        /\ wiki'[q] # Gone => wiki'[q] <= saves' /\ (root'[q] # Gone => wiki'[q] <= root'[q].content)
      BY DEF SavesInOrder
    <3>1. PICK stamp, n : stamp = StampOf(root[q]) /\ n = root[q].content
      OBVIOUS
    <3>2. stamp = StampOf(root[q])' /\ n = root'[q].content
      BY <1>4, <3>1 DEF StampOf
    <3> QED BY <1>2, <1>4, <1>5, <1>7, <3>1, <3>2 DEF SavesInOrder
  <2>3. EntriesCovered'
    <3> SUFFICES ASSUME NEW q \in Pages PROVE Covered(q, checkpoint[q])' /\ Covered(q, walk.loaded[q])'
      BY DEF EntriesCovered
    <3>1. \A entry \in {walk.loaded[q], checkpoint[q], Gone} :
            entry # Gone => \E n \in 1 .. MaxSaves : Stamped(q, entry, n) /\ wiki[q] # Gone /\ n <= wiki[q]
      BY <1>2 DEF EntriesCovered, Covered
    <3>2. PICK c, l : c = checkpoint'[q] /\ l = walk'.loaded[q]
      OBVIOUS
    <3>3. \A entry \in {c, l} :
            entry # Gone => \E n \in 1 .. MaxSaves : Stamped(q, entry, n)' /\ wiki'[q] # Gone /\ n <= wiki'[q]
      BY <1>5, <1>7, <3>1, <3>2
    <3> QED BY <3>2, <3>3 DEF Covered
  <2>4. StampIsOld'
    <3> SUFFICES ASSUME walk'.pc = "stated"
                 PROVE  /\ walk'.page \in Pages /\ walk'.stamp \in Stamps
                        /\ \E n \in 1 .. MaxSaves : /\ Stamped(walk.page, walk.stamp, n)'
                                                    /\ root'[walk'.page] # Gone => n <= root'[walk'.page].content
      BY DEF StampIsOld
    <3>1. PICK q \in Pages : root[q] # Gone /\ walk'.page = q /\ walk'.stamp = StampOf(root[q])
      BY <1>7
    <3>2. PICK stamp, n : stamp = StampOf(root[q]) /\ n = root[q].content
      OBVIOUS
    <3>3. root[q] \in PageFiles /\ n \in 1 .. MaxSaves /\ stamp \in Stamps
      BY <1>1, <3>1, <3>2, StampsAre DEF PageFiles
    <3>4. Stamped(q, stamp, n)'
      BY <1>2, <1>5, <3>1, <3>2 DEF SavesInOrder
    <3>5. n <= root'[q].content
      BY <1>4, <3>2, <3>3
    <3> QED BY <3>1, <3>2, <3>3, <3>4, <3>5
  <2>5. FoundIsRead' /\ FoundIsEntered'
    BY <1>2, <1>7 DEF FoundIsRead, FoundIsEntered, Entries
  <2> QED BY <2>1, <2>2, <2>3, <2>4, <2>5 DEF IndexInv
<1>8. CASE StartWalk
  <2> DEFINE w == [WalkAt("walking") EXCEPT !.seen = {q \in Pages : root[q] # Gone},
                                            !.left = {q \in Pages : root[q] # Gone}, !.loaded = checkpoint]
  <2>1. /\ walk' = w /\ checkpoint' = checkpoint /\ wiki' = wiki /\ postings' = postings
        /\ walk.pc \notin {"walking", "stated"} /\ walkFaults' = walkFaults
    BY <1>8 DEF StartWalk
  <2>2. w \in Walks /\ w.pc = "walking" /\ w.loaded = checkpoint
    BY <1>1 DEF WalkAt, Walks
  <2> HIDE DEF w
  <2> QED BY <1>1, <1>2, <1>7, <2>1, <2>2 DEF FoundIsEntered, Entries
<1>9. ASSUME NEW p \in Pages, Stat(p) PROVE IndexInv'
  <2> DEFINE w == IF root[p] # Gone /\ NeedsReindex(walk.loaded[p], StampOf(root[p]))
                  THEN [walk EXCEPT !.pc = "stated", !.page = p, !.stamp = StampOf(root[p])]
                  ELSE [walk EXCEPT !.left = walk.left \ {p}]
  <2>1. /\ walk' = w /\ checkpoint' = checkpoint /\ wiki' = wiki /\ postings' = postings
        /\ walk.pc = "walking" /\ walkFaults' = walkFaults
    BY <1>9 DEF Stat
  <2>2. root[p] # Gone => StampOf(root[p]) \in Stamps
    BY <1>1, StampsAre
  <2>3. PICK v \in Walks : v = walk /\ v.pc = "walking"
    BY <1>1, <2>1
  <2>4. w \in Walks /\ w.pc \in {"walking", "stated"} /\ w.loaded = v.loaded
        /\ (w.pc = "stated" => root[p] # Gone /\ w.page = p /\ w.stamp = StampOf(root[p]))
    BY <2>2, <2>3 DEF Walks
  <2> HIDE DEF w
  <2> QED BY <1>1, <1>2, <1>7, <2>1, <2>3, <2>4 DEF FoundIsEntered, Entries
<1>10. Passed \in Walks /\ Passed.pc = "walking" /\ Passed.loaded = walk.loaded
  <2>1. PICK v \in Walks : v = walk
    BY <1>1
  <2> QED BY <2>1 DEF Passed, Walks
<1>11. CASE Vanished
  <2>1. /\ walk' = Passed /\ checkpoint' = checkpoint /\ wiki' = wiki /\ postings' = postings
        /\ walk.pc = "stated" /\ walkFaults' = walkFaults
    BY <1>11 DEF Vanished
  <2> QED BY <1>1, <1>2, <1>7, <1>10, <2>1 DEF FoundIsEntered, Entries
<1>12. CASE UpsertFails
  <2>1. /\ walk' = WalkAt("idle") /\ checkpoint' = checkpoint /\ wiki' = wiki /\ postings' = postings
        /\ walkFaults' # 0
    BY <1>1, <1>12 DEF UpsertFails
  <2> QED BY <1>1, <1>7, <2>1, WalksAre
<1>13. \A f, S : f \in [Pages -> S] /\ Gone \in S =>
         WithoutDropped(f) \in [Pages -> S] /\ \A q \in Pages : WithoutDropped(f)[q] \in {f[q], Gone}
  BY DEF WithoutDropped
<1>15. CASE EndWalk
  <2>1. /\ walk' = WalkAt("synced") /\ checkpoint' = WithoutDropped(walk.loaded) /\ wiki' = wiki
        /\ postings' = WithoutDropped(postings) /\ walk.pc = "walking" /\ walkFaults' = walkFaults
    BY <1>15 DEF EndWalk
  <2>2. walk.loaded \in [Pages -> Stamps \cup {Gone}]
    BY <1>1, WalksAre
  <2>3. walkFaults = 0 => \A q \in Pages : WithoutDropped(postings)[q] # Gone => WithoutDropped(walk.loaded)[q] # Gone
    BY <1>2, <2>1 DEF FoundIsEntered, Entries, WithoutDropped
  <2>4. /\ postings' \in [Pages -> 1 .. MaxSaves \cup {Gone}] /\ \A q \in Pages : postings'[q] \in {postings[q], Gone}
        /\ checkpoint' \in [Pages -> Stamps \cup {Gone}] /\ \A q \in Pages : checkpoint'[q] \in {walk.loaded[q], Gone}
    BY <1>1, <1>13, <2>1, <2>2
  <2>5. /\ walk' \in Walks /\ walk'.pc = "synced" /\ \A q \in Pages : walk'.loaded[q] = Gone
    BY <2>1, WalksAre
  <2>6. walkFaults' = 0 => \A q \in Pages : postings'[q] # Gone => checkpoint'[q] # Gone
    BY <2>1, <2>3
  <2> QED BY <1>1, <1>7, <2>1, <2>4, <2>5, <2>6
<1>16. CASE SaveFails
  <2>1. /\ walk' = WalkAt("idle") /\ checkpoint' \in {checkpoint, Nowhere} /\ wiki' = wiki
        /\ postings' = WithoutDropped(postings) /\ walkFaults' # 0
    BY <1>1, <1>16 DEF SaveFails
  <2>2. postings' \in [Pages -> 1 .. MaxSaves \cup {Gone}] /\ \A q \in Pages : postings'[q] \in {postings[q], Gone}
    BY <1>1, <1>13, <2>1
  <2>3. /\ checkpoint' \in [Pages -> Stamps \cup {Gone}] /\ \A q \in Pages : checkpoint'[q] \in {checkpoint[q], Gone}
        /\ walk' \in Walks /\ walk'.pc = "idle" /\ \A q \in Pages : walk'.loaded[q] = Gone
    BY <1>1, <2>1, WalksAre
  <2> QED BY <1>1, <1>7, <2>1, <2>2, <2>3
<1>17. CASE Restart
  <2>1. walk' = WalkAt("idle") /\ checkpoint' = checkpoint /\ wiki' = wiki /\ postings' = Nowhere
    BY <1>17 DEF Restart
  <2>2. postings' \in [Pages -> 1 .. MaxSaves \cup {Gone}]
    BY <2>1 DEF Nowhere
  <2> QED BY <1>1, <1>7, <2>1, <2>2, WalksAre
\* What is read is the stamped save or a later one.
<1>18. CASE ProjectPage
  <2>1. PICK g, stamp, c : g = walk.page /\ stamp = walk.stamp /\ c = root[g].content
    OBVIOUS
  <2>2. /\ g \in Pages /\ stamp \in Stamps /\ root[g] # Gone /\ walk.pc = "stated"
        /\ \E n \in 1 .. MaxSaves : Stamped(g, stamp, n) /\ n <= c
    BY <1>2, <1>18, <2>1 DEF ProjectPage, StampIsOld
  <2>3. /\ wiki' = [wiki EXCEPT ![g] = c] /\ postings' = [postings EXCEPT ![g] = c]
        /\ walk' = [Passed EXCEPT !.loaded[g] = stamp] /\ checkpoint' = checkpoint /\ walkFaults' = walkFaults
    BY <1>18, <2>1 DEF ProjectPage
  <2>4. c \in 1 .. MaxSaves /\ c <= saves /\ c # Gone
    <3>1. root[g] \in PageFiles
      BY <1>1, <2>2
    <3>2. c \in 1 .. saves
      BY <1>2, <2>1, <2>2 DEF SavesInOrder, Stamped
    <3> QED BY <1>1, <1>3, <2>1, <3>1, <3>2 DEF PageFiles
  <2>5. stamp # Gone
    BY <2>2, IndexAssumption DEF Stamps
  <2>6. /\ walk' \in Walks /\ walk'.pc = "walking" /\ walk.loaded \in [Pages -> Stamps \cup {Gone}]
        /\ walk'.loaded = [walk.loaded EXCEPT ![g] = stamp]
    BY <1>1, <1>10, <2>2, <2>3 DEF Walks
  <2>7. IndexTypeOK'
    <3>1. wiki' \in [Pages -> 1 .. MaxSaves \cup {Gone}] /\ postings' \in [Pages -> 1 .. MaxSaves \cup {Gone}]
      BY <1>1, <2>3, <2>4
    <3> QED BY <1>1, <1>4, <1>6, <2>3, <2>6, <3>1 DEF IndexTypeOK, Stamps, PageFiles, Walks
  <2>8. \A q \in Pages : wiki'[q] = (IF q = g THEN c ELSE wiki[q]) /\ postings'[q] = (IF q = g THEN c ELSE postings[q])
                         /\ walk'.loaded[q] = (IF q = g THEN stamp ELSE walk.loaded[q])
    BY <1>1, <2>3, <2>6
  <2>9. SavesInOrder'
    <3> SUFFICES ASSUME NEW q \in Pages
                 PROVE  /\ root'[q] # Gone => Stamped(q, StampOf(root[q]), root[q].content)'
                        /\ wiki'[q] # Gone => wiki'[q] <= saves' /\ (root'[q] # Gone => wiki'[q] <= root'[q].content)
      BY DEF SavesInOrder
    <3>1. PICK s, n : s = StampOf(root[q]) /\ n = root[q].content
      OBVIOUS
    <3>2. s = StampOf(root[q])' /\ n = root'[q].content
      BY <1>4, <3>1 DEF StampOf
    <3>3. root'[q] # Gone => Stamped(q, StampOf(root[q]), root[q].content)'
      BY <1>2, <1>4, <1>5, <3>1, <3>2 DEF SavesInOrder
    <3>4. CASE q = g
      BY <1>4, <2>1, <2>4, <2>8, <3>3, <3>4
    <3>5. CASE q # g
      BY <1>2, <1>4, <2>8, <3>3, <3>5 DEF SavesInOrder
    <3> QED BY <3>4, <3>5
  <2>10. EntriesCovered'
    <3> SUFFICES ASSUME NEW q \in Pages, NEW e, e = checkpoint'[q] \/ e = walk'.loaded[q], e # Gone
                 PROVE  \E n \in 1 .. MaxSaves : Stamped(q, e, n)' /\ wiki'[q] # Gone /\ n <= wiki'[q]
      BY DEF EntriesCovered, Covered
    <3>1. CASE q = g /\ e = stamp
      BY <1>5, <2>2, <2>4, <2>8, <3>1
    <3>2. CASE e = checkpoint[q] \/ e = walk.loaded[q]
      <4>1. PICK n \in 1 .. MaxSaves : Stamped(q, e, n) /\ wiki[q] # Gone /\ n <= wiki[q]
        BY <1>2, <3>2 DEF EntriesCovered, Covered
      <4>2. wiki'[q] # Gone /\ n <= wiki'[q]
        <5>1. CASE q = g
          <6>1. wiki[q] \in 1 .. MaxSaves /\ wiki[q] <= c
            BY <1>1, <1>2, <2>1, <2>2, <4>1, <5>1 DEF SavesInOrder
          <6> QED BY <2>4, <2>8, <4>1, <5>1, <6>1
        <5>2. CASE q # g
          BY <2>8, <4>1, <5>2
        <5> QED BY <5>1, <5>2
      <4> QED BY <1>5, <4>1, <4>2
    <3> QED BY <2>3, <2>8, <3>1, <3>2
  <2>11. StampIsOld' /\ FoundIsRead' /\ FoundIsEntered'
    BY <1>2, <2>2, <2>3, <2>5, <2>6, <2>8 DEF StampIsOld, FoundIsRead, FoundIsEntered, Entries
  <2> QED BY <2>7, <2>9, <2>10, <2>11 DEF IndexInv
<1> QED BY <1>8, <1>9, <1>11, <1>12, <1>15, <1>16, <1>17, <1>18

LEMMA IndexInvHolds == IndexSpec => []IndexInv
<1>1. ASSUME IndexInv, [IndexNext]_indexVars PROVE IndexInv'
  <2>1. ASSUME NEW p \in Pages, SavePage(p) \/ DeletePage(p) \/ Stat(p) PROVE IndexInv'
    <3>1. CASE SavePage(p) \/ DeletePage(p)
      BY <1>1, <3>1, FilesStep
    <3>2. CASE Stat(p)
      BY <1>1, <3>2, WalkSteps
    <3> QED BY <2>1, <3>1, <3>2
  <2>2. CASE NextSecond
    <3>1. IndexTypeOK'
      <4>1. second \in 0 .. MaxSeconds /\ second < MaxSeconds /\ second' = second + 1
        BY <1>1, <2>2 DEF IndexInv, IndexTypeOK, NextSecond
      <4>2. second' \in 0 .. MaxSeconds
        BY <4>1, IndexAssumption
      <4> QED BY <1>1, <2>2, <4>2 DEF IndexInv, IndexTypeOK, NextSecond
    <3> QED BY <1>1, <2>2, <3>1 DEF NextSecond, IndexInv, SavesInOrder, EntriesCovered, Covered, StampIsOld, Stamped,
                               StampOf, FoundIsRead, FoundIsEntered, Entries
  <2>3. CASE StartWalk \/ Vanished \/ UpsertFails \/ ProjectPage \/ EndWalk \/ SaveFails \/ Restart
    BY <1>1, <2>3, WalkSteps
  <2>4. CASE UNCHANGED indexVars
    BY <1>1, <2>4 DEF indexVars, IndexInv, IndexTypeOK, SavesInOrder, EntriesCovered, Covered, StampIsOld, Stamped,
         StampOf, FoundIsRead, FoundIsEntered, Entries
  <2> QED BY <1>1, <2>1, <2>2, <2>3, <2>4 DEF IndexNext
<1> QED BY <1>1, IndexStarts, PTL DEF IndexSpec

-----------------------------------------------------------------------------
(* The knowledge base *)

\* What was distilled is kept, once, and what is indexed is found as it is:
\* promote_review_dir by one process at a time while nobody edits review/, and any
\* number of walks, which may fail or be cut, while files are saved and removed.
\* Only two saves of one file of one size in one second are told apart by nothing.
THEOREM KnowledgeIsKept ==
  OneScan /\ Unedited /\ KnowledgeSpec => []KnowledgeSafety
<1>1. KnowledgeSpec => PromotionSpec /\ IndexSpec
  <2>1. KnowledgeInit => PromotionInit /\ IndexInit
    BY DEF KnowledgeInit
  <2>2. [KnowledgeNext]_<<promotionVars, indexVars>> => [PromotionNext]_promotionVars /\ [IndexNext]_indexVars
    BY DEF KnowledgeNext
  <2> QED BY <2>1, <2>2, PTL DEF KnowledgeSpec, PromotionSpec, IndexSpec
<1>2. ASSUME OneScan, Unedited PROVE PromotionInv => PromotionSafety
  BY <1>2 DEF PromotionInv, UniqueInv, KeptInv, PromotionTypes, PromotionSafety
<1>3. ASSUME OneScan, Unedited PROVE KnowledgeSpec => []KnowledgeSafety
  <2>1. PromotionInv /\ IndexInv => KnowledgeSafety
    BY <1>2, <1>3, IndexInvSafe DEF KnowledgeSafety
  <2> QED BY <1>1, <2>1, PromotionInvHolds, IndexInvHolds, PTL
<1> QED BY <1>3

\* With candidates edited during a promotion the facts are still one of a kind, if
\* one process promotes.
THEOREM FactsAreUnique == OneScan /\ PromotionSpec => []FactsUnique
<1>1. ASSUME OneScan PROVE PromotionInv => FactsUnique
  BY <1>1 DEF PromotionInv, UniqueInv
<1>2. ASSUME OneScan PROVE PromotionSpec => []FactsUnique
  BY <1>1, <1>2, PromotionInvHolds, PTL
<1> QED BY <1>2

=============================================================================
