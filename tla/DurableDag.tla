----------------------------- MODULE DurableDag -----------------------------
(***************************************************************************)
(* The event-sourced task DAG of harness-runtime/src/lha/state_machine.rs. *)
(*                                                                         *)
(* A task record of the code is spread over one function per field.  Every *)
(* public method of DurableDag ends in commit(): the event is applied to a *)
(* copy, appended to the log and synced, and only then becomes the state,  *)
(* so a commit is one atomic step here (module WalLog models the inside of *)
(* a commit).  refresh_ready and reap_expired are several commits in a     *)
(* row: a crash, or a commit that returns an error, leaves only a prefix   *)
(* of them behind.  They hold the DAG exclusively (&mut self), so nothing  *)
(* else runs while one of them has commits left.                           *)
(***************************************************************************)
EXTENDS Integers, FiniteSets

CONSTANTS
  Tasks,        \* task ids the callers submit
  Workers,      \* worker ids (non-blank, as apply_event demands)
  NoWorker,     \* stands for the absence of a worker id
  MaxRetries,   \* spec.max_retries of each task
  Times,        \* values now_ms() can return
  Ttls,         \* lease lifetimes the callers ask for
  Levels,       \* progress values a worker reports, in percent
  MaxMs         \* u64::MAX, where saturating_add stops

ASSUME DagAssumption ==
  /\ NoWorker \notin Workers
  /\ MaxRetries \in [Tasks -> Nat]
  /\ MaxMs \in Nat
  /\ Times \subseteq 0..MaxMs
  /\ Ttls \subseteq 0..MaxMs
  /\ Levels \subseteq 0..100

VARIABLES
  deps,         \* spec.dependencies
  status,       \* the TaskStatus variant; "Absent" before TaskCreated
  owner,        \* worker_id of Scheduled and Running
  lease,        \* lease_expires_at_ms of Running, 0 otherwise
  retries,      \* retry_count
  progress,     \* progress_pct
  saved,        \* checkpoint_id is Some
  refreshing,   \* refresh_ready: tasks of its list not yet promoted
  reaping,      \* reap_expired: tasks of its list not yet failed
  retrying      \* reap_expired: the task just failed that it will reschedule

taskVars  == <<deps, status, owner, lease, retries, progress, saved>>
batchVars == <<refreshing, reaping, retrying>>
dagVars   == <<taskVars, batchVars>>

Statuses == {"Absent", "Pending", "Ready", "Scheduled", "Running", "Validating",
             "Succeeded", "Failed", "Cancelled", "BudgetExhausted"}

\* TaskStatus::is_terminal: a Failed task is not terminal, it may be retried.
Terminal == {"Succeeded", "Cancelled", "BudgetExhausted"}
\* The variants TaskFailed may leave.
Active   == {"Scheduled", "Running", "Validating"}

Created      == {t \in Tasks : status[t] # "Absent"}
Satisfied(t) == \A d \in deps[t] : status[d] = "Succeeded"

\* Mutant: the addition wraps past the width instead of stopping there.
OverflowingAdd(a, b) == a + b

SaturatingAdd(a, b) == IF a + b > MaxMs THEN MaxMs ELSE a + b

DagInit ==
  /\ deps = [t \in Tasks |-> {}]
  /\ status = [t \in Tasks |-> "Absent"]
  /\ owner = [t \in Tasks |-> NoWorker]
  /\ lease = [t \in Tasks |-> 0]
  /\ retries = [t \in Tasks |-> 0]
  /\ progress = [t \in Tasks |-> 0]
  /\ saved = [t \in Tasks |-> FALSE]
  /\ refreshing = {}
  /\ reaping = {}
  /\ retrying = {}

-----------------------------------------------------------------------------
(* apply_event, one operator per DagEvent.                                  *)

\* The new variant of t, with the worker and lease the variant carries.
Become(t, s, w, l) ==
  /\ status' = [status EXCEPT ![t] = s]
  /\ owner' = [owner EXCEPT ![t] = w]
  /\ lease' = [lease EXCEPT ![t] = l]

\* Mutant: the dependencies of a new task are not looked up.
TaskCreatedUnchecked(t, D) ==
  /\ t \notin Created
  /\ t \notin D
  /\ deps' = [deps EXCEPT ![t] = D]
  /\ status' = [status EXCEPT ![t] = "Pending"]
  /\ UNCHANGED <<owner, lease, retries, progress, saved>>

\* validate_spec.  An id not in the map cannot be reached from a dependency
\* that is, so its cycle checks reduce to t \notin D (DepsWellFounded).
TaskCreated(t, D) ==
  /\ t \notin Created
  /\ D \subseteq Created
  /\ t \notin D
  /\ deps' = [deps EXCEPT ![t] = D]
  /\ status' = [status EXCEPT ![t] = "Pending"]
  /\ UNCHANGED <<owner, lease, retries, progress, saved>>

TaskReady(t) ==
  /\ status[t] = "Pending"
  /\ Become(t, "Ready", NoWorker, 0)
  /\ UNCHANGED <<deps, retries, progress, saved>>

TaskScheduled(t, w) ==
  /\ status[t] = "Ready"
  /\ Become(t, "Scheduled", w, 0)
  /\ UNCHANGED <<deps, retries, progress, saved>>

TaskStarted(t, w, expiry) ==
  /\ status[t] = "Scheduled"
  /\ owner[t] = w
  /\ Become(t, "Running", w, expiry)
  /\ UNCHANGED <<deps, retries, progress, saved>>

TaskHeartbeat(t, w, p, expiry) ==
  /\ status[t] = "Running"
  /\ owner[t] = w
  /\ expiry > lease[t]
  /\ p >= progress[t]
  /\ lease' = [lease EXCEPT ![t] = expiry]
  /\ progress' = [progress EXCEPT ![t] = p]
  /\ UNCHANGED <<deps, status, owner, retries, saved>>

TaskCheckpointSaved(t) ==
  /\ status[t] = "Running"
  /\ saved' = [saved EXCEPT ![t] = TRUE]
  /\ UNCHANGED <<deps, status, owner, lease, retries, progress>>

TaskValidationStarted(t) ==
  /\ status[t] = "Running"
  /\ Become(t, "Validating", NoWorker, 0)
  /\ UNCHANGED <<deps, retries, progress, saved>>

TaskCompleted(t) ==
  /\ status[t] = "Validating"
  /\ Become(t, "Succeeded", NoWorker, 0)
  /\ progress' = [progress EXCEPT ![t] = 100]
  /\ UNCHANGED <<deps, retries, saved>>

TaskFailed(t) ==
  /\ status[t] \in Active
  /\ Become(t, "Failed", NoWorker, 0)
  /\ UNCHANGED <<deps, retries, progress, saved>>

\* Mutant: the retry limit is off by one.
RescheduledOnceMore(t) ==
  /\ status[t] = "Failed"
  /\ retries[t] <= MaxRetries[t]
  /\ Become(t, "Pending", NoWorker, 0)
  /\ retries' = [retries EXCEPT ![t] = @ + 1]
  /\ progress' = [progress EXCEPT ![t] = 0]
  /\ UNCHANGED <<deps, saved>>

\* Mutant: a retry starts from a fresh record and forgets the checkpoint.
RescheduledFromScratch(t) ==
  /\ status[t] = "Failed"
  /\ retries[t] < MaxRetries[t]
  /\ Become(t, "Pending", NoWorker, 0)
  /\ retries' = [retries EXCEPT ![t] = @ + 1]
  /\ progress' = [progress EXCEPT ![t] = 0]
  /\ saved' = [saved EXCEPT ![t] = FALSE]
  /\ UNCHANGED deps

\* checkpoint_id survives the retry, the progress and the note do not.
TaskRescheduled(t) ==
  /\ status[t] = "Failed"
  /\ retries[t] < MaxRetries[t]
  /\ Become(t, "Pending", NoWorker, 0)
  /\ retries' = [retries EXCEPT ![t] = @ + 1]
  /\ progress' = [progress EXCEPT ![t] = 0]
  /\ UNCHANGED <<deps, saved>>

TaskCancelled(t) ==
  /\ t \in Created
  /\ status[t] \notin Terminal
  /\ Become(t, "Cancelled", NoWorker, 0)
  /\ UNCHANGED <<deps, retries, progress, saved>>

TaskBudgetExhausted(t) ==
  /\ t \in Created
  /\ status[t] \notin Terminal
  /\ Become(t, "BudgetExhausted", NoWorker, 0)
  /\ UNCHANGED <<deps, retries, progress, saved>>

-----------------------------------------------------------------------------
(* The public methods.  A single-commit method whose event is rejected      *)
(* changes nothing and is no step.                                          *)

Idle == refreshing = {} /\ reaping = {} /\ retrying = {}

\* Mutant: the methods take the DAG without waiting for a batch to end.
Unguarded == UNCHANGED batchVars

Exclusive == Idle /\ UNCHANGED batchVars

CreateTask(t, D)   == Exclusive /\ TaskCreated(t, D)
Schedule(t, w)     == Exclusive /\ TaskScheduled(t, w)
Checkpoint(t)      == Exclusive /\ TaskCheckpointSaved(t)
BeginValidation(t) == Exclusive /\ TaskValidationStarted(t)
Complete(t)        == Exclusive /\ TaskCompleted(t)
Fail(t)            == Exclusive /\ TaskFailed(t)
Reschedule(t)      == Exclusive /\ TaskRescheduled(t)
Cancel(t)          == Exclusive /\ TaskCancelled(t)
ExhaustBudget(t)   == Exclusive /\ TaskBudgetExhausted(t)

Start(t, w, now, ttl) ==
  /\ Exclusive
  /\ ttl > 0
  /\ TaskStarted(t, w, SaturatingAdd(now, ttl))

Heartbeat(t, w, p, now, ttl) ==
  /\ Exclusive
  /\ ttl > 0
  /\ TaskHeartbeat(t, w, p, SaturatingAdd(now, ttl))

\* Mutant: any terminal dependency, not only a succeeded one, releases a task.
PromotableOnTerminal ==
  {t \in Tasks : status[t] = "Pending"
                 /\ \A d \in deps[t] : status[d] \in Terminal}

\* refresh_ready lists the promotable tasks first and then commits them one
\* by one without looking at their dependencies again.
Promotable == {t \in Tasks : status[t] = "Pending" /\ Satisfied(t)}

RefreshReady ==
  /\ Idle
  /\ Promotable # {}
  /\ refreshing' = Promotable
  /\ UNCHANGED <<taskVars, reaping, retrying>>

Promote(t) ==
  /\ t \in refreshing
  /\ TaskReady(t)
  /\ refreshing' = refreshing \ {t}
  /\ UNCHANGED <<reaping, retrying>>

\* Only Running tasks are looked at: Scheduled and Validating have no lease.
Expired(now) == {t \in Tasks : status[t] = "Running" /\ lease[t] <= now}

ReapExpired(now) ==
  /\ Idle
  /\ Expired(now) # {}
  /\ reaping' = Expired(now)
  /\ UNCHANGED <<taskVars, refreshing, retrying>>

ReapFail(t) ==
  /\ t \in reaping
  /\ retrying = {}
  /\ TaskFailed(t)
  /\ reaping' = reaping \ {t}
  /\ retrying' = IF retries[t] < MaxRetries[t] THEN {t} ELSE {}
  /\ UNCHANGED refreshing

ReapReschedule(t) ==
  /\ t \in retrying
  /\ TaskRescheduled(t)
  /\ retrying' = {}
  /\ UNCHANGED <<refreshing, reaping>>

\* The process dies and open() replays the log, or a commit returns an error
\* and the ? operator leaves the method: the commits left are not made.
Abandon ==
  /\ ~Idle
  /\ refreshing' = {}
  /\ reaping' = {}
  /\ retrying' = {}
  /\ UNCHANGED taskVars

Method(t) ==
  \/ \E D \in SUBSET Tasks : CreateTask(t, D)
  \/ \E w \in Workers : Schedule(t, w)
  \/ \E w \in Workers, now \in Times, ttl \in Ttls : Start(t, w, now, ttl)
  \/ \E w \in Workers, p \in Levels, now \in Times, ttl \in Ttls :
        Heartbeat(t, w, p, now, ttl)
  \/ Checkpoint(t)
  \/ BeginValidation(t)
  \/ Complete(t)
  \/ Fail(t)
  \/ Reschedule(t)
  \/ Cancel(t)
  \/ ExhaustBudget(t)

BatchStep(t) == Promote(t) \/ ReapFail(t) \/ ReapReschedule(t)

DagNext ==
  \/ \E t \in Tasks : Method(t) \/ BatchStep(t)
  \/ RefreshReady
  \/ \E now \in Times : ReapExpired(now)
  \/ Abandon

DagSpec == DagInit /\ [][DagNext]_dagVars

-----------------------------------------------------------------------------
DagTypeOK ==
  /\ deps \in [Tasks -> SUBSET Tasks]
  /\ status \in [Tasks -> Statuses]
  /\ owner \in [Tasks -> Workers \cup {NoWorker}]
  /\ lease \in [Tasks -> 0..MaxMs]
  /\ retries \in [Tasks -> Nat]
  /\ progress \in [Tasks -> 0..100]
  /\ saved \in [Tasks -> BOOLEAN]
  /\ refreshing \subseteq Tasks
  /\ reaping \subseteq Tasks
  /\ retrying \subseteq Tasks

\* A task that a worker may touch, or that has produced its artifact, only ever
\* runs after every hard dependency has succeeded, although TaskReady itself
\* never looks at a dependency and a retry sends a task back to Pending:
\* refresh_ready's list must still be right at its last commit.
Released == Active \cup {"Ready", "Succeeded", "Failed"}
DependenciesSucceeded == \A t \in Tasks : status[t] \in Released => Satisfied(t)

\* The dependency graph of the created tasks has no cycle: in every set of
\* tasks one has no dependency inside the set.  validate_spec only ever
\* compares a new task with the ones already in the map.
DepsWellFounded ==
  \A S \in SUBSET Created : S # {} => \E t \in S : deps[t] \cap S = {}

\* reap_expired works from a list computed before its first commit; no entry
\* of the list may be stale when its own commit is made, or the method would
\* stop half way with an InvalidTransition error.
BatchNeverStale ==
  /\ \A t \in refreshing : status[t] = "Pending" /\ Satisfied(t)
  /\ \A t \in reaping : status[t] = "Running"
  /\ \A t \in retrying : status[t] = "Failed" /\ retries[t] < MaxRetries[t]

\* Progress is monotone within an attempt, and a saved checkpoint is never
\* lost: only a retry brings the progress down, and it keeps the checkpoint.
ProgressAndCheckpointKept ==
  [][\A t \in Tasks :
       /\ progress'[t] < progress[t] => retries'[t] = retries[t] + 1
       /\ saved[t] => saved'[t]]_dagVars

\* The safety of the graph: a task is at work, or has been, only after its
\* dependencies, and there is an order in which that can happen.
DagSafety == DagTypeOK /\ DependenciesSucceeded /\ DepsWellFounded
=============================================================================
