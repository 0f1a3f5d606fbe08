----------------------------- MODULE TurnLease ------------------------------
(***************************************************************************)
(* The turns that hold leases on the durable DAG: run_durable_turn and     *)
(* heartbeat_loop of long_horizon.rs, the LongHorizonRuntime methods they  *)
(* call (lha/orchestrator.rs) and the lease watchdog (lha/watchdog.rs).    *)
(*                                                                         *)
(* Every turn submits a task of its own, claims it, spawns a task that     *)
(* renews the lease, runs the agent loop and then completes, fails or      *)
(* cancels its task.  The DAG sits behind a mutex.  A method with several  *)
(* commits keeps it from the first to the last, so the steps between them  *)
(* are seen by a crash, by an error and by the clock, not by another turn. *)
(*                                                                         *)
(* Deadlines are kept as time left: now_ms() is always 0, and Tick brings  *)
(* every lease and every timer one unit closer.                            *)
(***************************************************************************)
EXTENDS DurableDag

CONSTANTS
  Ttl,          \* lease_ttl
  Interval,     \* lease_ttl / 3, the period of the heartbeat
  ClaimDelays,  \* time from now_ms() in claim_task's argument to its return
  Timely,       \* TRUE: a due heartbeat or method never waits a whole unit
  MayDrop,      \* TRUE: the controller may drop a turn (timeout, panic)
  MaxErrors,    \* bound on commits and publications that return an error
  MaxCrashes    \* bound on crashes of the process

ASSUME TurnAssumption ==
  /\ Ttl \in 1..MaxMs
  /\ Interval \in 1..Ttl
  /\ ClaimDelays \subseteq 0..Ttl
  /\ Timely \in BOOLEAN
  /\ MayDrop \in BOOLEAN
  /\ MaxErrors \in Nat
  /\ MaxCrashes \in Nat
  /\ Workers = 1..MaxCrashes + 1

VARIABLES
  pid,          \* the running process; worker_id is "process-<pid>"
  pc,           \* where run_durable_turn is, per turn
  outcome,      \* how the agent loop of the turn ended
  beating,      \* the heartbeat loop of the turn is alive
  due,          \* time left until its next tick
  sweeping,     \* the watchdog is inside reap_expired or refresh_ready
  published,    \* turns whose artifact the vault has published
  errors        \* errors so far

turnVars == <<pid, pc, outcome, beating, due, sweeping, published, errors>>
vars == <<dagVars, turnVars>>

\* Program counters at which the turn is inside the mutex.
Holding == {"submitting", "claiming", "scheduled", "validating"}
\* Program counters of turns that no longer run.
Gone == {"over", "verified", "dead", "dropped"}
\* The agent loop runs, or has just ended.
Working == {"running", "stopping"}

DagFree == Idle /\ ~sweeping /\ \A t \in Tasks : pc[t] \notin Holding

Goto(t, l) == pc' = [pc EXCEPT ![t] = l]

TurnInit ==
  /\ DagInit
  /\ pid = 1
  /\ pc = [t \in Tasks |-> "new"]
  /\ outcome = [t \in Tasks |-> "none"]
  /\ beating = [t \in Tasks |-> FALSE]
  /\ due = [t \in Tasks |-> 0]
  /\ sweeping = FALSE
  /\ published = {}
  /\ errors = 0

-----------------------------------------------------------------------------
(* submit and claim_task.  Nothing awaits before the heartbeat is spawned.  *)

SubmitCreate(t) ==
  /\ pc[t] = "new"
  /\ DagFree
  /\ CreateTask(t, {})
  /\ Goto(t, "submitting")
  /\ UNCHANGED <<pid, outcome, beating, due, sweeping, published, errors>>

\* refresh_ready of the method that holds the mutex, whoever that is.
Refresh ==
  /\ sweeping \/ \E t \in Tasks : pc[t] \in {"submitting", "claiming"}
  /\ RefreshReady
  /\ UNCHANGED turnVars

RefreshOne(t) ==
  /\ Promote(t)
  /\ UNCHANGED turnVars

SubmitLeave(t) ==
  /\ pc[t] = "submitting"
  /\ Idle /\ Promotable = {}
  /\ Goto(t, "submitted")
  /\ UNCHANGED <<dagVars, pid, outcome, beating, due, sweeping, published, errors>>

ClaimEnter(t) ==
  /\ pc[t] = "submitted"
  /\ DagFree
  /\ Goto(t, "claiming")
  /\ UNCHANGED <<dagVars, pid, outcome, beating, due, sweeping, published, errors>>

ClaimSchedule(t) ==
  /\ pc[t] = "claiming"
  /\ Promotable = {}
  /\ Schedule(t, pid)
  /\ Goto(t, "scheduled")
  /\ UNCHANGED <<pid, outcome, beating, due, sweeping, published, errors>>

\* Mutant: the time the claim takes is added to the lease.
ClaimStartLonger(t) ==
  /\ pc[t] = "scheduled"
  /\ \E delay \in ClaimDelays : Exclusive /\ TaskStarted(t, pid, Ttl + delay)
  /\ Goto(t, "started")
  /\ UNCHANGED <<pid, outcome, beating, due, sweeping, published, errors>>

\* The lease counts from the clock the caller read before it took the mutex.
ClaimStart(t) ==
  /\ pc[t] = "scheduled"
  /\ \E delay \in ClaimDelays : Exclusive /\ TaskStarted(t, pid, Ttl - delay)
  /\ Goto(t, "started")
  /\ UNCHANGED <<pid, outcome, beating, due, sweeping, published, errors>>

\* The first tick of a tokio interval is immediate.
SpawnHeartbeat(t) ==
  /\ pc[t] = "started"
  /\ Goto(t, "running")
  /\ beating' = [beating EXCEPT ![t] = TRUE]
  /\ due' = [due EXCEPT ![t] = 0]
  /\ UNCHANGED <<dagVars, pid, outcome, sweeping, published, errors>>

-----------------------------------------------------------------------------
(* heartbeat_loop.                                                          *)

TickDue(t) == beating[t] /\ due[t] = 0 /\ DagFree

\* The conditions of TaskHeartbeat: the lease must get strictly longer.
Renewable(t) == status[t] = "Running" /\ owner[t] = pid /\ Ttl > lease[t]

\* Mutant: the timer is as long as the lease.
BeatEveryTtl(t) ==
  /\ TickDue(t)
  /\ Renewable(t)
  /\ Heartbeat(t, pid, 0, 0, Ttl)
  /\ due' = [due EXCEPT ![t] = Ttl]
  /\ UNCHANGED <<pid, pc, outcome, beating, sweeping, published, errors>>

Beat(t) ==
  /\ TickDue(t)
  /\ Renewable(t)
  /\ Heartbeat(t, pid, 0, 0, Ttl)
  /\ due' = [due EXCEPT ![t] = Interval]
  /\ UNCHANGED <<pid, pc, outcome, beating, sweeping, published, errors>>

\* Any error ends the loop for good.
BeatRefused(t) ==
  /\ TickDue(t)
  /\ ~Renewable(t)
  /\ beating' = [beating EXCEPT ![t] = FALSE]
  /\ UNCHANGED <<dagVars, pid, pc, outcome, due, sweeping, published, errors>>

-----------------------------------------------------------------------------
(* The end of the turn.                                                     *)

EndOfRun(t) ==
  /\ pc[t] = "running"
  /\ \E o \in {"verified", "failed", "cancelled"} :
       outcome' = [outcome EXCEPT ![t] = o]
  /\ Goto(t, "stopping")
  /\ UNCHANGED <<dagVars, pid, beating, due, sweeping, published, errors>>

\* heartbeat_cancel.cancel(), and heartbeat_handle.await.
StopHeartbeat(t) ==
  /\ pc[t] = "stopping"
  /\ beating' = [beating EXCEPT ![t] = FALSE]
  /\ Goto(t, CASE outcome[t] = "verified"  -> "publishing"
               [] outcome[t] = "failed"    -> "failing"
               [] outcome[t] = "cancelled" -> "cancelling")
  /\ UNCHANGED <<dagVars, pid, outcome, due, sweeping, published, errors>>

\* Mutant: the artifact is published once the task is complete.
PublishLater(t) ==
  /\ pc[t] = "publishing"
  /\ Goto(t, "finalizing")
  /\ UNCHANGED <<dagVars, pid, outcome, beating, due, sweeping, published, errors>>

\* finalize_delivery: the vault first, the DAG after it.
Publish(t) ==
  /\ pc[t] = "publishing"
  /\ published' = published \cup {t}
  /\ Goto(t, "finalizing")
  /\ UNCHANGED <<dagVars, pid, outcome, beating, due, sweeping, errors>>

\* Mutant: a turn that lost its lease validates its task all the same.
FinalizeAnyway(t) ==
  /\ pc[t] = "finalizing"
  /\ DagFree
  /\ status[t] \in {"Pending", "Ready"}
  /\ Become(t, "Validating", NoWorker, 0)
  /\ Goto(t, "validating")
  /\ UNCHANGED <<deps, retries, progress, saved, batchVars>>
  /\ UNCHANGED <<pid, outcome, beating, due, sweeping, published, errors>>

\* Mutant: complete comes before begin_validation and is refused.
FinalizeSwapped(t) ==
  /\ pc[t] = "finalizing"
  /\ DagFree
  /\ status[t] = "Running"
  /\ Goto(t, "failing")
  /\ UNCHANGED <<dagVars, pid, outcome, beating, due, sweeping, published, errors>>

FinalizeValidate(t) ==
  /\ pc[t] = "finalizing"
  /\ DagFree
  /\ BeginValidation(t)
  /\ Goto(t, "validating")
  /\ UNCHANGED <<pid, outcome, beating, due, sweeping, published, errors>>

\* begin_validation refuses a task that is not Running any more.
FinalizeRefused(t) ==
  /\ pc[t] = "finalizing"
  /\ DagFree
  /\ status[t] # "Running"
  /\ Goto(t, "failing")
  /\ UNCHANGED <<dagVars, pid, outcome, beating, due, sweeping, published, errors>>

FinalizeComplete(t) ==
  /\ pc[t] = "validating"
  /\ Complete(t)
  /\ Goto(t, "completed")
  /\ UNCHANGED <<pid, outcome, beating, due, sweeping, published, errors>>

\* publish_event on the blackboard succeeds and the turn returns Ok.
ReturnOk(t) ==
  /\ pc[t] = "completed"
  /\ Goto(t, "verified")
  /\ UNCHANGED <<dagVars, pid, outcome, beating, due, sweeping, published, errors>>

\* Mutant: the turn returns its error without failing its task.
ReturnErr(t) ==
  /\ pc[t] = "failing"
  /\ DagFree
  /\ Goto(t, "over")
  /\ UNCHANGED <<dagVars, pid, outcome, beating, due, sweeping, published, errors>>

\* fail_task; its callers ignore an error or return it.
FailTask(t) ==
  /\ pc[t] = "failing"
  /\ DagFree
  /\ IF status[t] \in Active THEN Fail(t) ELSE UNCHANGED dagVars
  /\ Goto(t, "over")
  /\ UNCHANGED <<pid, outcome, beating, due, sweeping, published, errors>>

CancelTask(t) ==
  /\ pc[t] = "cancelling"
  /\ DagFree
  /\ IF status[t] \notin Terminal THEN Cancel(t) ELSE UNCHANGED dagVars
  /\ Goto(t, "over")
  /\ UNCHANGED <<pid, outcome, beating, due, sweeping, published, errors>>

\* The future of run_durable_turn is dropped at an await: the heartbeat is a
\* task of its own, and dropping its token does not cancel it.
Drop(t) ==
  /\ MayDrop
  /\ pc[t] \in Working
  /\ Goto(t, "dropped")
  /\ beating' = [beating EXCEPT ![t] = @ /\ pc[t] = "running"]
  /\ UNCHANGED <<dagVars, pid, outcome, due, sweeping, published, errors>>

-----------------------------------------------------------------------------
(* The watchdog: reap_expired, then refresh_ready, under one lock.          *)

\* Mutant: only leases of the running process are reclaimed.
WatchReapOwn ==
  /\ DagFree
  /\ ReapExpired(0)
  /\ \A t \in Expired(0) : owner[t] = pid
  /\ sweeping' = TRUE
  /\ UNCHANGED <<pid, pc, outcome, beating, due, published, errors>>

WatchReap ==
  /\ DagFree
  /\ ReapExpired(0)
  /\ sweeping' = TRUE
  /\ UNCHANGED <<pid, pc, outcome, beating, due, published, errors>>

WatchOne(t) ==
  /\ sweeping
  /\ ReapFail(t) \/ ReapReschedule(t)
  /\ UNCHANGED turnVars

WatchLeave ==
  /\ sweeping
  /\ Idle /\ Promotable = {}
  /\ sweeping' = FALSE
  /\ UNCHANGED <<dagVars, pid, pc, outcome, beating, due, published, errors>>

-----------------------------------------------------------------------------
(* What the environment does.                                               *)

\* Where an error takes a turn: the ? of submit and claim_task leaves the turn
\* at once, finalize_delivery's goes through fail_task, whose own is the last.
AfterError(l) ==
  IF l \in {"publishing", "finalizing", "validating", "completed"}
    THEN "failing" ELSE "over"

\* The commit or publication a turn is about to make returns an error: what
\* is left of its method is not done.
TurnError(t) ==
  /\ errors < MaxErrors
  /\ pc[t] \notin Gone \cup Working
  /\ pc[t] \in Holding \cup {"submitted", "started", "publishing", "completed"}
       \/ DagFree
  /\ Goto(t, AfterError(pc[t]))
  /\ errors' = errors + 1
  /\ IF pc[t] \in Holding /\ ~Idle THEN Abandon ELSE UNCHANGED dagVars
  /\ UNCHANGED <<pid, outcome, beating, due, sweeping, published>>

BeatError(t) ==
  /\ errors < MaxErrors
  /\ TickDue(t)
  /\ beating' = [beating EXCEPT ![t] = FALSE]
  /\ errors' = errors + 1
  /\ UNCHANGED <<dagVars, pid, pc, outcome, due, sweeping, published>>

WatchError ==
  /\ errors < MaxErrors
  /\ sweeping
  /\ Abandon
  /\ sweeping' = FALSE
  /\ errors' = errors + 1
  /\ UNCHANGED <<pid, pc, outcome, beating, due, published>>

\* The process dies and another one opens the workspace.  A turn not yet
\* submitted belongs to the new process.
Crash ==
  /\ pid <= MaxCrashes
  /\ pid' = pid + 1
  /\ pc' = [t \in Tasks |-> IF pc[t] \in {"new", "over", "verified"} THEN pc[t]
                                                                     ELSE "dead"]
  /\ beating' = [t \in Tasks |-> FALSE]
  /\ sweeping' = FALSE
  /\ IF Idle THEN UNCHANGED dagVars ELSE Abandon
  /\ UNCHANGED <<outcome, due, published, errors>>

\* Steps that take far less than a unit of time when the process is healthy.
Urgent ==
  \/ sweeping
  \/ \E t \in Tasks :
       \/ pc[t] \notin Gone \cup {"new", "running"}
       \/ beating[t] /\ due[t] = 0

Later(n) == IF n = 0 THEN 0 ELSE n - 1

Tick ==
  /\ Timely => ~Urgent
  /\ \E t \in Tasks : lease[t] > 0
  /\ lease' = [t \in Tasks |-> Later(lease[t])]
  /\ due' = [t \in Tasks |-> Later(due[t])]
  /\ UNCHANGED <<deps, status, owner, retries, progress, saved, batchVars>>
  /\ UNCHANGED <<pid, pc, outcome, beating, sweeping, published, errors>>

TurnStep(t) ==
  \/ SubmitCreate(t) \/ SubmitLeave(t)
  \/ ClaimEnter(t) \/ ClaimSchedule(t) \/ ClaimStart(t) \/ SpawnHeartbeat(t)
  \/ EndOfRun(t) \/ StopHeartbeat(t)
  \/ Publish(t) \/ FinalizeValidate(t) \/ FinalizeRefused(t)
  \/ FinalizeComplete(t) \/ ReturnOk(t) \/ FailTask(t) \/ CancelTask(t)

HeartbeatStep(t) == Beat(t) \/ BeatRefused(t)

Watch == WatchReap \/ (\E t \in Tasks : WatchOne(t)) \/ WatchLeave

RefreshStep == Refresh \/ \E t \in Tasks : RefreshOne(t)

TurnNext ==
  \/ \E t \in Tasks :
       TurnStep(t) \/ HeartbeatStep(t) \/ Drop(t) \/ TurnError(t) \/ BeatError(t)
  \/ RefreshStep
  \/ Watch
  \/ WatchError
  \/ Crash
  \/ Tick

\* The runtime polls every task that is ready to run, the agent loop of a turn
\* ends, the watchdog's interval ticks, and time goes on.
TurnFairness ==
  /\ \A t \in Tasks : WF_vars(TurnStep(t)) /\ WF_vars(HeartbeatStep(t))
  /\ WF_vars(RefreshStep)
  /\ WF_vars(Watch)
  /\ WF_vars(Tick)

TurnSpec == TurnInit /\ [][TurnNext]_vars /\ TurnFairness

-----------------------------------------------------------------------------
TurnTypeOK ==
  /\ DagTypeOK
  /\ pid \in Workers
  /\ pc \in [Tasks -> Holding \cup Gone \cup Working
                \cup {"new", "submitted", "started", "publishing", "finalizing",
                      "completed", "failing", "cancelling"}]
  /\ outcome \in [Tasks -> {"none", "verified", "failed", "cancelled"}]
  /\ beating \in [Tasks -> BOOLEAN]
  /\ due \in [Tasks -> 0..Ttl]
  /\ sweeping \in BOOLEAN
  /\ published \subseteq Tasks
  /\ errors \in 0..MaxErrors

\* The watchdog is for zombies: as long as heartbeats are not late, the task of
\* a turn that is at work stays Running, under this process, with time left.
LiveTurnHoldsLease ==
  \A t \in Tasks :
    pc[t] \in Working =>
      status[t] = "Running" /\ owner[t] = pid /\ (beating[t] => lease[t] > 0)

\* finalize_delivery publishes first: no crash, error or reclamation leaves a
\* task that succeeded without the artifact its result names.
SucceededIsPublished == \A t \in Tasks : status[t] = "Succeeded" => t \in published

\* A turn that lost its lease cannot complete its task any more, although its
\* process is the same, its worker id too, and it publishes its artifact
\* before it asks the DAG.
LostLeaseNeverCompletes ==
  \A t \in Tasks : retries[t] > 0 => status[t] \notin {"Validating", "Succeeded"}

\* When nothing fails, every submitted turn ends with its task settled, and it
\* stays so: Failed is not for ever when the watchdog is the one to set it.
Settled == Terminal \cup {"Failed"}
SubmittedSettles ==
  \A t \in Tasks : pc[t] = "submitting" ~> [](status[t] \in Settled)

\* When nothing fails, a published artifact becomes the result of its task.
PublishedSucceeds == \A t \in Tasks : t \in published ~> status[t] = "Succeeded"

\* Invariant 20 of INVARIANTS.md, leases are reclaimable: a Running task whose
\* heartbeat is gone, whatever became of its turn, does not stay Running.
ZombieReclaimed ==
  \A t \in Tasks : status[t] = "Running" /\ ~beating[t]
                     ~> status[t] # "Running" \/ beating[t]

\* The task of a process that died does not stay held.
DeadTurnReleased == \A t \in Tasks : pc[t] = "dead" ~> status[t] \notin Active

\* The safety of durable turns: what succeeded is published, and only by the turn
\* that holds the lease.
TurnSafety == TurnTypeOK /\ SucceededIsPublished /\ LostLeaseNeverCompletes
=============================================================================
