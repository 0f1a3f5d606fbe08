-------------------------- MODULE TurnLease_proofs --------------------------
(***************************************************************************)
(* Proofs about TurnLease for every number of turns, every lifetime of the *)
(* lease, late heartbeats, dropped turns, errors and crashes.              *)
(*                                                                         *)
(* The second part is about WindowView, for every set of chats in any      *)
(* projects and any number of events and of moves of the user.             *)
(*                                                                         *)
(* The third part is about SessionLog, for every set of files in any       *)
(* projects, of turns and of handles, and for crashes that cut any file    *)
(* anywhere, any number of times.                                          *)
(***************************************************************************)
EXTENDS TurnLease, WindowView, SessionLog, NaturalsInduction, WellFoundedInduction,
        SequenceTheorems, TLAPS

USE DagAssumption, TurnAssumption

\* finalize_delivery gets to the DAG only with the artifact in the vault.
PublishedFirst ==
  \A t \in Tasks :
    /\ pc[t] \in {"finalizing", "validating", "completed", "verified"}
         => t \in published
    /\ status[t] = "Succeeded" => t \in published

\* Program counters before TaskStarted.
Early == {"new", "submitting", "submitted", "claiming", "scheduled"}

\* A turn starts its task once.  A task that the watchdog took back is never
\* scheduled again, because nobody claims it for a second time.
StartedOnce ==
  \A t \in Tasks :
    /\ pc[t] \in Early =>
         /\ retries[t] = 0
         /\ status[t] \notin {"Running", "Validating", "Succeeded", "Failed"}
    /\ retries[t] > 0 =>
         status[t] \notin {"Scheduled", "Running", "Validating", "Succeeded"}
    /\ t \in reaping => status[t] = "Running"

\* The agent loop of a turn that stops its heartbeat has ended somehow.
OutcomeKnown == \A t \in Tasks : pc[t] = "stopping" => outcome[t] # "none"

\* The inductive invariant.
LeaseInv == TurnTypeOK /\ OutcomeKnown /\ PublishedFirst /\ StartedOnce

\* The type invariant in parts that one prover each can deal with.
FieldTypes ==
  /\ pid \in Workers
  /\ pc \in [Tasks -> Holding \cup Gone \cup Working
                \cup {"new", "submitted", "started", "publishing", "finalizing",
                      "completed", "failing", "cancelling"}]
  /\ outcome \in [Tasks -> {"none", "verified", "failed", "cancelled"}]
  /\ due \in [Tasks -> 0..Ttl]
  /\ published \subseteq Tasks
  /\ errors \in 0..MaxErrors

FieldsOK == FieldTypes /\ OutcomeKnown
TypedTurns == TurnTypeOK /\ OutcomeKnown

FlagTypes ==
  /\ beating \in [Tasks -> BOOLEAN]
  /\ sweeping \in BOOLEAN

-----------------------------------------------------------------------------
\* The fields of the graph keep their types.
LEMMA DagTypeStep == TurnTypeOK /\ [TurnNext]_vars => DagTypeOK'
<1> SUFFICES ASSUME TurnTypeOK, [TurnNext]_vars PROVE DagTypeOK'
  OBVIOUS
<1> USE DEF OutcomeKnown, TurnTypeOK, DagTypeOK, Statuses, Active, taskVars, batchVars,
            dagVars, turnVars, Exclusive, Become, Goto
<1>1. ASSUME NEW t \in Tasks, SubmitCreate(t) PROVE DagTypeOK'
  BY <1>1 DEF SubmitCreate, CreateTask, TaskCreated
<1>2. ASSUME NEW t \in Tasks, SubmitLeave(t) PROVE DagTypeOK'
  BY <1>2 DEF SubmitLeave
<1>3. ASSUME NEW t \in Tasks, ClaimEnter(t) PROVE DagTypeOK'
  BY <1>3 DEF ClaimEnter
<1>4. ASSUME NEW t \in Tasks, ClaimSchedule(t) PROVE DagTypeOK'
  <2>1. status' \in [Tasks -> Statuses] /\ owner' \in [Tasks -> Workers \cup {NoWorker}]
    BY <1>4 DEF ClaimSchedule, Schedule, TaskScheduled
  <2>2. lease' \in [Tasks -> 0..MaxMs]
    BY <1>4 DEF ClaimSchedule, Schedule, TaskScheduled
  <2> QED BY <1>4, <2>1, <2>2 DEF ClaimSchedule, Schedule, TaskScheduled
<1>5. ASSUME NEW t \in Tasks, ClaimStart(t) PROVE DagTypeOK'
  BY <1>5 DEF ClaimStart, TaskStarted
<1>6. ASSUME NEW t \in Tasks, SpawnHeartbeat(t) PROVE DagTypeOK'
  BY <1>6 DEF SpawnHeartbeat
<1>7. ASSUME NEW t \in Tasks, EndOfRun(t) PROVE DagTypeOK'
  BY <1>7 DEF EndOfRun
<1>8. ASSUME NEW t \in Tasks, StopHeartbeat(t) PROVE DagTypeOK'
  BY <1>8 DEF StopHeartbeat
<1>9. ASSUME NEW t \in Tasks, Publish(t) PROVE DagTypeOK'
  BY <1>9 DEF Publish
<1>10. ASSUME NEW t \in Tasks, FinalizeValidate(t) PROVE DagTypeOK'
  BY <1>10 DEF FinalizeValidate, BeginValidation, TaskValidationStarted
<1>11. ASSUME NEW t \in Tasks, FinalizeRefused(t) PROVE DagTypeOK'
  BY <1>11 DEF FinalizeRefused
<1>12. ASSUME NEW t \in Tasks, FinalizeComplete(t) PROVE DagTypeOK'
  BY <1>12 DEF FinalizeComplete, Complete, TaskCompleted
<1>13. ASSUME NEW t \in Tasks, ReturnOk(t) PROVE DagTypeOK'
  BY <1>13 DEF ReturnOk
<1>14. ASSUME NEW t \in Tasks, FailTask(t) PROVE DagTypeOK'
  <2>1. CASE Fail(t)
    <3>1. status' \in [Tasks -> Statuses] /\ owner' \in [Tasks -> Workers \cup {NoWorker}]
      BY <2>1 DEF Fail, TaskFailed
    <3>2. lease' \in [Tasks -> 0..MaxMs]
      BY <2>1 DEF Fail, TaskFailed
    <3> QED BY <2>1, <3>1, <3>2 DEF Fail, TaskFailed
  <2>2. CASE UNCHANGED dagVars
    BY <2>2
  <2> QED BY <1>14, <2>1, <2>2 DEF FailTask
<1>15. ASSUME NEW t \in Tasks, CancelTask(t) PROVE DagTypeOK'
  <2>1. CASE Cancel(t)
    <3>1. status' \in [Tasks -> Statuses] /\ owner' \in [Tasks -> Workers \cup {NoWorker}]
      BY <2>1 DEF Cancel, TaskCancelled
    <3>2. lease' \in [Tasks -> 0..MaxMs]
      BY <2>1 DEF Cancel, TaskCancelled
    <3> QED BY <2>1, <3>1, <3>2 DEF Cancel, TaskCancelled
  <2>2. CASE UNCHANGED dagVars
    BY <2>2
  <2> QED BY <1>15, <2>1, <2>2 DEF CancelTask
<1>16. ASSUME NEW t \in Tasks, Beat(t) PROVE DagTypeOK'
  <2>1. SaturatingAdd(0, Ttl) \in 0..MaxMs
    BY DEF SaturatingAdd
  <2>2. PICK e \in 0..MaxMs : lease' = [lease EXCEPT ![t] = e]
    BY <1>16, <2>1 DEF Beat, Heartbeat, TaskHeartbeat
  <2>3. progress' = [progress EXCEPT ![t] = 0]
    BY <1>16 DEF Beat, Heartbeat, TaskHeartbeat
  <2>4. lease' \in [Tasks -> 0..MaxMs]
    BY <2>2
  <2>5. progress' \in [Tasks -> 0..100]
    <3>1. 0 \in 0..100 /\ progress \in [Tasks -> 0..100]
      OBVIOUS
    <3> HIDE DEF DagTypeOK
    <3> QED BY <3>1, <2>3
  <2> QED BY <1>16, <2>4, <2>5 DEF Beat, Heartbeat, TaskHeartbeat
<1>17. ASSUME NEW t \in Tasks, BeatRefused(t) PROVE DagTypeOK'
  BY <1>17 DEF BeatRefused
<1>18. ASSUME NEW t \in Tasks, Drop(t) PROVE DagTypeOK'
  BY <1>18 DEF Drop
<1>19. ASSUME NEW t \in Tasks, TurnError(t) PROVE DagTypeOK'
  BY <1>19 DEF TurnError, AfterError, Abandon
<1>20. ASSUME NEW t \in Tasks, BeatError(t) PROVE DagTypeOK'
  BY <1>20 DEF BeatError
<1>21. ASSUME NEW t \in Tasks, RefreshOne(t) PROVE DagTypeOK'
  BY <1>21 DEF RefreshOne, Promote, TaskReady
<1>22. ASSUME NEW t \in Tasks, ReapFail(t), UNCHANGED turnVars PROVE DagTypeOK'
  BY <1>22 DEF ReapFail, TaskFailed
<1>23. ASSUME NEW t \in Tasks, ReapReschedule(t), UNCHANGED turnVars PROVE DagTypeOK'
  BY <1>23 DEF ReapReschedule, TaskRescheduled
<1>24. CASE Refresh
  BY <1>24 DEF Refresh, RefreshReady, Promotable
<1>25. CASE WatchReap
  BY <1>25 DEF WatchReap, ReapExpired, Expired
<1>26. CASE WatchLeave
  BY <1>26 DEF WatchLeave
<1>27. CASE WatchError
  BY <1>27 DEF WatchError, Abandon
<1>28. CASE Crash
  BY <1>28 DEF Crash, Abandon
<1>29. CASE Tick
  BY <1>29 DEF Tick, Later
<1>30. CASE UNCHANGED vars
  BY <1>30 DEF vars
<1> QED
  BY <1>1, <1>2, <1>3, <1>4, <1>5, <1>6, <1>7, <1>8, <1>9, <1>10, <1>11,
     <1>12, <1>13, <1>14, <1>15, <1>16, <1>17, <1>18, <1>19, <1>20, <1>21,
     <1>22, <1>23, <1>24, <1>25, <1>26, <1>27, <1>28, <1>29, <1>30
     DEF TurnNext, TurnStep, HeartbeatStep, RefreshStep, Watch, WatchOne

\* So do those of the turns,
LEMMA FieldTypeStep ==
  TypedTurns /\ [TurnNext]_vars => FieldsOK'
<1> SUFFICES ASSUME TypedTurns, [TurnNext]_vars PROVE FieldsOK'
  OBVIOUS
<1> USE DEF TypedTurns, FieldsOK, OutcomeKnown, TurnTypeOK, DagTypeOK, FieldTypes,
            taskVars, batchVars,
            dagVars, turnVars, Exclusive, Become, Goto, Holding, Gone, Working
<1>1. ASSUME NEW t \in Tasks, SubmitCreate(t) PROVE FieldsOK'
  BY <1>1 DEF SubmitCreate, CreateTask, TaskCreated
<1>2. ASSUME NEW t \in Tasks, SubmitLeave(t) PROVE FieldsOK'
  BY <1>2 DEF SubmitLeave
<1>3. ASSUME NEW t \in Tasks, ClaimEnter(t) PROVE FieldsOK'
  BY <1>3 DEF ClaimEnter
<1>4. ASSUME NEW t \in Tasks, ClaimSchedule(t) PROVE FieldsOK'
  BY <1>4 DEF ClaimSchedule, Schedule, TaskScheduled
<1>5. ASSUME NEW t \in Tasks, ClaimStart(t) PROVE FieldsOK'
  BY <1>5 DEF ClaimStart, TaskStarted
<1>6. ASSUME NEW t \in Tasks, SpawnHeartbeat(t) PROVE FieldsOK'
  BY <1>6 DEF SpawnHeartbeat
<1>7. ASSUME NEW t \in Tasks, EndOfRun(t) PROVE FieldsOK'
  BY <1>7 DEF EndOfRun
<1>8. ASSUME NEW t \in Tasks, StopHeartbeat(t) PROVE FieldsOK'
  BY <1>8 DEF StopHeartbeat
<1>9. ASSUME NEW t \in Tasks, Publish(t) PROVE FieldsOK'
  BY <1>9 DEF Publish
<1>10. ASSUME NEW t \in Tasks, FinalizeValidate(t) PROVE FieldsOK'
  BY <1>10 DEF FinalizeValidate, BeginValidation, TaskValidationStarted
<1>11. ASSUME NEW t \in Tasks, FinalizeRefused(t) PROVE FieldsOK'
  BY <1>11 DEF FinalizeRefused
<1>12. ASSUME NEW t \in Tasks, FinalizeComplete(t) PROVE FieldsOK'
  BY <1>12 DEF FinalizeComplete, Complete, TaskCompleted
<1>13. ASSUME NEW t \in Tasks, ReturnOk(t) PROVE FieldsOK'
  BY <1>13 DEF ReturnOk
<1>14. ASSUME NEW t \in Tasks, FailTask(t) PROVE FieldsOK'
  <2>1. CASE Fail(t)
    BY <1>14, <2>1 DEF FailTask, Fail, TaskFailed
  <2>2. CASE UNCHANGED dagVars
    BY <1>14, <2>2 DEF FailTask
  <2> QED BY <1>14, <2>1, <2>2 DEF FailTask
<1>15. ASSUME NEW t \in Tasks, CancelTask(t) PROVE FieldsOK'
  BY <1>15 DEF CancelTask, Cancel, TaskCancelled
<1>16. ASSUME NEW t \in Tasks, Beat(t) PROVE FieldsOK'
  BY <1>16 DEF Beat, Renewable, Heartbeat, TaskHeartbeat
<1>17. ASSUME NEW t \in Tasks, BeatRefused(t) PROVE FieldsOK'
  BY <1>17 DEF BeatRefused
<1>18. ASSUME NEW t \in Tasks, Drop(t) PROVE FieldsOK'
  BY <1>18 DEF Drop
<1>19. ASSUME NEW t \in Tasks, TurnError(t) PROVE FieldsOK'
  BY <1>19 DEF TurnError, AfterError, Abandon
<1>20. ASSUME NEW t \in Tasks, BeatError(t) PROVE FieldsOK'
  BY <1>20 DEF BeatError
<1>21. ASSUME NEW t \in Tasks, RefreshOne(t) PROVE FieldsOK'
  BY <1>21 DEF RefreshOne, Promote, TaskReady
<1>22. ASSUME NEW t \in Tasks, ReapFail(t), UNCHANGED turnVars PROVE FieldsOK'
  BY <1>22 DEF ReapFail, TaskFailed
<1>23. ASSUME NEW t \in Tasks, ReapReschedule(t), UNCHANGED turnVars PROVE FieldsOK'
  BY <1>23 DEF ReapReschedule, TaskRescheduled
<1>24. CASE Refresh
  BY <1>24 DEF Refresh, RefreshReady, Promotable
<1>25. CASE WatchReap
  BY <1>25 DEF WatchReap, ReapExpired, Expired
<1>26. CASE WatchLeave
  BY <1>26 DEF WatchLeave
<1>27. CASE WatchError
  BY <1>27 DEF WatchError, Abandon
<1>28. CASE Crash
  BY <1>28 DEF Crash, Abandon
<1>29. CASE Tick
  BY <1>29 DEF Tick, Later
<1>30. CASE UNCHANGED vars
  BY <1>30 DEF vars
<1> QED
  BY <1>1, <1>2, <1>3, <1>4, <1>5, <1>6, <1>7, <1>8, <1>9, <1>10, <1>11,
     <1>12, <1>13, <1>14, <1>15, <1>16, <1>17, <1>18, <1>19, <1>20, <1>21,
     <1>22, <1>23, <1>24, <1>25, <1>26, <1>27, <1>28, <1>29, <1>30
     DEF TurnNext, TurnStep, HeartbeatStep, RefreshStep, Watch, WatchOne

\* and the two flags.
LEMMA FlagTypeStep == TurnTypeOK /\ [TurnNext]_vars => FlagTypes'
<1> SUFFICES ASSUME TurnTypeOK, [TurnNext]_vars PROVE FlagTypes'
  OBVIOUS
<1> USE DEF OutcomeKnown, TurnTypeOK, DagTypeOK, FlagTypes, taskVars, batchVars,
            dagVars, turnVars, Exclusive, Become, Goto
<1>1. ASSUME NEW t \in Tasks, SubmitCreate(t) PROVE FlagTypes'
  BY <1>1 DEF SubmitCreate, CreateTask, TaskCreated
<1>2. ASSUME NEW t \in Tasks, SubmitLeave(t) PROVE FlagTypes'
  BY <1>2 DEF SubmitLeave
<1>3. ASSUME NEW t \in Tasks, ClaimEnter(t) PROVE FlagTypes'
  BY <1>3 DEF ClaimEnter
<1>4. ASSUME NEW t \in Tasks, ClaimSchedule(t) PROVE FlagTypes'
  BY <1>4 DEF ClaimSchedule, Schedule, TaskScheduled
<1>5. ASSUME NEW t \in Tasks, ClaimStart(t) PROVE FlagTypes'
  BY <1>5 DEF ClaimStart, TaskStarted
<1>6. ASSUME NEW t \in Tasks, SpawnHeartbeat(t) PROVE FlagTypes'
  BY <1>6 DEF SpawnHeartbeat
<1>7. ASSUME NEW t \in Tasks, EndOfRun(t) PROVE FlagTypes'
  BY <1>7 DEF EndOfRun
<1>8. ASSUME NEW t \in Tasks, StopHeartbeat(t) PROVE FlagTypes'
  BY <1>8 DEF StopHeartbeat
<1>9. ASSUME NEW t \in Tasks, Publish(t) PROVE FlagTypes'
  BY <1>9 DEF Publish
<1>10. ASSUME NEW t \in Tasks, FinalizeValidate(t) PROVE FlagTypes'
  BY <1>10 DEF FinalizeValidate, BeginValidation, TaskValidationStarted
<1>11. ASSUME NEW t \in Tasks, FinalizeRefused(t) PROVE FlagTypes'
  BY <1>11 DEF FinalizeRefused
<1>12. ASSUME NEW t \in Tasks, FinalizeComplete(t) PROVE FlagTypes'
  BY <1>12 DEF FinalizeComplete, Complete, TaskCompleted
<1>13. ASSUME NEW t \in Tasks, ReturnOk(t) PROVE FlagTypes'
  BY <1>13 DEF ReturnOk
<1>14. ASSUME NEW t \in Tasks, FailTask(t) PROVE FlagTypes'
  BY <1>14 DEF FailTask, Fail, TaskFailed
<1>15. ASSUME NEW t \in Tasks, CancelTask(t) PROVE FlagTypes'
  BY <1>15 DEF CancelTask, Cancel, TaskCancelled
<1>16. ASSUME NEW t \in Tasks, Beat(t) PROVE FlagTypes'
  BY <1>16 DEF Beat, Renewable, Heartbeat, TaskHeartbeat
<1>17. ASSUME NEW t \in Tasks, BeatRefused(t) PROVE FlagTypes'
  BY <1>17 DEF BeatRefused
<1>18. ASSUME NEW t \in Tasks, Drop(t) PROVE FlagTypes'
  BY <1>18 DEF Drop
<1>19. ASSUME NEW t \in Tasks, TurnError(t) PROVE FlagTypes'
  BY <1>19 DEF TurnError, AfterError, Abandon
<1>20. ASSUME NEW t \in Tasks, BeatError(t) PROVE FlagTypes'
  BY <1>20 DEF BeatError
<1>21. ASSUME NEW t \in Tasks, RefreshOne(t) PROVE FlagTypes'
  BY <1>21 DEF RefreshOne, Promote, TaskReady
<1>22. ASSUME NEW t \in Tasks, ReapFail(t), UNCHANGED turnVars PROVE FlagTypes'
  BY <1>22 DEF ReapFail, TaskFailed
<1>23. ASSUME NEW t \in Tasks, ReapReschedule(t), UNCHANGED turnVars PROVE FlagTypes'
  BY <1>23 DEF ReapReschedule, TaskRescheduled
<1>24. CASE Refresh
  BY <1>24 DEF Refresh, RefreshReady, Promotable
<1>25. CASE WatchReap
  BY <1>25 DEF WatchReap, ReapExpired, Expired
<1>26. CASE WatchLeave
  BY <1>26 DEF WatchLeave
<1>27. CASE WatchError
  BY <1>27 DEF WatchError, Abandon
<1>28. CASE Crash
  BY <1>28 DEF Crash, Abandon
<1>29. CASE Tick
  BY <1>29 DEF Tick, Later
<1>30. CASE UNCHANGED vars
  BY <1>30 DEF vars
<1> QED
  BY <1>1, <1>2, <1>3, <1>4, <1>5, <1>6, <1>7, <1>8, <1>9, <1>10, <1>11,
     <1>12, <1>13, <1>14, <1>15, <1>16, <1>17, <1>18, <1>19, <1>20, <1>21,
     <1>22, <1>23, <1>24, <1>25, <1>26, <1>27, <1>28, <1>29, <1>30
     DEF TurnNext, TurnStep, HeartbeatStep, RefreshStep, Watch, WatchOne

\* Only FinalizeComplete makes a task succeed, and it comes after Publish.
LEMMA PublishedStep == LeaseInv /\ [TurnNext]_vars => PublishedFirst'
<1> SUFFICES ASSUME LeaseInv, [TurnNext]_vars PROVE PublishedFirst'
  OBVIOUS
<1> USE DEF LeaseInv, OutcomeKnown, TurnTypeOK, DagTypeOK, PublishedFirst, StartedOnce,
            Early, Active, Statuses, taskVars, batchVars, dagVars, turnVars, Exclusive, Idle, Become, Goto,
            Holding, Gone, Working
<1>1. ASSUME NEW t \in Tasks, SubmitCreate(t) PROVE PublishedFirst'
  BY <1>1 DEF SubmitCreate, CreateTask, TaskCreated
<1>2. ASSUME NEW t \in Tasks, SubmitLeave(t) PROVE PublishedFirst'
  BY <1>2 DEF SubmitLeave
<1>3. ASSUME NEW t \in Tasks, ClaimEnter(t) PROVE PublishedFirst'
  BY <1>3 DEF ClaimEnter
<1>4. ASSUME NEW t \in Tasks, ClaimSchedule(t) PROVE PublishedFirst'
  BY <1>4 DEF ClaimSchedule, Schedule, TaskScheduled
<1>5. ASSUME NEW t \in Tasks, ClaimStart(t) PROVE PublishedFirst'
  BY <1>5 DEF ClaimStart, TaskStarted
<1>6. ASSUME NEW t \in Tasks, SpawnHeartbeat(t) PROVE PublishedFirst'
  BY <1>6 DEF SpawnHeartbeat
<1>7. ASSUME NEW t \in Tasks, EndOfRun(t) PROVE PublishedFirst'
  BY <1>7 DEF EndOfRun
<1>8. ASSUME NEW t \in Tasks, StopHeartbeat(t) PROVE PublishedFirst'
  BY <1>8 DEF StopHeartbeat
<1>9. ASSUME NEW t \in Tasks, Publish(t) PROVE PublishedFirst'
  BY <1>9 DEF Publish
<1>10. ASSUME NEW t \in Tasks, FinalizeValidate(t) PROVE PublishedFirst'
  BY <1>10 DEF FinalizeValidate, BeginValidation, TaskValidationStarted
<1>11. ASSUME NEW t \in Tasks, FinalizeRefused(t) PROVE PublishedFirst'
  BY <1>11 DEF FinalizeRefused
<1>12. ASSUME NEW t \in Tasks, FinalizeComplete(t) PROVE PublishedFirst'
  BY <1>12 DEF FinalizeComplete, Complete, TaskCompleted
<1>13. ASSUME NEW t \in Tasks, ReturnOk(t) PROVE PublishedFirst'
  BY <1>13 DEF ReturnOk
<1>14. ASSUME NEW t \in Tasks, FailTask(t) PROVE PublishedFirst'
  <2>1. CASE Fail(t)
    BY <1>14, <2>1 DEF FailTask, Fail, TaskFailed
  <2>2. CASE UNCHANGED dagVars
    BY <1>14, <2>2 DEF FailTask
  <2> QED BY <1>14, <2>1, <2>2 DEF FailTask
<1>15. ASSUME NEW t \in Tasks, CancelTask(t) PROVE PublishedFirst'
  BY <1>15 DEF CancelTask, Cancel, TaskCancelled
<1>16. ASSUME NEW t \in Tasks, Beat(t) PROVE PublishedFirst'
  BY <1>16 DEF Beat, Renewable, Heartbeat, TaskHeartbeat
<1>17. ASSUME NEW t \in Tasks, BeatRefused(t) PROVE PublishedFirst'
  BY <1>17 DEF BeatRefused
<1>18. ASSUME NEW t \in Tasks, Drop(t) PROVE PublishedFirst'
  BY <1>18 DEF Drop
<1>19. ASSUME NEW t \in Tasks, TurnError(t) PROVE PublishedFirst'
  BY <1>19 DEF TurnError, AfterError, Abandon
<1>20. ASSUME NEW t \in Tasks, BeatError(t) PROVE PublishedFirst'
  BY <1>20 DEF BeatError
<1>21. ASSUME NEW t \in Tasks, RefreshOne(t) PROVE PublishedFirst'
  BY <1>21 DEF RefreshOne, Promote, TaskReady
<1>22. ASSUME NEW t \in Tasks, ReapFail(t), UNCHANGED turnVars PROVE PublishedFirst'
  BY <1>22 DEF ReapFail, TaskFailed
<1>23. ASSUME NEW t \in Tasks, ReapReschedule(t), UNCHANGED turnVars PROVE PublishedFirst'
  BY <1>23 DEF ReapReschedule, TaskRescheduled
<1>24. CASE Refresh
  BY <1>24 DEF Refresh, RefreshReady, Promotable
<1>25. CASE WatchReap
  BY <1>25 DEF WatchReap, ReapExpired, Expired
<1>26. CASE WatchLeave
  BY <1>26 DEF WatchLeave
<1>27. CASE WatchError
  BY <1>27 DEF WatchError, Abandon
<1>28. CASE Crash
  BY <1>28 DEF Crash, Abandon
<1>29. CASE Tick
  BY <1>29 DEF Tick, Later
<1>30. CASE UNCHANGED vars
  BY <1>30 DEF vars
<1> QED
  BY <1>1, <1>2, <1>3, <1>4, <1>5, <1>6, <1>7, <1>8, <1>9, <1>10, <1>11,
     <1>12, <1>13, <1>14, <1>15, <1>16, <1>17, <1>18, <1>19, <1>20, <1>21,
     <1>22, <1>23, <1>24, <1>25, <1>26, <1>27, <1>28, <1>29, <1>30
     DEF TurnNext, TurnStep, HeartbeatStep, RefreshStep, Watch, WatchOne

\* Only the turn itself claims its task, and the watchdog takes only Running ones.
LEMMA StartedStep == LeaseInv /\ [TurnNext]_vars => StartedOnce'
<1> SUFFICES ASSUME LeaseInv, [TurnNext]_vars PROVE StartedOnce'
  OBVIOUS
<1> USE DEF LeaseInv, OutcomeKnown, TurnTypeOK, DagTypeOK, PublishedFirst, StartedOnce,
            Early, Active, Statuses, taskVars, batchVars, dagVars, turnVars, Exclusive, Idle, Become, Goto,
            Holding, Gone, Working
<1>1. ASSUME NEW t \in Tasks, SubmitCreate(t) PROVE StartedOnce'
  BY <1>1 DEF SubmitCreate, CreateTask, TaskCreated
<1>2. ASSUME NEW t \in Tasks, SubmitLeave(t) PROVE StartedOnce'
  BY <1>2 DEF SubmitLeave
<1>3. ASSUME NEW t \in Tasks, ClaimEnter(t) PROVE StartedOnce'
  BY <1>3 DEF ClaimEnter
<1>4. ASSUME NEW t \in Tasks, ClaimSchedule(t) PROVE StartedOnce'
  BY <1>4 DEF ClaimSchedule, Schedule, TaskScheduled
<1>5. ASSUME NEW t \in Tasks, ClaimStart(t) PROVE StartedOnce'
  BY <1>5 DEF ClaimStart, TaskStarted
<1>6. ASSUME NEW t \in Tasks, SpawnHeartbeat(t) PROVE StartedOnce'
  BY <1>6 DEF SpawnHeartbeat
<1>7. ASSUME NEW t \in Tasks, EndOfRun(t) PROVE StartedOnce'
  BY <1>7 DEF EndOfRun
<1>8. ASSUME NEW t \in Tasks, StopHeartbeat(t) PROVE StartedOnce'
  BY <1>8 DEF StopHeartbeat
<1>9. ASSUME NEW t \in Tasks, Publish(t) PROVE StartedOnce'
  BY <1>9 DEF Publish
<1>10. ASSUME NEW t \in Tasks, FinalizeValidate(t) PROVE StartedOnce'
  BY <1>10 DEF FinalizeValidate, BeginValidation, TaskValidationStarted
<1>11. ASSUME NEW t \in Tasks, FinalizeRefused(t) PROVE StartedOnce'
  BY <1>11 DEF FinalizeRefused
<1>12. ASSUME NEW t \in Tasks, FinalizeComplete(t) PROVE StartedOnce'
  BY <1>12 DEF FinalizeComplete, Complete, TaskCompleted
<1>13. ASSUME NEW t \in Tasks, ReturnOk(t) PROVE StartedOnce'
  BY <1>13 DEF ReturnOk
<1>14. ASSUME NEW t \in Tasks, FailTask(t) PROVE StartedOnce'
  <2>1. CASE Fail(t)
    BY <1>14, <2>1 DEF FailTask, Fail, TaskFailed
  <2>2. CASE UNCHANGED dagVars
    BY <1>14, <2>2 DEF FailTask
  <2> QED BY <1>14, <2>1, <2>2 DEF FailTask
<1>15. ASSUME NEW t \in Tasks, CancelTask(t) PROVE StartedOnce'
  BY <1>15 DEF CancelTask, Cancel, TaskCancelled
<1>16. ASSUME NEW t \in Tasks, Beat(t) PROVE StartedOnce'
  BY <1>16 DEF Beat, Renewable, Heartbeat, TaskHeartbeat
<1>17. ASSUME NEW t \in Tasks, BeatRefused(t) PROVE StartedOnce'
  BY <1>17 DEF BeatRefused
<1>18. ASSUME NEW t \in Tasks, Drop(t) PROVE StartedOnce'
  BY <1>18 DEF Drop
<1>19. ASSUME NEW t \in Tasks, TurnError(t) PROVE StartedOnce'
  BY <1>19 DEF TurnError, AfterError, Abandon
<1>20. ASSUME NEW t \in Tasks, BeatError(t) PROVE StartedOnce'
  BY <1>20 DEF BeatError
<1>21. ASSUME NEW t \in Tasks, RefreshOne(t) PROVE StartedOnce'
  BY <1>21 DEF RefreshOne, Promote, TaskReady
<1>22. ASSUME NEW t \in Tasks, ReapFail(t), UNCHANGED turnVars PROVE StartedOnce'
  BY <1>22 DEF ReapFail, TaskFailed
<1>23. ASSUME NEW t \in Tasks, ReapReschedule(t), UNCHANGED turnVars PROVE StartedOnce'
  BY <1>23 DEF ReapReschedule, TaskRescheduled
<1>24. CASE Refresh
  BY <1>24 DEF Refresh, RefreshReady, Promotable
<1>25. CASE WatchReap
  BY <1>25 DEF WatchReap, ReapExpired, Expired
<1>26. CASE WatchLeave
  BY <1>26 DEF WatchLeave
<1>27. CASE WatchError
  BY <1>27 DEF WatchError, Abandon
<1>28. CASE Crash
  BY <1>28 DEF Crash, Abandon
<1>29. CASE Tick
  BY <1>29 DEF Tick, Later
<1>30. CASE UNCHANGED vars
  BY <1>30 DEF vars
<1> QED
  BY <1>1, <1>2, <1>3, <1>4, <1>5, <1>6, <1>7, <1>8, <1>9, <1>10, <1>11,
     <1>12, <1>13, <1>14, <1>15, <1>16, <1>17, <1>18, <1>19, <1>20, <1>21,
     <1>22, <1>23, <1>24, <1>25, <1>26, <1>27, <1>28, <1>29, <1>30
     DEF TurnNext, TurnStep, HeartbeatStep, RefreshStep, Watch, WatchOne

-----------------------------------------------------------------------------
LEMMA LeaseInitial == TurnInit => LeaseInv
<1> SUFFICES ASSUME TurnInit PROVE LeaseInv
  OBVIOUS
<1> USE DEF TurnInit, DagInit
<1>1. DagTypeOK
  BY DEF DagTypeOK, Statuses
<1>2. FieldTypes
  BY DEF FieldTypes
<1>3. FlagTypes
  BY DEF FlagTypes
<1>4. OutcomeKnown /\ PublishedFirst /\ StartedOnce
  BY DEF OutcomeKnown, PublishedFirst, StartedOnce, Early
<1> QED BY <1>1, <1>2, <1>3, <1>4 DEF LeaseInv, TurnTypeOK, FieldTypes, FlagTypes

LEMMA LeaseInvariance == TurnSpec => []LeaseInv
<1>1. TurnInit => LeaseInv
  BY LeaseInitial
<1>2. LeaseInv /\ [TurnNext]_vars => LeaseInv'
  <2> SUFFICES ASSUME LeaseInv, [TurnNext]_vars PROVE LeaseInv'
    OBVIOUS
  <2>1. TurnTypeOK /\ TypedTurns
    BY DEF LeaseInv, TypedTurns
  <2>2. DagTypeOK' /\ FieldTypes' /\ OutcomeKnown' /\ FlagTypes'
    BY <2>1, DagTypeStep, FieldTypeStep, FlagTypeStep DEF FieldsOK
  <2>3. TurnTypeOK'
    BY <2>2 DEF TurnTypeOK, FieldTypes, FlagTypes
  <2>4. PublishedFirst' /\ StartedOnce'
    BY PublishedStep, StartedStep
  <2> QED BY <2>2, <2>3, <2>4 DEF LeaseInv
<1> QED BY <1>1, <1>2, PTL DEF TurnSpec

\* Turns, heartbeats, watchdog, errors and crashes keep every field of the graph
\* and of the turns in its type; in particular lease deadlines stay within 64 bits.
THEOREM TurnTypeCorrect == TurnSpec => []TurnTypeOK
<1>1. LeaseInv => TurnTypeOK
  BY DEF LeaseInv
<1> QED BY <1>1, LeaseInvariance, PTL

\* finalize_delivery never leaves a succeeded task without its artifact, for
\* any number of turns, whatever the watchdog, errors and crashes do.
THEOREM TurnDelivers == TurnSpec => []SucceededIsPublished
<1>1. LeaseInv => SucceededIsPublished
  BY DEF LeaseInv, PublishedFirst, SucceededIsPublished
<1> QED BY <1>1, LeaseInvariance, PTL

\* Once the watchdog has taken a task back, its turn cannot complete it, however
\* late the turn learns of it and although its worker id is still the same.
THEOREM TurnLostLease == TurnSpec => []LostLeaseNeverCompletes
<1>1. LeaseInv => LostLeaseNeverCompletes
  <2> SUFFICES ASSUME LeaseInv, NEW t \in Tasks, retries[t] > 0
               PROVE  status[t] \notin {"Validating", "Succeeded"}
    BY DEF LostLeaseNeverCompletes
  <2> QED BY DEF LeaseInv, StartedOnce
<1> QED BY <1>1, LeaseInvariance, PTL

\* The three together: only the turn that holds the lease makes a task succeed,
\* and not before its artifact is published.
THEOREM TurnIsSafe == TurnSpec => []TurnSafety
<1>1. TurnTypeOK /\ SucceededIsPublished /\ LostLeaseNeverCompletes => TurnSafety
  BY DEF TurnSafety
<1> QED BY <1>1, TurnTypeCorrect, TurnDelivers, TurnLostLease, PTL

-----------------------------------------------------------------------------
\* A healthy process: no heartbeat or method that is due waits a whole unit, the
\* timer is shorter than the lease, and a claim takes some time, but not as long
\* as the lease.  After a claim that took none, the first heartbeat would not
\* extend the lease, and be refused.
Healthy ==
  /\ Timely
  /\ Interval < Ttl
  /\ ClaimDelays \subseteq 1..Ttl - 1

\* From TaskStarted to the end of the agent loop.
AtWork == {"started"} \cup Working

\* The lease ends after the timer that renews it, and when the timer is due it
\* can be renewed; so the watchdog never has the task in its list.
HoldsLease(t) ==
  /\ status[t] = "Running" /\ owner[t] = pid /\ t \notin reaping
  /\ lease[t] \in 1..Ttl
  /\ pc[t] = "started" => lease[t] < Ttl
  /\ pc[t] \in Working =>
       beating[t] /\ due[t] < lease[t] /\ (due[t] = 0 => lease[t] < Ttl)

LeaseOutlivesTimer == errors = 0 => \A t \in Tasks : pc[t] \in AtWork => HoldsLease(t)

\* No heartbeat loop before SpawnHeartbeat.
SilentBefore == \A t \in Tasks : pc[t] \in Early \cup {"started"} => ~beating[t]

LEMMA SilentStep == TurnTypeOK /\ SilentBefore /\ [TurnNext]_vars => SilentBefore'
<1> SUFFICES ASSUME TurnTypeOK, SilentBefore, [TurnNext]_vars,
                    NEW x \in Tasks, (pc[x] \in Early \cup {"started"})'
             PROVE  ~beating'[x]
  BY DEF SilentBefore
<1>0. /\ pc[x] \in Early \cup {"started"} => ~beating[x]
      /\ pc \in [Tasks -> Holding \cup Gone \cup Working
                    \cup {"new", "submitted", "started", "publishing", "finalizing",
                          "completed", "failing", "cancelling"}]
      /\ beating \in [Tasks -> BOOLEAN]
  BY DEF SilentBefore, TurnTypeOK
<1> USE <1>0 DEF Early, Working, Goto
<1>1. CASE UNCHANGED <<pc, beating>>
  BY <1>1
<1>2. ASSUME NEW t \in Tasks, NEW l, Goto(t, l), UNCHANGED beating,
             pc[t] \in Early \/ l \notin Early \cup {"started"}
      PROVE  ~beating'[x]
  BY <1>2
<1>3. ASSUME NEW t \in Tasks, beating' = [beating EXCEPT ![t] = FALSE], UNCHANGED pc
      PROVE  ~beating'[x]
  BY <1>3
<1>4. ASSUME NEW t \in Tasks, SpawnHeartbeat(t) PROVE ~beating'[x]
  BY <1>4 DEF SpawnHeartbeat
<1>5. ASSUME NEW t \in Tasks, StopHeartbeat(t) PROVE ~beating'[x]
  BY <1>5 DEF StopHeartbeat
<1>6. ASSUME NEW t \in Tasks, Drop(t) PROVE ~beating'[x]
  BY <1>6 DEF Drop
<1>7. CASE Crash
  BY <1>7 DEF Crash
<1>8. ASSUME NEW t \in Tasks, TurnStep(t) PROVE ~beating'[x]
  <2>1. CASE SubmitCreate(t) \/ SubmitLeave(t) \/ ClaimEnter(t) \/ ClaimSchedule(t)
             \/ ClaimStart(t)
    <3>1. pc[t] \in Early /\ UNCHANGED beating /\ \E l : Goto(t, l)
      BY <2>1 DEF SubmitCreate, SubmitLeave, ClaimEnter, ClaimSchedule, ClaimStart
    <3> QED BY <3>1, <1>2
  <2>2. CASE EndOfRun(t) \/ Publish(t) \/ FinalizeValidate(t) \/ FinalizeRefused(t)
             \/ FinalizeComplete(t) \/ ReturnOk(t) \/ FailTask(t) \/ CancelTask(t)
    <3>1. UNCHANGED beating /\ \E l : Goto(t, l) /\ l \notin Early \cup {"started"}
      BY <2>2 DEF EndOfRun, Publish, FinalizeValidate, FinalizeRefused, FinalizeComplete,
                  ReturnOk, FailTask, CancelTask
    <3> QED BY <3>1, <1>2
  <2> QED BY <1>8, <2>1, <2>2, <1>4, <1>5 DEF TurnStep
<1>9. ASSUME NEW t \in Tasks, TurnError(t) PROVE ~beating'[x]
  <2>1. AfterError(pc[t]) \notin Early \cup {"started"}
    BY DEF AfterError
  <2> QED BY <1>9, <2>1, <1>2 DEF TurnError
<1>10. ASSUME NEW t \in Tasks, HeartbeatStep(t) \/ BeatError(t) PROVE ~beating'[x]
  BY <1>10, <1>1, <1>3 DEF HeartbeatStep, Beat, BeatRefused, BeatError
<1>11. CASE RefreshStep \/ Watch \/ WatchError \/ Tick \/ UNCHANGED vars
  BY <1>11, <1>1 DEF RefreshStep, Refresh, RefreshOne, Watch, WatchReap, WatchOne,
                     WatchLeave, WatchError, Tick, vars, turnVars
<1> QED
  BY <1>6, <1>7, <1>8, <1>9, <1>10, <1>11 DEF TurnNext

\* Every step of a healthy process keeps the lease ahead of the timer.
LEMMA OutlivesStep ==
  ASSUME Healthy
  PROVE  LeaseInv /\ SilentBefore /\ LeaseOutlivesTimer /\ [TurnNext]_vars => LeaseOutlivesTimer'
<1> SUFFICES ASSUME LeaseInv, SilentBefore, LeaseOutlivesTimer, [TurnNext]_vars, errors' = 0,
                    NEW x \in Tasks, (pc[x] \in AtWork)'
             PROVE  HoldsLease(x)'
  BY DEF LeaseOutlivesTimer
<1> DEFINE Before == errors = 0 => (pc[x] \in AtWork => HoldsLease(x))
<1>0. Before /\ TurnTypeOK
  BY DEF LeaseOutlivesTimer, LeaseInv
<1> USE <1>0 DEF TurnTypeOK, DagTypeOK, HoldsLease, AtWork, Holding, Gone, Working, Active,
            taskVars, batchVars, dagVars, turnVars, Exclusive, Idle, Become, Goto
<1>1. ASSUME NEW t \in Tasks, SubmitCreate(t) PROVE HoldsLease(x)'
  BY <1>1 DEF SubmitCreate, CreateTask, TaskCreated
<1>2. ASSUME NEW t \in Tasks, SubmitLeave(t) PROVE HoldsLease(x)'
  BY <1>2 DEF SubmitLeave
<1>3. ASSUME NEW t \in Tasks, ClaimEnter(t) PROVE HoldsLease(x)'
  BY <1>3 DEF ClaimEnter
<1>4. ASSUME NEW t \in Tasks, ClaimSchedule(t) PROVE HoldsLease(x)'
  BY <1>4 DEF ClaimSchedule, Schedule, TaskScheduled
<1>5. ASSUME NEW t \in Tasks, ClaimStart(t) PROVE HoldsLease(x)'
  <2>1. CASE t = x
    <3>1. PICK delay \in 1..Ttl - 1 : TaskStarted(x, pid, Ttl - delay)
      BY <1>5, <2>1 DEF ClaimStart, Healthy
    <3> QED BY <1>5, <2>1, <3>1 DEF ClaimStart, TaskStarted
  <2>2. CASE t # x
    BY <1>5, <2>2 DEF ClaimStart, TaskStarted
  <2> QED BY <2>1, <2>2
<1>6. ASSUME NEW t \in Tasks, SpawnHeartbeat(t) PROVE HoldsLease(x)'
  BY <1>6 DEF SpawnHeartbeat
<1>7. ASSUME NEW t \in Tasks, EndOfRun(t) PROVE HoldsLease(x)'
  BY <1>7 DEF EndOfRun
<1>8. ASSUME NEW t \in Tasks, StopHeartbeat(t) PROVE HoldsLease(x)'
  <2>1. outcome[t] \in {"verified", "failed", "cancelled"}
    BY <1>8 DEF StopHeartbeat, LeaseInv, OutcomeKnown
  <2>2. pc'[t] \in {"publishing", "failing", "cancelling"}
    BY <1>8, <2>1 DEF StopHeartbeat
  <2> QED BY <1>8, <2>2 DEF StopHeartbeat
<1>9. ASSUME NEW t \in Tasks, Publish(t) PROVE HoldsLease(x)'
  BY <1>9 DEF Publish
<1>10. ASSUME NEW t \in Tasks, FinalizeValidate(t) PROVE HoldsLease(x)'
  BY <1>10 DEF FinalizeValidate, BeginValidation, TaskValidationStarted
<1>11. ASSUME NEW t \in Tasks, FinalizeRefused(t) PROVE HoldsLease(x)'
  BY <1>11 DEF FinalizeRefused
<1>12. ASSUME NEW t \in Tasks, FinalizeComplete(t) PROVE HoldsLease(x)'
  BY <1>12 DEF FinalizeComplete, Complete, TaskCompleted
<1>13. ASSUME NEW t \in Tasks, ReturnOk(t) PROVE HoldsLease(x)'
  BY <1>13 DEF ReturnOk
<1>14. ASSUME NEW t \in Tasks, FailTask(t) PROVE HoldsLease(x)'
  <2>1. CASE Fail(t)
    BY <1>14, <2>1 DEF FailTask, Fail, TaskFailed
  <2>2. CASE UNCHANGED dagVars
    BY <1>14, <2>2 DEF FailTask
  <2> QED BY <1>14, <2>1, <2>2 DEF FailTask
<1>15. ASSUME NEW t \in Tasks, CancelTask(t) PROVE HoldsLease(x)'
  BY <1>15 DEF CancelTask, Cancel, TaskCancelled
<1>16. ASSUME NEW t \in Tasks, Beat(t) PROVE HoldsLease(x)'
  <2>1. SaturatingAdd(0, Ttl) = Ttl
    BY DEF SaturatingAdd
  <2>2. lease' = [lease EXCEPT ![t] = Ttl] /\ due' = [due EXCEPT ![t] = Interval]
    BY <1>16, <2>1 DEF Beat, Heartbeat, TaskHeartbeat
  <2>3. UNCHANGED <<status, owner, pid, pc, beating, reaping, errors>>
    BY <1>16 DEF Beat, Heartbeat, TaskHeartbeat
  <2>4. status[t] = "Running" /\ owner[t] = pid
    BY <1>16 DEF Beat, Renewable
  <2>5. CASE t = x
    <3>1. pc[x] # "started" /\ beating[x]
      BY <1>16, <2>5 DEF Beat, TickDue, SilentBefore
    <3> QED BY <2>2, <2>3, <2>4, <2>5, <3>1 DEF Healthy
  <2>6. CASE t # x
    BY <2>2, <2>3, <2>6
  <2> QED BY <2>5, <2>6
<1>17. ASSUME NEW t \in Tasks, BeatRefused(t) PROVE HoldsLease(x)'
  BY <1>17 DEF BeatRefused, TickDue, Renewable
<1>18. ASSUME NEW t \in Tasks, Drop(t) PROVE HoldsLease(x)'
  BY <1>18 DEF Drop
<1>19. ASSUME NEW t \in Tasks, TurnError(t) PROVE HoldsLease(x)'
  BY <1>19 DEF TurnError
<1>20. ASSUME NEW t \in Tasks, BeatError(t) PROVE HoldsLease(x)'
  BY <1>20 DEF BeatError
<1>21. ASSUME NEW t \in Tasks, RefreshOne(t) PROVE HoldsLease(x)'
  BY <1>21 DEF RefreshOne, Promote, TaskReady
<1>22. ASSUME NEW t \in Tasks, ReapFail(t), UNCHANGED turnVars PROVE HoldsLease(x)'
  BY <1>22 DEF ReapFail, TaskFailed
<1>23. ASSUME NEW t \in Tasks, ReapReschedule(t), UNCHANGED turnVars PROVE HoldsLease(x)'
  BY <1>23 DEF ReapReschedule, TaskRescheduled
<1>24. CASE Refresh
  BY <1>24 DEF Refresh, RefreshReady, Promotable
<1>25. CASE WatchReap
  BY <1>25 DEF WatchReap, ReapExpired, Expired
<1>26. CASE WatchLeave
  BY <1>26 DEF WatchLeave
<1>27. CASE WatchError
  BY <1>27 DEF WatchError
<1>28. CASE Crash
  BY <1>28 DEF Crash, Abandon
<1>29. CASE Tick
  <2>1. ~Urgent
    BY <1>29 DEF Tick, Healthy
  <2>2. pc[x] = "running" /\ HoldsLease(x) /\ due[x] # 0
    BY <1>29, <2>1 DEF Tick, Urgent
  <2>3. lease'[x] = lease[x] - 1 /\ due'[x] = due[x] - 1
    BY <1>29, <2>2 DEF Tick, Later
  <2>4. UNCHANGED <<pid, pc, status, owner, beating, reaping>>
    BY <1>29 DEF Tick
  <2> QED BY <2>2, <2>3, <2>4
<1>30. CASE UNCHANGED vars
  BY <1>30 DEF vars
<1> QED
  BY <1>1, <1>2, <1>3, <1>4, <1>5, <1>6, <1>7, <1>8, <1>9, <1>10, <1>11,
     <1>12, <1>13, <1>14, <1>15, <1>16, <1>17, <1>18, <1>19, <1>20, <1>21,
     <1>22, <1>23, <1>24, <1>25, <1>26, <1>27, <1>28, <1>29, <1>30
     DEF TurnNext, TurnStep, HeartbeatStep, RefreshStep, Watch, WatchOne

\* The watchdog reclaims zombies only: in a healthy process the task of every turn
\* at work stays Running, under this process and with time left, whatever crashed
\* before, whoever is dropped, and however many turns share the graph.
THEOREM HealthyTurnsKeepTheirLease ==
  ASSUME Healthy
  PROVE  TurnSpec => [](errors = 0 => LiveTurnHoldsLease)
<1>1. TurnInit => SilentBefore /\ LeaseOutlivesTimer
  BY DEF TurnInit, SilentBefore, LeaseOutlivesTimer, AtWork, Working
<1>2. LeaseInv /\ SilentBefore /\ [TurnNext]_vars => SilentBefore'
  BY SilentStep DEF LeaseInv
<1>3. LeaseInv /\ SilentBefore /\ LeaseOutlivesTimer /\ [TurnNext]_vars => LeaseOutlivesTimer'
  BY OutlivesStep
<1>4. LeaseOutlivesTimer => (errors = 0 => LiveTurnHoldsLease)
  BY DEF LeaseOutlivesTimer, LiveTurnHoldsLease, HoldsLease, AtWork
<1> QED BY <1>1, <1>2, <1>3, <1>4, LeaseInvariance, PTL DEF TurnSpec

-----------------------------------------------------------------------------
(* The window *)

HIDE DagAssumption
HIDE TurnAssumption

-----------------------------------------------------------------------------
(* Recursion *)

\* Induction over the numbers, for a set of them.
LEMMA FromZeroOn ==
  ASSUME NEW S, 0 \in S, \A n \in Nat : n \in S => n + 1 \in S
  PROVE  \A n \in Nat : n \in S
<1> DEFINE Bad == {n \in Nat : n \notin S}
<1> SUFFICES ASSUME Bad # {} PROVE FALSE
  OBVIOUS
<1>1. PICK n \in Bad : \A m \in Bad : ~ (<<m, n>> \in OpToRel(<, Nat))
  BY NatLessThanWellFounded, WFMin
<1>2. n \in Nat /\ n \notin S /\ n # 0
  OBVIOUS
<1>3. n - 1 \in Nat /\ n - 1 < n
  BY <1>2
<1>4. n - 1 \notin Bad
  BY <1>1, <1>2, <1>3 DEF OpToRel
<1>5. n - 1 \in S
  BY <1>3, <1>4
<1>6. (n - 1) + 1 \in S
  BY <1>3, <1>5
<1> QED BY <1>2, <1>6

\* f is a recursion over the numbers to n, whose steps are functions.
Iterates(f, V, base, n, step) ==
  /\ f \in [0 .. n -> V] /\ f[0] = base
  /\ \A k \in 1 .. n : f[k] = step[k][f[k - 1]]

StepsOf(V, n) == [1 .. n -> [V -> V]]

\* A recursion that goes on from its last value has its values.
LEMMA StepsExist ==
  ASSUME NEW V, NEW base \in V, NEW n \in Nat, NEW step \in StepsOf(V, n)
  PROVE  \E f : Iterates(f, V, base, n, step)
<1>0. step \in [1 .. n -> [V -> V]]
  BY DEF StepsOf
<1> DEFINE Upto(f, m) == f[0] = base /\ \A k \in 1 .. m : f[k] = step[k][f[k - 1]]
           S == {m \in Nat : m <= n => \E f \in [0 .. m -> V] : Upto(f, m)}
<1>1. 0 \in S
  <2> DEFINE f == [k \in 0 .. 0 |-> base]
  <2>1. f \in [0 .. 0 -> V] /\ Upto(f, 0)
    OBVIOUS
  <2> QED BY <2>1
<1>2. ASSUME NEW m \in Nat, m \in S PROVE m + 1 \in S
  <2> SUFFICES ASSUME m + 1 <= n PROVE \E f \in [0 .. m + 1 -> V] : Upto(f, m + 1)
    OBVIOUS
  <2>1. PICK g \in [0 .. m -> V] : Upto(g, m)
    BY <1>2
  <2> DEFINE f == [k \in 0 .. m + 1 |-> IF k = m + 1 THEN step[m + 1][g[m]] ELSE g[k]]
  <2>2. step[m + 1][g[m]] \in V
    <3>1. g[m] \in V /\ m + 1 \in 1 .. n
      OBVIOUS
    <3> QED BY <1>0, <3>1
  <2>3. f \in [0 .. m + 1 -> V]
    BY <2>2
  <2>4. f[0] = base
    BY <2>1
  <2>5. ASSUME NEW k \in 1 .. m + 1 PROVE f[k] = step[k][f[k - 1]]
    <3>1. CASE k = m + 1
      <4>1. k - 1 = m /\ m \in 0 .. m + 1 /\ m # m + 1 /\ k \in 0 .. m + 1
        BY <3>1
      <4>2. f[k] = step[m + 1][g[m]] /\ f[k - 1] = g[m]
        BY <3>1, <4>1
      <4> QED BY <3>1, <4>2
    <3>2. CASE k # m + 1
      <4>1. k \in 1 .. m /\ k - 1 \in 0 .. m /\ k - 1 # m + 1 /\ k \in 0 .. m + 1 /\ k - 1 \in 0 .. m + 1
        BY <3>2
      <4>2. f[k] = g[k] /\ f[k - 1] = g[k - 1]
        BY <3>2, <4>1
      <4> QED BY <2>1, <4>1, <4>2
    <3> QED BY <3>1, <3>2
  <2> HIDE DEF f
  <2> QED BY <2>3, <2>4, <2>5
<1> HIDE DEF S
<1>3. n \in S
  BY <1>1, <1>2, FromZeroOn
<1> QED BY <1>3 DEF S, Iterates

Alike(f, g, n) == \A k \in 0 .. n : f[k] = g[k]
GoAlike(f, g, n) == f[0] = g[0] /\ \A k \in 1 .. n : f[k - 1] = g[k - 1] => f[k] = g[k]

\* Two recursions that begin and go on in the same way are the same.
LEMMA SameSteps ==
  ASSUME NEW n \in Nat, NEW f, NEW g, GoAlike(f, g, n)
  PROVE  Alike(f, g, n)
<1> DEFINE S == {k \in Nat : k <= n => f[k] = g[k]}
<1>1. 0 \in S
  BY DEF GoAlike
<1>2. ASSUME NEW k \in Nat, k \in S PROVE k + 1 \in S
  <2> SUFFICES ASSUME k + 1 <= n PROVE f[k + 1] = g[k + 1]
    OBVIOUS
  <2>1. k + 1 \in 1 .. n /\ (k + 1) - 1 = k /\ f[k] = g[k]
    BY <1>2
  <2> QED BY <2>1 DEF GoAlike
<1> HIDE DEF S
<1>3. \A k \in Nat : k \in S
  BY <1>1, <1>2, FromZeroOn
<1> QED BY <1>3 DEF S, Alike

-----------------------------------------------------------------------------
(* The words of a screen and of a log *)

ChatEvents == [chat : Chats, kind : Kinds, at : Nat]
Words == Seq(ChatEvents)
Bubbles == [kind : {"assistant", "notice", "user", "thinking", "tool"}, parts : Words]

PartsSteps(f, bubbles) ==
  /\ f \in [0 .. Len(bubbles) -> Words] /\ f[0] = <<>>
  /\ \A i \in 1 .. Len(bubbles) : f[i] = f[i - 1] \o bubbles[i].parts

LEMMA PartsAre ==
  ASSUME NEW bubbles \in Seq(Bubbles)
  PROVE  \E f : PartsSteps(f, bubbles) /\ PartsOf(bubbles) = f[Len(bubbles)]
<1>1. PICK n \in Nat : n = Len(bubbles)
  BY LenProperties
<1>2. \A i \in 1 .. n : bubbles[i].parts \in Words
  <2>1. \A i \in 1 .. n : bubbles[i] \in Bubbles
    BY <1>1, ElementOfSeq
  <2> QED BY <2>1 DEF Bubbles
<1>3. <<>> \in Words /\ \A v \in Words, i \in 1 .. n : v \o bubbles[i].parts \in Words
  BY <1>2 DEF Words
<1>4. PICK step \in StepsOf(Words, n) :
        \A v \in Words, i \in 1 .. n : step[i][v] = v \o bubbles[i].parts
  <2> DEFINE st == [i \in 1 .. n |-> [v \in Words |-> v \o bubbles[i].parts]]
  <2>1. st \in [1 .. n -> [Words -> Words]] /\ \A v \in Words, i \in 1 .. n : st[i][v] = v \o bubbles[i].parts
    BY <1>3
  <2> HIDE DEF st
  <2> QED BY <2>1 DEF StepsOf
<1>a. PICK g : Iterates(g, Words, <<>>, n, step)
  BY <1>3, StepsExist
<1>5. g \in [0 .. n -> Words] /\ g[0] = <<>> /\ \A k \in 1 .. n : g[k] = step[k][g[k - 1]]
  BY <1>a DEF Iterates
<1>6. ASSUME NEW k \in 1 .. n PROVE g[k] = g[k - 1] \o bubbles[k].parts
  <2>1. k - 1 \in 0 .. n
    OBVIOUS
  <2> QED BY <1>4, <1>5, <2>1
<1> DEFINE Eq(f) == f = [i \in 0 .. n |-> IF i = 0 THEN <<>> ELSE f[i - 1] \o bubbles[i].parts]
<1>7. Eq(g)
  <2>1. \A i \in 0 .. n : i # 0 => i \in 1 .. n
    OBVIOUS
  <2>2. \A i \in 0 .. n : g[i] = IF i = 0 THEN <<>> ELSE g[i - 1] \o bubbles[i].parts
    BY <1>5, <1>6, <2>1
  <2>3. g = [i \in 0 .. n |-> g[i]]
    BY <1>5
  <2> QED BY <2>2, <2>3
<1>8. PICK h : Eq(h) /\ PartsOf(bubbles) = h[n]
  BY <1>1, <1>7 DEF PartsOf
<1>10. h[0] = <<>> /\ \A i \in 1 .. n : h[i] = h[i - 1] \o bubbles[i].parts
  <2>1. 0 \in 0 .. n /\ \A i \in 1 .. n : i \in 0 .. n /\ i # 0
    OBVIOUS
  <2> QED BY <1>8, <2>1
<1> HIDE DEF Eq
<1>11. \A k \in 0 .. n : h[k] = g[k]
  <2>1. GoAlike(h, g, n)
    BY <1>5, <1>6, <1>10 DEF GoAlike
  <2> QED BY <2>1, SameSteps DEF Alike
<1>12. h \in [0 .. n -> Words]
  <2>1. h = [i \in 0 .. n |-> g[i]]
    BY <1>8, <1>11 DEF Eq
  <2> QED BY <1>5, <2>1
<1> QED BY <1>1, <1>8, <1>10, <1>12 DEF PartsSteps

\* The parts of a longer list.
LEMMA PartsMore ==
  ASSUME NEW bubbles \in Seq(Bubbles), NEW b \in Bubbles
  PROVE  PartsOf(Append(bubbles, b)) = PartsOf(bubbles) \o b.parts /\ PartsOf(bubbles) \in Words
<1> DEFINE more == Append(bubbles, b)
<1>1. more \in Seq(Bubbles) /\ Len(bubbles) \in Nat /\ Len(more) = Len(bubbles) + 1
      /\ more[Len(bubbles) + 1] = b /\ \A i \in 1 .. Len(bubbles) : more[i] = bubbles[i]
  BY AppendProperties, LenProperties
<1> HIDE DEF more
<1>2. PICK f : PartsSteps(f, bubbles) /\ PartsOf(bubbles) = f[Len(bubbles)]
  BY PartsAre
<1>3. PICK g : PartsSteps(g, more) /\ PartsOf(more) = g[Len(more)]
  BY <1>1, PartsAre
<1>4. PICK n \in Nat : n = Len(bubbles)
  BY <1>1
<1>5. GoAlike(g, f, n)
  <2>1. \A k \in 1 .. n : k \in 1 .. Len(more)
    BY <1>1, <1>4
  <2> QED BY <1>1, <1>2, <1>3, <1>4, <2>1 DEF PartsSteps, GoAlike
<1>6. g[n] = f[n]
  <2>1. Alike(g, f, n)
    BY <1>5, SameSteps
  <2>2. n \in 0 .. n
    OBVIOUS
  <2> QED BY <2>1, <2>2 DEF Alike
<1>7. g[n + 1] = g[n] \o b.parts
  <2>1. n + 1 \in 1 .. Len(more) /\ (n + 1) - 1 = n /\ more[n + 1] = b
    BY <1>1, <1>4
  <2> QED BY <1>3, <2>1 DEF PartsSteps
<1>8. f[n] \in Words
  BY <1>2, <1>4 DEF PartsSteps
<1> QED BY <1>1, <1>2, <1>3, <1>4, <1>6, <1>7, <1>8 DEF more

LEMMA PartsNone == PartsOf(<<>>) = <<>>
<1>1. <<>> \in Seq(Bubbles) /\ Len(<<>>) = 0
  OBVIOUS
<1> QED BY <1>1, PartsAre DEF PartsSteps

\* Events up to n as they are said.
SaidSteps(f, log, n) ==
  /\ f \in [0 .. n -> Words] /\ f[0] = <<>>
  /\ \A i \in 1 .. n : f[i] = IF log[i].kind \in Said THEN Append(f[i - 1], log[i]) ELSE f[i - 1]

LEMMA SaidAre ==
  ASSUME NEW log \in Words, NEW n \in 0 .. Len(log)
  PROVE  \E f : SaidSteps(f, log, n) /\ SaidIn(log, n) = f[n]
<1>1. n \in Nat /\ \A i \in 1 .. n : i \in 1 .. Len(log)
  BY LenProperties DEF Words
<1>2. \A i \in 1 .. n : log[i] \in ChatEvents
  BY <1>1, ElementOfSeq DEF Words
<1> DEFINE Next(v, i) == IF log[i].kind \in Said THEN Append(v, log[i]) ELSE v
<1>3. <<>> \in Words /\ \A v \in Words, i \in 1 .. n : Next(v, i) \in Words
  BY <1>2, AppendProperties DEF Words
<1> HIDE DEF Next
<1>4. PICK step \in StepsOf(Words, n) :
        \A v \in Words, i \in 1 .. n : step[i][v] = Next(v, i)
  <2> DEFINE st == [i \in 1 .. n |-> [v \in Words |-> Next(v, i)]]
  <2>1. st \in [1 .. n -> [Words -> Words]] /\ \A v \in Words, i \in 1 .. n : st[i][v] = Next(v, i)
    BY <1>3
  <2> HIDE DEF st
  <2> QED BY <2>1 DEF StepsOf
<1>5. PICK g : Iterates(g, Words, <<>>, n, step)
  BY <1>1, <1>3, StepsExist
<1>6. g \in [0 .. n -> Words] /\ g[0] = <<>> /\ \A k \in 1 .. n : g[k] = Next(g[k - 1], k)
  <2>1. g \in [0 .. n -> Words] /\ g[0] = <<>> /\ \A k \in 1 .. n : g[k] = step[k][g[k - 1]]
    BY <1>5 DEF Iterates
  <2>2. \A k \in 1 .. n : k - 1 \in 0 .. n
    BY <1>1
  <2> QED BY <1>4, <2>1, <2>2
<1> DEFINE Eq(f) == f = [i \in 0 .. n |-> IF i = 0 THEN <<>> ELSE Next(f[i - 1], i)]
<1>7. Eq(g)
  <2>1. \A i \in 0 .. n : i # 0 => i \in 1 .. n
    OBVIOUS
  <2>2. \A i \in 0 .. n : g[i] = IF i = 0 THEN <<>> ELSE Next(g[i - 1], i)
    BY <1>6, <2>1
  <2>3. g = [i \in 0 .. n |-> g[i]]
    BY <1>6
  <2> QED BY <2>2, <2>3
<1>8. PICK h : Eq(h) /\ SaidIn(log, n) = h[n]
  <2>1. SaidIn(log, n) = (CHOOSE f : Eq(f))[n]
    BY DEF SaidIn, Next
  <2> QED BY <1>7, <2>1
<1>9. h[0] = <<>> /\ \A i \in 1 .. n : h[i] = Next(h[i - 1], i)
  <2>1. 0 \in 0 .. n /\ \A i \in 1 .. n : i \in 0 .. n /\ i # 0
    BY <1>1
  <2> QED BY <1>8, <2>1
<1>10. Alike(h, g, n)
  <2>1. GoAlike(h, g, n)
    BY <1>6, <1>9 DEF GoAlike
  <2> QED BY <1>1, <2>1, SameSteps
<1>11. h \in [0 .. n -> Words]
  <2>1. h = [i \in 0 .. n |-> g[i]]
    BY <1>8, <1>10 DEF Alike
  <2> QED BY <1>6, <2>1
<1> QED BY <1>8, <1>9, <1>11 DEF SaidSteps, Next

LEMMA SaidMore ==
  ASSUME NEW log \in Words, NEW n \in 0 .. Len(log) - 1
  PROVE  /\ SaidIn(log, n) \in Words /\ log[n + 1] \in ChatEvents
         /\ SaidIn(log, n + 1) = IF log[n + 1].kind \in Said THEN Append(SaidIn(log, n), log[n + 1])
                                 ELSE SaidIn(log, n)
<1>1. n \in Nat /\ n \in 0 .. Len(log) /\ n + 1 \in 0 .. Len(log) /\ n + 1 \in 1 .. Len(log)
  BY LenProperties DEF Words
<1>2. PICK f : SaidSteps(f, log, n) /\ SaidIn(log, n) = f[n]
  BY <1>1, SaidAre
<1>3. PICK g : SaidSteps(g, log, n + 1) /\ SaidIn(log, n + 1) = g[n + 1]
  BY <1>1, SaidAre
<1>4. Alike(g, f, n)
  <2>1. GoAlike(g, f, n)
    BY <1>1, <1>2, <1>3 DEF SaidSteps, GoAlike
  <2> QED BY <1>1, <2>1, SameSteps
<1>5. g[n] = f[n] /\ f[n] \in Words
  BY <1>1, <1>2, <1>4 DEF Alike, SaidSteps
<1>6. g[n + 1] = IF log[n + 1].kind \in Said THEN Append(g[n], log[n + 1]) ELSE g[n]
  <2>1. n + 1 \in 1 .. n + 1 /\ (n + 1) - 1 = n
    BY <1>1
  <2> QED BY <1>3, <2>1 DEF SaidSteps
<1>7. log[n + 1] \in ChatEvents
  BY <1>1, ElementOfSeq DEF Words
<1> QED BY <1>2, <1>3, <1>5, <1>6, <1>7

LEMMA SaidNone == ASSUME NEW log \in Words PROVE SaidIn(log, 0) = <<>>
<1>1. 0 \in 0 .. Len(log)
  BY LenProperties DEF Words
<1> QED BY <1>1, SaidAre DEF SaidSteps

\* What is said does not depend on what comes after.
LEMMA SaidStays ==
  ASSUME NEW log \in Words, NEW e \in ChatEvents, NEW n \in 0 .. Len(log)
  PROVE  SaidIn(Append(log, e), n) = SaidIn(log, n)
<1> DEFINE more == Append(log, e)
<1>1. /\ more \in Words /\ Len(log) \in Nat /\ Len(more) = Len(log) + 1
      /\ \A i \in 1 .. Len(log) : more[i] = log[i]
  BY AppendProperties, LenProperties DEF Words
<1> HIDE DEF more
<1>2. n \in Nat /\ n \in 0 .. Len(more) /\ \A i \in 1 .. n : i \in 1 .. Len(log)
  BY <1>1
<1>3. PICK f : SaidSteps(f, log, n) /\ SaidIn(log, n) = f[n]
  BY SaidAre
<1>4. PICK g : SaidSteps(g, more, n) /\ SaidIn(more, n) = g[n]
  BY <1>1, <1>2, SaidAre
<1>5. Alike(g, f, n)
  <2>1. GoAlike(g, f, n)
    BY <1>1, <1>2, <1>3, <1>4 DEF SaidSteps, GoAlike
  <2> QED BY <1>2, <2>1, SameSteps
<1> QED BY <1>2, <1>3, <1>4, <1>5 DEF Alike, more

-----------------------------------------------------------------------------
(* The screen *)

Screens == [bubbles : Seq(Bubbles), thought : Words, banner : Chats \cup {NoChat}, cards : SUBSET Chats]

BubbleOK(b) == \A j \in 1 .. Len(b.parts) : (b.kind = "thinking") = (b.parts[j].kind = "think")
AllOK(bubbles) == \A i \in 1 .. Len(bubbles) : BubbleOK(bubbles[i])

LEMMA ScreenIs ==
  /\ \A v \in Screens : v.bubbles \in Seq(Bubbles) /\ v.thought \in Words
  /\ \A v \in Screens, bs \in Seq(Bubbles) :
       LET w == [v EXCEPT !.bubbles = bs]
       IN  w \in Screens /\ w.bubbles = bs /\ w.thought = v.thought
  /\ \A v \in Screens, t \in Words :
       LET w == [v EXCEPT !.thought = t]
       IN  w \in Screens /\ w.bubbles = v.bubbles /\ w.thought = t
  /\ \A v \in Screens, b \in Chats \cup {NoChat} :
       LET w == [v EXCEPT !.banner = b]
       IN  w \in Screens /\ w.bubbles = v.bubbles /\ w.thought = v.thought
  /\ \A v \in Screens, cs \in SUBSET Chats :
       LET w == [v EXCEPT !.cards = cs]
       IN  w \in Screens /\ w.bubbles = v.bubbles /\ w.thought = v.thought
BY DEF Screens

LEMMA BubbleIs ==
  /\ \A k \in {"assistant", "notice", "user", "thinking", "tool"}, ps \in Words :
       Bubble(k, ps) \in Bubbles /\ Bubble(k, ps).kind = k /\ Bubble(k, ps).parts = ps
  /\ \A b \in Bubbles : b.parts \in Words /\ b = Bubble(b.kind, b.parts)
BY DEF Bubble, Bubbles

\* One bubble more.
LEMMA PushedIs ==
  ASSUME NEW v \in Screens, NEW b \in Bubbles
  PROVE  LET w == Pushed(v, b)
         IN  /\ w \in Screens /\ w.thought = v.thought
             /\ AllOK(v.bubbles) /\ BubbleOK(b) => AllOK(w.bubbles)
             /\ w.bubbles # <<>> /\ Last(w.bubbles) = b
             /\ PartsOf(w.bubbles) = PartsOf(v.bubbles) \o b.parts
             /\ PartsOf(v.bubbles) \in Words
<1> DEFINE w == Pushed(v, b)
<1>1. v.bubbles \in Seq(Bubbles) /\ Len(v.bubbles) \in Nat
  BY ScreenIs, LenProperties
<1>2. Append(v.bubbles, b) \in Seq(Bubbles)
  BY <1>1, AppendProperties
<1>3. w \in Screens /\ w.bubbles = Append(v.bubbles, b) /\ w.thought = v.thought
  BY <1>2, ScreenIs DEF Pushed
<1> HIDE DEF w
<1>4. /\ Len(w.bubbles) = Len(v.bubbles) + 1 /\ w.bubbles # <<>>
      /\ w.bubbles[Len(v.bubbles) + 1] = b
      /\ \A i \in 1 .. Len(v.bubbles) : w.bubbles[i] = v.bubbles[i]
  BY <1>1, <1>3, AppendProperties
<1>5. ASSUME AllOK(v.bubbles), BubbleOK(b) PROVE AllOK(w.bubbles)
  <2>1. ASSUME NEW i \in 1 .. Len(w.bubbles) PROVE BubbleOK(w.bubbles[i])
    <3>1. CASE i = Len(v.bubbles) + 1
      BY <1>4, <1>5, <3>1
    <3>2. CASE i # Len(v.bubbles) + 1
      <4>1. i \in 1 .. Len(v.bubbles)
        BY <1>1, <1>4, <3>2
      <4> QED BY <1>4, <1>5, <4>1 DEF AllOK
    <3> QED BY <3>1, <3>2
  <2> QED BY <2>1 DEF AllOK
<1>6. PartsOf(w.bubbles) = PartsOf(v.bubbles) \o b.parts /\ PartsOf(v.bubbles) \in Words
  BY <1>1, <1>3, PartsMore
<1>7. Last(w.bubbles) = b
  BY <1>4 DEF Last
<1> QED BY <1>3, <1>4, <1>5, <1>6, <1>7 DEF w

\* All but the last bubble.
LEMMA FrontIs ==
  ASSUME NEW bs \in Seq(Bubbles), bs # <<>>
  PROVE  /\ Front(bs) \in Seq(Bubbles) /\ Last(bs) \in Bubbles
         /\ bs = Append(Front(bs), Last(bs))
         /\ AllOK(bs) => AllOK(Front(bs)) /\ BubbleOK(Last(bs))
<1>1. PICK s \in Seq(Bubbles), b \in Bubbles : bs = Append(s, b)
  BY SequenceEmptyOrAppend
<1>2. /\ Len(s) \in Nat /\ Len(bs) = Len(s) + 1 /\ bs[Len(s) + 1] = b
      /\ \A i \in 1 .. Len(s) : bs[i] = s[i]
  BY <1>1, AppendProperties, LenProperties
<1>3. Last(bs) = b
  BY <1>2 DEF Last
<1>4. Front(bs) = s
  <2>1. Len(bs) - 1 = Len(s)
    BY <1>2
  <2>2. \A i \in 1 .. Len(s) : bs[i] \in Bubbles
    BY <1>2, ElementOfSeq
  <2>3. /\ SubSeq(bs, 1, Len(s)) \in Seq(Bubbles)
        /\ Len(SubSeq(bs, 1, Len(s))) = Len(s)
        /\ \A i \in 1 .. Len(s) : SubSeq(bs, 1, Len(s))[i] = s[i]
    BY <1>2, <2>2
  <2>4. SubSeq(bs, 1, Len(s)) = s
    BY <2>3, SeqEqual
  <2> QED BY <2>1, <2>4 DEF Front
<1>5. ASSUME AllOK(bs) PROVE AllOK(s) /\ BubbleOK(b)
  <2>1. Len(s) + 1 \in 1 .. Len(bs) /\ \A i \in 1 .. Len(s) : i \in 1 .. Len(bs)
    BY <1>2
  <2> QED BY <1>2, <1>5, <2>1 DEF AllOK
<1> QED BY <1>1, <1>3, <1>4, <1>5

\* Another last bubble.
LEMMA WithLastIs ==
  ASSUME NEW v \in Screens, v.bubbles # <<>>, NEW b \in Bubbles
  PROVE  LET w == WithLast(v, b)
         IN  /\ w \in Screens /\ w.thought = v.thought
             /\ AllOK(v.bubbles) /\ BubbleOK(b) => AllOK(w.bubbles)
             /\ w.bubbles # <<>> /\ Last(w.bubbles) = b
             /\ \E ps \in Words : /\ PartsOf(v.bubbles) = ps \o Last(v.bubbles).parts
                                  /\ PartsOf(w.bubbles) = ps \o b.parts
<1>1. v.bubbles \in Seq(Bubbles)
  BY ScreenIs
<1>2. /\ Front(v.bubbles) \in Seq(Bubbles) /\ Last(v.bubbles) \in Bubbles
      /\ v.bubbles = Append(Front(v.bubbles), Last(v.bubbles))
      /\ AllOK(v.bubbles) => AllOK(Front(v.bubbles)) /\ BubbleOK(Last(v.bubbles))
  BY <1>1, FrontIs
<1> DEFINE u == [v EXCEPT !.bubbles = Front(v.bubbles)]
<1>3. u \in Screens /\ u.bubbles = Front(v.bubbles) /\ u.thought = v.thought
  BY <1>2, ScreenIs
<1>4. WithLast(v, b) = Pushed(u, b)
  BY DEF WithLast, Pushed, Screens
<1> HIDE DEF u
<1>5. PartsOf(v.bubbles) = PartsOf(Front(v.bubbles)) \o Last(v.bubbles).parts
  BY <1>2, PartsMore
<1>6. LET w == Pushed(u, b)
      IN  /\ w \in Screens /\ w.thought = u.thought
          /\ AllOK(u.bubbles) /\ BubbleOK(b) => AllOK(w.bubbles)
          /\ w.bubbles # <<>> /\ Last(w.bubbles) = b
          /\ PartsOf(w.bubbles) = PartsOf(u.bubbles) \o b.parts
          /\ PartsOf(u.bubbles) \in Words
  BY <1>3, PushedIs
<1> QED BY <1>2, <1>3, <1>4, <1>5, <1>6

-----------------------------------------------------------------------------
(* One event on the screen *)

\* A log is at rest before its first event and after the end of a turn.
Rest(log, n) == n = 0 \/ log[n].kind = "end"

\* The screen shows a log up to n.
ScreenOK(v, log, n, cut) ==
  /\ v \in Screens /\ AllOK(v.bubbles)
  /\ v.thought # <<>> => LastIs(v, "thinking") /\ Last(v.bubbles).parts = v.thought
  /\ Rest(log, n) => v.thought = <<>>
  /\ ~cut => /\ PartsOf(v.bubbles) = SaidIn(log, n)
             /\ v.thought = <<>> /\ LastIs(v, "thinking") => Rest(log, n)

\* What has been thought is on the screen: to close it is to forget it.
LEMMA FinalizedIs ==
  ASSUME NEW v \in Screens, v.thought # <<>> => LastIs(v, "thinking") /\ Last(v.bubbles).parts = v.thought
  PROVE  /\ Finalized(v) \in Screens /\ Finalized(v).bubbles = v.bubbles
         /\ Finalized(v).thought = <<>>
<1>0. <<>> \in Words
  BY DEF Words
<1>1. CASE v.thought = <<>>
  BY <1>1 DEF Finalized
<1>2. CASE v.thought # <<>>
  <2>1. v.bubbles \in Seq(Bubbles) /\ v.bubbles # <<>> /\ Last(v.bubbles).kind = "thinking"
    BY <1>2, ScreenIs DEF LastIs
  <2>2. Last(v.bubbles) \in Bubbles /\ v.bubbles = Append(Front(v.bubbles), Last(v.bubbles))
    BY <2>1, FrontIs
  <2>3. Last(v.bubbles) = Bubble("thinking", v.thought)
    BY <1>2, <2>1, <2>2, BubbleIs
  <2>4. WithLast(v, Bubble("thinking", v.thought)) = v
    BY <2>2, <2>3 DEF WithLast, Screens
  <2>5. Finalized(v) = [v EXCEPT !.thought = <<>>]
    BY <1>2, <2>4 DEF Finalized
  <2> QED BY <1>0, <2>5, ScreenIs
<1> QED BY <1>1, <1>2

LEMMA WordsMore ==
  ASSUME NEW ps \in Words, NEW qs \in Words, NEW e \in ChatEvents
  PROVE  /\ ps \o Append(qs, e) = Append(ps \o qs, e) /\ ps \o <<e>> = Append(ps, e)
         /\ Append(qs, e) \in Words /\ Append(qs, e) # <<>> /\ <<e>> \in Words
         /\ Len(Append(qs, e)) = Len(qs) + 1 /\ Append(qs, e)[Len(qs) + 1] = e
         /\ \A j \in 1 .. Len(qs) : Append(qs, e)[j] = qs[j]
<1>1. <<e>> \in Words /\ ps \o qs \in Words
  BY ConcatProperties DEF Words
<1>2. Append(qs, e) = qs \o <<e>> /\ Append(ps, e) = ps \o <<e>> /\ Append(ps \o qs, e) = (ps \o qs) \o <<e>>
  BY <1>1, AppendIsConcat DEF Words
<1>3. (ps \o qs) \o <<e>> = ps \o (qs \o <<e>>)
  BY <1>1, ConcatAssociative DEF Words
<1>4. /\ Append(qs, e) \in Words /\ Append(qs, e) # <<>>
      /\ Len(Append(qs, e)) = Len(qs) + 1 /\ Append(qs, e)[Len(qs) + 1] = e
      /\ \A j \in 1 .. Len(qs) : Append(qs, e)[j] = qs[j]
  BY AppendProperties DEF Words
<1> QED BY <1>1, <1>2, <1>3, <1>4

\* A bubble of which all words are of one kind may have one more of that kind.
LEMMA BubbleMore ==
  ASSUME NEW k \in {"assistant", "notice", "user", "thinking", "tool"}, NEW ps \in Words,
         NEW e \in ChatEvents, BubbleOK(Bubble(k, ps)), (k = "thinking") = (e.kind = "think")
  PROVE  BubbleOK(Bubble(k, Append(ps, e)))
<1>1. Len(ps) \in Nat
  BY LenProperties DEF Words
<1>2. ASSUME NEW j \in 1 .. Len(Append(ps, e))
      PROVE  (k = "thinking") = (Append(ps, e)[j].kind = "think")
  <2>1. CASE j = Len(ps) + 1
    BY <2>1, WordsMore
  <2>2. CASE j # Len(ps) + 1
    <3>1. j \in 1 .. Len(ps) /\ Append(ps, e)[j] = ps[j]
      BY <1>1, <2>2, WordsMore
    <3> QED BY <3>1 DEF BubbleOK, Bubble
  <2> QED BY <2>1, <2>2
<1> QED BY <1>2 DEF BubbleOK, Bubble

LEMMA BubbleFirst ==
  ASSUME NEW k \in {"assistant", "notice", "user", "thinking", "tool"}, NEW e \in ChatEvents,
         (k = "thinking") = (e.kind = "think")
  PROVE  Bubble(k, <<e>>) \in Bubbles /\ BubbleOK(Bubble(k, <<e>>))
<1>1. <<e>> \in Words /\ Len(<<e>>) = 1 /\ <<e>>[1] = e
  BY WordsMore, EmptySeq DEF Words
<1> QED BY <1>1, BubbleIs DEF BubbleOK

\* Any event leaves a screen.
LEMMA OnScreenIs ==
  ASSUME NEW v \in Screens, NEW e \in ChatEvents
  PROVE  OnScreen(v, e) \in Screens
<1>0. <<>> \in Words /\ <<e>> \in Words /\ v.thought \in Words /\ e.chat \in Chats /\ e.kind \in Kinds
  <2>1. <<>> \in Words
    BY DEF Words
  <2>2. <<e>> \in Words
    BY <2>1, WordsMore
  <2>3. v.thought \in Words /\ e.chat \in Chats /\ e.kind \in Kinds
    BY DEF ChatEvents, Screens
  <2> QED BY <2>1, <2>2, <2>3
<1>t. \A u \in Screens, t \in Words : [u EXCEPT !.thought = t] \in Screens
  BY ScreenIs
<1>1. ASSUME NEW k \in {"assistant", "notice", "user", "thinking", "tool"}, NEW ps \in Words, NEW w \in Screens
      PROVE  /\ Pushed(w, Bubble(k, ps)) \in Screens
             /\ w.bubbles # <<>> => WithLast(w, Bubble(k, ps)) \in Screens
  BY BubbleIs, PushedIs, WithLastIs
<1>2. Thinking(v, e) \in Screens
  <2>1. Append(v.thought, e) \in Words
    BY <1>0, WordsMore
  <2> DEFINE b == Bubble("thinking", Append(v.thought, e))
             w == IF LastIs(v, "thinking") THEN WithLast(v, b) ELSE Pushed(v, b)
  <2>2. w \in Screens
    BY <1>1, <2>1 DEF LastIs
  <2>3. Thinking(v, e) = [w EXCEPT !.thought = Append(v.thought, e)]
    BY DEF Thinking
  <2> HIDE DEF w
  <2> QED BY <1>t, <2>1, <2>2, <2>3
<1>3. Finalized(v) \in Screens
  <2>1. CASE v.thought = <<>>
    BY <2>1 DEF Finalized
  <2>2. CASE v.thought # <<>>
    <3> DEFINE b == Bubble("thinking", v.thought)
               w == IF LastIs(v, "thinking") THEN WithLast(v, b) ELSE Pushed(v, b)
    <3>1. w \in Screens
      BY <1>0, <1>1 DEF LastIs
    <3>2. Finalized(v) = [w EXCEPT !.thought = <<>>]
      BY <2>2 DEF Finalized
    <3> HIDE DEF w
    <3> QED BY <1>0, <1>t, <3>1, <3>2
  <2> QED BY <2>1, <2>2
<1>4. ASSUME NEW w \in Screens PROVE WithText(w, e) \in Screens
  <2>1. CASE LastIs(w, "assistant")
    <3>1. w.bubbles \in Seq(Bubbles) /\ w.bubbles # <<>>
      BY <2>1, ScreenIs DEF LastIs
    <3>2. Append(Last(w.bubbles).parts, e) \in Words
      <4>1. Last(w.bubbles) \in Bubbles
        BY <3>1, FrontIs
      <4>2. Last(w.bubbles).parts \in Words
        BY <4>1, BubbleIs
      <4> QED BY <4>2, WordsMore
    <3> QED BY <1>1, <2>1, <3>1, <3>2 DEF WithText
  <2>2. CASE ~LastIs(w, "assistant")
    BY <1>0, <1>1, <2>2 DEF WithText
  <2> QED BY <2>1, <2>2
<1>5. [Pushed(v, Bubble("user", <<e>>)) EXCEPT !.banner = NoChat] \in Screens
  BY <1>0, <1>1, ScreenIs
<1>6. [v EXCEPT !.cards = @ \cup {e.chat}] \in Screens /\ [v EXCEPT !.banner = e.chat] \in Screens
  BY <1>0 DEF Screens
<1>7. Pushed(Finalized(v), Bubble("tool", <<e>>)) \in Screens /\ WithText(Finalized(v), e) \in Screens
  BY <1>0, <1>1, <1>3, <1>4
<1> QED BY <1>0, <1>2, <1>3, <1>5, <1>6, <1>7 DEF OnScreen, Kinds

\* The screen of a log goes on with its next event.
LEMMA OnScreenOK ==
  ASSUME NEW log \in Words, NEW n \in 0 .. Len(log) - 1, NEW cut \in BOOLEAN, NEW v, ScreenOK(v, log, n, cut),
         (log[n + 1].kind = "start") = Rest(log, n)
  PROVE  ScreenOK(OnScreen(v, log[n + 1]), log, n + 1, cut)
<1> DEFINE e == log[n + 1]
<1>1. /\ SaidIn(log, n) \in Words /\ e \in ChatEvents /\ e.kind \in Kinds
      /\ SaidIn(log, n + 1) = IF e.kind \in Said THEN Append(SaidIn(log, n), e) ELSE SaidIn(log, n)
      /\ n \in Nat /\ n + 1 # 0
  <2>1. /\ SaidIn(log, n) \in Words /\ e \in ChatEvents
        /\ SaidIn(log, n + 1) = IF e.kind \in Said THEN Append(SaidIn(log, n), e) ELSE SaidIn(log, n)
    BY SaidMore
  <2>2. n \in Nat
    BY LenProperties DEF Words
  <2> QED BY <2>1, <2>2 DEF ChatEvents
<1>2. (e.kind = "start") = Rest(log, n) /\ Rest(log, n + 1) = (e.kind = "end")
  BY <1>1 DEF Rest
<1> HIDE DEF e
<1>3. v \in Screens /\ v.bubbles \in Seq(Bubbles) /\ v.thought \in Words /\ AllOK(v.bubbles)
  BY ScreenIs DEF ScreenOK
<1>4. <<e>> \in Words /\ (\A ps \in Words : ps \o <<e>> = Append(ps, e))
  <2>1. <<>> \in Words
    BY DEF Words
  <2> QED BY <1>1, <2>1, WordsMore
<1> DEFINE w == Finalized(v)
<1>5. w \in Screens /\ w.bubbles = v.bubbles /\ w.thought = <<>>
  BY <1>3, FinalizedIs DEF ScreenOK
<1> HIDE DEF w
<1>6. CASE e.kind = "start"
  <2>1. v.thought = <<>> /\ e.kind \in Said
    BY <1>2, <1>6 DEF ScreenOK, Said
  <2> DEFINE b == Bubble("user", <<e>>)
             p == Pushed(v, b)
             q == [p EXCEPT !.banner = NoChat]
  <2>2. b \in Bubbles /\ BubbleOK(b) /\ b.kind = "user" /\ b.parts = <<e>>
    BY <1>1, <1>4, <1>6, BubbleFirst, BubbleIs
  <2> HIDE DEF b
  <2>3. /\ p \in Screens /\ p.thought = <<>> /\ AllOK(p.bubbles) /\ Last(p.bubbles) = b
        /\ PartsOf(p.bubbles) = PartsOf(v.bubbles) \o <<e>> /\ PartsOf(v.bubbles) \in Words
    BY <1>3, <2>1, <2>2, PushedIs
  <2> HIDE DEF p
  <2>4. q \in Screens /\ q.bubbles = p.bubbles /\ q.thought = <<>>
    BY <2>3, ScreenIs
  <2>5. OnScreen(v, e) = q
    BY <1>6 DEF OnScreen, p, b
  <2> HIDE DEF q
  <2>6. ~LastIs(q, "thinking")
    BY <2>2, <2>3, <2>4 DEF LastIs
  <2>7. ~cut => PartsOf(q.bubbles) = SaidIn(log, n + 1)
    BY <1>1, <1>4, <2>1, <2>3, <2>4 DEF ScreenOK
  <2> QED BY <2>3, <2>4, <2>5, <2>6, <2>7 DEF ScreenOK, e
<1>7. CASE e.kind = "think"
  <2>1. e.kind \in Said /\ ~Rest(log, n) /\ ~Rest(log, n + 1)
    BY <1>2, <1>7 DEF Said
  <2> DEFINE t == Append(v.thought, e)
             b == Bubble("thinking", t)
  <2>2. t \in Words /\ t # <<>>
    BY <1>1, <1>3, AppendProperties DEF Words
  <2>3. BubbleOK(Bubble("thinking", v.thought))
    <3>1. CASE v.thought = <<>>
      <4>1. Len(v.thought) = 0
        BY <3>1, EmptySeq
      <4> QED BY <1>3, <4>1, BubbleIs DEF BubbleOK
    <3>2. CASE v.thought # <<>>
      <4>1. v.bubbles # <<>> /\ Last(v.bubbles).kind = "thinking" /\ Last(v.bubbles).parts = v.thought
        BY <3>2 DEF ScreenOK, LastIs
      <4>2. Last(v.bubbles) \in Bubbles /\ BubbleOK(Last(v.bubbles))
        BY <1>3, <4>1, FrontIs
      <4>3. Last(v.bubbles) = Bubble("thinking", v.thought)
        BY <4>1, <4>2, BubbleIs
      <4> QED BY <4>2, <4>3
    <3> QED BY <3>1, <3>2
  <2>4. b \in Bubbles /\ BubbleOK(b) /\ b.kind = "thinking" /\ b.parts = t
    BY <1>1, <1>3, <1>7, <2>2, <2>3, BubbleMore, BubbleIs
  <2> HIDE DEF b
  <2> DEFINE p == IF LastIs(v, "thinking") THEN WithLast(v, b) ELSE Pushed(v, b)
             q == [p EXCEPT !.thought = t]
  <2>5. /\ p \in Screens /\ AllOK(p.bubbles) /\ p.bubbles # <<>> /\ Last(p.bubbles) = b
        /\ ~cut => PartsOf(p.bubbles) = Append(SaidIn(log, n), e)
    <3>1. CASE LastIs(v, "thinking")
      <4>1. v.bubbles # <<>>
        BY <3>1 DEF LastIs
      <4>2. PICK ps \in Words : PartsOf(v.bubbles) = ps \o Last(v.bubbles).parts /\ PartsOf(p.bubbles) = ps \o b.parts
        BY <1>3, <2>4, <3>1, <4>1, WithLastIs
      <4>3. ASSUME ~cut PROVE PartsOf(p.bubbles) = Append(SaidIn(log, n), e)
        <5>1. Last(v.bubbles).parts = v.thought
          BY <2>1, <3>1, <4>3 DEF ScreenOK
        <5>2. ps \o t = Append(ps \o v.thought, e)
          <6>1. v.thought \in Words /\ t = Append(v.thought, e)
            BY <1>3, ScreenIs
          <6>2. ps \o Append(v.thought, e) = Append(ps \o v.thought, e)
            BY <1>1, <6>1, WordsMore
          <6> QED BY <6>1, <6>2
        <5> QED BY <2>4, <4>2, <4>3, <5>1, <5>2 DEF ScreenOK
      <4>4. p \in Screens /\ AllOK(p.bubbles) /\ p.bubbles # <<>> /\ Last(p.bubbles) = b
        BY <1>3, <2>4, <3>1, <4>1, WithLastIs
      <4> QED BY <4>3, <4>4
    <3>2. CASE ~LastIs(v, "thinking")
      <4>1. v.thought = <<>>
        BY <3>2 DEF ScreenOK
      <4>2. t = <<e>>
        BY <4>1
      <4>3. /\ p \in Screens /\ AllOK(p.bubbles) /\ p.bubbles # <<>> /\ Last(p.bubbles) = b
            /\ PartsOf(p.bubbles) = PartsOf(v.bubbles) \o b.parts /\ PartsOf(v.bubbles) \in Words
        BY <1>3, <2>4, <3>2, PushedIs
      <4> QED BY <1>4, <2>4, <4>2, <4>3 DEF ScreenOK
    <3> QED BY <3>1, <3>2
  <2>6. OnScreen(v, e) = q
    BY <1>7 DEF OnScreen, Thinking, b
  <2> HIDE DEF p, t
  <2>7. q \in Screens /\ q.bubbles = p.bubbles /\ q.thought = t
    BY <2>2, <2>5, ScreenIs
  <2> HIDE DEF q
  <2>8. LastIs(q, "thinking") /\ Last(q.bubbles).parts = q.thought
    BY <2>4, <2>5, <2>7 DEF LastIs
  <2> QED BY <1>1, <2>1, <2>2, <2>5, <2>6, <2>7, <2>8 DEF ScreenOK, e
<1>8. CASE e.kind = "text"
  <2>1. e.kind \in Said /\ ~Rest(log, n) /\ ~Rest(log, n + 1)
    BY <1>2, <1>8 DEF Said
  <2> DEFINE q == WithText(w, e)
  <2>2. /\ q \in Screens /\ AllOK(q.bubbles) /\ q.bubbles # <<>> /\ q.thought = <<>>
        /\ Last(q.bubbles).kind = "assistant"
        /\ ~cut => PartsOf(q.bubbles) = Append(SaidIn(log, n), e)
    <3>1. CASE LastIs(w, "assistant")
      <4>1. w.bubbles # <<>> /\ Last(w.bubbles).kind = "assistant"
        BY <3>1 DEF LastIs
      <4>2. Last(w.bubbles) \in Bubbles /\ BubbleOK(Last(w.bubbles))
        BY <1>3, <1>5, <4>1, FrontIs
      <4> DEFINE ps == Last(w.bubbles).parts
                 b == Bubble("assistant", Append(ps, e))
      <4>3. ps \in Words /\ Last(w.bubbles) = Bubble("assistant", ps)
        BY <4>1, <4>2, BubbleIs
      <4>4. Append(ps, e) \in Words
        BY <1>1, <4>3, AppendProperties DEF Words
      <4>5. b \in Bubbles /\ BubbleOK(b) /\ b.kind = "assistant" /\ b.parts = Append(ps, e)
        <5>1. BubbleOK(Bubble("assistant", ps))
          BY <4>2, <4>3
        <5>2. BubbleOK(b)
          BY <1>1, <1>8, <4>3, <5>1, BubbleMore
        <5> QED BY <4>4, <5>2, BubbleIs
      <4>6. q = WithLast(w, b)
        BY <3>1 DEF WithText
      <4> HIDE DEF b, q
      <4>7. PICK rs \in Words : PartsOf(w.bubbles) = rs \o ps /\ PartsOf(q.bubbles) = rs \o Append(ps, e)
        BY <1>5, <4>1, <4>5, <4>6, WithLastIs
      <4> HIDE DEF ps
      <4>8. rs \o Append(ps, e) = Append(rs \o ps, e)
        BY <1>1, <4>3, WordsMore
      <4>9. q \in Screens /\ AllOK(q.bubbles) /\ q.bubbles # <<>> /\ q.thought = <<>> /\ Last(q.bubbles) = b
        BY <1>3, <1>5, <4>1, <4>5, <4>6, WithLastIs
      <4> QED BY <1>5, <4>5, <4>7, <4>8, <4>9 DEF ScreenOK
    <3>2. CASE ~LastIs(w, "assistant")
      <4> DEFINE b == Bubble("assistant", <<e>>)
      <4>1. b \in Bubbles /\ BubbleOK(b) /\ b.kind = "assistant" /\ b.parts = <<e>>
        BY <1>1, <1>4, <1>8, BubbleFirst, BubbleIs
      <4>2. q = Pushed(w, b)
        BY <3>2 DEF WithText
      <4> HIDE DEF b, q
      <4>3. /\ q \in Screens /\ AllOK(q.bubbles) /\ q.bubbles # <<>> /\ q.thought = <<>> /\ Last(q.bubbles) = b
            /\ PartsOf(q.bubbles) = PartsOf(v.bubbles) \o <<e>> /\ PartsOf(v.bubbles) \in Words
        BY <1>3, <1>5, <4>1, <4>2, PushedIs
      <4> QED BY <1>4, <4>1, <4>3 DEF ScreenOK
    <3> QED BY <3>1, <3>2
  <2>3. OnScreen(v, e) = q
    BY <1>8 DEF OnScreen, w
  <2> HIDE DEF q
  <2>4. ~LastIs(q, "thinking")
    BY <2>2 DEF LastIs
  <2> QED BY <1>1, <2>1, <2>2, <2>3, <2>4 DEF ScreenOK, e
<1>9. CASE e.kind = "call"
  <2>1. e.kind \in Said /\ ~Rest(log, n) /\ ~Rest(log, n + 1)
    BY <1>2, <1>9 DEF Said
  <2> DEFINE b == Bubble("tool", <<e>>)
             q == Pushed(w, b)
  <2>2. b \in Bubbles /\ BubbleOK(b) /\ b.kind = "tool" /\ b.parts = <<e>>
    BY <1>1, <1>4, <1>9, BubbleFirst, BubbleIs
  <2>3. OnScreen(v, e) = q
    BY <1>9 DEF OnScreen, w
  <2> HIDE DEF b
  <2>4. /\ q \in Screens /\ AllOK(q.bubbles) /\ q.thought = <<>> /\ Last(q.bubbles) = b
        /\ PartsOf(q.bubbles) = PartsOf(v.bubbles) \o <<e>> /\ PartsOf(v.bubbles) \in Words
    BY <1>3, <1>5, <2>2, PushedIs
  <2> HIDE DEF q
  <2>5. ~LastIs(q, "thinking")
    BY <2>2, <2>4 DEF LastIs
  <2>6. ~cut => PartsOf(q.bubbles) = SaidIn(log, n + 1)
    BY <1>1, <1>4, <2>1, <2>4 DEF ScreenOK
  <2> QED BY <2>1, <2>3, <2>4, <2>5, <2>6 DEF ScreenOK, e
<1>10. CASE e.kind \in {"council", "delivery"}
  <2>1. e.kind \notin Said /\ ~Rest(log, n) /\ ~Rest(log, n + 1)
    BY <1>2, <1>10 DEF Said
  <2> DEFINE q == OnScreen(v, e)
  <2>2. q \in Screens /\ q.bubbles = v.bubbles /\ q.thought = v.thought
    <3>1. q \in Screens
      BY <1>1, <1>3, OnScreenIs
    <3>2. q.bubbles = v.bubbles /\ q.thought = v.thought
      BY <1>3, <1>10 DEF OnScreen, Screens
    <3> QED BY <3>1, <3>2
  <2> HIDE DEF q
  <2>3. \A k \in {"thinking"} : LastIs(q, k) = LastIs(v, k)
    BY <2>2 DEF LastIs
  <2> QED BY <1>1, <2>1, <2>2, <2>3 DEF ScreenOK, e, q
<1>11. CASE e.kind = "end"
  <2>1. e.kind \notin Said /\ Rest(log, n + 1)
    BY <1>2, <1>11 DEF Said
  <2>2. OnScreen(v, e) = w
    BY <1>11 DEF OnScreen, w
  <2> QED BY <1>1, <1>3, <1>5, <2>1, <2>2 DEF ScreenOK, e
<1> QED BY <1>1, <1>6, <1>7, <1>8, <1>9, <1>10, <1>11 DEF Kinds

-----------------------------------------------------------------------------
(* A frame *)

PlayedSteps(f, v, es) ==
  /\ f[0] = v /\ \A k \in 0 .. Len(es) : f[k] \in Screens
  /\ \A k \in 1 .. Len(es) : f[k] = OnScreen(f[k - 1], es[k])

LEMMA PlayedIs ==
  ASSUME NEW v \in Screens, NEW es \in Words
  PROVE  \E f : PlayedSteps(f, v, es) /\ Played(v, es) = f[Len(es)]
<1>1. PICK n \in Nat : n = Len(es)
  BY LenProperties DEF Words
<1>2. \A i \in 1 .. n : es[i] \in ChatEvents
  BY <1>1, ElementOfSeq DEF Words
<1>3. \A u \in Screens, i \in 1 .. n : OnScreen(u, es[i]) \in Screens
  BY <1>2, OnScreenIs
<1>4. PICK step \in StepsOf(Screens, n) :
        \A u \in Screens, i \in 1 .. n : step[i][u] = OnScreen(u, es[i])
  <2> DEFINE st == [i \in 1 .. n |-> [u \in Screens |-> OnScreen(u, es[i])]]
  <2>1. st \in [1 .. n -> [Screens -> Screens]] /\ \A u \in Screens, i \in 1 .. n : st[i][u] = OnScreen(u, es[i])
    BY <1>3
  <2> HIDE DEF st
  <2> QED BY <2>1 DEF StepsOf
<1>5. PICK g : Iterates(g, Screens, v, n, step)
  BY StepsExist
<1>6. g \in [0 .. n -> Screens] /\ g[0] = v /\ \A k \in 1 .. n : g[k] = OnScreen(g[k - 1], es[k])
  <2>1. g \in [0 .. n -> Screens] /\ g[0] = v /\ \A k \in 1 .. n : g[k] = step[k][g[k - 1]]
    BY <1>5 DEF Iterates
  <2>2. \A k \in 1 .. n : k - 1 \in 0 .. n
    OBVIOUS
  <2> QED BY <1>4, <2>1, <2>2
<1> DEFINE Eq(f) == f = [k \in 0 .. n |-> IF k = 0 THEN v ELSE OnScreen(f[k - 1], es[k])]
<1>7. Eq(g)
  <2>1. \A i \in 0 .. n : i # 0 => i \in 1 .. n
    OBVIOUS
  <2>2. \A i \in 0 .. n : g[i] = IF i = 0 THEN v ELSE OnScreen(g[i - 1], es[i])
    BY <1>6, <2>1
  <2>3. g = [i \in 0 .. n |-> g[i]]
    BY <1>6
  <2> QED BY <2>2, <2>3
<1>8. PICK h : Eq(h) /\ Played(v, es) = h[n]
  <2>1. Played(v, es) = (CHOOSE f : Eq(f))[n]
    BY <1>1 DEF Played
  <2> QED BY <1>7, <2>1
<1>9. h[0] = v /\ \A i \in 1 .. n : h[i] = OnScreen(h[i - 1], es[i])
  <2>1. 0 \in 0 .. n /\ \A i \in 1 .. n : i \in 0 .. n /\ i # 0
    OBVIOUS
  <2> QED BY <1>8, <2>1
<1>10. Alike(h, g, n)
  <2>1. GoAlike(h, g, n)
    BY <1>6, <1>9 DEF GoAlike
  <2> QED BY <2>1, SameSteps
<1>11. \A k \in 0 .. n : h[k] \in Screens
  BY <1>6, <1>10 DEF Alike
<1> QED BY <1>1, <1>8, <1>9, <1>11 DEF PlayedSteps

\* The starts of a log are where it is at rest.
StartsAtRest(log) == \A i \in 1 .. Len(log) : (log[i].kind = "start") = Rest(log, i - 1)

LEMMA PlayedOK ==
  ASSUME NEW log \in Words, StartsAtRest(log), NEW m \in 0 .. Len(log), NEW cut \in BOOLEAN,
         NEW v, ScreenOK(v, log, m, cut)
  PROVE  ScreenOK(Played(v, SubSeq(log, m + 1, Len(log))), log, Len(log), cut)
<1>1. PICK n \in Nat : n = Len(log)
  BY LenProperties DEF Words
<1>2. m \in Nat /\ m <= n
  BY <1>1
<1> DEFINE es == SubSeq(log, m + 1, Len(log))
<1>3. es \in Words /\ Len(es) = n - m /\ \A k \in 1 .. n - m : es[k] = log[m + k]
  <2>1. \A i \in m + 1 .. n : log[i] \in ChatEvents
    BY <1>1, <1>2, ElementOfSeq DEF Words
  <2>2. m + 1 \in Int /\ n \in Int /\ n - (m + 1) + 1 = n - m
    BY <1>2
  <2>3. /\ SubSeq(log, m + 1, n) \in Seq(ChatEvents)
        /\ Len(SubSeq(log, m + 1, n)) = IF m + 1 <= n THEN n - (m + 1) + 1 ELSE 0
        /\ \A k \in 1 .. n - (m + 1) + 1 : SubSeq(log, m + 1, n)[k] = log[(m + 1) + k - 1]
    BY <2>1, <2>2, SubSeqProperties
  <2>4. \A k \in 1 .. n - m : (m + 1) + k - 1 = m + k
    BY <1>2
  <2> QED BY <1>1, <1>2, <2>2, <2>3, <2>4 DEF Words
<1> HIDE DEF es
<1>4. PICK f : PlayedSteps(f, v, es) /\ Played(v, es) = f[Len(es)]
  BY <1>3, PlayedIs DEF ScreenOK
<1> DEFINE S == {k \in Nat : k <= n - m => ScreenOK(f[k], log, m + k, cut)}
<1>5. 0 \in S
  <2>1. f[0] = v /\ m + 0 = m
    BY <1>2, <1>4 DEF PlayedSteps
  <2> QED BY <2>1
<1>6. ASSUME NEW k \in Nat, k \in S PROVE k + 1 \in S
  <2> SUFFICES ASSUME k + 1 <= n - m PROVE ScreenOK(f[k + 1], log, m + (k + 1), cut)
    OBVIOUS
  <2>1. /\ k + 1 \in 1 .. n - m /\ (k + 1) - 1 = k /\ m + k \in 0 .. n - 1 /\ (m + k) + 1 = m + (k + 1)
        /\ (m + k) + 1 \in 1 .. n /\ ((m + k) + 1) - 1 = m + k
    BY <1>2
  <2>2. f[k + 1] = OnScreen(f[k], log[(m + k) + 1])
    BY <1>3, <1>4, <2>1 DEF PlayedSteps
  <2>3. ScreenOK(f[k], log, m + k, cut)
    BY <1>2, <1>6
  <2>4. (log[(m + k) + 1].kind = "start") = Rest(log, m + k)
    BY <1>1, <2>1 DEF StartsAtRest
  <2>5. ScreenOK(OnScreen(f[k], log[(m + k) + 1]), log, (m + k) + 1, cut)
    BY <1>1, <2>1, <2>3, <2>4, OnScreenOK
  <2> QED BY <2>1, <2>2, <2>5
<1> HIDE DEF S
<1>7. n - m \in Nat
  BY <1>2
<1>8. n - m \in S
  BY <1>5, <1>6, <1>7, FromZeroOn
<1>9. m + (n - m) = n
  BY <1>2
<1> QED BY <1>1, <1>3, <1>4, <1>7, <1>8, <1>9 DEF S, es

-----------------------------------------------------------------------------
(* The window *)

LogOK(log) ==
  /\ log \in Words /\ StartsAtRest(log)
  /\ \A i \in 1 .. Len(log) : log[i].at = i

\* The shown chat is of the project the window is in; its events up to
\* lastEvent are on the screen.
WindowInv ==
  /\ DOMAIN chatLog = Chats /\ \A c \in Chats : LogOK(chatLog[c])
  /\ begun \subseteq Chats /\ shown \in begun /\ atWork \subseteq Chats
  /\ folder = FolderOf[shown] /\ cutShort \in BOOLEAN /\ moves \in 0 .. MaxMoves
  /\ lastEvent \in 0 .. Len(chatLog[shown])
  /\ ScreenOK(screen, chatLog[shown], lastEvent, cutShort)
  /\ ToolsStayInProject

LEMMA WindowInvSafe == WindowInv => ViewSafety
<1> SUFFICES ASSUME WindowInv PROVE ViewSafety
  OBVIOUS
<1>1. shown \in Chats /\ chatLog[shown] \in Words /\ Len(chatLog[shown]) \in Nat
  BY LenProperties DEF WindowInv, LogOK, Words
<1>2. screen \in Screens /\ AllOK(screen.bubbles) /\ screen.bubbles \in Seq(Bubbles)
  BY ScreenIs DEF WindowInv, ScreenOK
<1>3. WindowTypeOK
  <2>1. ASSUME NEW c \in Chats, NEW i \in DOMAIN chatLog[c]
        PROVE  chatLog[c][i].kind \in Kinds /\ chatLog[c][i].at = i
    <3>1. i \in 1 .. Len(chatLog[c]) /\ chatLog[c] \in Seq(ChatEvents) /\ LogOK(chatLog[c])
      BY <2>1, LenProperties DEF WindowInv, LogOK, Words
    <3>2. chatLog[c][i] \in ChatEvents
      BY <3>1, ElementOfSeq
    <3> QED BY <3>1, <3>2 DEF LogOK, ChatEvents
  <2>2. screen.cards \subseteq Chats /\ screen.banner \in Chats \cup {NoChat}
    BY <1>2 DEF Screens
  <2>3. folder \in {FolderOf[c] : c \in Chats} /\ lastEvent \in Nat
    BY <1>1 DEF WindowInv
  <2> QED BY <2>1, <2>2, <2>3 DEF WindowInv, WindowTypeOK
<1>4. ShownIsLog
  BY DEF WindowInv, ScreenOK, ShownIsLog
<1>5. ThoughtsApart
  <2>1. ASSUME NEW i \in DOMAIN screen.bubbles, NEW j \in DOMAIN screen.bubbles[i].parts
        PROVE  screen.bubbles[i].kind = "thinking" <=> screen.bubbles[i].parts[j].kind = "think"
    <3>1. i \in 1 .. Len(screen.bubbles)
      BY <1>2, LenProperties
    <3>2. screen.bubbles[i] \in Bubbles
      BY <1>2, <3>1, ElementOfSeq
    <3>3. screen.bubbles[i].parts \in Words
      BY <3>2, BubbleIs
    <3>4. j \in 1 .. Len(screen.bubbles[i].parts)
      BY <3>3, LenProperties DEF Words
    <3> QED BY <1>2, <3>1, <3>4 DEF AllOK, BubbleOK
  <2>2. screen.thought # <<>> => LastIs(screen, "thinking") /\ Last(screen.bubbles).parts = screen.thought
    BY DEF WindowInv, ScreenOK
  <2> QED BY <2>1, <2>2 DEF ThoughtsApart
<1> QED BY <1>3, <1>4, <1>5 DEF WindowInv, ViewSafety

\* An empty screen is right for any log.
LEMMA BlankOK ==
  ASSUME NEW log \in Words, NEW v \in Screens, v.thought = <<>>,
         v.bubbles \in {<<Greeting>>, <<Greeting, Notice>>}
  PROVE  ScreenOK(v, log, 0, FALSE)
<1>1. <<>> \in Words /\ Len(<<>>) = 0
  BY DEF Words
<1>2. Greeting = Bubble("assistant", <<>>) /\ Notice = Bubble("notice", <<>>)
  BY DEF Greeting, Notice, Bubble
<1>3. /\ Greeting \in Bubbles /\ BubbleOK(Greeting) /\ Greeting.kind # "thinking" /\ Greeting.parts = <<>>
      /\ Notice \in Bubbles /\ BubbleOK(Notice) /\ Notice.kind # "thinking" /\ Notice.parts = <<>>
  BY <1>1, <1>2, BubbleIs DEF BubbleOK
<1>4. PartsOf(<<>>) = <<>>
  BY PartsNone
<1>5. PartsOf(<<Greeting>>) = <<>>
  <2>1. <<Greeting>> = Append(<<>>, Greeting) /\ <<>> \in Seq(Bubbles)
    OBVIOUS
  <2>2. PartsOf(Append(<<>>, Greeting)) = PartsOf(<<>>) \o Greeting.parts
    BY <1>3, <2>1, PartsMore
  <2> QED BY <1>1, <1>3, <1>4, <2>1, <2>2, ConcatEmptySeq DEF Words
<1>6. PartsOf(<<Greeting, Notice>>) = <<>>
  <2>1. <<Greeting, Notice>> = Append(<<Greeting>>, Notice) /\ <<Greeting>> \in Seq(Bubbles)
    BY <1>3
  <2>2. PartsOf(Append(<<Greeting>>, Notice)) = PartsOf(<<Greeting>>) \o Notice.parts
    BY <1>3, <2>1, PartsMore
  <2> QED BY <1>1, <1>3, <1>5, <2>1, <2>2, ConcatEmptySeq DEF Words
<1>7. SaidIn(log, 0) = <<>>
  BY SaidNone
<1>8. AllOK(v.bubbles) /\ ~LastIs(v, "thinking")
  <2>1. CASE v.bubbles = <<Greeting>>
    BY <1>3, <2>1 DEF AllOK, LastIs, Last
  <2>2. CASE v.bubbles = <<Greeting, Notice>>
    BY <1>3, <2>2 DEF AllOK, LastIs, Last
  <2> QED BY <2>1, <2>2
<1> QED BY <1>5, <1>6, <1>7, <1>8 DEF ScreenOK, Rest

LEMMA BlankIs ==
  ASSUME NEW banner \in Chats \cup {NoChat}, NEW cards \in SUBSET Chats
  PROVE  LET v == [Blank EXCEPT !.banner = banner]
             w == [Blank EXCEPT !.banner = banner, !.cards = cards, !.bubbles = Append(@, Notice)]
         IN  /\ Blank \in Screens /\ Blank.thought = <<>> /\ Blank.bubbles = <<Greeting>>
             /\ v \in Screens /\ v.thought = <<>> /\ v.bubbles = <<Greeting>>
             /\ w \in Screens /\ w.thought = <<>> /\ w.bubbles = <<Greeting, Notice>>
<1>1. <<>> \in Words
  BY DEF Words
<1>2. Greeting \in Bubbles /\ Notice \in Bubbles
  BY <1>1 DEF Greeting, Notice, Bubbles
<1>3. <<Greeting>> \in Seq(Bubbles) /\ <<Greeting, Notice>> \in Seq(Bubbles)
  BY <1>2
<1>4. Append(<<Greeting>>, Notice) = <<Greeting, Notice>>
  <2>1. /\ Append(<<Greeting>>, Notice) \in Seq(Bubbles) /\ Len(Append(<<Greeting>>, Notice)) = 2
        /\ Append(<<Greeting>>, Notice)[1] = Greeting /\ Append(<<Greeting>>, Notice)[2] = Notice
    BY <1>2, <1>3, AppendProperties
  <2>2. /\ Len(<<Greeting, Notice>>) = 2
        /\ <<Greeting, Notice>>[1] = Greeting /\ <<Greeting, Notice>>[2] = Notice
    OBVIOUS
  <2>3. \A i \in 1 .. 2 : i = 1 \/ i = 2
    OBVIOUS
  <2>4. \A i \in 1 .. 2 : Append(<<Greeting>>, Notice)[i] = <<Greeting, Notice>>[i]
    BY <2>1, <2>2, <2>3
  <2> QED BY <1>3, <2>1, <2>2, <2>4, SeqEqual
<1>5. Blank \in Screens /\ Blank.thought = <<>> /\ Blank.bubbles = <<Greeting>>
  BY <1>1, <1>3 DEF Blank, Screens
<1> DEFINE v == [Blank EXCEPT !.banner = banner]
           u == [v EXCEPT !.cards = cards]
           w == [u EXCEPT !.bubbles = Append(@, Notice)]
<1>6. v \in Screens /\ v.thought = <<>> /\ v.bubbles = <<Greeting>>
  BY <1>5, ScreenIs
<1>7. [Blank EXCEPT !.banner = banner, !.cards = cards, !.bubbles = Append(@, Notice)] = w
  OBVIOUS
<1> HIDE DEF v
<1>8. u \in Screens /\ u.thought = <<>> /\ u.bubbles = <<Greeting>>
  BY <1>6, ScreenIs
<1>9. w = [u EXCEPT !.bubbles = <<Greeting, Notice>>]
  BY <1>4, <1>8
<1> HIDE DEF u, w
<1>10. w \in Screens /\ w.thought = <<>> /\ w.bubbles = <<Greeting, Notice>>
  BY <1>3, <1>8, <1>9, ScreenIs
<1> QED BY <1>5, <1>6, <1>7, <1>10 DEF v

LEMMA WindowStart == WindowInit => WindowInv
<1> SUFFICES ASSUME WindowInit PROVE WindowInv
  OBVIOUS
<1>1. <<>> \in Words /\ Len(<<>>) = 0
  BY DEF Words
<1>2. LogOK(<<>>)
  BY <1>1 DEF LogOK, StartsAtRest
<1>3. ScreenOK(Blank, <<>>, 0, FALSE)
  BY <1>1, BlankIs, BlankOK
<1>4. /\ shown = FirstChat /\ FirstChat \in Chats /\ chatLog = [c \in Chats |-> <<>>] /\ begun = {FirstChat}
      /\ lastEvent = 0 /\ screen = Blank /\ cutShort = FALSE /\ moves = 0 /\ MaxMoves \in Nat
      /\ folder = FolderOf[FirstChat] /\ atWork = {}
  BY WindowAssumption DEF WindowInit
<1>5. DOMAIN chatLog = Chats /\ \A c \in Chats : chatLog[c] = <<>>
  BY <1>4
<1>6. /\ \A c \in Chats : LogOK(chatLog[c])
      /\ lastEvent \in 0 .. Len(chatLog[shown]) /\ ScreenOK(screen, chatLog[shown], lastEvent, cutShort)
  <2>1. shown \in Chats /\ chatLog[shown] = <<>>
    BY <1>4, <1>5
  <2>2. lastEvent \in 0 .. Len(chatLog[shown])
    BY <1>1, <1>4, <2>1
  <2>3. ScreenOK(screen, chatLog[shown], lastEvent, cutShort)
    BY <1>3, <1>4, <2>1
  <2>4. \A c \in Chats : LogOK(chatLog[c])
    BY <1>2, <1>5
  <2> QED BY <2>2, <2>3, <2>4
<1>7. begun \subseteq Chats /\ shown \in begun /\ moves \in 0 .. MaxMoves /\ folder = FolderOf[shown]
      /\ ToolsStayInProject /\ cutShort \in BOOLEAN /\ atWork \subseteq Chats
  <2>1. begun \subseteq Chats /\ shown \in begun /\ folder = FolderOf[shown]
    BY <1>4
  <2>2. moves \in 0 .. MaxMoves
    BY <1>4
  <2>3. ToolsStayInProject /\ atWork \subseteq Chats
    BY <1>4 DEF ToolsStayInProject
  <2> QED BY <1>4, <2>1, <2>2, <2>3
<1> QED BY <1>5, <1>6, <1>7 DEF WindowInv

\* What the actions know of the logs.
LEMMA LogsAre ==
  ASSUME WindowInv
  PROVE  /\ \A c \in Chats : chatLog[c] \in Words /\ Len(chatLog[c]) \in Nat
         /\ shown \in Chats /\ screen \in Screens /\ screen.banner \in Chats \cup {NoChat}
         /\ screen.cards \subseteq Chats /\ screen.thought \in Words
<1>1. \A c \in Chats : chatLog[c] \in Words
  BY DEF WindowInv, LogOK
<1>2. \A c \in Chats : Len(chatLog[c]) \in Nat
  BY <1>1, LenProperties DEF Words
<1>3. screen \in Screens /\ shown \in Chats
  BY DEF WindowInv, ScreenOK
<1> QED BY <1>1, <1>2, <1>3 DEF Screens

LEMMA PollOK == ASSUME WindowInv, Poll PROVE WindowInv'
<1>1. /\ chatLog' = chatLog /\ shown' = shown /\ cutShort' = cutShort
      /\ lastEvent' = Len(chatLog[shown])
      /\ screen' = Played(screen, SubSeq(chatLog[shown], lastEvent + 1, Len(chatLog[shown])))
      /\ UNCHANGED <<begun, atWork, folder, moves>>
  BY DEF Poll
<1>2. ScreenOK(screen', chatLog[shown], Len(chatLog[shown]), cutShort)
  <2>1. chatLog[shown] \in Words /\ StartsAtRest(chatLog[shown])
    BY LogsAre DEF WindowInv, LogOK
  <2> QED BY <1>1, <2>1, PlayedOK DEF WindowInv
<1>3. Len(chatLog[shown]) \in 0 .. Len(chatLog[shown])
  BY LogsAre
<1> QED BY <1>1, <1>2, <1>3 DEF WindowInv, ToolsStayInProject

LEMMA SubmitInputOK == ASSUME WindowInv, NEW c \in Chats, SubmitInput(c) PROVE WindowInv'
<1>1. /\ c = shown /\ atWork' = atWork \cup {c}
      /\ screen' = [screen EXCEPT !.thought = <<>>] /\ cutShort' = (cutShort \/ screen.thought # <<>>)
      /\ UNCHANGED <<chatLog, begun, shown, folder, lastEvent, moves>>
  BY DEF SubmitInput
<1>2. ScreenOK(screen', chatLog[shown], lastEvent, cutShort')
  <2>1. <<>> \in Words
    BY DEF Words
  <2>2. screen' \in Screens /\ screen'.bubbles = screen.bubbles /\ screen'.thought = <<>>
    BY <1>1, <2>1, LogsAre, ScreenIs
  <2>3. LastIs(screen', "thinking") = LastIs(screen, "thinking")
    BY <2>2 DEF LastIs
  <2> QED BY <1>1, <2>2, <2>3 DEF WindowInv, ScreenOK
<1>3. cutShort' \in BOOLEAN
  BY <1>1 DEF WindowInv
<1>4. ToolsStayInProject'
  BY <1>1 DEF WindowInv, ToolsStayInProject
<1> QED BY <1>1, <1>2, <1>3, <1>4 DEF WindowInv

\* A log takes one event more, and shows the same up to where it was shown.
LEMMA LogMore ==
  ASSUME NEW log, LogOK(log), NEW e \in ChatEvents, e.at = Len(log) + 1,
         (e.kind = "start") = (log = <<>> \/ Last(log).kind = "end")
  PROVE  /\ LogOK(Append(log, e))
         /\ \A n \in 0 .. Len(log), cut \in BOOLEAN : \A v :
              ScreenOK(v, log, n, cut) => ScreenOK(v, Append(log, e), n, cut)
         /\ Len(Append(log, e)) = Len(log) + 1 /\ Len(log) \in Nat
<1> DEFINE more == Append(log, e)
<1>1. log \in Words /\ Len(log) \in Nat /\ (log = <<>>) = (Len(log) = 0)
  BY LenProperties, EmptySeq DEF LogOK, Words
<1>2. /\ more \in Words /\ Len(more) = Len(log) + 1 /\ more[Len(log) + 1] = e
      /\ \A i \in 1 .. Len(log) : more[i] = log[i]
  BY <1>1, AppendProperties DEF Words
<1>3. (e.kind = "start") = Rest(log, Len(log))
  BY <1>1 DEF Rest, Last
<1>4. ASSUME NEW n \in 0 .. Len(log) PROVE SaidIn(more, n) = SaidIn(log, n)
  BY <1>1, SaidStays
<1> HIDE DEF more
<1>5. ASSUME NEW n \in 0 .. Len(log) PROVE Rest(more, n) = Rest(log, n)
  <2>1. n = 0 \/ n \in 1 .. Len(log)
    BY <1>1
  <2> QED BY <1>2, <2>1 DEF Rest
<1>6. ASSUME NEW i \in 1 .. Len(more) PROVE (more[i].kind = "start") = Rest(more, i - 1) /\ more[i].at = i
  <2>1. i - 1 \in 0 .. Len(log) /\ Rest(more, i - 1) = Rest(log, i - 1)
    BY <1>1, <1>2, <1>5
  <2>2. CASE i = Len(log) + 1
    <3>1. i - 1 = Len(log)
      BY <1>1, <2>2
    <3> QED BY <1>2, <1>3, <2>1, <2>2, <3>1
  <2>3. CASE i # Len(log) + 1
    <3>1. i \in 1 .. Len(log)
      BY <1>1, <1>2, <2>3
    <3> QED BY <1>2, <2>1, <3>1 DEF LogOK, StartsAtRest
  <2> QED BY <2>2, <2>3
<1>7. ASSUME NEW n \in 0 .. Len(log), NEW v, NEW cut \in BOOLEAN, ScreenOK(v, log, n, cut)
      PROVE  ScreenOK(v, more, n, cut)
  BY <1>4, <1>5, <1>7 DEF ScreenOK, more
<1> QED BY <1>1, <1>2, <1>6, <1>7 DEF LogOK, StartsAtRest, more

LEMMA TurnEmitsOK ==
  ASSUME WindowInv, NEW c \in Chats, NEW kind \in Kinds, NEW more \in BOOLEAN, TurnEmits(c, kind, more)
  PROVE  WindowInv'
<1> DEFINE e == [chat |-> c, kind |-> kind, at |-> Len(chatLog[c]) + 1]
<1>1. /\ chatLog' = [chatLog EXCEPT ![c] = Append(@, e)] /\ (kind = "start" <=> BetweenTurns(c))
      /\ atWork' \in {atWork, atWork \ {c}}
      /\ UNCHANGED <<begun, shown, folder, lastEvent, screen, cutShort, moves>>
  BY DEF TurnEmits, Emit
<1>2. e \in ChatEvents /\ e.at = Len(chatLog[c]) + 1 /\ e.kind = kind
  BY LogsAre DEF ChatEvents
<1> HIDE DEF e
<1>3. (e.kind = "start") = (chatLog[c] = <<>> \/ Last(chatLog[c]).kind = "end")
  BY <1>1, <1>2 DEF BetweenTurns
<1>4. LogOK(chatLog[c])
  BY DEF WindowInv
<1>5. /\ LogOK(Append(chatLog[c], e))
      /\ \A n \in 0 .. Len(chatLog[c]), cut \in BOOLEAN : \A v :
           ScreenOK(v, chatLog[c], n, cut) => ScreenOK(v, Append(chatLog[c], e), n, cut)
      /\ Len(Append(chatLog[c], e)) = Len(chatLog[c]) + 1 /\ Len(chatLog[c]) \in Nat
  BY <1>2, <1>3, <1>4, LogMore
<1>6. DOMAIN chatLog' = Chats /\ \A d \in Chats : chatLog'[d] = IF d = c THEN Append(chatLog[c], e) ELSE chatLog[d]
  BY <1>1 DEF WindowInv
<1>7. \A d \in Chats : LogOK(chatLog'[d])
  BY <1>5, <1>6 DEF WindowInv
<1>8. lastEvent \in 0 .. Len(chatLog'[shown]) /\ ScreenOK(screen, chatLog'[shown], lastEvent, cutShort)
  <2>1. CASE shown = c
    <3>1. lastEvent \in 0 .. Len(chatLog[c]) /\ ScreenOK(screen, chatLog[c], lastEvent, cutShort) /\ cutShort \in BOOLEAN
      BY <2>1 DEF WindowInv
    <3>2. ScreenOK(screen, Append(chatLog[c], e), lastEvent, cutShort)
      BY <1>5, <3>1
    <3>3. chatLog'[shown] = Append(chatLog[c], e)
      BY <1>6, <2>1
    <3>4. lastEvent \in 0 .. Len(Append(chatLog[c], e))
      BY <1>5, <3>1
    <3> QED BY <3>2, <3>3, <3>4
  <2>2. CASE shown # c
    BY <1>6, <2>2, LogsAre DEF WindowInv
  <2> QED BY <2>1, <2>2
<1>9. ToolsStayInProject' /\ atWork' \subseteq Chats
  BY <1>1 DEF WindowInv, ToolsStayInProject
<1> QED BY <1>1, <1>6, <1>7, <1>8, <1>9 DEF WindowInv

LEMMA MovesOK == ASSUME WindowInv, Moves PROVE moves' \in 0 .. MaxMoves
<1>1. moves \in 0 .. MaxMoves /\ MaxMoves \in Nat /\ moves < MaxMoves /\ moves' = moves + 1
  BY WindowAssumption DEF WindowInv, Moves
<1> QED BY <1>1

\* A view that is reset shows nothing yet, of whatever chat.
LEMMA ResetOK ==
  ASSUME WindowInv, NEW v, Reset(v), chatLog' = chatLog, NEW c \in Chats, shown' = c,
         v \in Screens, v.thought = <<>>, v.bubbles \in {<<Greeting>>, <<Greeting, Notice>>}
  PROVE  /\ lastEvent' \in 0 .. Len(chatLog'[shown']) /\ cutShort' \in BOOLEAN
         /\ ScreenOK(screen', chatLog'[shown'], lastEvent', cutShort')
<1>1. lastEvent' = 0 /\ screen' = v /\ cutShort' = FALSE
  BY DEF Reset
<1>2. chatLog[c] \in Words /\ 0 \in 0 .. Len(chatLog[c])
  BY LogsAre
<1>3. ScreenOK(v, chatLog[c], 0, FALSE)
  BY <1>2, BlankOK
<1> QED BY <1>1, <1>2, <1>3

LEMMA NewChatOK == ASSUME WindowInv, NEW c \in Chats, NewChat(c) PROVE WindowInv'
<1> DEFINE v == [Blank EXCEPT !.banner = screen.banner]
<1>1. /\ Moves /\ FolderOf[c] = folder /\ begun' = begun \cup {c} /\ shown' = c /\ Reset(v)
      /\ UNCHANGED <<chatLog, atWork, folder>>
  BY DEF NewChat
<1>2. v \in Screens /\ v.thought = <<>> /\ v.bubbles = <<Greeting>>
  BY LogsAre, BlankIs
<1> HIDE DEF v
<1>3. /\ lastEvent' \in 0 .. Len(chatLog'[shown']) /\ cutShort' \in BOOLEAN
      /\ ScreenOK(screen', chatLog'[shown'], lastEvent', cutShort')
  BY <1>1, <1>2, ResetOK
<1> QED BY <1>1, <1>3, MovesOK DEF WindowInv, ToolsStayInProject

LEMMA SwitchChatOK == ASSUME WindowInv, NEW c \in Chats, SwitchChat(c) PROVE WindowInv'
<1> DEFINE v == [Blank EXCEPT !.banner = screen.banner]
<1>1. /\ Moves /\ c \in begun /\ (FolderOf[c] # folder => ~AnyAtWork)
      /\ folder' = FolderOf[c] /\ shown' = c /\ Reset(v)
      /\ UNCHANGED <<chatLog, begun, atWork>>
  BY DEF SwitchChat
<1>2. v \in Screens /\ v.thought = <<>> /\ v.bubbles = <<Greeting>>
  BY LogsAre, BlankIs
<1> HIDE DEF v
<1>3. /\ lastEvent' \in 0 .. Len(chatLog'[shown']) /\ cutShort' \in BOOLEAN
      /\ ScreenOK(screen', chatLog'[shown'], lastEvent', cutShort')
  BY <1>1, <1>2, ResetOK
<1>4. ToolsStayInProject'
  BY <1>1 DEF WindowInv, ToolsStayInProject, AnyAtWork
<1> QED BY <1>1, <1>3, <1>4, MovesOK DEF WindowInv

LEMMA SwitchProjectOK == ASSUME WindowInv, NEW c \in Chats, SwitchProject(c) PROVE WindowInv'
<1> DEFINE v == [Blank EXCEPT !.banner = screen.banner, !.cards = screen.cards, !.bubbles = Append(@, Notice)]
<1>1. /\ Moves /\ ~AnyAtWork /\ begun' = begun \cup {c}
      /\ folder' = FolderOf[c] /\ shown' = c /\ Reset(v)
      /\ UNCHANGED <<chatLog, atWork>>
  BY DEF SwitchProject
<1>2. v \in Screens /\ v.thought = <<>> /\ v.bubbles = <<Greeting, Notice>>
  BY LogsAre, BlankIs
<1> HIDE DEF v
<1>3. /\ lastEvent' \in 0 .. Len(chatLog'[shown']) /\ cutShort' \in BOOLEAN
      /\ ScreenOK(screen', chatLog'[shown'], lastEvent', cutShort')
  BY <1>1, <1>2, ResetOK
<1>4. ToolsStayInProject'
  BY <1>1 DEF ToolsStayInProject, AnyAtWork
<1> QED BY <1>1, <1>3, <1>4, MovesOK DEF WindowInv

LEMMA DeleteChatOK == ASSUME WindowInv, NEW c \in Chats, NEW next \in Chats, DeleteChat(c, next) PROVE WindowInv'
<1> DEFINE v == [Blank EXCEPT !.banner = screen.banner]
<1>1. /\ Moves /\ c \in begun /\ shown \notin atWork
      /\ chatLog' = [chatLog EXCEPT ![c] = IF c \in atWork THEN @ ELSE <<>>]
      /\ UNCHANGED <<atWork, folder>>
  BY DEF DeleteChat
<1>2. <<>> \in Words /\ LogOK(<<>>) /\ Len(<<>>) = 0
  <2>1. <<>> \in Words /\ Len(<<>>) = 0
    BY DEF Words
  <2> QED BY <2>1 DEF LogOK, StartsAtRest
<1>3. /\ DOMAIN chatLog' = Chats /\ \A d \in Chats : LogOK(chatLog'[d])
      /\ \A d \in Chats : d # c => chatLog'[d] = chatLog[d]
  BY <1>1, <1>2 DEF WindowInv
<1>4. CASE c = shown
  <2>1. next \notin begun /\ FolderOf[next] = folder /\ shown' = next /\ begun' = (begun \cup {next}) \ {c} /\ Reset(v)
    BY <1>4 DEF DeleteChat, UnusedChat
  <2>2. v \in Screens /\ v.thought = <<>> /\ v.bubbles = <<Greeting>>
    BY LogsAre, BlankIs
  <2> HIDE DEF v
  <2>3. lastEvent' = 0 /\ screen' = v /\ cutShort' = FALSE
    BY <2>1 DEF Reset
  <2>4. chatLog'[next] \in Words /\ Len(chatLog'[next]) \in Nat
    BY <1>3, LenProperties DEF LogOK, Words
  <2>5. ScreenOK(v, chatLog'[next], 0, FALSE)
    BY <2>2, <2>4, BlankOK
  <2>6. 0 \in 0 .. Len(chatLog'[next]) /\ FALSE \in BOOLEAN
    BY <2>4
  <2>7. shown' \in begun' /\ begun' \subseteq Chats /\ folder' = FolderOf[shown']
    BY <1>1, <2>1 DEF WindowInv
  <2> QED BY <1>1, <1>3, <2>1, <2>3, <2>5, <2>6, <2>7, MovesOK DEF WindowInv, ToolsStayInProject
<1>5. CASE c # shown
  <2>1. begun' = begun \ {c} /\ UNCHANGED <<shown, lastEvent, screen, cutShort>>
    BY <1>5 DEF DeleteChat
  <2>2. chatLog'[shown] = chatLog[shown]
    BY <1>3, <1>5, LogsAre
  <2> QED BY <1>1, <1>3, <1>5, <2>1, <2>2, MovesOK DEF WindowInv, ToolsStayInProject
<1> QED BY <1>4, <1>5

LEMMA WindowStep == WindowInv /\ [WindowNext]_windowVars => WindowInv'
<1> SUFFICES ASSUME WindowInv, [WindowNext]_windowVars PROVE WindowInv'
  OBVIOUS
<1>1. CASE UNCHANGED windowVars
  BY <1>1 DEF windowVars, WindowInv, ToolsStayInProject
<1>2. CASE Poll
  BY <1>2, PollOK
<1>3. ASSUME NEW c \in Chats, SubmitInput(c) \/ NewChat(c) \/ SwitchChat(c) \/ SwitchProject(c)
      PROVE  WindowInv'
  BY <1>3, SubmitInputOK, NewChatOK, SwitchChatOK, SwitchProjectOK
<1>4. ASSUME NEW c \in Chats, NEW kind \in Kinds, NEW more \in BOOLEAN, TurnEmits(c, kind, more)
      PROVE  WindowInv'
  BY <1>4, TurnEmitsOK
<1>5. ASSUME NEW c \in Chats, NEW next \in Chats, DeleteChat(c, next)
      PROVE  WindowInv'
  BY <1>5, DeleteChatOK
<1> QED BY <1>1, <1>2, <1>3, <1>4, <1>5 DEF WindowNext

\* The window shows the chat it follows: all of its words once and in order, no
\* words of another chat, thoughts apart and closed; and turns at work are of
\* the project the window is in (poll_log, submit, the switches).
THEOREM WindowShowsItsChat == WindowSpec => []ViewSafety
BY WindowStart, WindowStep, WindowInvSafe, PTL DEF WindowSpec

-----------------------------------------------------------------------------
(* The sessions *)

-----------------------------------------------------------------------------
(* Sequences of a session *)

OnlyOnce(s) == \A i, j \in 1 .. Len(s) : s[i] = s[j] => i = j

\* v is what is kept of the first n elements of s.
KeptOf(v, s, S, n) ==
  /\ \A k \in 1 .. Len(v) : \E j \in 1 .. n : s[j] = v[k] /\ s[j] \in S
  /\ \A j \in 1 .. n : s[j] \in S => \E k \in 1 .. Len(v) : v[k] = s[j]
  /\ OnlyOnce(s) => OnlyOnce(v)
  /\ (\A j \in 1 .. n : s[j] \in S) => Len(v) = n /\ \A k \in 1 .. n : v[k] = s[k]

LEMMA KeptStep ==
  ASSUME NEW T, NEW s \in Seq(T), NEW S, NEW v \in Seq(T), NEW n \in Nat, n + 1 <= Len(s), KeptOf(v, s, S, n)
  PROVE  LET w == IF s[n + 1] \in S THEN Append(v, s[n + 1]) ELSE v
         IN  w \in Seq(T) /\ KeptOf(w, s, S, n + 1)
<1>1. Len(s) \in Nat /\ Len(v) \in Nat /\ n + 1 \in 1 .. Len(s) /\ s[n + 1] \in T
  BY LenProperties, ElementOfSeq
<1>2. CASE s[n + 1] \notin S
  <2>1. \A j \in 1 .. n + 1 : s[j] \in S => j \in 1 .. n
    BY <1>2
  <2>2. \A j \in 1 .. n : j \in 1 .. n + 1
    OBVIOUS
  <2>3. ~ \A j \in 1 .. n + 1 : s[j] \in S
    BY <1>1, <1>2
  <2> QED BY <1>2, <2>1, <2>2, <2>3 DEF KeptOf
<1>3. CASE s[n + 1] \in S
  <2> DEFINE w == Append(v, s[n + 1])
  <2>1. w \in Seq(T) /\ Len(w) = Len(v) + 1 /\ w[Len(v) + 1] = s[n + 1] /\ \A k \in 1 .. Len(v) : w[k] = v[k]
    BY <1>1, AppendProperties
  <2> HIDE DEF w
  <2>2. ASSUME NEW k \in 1 .. Len(w) PROVE \E j \in 1 .. n + 1 : s[j] = w[k] /\ s[j] \in S
    <3>1. CASE k = Len(v) + 1
      <4>1. n + 1 \in 1 .. n + 1 /\ s[n + 1] = w[k]
        BY <2>1, <3>1
      <4> QED BY <1>3, <4>1
    <3>2. CASE k # Len(v) + 1
      <4>1. k \in 1 .. Len(v)
        BY <1>1, <2>1, <3>2
      <4>2. PICK j \in 1 .. n : s[j] = v[k] /\ s[j] \in S
        BY <4>1 DEF KeptOf
      <4>3. j \in 1 .. n + 1 /\ s[j] = w[k]
        BY <2>1, <4>1, <4>2
      <4> QED BY <4>2, <4>3
    <3> QED BY <3>1, <3>2
  <2>3. ASSUME NEW j \in 1 .. n + 1, s[j] \in S PROVE \E k \in 1 .. Len(w) : w[k] = s[j]
    <3>1. CASE j = n + 1
      <4>1. Len(v) + 1 \in 1 .. Len(w)
        BY <1>1, <2>1
      <4> QED BY <2>1, <3>1, <4>1
    <3>2. CASE j # n + 1
      <4>1. j \in 1 .. n
        BY <3>2
      <4>2. PICK k \in 1 .. Len(v) : v[k] = s[j]
        BY <2>3, <4>1 DEF KeptOf
      <4>3. k \in 1 .. Len(w) /\ w[k] = s[j]
        BY <1>1, <2>1, <4>2
      <4> QED BY <4>3
    <3> QED BY <3>1, <3>2
  <2>4. ASSUME OnlyOnce(s) PROVE OnlyOnce(w)
    <3>1. OnlyOnce(v)
      BY <2>4 DEF KeptOf
    <3>2. ASSUME NEW k \in 1 .. Len(v) PROVE v[k] # s[n + 1]
      <4>1. PICK j \in 1 .. n : s[j] = v[k]
        BY DEF KeptOf
      <4>2. j # n + 1 /\ j \in 1 .. Len(s)
        BY <1>1
      <4> QED BY <1>1, <2>4, <4>1, <4>2 DEF OnlyOnce
    <3>3. \A k \in 1 .. Len(w) : k \in 1 .. Len(v) \/ k = Len(v) + 1
      BY <1>1, <2>1
    <3> QED BY <2>1, <3>1, <3>2, <3>3 DEF OnlyOnce
  <2>5. ASSUME \A j \in 1 .. n + 1 : s[j] \in S
        PROVE  Len(w) = n + 1 /\ \A k \in 1 .. n + 1 : w[k] = s[k]
    <3>1. \A j \in 1 .. n : j \in 1 .. n + 1
      OBVIOUS
    <3>2. Len(v) = n /\ \A k \in 1 .. n : v[k] = s[k]
      BY <2>5, <3>1 DEF KeptOf
    <3>3. \A k \in 1 .. n + 1 : k \in 1 .. n \/ k = n + 1
      OBVIOUS
    <3> QED BY <2>1, <3>2, <3>3
  <2>6. KeptOf(w, s, S, n + 1)
    BY <2>2, <2>3, <2>4, <2>5 DEF KeptOf
  <2> QED BY <1>3, <2>1, <2>6 DEF w
<1> QED BY <1>2, <1>3

\* What is kept of a sequence are its elements in the set, and no others.
LEMMA KeptIs ==
  ASSUME NEW T, NEW s \in Seq(T), NEW S
  PROVE  Kept(s, S) \in Seq(T) /\ KeptOf(Kept(s, S), s, S, Len(s))
<1>1. PICK n \in Nat : n = Len(s)
  BY LenProperties
<1> DEFINE Next(v, i) == IF s[i] \in S THEN Append(v, s[i]) ELSE v
<1>2. \A i \in 1 .. n : s[i] \in T
  BY <1>1, ElementOfSeq
<1>3. <<>> \in Seq(T) /\ \A v \in Seq(T), i \in 1 .. n : Next(v, i) \in Seq(T)
  BY <1>2, AppendProperties
<1> HIDE DEF Next
<1>4. PICK step \in StepsOf(Seq(T), n) :
        \A v \in Seq(T), i \in 1 .. n : step[i][v] = Next(v, i)
  <2> DEFINE st == [i \in 1 .. n |-> [v \in Seq(T) |-> Next(v, i)]]
  <2>1. st \in [1 .. n -> [Seq(T) -> Seq(T)]] /\ \A v \in Seq(T), i \in 1 .. n : st[i][v] = Next(v, i)
    BY <1>3
  <2> HIDE DEF st
  <2> QED BY <2>1 DEF StepsOf
<1>5. PICK g : Iterates(g, Seq(T), <<>>, n, step)
  BY <1>3, StepsExist
<1>6. g \in [0 .. n -> Seq(T)] /\ g[0] = <<>> /\ \A k \in 1 .. n : g[k] = Next(g[k - 1], k)
  <2>1. g \in [0 .. n -> Seq(T)] /\ g[0] = <<>> /\ \A k \in 1 .. n : g[k] = step[k][g[k - 1]]
    BY <1>5 DEF Iterates
  <2>2. \A k \in 1 .. n : k - 1 \in 0 .. n
    OBVIOUS
  <2> QED BY <1>4, <2>1, <2>2
<1> DEFINE Eq(f) == f = [i \in 0 .. n |-> IF i = 0 THEN <<>>
                                         ELSE IF s[i] \in S THEN Append(f[i - 1], s[i]) ELSE f[i - 1]]
<1>7. Eq(g)
  <2>1. \A i \in 0 .. n : i # 0 => i \in 1 .. n
    OBVIOUS
  <2>2. \A i \in 0 .. n : g[i] = IF i = 0 THEN <<>> ELSE IF s[i] \in S THEN Append(g[i - 1], s[i]) ELSE g[i - 1]
    BY <1>6, <2>1 DEF Next
  <2>3. g = [i \in 0 .. n |-> g[i]]
    BY <1>6
  <2> QED BY <2>2, <2>3
<1>8. PICK h : Eq(h) /\ Kept(s, S) = h[n]
  BY <1>1, <1>7 DEF Kept
<1>9. h[0] = <<>> /\ \A i \in 1 .. n : h[i] = IF s[i] \in S THEN Append(h[i - 1], s[i]) ELSE h[i - 1]
  <2>1. 0 \in 0 .. n /\ \A i \in 1 .. n : i \in 0 .. n /\ i # 0
    OBVIOUS
  <2> QED BY <1>8, <2>1
<1> HIDE DEF Eq
<1> DEFINE P == {i \in Nat : i <= n => h[i] \in Seq(T) /\ KeptOf(h[i], s, S, i)}
<1>10. 0 \in P
  <2>1. Len(<<>>) = 0 /\ <<>> \in Seq(T)
    OBVIOUS
  <2>2. KeptOf(<<>>, s, S, 0)
    BY <2>1 DEF KeptOf, OnlyOnce
  <2> QED BY <1>9, <2>1, <2>2
<1>11. ASSUME NEW i \in Nat, i \in P PROVE i + 1 \in P
  <2> SUFFICES ASSUME i + 1 <= n PROVE h[i + 1] \in Seq(T) /\ KeptOf(h[i + 1], s, S, i + 1)
    OBVIOUS
  <2>1. i + 1 \in 1 .. n /\ (i + 1) - 1 = i /\ h[i] \in Seq(T) /\ KeptOf(h[i], s, S, i)
    BY <1>11
  <2>2. h[i + 1] = IF s[i + 1] \in S THEN Append(h[i], s[i + 1]) ELSE h[i]
    BY <1>9, <2>1
  <2> QED BY <1>1, <2>1, <2>2, KeptStep
<1> HIDE DEF P
<1>12. n \in P
  BY <1>10, <1>11, FromZeroOn
<1> QED BY <1>1, <1>8, <1>12 DEF P

\* What a filtered list of files is.
LEMMA KeptRange ==
  ASSUME NEW T, NEW s \in Seq(T), NEW S
  PROVE  /\ Kept(s, S) \in Seq(T) /\ Range(Kept(s, S)) = Range(s) \cap S
         /\ OnlyOnce(s) => OnlyOnce(Kept(s, S))
         /\ Range(s) \subseteq S => Kept(s, S) = s
<1>1. Kept(s, S) \in Seq(T) /\ KeptOf(Kept(s, S), s, S, Len(s))
  BY KeptIs
<1> DEFINE v == Kept(s, S)
<1> HIDE DEF v
<1>2. v \in Seq(T) /\ KeptOf(v, s, S, Len(s))
  BY <1>1 DEF v
<1>3. DOMAIN v = 1 .. Len(v) /\ DOMAIN s = 1 .. Len(s) /\ Len(v) \in Nat /\ Len(s) \in Nat
  BY <1>2, LenProperties
<1>4. Range(v) = {v[k] : k \in 1 .. Len(v)} /\ Range(s) = {s[j] : j \in 1 .. Len(s)}
  BY <1>3 DEF Range
<1>5. Range(v) = Range(s) \cap S
  <2>1. ASSUME NEW x \in Range(v) PROVE x \in Range(s) /\ x \in S
    <3>1. PICK k \in 1 .. Len(v) : v[k] = x
      BY <1>4, <2>1
    <3>2. PICK j \in 1 .. Len(s) : s[j] = v[k] /\ s[j] \in S
      BY <1>2, <3>1 DEF KeptOf
    <3> QED BY <1>4, <3>1, <3>2
  <2>2. ASSUME NEW x \in Range(s), x \in S PROVE x \in Range(v)
    <3>1. PICK j \in 1 .. Len(s) : s[j] = x
      BY <1>4, <2>2
    <3>2. PICK k \in 1 .. Len(v) : v[k] = s[j]
      BY <1>2, <2>2, <3>1 DEF KeptOf
    <3> QED BY <1>4, <3>1, <3>2
  <2> QED BY <2>1, <2>2
<1>6. OnlyOnce(s) => OnlyOnce(v)
  BY <1>2 DEF KeptOf
<1>7. ASSUME Range(s) \subseteq S PROVE v = s
  <2>1. \A j \in 1 .. Len(s) : s[j] \in S
    BY <1>4, <1>7
  <2>2. Len(v) = Len(s) /\ \A k \in 1 .. Len(s) : v[k] = s[k]
    BY <1>2, <2>1 DEF KeptOf
  <2> QED BY <1>2, <2>2, SeqEqual
<1> QED BY <1>2, <1>5, <1>6, <1>7 DEF v

-----------------------------------------------------------------------------
(* Files and what is written to them *)

FileStates == [lines : Seq(Lines), tail : Lines \cup {NoTail}]
Real == {e \in Lines : IsEvent(e)}

LEMMA EventsAre ==
  /\ NoTail \notin Lines /\ NoTail.turn = 0
  /\ Torn \in Lines /\ ~IsEvent(Torn) /\ Torn.turn = 0
  /\ Broken \in Lines /\ ~IsEvent(Broken) /\ Broken.turn = 0
  /\ \A e \in Real : e \in Lines /\ IsEvent(e) /\ e.kind \in EventKinds /\ e.turn \in Turns \cup {0}
  /\ \A e \in Lines : e.kind \in EventKinds => e \in Real
  /\ Event("Output", 0) \in Real /\ Event("TurnEnd", 0) \in Real /\ Event("Delivery", 0) \in Real
  /\ \A t \in Turns, k \in EventKinds : Event(k, t) \in Real
BY DEF NoTail, Torn, Broken, Event, Lines, Real, IsEvent, EventKinds

LEMMA FilesAre ==
  /\ NewFile \in FileStates /\ Nothing \notin FileStates
  /\ \A d \in FileStates : d.lines \in Seq(Lines) /\ d.tail \in Lines \cup {NoTail} /\ Len(d.lines) \in Nat
  /\ \A ls \in Seq(Lines), e \in Lines \cup {NoTail} :
       LET d == [lines |-> ls, tail |-> e] IN d \in FileStates /\ d.lines = ls /\ d.tail = e
<1>1. \A d \in FileStates : d.lines \in Seq(Lines) /\ d.tail \in Lines \cup {NoTail}
  BY DEF FileStates
<1>2. \A ls \in Seq(Lines) : Len(ls) \in Nat
  BY LenProperties
<1>3. NewFile \in FileStates
  BY DEF NewFile, FileStates
<1> QED BY <1>1, <1>2, <1>3, HandlesAssumption DEF FileStates

\* Whose lines a file has.
DiskTurn(d, t) == d.tail.turn = t \/ \E n \in 1 .. Len(d.lines) : d.lines[n].turn = t
LogTurn(es, t) == \E n \in 1 .. Len(es) : es[n].turn = t

LEMMA WrittenIs ==
  ASSUME NEW d \in FileStates, NEW e \in Real
  PROVE  /\ Written(d, e) \in FileStates
         /\ Whole(d) => Whole(Written(d, e)) /\ Written(d, e).lines = Append(d.lines, e)
         /\ ~Whole(d) => /\ ~Whole(Written(d, e))
                         /\ \E l \in Lines : /\ Written(d, e).lines = Append(d.lines, l)
                                             /\ IsEvent(l) => \E n \in 1 .. Len(d.lines) : ~IsEvent(d.lines[n])
         /\ \A t \in Turns : DiskTurn(Written(d, e), t) => DiskTurn(d, t) \/ e.turn = t
<1> DEFINE w == Written(d, e)
<1>1. PICK l \in Lines : /\ l = IF d.tail = NoTail THEN e ELSE IF d.tail.kind = "broken" THEN Broken ELSE Torn
  BY EventsAre
<1>2. w = [lines |-> Append(d.lines, l), tail |-> NoTail]
  BY <1>1 DEF Written
<1> HIDE DEF w
<1>3. d.lines \in Seq(Lines) /\ Len(d.lines) \in Nat /\ DOMAIN d.lines = 1 .. Len(d.lines)
  BY FilesAre, LenProperties
<1>4. PICK m \in Seq(Lines) : m = Append(d.lines, l)
  BY <1>3, AppendProperties
<1>5. /\ Len(m) = Len(d.lines) + 1 /\ m[Len(d.lines) + 1] = l /\ DOMAIN m = 1 .. Len(m)
      /\ \A n \in 1 .. Len(d.lines) : m[n] = d.lines[n]
  BY <1>3, <1>4, AppendProperties, LenProperties
<1>6. w \in FileStates /\ w.lines = m /\ w.tail = NoTail
  BY <1>2, <1>4, FilesAre
<1>7. \A n \in 1 .. Len(m) : n \in 1 .. Len(d.lines) \/ n = Len(d.lines) + 1
  BY <1>3, <1>5
<1>8. \A n \in 1 .. Len(d.lines) : n \in 1 .. Len(m)
  BY <1>3, <1>5
<1>9. Len(d.lines) + 1 \in 1 .. Len(m)
  BY <1>3, <1>5
<1>10. ASSUME Whole(d) PROVE Whole(w) /\ w.lines = Append(d.lines, e)
  <2>1. d.tail = NoTail /\ l = e /\ IsEvent(l) /\ \A n \in 1 .. Len(d.lines) : IsEvent(d.lines[n])
    BY <1>1, <1>3, <1>10, EventsAre DEF Whole
  <2>2. \A n \in 1 .. Len(m) : IsEvent(m[n])
    BY <1>5, <1>7, <2>1
  <2> QED BY <1>4, <1>5, <1>6, <2>1, <2>2 DEF Whole
<1>11. ASSUME ~Whole(d)
       PROVE  ~Whole(w) /\ (IsEvent(l) => \E n \in 1 .. Len(d.lines) : ~IsEvent(d.lines[n]))
  <2>1. CASE d.tail # NoTail
    <3>1. ~IsEvent(l)
      BY <1>1, <2>1, EventsAre
    <3>2. \E n \in 1 .. Len(m) : ~IsEvent(m[n])
      BY <1>5, <1>9, <3>1
    <3> QED BY <1>5, <1>6, <3>1, <3>2 DEF Whole
  <2>2. CASE d.tail = NoTail
    <3>1. PICK n \in 1 .. Len(d.lines) : ~IsEvent(d.lines[n])
      BY <1>3, <1>11, <2>2 DEF Whole
    <3>2. n \in 1 .. Len(m) /\ ~IsEvent(m[n])
      BY <1>5, <1>8, <3>1
    <3> QED BY <1>5, <1>6, <3>1, <3>2 DEF Whole
  <2> QED BY <2>1, <2>2
<1>12. ASSUME NEW t \in Turns, DiskTurn(w, t) PROVE DiskTurn(d, t) \/ e.turn = t
  <2>1. t # 0
    BY SessionAssumption
  <2>2. w.tail.turn # t /\ (l.turn = t => l = e)
    BY <1>1, <1>6, <2>1, EventsAre
  <2>3. PICK n \in 1 .. Len(m) : m[n].turn = t
    BY <1>6, <1>12, <2>2 DEF DiskTurn
  <2> QED BY <1>5, <1>7, <2>2, <2>3 DEF DiskTurn
<1> QED BY <1>4, <1>6, <1>10, <1>11, <1>12 DEF w

\* Events that are written one after the other.
LEMMA WriteAllIs ==
  ASSUME NEW d \in FileStates, NEW es \in Seq(Real)
  PROVE  \E f : /\ f \in [0 .. Len(es) -> FileStates] /\ f[0] = d /\ WriteAll(d, es) = f[Len(es)]
                /\ \A k \in 1 .. Len(es) : f[k] = Written(f[k - 1], es[k])
<1>1. PICK n \in Nat : n = Len(es)
  BY LenProperties
<1>2. \A i \in 1 .. n : es[i] \in Real
  BY <1>1, ElementOfSeq
<1>3. \A v \in FileStates, i \in 1 .. n : Written(v, es[i]) \in FileStates
  BY <1>2, WrittenIs
<1>4. PICK step \in StepsOf(FileStates, n) :
        \A v \in FileStates, i \in 1 .. n : step[i][v] = Written(v, es[i])
  <2> DEFINE st == [i \in 1 .. n |-> [v \in FileStates |-> Written(v, es[i])]]
  <2>1. st \in [1 .. n -> [FileStates -> FileStates]]
        /\ \A v \in FileStates, i \in 1 .. n : st[i][v] = Written(v, es[i])
    BY <1>3
  <2> HIDE DEF st
  <2> QED BY <2>1 DEF StepsOf
<1>5. PICK g : Iterates(g, FileStates, d, n, step)
  BY StepsExist
<1>6. g \in [0 .. n -> FileStates] /\ g[0] = d /\ \A k \in 1 .. n : g[k] = Written(g[k - 1], es[k])
  <2>1. g \in [0 .. n -> FileStates] /\ g[0] = d /\ \A k \in 1 .. n : g[k] = step[k][g[k - 1]]
    BY <1>5 DEF Iterates
  <2>2. \A k \in 1 .. n : k - 1 \in 0 .. n
    OBVIOUS
  <2> QED BY <1>4, <2>1, <2>2
<1> DEFINE Eq(f) == f = [i \in 0 .. n |-> IF i = 0 THEN d ELSE Written(f[i - 1], es[i])]
<1>7. Eq(g)
  <2>1. \A i \in 0 .. n : i # 0 => i \in 1 .. n
    OBVIOUS
  <2>2. \A i \in 0 .. n : g[i] = IF i = 0 THEN d ELSE Written(g[i - 1], es[i])
    BY <1>6, <2>1
  <2>3. g = [i \in 0 .. n |-> g[i]]
    BY <1>6
  <2> QED BY <2>2, <2>3
<1>8. PICK h : Eq(h) /\ WriteAll(d, es) = h[n]
  BY <1>1, <1>7 DEF WriteAll
<1>9. h[0] = d /\ \A i \in 1 .. n : h[i] = Written(h[i - 1], es[i])
  <2>1. 0 \in 0 .. n /\ \A i \in 1 .. n : i \in 0 .. n /\ i # 0
    OBVIOUS
  <2> QED BY <1>8, <2>1
<1>10. h = [i \in 0 .. n |-> h[i]]
  BY <1>8
<1> HIDE DEF Eq
<1>11. \A k \in 0 .. n : h[k] = g[k]
  <2>1. GoAlike(h, g, n)
    BY <1>6, <1>9 DEF GoAlike
  <2> QED BY <2>1, SameSteps DEF Alike
<1>12. h \in [0 .. n -> FileStates]
  BY <1>6, <1>10, <1>11
<1> QED BY <1>1, <1>8, <1>9, <1>12

LEMMA WriteOne ==
  ASSUME NEW d \in FileStates, NEW e \in Real
  PROVE  WriteAll(d, <<e>>) = Written(d, e)
<1>1. PICK es \in Seq(Real) : es = <<e>> /\ Len(es) = 1 /\ es[1] = e
  <2>1. <<e>> \in Seq(Real) /\ Len(<<e>>) = 1 /\ <<e>>[1] = e
    OBVIOUS
  <2> QED BY <2>1
<1>2. PICK f : /\ f[0] = d /\ WriteAll(d, es) = f[Len(es)]
               /\ \A k \in 1 .. Len(es) : f[k] = Written(f[k - 1], es[k])
  BY WriteAllIs
<1>3. f[1] = Written(f[0], e)
  <2>1. 1 \in 1 .. Len(es) /\ 1 - 1 = 0
    BY <1>1
  <2> QED BY <1>1, <1>2, <2>1
<1> QED BY <1>1, <1>2, <1>3

LEMMA WriteMore ==
  ASSUME NEW d \in FileStates, NEW es \in Seq(Real), NEW e \in Real
  PROVE  WriteAll(d, Append(es, e)) = Written(WriteAll(d, es), e)
<1> DEFINE more == Append(es, e)
<1>1. more \in Seq(Real) /\ Len(es) \in Nat /\ Len(more) = Len(es) + 1
      /\ more[Len(es) + 1] = e /\ \A i \in 1 .. Len(es) : more[i] = es[i]
  BY AppendProperties, LenProperties
<1> HIDE DEF more
<1>2. PICK f : /\ f[0] = d /\ WriteAll(d, es) = f[Len(es)]
               /\ \A k \in 1 .. Len(es) : f[k] = Written(f[k - 1], es[k])
  BY WriteAllIs
<1>3. PICK g : /\ g[0] = d /\ WriteAll(d, more) = g[Len(more)]
               /\ \A k \in 1 .. Len(more) : g[k] = Written(g[k - 1], more[k])
  BY <1>1, WriteAllIs
<1>4. PICK n \in Nat : n = Len(es)
  BY <1>1
<1>5. GoAlike(g, f, n)
  <2>1. \A k \in 1 .. n : k \in 1 .. Len(more)
    BY <1>1, <1>4
  <2> QED BY <1>1, <1>2, <1>3, <1>4, <2>1 DEF GoAlike
<1>6. g[n] = f[n]
  <2>1. Alike(g, f, n)
    BY <1>5, SameSteps
  <2>2. n \in 0 .. n
    OBVIOUS
  <2> QED BY <2>1, <2>2 DEF Alike
<1>7. g[n + 1] = Written(g[n], e)
  <2>1. n + 1 \in 1 .. Len(more) /\ (n + 1) - 1 = n /\ more[n + 1] = e
    BY <1>1, <1>4
  <2> QED BY <1>3, <2>1
<1> QED BY <1>1, <1>2, <1>3, <1>4, <1>6, <1>7 DEF more

-----------------------------------------------------------------------------
(* The shape of a log *)

\* A turn starts where the last one was closed, and a report is the first of its
\* turn.  What follows a bad line is not looked at.
ShapedAt(es, n) ==
  /\ es[n].kind = "TurnStart" => n = 1 \/ es[n - 1].kind = "TurnEnd"
  /\ es[n].kind = "Delivery" =>
       \A m \in 1 .. n - 1 : es[m].kind = "Delivery" => \E k \in m .. n : es[k].kind = "TurnEnd"
Shaped(es) == \A n \in 1 .. Len(es) : (\A k \in 1 .. n : IsEvent(es[k])) => ShapedAt(es, n)

\* The last turn is closed; it has a report and goes on.
Closed(es) == es = <<>> \/ Last(es).kind = "TurnEnd"
OpenReport(es) ==
  \E m \in 1 .. Len(es) : es[m].kind = "Delivery" /\ \A k \in m .. Len(es) : es[k].kind # "TurnEnd"

\* What may follow.
Follows(es, e) ==
  /\ e.kind = "TurnStart" => Closed(es)
  /\ e.kind = "Delivery" => ~OpenReport(es)

LEMMA ShapedMore ==
  ASSUME NEW es \in Seq(Lines), NEW e \in Lines, Shaped(es),
         (\A k \in 1 .. Len(es) : IsEvent(es[k])) /\ IsEvent(e) => Follows(es, e)
  PROVE  Shaped(Append(es, e))
<1> DEFINE s == Append(es, e)
<1>1. /\ s \in Seq(Lines) /\ Len(es) \in Nat /\ Len(s) = Len(es) + 1
      /\ s[Len(es) + 1] = e /\ \A i \in 1 .. Len(es) : s[i] = es[i]
  BY AppendProperties, LenProperties
<1> HIDE DEF s
<1>2. PICK N \in Nat : N = Len(es)
  BY <1>1
<1> SUFFICES ASSUME NEW n \in 1 .. N + 1, \A k \in 1 .. n : IsEvent(s[k])
             PROVE  ShapedAt(s, n)
  BY <1>1, <1>2 DEF Shaped, s
<1>3. CASE n \in 1 .. N
  <2>1. \A k \in 1 .. n : k \in 1 .. N /\ s[k] = es[k]
    BY <1>1, <1>2, <1>3
  <2>2. ShapedAt(es, n)
    BY <1>2, <1>3, <2>1 DEF Shaped
  <2>3. s[n] = es[n] /\ (n # 1 => s[n - 1] = es[n - 1])
    BY <1>3, <2>1
  <2>4. \A m \in 1 .. n - 1 : s[m] = es[m] /\ \A k \in m .. n : s[k] = es[k]
    BY <2>1
  <2> QED BY <2>2, <2>3, <2>4 DEF ShapedAt
<1>4. CASE n = N + 1
  <2>1. \A k \in 1 .. N : k \in 1 .. n /\ s[k] = es[k]
    BY <1>1, <1>2, <1>4
  <2>2. s[n] = e /\ IsEvent(e) /\ \A k \in 1 .. N : IsEvent(es[k])
    BY <1>1, <1>2, <1>4, <2>1
  <2>3. Follows(es, e)
    BY <1>2, <2>2
  <2>4. ASSUME e.kind = "TurnStart" PROVE n = 1 \/ s[n - 1].kind = "TurnEnd"
    <3>1. es = <<>> \/ es[N].kind = "TurnEnd"
      BY <1>2, <2>3, <2>4 DEF Follows, Closed, Last
    <3>2. CASE es = <<>>
      BY <1>2, <1>4, <3>2
    <3>3. CASE es[N].kind = "TurnEnd" /\ N # 0
      BY <1>2, <1>4, <2>1, <3>3
    <3>4. CASE N = 0
      BY <1>4, <3>4
    <3> QED BY <3>1, <3>2, <3>3, <3>4
  <2>5. ASSUME e.kind = "Delivery", NEW m \in 1 .. n - 1, s[m].kind = "Delivery"
        PROVE  \E k \in m .. n : s[k].kind = "TurnEnd"
    <3>1. m \in 1 .. N /\ es[m].kind = "Delivery"
      BY <1>4, <2>1, <2>5
    <3>2. PICK k \in m .. N : es[k].kind = "TurnEnd"
      BY <1>2, <2>3, <2>5, <3>1 DEF Follows, OpenReport
    <3>3. k \in m .. n /\ s[k].kind = "TurnEnd"
      BY <1>4, <2>1, <3>2
    <3> QED BY <3>3
  <2> QED BY <2>2, <2>4, <2>5 DEF ShapedAt
<1> QED BY <1>3, <1>4

\* What a crash leaves of a log has its shape.
LEMMA ShapedPrefix ==
  ASSUME NEW es \in Seq(Lines), Shaped(es), NEW n \in 0 .. Len(es)
  PROVE  Shaped(SubSeq(es, 1, n))
<1> DEFINE s == SubSeq(es, 1, n)
<1>1. n \in Nat /\ n <= Len(es) /\ Len(es) \in Nat
  BY LenProperties
<1>2. Len(s) = n /\ \A i \in 1 .. n : s[i] = es[i] /\ i \in 1 .. Len(es)
  BY <1>1, SubSeqProperties
<1> HIDE DEF s
<1> SUFFICES ASSUME NEW i \in 1 .. n, \A k \in 1 .. i : IsEvent(s[k])
             PROVE  ShapedAt(s, i)
  BY <1>2 DEF Shaped, s
<1>3. \A k \in 1 .. i : k \in 1 .. n /\ s[k] = es[k]
  BY <1>1, <1>2
<1>4. ShapedAt(es, i)
  BY <1>2, <1>3 DEF Shaped
<1>5. s[i] = es[i] /\ (i # 1 => s[i - 1] = es[i - 1])
  BY <1>3
<1>6. \A m \in 1 .. i - 1 : s[m] = es[m] /\ \A k \in m .. i : s[k] = es[k]
  BY <1>3
<1> QED BY <1>4, <1>5, <1>6 DEF ShapedAt

LEMMA ShapedNone == Shaped(<<>>) /\ Closed(<<>>) /\ ~OpenReport(<<>>)
<1>1. Len(<<>>) = 0
  OBVIOUS
<1> QED BY <1>1 DEF Shaped, Closed, OpenReport

\* Between two starts, and between two reports, a turn is closed.
LEMMA ShapedOnce ==
  ASSUME NEW es \in Seq(Real), Shaped(es), NEW m \in 1 .. Len(es), NEW n \in 1 .. Len(es), m < n,
         es[m].kind = es[n].kind, es[m].kind \in {"TurnStart", "Delivery"}
  PROVE  \E k \in m .. n : es[k].kind = "TurnEnd"
<1>1. Len(es) \in Nat /\ \A k \in 1 .. Len(es) : es[k] \in Real /\ IsEvent(es[k])
  BY LenProperties, ElementOfSeq, EventsAre
<1>2. \A k \in 1 .. n : IsEvent(es[k])
  BY <1>1
<1>3. ShapedAt(es, n)
  BY <1>2 DEF Shaped
<1>4. n # 1 /\ n - 1 \in m .. n /\ m \in 1 .. n - 1
  BY <1>1
<1> QED BY <1>3, <1>4 DEF ShapedAt

LEMMA AfterMore ==
  ASSUME NEW es \in Seq(Real), NEW e \in Real
  PROVE  /\ Append(es, e) \in Seq(Real) /\ Append(es, e) # <<>> /\ Last(Append(es, e)) = e
         /\ Closed(Append(es, e)) <=> e.kind = "TurnEnd"
         /\ OpenReport(Append(es, e)) => e.kind = "Delivery" \/ (OpenReport(es) /\ e.kind # "TurnEnd")
         /\ \A t : LogTurn(Append(es, e), t) <=> LogTurn(es, t) \/ e.turn = t
<1> DEFINE s == Append(es, e)
<1>1. /\ s \in Seq(Real) /\ Len(es) \in Nat /\ Len(s) = Len(es) + 1 /\ s # <<>>
      /\ s[Len(es) + 1] = e /\ \A i \in 1 .. Len(es) : s[i] = es[i]
  BY AppendProperties, LenProperties
<1> HIDE DEF s
<1>2. PICK N \in Nat : N = Len(es)
  BY <1>1
<1>3. Last(s) = e
  BY <1>1 DEF Last
<1>4. ASSUME OpenReport(s), e.kind # "Delivery" PROVE OpenReport(es) /\ e.kind # "TurnEnd"
  <2>1. PICK m \in 1 .. N + 1 : s[m].kind = "Delivery" /\ \A k \in m .. N + 1 : s[k].kind # "TurnEnd"
    BY <1>1, <1>2, <1>4 DEF OpenReport
  <2>2. m \in 1 .. N
    BY <1>1, <1>2, <1>4, <2>1
  <2>3. \A k \in m .. N : k \in m .. N + 1 /\ k \in 1 .. N
    BY <2>2
  <2>4. es[m].kind = "Delivery" /\ \A k \in m .. N : es[k].kind # "TurnEnd"
    BY <1>1, <1>2, <2>1, <2>2, <2>3
  <2>5. N + 1 \in m .. N + 1
    BY <2>2
  <2> QED BY <1>1, <1>2, <2>1, <2>2, <2>4, <2>5 DEF OpenReport
<1>5. ASSUME NEW t PROVE LogTurn(s, t) <=> LogTurn(es, t) \/ e.turn = t
  <2>1. \A n \in 1 .. Len(s) : n \in 1 .. Len(es) \/ n = Len(es) + 1
    BY <1>1
  <2>2. Len(es) + 1 \in 1 .. Len(s) /\ \A n \in 1 .. Len(es) : n \in 1 .. Len(s)
    BY <1>1
  <2> QED BY <1>1, <2>1, <2>2 DEF LogTurn
<1> QED BY <1>1, <1>3, <1>4, <1>5 DEF s, Closed

\* What closes an interrupted turn.
LEMMA ClosingIs ==
  ASSUME NEW es \in Seq(Real)
  PROVE  /\ Closed(es) => Closing(es) = <<>>
         /\ ~Closed(es) => \/ Closing(es) = <<Event("Output", 0), Event("TurnEnd", 0)>>
                           \/ /\ Closing(es) = <<Event("Delivery", 0), Event("Output", 0), Event("TurnEnd", 0)>>
                              /\ Shaped(es) => ~OpenReport(es)
<1> DEFINE told == \E n \in DOMAIN es : es[n].kind = "Delivery" /\ \A k \in n .. Len(es) : es[k].kind # "TurnStart"
<1>1. CASE Closed(es)
  BY <1>1 DEF Closed, Closing
<1>2. CASE ~Closed(es) /\ told
  BY <1>2 DEF Closed, Closing
<1>3. CASE ~Closed(es) /\ ~told
  <2>1. Closing(es) = <<Event("Delivery", 0), Event("Output", 0), Event("TurnEnd", 0)>>
    BY <1>3 DEF Closed, Closing
  <2>3. ASSUME Shaped(es), OpenReport(es) PROVE FALSE
    <3>1. PICK m \in 1 .. Len(es) : es[m].kind = "Delivery" /\ \A k \in m .. Len(es) : es[k].kind # "TurnEnd"
      BY <2>3 DEF OpenReport
    <3>2. DOMAIN es = 1 .. Len(es) /\ Len(es) \in Nat
      BY LenProperties
    <3>3. PICK k \in m .. Len(es) : es[k].kind = "TurnStart"
      BY <1>3, <3>1, <3>2
    <3>4. k # m /\ k \in 1 .. Len(es) /\ k - 1 \in m .. Len(es) /\ k # 1
      BY <3>1, <3>2, <3>3
    <3>5. \A i \in 1 .. k : IsEvent(es[i])
      <4>1. \A i \in 1 .. k : i \in 1 .. Len(es)
        BY <3>2, <3>4
      <4> QED BY <4>1, ElementOfSeq, EventsAre
    <3>6. ShapedAt(es, k)
      BY <2>3, <3>4, <3>5 DEF Shaped
    <3> QED BY <3>1, <3>3, <3>4, <3>6 DEF ShapedAt
  <2> QED BY <1>3, <2>1, <2>3
<1> QED BY <1>1, <1>2, <1>3

-----------------------------------------------------------------------------
(* A state in memory and its file *)

States == [file : Files, events : Seq(Real), writer : {"none", "open", "gone"}, torn : BOOLEAN]

\* What a state shows is what its file has, unless a crash cut the file or the
\* file was removed; and what is whole has the shape of a log.
Backed(s, d) ==
  /\ s \in States /\ d \in FileStates \cup {Nothing}
  /\ s.writer = "open" => d # Nothing
  /\ s.writer # "gone" /\ d # Nothing => /\ (s.torn <=> ~Whole(d))
                                         /\ ~s.torn => d.lines = s.events
  /\ s.writer # "gone" /\ d = Nothing => s.events = <<>> /\ ~s.torn
  /\ ~s.torn => Shaped(s.events)
  /\ d # Nothing => Shaped(d.lines)

\* The invariant, in parts.
SessionTypes ==
  /\ disk \in [Files -> FileStates \cup {Nothing}] /\ state \in [Handles -> States]
  /\ view \in Handles \cup {Nothing} /\ pinned \in [Turns -> Handles \cup {Nothing}]
  /\ phase \in [Turns -> {"new", "started", "spoke", "delivered", "over"}]

\* as lists the files that dk has, which are among us.
Listed(as, dk, us) ==
  /\ us \subseteq Files /\ as \in Seq(Files) /\ OnlyOnce(as)
  /\ Range(as) = {f \in Files : dk[f] # Nothing} /\ Range(as) \subseteq us
  /\ \A f \in Files : dk[f] # Nothing => Shaped(dk[f].lines)

FilesListed == Listed(ages, disk, used)

\* A turn at work holds a state of its own, in which it has spoken.
TurnsPinned ==
  /\ view = Nothing => \A t \in Turns : pinned[t] = Nothing
  /\ \A t \in Turns : pinned[t] # Nothing <=> phase[t] \in {"started", "spoke", "delivered"}
  /\ \A t, u \in Turns : pinned[t] = pinned[u] /\ pinned[t] # Nothing => t = u
  /\ \A t \in Turns : pinned[t] # Nothing =>
       LET s == state[pinned[t]] IN
       /\ s.writer # "none" /\ LogTurn(s.events, t)
       /\ ~s.torn /\ phase[t] # "delivered" => ~OpenReport(s.events)

HandlesBacked ==
  \A h \in Handles : Live(h) =>
    /\ Backed(state[h], disk[state[h].file]) /\ state[h].file \in used
    /\ ~Running(h) => Closed(state[h].events)

\* A session in which a turn has a line, on the disk or in memory.
Carries(f, t) ==
  \/ Exists(f) /\ DiskTurn(disk[f], t)
  \/ \E h \in Handles : Live(h) /\ state[h].file = f /\ LogTurn(state[h].events, t)

TurnsAtHome ==
  \A t \in Turns, f \in Files : Carries(f, t) =>
    phase[t] # "new" /\ \A g \in Files : Carries(g, t) => f = g

SessionInv ==
  /\ SessionTypes /\ FilesListed /\ TurnsPinned /\ HandlesBacked /\ OneStatePerFile /\ TurnsAtHome

-----------------------------------------------------------------------------
(* One event through a state *)

StateAfter(s, e) == Appended(s, <<e>>)
FileAfter(s, d, e) == IF s.writer = "gone" THEN d ELSE Written(IF d = Nothing THEN NewFile ELSE d, e)

LEMMA StatesAre ==
  /\ \A s \in States : /\ s.file \in Files /\ s.events \in Seq(Real) /\ s.torn \in BOOLEAN
                       /\ s.writer \in {"none", "open", "gone"}
  /\ \A f \in Files : /\ Fresh(f) \in States /\ Fresh(f).file = f /\ Fresh(f).events = <<>>
                      /\ Fresh(f).writer = "none" /\ ~Fresh(f).torn
  /\ \A f \in Files, es \in Seq(Real), b \in BOOLEAN :
       LET s == [Fresh(f) EXCEPT !.events = es, !.torn = b]
       IN  s \in States /\ s.file = f /\ s.events = es /\ s.writer = "none" /\ s.torn = b
<1>1. \A s \in States : /\ s.file \in Files /\ s.events \in Seq(Real) /\ s.torn \in BOOLEAN
                        /\ s.writer \in {"none", "open", "gone"}
  BY DEF States
<1>2. \A f \in Files : /\ Fresh(f) \in States /\ Fresh(f).file = f /\ Fresh(f).events = <<>>
                       /\ Fresh(f).writer = "none" /\ ~Fresh(f).torn
  BY DEF Fresh, States
<1>3. \A f \in Files, es \in Seq(Real), b \in BOOLEAN :
        LET s == [Fresh(f) EXCEPT !.events = es, !.torn = b]
        IN  s \in States /\ s.file = f /\ s.events = es /\ s.writer = "none" /\ s.torn = b
  BY DEF Fresh, States
<1> QED BY <1>1, <1>2, <1>3

LEMMA AppendedIs ==
  ASSUME NEW s \in States, NEW es \in Seq(Real)
  PROVE  LET a == Appended(s, es)
         IN  /\ a \in States /\ a.file = s.file /\ a.torn = s.torn /\ a.events = s.events \o es
             /\ a.writer = IF s.writer = "none" /\ es # <<>> THEN "open" ELSE s.writer
<1>1. s.events \o es \in Seq(Real)
  BY ConcatProperties DEF States
<1> QED BY <1>1 DEF States, Appended

LEMMA StateAfterIs ==
  ASSUME NEW s \in States, NEW e \in Real
  PROVE  LET a == StateAfter(s, e)
         IN  /\ a \in States /\ a.file = s.file /\ a.torn = s.torn /\ a.events = Append(s.events, e)
             /\ a.writer = IF s.writer = "none" THEN "open" ELSE s.writer
             /\ a.writer # "none"
<1>1. <<e>> \in Seq(Real) /\ <<e>> # <<>>
  OBVIOUS
<1>2. s.events \o <<e>> = Append(s.events, e)
  BY AppendIsConcat DEF States
<1>3. s.writer \in {"none", "open", "gone"}
  BY DEF States
<1> QED BY <1>1, <1>2, <1>3, AppendedIs DEF StateAfter

\* An event leaves a state and its file backed.
LEMMA BackedMore ==
  ASSUME NEW s, NEW d, Backed(s, d), NEW e \in Real, ~s.torn => Follows(s.events, e)
  PROVE  /\ Backed(StateAfter(s, e), FileAfter(s, d, e))
         /\ \A t \in Turns : FileAfter(s, d, e) # Nothing /\ DiskTurn(FileAfter(s, d, e), t) =>
              (d # Nothing /\ DiskTurn(d, t)) \/ e.turn = t
         /\ s.writer = "gone" => FileAfter(s, d, e) = d
         /\ s.writer # "gone" => FileAfter(s, d, e) \in FileStates
<1> DEFINE a == StateAfter(s, e)
           w == FileAfter(s, d, e)
           b == IF d = Nothing THEN NewFile ELSE d
<1>1. s \in States /\ d \in FileStates \cup {Nothing} /\ Nothing \notin FileStates /\ b \in FileStates
  BY FilesAre DEF Backed
<1>2. /\ a \in States /\ a.file = s.file /\ a.torn = s.torn /\ a.events = Append(s.events, e)
      /\ a.writer = (IF s.writer = "none" THEN "open" ELSE s.writer) /\ a.writer # "none"
  BY <1>1, StateAfterIs
<1> HIDE DEF a
<1>3. ~a.torn => Shaped(a.events)
  <2>1. s.events \in Seq(Real) /\ s.events \in Seq(Lines) /\ e \in Lines
    <3>1. s.events \in Seq(Real)
      BY <1>1, StatesAre
    <3>2. Len(s.events) \in Nat /\ \A i \in 1 .. Len(s.events) : s.events[i] \in Lines
      BY <3>1, ElementOfSeq, LenProperties, EventsAre
    <3>3. s.events = [i \in 1 .. Len(s.events) |-> s.events[i]]
      BY <3>1
    <3>4. s.events \in Seq(Lines)
      BY <3>2, <3>3, IsASeq
    <3> QED BY <3>1, <3>4, EventsAre
  <2> QED BY <1>2, <2>1, ShapedMore DEF Backed
<1>4. CASE s.writer = "gone"
  <2>1. w = d
    BY <1>4 DEF FileAfter
  <2>2. a.writer = "gone"
    BY <1>2, <1>4
  <2> HIDE DEF w
  <2>3. d # Nothing => Shaped(d.lines)
    BY DEF Backed
  <2>4. Backed(a, w)
    BY <1>1, <1>2, <1>3, <2>1, <2>2, <2>3 DEF Backed
  <2> QED BY <1>4, <2>1, <2>4 DEF a, w
<1>5. CASE s.writer # "gone"
  <2>1. w = Written(b, e)
    BY <1>5 DEF FileAfter
  <2> HIDE DEF w
  <2>2. /\ w \in FileStates
        /\ Whole(b) => Whole(w) /\ w.lines = Append(b.lines, e)
        /\ ~Whole(b) => /\ ~Whole(w)
                        /\ \E l \in Lines : /\ w.lines = Append(b.lines, l)
                                            /\ IsEvent(l) => \E n \in 1 .. Len(b.lines) : ~IsEvent(b.lines[n])
        /\ \A t \in Turns : DiskTurn(w, t) => DiskTurn(b, t) \/ e.turn = t
    BY <1>1, <2>1, WrittenIs
  <2>3. Shaped(b.lines) /\ (s.torn <=> ~Whole(b)) /\ (~s.torn => b.lines = s.events) /\ b.lines \in Seq(Lines)
    <3>1. CASE d = Nothing
      <4>1. b.lines = <<>> /\ b.tail = NoTail /\ s.events = <<>> /\ ~s.torn
        BY <1>5, <3>1 DEF NewFile, Backed
      <4>2. Whole(b)
        BY <4>1 DEF Whole
      <4>3. b.lines \in Seq(Lines) /\ Shaped(b.lines)
        BY <1>1, <4>1, ShapedNone, FilesAre
      <4> QED BY <4>1, <4>2, <4>3
    <3>2. CASE d # Nothing
      <4>1. b = d /\ d \in FileStates
        BY <1>1, <3>2
      <4>2. d.lines \in Seq(Lines)
        BY <4>1, FilesAre
      <4> QED BY <1>5, <3>2, <4>1, <4>2 DEF Backed
    <3> QED BY <3>1, <3>2
  <2>4. ASSUME ~s.torn PROVE Backed(a, w)
    <3>1. Whole(b) /\ Whole(w) /\ w.lines = a.events
      BY <1>2, <2>2, <2>3, <2>4
    <3>2. Shaped(w.lines)
      BY <1>2, <1>3, <2>4, <3>1
    <3>3. a.writer # "gone" /\ w # Nothing /\ ~a.torn /\ Shaped(a.events)
      BY <1>1, <1>2, <1>3, <1>5, <2>2, <2>4
    <3> QED BY <1>2, <2>2, <3>1, <3>2, <3>3 DEF Backed
  <2>5. ASSUME s.torn PROVE Backed(a, w)
    <3>1. ~Whole(b) /\ ~Whole(w)
      BY <2>2, <2>3, <2>5
    <3>2. PICK l \in Lines : /\ w.lines = Append(b.lines, l)
                             /\ IsEvent(l) => \E n \in 1 .. Len(b.lines) : ~IsEvent(b.lines[n])
      BY <2>2, <3>1
    <3>3. Shaped(w.lines)
      BY <2>3, <3>2, ShapedMore
    <3>4. a.torn
      BY <1>2, <2>5
    <3>5. w # Nothing
      BY <1>1, <2>2
    <3> QED BY <1>2, <2>2, <3>1, <3>3, <3>4, <3>5 DEF Backed
  <2>6. Backed(a, w)
    BY <2>4, <2>5
  <2>7. ASSUME NEW t \in Turns, DiskTurn(b, t) PROVE d # Nothing /\ DiskTurn(d, t)
    <3>1. ~DiskTurn(NewFile, t)
      <4>1. t # 0 /\ Len(<<>>) = 0
        BY SessionAssumption
      <4> QED BY <4>1, EventsAre DEF DiskTurn, NewFile
    <3> QED BY <2>7, <3>1
  <2> QED BY <1>5, <2>2, <2>6, <2>7 DEF a, w
<1> QED BY <1>4, <1>5

\* Events through a state, one after the other.
LEMMA AppendedMore ==
  ASSUME NEW s \in States, NEW es \in Seq(Real), NEW e \in Real
  PROVE  Appended(s, Append(es, e)) = StateAfter(Appended(s, es), e)
<1> DEFINE a == Appended(s, es)
           b == Appended(s, Append(es, e))
           c == StateAfter(a, e)
<1>1. Append(es, e) \in Seq(Real) /\ Append(es, e) # <<>> /\ s.events \in Seq(Real)
  <2>1. Append(es, e) \in Seq(Real) /\ Append(es, e) # <<>>
    BY AfterMore
  <2> QED BY <2>1, StatesAre
<1>2. /\ a \in States /\ a.file = s.file /\ a.torn = s.torn /\ a.events = s.events \o es
      /\ a.writer = IF s.writer = "none" /\ es # <<>> THEN "open" ELSE s.writer
  BY AppendedIs
<1>3. /\ b \in States /\ b.file = s.file /\ b.torn = s.torn /\ b.events = s.events \o Append(es, e)
      /\ b.writer = IF s.writer = "none" THEN "open" ELSE s.writer
  BY <1>1, AppendedIs
<1> HIDE DEF a, b
<1>4. /\ c \in States /\ c.file = a.file /\ c.torn = a.torn /\ c.events = Append(a.events, e)
      /\ c.writer = IF a.writer = "none" THEN "open" ELSE a.writer
  BY <1>2, StateAfterIs
<1> HIDE DEF c
<1>5. s.events \o Append(es, e) = Append(s.events \o es, e)
  <2>1. Append(es, e) = es \o <<e>> /\ <<e>> \in Seq(Real) /\ s.events \o es \in Seq(Real)
    BY <1>1, AppendIsConcat, ConcatProperties
  <2>2. Append(s.events \o es, e) = (s.events \o es) \o <<e>>
    BY <2>1, AppendIsConcat
  <2>3. s.events \o (es \o <<e>>) = (s.events \o es) \o <<e>>
    <3>1. PICK se \in Seq(Real) : se = s.events
      BY <1>1
    <3>2. PICK one \in Seq(Real) : one = <<e>>
      BY <2>1
    <3>3. se \o (es \o one) = (se \o es) \o one
      BY ConcatAssociative
    <3> QED BY <3>1, <3>2, <3>3
  <2> QED BY <2>1, <2>2, <2>3
<1>6. b.events = c.events /\ b.writer = c.writer /\ b.file = c.file /\ b.torn = c.torn
  BY <1>2, <1>3, <1>4, <1>5
<1>7. b = c
  <2>1. b \in States
    BY <1>3
  <2>2. c \in States
    BY <1>4
  <2> QED BY <1>6, <2>1, <2>2 DEF States
<1> QED BY <1>7 DEF a, b, c

LEMMA Appending ==
  ASSUME NEW a \in Real, NEW b \in Real, NEW c \in Real
  PROVE  /\ <<a>> \in Seq(Real) /\ <<a, b>> \in Seq(Real) /\ <<a, b>> # <<>> /\ <<a, b, c>> # <<>>
         /\ Append(<<a>>, b) = <<a, b>> /\ Append(<<a, b>>, c) = <<a, b, c>>
<1>1. <<a>> \in Seq(Real) /\ <<a, b>> \in Seq(Real) /\ <<a, b, c>> \in Seq(Real) /\ <<a, b>> # <<>> /\ <<a, b, c>> # <<>>
  OBVIOUS
<1>2. Append(<<a>>, b) = <<a, b>>
  <2> DEFINE v == Append(<<a>>, b)
             w == <<a, b>>
  <2>1. Len(<<a>>) = 1 /\ <<a>>[1] = a
    OBVIOUS
  <2>2. v \in Seq(Real) /\ Len(v) = 2 /\ v[1] = a /\ v[2] = b
    BY <1>1, <2>1, AppendProperties
  <2>3. w \in Seq(Real) /\ Len(w) = 2 /\ w[1] = a /\ w[2] = b
    BY <1>1
  <2> HIDE DEF v, w
  <2>4. \A i \in 1 .. Len(v) : v[i] = w[i]
    BY <2>2, <2>3
  <2>5. v = w
    BY <2>2, <2>3, <2>4, SeqEqual
  <2> QED BY <2>5 DEF v, w
<1>3. Append(<<a, b>>, c) = <<a, b, c>>
  <2> DEFINE v == Append(<<a, b>>, c)
             w == <<a, b, c>>
  <2>1. Len(<<a, b>>) = 2 /\ <<a, b>>[1] = a /\ <<a, b>>[2] = b
    OBVIOUS
  <2>2. v \in Seq(Real) /\ Len(v) = 3 /\ v[1] = a /\ v[2] = b /\ v[3] = c
    BY <1>1, <2>1, AppendProperties
  <2>3. w \in Seq(Real) /\ Len(w) = 3 /\ w[1] = a /\ w[2] = b /\ w[3] = c
    BY <1>1
  <2> HIDE DEF v, w
  <2>4. \A i \in 1 .. Len(v) : v[i] = w[i]
    BY <2>2, <2>3
  <2>5. v = w
    BY <2>2, <2>3, <2>4, SeqEqual
  <2> QED BY <2>5 DEF v, w
<1> QED BY <1>1, <1>2, <1>3

-----------------------------------------------------------------------------
(* A file that is opened *)

FromFile(f, d) == [Fresh(f) EXCEPT !.events = Loaded(d), !.torn = ~Whole(d)]

LEMMA LoadedIs ==
  ASSUME NEW d \in FileStates
  PROVE  /\ Loaded(d) \in Seq(Real)
         /\ Whole(d) => Loaded(d) = d.lines
         /\ \A t \in Turns : LogTurn(Loaded(d), t) => DiskTurn(d, t)
<1> DEFINE all == IF d.tail = NoTail THEN d.lines ELSE Append(d.lines, d.tail)
           kept == Kept(all, Real)
<1>1. d.lines \in Seq(Lines) /\ d.tail \in Lines \cup {NoTail} /\ Len(d.lines) \in Nat
  BY FilesAre
<1>2. all \in Seq(Lines) /\ \A n \in 1 .. Len(all) : all[n] = d.tail \/ (n \in 1 .. Len(d.lines) /\ all[n] = d.lines[n])
  <2>1. CASE d.tail = NoTail
    BY <1>1, <2>1
  <2>2. CASE d.tail # NoTail
    <3> DEFINE v == Append(d.lines, d.tail)
    <3>1. /\ v \in Seq(Lines) /\ Len(v) = Len(d.lines) + 1 /\ v[Len(d.lines) + 1] = d.tail
          /\ \A i \in 1 .. Len(d.lines) : v[i] = d.lines[i]
      BY <1>1, <2>2, AppendProperties
    <3>2. all = v
      BY <2>2
    <3> HIDE DEF v, all
    <3>3. \A n \in 1 .. Len(v) : n \in 1 .. Len(d.lines) \/ n = Len(d.lines) + 1
      BY <1>1, <3>1
    <3> QED BY <3>1, <3>2, <3>3
  <2> QED BY <2>1, <2>2
<1>3. Loaded(d) = IF \E n \in DOMAIN all : all[n].kind = "broken" THEN <<>> ELSE kept
  BY DEF Loaded, Real
<1>4. Whole(d) => all = d.lines
  BY DEF Whole
<1> HIDE DEF all, kept
<1>5. DOMAIN all = 1 .. Len(all) /\ Len(all) \in Nat
  BY <1>2, LenProperties
<1>6. kept \in Seq(Lines) /\ Range(kept) = Range(all) \cap Real /\ (Range(all) \subseteq Real => kept = all)
  BY <1>2, KeptRange DEF kept
<1>7. DOMAIN kept = 1 .. Len(kept) /\ Len(kept) \in Nat /\ kept = [n \in 1 .. Len(kept) |-> kept[n]]
  BY <1>6, LenProperties
<1>8. \A n \in 1 .. Len(kept) : kept[n] \in Real /\ \E m \in 1 .. Len(all) : all[m] = kept[n]
  <2>1. ASSUME NEW n \in 1 .. Len(kept) PROVE kept[n] \in Range(kept)
    BY <1>7 DEF Range
  <2>2. Range(all) = {all[m] : m \in 1 .. Len(all)}
    BY <1>5 DEF Range
  <2> QED BY <1>6, <2>1, <2>2
<1>9. kept \in Seq(Real)
  BY <1>7, <1>8, IsASeq
<1>10. Loaded(d) \in Seq(Real)
  BY <1>3, <1>9
<1>11. ASSUME Whole(d) PROVE Loaded(d) = d.lines
  <2>1. \A n \in 1 .. Len(all) : all[n] \in Lines /\ IsEvent(all[n])
    BY <1>2, <1>4, <1>5, <1>11, ElementOfSeq DEF Whole
  <2>2. \A n \in 1 .. Len(all) : all[n].kind # "broken" /\ all[n] \in Real
    BY <2>1 DEF Real, IsEvent
  <2>3. Range(all) \subseteq Real
    BY <1>5, <2>2 DEF Range
  <2> QED BY <1>3, <1>4, <1>5, <1>6, <1>11, <2>2, <2>3
<1>12. ASSUME NEW t \in Turns, LogTurn(Loaded(d), t) PROVE DiskTurn(d, t)
  <2>1. ~LogTurn(<<>>, t)
    <3>1. Len(<<>>) = 0
      OBVIOUS
    <3> QED BY <3>1 DEF LogTurn
  <2>2. LogTurn(kept, t)
    BY <1>3, <1>12, <2>1
  <2>3. PICK n \in 1 .. Len(kept) : kept[n].turn = t
    BY <2>2 DEF LogTurn
  <2>4. PICK m \in 1 .. Len(all) : all[m] = kept[n]
    BY <1>8
  <2> QED BY <1>2, <2>3, <2>4 DEF DiskTurn
<1> QED BY <1>10, <1>11, <1>12

LEMMA FromFileIs ==
  ASSUME NEW f \in Files, NEW d \in FileStates, Shaped(d.lines)
  PROVE  LET s == FromFile(f, d)
         IN  Backed(s, d) /\ s.file = f /\ s.events = Loaded(d) /\ s.writer = "none"
<1> DEFINE s == FromFile(f, d)
<1>1. Loaded(d) \in Seq(Real) /\ (Whole(d) => Loaded(d) = d.lines)
  BY LoadedIs
<1>2. (~Whole(d)) \in BOOLEAN
  OBVIOUS
<1>3. s \in States /\ s.file = f /\ s.events = Loaded(d) /\ s.writer = "none" /\ (s.torn <=> ~Whole(d))
  BY <1>1, <1>2 DEF FromFile, Fresh, States
<1> HIDE DEF s
<1>4. d # Nothing
  BY FilesAre
<1>5. Backed(s, d)
  BY <1>1, <1>3, <1>4 DEF Backed
<1> QED BY <1>3, <1>5 DEF s

\* Its last turn is closed.
LEMMA ClosedIs ==
  ASSUME NEW s, NEW d \in FileStates, Backed(s, d), s.writer = "none"
  PROVE  LET es == Closing(s.events)
             a  == Appended(s, es)
             w  == IF es = <<>> THEN d ELSE WriteAll(d, es)
         IN  /\ es \in Seq(Real) /\ Backed(a, w) /\ a.file = s.file /\ Closed(a.events) /\ w \in FileStates
             /\ \A t \in Turns : /\ DiskTurn(w, t) => DiskTurn(d, t)
                                 /\ LogTurn(a.events, t) => LogTurn(s.events, t)
<1> DEFINE es == Closing(s.events)
           D == Event("Delivery", 0)
           O == Event("Output", 0)
           T == Event("TurnEnd", 0)
<1>1. s \in States /\ s.events \in Seq(Real) /\ d # Nothing /\ (~s.torn => Shaped(s.events))
  BY StatesAre, FilesAre DEF Backed
<1>2. /\ D \in Real /\ D.kind = "Delivery" /\ D.turn = 0 /\ O \in Real /\ O.kind = "Output" /\ O.turn = 0
      /\ T \in Real /\ T.kind = "TurnEnd" /\ T.turn = 0
  BY EventsAre DEF Event
<1>3. \A t \in Turns : t # 0
  BY SessionAssumption
<1>4. /\ Closed(s.events) => es = <<>>
      /\ ~Closed(s.events) => \/ es = <<O, T>>
                              \/ es = <<D, O, T>> /\ (Shaped(s.events) => ~OpenReport(s.events))
  BY <1>1, ClosingIs
<1> HIDE DEF es, D, O, T
<1> DEFINE OK(a, w) == /\ Backed(a, w) /\ a.file = s.file /\ w \in FileStates /\ a.writer # "gone"
                       /\ \A t \in Turns : /\ DiskTurn(w, t) => DiskTurn(d, t)
                                           /\ LogTurn(a.events, t) => LogTurn(s.events, t)
<1>5. ASSUME NEW a, NEW w, OK(a, w), NEW e \in {D, O, T}, ~a.torn => Follows(a.events, e)
      PROVE  /\ OK(StateAfter(a, e), Written(w, e)) /\ StateAfter(a, e).events = Append(a.events, e)
             /\ StateAfter(a, e).torn = a.torn
  <2>1. e \in Real /\ e.turn = 0 /\ a \in States /\ w # Nothing /\ a.events \in Seq(Real)
    BY <1>2, <1>5, StatesAre, FilesAre DEF Backed
  <2>2. FileAfter(a, w, e) = Written(w, e)
    BY <1>5, <2>1 DEF FileAfter
  <2>3. /\ Backed(StateAfter(a, e), Written(w, e)) /\ Written(w, e) \in FileStates
        /\ \A t \in Turns : Written(w, e) # Nothing /\ DiskTurn(Written(w, e), t) => DiskTurn(w, t) \/ e.turn = t
    BY <1>5, <2>1, <2>2, BackedMore
  <2>4. /\ StateAfter(a, e).file = a.file /\ StateAfter(a, e).events = Append(a.events, e)
        /\ StateAfter(a, e).torn = a.torn
        /\ StateAfter(a, e).writer = IF a.writer = "none" THEN "open" ELSE a.writer
    BY <2>1, StateAfterIs
  <2>5. \A t : LogTurn(Append(a.events, e), t) <=> LogTurn(a.events, t) \/ e.turn = t
    BY <2>1, AfterMore
  <2>6. Written(w, e) # Nothing
    BY <2>3, FilesAre
  <2> QED BY <1>3, <1>5, <2>1, <2>3, <2>4, <2>5, <2>6
<1>6. OK(s, d)
  BY <1>1
<1>7. \A xs : Follows(xs, O) /\ Follows(xs, T)
  BY <1>2 DEF Follows
<1> DEFINE Goal(a, w) == es \in Seq(Real) /\ Backed(a, w) /\ a.file = s.file /\ Closed(a.events) /\ w \in FileStates
                         /\ \A t \in Turns : /\ DiskTurn(w, t) => DiskTurn(d, t)
                                             /\ LogTurn(a.events, t) => LogTurn(s.events, t)
<1>8. CASE es = <<>>
  <2>1. Appended(s, es) = s /\ es \in Seq(Real) /\ Closed(s.events)
    <3>1. <<>> \in Seq(Real) /\ s.events \o <<>> = s.events /\ <<O, T>> # <<>> /\ <<D, O, T>> # <<>>
      BY <1>1
    <3>2. LET a == Appended(s, <<>>)
          IN  a \in States /\ a.file = s.file /\ a.torn = s.torn /\ a.events = s.events /\ a.writer = s.writer
      BY <1>1, <3>1, AppendedIs
    <3>3. Appended(s, <<>>) = s
      BY <1>1, <3>2 DEF States
    <3> QED BY <1>4, <1>8, <3>1, <3>3
  <2> QED BY <1>6, <1>8, <2>1 DEF es
<1>9. CASE es = <<O, T>>
  <2>1. <<O>> \in Seq(Real) /\ es = Append(<<O>>, T) /\ es \in Seq(Real) /\ es # <<>>
    BY <1>2, <1>9, Appending
  <2>2. Appended(s, es) = StateAfter(StateAfter(s, O), T)
    BY <1>1, <1>2, <2>1, AppendedMore DEF StateAfter
  <2>3. WriteAll(d, es) = Written(Written(d, O), T)
    <3>1. WriteAll(d, <<O>>) = Written(d, O)
      BY <1>1, <1>2, WriteOne
    <3>2. WriteAll(d, Append(<<O>>, T)) = Written(WriteAll(d, <<O>>), T)
      BY <1>1, <1>2, <2>1, WriteMore
    <3> QED BY <2>1, <3>1, <3>2
  <2>4. OK(StateAfter(s, O), Written(d, O)) /\ StateAfter(s, O).events = Append(s.events, O)
    BY <1>5, <1>6, <1>7
  <2>5. OK(StateAfter(StateAfter(s, O), T), Written(Written(d, O), T))
        /\ StateAfter(StateAfter(s, O), T).events = Append(Append(s.events, O), T)
    BY <1>5, <1>7, <2>4
  <2>6. Closed(Append(Append(s.events, O), T))
    BY <1>1, <1>2, AfterMore
  <2> QED BY <2>1, <2>2, <2>3, <2>5, <2>6 DEF es
<1>10. CASE es = <<D, O, T>> /\ (Shaped(s.events) => ~OpenReport(s.events))
  <2>1. <<D>> \in Seq(Real) /\ <<D, O>> \in Seq(Real) /\ <<D, O>> = Append(<<D>>, O) /\ es = Append(<<D, O>>, T) /\ es # <<>>
    BY <1>2, <1>10, Appending
  <2>7. es \in Seq(Real)
    BY <1>2, <2>1, AppendProperties
  <2>2. Appended(s, es) = StateAfter(StateAfter(StateAfter(s, D), O), T)
    <3>1. Appended(s, <<D, O>>) = StateAfter(StateAfter(s, D), O)
      BY <1>1, <1>2, <2>1, AppendedMore DEF StateAfter
    <3>2. Appended(s, es) = StateAfter(Appended(s, <<D, O>>), T)
      BY <1>1, <1>2, <2>1, AppendedMore
    <3> QED BY <3>1, <3>2
  <2>3. WriteAll(d, es) = Written(Written(Written(d, D), O), T)
    <3>1. WriteAll(d, <<D, O>>) = Written(Written(d, D), O)
      BY <1>2, <2>1, WriteOne, WriteMore
    <3>2. WriteAll(d, es) = Written(WriteAll(d, <<D, O>>), T)
      BY <1>2, <2>1, WriteMore
    <3> QED BY <3>1, <3>2
  <2>8. ~s.torn => Follows(s.events, D)
    BY <1>1, <1>2, <1>10 DEF Follows
  <2>4. OK(StateAfter(s, D), Written(d, D)) /\ StateAfter(s, D).events = Append(s.events, D)
    BY <1>5, <1>6, <2>8
  <2>5. OK(StateAfter(StateAfter(s, D), O), Written(Written(d, D), O))
        /\ StateAfter(StateAfter(s, D), O).events = Append(Append(s.events, D), O)
    BY <1>5, <1>7, <2>4
  <2>6. OK(StateAfter(StateAfter(StateAfter(s, D), O), T), Written(Written(Written(d, D), O), T))
        /\ StateAfter(StateAfter(StateAfter(s, D), O), T).events = Append(Append(Append(s.events, D), O), T)
    BY <1>5, <1>7, <2>5
  <2>9. Closed(Append(Append(Append(s.events, D), O), T))
    BY <1>1, <1>2, AfterMore
  <2> QED BY <2>1, <2>2, <2>3, <2>6, <2>7, <2>9 DEF es
<1> QED BY <1>4, <1>8, <1>9, <1>10

-----------------------------------------------------------------------------
(* The list of files *)

Disks == [Files -> FileStates \cup {Nothing}]

LEMMA AgesMoved ==
  ASSUME NEW as \in Seq(Files), OnlyOnce(as), NEW f \in Files
  PROVE  LET n == Append(Kept(as, Files \ {f}), f)
         IN  n \in Seq(Files) /\ OnlyOnce(n) /\ Range(n) = Range(as) \cup {f}
<1> DEFINE k == Kept(as, Files \ {f})
           n == Append(k, f)
<1>1. k \in Seq(Files) /\ Range(k) = Range(as) \cap (Files \ {f}) /\ OnlyOnce(k)
  BY KeptRange
<1> HIDE DEF k
<1>2. /\ n \in Seq(Files) /\ Len(n) = Len(k) + 1 /\ n[Len(k) + 1] = f
      /\ \A i \in 1 .. Len(k) : n[i] = k[i]
  BY <1>1, AppendProperties
<1> HIDE DEF n
<1>3. DOMAIN k = 1 .. Len(k) /\ DOMAIN n = 1 .. Len(n) /\ Len(k) \in Nat
  BY <1>1, <1>2, LenProperties
<1>4. \A i \in 1 .. Len(n) : i \in 1 .. Len(k) \/ i = Len(k) + 1
  BY <1>2, <1>3
<1>5. Len(k) + 1 \in 1 .. Len(n) /\ \A i \in 1 .. Len(k) : i \in 1 .. Len(n) /\ k[i] \in Range(k)
  BY <1>2, <1>3 DEF Range
<1>6. OnlyOnce(n)
  BY <1>1, <1>2, <1>4, <1>5 DEF OnlyOnce
<1>7. Range(n) = Range(k) \cup {f}
  <2>1. Range(n) = {n[i] : i \in 1 .. Len(n)} /\ Range(k) = {k[i] : i \in 1 .. Len(k)}
    BY <1>3 DEF Range
  <2>2. ASSUME NEW x \in Range(n) PROVE x \in Range(k) \cup {f}
    BY <1>2, <1>4, <2>1, <2>2
  <2>3. ASSUME NEW x \in Range(k) \cup {f} PROVE x \in Range(n)
    BY <1>2, <1>5, <2>1, <2>3
  <2> QED BY <2>2, <2>3
<1>8. Range(as) \subseteq Files
  <2>1. \A i \in DOMAIN as : as[i] \in Files
    BY ElementOfSeq, LenProperties
  <2> QED BY <2>1 DEF Range
<1> QED BY <1>1, <1>2, <1>6, <1>7, <1>8 DEF n, k

LEMMA ListedMore ==
  ASSUME NEW as, NEW dk \in Disks, NEW us, Listed(as, dk, us)
  PROVE  /\ \A f \in us, w \in FileStates : Shaped(w.lines) =>
              Listed(Append(Kept(as, Files \ {f}), f), [dk EXCEPT ![f] = w], us)
         /\ \A f \in Files, w \in FileStates : Shaped(w.lines) /\ dk[f] # Nothing =>
              Listed(as, [dk EXCEPT ![f] = w], us)
         /\ \A fs \in SUBSET Files :
              Listed(Kept(as, Files \ fs), [f \in Files |-> IF f \in fs THEN Nothing ELSE dk[f]], us)
         /\ \A vs \in SUBSET Files : us \subseteq vs => Listed(as, dk, vs)
         /\ Kept(as, Files) = as
<1>1. /\ us \subseteq Files /\ as \in Seq(Files) /\ OnlyOnce(as) /\ Range(as) \subseteq us
      /\ Range(as) = {f \in Files : dk[f] # Nothing}
      /\ \A f \in Files : dk[f] # Nothing => Shaped(dk[f].lines)
  BY DEF Listed
<1>2. DOMAIN dk = Files /\ Nothing \notin FileStates
  BY FilesAre DEF Disks
<1>3. ASSUME NEW f \in Files, NEW w \in FileStates, Shaped(w.lines)
      PROVE  /\ {g \in Files : [dk EXCEPT ![f] = w][g] # Nothing} = Range(as) \cup {f}
             /\ \A g \in Files : [dk EXCEPT ![f] = w][g] # Nothing => Shaped([dk EXCEPT ![f] = w][g].lines)
  <2> DEFINE new == [dk EXCEPT ![f] = w]
  <2>1. \A g \in Files : new[g] = IF g = f THEN w ELSE dk[g]
    BY <1>2
  <2> HIDE DEF new
  <2>2. w # Nothing
    BY <1>2
  <2>3. {g \in Files : new[g] # Nothing} = Range(as) \cup {f}
    BY <1>1, <2>1, <2>2
  <2>4. \A g \in Files : new[g] # Nothing => Shaped(new[g].lines)
    BY <1>1, <1>3, <2>1
  <2> QED BY <2>3, <2>4 DEF new
<1>4. ASSUME NEW f \in us, NEW w \in FileStates, Shaped(w.lines)
      PROVE  Listed(Append(Kept(as, Files \ {f}), f), [dk EXCEPT ![f] = w], us)
  <2>1. f \in Files
    BY <1>1
  <2> DEFINE n == Append(Kept(as, Files \ {f}), f)
             new == [dk EXCEPT ![f] = w]
  <2>2. n \in Seq(Files) /\ OnlyOnce(n) /\ Range(n) = Range(as) \cup {f}
    BY <1>1, <2>1, AgesMoved
  <2>3. {g \in Files : new[g] # Nothing} = Range(as) \cup {f} /\ \A g \in Files : new[g] # Nothing => Shaped(new[g].lines)
    BY <1>3, <1>4, <2>1
  <2> HIDE DEF n, new
  <2>4. Listed(n, new, us)
    BY <1>1, <2>2, <2>3 DEF Listed
  <2> QED BY <2>4 DEF n, new
<1>5. ASSUME NEW f \in Files, NEW w \in FileStates, Shaped(w.lines), dk[f] # Nothing
      PROVE  Listed(as, [dk EXCEPT ![f] = w], us)
  <2> DEFINE new == [dk EXCEPT ![f] = w]
  <2>1. {g \in Files : new[g] # Nothing} = Range(as) \cup {f} /\ \A g \in Files : new[g] # Nothing => Shaped(new[g].lines)
    BY <1>3, <1>5
  <2>2. f \in Range(as)
    BY <1>1, <1>5
  <2>3. Range(as) \cup {f} = Range(as)
    BY <2>2
  <2> HIDE DEF new
  <2>4. Listed(as, new, us)
    BY <1>1, <2>1, <2>3 DEF Listed
  <2> QED BY <2>4 DEF new
<1>6. ASSUME NEW fs \in SUBSET Files
      PROVE  Listed(Kept(as, Files \ fs), [f \in Files |-> IF f \in fs THEN Nothing ELSE dk[f]], us)
  <2> DEFINE n == Kept(as, Files \ fs)
             new == [f \in Files |-> IF f \in fs THEN Nothing ELSE dk[f]]
  <2>1. n \in Seq(Files) /\ OnlyOnce(n) /\ Range(n) = Range(as) \cap (Files \ fs)
    BY <1>1, KeptRange
  <2>2. \A g \in Files : new[g] = IF g \in fs THEN Nothing ELSE dk[g]
    OBVIOUS
  <2> HIDE DEF n, new
  <2>3. {g \in Files : new[g] # Nothing} = Range(n)
    BY <1>1, <2>1, <2>2
  <2>4. \A g \in Files : new[g] # Nothing => Shaped(new[g].lines)
    BY <1>1, <2>2
  <2>5. Listed(n, new, us)
    BY <1>1, <2>1, <2>3, <2>4 DEF Listed
  <2> QED BY <2>5 DEF n, new
<1>7. ASSUME NEW vs \in SUBSET Files, us \subseteq vs PROVE Listed(as, dk, vs)
  BY <1>1, <1>7 DEF Listed
<1>8. Kept(as, Files) = as
  <2>1. Range(as) \subseteq Files
    BY <1>1
  <2> QED BY <1>1, <2>1, KeptRange
<1> QED BY <1>4, <1>5, <1>6, <1>7, <1>8

-----------------------------------------------------------------------------
(* The invariant says what is claimed, and holds at the start *)

LEMMA SessionInvSafe == SessionInv => SessionSafety
<1> SUFFICES ASSUME SessionInv PROVE SessionSafety
  OBVIOUS
<1>1. /\ SessionTypes /\ Listed(ages, disk, used) /\ TurnsPinned /\ HandlesBacked /\ OneStatePerFile /\ TurnsAtHome
  BY DEF SessionInv, FilesListed
<1>2. ASSUME NEW h \in Handles
      PROVE  state[h] \in States /\ state[h].file \in Files /\ state[h].events \in Seq(Real)
             /\ state[h].writer \in {"none", "open", "gone"} /\ DOMAIN state[h].events = 1 .. Len(state[h].events)
             /\ Len(state[h].events) \in Nat
  <2>1. state[h] \in States
    BY <1>1 DEF SessionTypes
  <2>2. state[h].events \in Seq(Real)
    BY <2>1, StatesAre
  <2>3. DOMAIN state[h].events = 1 .. Len(state[h].events) /\ Len(state[h].events) \in Nat
    BY <2>2, LenProperties
  <2>4. state[h].file \in Files /\ state[h].writer \in {"none", "open", "gone"}
    BY <2>1, StatesAre
  <2> QED BY <2>1, <2>2, <2>3, <2>4
<1>3. SessionTypeOK
  <2>1. ASSUME NEW f \in Files, Exists(f), NEW n \in DOMAIN disk[f].lines
        PROVE  disk[f].lines[n].kind \in EventKinds \cup {"torn", "broken"}
    <3>1. disk[f] \in FileStates
      BY <1>1, <2>1 DEF SessionTypes, Exists
    <3>2. disk[f].lines \in Seq(Lines) /\ n \in 1 .. Len(disk[f].lines)
      BY <2>1, <3>1, FilesAre, LenProperties
    <3>3. disk[f].lines[n] \in Lines
      BY <3>2, ElementOfSeq
    <3> QED BY <3>3 DEF Lines
  <2>2. ASSUME NEW h \in Handles, NEW n \in DOMAIN state[h].events PROVE state[h].events[n].kind \in EventKinds
    <3>1. state[h].events[n] \in Real
      BY <1>2, <2>2, ElementOfSeq
    <3> QED BY <3>1, EventsAre
  <2>3. /\ Range(ages) = {f \in Files : Exists(f)} /\ Range(ages) \subseteq used
        /\ \A m, n \in DOMAIN ages : ages[m] = ages[n] => m = n
    BY <1>1, LenProperties DEF Listed, Exists, OnlyOnce
  <2> QED BY <1>1, <1>2, <2>1, <2>2, <2>3 DEF SessionTypeOK, SessionTypes, TurnsPinned
<1>4. MemoryIsFile
  <2> SUFFICES ASSUME NEW h \in Handles, Live(h), ~state[h].torn, state[h].writer # "gone"
               PROVE  state[h].events = IF Exists(state[h].file) THEN Loaded(disk[state[h].file]) ELSE <<>>
    BY DEF MemoryIsFile
  <2>1. Backed(state[h], disk[state[h].file])
    BY <1>1 DEF HandlesBacked
  <2>2. CASE Exists(state[h].file)
    <3>1. /\ disk[state[h].file] \in FileStates /\ Whole(disk[state[h].file])
          /\ disk[state[h].file].lines = state[h].events
      BY <2>1, <2>2 DEF Backed, Exists
    <3> QED BY <2>2, <3>1, LoadedIs
  <2>3. CASE ~Exists(state[h].file)
    BY <2>1, <2>3 DEF Backed, Exists
  <2> QED BY <2>2, <2>3
<1>5. TurnsStayHome
  <2> SUFFICES ASSUME NEW t \in Turns, NEW g \in Handles, NEW h \in Handles,
                      Live(g), Event("TurnStart", t) \in Range(state[g].events),
                      Live(h), \E n \in DOMAIN state[h].events : state[h].events[n].turn = t
               PROVE  state[g].file = state[h].file
    BY DEF TurnsStayHome
  <2>1. LogTurn(state[g].events, t)
    <3>1. PICK n \in DOMAIN state[g].events : state[g].events[n] = Event("TurnStart", t)
      BY DEF Range
    <3> QED BY <1>2, <3>1 DEF LogTurn, Event
  <2>2. LogTurn(state[h].events, t)
    BY <1>2 DEF LogTurn
  <2>3. Carries(state[g].file, t) /\ Carries(state[h].file, t)
    BY <2>1, <2>2 DEF Carries
  <2> QED BY <1>1, <1>2, <2>3 DEF TurnsAtHome
<1>6. ShownIsClosed
  BY <1>1 DEF ShownIsClosed, HandlesBacked, SessionTypes, Live, Closed
<1>7. OneReportPerTurn
  <2> SUFFICES ASSUME NEW h \in Handles, Live(h), ~state[h].torn,
                      NEW m \in DOMAIN state[h].events, NEW n \in DOMAIN state[h].events, m < n,
                      state[h].events[m].kind = state[h].events[n].kind,
                      state[h].events[m].kind \in {"TurnStart", "Delivery"}
               PROVE  \E k \in m .. n : state[h].events[k].kind = "TurnEnd"
    BY DEF OneReportPerTurn
  <2>1. Shaped(state[h].events)
    BY <1>1 DEF HandlesBacked, Backed
  <2>2. m \in 1 .. Len(state[h].events) /\ n \in 1 .. Len(state[h].events) /\ state[h].events \in Seq(Real)
    BY <1>2
  <2> QED BY <2>1, <2>2, ShapedOnce
<1> QED BY <1>1, <1>3, <1>4, <1>5, <1>6, <1>7 DEF SessionSafety

LEMMA SessionStart == SessionInit => SessionInv
<1> SUFFICES ASSUME SessionInit PROVE SessionInv
  OBVIOUS
<1>1. \A h \in Handles : h # Nothing
  BY SessionAssumption
<1>2. \A h \in Handles : ~Live(h)
  BY <1>1 DEF SessionInit, Live
<1>3. (CHOOSE f \in Files : TRUE) \in Files
  BY SessionAssumption
<1>4. SessionTypes
  BY <1>3, StatesAre DEF SessionInit, SessionTypes
<1>5. FilesListed
  <2>1. Len(<<>>) = 0 /\ <<>> \in Seq(Files) /\ Range(<<>>) = {}
    BY DEF Range
  <2>2. \A f \in Files : disk[f] = Nothing
    BY DEF SessionInit
  <2>3. {f \in Files : disk[f] # Nothing} = {} /\ ages = <<>> /\ used = {}
    BY <2>2 DEF SessionInit
  <2> QED BY <2>1, <2>2, <2>3 DEF FilesListed, Listed, OnlyOnce
<1>6. TurnsPinned
  BY DEF SessionInit, TurnsPinned
<1>7. \A f \in Files, t \in Turns : ~Carries(f, t)
  BY <1>2 DEF SessionInit, Carries, Exists
<1> QED BY <1>2, <1>4, <1>5, <1>6, <1>7 DEF SessionInv, HandlesBacked, OneStatePerFile, TurnsAtHome

-----------------------------------------------------------------------------
(* An event is recorded *)

LEMMA InvIs ==
  ASSUME SessionInv
  PROVE  /\ disk \in Disks /\ state \in [Handles -> States] /\ pinned \in [Turns -> Handles \cup {Nothing}]
         /\ view \in Handles \cup {Nothing}
         /\ phase \in [Turns -> {"new", "started", "spoke", "delivered", "over"}]
         /\ Listed(ages, disk, used) /\ TurnsPinned /\ HandlesBacked /\ OneStatePerFile /\ TurnsAtHome
         /\ \A h \in Handles : /\ h # Nothing /\ state[h] \in States /\ state[h].file \in Files
                               /\ state[h].events \in Seq(Real)
         /\ \A t \in Turns : pinned[t] # Nothing => pinned[t] \in Handles /\ Live(pinned[t])
<1>1. /\ disk \in Disks /\ state \in [Handles -> States] /\ pinned \in [Turns -> Handles \cup {Nothing}]
      /\ view \in Handles \cup {Nothing}
      /\ phase \in [Turns -> {"new", "started", "spoke", "delivered", "over"}]
      /\ Listed(ages, disk, used) /\ TurnsPinned /\ HandlesBacked /\ OneStatePerFile /\ TurnsAtHome
  BY DEF SessionInv, SessionTypes, Disks, FilesListed
<1>2. ASSUME NEW h \in Handles
      PROVE  h # Nothing /\ state[h] \in States /\ state[h].file \in Files /\ state[h].events \in Seq(Real)
  <2>1. state[h] \in States
    BY <1>1
  <2> QED BY <2>1, StatesAre, SessionAssumption
<1>3. \A t \in Turns : pinned[t] # Nothing => pinned[t] \in Handles /\ Live(pinned[t])
  BY <1>1 DEF Live
<1> QED BY <1>1, <1>2, <1>3

\* What a record changes.
Recorded(h, e) ==
  /\ state' = [state EXCEPT ![h] = Appended(@, <<e>>)]
  /\ disk' = DiskAfter(state[h], <<e>>) /\ ages' = AgesAfter(state[h], <<e>>)
  /\ used' = used /\ view' = view

\* The states and the files are backed, and nothing of another turn is anywhere new.
LEMMA RecordedIs ==
  ASSUME SessionInv, NEW h \in Handles, Live(h), NEW e \in Real, Recorded(h, e),
         ~state[h].torn => Follows(state[h].events, e)
  PROVE  /\ disk' \in Disks /\ state' \in [Handles -> States] /\ Listed(ages', disk', used')
         /\ \A g \in Handles : state'[g].file = state[g].file
         /\ \A g \in Handles : g # h => state'[g] = state[g]
         /\ \A g \in Handles : Live(g) => Backed(state'[g], disk'[state'[g].file])
         /\ state'[h].events = Append(state[h].events, e) /\ state'[h].torn = state[h].torn
         /\ state'[h].writer # "none"
         /\ \A f \in Files, u \in Turns :
              disk'[f] # Nothing /\ DiskTurn(disk'[f], u) =>
                \/ disk[f] # Nothing /\ DiskTurn(disk[f], u)
                \/ f = state[h].file /\ u = e.turn
<1> DEFINE s == state[h]
           f == state[h].file
           d == disk[state[h].file]
           a == StateAfter(s, e)
           w == FileAfter(s, d, e)
<1>1. /\ disk \in Disks /\ state \in [Handles -> States] /\ Listed(ages, disk, used)
      /\ HandlesBacked /\ OneStatePerFile /\ s \in States /\ f \in Files
      /\ \A g \in Handles : state[g].file \in Files
  BY InvIs
<1>2. Backed(s, d) /\ f \in used /\ d \in FileStates \cup {Nothing}
  BY <1>1 DEF HandlesBacked, Disks
<1>3. /\ Backed(a, w)
      /\ \A t \in Turns : w # Nothing /\ DiskTurn(w, t) => (d # Nothing /\ DiskTurn(d, t)) \/ e.turn = t
      /\ s.writer = "gone" => w = d
      /\ s.writer # "gone" => w \in FileStates
  BY <1>2, BackedMore
<1>4. /\ a \in States /\ a.file = f /\ a.torn = s.torn /\ a.events = Append(s.events, e) /\ a.writer # "none"
  BY <1>1, StateAfterIs
<1>5. state' = [state EXCEPT ![h] = a]
  BY DEF Recorded, StateAfter
<1>6. disk' = [disk EXCEPT ![f] = w] /\ (s.writer # "gone" => ages' = Append(Kept(ages, Files \ {f}), f))
      /\ (s.writer = "gone" => ages' = ages /\ disk' = disk) /\ used' = used
  <2>1. <<e>> # <<>>
    OBVIOUS
  <2>2. CASE s.writer = "gone"
    <3>1. disk' = disk /\ ages' = ages /\ used' = used /\ w = d
      BY <1>3, <2>2 DEF Recorded, DiskAfter, AgesAfter
    <3>2. [disk EXCEPT ![f] = d] = disk
      BY <1>1 DEF Disks
    <3> QED BY <2>2, <3>1, <3>2
  <2>3. CASE s.writer # "gone"
    <3> DEFINE b == IF d = Nothing THEN NewFile ELSE d
    <3>1. b \in FileStates
      BY <1>2, FilesAre
    <3>2. WriteAll(b, <<e>>) = Written(b, e)
      BY <3>1, WriteOne
    <3>3. disk' = [disk EXCEPT ![f] = WriteAll(b, <<e>>)]
      BY <1>1, <2>1, <2>3 DEF Recorded, DiskAfter, Disks
    <3>4. w = Written(b, e)
      BY <2>3 DEF FileAfter
    <3>5. ages' = Append(Kept(ages, Files \ {f}), f)
      BY <2>1, <2>3 DEF Recorded, AgesAfter
    <3>6. used' = used
      BY DEF Recorded
    <3> HIDE DEF w, b
    <3> QED BY <2>3, <3>2, <3>3, <3>4, <3>5, <3>6
  <2> QED BY <2>2, <2>3
<1> HIDE DEF a, w
<1>7. w \in FileStates \cup {Nothing}
  BY <1>2, <1>3
<1>8. disk' \in Disks /\ disk'[f] = w /\ \A g \in Files : g # f => disk'[g] = disk[g]
  BY <1>1, <1>6, <1>7 DEF Disks
<1>9. state' \in [Handles -> States] /\ state'[h] = a /\ \A g \in Handles : g # h => state'[g] = state[g]
  BY <1>1, <1>4, <1>5
<1>10. Listed(ages', disk', used')
  <2>1. CASE s.writer = "gone"
    BY <1>1, <1>6, <2>1
  <2>2. CASE s.writer # "gone"
    <3>1. w \in FileStates /\ Shaped(w.lines)
      BY <1>3, <2>2, FilesAre DEF Backed
    <3>2. \A g \in used, v \in FileStates : Shaped(v.lines) =>
            Listed(Append(Kept(ages, Files \ {g}), g), [disk EXCEPT ![g] = v], used)
      BY <1>1, ListedMore
    <3>3. Listed(Append(Kept(ages, Files \ {f}), f), [disk EXCEPT ![f] = w], used)
      BY <1>2, <3>1, <3>2
    <3> QED BY <1>6, <2>2, <3>3
  <2> QED BY <2>1, <2>2
<1>11. ASSUME NEW g \in Handles, Live(g) PROVE Backed(state'[g], disk'[state'[g].file])
  <2>1. CASE g = h
    BY <1>3, <1>4, <1>8, <1>9, <2>1
  <2>2. CASE g # h
    <3>1. state[g].file # f /\ Backed(state[g], disk[state[g].file])
      BY <1>1, <1>11, <2>2 DEF OneStatePerFile, HandlesBacked
    <3> QED BY <1>1, <1>8, <1>9, <2>2, <3>1
  <2> QED BY <2>1, <2>2
<1>12. ASSUME NEW g \in Files, NEW u \in Turns, disk'[g] # Nothing, DiskTurn(disk'[g], u)
       PROVE  (disk[g] # Nothing /\ DiskTurn(disk[g], u)) \/ (g = f /\ u = e.turn)
  BY <1>3, <1>8, <1>12
<1>13. \A g \in Handles : state'[g].file = state[g].file
  BY <1>4, <1>9
<1> QED BY <1>4, <1>8, <1>9, <1>10, <1>11, <1>12, <1>13

\* A turn that is at home, or that speaks for the first time, stays at home.
LEMMA RecordedOK ==
  ASSUME SessionInv, NEW t \in Turns, NEW h \in Handles, Live(h), NEW e \in Real, Recorded(h, e), e.turn = t,
         ~state[h].torn => Follows(state[h].events, e),
         pinned[t] = h \/ phase[t] = "new",
         pinned' \in [Turns -> Handles \cup {Nothing}], \A g \in Handles : Live(g)' => Live(g),
         phase' \in [Turns -> {"new", "started", "spoke", "delivered", "over"}],
         phase'[t] # "new", \A u \in Turns : u # t => phase'[u] = phase[u],
         TurnsPinned', Running(h)' \/ e.kind = "TurnEnd",
         \A g \in Handles : g # h /\ Running(g) => Running(g)'
  PROVE  SessionInv'
<1>1. /\ disk \in Disks /\ state \in [Handles -> States] /\ view \in Handles \cup {Nothing}
      /\ TurnsPinned /\ HandlesBacked /\ OneStatePerFile /\ TurnsAtHome
      /\ \A g \in Handles : state[g].file \in Files /\ state[g].events \in Seq(Real)
  BY InvIs
<1>2. /\ disk' \in Disks /\ state' \in [Handles -> States] /\ Listed(ages', disk', used')
      /\ \A g \in Handles : state'[g].file = state[g].file
      /\ \A g \in Handles : g # h => state'[g] = state[g]
      /\ \A g \in Handles : Live(g) => Backed(state'[g], disk'[state'[g].file])
      /\ state'[h].events = Append(state[h].events, e)
      /\ \A f \in Files, u \in Turns :
           disk'[f] # Nothing /\ DiskTurn(disk'[f], u) =>
             \/ disk[f] # Nothing /\ DiskTurn(disk[f], u)
             \/ f = state[h].file /\ u = t
  BY RecordedIs
<1>3. SessionTypes' /\ FilesListed'
  BY <1>1, <1>2 DEF SessionTypes, FilesListed, Disks, Recorded
<1>4. HandlesBacked'
  <2> SUFFICES ASSUME NEW g \in Handles, Live(g)'
               PROVE  /\ Backed(state'[g], disk'[state'[g].file]) /\ state'[g].file \in used'
                      /\ ~Running(g)' => Closed(state'[g].events)
    BY DEF HandlesBacked
  <2>1. Live(g) /\ state[g].file \in used /\ used' = used /\ (~Running(g) => Closed(state[g].events))
    BY <1>1 DEF HandlesBacked, Recorded
  <2>2. ASSUME ~Running(g)' PROVE Closed(state'[g].events)
    <3>1. CASE g = h
      <4>1. e.kind = "TurnEnd"
        BY <2>2, <3>1
      <4>2. state[h].events \in Seq(Real)
        BY <1>1
      <4>3. Closed(Append(state[h].events, e))
        BY <4>1, <4>2, AfterMore
      <4> QED BY <1>2, <3>1, <4>3
    <3>2. CASE g # h
      BY <1>2, <2>1, <2>2, <3>2
    <3> QED BY <3>1, <3>2
  <2> QED BY <1>2, <2>1, <2>2
<1>5. OneStatePerFile'
  BY <1>1, <1>2 DEF OneStatePerFile
<1>6. ASSUME NEW u \in Turns, NEW f \in Files, Carries(f, u)'
      PROVE  Carries(f, u) \/ (f = state[h].file /\ u = t)
  <2>1. CASE disk'[f] # Nothing /\ DiskTurn(disk'[f], u)
    BY <1>2, <2>1 DEF Carries, Exists
  <2>2. CASE \E g \in Handles : Live(g)' /\ state'[g].file = f /\ LogTurn(state'[g].events, u)
    <3>1. PICK g \in Handles : Live(g)' /\ state'[g].file = f /\ LogTurn(state'[g].events, u)
      BY <2>2
    <3>2. Live(g) /\ state[g].file = f
      BY <1>2, <3>1
    <3>3. LogTurn(state[g].events, u) \/ (g = h /\ u = t)
      <4>1. CASE g = h
        <5>1. LogTurn(Append(state[h].events, e), u) <=> LogTurn(state[h].events, u) \/ e.turn = u
          BY <1>1, AfterMore
        <5> QED BY <1>2, <3>1, <4>1, <5>1
      <4>2. CASE g # h
        BY <1>2, <3>1, <4>2
      <4> QED BY <4>1, <4>2
    <3> QED BY <3>2, <3>3 DEF Carries
  <2> QED BY <1>6, <2>1, <2>2 DEF Carries, Exists
<1>7. pinned[t] = h => Carries(state[h].file, t)
  <2>1. ASSUME pinned[t] = h PROVE LogTurn(state[h].events, t)
    <3>1. pinned[t] # Nothing
      BY <2>1, InvIs
    <3> QED BY <1>1, <2>1, <3>1 DEF TurnsPinned
  <2> QED BY <2>1 DEF Carries
<1>8. TurnsAtHome'
  <2> SUFFICES ASSUME NEW u \in Turns, NEW f \in Files, Carries(f, u)'
               PROVE  phase'[u] # "new" /\ \A g \in Files : Carries(g, u)' => f = g
    BY DEF TurnsAtHome
  <2>1. CASE u # t
    BY <1>1, <1>6, <2>1 DEF TurnsAtHome
  <2>2. CASE u = t /\ pinned[t] = h
    <3>1. \A g \in Files : Carries(g, t)' => Carries(g, t)
      BY <1>6, <1>7, <2>2
    <3> QED BY <1>1, <2>2, <3>1 DEF TurnsAtHome
  <2>3. CASE u = t /\ phase[t] = "new"
    <3>1. \A g \in Files : Carries(g, t)' => g = state[h].file
      BY <1>1, <1>6, <2>3 DEF TurnsAtHome
    <3> QED BY <2>3, <3>1
  <2> QED BY <2>1, <2>2, <2>3
<1> QED BY <1>3, <1>4, <1>5, <1>8 DEF SessionInv

-----------------------------------------------------------------------------
(* The steps of a turn *)

\* A turn keeps what it holds when another one speaks.
PinnedOK(t) ==
  /\ pinned[t] # Nothing <=> phase[t] \in {"started", "spoke", "delivered"}
  /\ \A u \in Turns : pinned[t] = pinned[u] /\ pinned[t] # Nothing => t = u
  /\ pinned[t] # Nothing =>
       /\ state[pinned[t]].writer # "none" /\ LogTurn(state[pinned[t]].events, t)
       /\ ~state[pinned[t]].torn /\ phase[t] # "delivered" => ~OpenReport(state[pinned[t]].events)

LEMMA PinnedIs ==
  TurnsPinned <=> (view = Nothing => \A t \in Turns : pinned[t] = Nothing) /\ \A t \in Turns : PinnedOK(t)
BY DEF TurnsPinned, PinnedOK

LEMMA RunningIs ==
  ASSUME NEW t \in Turns, NEW h \in Handles, pinned[t] = h
  PROVE  Running(h)
BY DEF Running

LEMMA SubmitOK == ASSUME SessionInv, NEW t \in Turns, Submit(t) PROVE SessionInv'
<1> DEFINE e == Event("TurnStart", t)
<1>0. PICK h \in Handles : h = view
  BY InvIs DEF Submit
<1>1. /\ disk \in Disks /\ state \in [Handles -> States] /\ view \in Handles
      /\ pinned \in [Turns -> Handles \cup {Nothing}]
      /\ phase \in [Turns -> {"new", "started", "spoke", "delivered", "over"}]
      /\ TurnsPinned /\ HandlesBacked /\ h # Nothing /\ Live(h)
      /\ phase[t] = "new" /\ ~Running(h) /\ state[h].events \in Seq(Real)
  BY <1>0, InvIs DEF Submit, Live
<1>2. Recorded(h, e) /\ pinned' = [pinned EXCEPT ![t] = h] /\ phase' = [phase EXCEPT ![t] = "started"]
  BY <1>0 DEF Submit, RecordEvent, Recorded
<1>3. e \in Real /\ e.turn = t /\ e.kind = "TurnStart"
  BY EventsAre DEF Event, EventKinds
<1> HIDE DEF e
<1>4. Closed(state[h].events)
  BY <1>1 DEF HandlesBacked
<1>5. Follows(state[h].events, e)
  BY <1>3, <1>4 DEF Follows
<1>6. /\ \A g \in Handles : g # h => state'[g] = state[g]
      /\ state'[h].events = Append(state[h].events, e) /\ state'[h].torn = state[h].torn
      /\ state'[h].writer # "none"
  BY <1>1, <1>2, <1>3, <1>5, RecordedIs
<1>7. \A u \in Turns : pinned[u] # h
  BY <1>1 DEF Running
<1>8. \A u \in Turns : u # t => PinnedOK(u)'
  <2> SUFFICES ASSUME NEW u \in Turns, u # t PROVE PinnedOK(u)'
    OBVIOUS
  <2>1. PinnedOK(u) /\ pinned'[u] = pinned[u] /\ phase'[u] = phase[u] /\ pinned[u] # h
    BY <1>1, <1>2, <1>7, PinnedIs
  <2>2. \A v \in Turns : pinned'[v] = IF v = t THEN h ELSE pinned[v]
    BY <1>1, <1>2
  <2>3. pinned[u] # Nothing => state'[pinned[u]] = state[pinned[u]]
    BY <1>1, <1>6, <2>1
  <2> QED BY <2>1, <2>2, <2>3 DEF PinnedOK
<1>9. PinnedOK(t)'
  <2>1. pinned'[t] = h /\ phase'[t] = "started" /\ \A u \in Turns : u # t => pinned'[u] # h
    BY <1>1, <1>2, <1>7
  <2>2. ~OpenReport(state[h].events)
    <3>1. ASSUME OpenReport(state[h].events) PROVE FALSE
      <4> DEFINE es == state[h].events
      <4>1. PICK m \in 1 .. Len(es) : \A k \in m .. Len(es) : es[k].kind # "TurnEnd"
        BY <3>1 DEF OpenReport
      <4>2. Len(es) \in Nat
        BY <1>1, LenProperties
      <4>3. Len(es) \in m .. Len(es)
        BY <4>1, <4>2
      <4>4. es # <<>>
        <5>1. Len(<<>>) = 0
          OBVIOUS
        <5> QED BY <4>1, <5>1
      <4> QED BY <1>4, <4>1, <4>3, <4>4 DEF Closed, Last
    <3> QED BY <3>1
  <2>3. LogTurn(Append(state[h].events, e), t) /\ ~OpenReport(Append(state[h].events, e))
    BY <1>1, <1>3, <2>2, AfterMore
  <2> QED BY <1>1, <1>6, <2>1, <2>3 DEF PinnedOK
<1>10. TurnsPinned'
  <2>1. view' # Nothing
    BY <1>0, <1>1, <1>2 DEF Recorded
  <2> QED BY <1>8, <1>9, <2>1, PinnedIs DEF TurnsPinned, PinnedOK
<1>11. /\ pinned' \in [Turns -> Handles \cup {Nothing}]
       /\ phase' \in [Turns -> {"new", "started", "spoke", "delivered", "over"}]
       /\ phase'[t] # "new" /\ \A u \in Turns : u # t => phase'[u] = phase[u]
  BY <1>1, <1>2
<1>12. \A g \in Handles : Live(g)' => Live(g)
  BY <1>0, <1>1, <1>2 DEF Live, Recorded
<1>13. Running(h)' /\ \A g \in Handles : g # h /\ Running(g) => Running(g)'
  <2>1. pinned'[t] = h /\ \A u \in Turns : pinned[u] # Nothing => pinned'[u] = pinned[u]
    <3>1. pinned[t] = Nothing
      BY <1>1 DEF TurnsPinned
    <3> QED BY <1>1, <1>2, <3>1
  <2>2. \A g \in Handles : g # Nothing
    BY SessionAssumption
  <2>3. Running(h)'
    BY <2>1 DEF Running
  <2>4. ASSUME NEW g \in Handles, Running(g) PROVE Running(g)'
    <3>1. PICK u \in Turns : pinned[u] = g
      BY <2>4 DEF Running
    <3> QED BY <2>1, <2>2, <3>1 DEF Running
  <2> QED BY <2>3, <2>4
<1> QED BY <1>1, <1>2, <1>3, <1>5, <1>10, <1>11, <1>12, <1>13, RecordedOK

\* What a turn at work says.
LEMMA SpeakOK ==
  ASSUME SessionInv, NEW t \in Turns, NEW k \in {"Output", "Delivery"}, NEW next \in {"spoke", "delivered"},
         phase[t] \in {"started", "spoke"}, k = "Delivery" => next = "delivered",
         RecordEvent(t, pinned[t], Event(k, t), next), pinned' = pinned
  PROVE  SessionInv'
<1> DEFINE e == Event(k, t)
<1>1. /\ state \in [Handles -> States] /\ pinned \in [Turns -> Handles \cup {Nothing}]
      /\ phase \in [Turns -> {"new", "started", "spoke", "delivered", "over"}]
      /\ TurnsPinned /\ pinned[t] # Nothing
  BY InvIs DEF TurnsPinned
<1>2. PICK h \in Handles : h = pinned[t] /\ Live(h) /\ state[h].events \in Seq(Real)
  BY <1>1, InvIs
<1>3. Recorded(h, e) /\ pinned' = pinned /\ phase' = [phase EXCEPT ![t] = next]
  BY <1>2 DEF RecordEvent, Recorded
<1>4. e \in Real /\ e.turn = t /\ e.kind = k
  BY EventsAre DEF Event, EventKinds
<1> HIDE DEF e
<1>5. ~state[h].torn => ~OpenReport(state[h].events) /\ Follows(state[h].events, e)
  BY <1>1, <1>2, <1>4 DEF TurnsPinned, Follows
<1>6. /\ \A g \in Handles : g # h => state'[g] = state[g]
      /\ state'[h].events = Append(state[h].events, e) /\ state'[h].torn = state[h].torn
      /\ state'[h].writer # "none"
  BY <1>2, <1>3, <1>4, <1>5, RecordedIs
<1>8. \A u \in Turns : u # t => PinnedOK(u)'
  <2> SUFFICES ASSUME NEW u \in Turns, u # t PROVE PinnedOK(u)'
    OBVIOUS
  <2>1. PinnedOK(u) /\ PinnedOK(t) /\ pinned'[u] = pinned[u] /\ phase'[u] = phase[u]
    BY <1>1, <1>3, PinnedIs
  <2>2. pinned[u] # Nothing => pinned[u] \in Handles /\ pinned[u] # h
    BY <1>1, <1>2, <2>1 DEF PinnedOK
  <2>3. pinned[u] # Nothing => state'[pinned[u]] = state[pinned[u]]
    BY <1>6, <2>2
  <2> QED BY <1>3, <2>1, <2>3 DEF PinnedOK
<1>9. PinnedOK(t)'
  <2>1. pinned'[t] = h /\ phase'[t] = next /\ PinnedOK(t) /\ pinned' = pinned
    BY <1>1, <1>2, <1>3, PinnedIs
  <2>2. LogTurn(Append(state[h].events, e), t)
    BY <1>2, <1>4, AfterMore
  <2>3. ~state[h].torn /\ next # "delivered" => ~OpenReport(Append(state[h].events, e))
    BY <1>2, <1>4, <1>5, AfterMore
  <2>4. h # Nothing
    BY <1>1, <1>2
  <2> QED BY <1>6, <2>1, <2>2, <2>3, <2>4 DEF PinnedOK
<1>10. TurnsPinned'
  <2>1. view' = view /\ (view = Nothing => \A u \in Turns : pinned[u] = Nothing)
    BY <1>1, <1>3 DEF Recorded, TurnsPinned
  <2> QED BY <1>3, <1>8, <1>9, <2>1 DEF TurnsPinned, PinnedOK
<1>11. /\ pinned' \in [Turns -> Handles \cup {Nothing}]
       /\ phase' \in [Turns -> {"new", "started", "spoke", "delivered", "over"}]
       /\ phase'[t] # "new" /\ \A u \in Turns : u # t => phase'[u] = phase[u]
  BY <1>1, <1>3
<1>12. \A g \in Handles : Live(g)' => Live(g)
  BY <1>3 DEF Live, Recorded
<1>13. Running(h)' /\ \A g \in Handles : g # h /\ Running(g) => Running(g)'
  BY <1>2, <1>3 DEF Running
<1> QED BY <1>2, <1>3, <1>4, <1>5, <1>10, <1>11, <1>12, <1>13, RecordedOK

LEMMA EndTurnOK == ASSUME SessionInv, NEW t \in Turns, EndTurn(t) PROVE SessionInv'
<1> DEFINE e == Event("TurnEnd", t)
<1>1. /\ state \in [Handles -> States] /\ pinned \in [Turns -> Handles \cup {Nothing}]
      /\ phase \in [Turns -> {"new", "started", "spoke", "delivered", "over"}]
      /\ TurnsPinned /\ pinned[t] # Nothing
  BY InvIs DEF TurnsPinned, EndTurn
<1>2. PICK h \in Handles : h = pinned[t] /\ Live(h) /\ state[h].events \in Seq(Real)
  BY <1>1, InvIs
<1>3. Recorded(h, e) /\ pinned' = [pinned EXCEPT ![t] = Nothing] /\ phase' = [phase EXCEPT ![t] = "over"]
  BY <1>2 DEF EndTurn, HandleOf, RecordEvent, Recorded
<1>4. e \in Real /\ e.turn = t /\ e.kind = "TurnEnd"
  BY EventsAre DEF Event, EventKinds
<1> HIDE DEF e
<1>5. Follows(state[h].events, e)
  BY <1>4 DEF Follows
<1>6. /\ \A g \in Handles : g # h => state'[g] = state[g]
      /\ state'[h].events = Append(state[h].events, e) /\ state'[h].torn = state[h].torn
      /\ state'[h].writer # "none"
  BY <1>2, <1>3, <1>4, <1>5, RecordedIs
<1>7. \A v \in Turns : pinned'[v] = IF v = t THEN Nothing ELSE pinned[v]
  BY <1>1, <1>3
<1>8. \A u \in Turns : u # t => PinnedOK(u)'
  <2> SUFFICES ASSUME NEW u \in Turns, u # t PROVE PinnedOK(u)'
    OBVIOUS
  <2>1. PinnedOK(u) /\ PinnedOK(t) /\ pinned'[u] = pinned[u] /\ phase'[u] = phase[u]
    BY <1>1, <1>3, PinnedIs
  <2>2. pinned[u] # Nothing => pinned[u] \in Handles /\ pinned[u] # h
    BY <1>1, <1>2, <2>1 DEF PinnedOK
  <2>3. pinned[u] # Nothing => state'[pinned[u]] = state[pinned[u]]
    BY <1>6, <2>2
  <2> QED BY <1>7, <2>1, <2>3 DEF PinnedOK
<1>9. PinnedOK(t)'
  <2>1. pinned'[t] = Nothing /\ phase'[t] = "over"
    BY <1>1, <1>3
  <2> QED BY <2>1 DEF PinnedOK
<1>10. TurnsPinned'
  <2>1. view' = view /\ (view = Nothing => \A u \in Turns : pinned'[u] = Nothing)
    BY <1>1, <1>3, <1>7 DEF Recorded, TurnsPinned
  <2> QED BY <1>8, <1>9, <2>1 DEF TurnsPinned, PinnedOK
<1>11. /\ pinned' \in [Turns -> Handles \cup {Nothing}]
       /\ phase' \in [Turns -> {"new", "started", "spoke", "delivered", "over"}]
       /\ phase'[t] # "new" /\ \A u \in Turns : u # t => phase'[u] = phase[u]
  BY <1>1, <1>3
<1>12. \A g \in Handles : Live(g)' => Live(g)
  <2>1. \A g \in Handles : g # Nothing
    BY SessionAssumption
  <2> QED BY <1>3, <1>7, <2>1 DEF Live, Recorded
<1>13. \A g \in Handles : g # h /\ Running(g) => Running(g)'
  BY <1>2, <1>7 DEF Running
<1> QED BY <1>2, <1>3, <1>4, <1>5, <1>10, <1>11, <1>12, <1>13, RecordedOK

-----------------------------------------------------------------------------
(* The interface *)

LEMMA FreeIs == ASSUME SessionInv PROVE FreeHandle \in Handles /\ ~Live(FreeHandle)
<1>1. \E h \in Handles : ~Live(h)
  <2>1. pinned \in [Turns -> Handles \cup {Nothing}] /\ view \in Handles \cup {Nothing}
    BY InvIs
  <2> QED BY <2>1, HandlesAssumption DEF Live
<1> QED BY <1>1 DEF FreeHandle

\* What stays of a running turn.
Untouched(h) ==
  /\ Backed(state'[h], disk'[state'[h].file]) /\ state'[h].file = state[h].file
  /\ state'[h].events = state[h].events /\ state'[h].torn = state[h].torn
  /\ state'[h].writer # "none"

\* The view goes to a state that no turn holds.
LEMMA ShownOK ==
  ASSUME SessionInv, NEW h \in Handles, ~Running(h), view' = h, pinned' = pinned, phase' = phase,
         state' \in [Handles -> States], disk' \in Disks, Listed(ages', disk', used'), used \subseteq used',
         Backed(state'[h], disk'[state'[h].file]), state'[h].file \in used', Closed(state'[h].events),
         \A g \in Handles : Running(g) => Untouched(g) /\ state[g].file # state'[h].file,
         \A f \in Files, u \in Turns : Carries(f, u)' => Carries(f, u)
  PROVE  SessionInv'
<1>1. /\ pinned \in [Turns -> Handles \cup {Nothing}]
      /\ phase \in [Turns -> {"new", "started", "spoke", "delivered", "over"}]
      /\ TurnsPinned /\ HandlesBacked /\ OneStatePerFile /\ TurnsAtHome /\ h # Nothing
      /\ \A g \in Handles : g # Nothing
  BY InvIs
<1>2. \A g \in Handles : /\ Live(g)' <=> g = h \/ Running(g)
                         /\ Running(g)' <=> Running(g)
                         /\ Running(g) => Live(g)
  BY DEF Live, Running
<1>3. SessionTypes' /\ FilesListed'
  BY <1>1 DEF SessionTypes, FilesListed, Disks
<1>4. TurnsPinned'
  <2>1. ASSUME NEW t \in Turns PROVE PinnedOK(t)'
    <3>1. PinnedOK(t) /\ pinned' = pinned /\ phase' = phase
      BY <1>1, PinnedIs
    <3>2. ASSUME pinned[t] # Nothing PROVE Untouched(pinned[t])
      <4>1. pinned[t] \in Handles /\ Running(pinned[t])
        BY <1>1, <3>2 DEF Running
      <4> QED BY <4>1
    <3> QED BY <3>1, <3>2 DEF PinnedOK, Untouched
  <2>2. view' # Nothing
    BY <1>1
  <2> QED BY <2>1, <2>2 DEF TurnsPinned, PinnedOK
<1>5. HandlesBacked'
  <2> SUFFICES ASSUME NEW g \in Handles, Live(g)'
               PROVE  /\ Backed(state'[g], disk'[state'[g].file]) /\ state'[g].file \in used'
                      /\ ~Running(g)' => Closed(state'[g].events)
    BY DEF HandlesBacked
  <2>1. CASE g = h
    BY <2>1
  <2>2. CASE g # h
    <3>1. Running(g) /\ Live(g) /\ Running(g)'
      BY <1>2, <2>2
    <3>2. Untouched(g) /\ state[g].file \in used
      BY <1>1, <3>1 DEF HandlesBacked
    <3> QED BY <3>1, <3>2 DEF Untouched
  <2> QED BY <2>1, <2>2
<1>6. OneStatePerFile'
  <2> SUFFICES ASSUME NEW g \in Handles, NEW k \in Handles, Live(g)', Live(k)', g # k
               PROVE  state'[g].file # state'[k].file
    BY DEF OneStatePerFile
  <2>1. ASSUME NEW i \in Handles, Live(i)', i # h
        PROVE  Live(i) /\ state'[i].file = state[i].file /\ state'[i].file # state'[h].file
    BY <1>2, <2>1 DEF Untouched
  <2> QED BY <1>1, <2>1 DEF OneStatePerFile
<1>7. TurnsAtHome'
  BY <1>1 DEF TurnsAtHome
<1> QED BY <1>3, <1>4, <1>5, <1>6, <1>7 DEF SessionInv

LEMMA OpenedOK ==
  ASSUME SessionInv, NEW f \in Files, Exists(f), \A h \in Handles : Running(h) => state[h].file # f,
         Opened(f), used' = used, pinned' = pinned, phase' = phase
  PROVE  SessionInv'
<1>1. /\ disk \in Disks /\ state \in [Handles -> States] /\ Listed(ages, disk, used)
      /\ TurnsPinned /\ HandlesBacked /\ TurnsAtHome
      /\ pinned \in [Turns -> Handles \cup {Nothing}]
  BY InvIs
<1>2. PICK h \in Handles : h = FreeHandle /\ ~Live(h) /\ ~Running(h)
  BY FreeIs DEF Live, Running
<1>3. disk[f] \in FileStates /\ Shaped(disk[f].lines) /\ f \in used
  BY <1>1 DEF Listed, Disks, Exists
<1> DEFINE s == FromFile(f, disk[f])
           es == Closing(s.events)
           a == Appended(s, es)
           w == IF es = <<>> THEN disk[f] ELSE WriteAll(disk[f], es)
<1>4. Backed(s, disk[f]) /\ s.file = f /\ s.events = Loaded(disk[f]) /\ s.writer = "none"
  BY <1>3, FromFileIs
<1> HIDE DEF s
<1>5. /\ es \in Seq(Real) /\ Backed(a, w) /\ a.file = f /\ Closed(a.events) /\ w \in FileStates
      /\ \A t \in Turns : /\ DiskTurn(w, t) => DiskTurn(disk[f], t)
                          /\ LogTurn(a.events, t) => LogTurn(s.events, t)
  BY <1>3, <1>4, ClosedIs
<1>6. /\ state' = [state EXCEPT ![h] = a] /\ view' = h
      /\ disk' = DiskAfter(s, es) /\ ages' = AgesAfter(s, es)
  BY <1>2, <1>4 DEF Opened, s, FromFile
<1>7. disk' = [disk EXCEPT ![f] = w] /\ Listed(ages', disk', used')
  <2>1. CASE es = <<>>
    <3>1. disk' = disk /\ ages' = ages /\ w = disk[f]
      BY <1>6, <2>1 DEF DiskAfter, AgesAfter
    <3>2. [disk EXCEPT ![f] = disk[f]] = disk
      BY <1>1 DEF Disks
    <3> QED BY <1>1, <3>1, <3>2
  <2>2. CASE es # <<>>
    <3>1. disk' = [disk EXCEPT ![f] = w]
      BY <1>1, <1>3, <1>4, <1>6, <2>2 DEF DiskAfter, Disks, Exists
    <3>2. ages' = Append(Kept(ages, Files \ {f}), f)
      BY <1>4, <1>6, <2>2 DEF AgesAfter
    <3>3. Shaped(w.lines)
      BY <1>5, FilesAre DEF Backed
    <3>4. \A g \in used, v \in FileStates : Shaped(v.lines) =>
            Listed(Append(Kept(ages, Files \ {g}), g), [disk EXCEPT ![g] = v], used)
      BY <1>1, ListedMore
    <3> HIDE DEF w, es, a
    <3>5. Listed(Append(Kept(ages, Files \ {f}), f), [disk EXCEPT ![f] = w], used)
      BY <1>3, <1>5, <3>3, <3>4
    <3> QED BY <3>1, <3>2, <3>5
  <2> QED BY <2>1, <2>2
<1> HIDE DEF w, es, a
<1>8. disk' \in Disks /\ disk'[f] = w /\ \A g \in Files : g # f => disk'[g] = disk[g]
  BY <1>1, <1>5, <1>7 DEF Disks
<1>9. a \in States /\ state' \in [Handles -> States] /\ state'[h] = a /\ \A g \in Handles : g # h => state'[g] = state[g]
  BY <1>1, <1>5, <1>6 DEF Backed
<1>10. ASSUME NEW g \in Handles, Running(g) PROVE Untouched(g) /\ state[g].file # state'[h].file
  <2>1. g # h /\ Live(g) /\ state[g].file # f /\ state[g].file \in Files
    BY <1>2, <1>10, InvIs DEF Live, Running
  <2>2. Backed(state[g], disk[state[g].file])
    BY <1>1, <2>1 DEF HandlesBacked
  <2>3. state[g].writer # "none"
    <3>1. PICK t \in Turns : pinned[t] = g
      BY <1>10 DEF Running
    <3>2. g # Nothing
      BY SessionAssumption
    <3> QED BY <1>1, <3>1, <3>2 DEF TurnsPinned
  <2> QED BY <1>5, <1>8, <1>9, <2>1, <2>2, <2>3 DEF Untouched
<1>11. ASSUME NEW g \in Files, NEW u \in Turns, Carries(g, u)' PROVE Carries(g, u)
  <2>1. CASE disk'[g] # Nothing /\ DiskTurn(disk'[g], u)
    BY <1>5, <1>8, <2>1 DEF Carries, Exists
  <2>2. CASE \E k \in Handles : Live(k)' /\ state'[k].file = g /\ LogTurn(state'[k].events, u)
    <3>1. PICK k \in Handles : Live(k)' /\ state'[k].file = g /\ LogTurn(state'[k].events, u)
      BY <2>2
    <3>2. CASE k = h
      <4>1. g = f /\ LogTurn(s.events, u)
        BY <1>5, <1>9, <3>1, <3>2
      <4>2. DiskTurn(disk[f], u)
        BY <1>3, <1>4, <4>1, LoadedIs
      <4> QED BY <4>1, <4>2 DEF Carries
    <3>3. CASE k # h
      <4>1. Live(k)
        BY <1>6, <3>1, <3>3 DEF Live
      <4> QED BY <1>9, <3>1, <3>3, <4>1 DEF Carries
    <3> QED BY <3>2, <3>3
  <2> QED BY <1>11, <2>1, <2>2 DEF Carries, Exists
<1>12. Backed(state'[h], disk'[state'[h].file]) /\ state'[h].file \in used' /\ Closed(state'[h].events)
  BY <1>3, <1>5, <1>8, <1>9
<1> QED BY <1>2, <1>6, <1>7, <1>8, <1>9, <1>10, <1>11, <1>12, ShownOK

\* A state whose file is removed goes on without it.
LEMMA OrphanedIs ==
  ASSUME NEW s, NEW d, NEW fs, Backed(s, d), s.writer # "none" \/ s.file \notin fs
  PROVE  LET o == Orphaned(s, fs)
         IN  /\ Backed(o, IF s.file \in fs THEN Nothing ELSE d)
             /\ o.file = s.file /\ o.events = s.events /\ o.torn = s.torn
             /\ o.writer = "none" <=> s.writer = "none"
<1>1. s \in States /\ s.writer \in {"none", "open", "gone"} /\ (~s.torn => Shaped(s.events))
  BY StatesAre DEF Backed
<1>2. CASE s.file \notin fs
  BY <1>2 DEF Orphaned
<1>3. CASE s.file \in fs
  <2> DEFINE o == Orphaned(s, fs)
  <2>1. o \in States /\ o.writer = "gone" /\ o.file = s.file /\ o.events = s.events /\ o.torn = s.torn
    BY <1>1, <1>3 DEF Orphaned, States
  <2> HIDE DEF o
  <2>2. Backed(o, Nothing)
    BY <1>1, <2>1 DEF Backed
  <2> QED BY <1>3, <2>1, <2>2 DEF o
<1> QED BY <1>2, <1>3

LEMMA OrphanType ==
  ASSUME NEW s \in States, NEW fs
  PROVE  Orphaned(s, fs) \in States
BY DEF Orphaned, States

\* What is removed, when a new file may come.
LEMMA RemovedOK ==
  ASSUME SessionInv, NEW fs \in SUBSET Files, NEW h \in Handles, ~Running(h), Removed(fs),
         used \subseteq used', used' \subseteq Files, view' = h, pinned' = pinned, phase' = phase,
         \A g \in Handles : g # h => state'[g] = Orphaned(state[g], fs),
         state' \in [Handles -> States],
         Backed(state'[h], disk'[state'[h].file]), state'[h].file \in used', Closed(state'[h].events),
         \A g \in Handles : Running(g) => state[g].file # state'[h].file,
         \A t \in Turns : LogTurn(state'[h].events, t) => Carries(state'[h].file, t)
  PROVE  SessionInv'
<1>1. /\ disk \in Disks /\ state \in [Handles -> States] /\ Listed(ages, disk, used)
      /\ TurnsPinned /\ HandlesBacked /\ pinned \in [Turns -> Handles \cup {Nothing}]
  BY InvIs
<1>2. disk' = [f \in Files |-> IF f \in fs THEN Nothing ELSE disk[f]] /\ ages' = Kept(ages, Files \ fs)
  BY DEF Removed
<1>3. disk' \in Disks /\ \A f \in Files : disk'[f] = IF f \in fs THEN Nothing ELSE disk[f]
  BY <1>1, <1>2 DEF Disks
<1>4. Listed(ages', disk', used')
  <2>1. Listed(Kept(ages, Files \ fs), [f \in Files |-> IF f \in fs THEN Nothing ELSE disk[f]], used)
    BY <1>1, ListedMore
  <2>2. Listed(ages', disk', used)
    BY <1>2, <2>1
  <2> QED BY <1>3, <2>2, ListedMore
<1>5. ASSUME NEW g \in Handles, Running(g) PROVE Untouched(g) /\ state[g].file # state'[h].file
  <2>1. g # h /\ Live(g) /\ state[g].file \in Files
    BY <1>5, InvIs DEF Live, Running
  <2>2. Backed(state[g], disk[state[g].file])
    BY <1>1, <2>1 DEF HandlesBacked
  <2>3. state[g].writer # "none"
    <3>1. PICK t \in Turns : pinned[t] = g
      BY <1>5 DEF Running
    <3>2. g # Nothing
      BY SessionAssumption
    <3> QED BY <1>1, <3>1, <3>2 DEF TurnsPinned
  <2>4. LET o == state'[g]
        IN  /\ Backed(o, IF state[g].file \in fs THEN Nothing ELSE disk[state[g].file])
            /\ o.file = state[g].file /\ o.events = state[g].events /\ o.torn = state[g].torn
            /\ o.writer = "none" <=> state[g].writer = "none"
    <3>1. state'[g] = Orphaned(state[g], fs)
      BY <2>1
    <3> QED BY <2>2, <2>3, <3>1, OrphanedIs
  <2> QED BY <1>3, <1>5, <2>1, <2>3, <2>4 DEF Untouched
<1>6. ASSUME NEW g \in Files, NEW u \in Turns, Carries(g, u)' PROVE Carries(g, u)
  <2>1. CASE disk'[g] # Nothing /\ DiskTurn(disk'[g], u)
    BY <1>3, <2>1 DEF Carries, Exists
  <2>2. CASE \E k \in Handles : Live(k)' /\ state'[k].file = g /\ LogTurn(state'[k].events, u)
    <3>1. PICK k \in Handles : Live(k)' /\ state'[k].file = g /\ LogTurn(state'[k].events, u)
      BY <2>2
    <3>2. CASE k = h
      BY <3>1, <3>2
    <3>3. CASE k # h
      <4>1. Running(k) /\ Live(k)
        BY <3>1, <3>3 DEF Live, Running
      <4>2. Untouched(k)
        BY <1>5, <4>1
      <4> QED BY <3>1, <4>1, <4>2 DEF Carries, Untouched
    <3> QED BY <3>2, <3>3
  <2> QED BY <1>6, <2>1, <2>2 DEF Carries, Exists
<1> QED BY <1>3, <1>4, <1>5, <1>6, ShownOK

\* A new session.
LEMMA StartedOK ==
  ASSUME SessionInv, NEW f \in Files \ used, NEW fs \in SUBSET (Files \ {f}), NEW h \in Handles, h = FreeHandle,
         Removed(fs), used' = used \cup {f}, view' = h, pinned' = pinned, phase' = phase,
         state' = [g \in Handles |-> IF g = h THEN Fresh(f) ELSE Orphaned(state[g], fs)]
  PROVE  SessionInv'
<1>1. /\ disk \in Disks /\ state \in [Handles -> States] /\ Listed(ages, disk, used) /\ HandlesBacked
      /\ used \subseteq Files
  BY InvIs DEF Listed
<1>2. ~Live(h) /\ ~Running(h)
  BY FreeIs DEF Live, Running
<1>3. Fresh(f) \in States /\ Fresh(f).file = f /\ Fresh(f).events = <<>> /\ Fresh(f).writer = "none" /\ ~Fresh(f).torn
  BY StatesAre
<1>4. disk[f] = Nothing
  BY <1>1 DEF Listed
<1>5. disk'[f] = Nothing
  BY <1>4 DEF Removed
<1>6. Backed(Fresh(f), Nothing)
  BY <1>3, ShapedNone DEF Backed
<1>7. state'[h] = Fresh(f) /\ (\A g \in Handles : g # h => state'[g] = Orphaned(state[g], fs))
      /\ state' \in [Handles -> States]
  BY <1>1, <1>3, OrphanType
<1>8. \A g \in Handles : Running(g) => state[g].file # f
  BY <1>1 DEF HandlesBacked, Live, Running
<1>9. \A t : ~LogTurn(<<>>, t)
  <2>1. Len(<<>>) = 0
    OBVIOUS
  <2> QED BY <2>1 DEF LogTurn
<1>10. Closed(state'[h].events)
  BY <1>3, <1>7, ShapedNone
<1> QED BY <1>1, <1>2, <1>3, <1>5, <1>6, <1>7, <1>8, <1>9, <1>10, RemovedOK

LEMMA InProjectIs ==
  ASSUME SessionInv, NEW p
  PROVE  /\ InProject(p) \in Seq(Files)
         /\ \A n \in 1 .. Len(InProject(p)) : Exists(InProject(p)[n]) /\ Project[InProject(p)[n]] = p
<1> DEFINE S == {f \in Files : Project[f] = p}
           ps == Kept(ages, S)
<1>1. ages \in Seq(Files) /\ Range(ages) = {f \in Files : Exists(f)}
  BY InvIs DEF Listed, Exists
<1>2. ps \in Seq(Files) /\ Range(ps) = Range(ages) \cap S
  BY <1>1, KeptRange
<1>3. \A n \in 1 .. Len(ps) : ps[n] \in Range(ps)
  BY <1>2, LenProperties DEF Range
<1> HIDE DEF ps
<1>4. \A n \in 1 .. Len(ps) : Exists(ps[n]) /\ Project[ps[n]] = p
  BY <1>1, <1>2, <1>3
<1> QED BY <1>2, <1>4 DEF InProject, ps

LEMMA NoRemoval ==
  ASSUME SessionInv
  PROVE  /\ disk = [f \in Files |-> IF f \in {} THEN Nothing ELSE disk[f]] /\ ages = Kept(ages, Files \ {})
         /\ \A h \in Handles : Orphaned(state[h], {}) = state[h]
<1>1. disk \in Disks /\ Listed(ages, disk, used)
  BY InvIs
<1>2. Files \ {} = Files /\ Kept(ages, Files) = ages
  BY <1>1, ListedMore
<1> QED BY <1>1, <1>2 DEF Disks, Orphaned

\* The session written last, or a new one, when no turn runs.
LEMMA ShowLatestOK ==
  ASSUME SessionInv, NEW p, ShowLatest(p), \A h \in Handles : ~Running(h),
         pinned' = pinned, phase' = phase
  PROVE  SessionInv'
<1>1. CASE InProject(p) # <<>>
  <2>1. PICK ps \in Seq(Files) : ps = InProject(p) /\ \A n \in 1 .. Len(ps) : Exists(ps[n])
    BY InProjectIs
  <2>2. Len(ps) \in Nat /\ Len(ps) # 0
    BY <1>1, <2>1, LenProperties, EmptySeq
  <2>3. Len(ps) \in 1 .. Len(ps) /\ ps[Len(ps)] \in Files
    BY <2>1, <2>2, ElementOfSeq
  <2>4. PICK f \in Files : f = Last(InProject(p)) /\ Exists(f)
    BY <2>1, <2>3 DEF Last
  <2>5. Opened(f) /\ used' = used
    BY <1>1, <2>4 DEF ShowLatest
  <2> QED BY <2>4, <2>5, OpenedOK
<1>2. CASE InProject(p) = <<>>
  <2>1. PICK f \in Files : Started(f) /\ disk' = disk /\ ages' = ages
    BY <1>2 DEF ShowLatest
  <2>2. PICK h \in Handles : h = FreeHandle
    BY FreeIs
  <2>3. f \in Files \ used /\ used' = used \cup {f} /\ view' = h /\ state' = [state EXCEPT ![h] = Fresh(f)]
    BY <2>1, <2>2 DEF Started
  <2>4. state \in [Handles -> States]
    BY InvIs
  <2>5. state' = [g \in Handles |-> IF g = h THEN Fresh(f) ELSE Orphaned(state[g], {})]
    <3>1. state' = [g \in Handles |-> IF g = h THEN Fresh(f) ELSE state[g]]
      BY <2>3, <2>4
    <3>2. \A g \in Handles : Orphaned(state[g], {}) = state[g]
      BY NoRemoval
    <3> QED BY <3>1, <3>2
  <2>6. Removed({})
    BY <2>1, NoRemoval DEF Removed
  <2>7. {} \in SUBSET (Files \ {f})
    OBVIOUS
  <2> QED BY <2>2, <2>3, <2>5, <2>6, <2>7, StartedOK
<1> QED BY <1>1, <1>2

LEMMA OpenLatestOK == ASSUME SessionInv, NEW p, OpenLatest(p) PROVE SessionInv'
<1>1. \A h \in Handles : ~Running(h)
  <2>1. TurnsPinned /\ \A h \in Handles : h # Nothing
    BY InvIs
  <2> QED BY <2>1 DEF OpenLatest, TurnsPinned, Running
<1> QED BY <1>1, ShowLatestOK DEF OpenLatest

LEMMA SwitchWorkspaceOK == ASSUME SessionInv, NEW p, SwitchWorkspace(p) PROVE SessionInv'
<1>1. \A h \in Handles : ~Running(h)
  BY DEF SwitchWorkspace, AnyBusy
<1> QED BY <1>1, ShowLatestOK DEF SwitchWorkspace

LEMMA NewSessionOK == ASSUME SessionInv, NewSession PROVE SessionInv'
<1>1. PICK f \in Files \ used :
        /\ used' = used \cup {f} /\ view' = FreeHandle
        /\ state' = [g \in Handles |-> IF g = FreeHandle THEN Fresh(f) ELSE Orphaned(state[g], Pruned(Project[f], Keep, f))]
        /\ Removed(Pruned(Project[f], Keep, f)) /\ pinned' = pinned /\ phase' = phase
  BY DEF NewSession
<1>2. PICK h \in Handles : h = FreeHandle
  BY FreeIs
<1>3. Pruned(Project[f], Keep, f) \in SUBSET (Files \ {f})
  <2>1. PICK ps \in Seq(Files) : ps = InProject(Project[f])
    BY InProjectIs
  <2>2. Len(ps) \in Nat /\ Keep \in Nat
    BY LenProperties, SessionAssumption
  <2>3. \A n \in 1 .. Len(ps) - Keep : n \in 1 .. Len(ps)
    BY <2>2
  <2>4. \A n \in 1 .. Len(ps) - Keep : ps[n] \in Files
    BY <2>3, ElementOfSeq
  <2> QED BY <2>1, <2>4 DEF Pruned
<1>4. PICK fs \in SUBSET (Files \ {f}) : fs = Pruned(Project[f], Keep, f)
  BY <1>3
<1> QED BY <1>1, <1>2, <1>4, StartedOK

LEMMA SwitchToFileOK == ASSUME SessionInv, NEW f \in Files, SwitchToFile(f) PROVE SessionInv'
<1>1. Exists(f) /\ used' = used /\ pinned' = pinned /\ phase' = phase
  BY DEF SwitchToFile
<1>2. CASE Cached(f) = {}
  <2>1. Opened(f)
    BY <1>2 DEF SwitchToFile
  <2>2. \A h \in Handles : Running(h) => state[h].file # f
    BY <1>2 DEF Cached, Live, Running
  <2> QED BY <1>1, <2>1, <2>2, OpenedOK
<1>3. CASE Cached(f) # {}
  <2>1. PICK h \in Handles : view' = h /\ Live(h)
    BY <1>3 DEF SwitchToFile, Cached
  <2>2. disk' = disk /\ ages' = ages /\ state' = state
    BY <1>3 DEF SwitchToFile
  <2>3. \A g \in Handles : (Live(g)' => Live(g)) /\ (Running(g)' <=> Running(g))
    BY <1>1, <2>1 DEF Live, Running
  <2>4. h # Nothing
    BY InvIs
  <2>5. SessionTypes' /\ FilesListed'
    BY <1>1, <2>1, <2>2 DEF SessionInv, SessionTypes, FilesListed
  <2>6. TurnsPinned'
    BY <1>1, <2>1, <2>2, <2>4 DEF SessionInv, TurnsPinned
  <2>7. HandlesBacked'
    BY <1>1, <2>2, <2>3 DEF SessionInv, HandlesBacked
  <2>8. OneStatePerFile'
    BY <2>2, <2>3 DEF SessionInv, OneStatePerFile
  <2>9. \A g \in Files, t \in Turns : Carries(g, t)' => Carries(g, t)
    BY <2>2, <2>3 DEF Carries, Exists
  <2>10. TurnsAtHome'
    BY <1>1, <2>9 DEF SessionInv, TurnsAtHome
  <2> QED BY <2>5, <2>6, <2>7, <2>8, <2>10 DEF SessionInv
<1> QED BY <1>2, <1>3

LEMMA RemoveSessionsOK == ASSUME SessionInv, NEW fs \in SUBSET Files, RemoveSessions(fs) PROVE SessionInv'
<1>1. PICK h \in Handles : h = view
  BY InvIs DEF RemoveSessions
<1>2. /\ ~Running(h) /\ Live(h) /\ state[h].file \notin fs /\ Removed(fs) /\ used' = used /\ view' = h
      /\ pinned' = pinned /\ phase' = phase /\ state' = [g \in Handles |-> Orphaned(state[g], fs)]
  BY <1>1 DEF RemoveSessions, Live
<1>3. /\ state \in [Handles -> States] /\ disk \in Disks /\ used \subseteq Files /\ state[h].file \in Files
      /\ HandlesBacked /\ OneStatePerFile
  BY InvIs DEF Listed
<1>4. Backed(state[h], disk[state[h].file]) /\ state[h].file \in used /\ Closed(state[h].events)
  BY <1>2, <1>3 DEF HandlesBacked
<1>5. state'[h] = state[h]
  BY <1>2 DEF Orphaned
<1>6. disk'[state[h].file] = disk[state[h].file]
  BY <1>2, <1>3 DEF Removed
<1>7. state' \in [Handles -> States]
  BY <1>2, <1>3, OrphanType
<1>8. \A g \in Handles : Running(g) => state[g].file # state[h].file
  BY <1>2, <1>3 DEF OneStatePerFile, Live, Running
<1>9. \A t \in Turns : LogTurn(state[h].events, t) => Carries(state[h].file, t)
  BY <1>2 DEF Carries
<1>10. \A g \in Handles : g # h => state'[g] = Orphaned(state[g], fs)
  BY <1>2
<1> QED BY <1>2, <1>3, <1>4, <1>5, <1>6, <1>7, <1>8, <1>9, <1>10, RemovedOK

\* What a crash leaves of a file.
LEMMA RemainsAre ==
  ASSUME NEW d \in FileStates, NEW w \in Remains(d), Shaped(d.lines)
  PROVE  w \in FileStates /\ Shaped(w.lines) /\ \A t \in Turns : DiskTurn(w, t) => DiskTurn(d, t)
<1>1. d.lines \in Seq(Lines) /\ d.tail \in Lines \cup {NoTail} /\ Len(d.lines) \in Nat /\ DOMAIN d.lines = 1 .. Len(d.lines)
  BY FilesAre, LenProperties
<1>2. \A t \in Turns : t # 0
  BY SessionAssumption
<1>3. ASSUME NEW n \in 0 .. Len(d.lines), NEW l \in Lines \cup {NoTail}, w = [lines |-> SubSeq(d.lines, 1, n), tail |-> l],
             l.turn = 0 \/ \E k \in 1 .. Len(d.lines) : l = d.lines[k]
      PROVE  w \in FileStates /\ Shaped(w.lines) /\ \A t \in Turns : DiskTurn(w, t) => DiskTurn(d, t)
  <2>1. /\ SubSeq(d.lines, 1, n) \in Seq(Lines) /\ Len(SubSeq(d.lines, 1, n)) = n
        /\ \A i \in 1 .. n : SubSeq(d.lines, 1, n)[i] = d.lines[i]
    BY <1>1, SubSeqProperties
  <2>2. PICK ls \in Seq(Lines) : ls = SubSeq(d.lines, 1, n)
    BY <2>1
  <2>3. w \in FileStates /\ w.lines = ls /\ w.tail = l
    BY <1>3, <2>2, FilesAre
  <2>4. Shaped(ls)
    BY <1>1, <2>2, ShapedPrefix
  <2>5. ASSUME NEW t \in Turns, DiskTurn(w, t) PROVE DiskTurn(d, t)
    <3>1. CASE l.turn = t
      BY <1>2, <1>3, <3>1 DEF DiskTurn
    <3>2. CASE l.turn # t
      <4>1. PICK i \in 1 .. n : d.lines[i].turn = t
        BY <2>1, <2>2, <2>3, <2>5, <3>2 DEF DiskTurn
      <4>2. i \in 1 .. Len(d.lines)
        BY <1>1
      <4> QED BY <4>1, <4>2 DEF DiskTurn
    <3> QED BY <3>1, <3>2
  <2> QED BY <2>3, <2>4, <2>5
<1>4. \/ w = d
      \/ \E n \in 0 .. Len(d.lines) - 1, l \in {NoTail, Torn, Broken} : w = [lines |-> SubSeq(d.lines, 1, n), tail |-> l]
      \/ \E n \in 1 .. Len(d.lines) : w = [lines |-> SubSeq(d.lines, 1, n - 1), tail |-> d.lines[n]]
  BY <1>1 DEF Remains
<1>5. CASE w = d
  BY <1>5
<1>6. CASE \E n \in 0 .. Len(d.lines) - 1, l \in {NoTail, Torn, Broken} : w = [lines |-> SubSeq(d.lines, 1, n), tail |-> l]
  <2>1. PICK n \in 0 .. Len(d.lines) - 1, l \in {NoTail, Torn, Broken} : w = [lines |-> SubSeq(d.lines, 1, n), tail |-> l]
    BY <1>6
  <2>2. n \in 0 .. Len(d.lines) /\ l \in Lines \cup {NoTail} /\ l.turn = 0
    BY <1>1, EventsAre
  <2> QED BY <1>3, <2>1, <2>2
<1>7. CASE \E n \in 1 .. Len(d.lines) : w = [lines |-> SubSeq(d.lines, 1, n - 1), tail |-> d.lines[n]]
  <2>1. PICK n \in 1 .. Len(d.lines) : w = [lines |-> SubSeq(d.lines, 1, n - 1), tail |-> d.lines[n]]
    BY <1>7
  <2>2. n - 1 \in 0 .. Len(d.lines) /\ d.lines[n] \in Lines
    BY <1>1, ElementOfSeq
  <2> QED BY <1>3, <2>1, <2>2
<1> QED BY <1>4, <1>5, <1>6, <1>7

LEMMA SessionCrashOK == ASSUME SessionInv, SessionCrash PROVE SessionInv'
<1>1. /\ disk \in Disks /\ Listed(ages, disk, used) /\ TurnsAtHome
      /\ phase \in [Turns -> {"new", "started", "spoke", "delivered", "over"}]
      /\ \A h \in Handles : h # Nothing
  BY InvIs
<1>2. /\ view' = Nothing /\ pinned' = [t \in Turns |-> Nothing] /\ ages' = ages /\ used' = used
      /\ phase' = [t \in Turns |-> IF phase[t] = "new" THEN "new" ELSE "over"]
      /\ state' = [h \in Handles |-> Fresh(CHOOSE f \in Files : TRUE)]
  BY DEF SessionCrash
<1>3. \A h \in Handles : ~Live(h)'
  BY <1>1, <1>2 DEF Live
<1>4. /\ disk' \in Disks /\ Listed(ages, disk', used)
      /\ \A f \in Files, t \in Turns : disk'[f] # Nothing /\ DiskTurn(disk'[f], t) => disk[f] # Nothing /\ DiskTurn(disk[f], t)
  <2>1. CASE disk' = disk
    BY <1>1, <2>1
  <2>2. CASE \E f \in Range(ages) : \E d \in Remains(disk[f]) : disk' = [disk EXCEPT ![f] = d]
    <3>0. PICK f \in Range(ages) : \E d \in Remains(disk[f]) : disk' = [disk EXCEPT ![f] = d]
      BY <2>2
    <3>1. PICK d \in Remains(disk[f]) : disk' = [disk EXCEPT ![f] = d]
      BY <3>0
    <3>2. f \in Files /\ disk[f] # Nothing /\ Shaped(disk[f].lines)
      BY <1>1, <3>1 DEF Listed
    <3>3. disk[f] \in FileStates
      BY <1>1, <3>2 DEF Disks
    <3>4. d \in FileStates /\ Shaped(d.lines) /\ \A t \in Turns : DiskTurn(d, t) => DiskTurn(disk[f], t)
      BY <3>1, <3>2, <3>3, RemainsAre
    <3>5. \A g \in Files, v \in FileStates : Shaped(v.lines) /\ disk[g] # Nothing => Listed(ages, [disk EXCEPT ![g] = v], used)
      BY <1>1, ListedMore
    <3>6. Listed(ages, disk', used)
      BY <3>1, <3>2, <3>4, <3>5
    <3>7. disk' \in Disks /\ disk'[f] = d /\ \A g \in Files : g # f => disk'[g] = disk[g]
      BY <1>1, <3>1, <3>2, <3>4 DEF Disks
    <3> QED BY <3>2, <3>4, <3>6, <3>7
  <2> QED BY <2>1, <2>2 DEF SessionCrash
<1>5. (CHOOSE f \in Files : TRUE) \in Files
  BY SessionAssumption
<1>6. SessionTypes' /\ FilesListed'
  <2>1. state' \in [Handles -> States]
    BY <1>2, <1>5, StatesAre
  <2>2. phase' \in [Turns -> {"new", "started", "spoke", "delivered", "over"}]
    BY <1>1, <1>2
  <2> QED BY <1>2, <1>4, <2>1, <2>2 DEF SessionTypes, FilesListed, Disks
<1>7. TurnsPinned'
  BY <1>1, <1>2 DEF TurnsPinned
<1>8. \A f \in Files, t \in Turns : Carries(f, t)' => Carries(f, t)
  BY <1>3, <1>4 DEF Carries, Exists
<1>9. TurnsAtHome'
  BY <1>1, <1>2, <1>8 DEF TurnsAtHome
<1> QED BY <1>3, <1>6, <1>7, <1>9 DEF SessionInv, HandlesBacked, OneStatePerFile

-----------------------------------------------------------------------------
(* The theorem *)

LEMMA SessionStep == SessionInv /\ [SessionNext]_sessionVars => SessionInv'
<1> SUFFICES ASSUME SessionInv, [SessionNext]_sessionVars PROVE SessionInv'
  OBVIOUS
<1>1. ASSUME NEW f \in Files, OpenLatest(Project[f]) PROVE SessionInv'
  BY <1>1, OpenLatestOK
<1>2. ASSUME NEW f \in Files, SwitchWorkspace(Project[f]) PROVE SessionInv'
  BY <1>2, SwitchWorkspaceOK
<1>3. ASSUME NEW f \in Files, SwitchToFile(f) PROVE SessionInv'
  BY <1>3, SwitchToFileOK
<1>4. ASSUME NewSession PROVE SessionInv'
  BY <1>4, NewSessionOK
<1>5. ASSUME NEW fs \in SUBSET Files, RemoveSessions(fs) PROVE SessionInv'
  BY <1>5, RemoveSessionsOK
<1>6. ASSUME NEW t \in Turns, Submit(t) PROVE SessionInv'
  BY <1>6, SubmitOK
<1>7. ASSUME NEW t \in Turns, Output(t) PROVE SessionInv'
  BY <1>7, SpeakOK DEF Output, HandleOf
<1>8. ASSUME NEW t \in Turns, Deliver(t) PROVE SessionInv'
  BY <1>8, SpeakOK DEF Deliver, HandleOf
<1>9. ASSUME NEW t \in Turns, EndTurn(t) PROVE SessionInv'
  BY <1>9, EndTurnOK
<1>10. ASSUME SessionCrash PROVE SessionInv'
  BY <1>10, SessionCrashOK
<1>11. CASE UNCHANGED sessionVars
  <2>1. /\ disk' = disk /\ ages' = ages /\ used' = used /\ state' = state /\ view' = view
        /\ pinned' = pinned /\ phase' = phase
    BY <1>11 DEF sessionVars
  <2>2. \A h \in Handles : (Live(h)' <=> Live(h)) /\ (Running(h)' <=> Running(h))
    BY <2>1 DEF Live, Running
  <2>3. SessionTypes' /\ FilesListed' /\ TurnsPinned'
    BY <2>1 DEF SessionInv, SessionTypes, FilesListed, TurnsPinned
  <2>4. HandlesBacked' /\ OneStatePerFile'
    BY <2>1, <2>2 DEF SessionInv, HandlesBacked, OneStatePerFile
  <2>5. \A f \in Files, t \in Turns : Carries(f, t)' => Carries(f, t)
    BY <2>1, <2>2 DEF Carries, Exists
  <2>6. TurnsAtHome'
    BY <2>1, <2>5 DEF SessionInv, TurnsAtHome
  <2> QED BY <2>3, <2>4, <2>6 DEF SessionInv
<1> QED
  BY <1>1, <1>2, <1>3, <1>4, <1>5, <1>6, <1>7, <1>8, <1>9, <1>10, <1>11 DEF SessionNext

\* A file, the one state in memory that appends to it and the turns that speak
\* through it stay together, whatever the interface shows, opens and removes
\* meanwhile and wherever crashes cut the files; and a turn is closed once, before
\* its session is shown again, with one report.
THEOREM SessionsAreSafe == SessionSpec => []SessionSafety
<1>1. SessionSpec => []SessionInv
  BY SessionStart, SessionStep, PTL DEF SessionSpec
<1> QED BY <1>1, SessionInvSafe, PTL

=============================================================================
