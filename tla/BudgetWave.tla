----------------------------- MODULE BudgetWave -----------------------------
(***************************************************************************)
(* The token allowance that the turns of a workspace share: submit,        *)
(* admit_llm and finish_budget_exhausted of lha/orchestrator.rs, acquire   *)
(* and reset_total_tokens of lha/rate_limit.rs, the file behind them       *)
(* (lha/storage.rs, atomic_write), and the requests of a turn, which       *)
(* BudgetedLlmProvider (long_horizon.rs) makes wait for admission.         *)
(*                                                                         *)
(* The allowance has a mutex, the DAG another.  submit takes the DAG and   *)
(* inside it the allowance; an admission takes the allowance, lets it go,  *)
(* and takes the DAG only to close an exhausted task.  The allowance's     *)
(* mutex is kept while the file is replaced, which takes three steps.      *)
(* A turn has up to one request per surface in flight, all polled by one   *)
(* task: an admission, a blocking call, is not interleaved with another    *)
(* one of the same turn.  RPM and TPM buckets are a nondeterministic       *)
(* Backpressure.                                                           *)
(***************************************************************************)
EXTENDS Integers

CONSTANTS
  Turns,
  Surfaces,     \* requests a turn makes in parallel
  Nobody,       \* not a turn: a free mutex
  Total,        \* total_token_budget, positive: zero disables the cap
  Burst,        \* token_burst of the provider
  Estimates,    \* token estimates of requests
  CrashInRename, \* TRUE: a crash may hit between the two renames of a save
  MaxGroups,    \* bound on the groups of requests a turn makes
  MaxErrors,    \* bound on saves that return an error
  MaxCrashes    \* bound on crashes

ASSUME BudgetAssumption ==
  /\ Nobody \notin Turns
  /\ Surfaces # {}
  /\ Total \in Nat \ {0}
  /\ Burst \in Nat
  /\ Estimates \subseteq Nat \ {0}
  /\ CrashInRename \in BOOLEAN
  /\ MaxGroups \in Nat
  /\ MaxErrors \in Nat
  /\ MaxCrashes \in Nat

Absent == -1    \* no such file

VARIABLES
  remaining,    \* total_tokens_remaining in memory
  file,         \* total_tokens_remaining in budget.json, or Absent
  backup,       \* the same of budget.json.lha-backup
  saving,       \* where atomic_write is
  dagLock,      \* who holds the DAG
  cashLock,     \* who holds the allowance
  phase,        \* where the turn is
  verdict,      \* why the turn is saving the allowance
  surface,      \* the request it is admitting
  asks,         \* estimate of each pending request of a turn, 0 when none
  fate,         \* of the turn's task: "absent", "live", "settled", "exhausted"
  groups,       \* groups of requests so far, per turn
  spent,        \* history: tokens sent upstream in this wave
  errors,
  crashes

lockVars == <<dagLock, cashLock>>
fileVars == <<file, backup, saving>>
turnVars == <<phase, verdict, surface, asks, fate, groups>>
boundVars == <<errors, crashes>>
vars == <<remaining, fileVars, lockVars, turnVars, spent, boundVars>>

NoAsks == [s \in Surfaces |-> 0]

BudgetInit ==
  /\ remaining = Total
  /\ file = Total               \* register_provider saves a new allowance
  /\ backup = Absent
  /\ saving = "no"
  /\ dagLock = Nobody
  /\ cashLock = Nobody
  /\ phase = [t \in Turns |-> "new"]
  /\ verdict = [t \in Turns |-> "none"]
  /\ surface \in [Turns -> {CHOOSE s \in Surfaces : TRUE}]
  /\ asks = [t \in Turns |-> NoAsks]
  /\ fate = [t \in Turns |-> "absent"]
  /\ groups = [t \in Turns |-> 0]
  /\ spent = 0
  /\ errors = 0
  /\ crashes = 0

Goto(t, p) == phase' = [phase EXCEPT ![t] = p]

\* Takes the allowance's mutex and starts to save it, for the reason v.
StartSaving(t, v) ==
  /\ cashLock = Nobody
  /\ cashLock' = t
  /\ saving' = "write"
  /\ verdict' = [verdict EXCEPT ![t] = v]
  /\ Goto(t, "saving")

-----------------------------------------------------------------------------
(* submit: the DAG is held from the look at the statuses to the new task.   *)

Live == {t \in Turns : fate[t] = "live"}

\* Mutant: the DAG is let go between the look and the reset.
SubmitEnterUnlocked(t) ==
  /\ phase[t] = "new"
  /\ dagLock = Nobody
  /\ Goto(t, IF Live = {} THEN "newWave" ELSE "create")
  /\ UNCHANGED <<remaining, fileVars, lockVars, verdict, surface, asks, fate,
                 groups, spent, boundVars>>

SubmitEnter(t) ==
  /\ phase[t] = "new"
  /\ dagLock = Nobody
  /\ dagLock' = t
  /\ Goto(t, IF Live = {} THEN "newWave" ELSE "create")
  /\ UNCHANGED <<remaining, fileVars, cashLock, verdict, surface, asks, fate,
                 groups, spent, boundVars>>

ResetTotalTokens(t) ==
  /\ phase[t] = "newWave"
  /\ StartSaving(t, "reset")
  /\ remaining' = Total
  /\ spent' = 0
  /\ UNCHANGED <<file, backup, dagLock, surface, asks, fate, groups, boundVars>>

SubmitCreate(t) ==
  /\ phase[t] = "create"
  /\ fate' = [fate EXCEPT ![t] = "live"]
  /\ dagLock' = Nobody
  /\ Goto(t, "idle")
  /\ UNCHANGED <<remaining, fileVars, cashLock, verdict, surface, asks, groups,
                 spent, boundVars>>

-----------------------------------------------------------------------------
(* The requests of a turn and their admission.                              *)

\* The agent loop sends one request, or one per group of surfaces.
Ask(t) ==
  /\ phase[t] = "idle"
  /\ asks[t] = NoAsks
  /\ groups[t] < MaxGroups
  /\ groups' = [groups EXCEPT ![t] = @ + 1]
  /\ \E a \in [Surfaces -> Estimates \cup {0}] :
       /\ a # NoAsks
       /\ asks' = [asks EXCEPT ![t] = a]
  /\ UNCHANGED <<remaining, fileVars, lockVars, phase, verdict, surface, fate,
                 spent, boundVars>>

\* Mutant: the allowance is not debited before the mutex is released.
AcquireWithoutDebit(t, s) ==
  /\ phase[t] = "idle"
  /\ asks[t][s] > 0
  /\ LET tokens == asks[t][s] IN
       \/ /\ tokens > remaining
          /\ StartSaving(t, "exhausted")
       \/ /\ tokens <= remaining
          /\ StartSaving(t, IF tokens > Burst THEN "tooLarge" ELSE "granted")
  /\ surface' = [surface EXCEPT ![t] = s]
  /\ UNCHANGED <<remaining, file, backup, dagLock, asks, fate, groups, spent,
                 boundVars>>

\* Mutant: the comparison with the allowance is off by one.
AcquireOneTooMany(t, s) ==
  /\ phase[t] = "idle"
  /\ asks[t][s] > 0
  /\ LET tokens == asks[t][s] IN
       /\ tokens <= remaining + 1
       /\ StartSaving(t, "granted")
       /\ remaining' = remaining - tokens
  /\ surface' = [surface EXCEPT ![t] = s]
  /\ UNCHANGED <<file, backup, dagLock, asks, fate, groups, spent, boundVars>>

\* acquire_inner with enforce_total; admit_llm saves whatever the verdict is.
\* A Backpressure request sleeps and is admitted again later.
Acquire(t, s) ==
  /\ phase[t] = "idle"
  /\ asks[t][s] > 0
  /\ LET tokens == asks[t][s] IN
       \/ /\ tokens > remaining
          /\ StartSaving(t, "exhausted")
          /\ UNCHANGED remaining
       \/ /\ tokens <= remaining
          /\ tokens > Burst
          /\ StartSaving(t, "tooLarge")
          /\ UNCHANGED remaining
       \/ /\ tokens <= remaining
          /\ tokens <= Burst
          /\ \/ StartSaving(t, "backpressure") /\ UNCHANGED remaining
             \/ StartSaving(t, "granted") /\ remaining' = remaining - tokens
  /\ surface' = [surface EXCEPT ![t] = s]
  /\ UNCHANGED <<file, backup, dagLock, asks, fate, groups, spent, boundVars>>

-----------------------------------------------------------------------------
(* atomic_write of budget.json, with the allowance's mutex held.            *)

\* recover_atomic, and the new contents in a temporary file.
SaveTemporary ==
  /\ saving = "write"
  /\ file' = IF file = Absent THEN backup ELSE file
  /\ backup' = Absent
  /\ saving' = "renameOld"
  /\ UNCHANGED <<remaining, lockVars, turnVars, spent, boundVars>>

SaveRenameOld ==
  /\ saving = "renameOld"
  /\ backup' = IF file = Absent THEN backup ELSE file
  /\ file' = Absent
  /\ saving' = "renameNew"
  /\ UNCHANGED <<remaining, lockVars, turnVars, spent, boundVars>>

\* What follows the save.
AfterSave(v) ==
  CASE v = "reset"        -> "create"
    [] v = "granted"      -> "calling"
    [] v = "backpressure" -> "idle"
    [] v = "exhausted"    -> "exhausting"
    [] v = "tooLarge"     -> "ending"

\* The new file takes its name, the backup goes, and the mutex is released.
SaveRenameNew(t) ==
  /\ saving = "renameNew"
  /\ cashLock = t
  /\ file' = remaining
  /\ backup' = Absent
  /\ saving' = "no"
  /\ cashLock' = Nobody
  /\ Goto(t, AfterSave(verdict[t]))
  /\ UNCHANGED <<remaining, dagLock, verdict, surface, asks, fate, groups,
                 spent, boundVars>>

\* Mutant: the error of the save is ignored.
SaveErrorIgnored(t) ==
  /\ errors < MaxErrors
  /\ saving \in {"write", "renameOld"}
  /\ cashLock = t
  /\ saving' = "no"
  /\ cashLock' = Nobody
  /\ Goto(t, AfterSave(verdict[t]))
  /\ errors' = errors + 1
  /\ UNCHANGED <<remaining, file, backup, dagLock, verdict, surface, asks, fate,
                 groups, spent, crashes>>

\* An error of the save leaves submit, or ends the turn's stream; the debit
\* stays in memory, the old file on disk (a failed rename puts it back).
SaveFails(t) ==
  /\ errors < MaxErrors
  /\ saving \in {"write", "renameOld"}
  /\ cashLock = t
  /\ saving' = "no"
  /\ cashLock' = Nobody
  /\ dagLock' = IF dagLock = t THEN Nobody ELSE dagLock
  /\ Goto(t, IF verdict[t] = "reset" THEN "gone" ELSE "ending")
  /\ errors' = errors + 1
  /\ UNCHANGED <<remaining, file, backup, verdict, surface, asks, fate, groups,
                 spent, crashes>>

-----------------------------------------------------------------------------
CallUpstream(t) ==
  /\ phase[t] = "calling"
  /\ spent' = spent + asks[t][surface[t]]
  /\ asks' = [asks EXCEPT ![t][surface[t]] = 0]
  /\ Goto(t, "idle")
  /\ UNCHANGED <<remaining, fileVars, lockVars, verdict, surface, fate, groups,
                 boundVars>>

\* Mutant: the other requests of the turn stay in the race.
FinishBudgetExhaustedOnly(t) ==
  /\ phase[t] = "exhausting"
  /\ dagLock = Nobody
  /\ fate' = [fate EXCEPT ![t] = "exhausted"]
  /\ asks' = [asks EXCEPT ![t][surface[t]] = 0]
  /\ Goto(t, "idle")
  /\ UNCHANGED <<remaining, fileVars, lockVars, verdict, surface, groups, spent,
                 boundVars>>

\* finish_budget_exhausted; then the error ends the stream, and the loop that
\* polls the requests drops them all.
FinishBudgetExhausted(t) ==
  /\ phase[t] = "exhausting"
  /\ dagLock = Nobody
  /\ fate' = [fate EXCEPT ![t] = "exhausted"]
  /\ asks' = [asks EXCEPT ![t] = NoAsks]
  /\ Goto(t, "ending")
  /\ UNCHANGED <<remaining, fileVars, lockVars, verdict, surface, groups, spent,
                 boundVars>>

\* The partial report cannot be published: the error ends the stream as well.
ReportFails(t) ==
  /\ errors < MaxErrors
  /\ phase[t] = "exhausting"
  /\ dagLock = Nobody
  /\ asks' = [asks EXCEPT ![t] = NoAsks]
  /\ Goto(t, "ending")
  /\ errors' = errors + 1
  /\ UNCHANGED <<remaining, fileVars, lockVars, verdict, surface, fate, groups,
                 spent, crashes>>

\* The turn completes, fails or cancels its task; fail_task leaves an exhausted
\* one alone.
EndTurn(t) ==
  /\ \/ phase[t] = "ending"
     \/ phase[t] = "idle" /\ asks[t] = NoAsks
  /\ dagLock = Nobody
  /\ fate' = [fate EXCEPT ![t] = IF @ = "live" THEN "settled" ELSE @]
  /\ asks' = [asks EXCEPT ![t] = NoAsks]
  /\ Goto(t, "gone")
  /\ UNCHANGED <<remaining, fileVars, lockVars, verdict, surface, groups, spent,
                 boundVars>>

\* open(): the allowance is loaded only if budget.json exists; register_provider
\* saves a new one.
Reopen ==
  /\ remaining' = IF file # Absent THEN file ELSE Total
  /\ file' = remaining'

\* The process dies, and another opens the workspace.  Tasks of the turns that
\* were under way stay as they are.
Crash ==
  /\ crashes < MaxCrashes
  /\ saving = "renameNew" => CrashInRename
  /\ crashes' = crashes + 1
  /\ Reopen
  /\ backup' = Absent
  /\ saving' = "no"
  /\ dagLock' = Nobody
  /\ cashLock' = Nobody
  /\ phase' = [t \in Turns |-> IF phase[t] = "new" THEN "new" ELSE "gone"]
  /\ asks' = [t \in Turns |-> NoAsks]
  /\ UNCHANGED <<verdict, surface, fate, groups, spent, errors>>

TurnStep(t) ==
  \/ SubmitEnter(t) \/ ResetTotalTokens(t) \/ SubmitCreate(t)
  \/ \E s \in Surfaces : Acquire(t, s)
  \/ SaveRenameNew(t)
  \/ CallUpstream(t) \/ FinishBudgetExhausted(t) \/ EndTurn(t)

BudgetNext ==
  \/ \E t \in Turns :
       TurnStep(t) \/ Ask(t) \/ SaveFails(t) \/ ReportFails(t)
  \/ SaveTemporary
  \/ SaveRenameOld
  \/ Crash

BudgetSpec == BudgetInit /\ [][BudgetNext]_vars

-----------------------------------------------------------------------------
BudgetTypeOK ==
  /\ remaining \in 0..Total
  /\ file \in {Absent} \cup 0..Total
  /\ backup \in {Absent} \cup 0..Total
  /\ saving \in {"no", "write", "renameOld", "renameNew"}
  /\ dagLock \in Turns \cup {Nobody}
  /\ cashLock \in Turns \cup {Nobody}
  /\ phase \in [Turns -> {"new", "newWave", "create", "idle", "saving", "calling",
                          "exhausting", "ending", "gone"}]
  /\ verdict \in [Turns -> {"none", "reset", "granted", "backpressure",
                            "exhausted", "tooLarge"}]
  /\ surface \in [Turns -> Surfaces]
  /\ asks \in [Turns -> [Surfaces -> Nat]]
  /\ fate \in [Turns -> {"absent", "live", "settled", "exhausted"}]
  /\ spent \in Nat

\* The cap: no wave of concurrent turns sends more tokens upstream than the
\* allowance, whatever the order of their admissions.
SpendWithinAllowance == spent <= Total

\* What is on disk never promises tokens that were already spent, so a crash
\* cannot give them back.
OnDisk == IF file # Absent THEN file ELSE backup
DiskCoversSpend == OnDisk + spent <= Total

\* submit's comment: two concurrent submissions join the same wave.  What a wave
\* has spent is forgotten only at a moment when none of its tasks is live.
WaveJoined == [][spent' < spent => Live = {}]_vars

\* Invariant 17 of INVARIANTS.md, exhaustion is final: a task that was told so
\* sends nothing upstream any more, in this wave or in a later one, although
\* an admission never looks at the task's status.
ExhaustedIsFinal == \A t \in Turns : fate[t] = "exhausted" => phase[t] # "calling"

\* The safety of the allowance: not overspent, neither in memory nor over a restart.
BudgetSafety == BudgetTypeOK /\ SpendWithinAllowance /\ DiskCoversSpend
=============================================================================
