------------------------- MODULE BudgetWave_proofs --------------------------
(***************************************************************************)
(* Proofs about what a request to a provider must pass.  BudgetWave, for   *)
(* every set of turns and surfaces, every allowance and every number of    *)
(* errors and crashes; and RateLimiter, for every set of callers, rates,   *)
(* bursts and clocks.                                                      *)
(***************************************************************************)
EXTENDS BudgetWave, RateLimiter, FiniteSetTheorems, SequenceTheorems, TLAPS

USE BudgetAssumption

\* The mutex of the allowance is held exactly by the turn that is saving it.
MutexHeld ==
  /\ \A t \in Turns : phase[t] = "saving" <=> cashLock = t
  /\ saving = "no" <=> cashLock = Nobody
  /\ \A t \in Turns : phase[t] = "saving" => verdict[t] # "none"

Resetting(t) == phase[t] = "saving" /\ verdict[t] = "reset"

\* submit keeps the DAG from its look at the tasks to the new task, and between
\* the look and the reset no task comes to life.
SubmitExclusive ==
  \A t \in Turns :
    /\ (phase[t] \in {"newWave", "create"} \/ Resetting(t)) => dagLock = t
    /\ (phase[t] = "newWave" \/ Resetting(t)) => Live = {}

\* A turn makes requests only while its task is live.
RequestsAreLive ==
  \A t \in Turns :
    (\/ phase[t] \in {"idle", "calling", "exhausting"}
     \/ phase[t] = "saving" /\ verdict[t] # "reset") => fate[t] = "live"

\* Between the two renames the old contents are in the backup, and only then.
FilePresent ==
  /\ saving # "renameNew" => file # Absent
  /\ saving = "renameNew" => file = Absent /\ backup # Absent

\* The invariant of the locks, without the amounts.
LockInv ==
  /\ BudgetTypeOK
  /\ MutexHeld
  /\ SubmitExclusive
  /\ RequestsAreLive

\* The request of t has been debited and not yet sent upstream.
Reserved(t) ==
  \/ phase[t] = "calling"
  \/ phase[t] = "saving" /\ verdict[t] = "granted"

Tokens == 1..Total

\* The tokens of the allowance one by one: alloc[t] are those that t's request
\* has reserved, used are those that were sent.  No token is given out twice,
\* none of those above the balance on disk is counted as unspent there.
Ledger(alloc, used) ==
  /\ used \subseteq (remaining + 1)..Total
  /\ used \subseteq (OnDisk + 1)..Total
  /\ Cardinality(used) = spent
  /\ \A t \in Turns : Reserved(t) =>
       /\ alloc[t] \subseteq (remaining + 1)..Total
       /\ Cardinality(alloc[t]) = asks[t][surface[t]]
       /\ alloc[t] \cap used = {}
       /\ \A u \in Turns : u # t /\ Reserved(u) => alloc[t] \cap alloc[u] = {}
  /\ \A t \in Turns : phase[t] = "calling" => alloc[t] \subseteq (OnDisk + 1)..Total

Balanced ==
  \E alloc \in [Turns -> SUBSET Tokens], used \in SUBSET Tokens : Ledger(alloc, used)

-----------------------------------------------------------------------------
\* The fields keep their types; the balance never goes below zero.
LEMMA TypeStep ==
  BudgetTypeOK /\ MutexHeld /\ [BudgetNext]_vars => BudgetTypeOK'
<1> SUFFICES ASSUME BudgetTypeOK, MutexHeld, [BudgetNext]_vars PROVE BudgetTypeOK'
  OBVIOUS
<1> USE DEF BudgetTypeOK, Goto, lockVars, fileVars, turnVars, boundVars, Absent
<1>1. ASSUME NEW t \in Turns, SubmitEnter(t) PROVE BudgetTypeOK'
  BY <1>1 DEF SubmitEnter
<1>2. ASSUME NEW t \in Turns, ResetTotalTokens(t) PROVE BudgetTypeOK'
  BY <1>2 DEF ResetTotalTokens, StartSaving
<1>3. ASSUME NEW t \in Turns, SubmitCreate(t) PROVE BudgetTypeOK'
  BY <1>3 DEF SubmitCreate
<1>4. ASSUME NEW t \in Turns, NEW s \in Surfaces, Acquire(t, s) PROVE BudgetTypeOK'
  <2>1. remaining' \in 0..Total
    BY <1>4 DEF Acquire
  <2> QED BY <1>4, <2>1 DEF Acquire, StartSaving
<1>5. ASSUME NEW t \in Turns, SaveRenameNew(t) PROVE BudgetTypeOK'
  BY <1>5 DEF SaveRenameNew, AfterSave, MutexHeld
<1>6. ASSUME NEW t \in Turns, CallUpstream(t) PROVE BudgetTypeOK'
  BY <1>6 DEF CallUpstream
<1>7. ASSUME NEW t \in Turns, FinishBudgetExhausted(t) PROVE BudgetTypeOK'
  BY <1>7 DEF FinishBudgetExhausted, NoAsks
<1>8. ASSUME NEW t \in Turns, EndTurn(t) PROVE BudgetTypeOK'
  BY <1>8 DEF EndTurn, NoAsks
<1>9. ASSUME NEW t \in Turns, Ask(t) PROVE BudgetTypeOK'
  <2>1. PICK a \in [Surfaces -> Estimates \cup {0}] : asks' = [asks EXCEPT ![t] = a]
    BY <1>9 DEF Ask
  <2>2. Estimates \cup {0} \subseteq Nat
    BY BudgetAssumption
  <2>3. a \in [Surfaces -> Nat]
    BY <2>2
  <2> QED BY <1>9, <2>1, <2>3 DEF Ask
<1>10. ASSUME NEW t \in Turns, SaveFails(t) PROVE BudgetTypeOK'
  BY <1>10 DEF SaveFails
<1>11. ASSUME NEW t \in Turns, ReportFails(t) PROVE BudgetTypeOK'
  BY <1>11 DEF ReportFails, NoAsks
<1>12. CASE SaveTemporary
  BY <1>12 DEF SaveTemporary
<1>13. CASE SaveRenameOld
  BY <1>13 DEF SaveRenameOld
<1>14. CASE Crash
  BY <1>14 DEF Crash, Reopen, NoAsks
<1>15. CASE UNCHANGED vars
  BY <1>15 DEF vars
<1> QED BY <1>1, <1>2, <1>3, <1>4, <1>5, <1>6, <1>7, <1>8, <1>9, <1>10, <1>11,
           <1>12, <1>13, <1>14, <1>15 DEF BudgetNext, TurnStep

\* An admission always saves the allowance, whatever the verdict is.
Admissions == {"granted", "backpressure", "exhausted", "tooLarge"}

LEMMA AcquireSaves ==
  ASSUME NEW t \in Turns, NEW s \in Surfaces, Acquire(t, s)
  PROVE  \E v \in Admissions : StartSaving(t, v)
BY DEF Acquire, Admissions

\* The mutex of the allowance is taken and released with the save.
LEMMA MutexStep ==
  BudgetTypeOK /\ MutexHeld /\ [BudgetNext]_vars => MutexHeld'
<1> SUFFICES ASSUME BudgetTypeOK, MutexHeld, [BudgetNext]_vars PROVE MutexHeld'
  OBVIOUS
<1> USE DEF MutexHeld, Goto, lockVars, fileVars, turnVars, boundVars, BudgetTypeOK
<1>1. ASSUME NEW t \in Turns, SubmitEnter(t) PROVE MutexHeld'
  BY <1>1 DEF SubmitEnter
<1>2. ASSUME NEW t \in Turns, ResetTotalTokens(t) PROVE MutexHeld'
  BY <1>2 DEF ResetTotalTokens, StartSaving
<1>3. ASSUME NEW t \in Turns, SubmitCreate(t) PROVE MutexHeld'
  BY <1>3 DEF SubmitCreate
<1>4. ASSUME NEW t \in Turns, NEW s \in Surfaces, Acquire(t, s) PROVE MutexHeld'
  <2>1. PICK v \in Admissions : StartSaving(t, v)
    BY <1>4, AcquireSaves
  <2> QED BY <1>4, <2>1 DEF Acquire, StartSaving, Admissions
<1>5. ASSUME NEW t \in Turns, SaveRenameNew(t) PROVE MutexHeld'
  BY <1>5 DEF SaveRenameNew, AfterSave
<1>6. ASSUME NEW t \in Turns, CallUpstream(t) PROVE MutexHeld'
  BY <1>6 DEF CallUpstream
<1>7. ASSUME NEW t \in Turns, FinishBudgetExhausted(t) PROVE MutexHeld'
  BY <1>7 DEF FinishBudgetExhausted
<1>8. ASSUME NEW t \in Turns, EndTurn(t) PROVE MutexHeld'
  BY <1>8 DEF EndTurn
<1>9. ASSUME NEW t \in Turns, Ask(t) PROVE MutexHeld'
  BY <1>9 DEF Ask
<1>10. ASSUME NEW t \in Turns, SaveFails(t) PROVE MutexHeld'
  BY <1>10 DEF SaveFails
<1>11. ASSUME NEW t \in Turns, ReportFails(t) PROVE MutexHeld'
  BY <1>11 DEF ReportFails
<1>12. CASE SaveTemporary
  BY <1>12 DEF SaveTemporary
<1>13. CASE SaveRenameOld
  BY <1>13 DEF SaveRenameOld
<1>14. CASE Crash
  BY <1>14 DEF Crash, Reopen
<1>15. CASE UNCHANGED vars
  BY <1>15 DEF vars
<1> QED BY <1>1, <1>2, <1>3, <1>4, <1>5, <1>6, <1>7,
           <1>8, <1>9, <1>10, <1>11, <1>12, <1>13, <1>14, <1>15 DEF BudgetNext, TurnStep

\* Only the turn that holds the DAG brings a task to life.
LEMMA ExclusiveStep ==
  LockInv /\ [BudgetNext]_vars => SubmitExclusive'
<1> SUFFICES ASSUME LockInv, [BudgetNext]_vars PROVE SubmitExclusive'
  OBVIOUS
<1> USE DEF LockInv, SubmitExclusive, MutexHeld, Resetting, Live, Goto, lockVars,
            fileVars, turnVars, boundVars, BudgetTypeOK
<1>1. ASSUME NEW t \in Turns, SubmitEnter(t) PROVE SubmitExclusive'
  BY <1>1 DEF SubmitEnter
<1>2. ASSUME NEW t \in Turns, ResetTotalTokens(t) PROVE SubmitExclusive'
  BY <1>2 DEF ResetTotalTokens, StartSaving
<1>3. ASSUME NEW t \in Turns, SubmitCreate(t) PROVE SubmitExclusive'
  BY <1>3 DEF SubmitCreate
<1>4. ASSUME NEW t \in Turns, NEW s \in Surfaces, Acquire(t, s) PROVE SubmitExclusive'
  <2>1. PICK v \in Admissions : StartSaving(t, v)
    BY <1>4, AcquireSaves
  <2> QED BY <1>4, <2>1 DEF Acquire, StartSaving, Admissions
<1>5. ASSUME NEW t \in Turns, SaveRenameNew(t) PROVE SubmitExclusive'
  BY <1>5 DEF SaveRenameNew, AfterSave
<1>6. ASSUME NEW t \in Turns, CallUpstream(t) PROVE SubmitExclusive'
  BY <1>6 DEF CallUpstream
<1>7. ASSUME NEW t \in Turns, FinishBudgetExhausted(t) PROVE SubmitExclusive'
  BY <1>7 DEF FinishBudgetExhausted
<1>8. ASSUME NEW t \in Turns, EndTurn(t) PROVE SubmitExclusive'
  BY <1>8 DEF EndTurn
<1>9. ASSUME NEW t \in Turns, Ask(t) PROVE SubmitExclusive'
  BY <1>9 DEF Ask
<1>10. ASSUME NEW t \in Turns, SaveFails(t) PROVE SubmitExclusive'
  BY <1>10 DEF SaveFails
<1>11. ASSUME NEW t \in Turns, ReportFails(t) PROVE SubmitExclusive'
  BY <1>11 DEF ReportFails
<1>12. CASE SaveTemporary
  BY <1>12 DEF SaveTemporary
<1>13. CASE SaveRenameOld
  BY <1>13 DEF SaveRenameOld
<1>14. CASE Crash
  BY <1>14 DEF Crash, Reopen
<1>15. CASE UNCHANGED vars
  BY <1>15 DEF vars
<1> QED BY <1>1, <1>2, <1>3, <1>4, <1>5, <1>6, <1>7,
           <1>8, <1>9, <1>10, <1>11, <1>12, <1>13, <1>14, <1>15 DEF BudgetNext, TurnStep

\* A turn whose task was closed makes no requests any more.
LEMMA LiveStep ==
  LockInv /\ [BudgetNext]_vars => RequestsAreLive'
<1> SUFFICES ASSUME LockInv, [BudgetNext]_vars PROVE RequestsAreLive'
  OBVIOUS
<1> USE DEF LockInv, RequestsAreLive, MutexHeld, Goto, lockVars, fileVars,
            turnVars, boundVars, BudgetTypeOK
<1>1. ASSUME NEW t \in Turns, SubmitEnter(t) PROVE RequestsAreLive'
  BY <1>1 DEF SubmitEnter
<1>2. ASSUME NEW t \in Turns, ResetTotalTokens(t) PROVE RequestsAreLive'
  BY <1>2 DEF ResetTotalTokens, StartSaving
<1>3. ASSUME NEW t \in Turns, SubmitCreate(t) PROVE RequestsAreLive'
  BY <1>3 DEF SubmitCreate
<1>4. ASSUME NEW t \in Turns, NEW s \in Surfaces, Acquire(t, s) PROVE RequestsAreLive'
  <2>1. PICK v \in Admissions : StartSaving(t, v)
    BY <1>4, AcquireSaves
  <2> QED BY <1>4, <2>1 DEF Acquire, StartSaving, Admissions
<1>5. ASSUME NEW t \in Turns, SaveRenameNew(t) PROVE RequestsAreLive'
  BY <1>5 DEF SaveRenameNew, AfterSave
<1>6. ASSUME NEW t \in Turns, CallUpstream(t) PROVE RequestsAreLive'
  BY <1>6 DEF CallUpstream
<1>7. ASSUME NEW t \in Turns, FinishBudgetExhausted(t) PROVE RequestsAreLive'
  BY <1>7 DEF FinishBudgetExhausted
<1>8. ASSUME NEW t \in Turns, EndTurn(t) PROVE RequestsAreLive'
  BY <1>8 DEF EndTurn
<1>9. ASSUME NEW t \in Turns, Ask(t) PROVE RequestsAreLive'
  BY <1>9 DEF Ask
<1>10. ASSUME NEW t \in Turns, SaveFails(t) PROVE RequestsAreLive'
  BY <1>10 DEF SaveFails
<1>11. ASSUME NEW t \in Turns, ReportFails(t) PROVE RequestsAreLive'
  BY <1>11 DEF ReportFails
<1>12. CASE SaveTemporary
  BY <1>12 DEF SaveTemporary
<1>13. CASE SaveRenameOld
  BY <1>13 DEF SaveRenameOld
<1>14. CASE Crash
  BY <1>14 DEF Crash, Reopen
<1>15. CASE UNCHANGED vars
  BY <1>15 DEF vars
<1> QED BY <1>1, <1>2, <1>3, <1>4, <1>5, <1>6, <1>7,
           <1>8, <1>9, <1>10, <1>11, <1>12, <1>13, <1>14, <1>15 DEF BudgetNext, TurnStep


\* The two renames of a save leave the old contents in the backup meanwhile.
LEMMA FileStep ==
  ASSUME ~CrashInRename
  PROVE  LockInv /\ FilePresent /\ [BudgetNext]_vars => FilePresent'
<1> SUFFICES ASSUME LockInv, FilePresent, [BudgetNext]_vars PROVE FilePresent'
  OBVIOUS
<1> USE DEF LockInv, FilePresent, lockVars, fileVars, turnVars, boundVars,
            BudgetTypeOK, Absent
<1>1. ASSUME NEW t \in Turns, SubmitEnter(t) PROVE FilePresent'
  BY <1>1 DEF SubmitEnter
<1>2. ASSUME NEW t \in Turns, ResetTotalTokens(t) PROVE FilePresent'
  BY <1>2 DEF ResetTotalTokens, StartSaving, MutexHeld
<1>3. ASSUME NEW t \in Turns, SubmitCreate(t) PROVE FilePresent'
  BY <1>3 DEF SubmitCreate
<1>4. ASSUME NEW t \in Turns, NEW s \in Surfaces, Acquire(t, s) PROVE FilePresent'
  <2>1. PICK v \in Admissions : StartSaving(t, v)
    BY <1>4, AcquireSaves
  <2> QED BY <1>4, <2>1 DEF Acquire, StartSaving, MutexHeld
<1>5. ASSUME NEW t \in Turns, SaveRenameNew(t) PROVE FilePresent'
  BY <1>5 DEF SaveRenameNew
<1>6. ASSUME NEW t \in Turns, CallUpstream(t) PROVE FilePresent'
  BY <1>6 DEF CallUpstream
<1>7. ASSUME NEW t \in Turns, FinishBudgetExhausted(t) PROVE FilePresent'
  BY <1>7 DEF FinishBudgetExhausted
<1>8. ASSUME NEW t \in Turns, EndTurn(t) PROVE FilePresent'
  BY <1>8 DEF EndTurn
<1>9. ASSUME NEW t \in Turns, Ask(t) PROVE FilePresent'
  BY <1>9 DEF Ask
<1>10. ASSUME NEW t \in Turns, SaveFails(t) PROVE FilePresent'
  BY <1>10 DEF SaveFails
<1>11. ASSUME NEW t \in Turns, ReportFails(t) PROVE FilePresent'
  BY <1>11 DEF ReportFails
<1>12. CASE SaveTemporary
  BY <1>12 DEF SaveTemporary
<1>13. CASE SaveRenameOld
  BY <1>13 DEF SaveRenameOld
<1>14. CASE Crash
  BY <1>14 DEF Crash, Reopen
<1>15. CASE UNCHANGED vars
  BY <1>15 DEF vars
<1> QED BY <1>1, <1>2, <1>3, <1>4, <1>5, <1>6, <1>7, <1>8, <1>9, <1>10, <1>11,
           <1>12, <1>13, <1>14, <1>15 DEF BudgetNext, TurnStep


-----------------------------------------------------------------------------
\* A step that moves no tokens: the balances stay as they are, and nobody
\* reserves a request or gets to send one.
Quiet ==
  /\ remaining' = remaining
  /\ OnDisk' = OnDisk
  /\ spent' = spent
  /\ \A t \in Turns : Reserved(t)' =>
       Reserved(t) /\ asks'[t][surface'[t]] = asks[t][surface[t]]
  /\ \A t \in Turns : phase'[t] = "calling" => phase[t] = "calling"

LEMMA QuietKeepsLedger ==
  Balanced /\ Quiet => Balanced'
<1> SUFFICES ASSUME Balanced, Quiet PROVE Balanced'
  OBVIOUS
<1>1. PICK alloc \in [Turns -> SUBSET Tokens], used \in SUBSET Tokens :
        Ledger(alloc, used)
  BY DEF Balanced
<1>2. Ledger(alloc, used)'
  <2>1. /\ (used \subseteq (remaining + 1)..Total)'
        /\ (used \subseteq (OnDisk + 1)..Total)'
        /\ (Cardinality(used) = spent)'
    BY <1>1 DEF Ledger, Quiet
  <2>2. ASSUME NEW t \in Turns, Reserved(t)'
        PROVE  /\ (alloc[t] \subseteq (remaining + 1)..Total)'
               /\ (Cardinality(alloc[t]) = asks[t][surface[t]])'
               /\ alloc[t] \cap used = {}
               /\ \A u \in Turns : (u # t /\ Reserved(u)') => alloc[t] \cap alloc[u] = {}
    BY <1>1, <2>2 DEF Ledger, Quiet
  <2>3. ASSUME NEW t \in Turns, phase'[t] = "calling"
        PROVE  (alloc[t] \subseteq (OnDisk + 1)..Total)'
    BY <1>1, <2>3 DEF Ledger, Quiet
  <2> QED BY <2>1, <2>2, <2>3 DEF Ledger
<1> QED BY <1>2 DEF Balanced, Tokens

\* The steps that move no tokens.
LEMMA QuietSteps ==
  ASSUME ~CrashInRename, LockInv, FilePresent,
         \/ \E t \in Turns :
              \/ SubmitEnter(t) \/ SubmitCreate(t) \/ Ask(t) \/ SaveFails(t)
              \/ FinishBudgetExhausted(t) \/ ReportFails(t) \/ EndTurn(t)
         \/ SaveTemporary \/ SaveRenameOld
         \/ UNCHANGED vars
  PROVE  Quiet
<1> USE DEF Quiet, LockInv, MutexHeld, FilePresent, BudgetTypeOK, OnDisk, Absent,
            Reserved, Goto, lockVars, fileVars, turnVars, boundVars
<1>1. ASSUME NEW t \in Turns, SubmitEnter(t) PROVE Quiet
  BY <1>1 DEF SubmitEnter
<1>2. ASSUME NEW t \in Turns, SubmitCreate(t) PROVE Quiet
  BY <1>2 DEF SubmitCreate
<1>3. ASSUME NEW t \in Turns, Ask(t) PROVE Quiet
  BY <1>3 DEF Ask
<1>4. ASSUME NEW t \in Turns, SaveFails(t) PROVE Quiet
  BY <1>4 DEF SaveFails
<1>5. ASSUME NEW t \in Turns, FinishBudgetExhausted(t) PROVE Quiet
  BY <1>5 DEF FinishBudgetExhausted
<1>6. ASSUME NEW t \in Turns, ReportFails(t) PROVE Quiet
  BY <1>6 DEF ReportFails
<1>7. ASSUME NEW t \in Turns, EndTurn(t) PROVE Quiet
  BY <1>7 DEF EndTurn
<1>8. CASE SaveTemporary
  BY <1>8 DEF SaveTemporary
<1>9. CASE SaveRenameOld
  BY <1>9 DEF SaveRenameOld
<1>10. CASE UNCHANGED vars
  BY <1>10 DEF vars
<1> QED BY <1>1, <1>2, <1>3, <1>4, <1>5, <1>6, <1>7, <1>8, <1>9, <1>10


\* A granted request takes its tokens from the top of the balance in memory.
LEMMA GrantReserves ==
  ASSUME LockInv, Balanced, NEW t \in Turns, NEW s \in Surfaces, Acquire(t, s)
  PROVE  Balanced'
<1> DEFINE tokens == asks[t][s]
<1>1. PICK v \in Admissions : StartSaving(t, v)
  BY AcquireSaves
<1> USE DEF LockInv, MutexHeld, BudgetTypeOK, OnDisk, Absent, Reserved, Goto,
            StartSaving, Admissions, boundVars
<1>2. CASE v # "granted"
  <2>1. remaining' = remaining
    BY <1>1, <1>2 DEF Acquire
  <2>2. Quiet
    BY <1>1, <1>2, <2>1 DEF Acquire, Quiet
  <2> QED BY <2>2, QuietKeepsLedger
<1>3. CASE v = "granted"
  <2>1. /\ tokens \in Nat \ {0}
        /\ tokens <= remaining
        /\ remaining' = remaining - tokens
    BY <1>1, <1>3 DEF Acquire
  <2>2. PICK alloc \in [Turns -> SUBSET Tokens], used \in SUBSET Tokens :
          Ledger(alloc, used)
    BY DEF Balanced
  <2> DEFINE taken == (remaining - tokens + 1)..remaining
  <2>3. PICK alloc2 \in [Turns -> SUBSET Tokens] : alloc2 = [alloc EXCEPT ![t] = taken]
    <3>1. [alloc EXCEPT ![t] = taken] \in [Turns -> SUBSET Tokens]
      BY <2>1, <2>2 DEF Tokens
    <3> HIDE DEF taken
    <3> QED BY <3>1
  <2>4. Cardinality(taken) = tokens
    <3>1. /\ remaining - tokens + 1 \in Int
          /\ remaining \in Int
          /\ ~(remaining - tokens + 1 > remaining)
          /\ remaining - (remaining - tokens + 1) + 1 = tokens
      BY <2>1
    <3> QED BY <3>1, FS_Interval
  <2>5. UNCHANGED <<file, backup, spent, asks>> /\ surface' = [surface EXCEPT ![t] = s]
    BY DEF Acquire
  <2>6. /\ (used \subseteq (remaining + 1)..Total)'
        /\ (used \subseteq (OnDisk + 1)..Total)'
        /\ (Cardinality(used) = spent)'
    BY <2>1, <2>2, <2>5 DEF Ledger
  <2>7. \A u \in Turns : u # t => (Reserved(u)' => Reserved(u))
    BY <1>1
  <2>8. ASSUME NEW u \in Turns, u # t, Reserved(u)
        PROVE  /\ alloc[u] \subseteq (remaining + 1)..Total
               /\ Cardinality(alloc[u]) = asks[u][surface[u]]
               /\ alloc[u] \cap used = {}
               /\ \A w \in Turns : (w # u /\ Reserved(w)) => alloc[u] \cap alloc[w] = {}
    BY <2>2, <2>8 DEF Ledger
  <2>9. ASSUME NEW u \in Turns, Reserved(u)'
        PROVE  /\ (alloc2[u] \subseteq (remaining + 1)..Total)'
               /\ (Cardinality(alloc2[u]) = asks[u][surface[u]])'
               /\ alloc2[u] \cap used = {}
               /\ \A w \in Turns : (w # u /\ Reserved(w)') => alloc2[u] \cap alloc2[w] = {}
    <3>1. CASE u = t
      <4>1. alloc2[u] = taken
        BY <3>1, <2>2, <2>3
      <4>2. (alloc2[u] \subseteq (remaining + 1)..Total)'
        BY <4>1, <2>1
      <4>3. (Cardinality(alloc2[u]) = asks[u][surface[u]])'
        BY <4>1, <3>1, <2>4, <2>5
      <4>4. taken \cap (remaining + 1)..Total = {}
        BY <2>1
      <4>5. alloc2[u] \cap used = {}
        BY <4>1, <4>4, <2>2 DEF Ledger
      <4>6. ASSUME NEW w \in Turns, w # u, Reserved(w)'
            PROVE  alloc2[u] \cap alloc2[w] = {}
        BY <4>1, <4>4, <4>6, <3>1, <2>2, <2>3, <2>7, <2>8
      <4> QED BY <4>2, <4>3, <4>5, <4>6
    <3>2. CASE u # t
      <4>1. Reserved(u) /\ alloc2[u] = alloc[u]
        BY <3>2, <2>2, <2>3, <2>7, <2>9
      <4>2. (alloc2[u] \subseteq (remaining + 1)..Total)'
        BY <4>1, <3>2, <2>1, <2>8
      <4>3. (Cardinality(alloc2[u]) = asks[u][surface[u]])'
        BY <4>1, <3>2, <2>5, <2>8
      <4>4. taken \cap (remaining + 1)..Total = {}
        BY <2>1
      <4>5. ASSUME NEW w \in Turns, w # u, Reserved(w)'
            PROVE  alloc2[u] \cap alloc2[w] = {}
        <5>1. CASE w = t
          <6>1. alloc2[w] = taken
            BY <5>1, <2>2, <2>3
          <6> QED BY <6>1, <4>1, <4>4, <3>2, <2>8
        <5>2. CASE w # t
          <6>1. Reserved(w) /\ alloc2[w] = alloc[w]
            BY <5>2, <4>5, <2>2, <2>3, <2>7
          <6> QED BY <6>1, <4>1, <4>5, <3>2, <2>8
        <5> QED BY <5>1, <5>2
      <4> QED BY <4>1, <4>2, <4>3, <4>5, <3>2, <2>8
    <3> QED BY <3>1, <3>2
  <2>10. ASSUME NEW u \in Turns, phase'[u] = "calling"
         PROVE  (alloc2[u] \subseteq (OnDisk + 1)..Total)'
    <3>1. u # t /\ phase[u] = "calling"
      BY <1>1, <2>10
    <3> QED BY <3>1, <2>2, <2>3, <2>5 DEF Ledger
  <2>11. Ledger(alloc2, used)'
    BY <2>6, <2>9, <2>10 DEF Ledger
  <2> QED BY <2>3, <2>11 DEF Balanced, Tokens
<1> QED BY <1>2, <1>3


\* A save that ends puts the balance in memory on disk, and both reserved and
\* sent tokens are above it.
LEMMA SaveKeepsLedger ==
  ASSUME LockInv, FilePresent, Balanced, NEW t \in Turns, SaveRenameNew(t)
  PROVE  Balanced'
<1> USE DEF LockInv, MutexHeld, BudgetTypeOK, OnDisk, Absent, Reserved, Goto,
            AfterSave, SaveRenameNew
<1>1. PICK alloc \in [Turns -> SUBSET Tokens], used \in SUBSET Tokens :
        Ledger(alloc, used)
  BY DEF Balanced
<1>2. OnDisk' = remaining /\ phase[t] = "saving"
  OBVIOUS
<1>3. \A u \in Turns : Reserved(u)' => Reserved(u)
  OBVIOUS
<1>4. ASSUME NEW u \in Turns, Reserved(u)'
      PROVE  /\ (alloc[u] \subseteq (remaining + 1)..Total)'
             /\ (Cardinality(alloc[u]) = asks[u][surface[u]])'
             /\ alloc[u] \cap used = {}
             /\ \A w \in Turns : (w # u /\ Reserved(w)') => alloc[u] \cap alloc[w] = {}
  <2>1. Reserved(u)
    BY <1>3, <1>4
  <2> QED BY <2>1, <1>1, <1>3 DEF Ledger
<1>5. ASSUME NEW u \in Turns, phase'[u] = "calling"
      PROVE  (alloc[u] \subseteq (OnDisk + 1)..Total)'
  <2>1. Reserved(u)
    BY <1>3, <1>5
  <2>2. alloc[u] \subseteq (remaining + 1)..Total
    BY <2>1, <1>1 DEF Ledger
  <2> QED BY <2>2, <1>2
<1>6. /\ (used \subseteq (remaining + 1)..Total)'
      /\ (used \subseteq (OnDisk + 1)..Total)'
      /\ (Cardinality(used) = spent)'
  BY <1>1, <1>2 DEF Ledger
<1>7. Ledger(alloc, used)'
  BY <1>4, <1>5, <1>6 DEF Ledger
<1> QED BY <1>7 DEF Balanced, Tokens

\* A request that goes upstream turns its reserved tokens into sent ones.
LEMMA CallKeepsLedger ==
  ASSUME LockInv, Balanced, NEW t \in Turns, CallUpstream(t)
  PROVE  Balanced'
<1> USE DEF LockInv, MutexHeld, BudgetTypeOK, OnDisk, Absent, Reserved, Goto,
            CallUpstream, fileVars, lockVars, boundVars
<1>1. PICK alloc \in [Turns -> SUBSET Tokens], used \in SUBSET Tokens :
        Ledger(alloc, used)
  BY DEF Balanced
<1>2. /\ alloc[t] \subseteq (remaining + 1)..Total
      /\ alloc[t] \subseteq (OnDisk + 1)..Total
      /\ Cardinality(alloc[t]) = asks[t][surface[t]]
      /\ alloc[t] \cap used = {}
      /\ \A u \in Turns : (u # t /\ Reserved(u)) => alloc[t] \cap alloc[u] = {}
  BY <1>1 DEF Ledger
<1>3. PICK used2 \in SUBSET Tokens : used2 = used \cup alloc[t]
  OBVIOUS
<1>4. Cardinality(used2) = spent'
  <2>1. IsFiniteSet(Tokens)
    BY FS_Interval DEF Tokens
  <2>2. IsFiniteSet(used) /\ IsFiniteSet(alloc[t])
    <3>1. alloc[t] \in SUBSET Tokens
      BY <1>1
    <3> QED BY <3>1, <2>1, FS_Subset
  <2>3. Cardinality(used2) =
          Cardinality(used) + Cardinality(alloc[t]) - Cardinality(used \cap alloc[t])
    BY <2>2, <1>3, FS_Union
  <2>4. used \cap alloc[t] = {}
    BY <1>2
  <2>5. Cardinality(used \cap alloc[t]) = 0
    BY <2>4, FS_EmptySet
  <2>6. Cardinality(used) = spent /\ spent' = spent + asks[t][surface[t]]
    BY <1>1 DEF Ledger
  <2>7. asks[t][surface[t]] \in Nat
    OBVIOUS
  <2> QED BY <2>3, <2>5, <2>6, <2>7, <1>2
<1>5. \A u \in Turns : Reserved(u)' => Reserved(u) /\ u # t
  OBVIOUS
<1>6. ASSUME NEW u \in Turns, Reserved(u)'
      PROVE  /\ (alloc[u] \subseteq (remaining + 1)..Total)'
             /\ (Cardinality(alloc[u]) = asks[u][surface[u]])'
             /\ alloc[u] \cap used2 = {}
             /\ \A w \in Turns : (w # u /\ Reserved(w)') => alloc[u] \cap alloc[w] = {}
  <2>1. Reserved(u) /\ u # t
    BY <1>5, <1>6
  <2>2. /\ alloc[u] \subseteq (remaining + 1)..Total
        /\ Cardinality(alloc[u]) = asks[u][surface[u]]
        /\ alloc[u] \cap used = {}
        /\ \A w \in Turns : (w # u /\ Reserved(w)) => alloc[u] \cap alloc[w] = {}
    BY <2>1, <1>1 DEF Ledger
  <2>3. alloc[u] \cap used2 = {}
    BY <2>1, <2>2, <1>2, <1>3
  <2>4. asks'[u][surface'[u]] = asks[u][surface[u]]
    BY <2>1
  <2> QED BY <2>2, <2>3, <2>4, <1>5
<1>7. ASSUME NEW u \in Turns, phase'[u] = "calling"
      PROVE  (alloc[u] \subseteq (OnDisk + 1)..Total)'
  <2>1. phase[u] = "calling"
    BY <1>7
  <2> QED BY <2>1, <1>1 DEF Ledger
<1>8. /\ (used2 \subseteq (remaining + 1)..Total)'
      /\ (used2 \subseteq (OnDisk + 1)..Total)'
  BY <1>1, <1>2, <1>3 DEF Ledger
<1>9. Ledger(alloc, used2)'
  BY <1>4, <1>6, <1>7, <1>8 DEF Ledger
<1> QED BY <1>9 DEF Balanced, Tokens

\* A new wave starts with an empty ledger: no task is live, so nothing is reserved.
LEMMA ResetEmptiesLedger ==
  ASSUME LockInv, Balanced, NEW t \in Turns, ResetTotalTokens(t)
  PROVE  Balanced'
<1> USE DEF LockInv, MutexHeld, BudgetTypeOK, Reserved, Goto, ResetTotalTokens,
            StartSaving
<1>1. PICK alloc \in [Turns -> SUBSET Tokens], used \in SUBSET Tokens :
        Ledger(alloc, used)
  BY DEF Balanced
<1>2. Live = {}
  BY DEF SubmitExclusive
<1>3. \A u \in Turns : ~Reserved(u)
  BY <1>2 DEF Live, RequestsAreLive
<1>4. \A u \in Turns : ~Reserved(u)' /\ phase'[u] # "calling"
  BY <1>3
<1>5. Ledger(alloc, {})'
  <2>1. Cardinality({}) = 0 /\ spent' = 0
    BY FS_EmptySet
  <2> QED BY <1>4, <2>1 DEF Ledger
<1> QED BY <1>5 DEF Balanced, Tokens

\* A crash loses the reservations; what was sent stays covered by the file.
LEMMA CrashKeepsLedger ==
  ASSUME ~CrashInRename, LockInv, FilePresent, Balanced, Crash
  PROVE  Balanced'
<1> USE DEF LockInv, BudgetTypeOK, FilePresent, OnDisk, Absent, Reserved, Crash, Reopen
<1>1. PICK alloc \in [Turns -> SUBSET Tokens], used \in SUBSET Tokens :
        Ledger(alloc, used)
  BY DEF Balanced
<1>2. \A u \in Turns : ~Reserved(u)' /\ phase'[u] # "calling"
  OBVIOUS
<1>3. remaining' = OnDisk /\ OnDisk' = OnDisk /\ spent' = spent
  OBVIOUS
<1>4. Ledger(alloc, used)'
  BY <1>1, <1>2, <1>3 DEF Ledger
<1> QED BY <1>4 DEF Balanced, Tokens


LEMMA LedgerStep ==
  ASSUME ~CrashInRename
  PROVE  LockInv /\ FilePresent /\ Balanced /\ [BudgetNext]_vars => Balanced'
<1> SUFFICES ASSUME LockInv, FilePresent, Balanced, [BudgetNext]_vars PROVE Balanced'
  OBVIOUS
<1>1. CASE \/ \E t \in Turns :
                \/ SubmitEnter(t) \/ SubmitCreate(t) \/ Ask(t) \/ SaveFails(t)
                \/ FinishBudgetExhausted(t) \/ ReportFails(t) \/ EndTurn(t)
           \/ SaveTemporary \/ SaveRenameOld
           \/ UNCHANGED vars
  BY <1>1, QuietSteps, QuietKeepsLedger
<1>2. ASSUME NEW t \in Turns, ResetTotalTokens(t) PROVE Balanced'
  BY <1>2, ResetEmptiesLedger
<1>3. ASSUME NEW t \in Turns, NEW s \in Surfaces, Acquire(t, s) PROVE Balanced'
  BY <1>3, GrantReserves
<1>4. ASSUME NEW t \in Turns, SaveRenameNew(t) PROVE Balanced'
  BY <1>4, SaveKeepsLedger
<1>5. ASSUME NEW t \in Turns, CallUpstream(t) PROVE Balanced'
  BY <1>5, CallKeepsLedger
<1>6. CASE Crash
  BY <1>6, CrashKeepsLedger
<1> QED BY <1>1, <1>2, <1>3, <1>4, <1>5, <1>6 DEF BudgetNext, TurnStep

LEMMA BudgetInitial == BudgetInit => LockInv /\ FilePresent /\ Balanced
<1> SUFFICES ASSUME BudgetInit PROVE LockInv /\ FilePresent /\ Balanced
  OBVIOUS
<1> USE DEF BudgetInit, Absent
<1>1. BudgetTypeOK
  <2>1. (CHOOSE s \in Surfaces : TRUE) \in Surfaces
    BY BudgetAssumption
  <2> QED BY <2>1 DEF BudgetTypeOK, NoAsks
<1>2. MutexHeld /\ SubmitExclusive /\ RequestsAreLive
  BY DEF MutexHeld, SubmitExclusive, RequestsAreLive, Resetting
<1>3. Balanced
  <2>1. PICK alloc \in [Turns -> SUBSET Tokens] : TRUE
    <3>1. [t \in Turns |-> {}] \in [Turns -> SUBSET Tokens]
      OBVIOUS
    <3> QED BY <3>1
  <2>2. Ledger(alloc, {})
    BY FS_EmptySet DEF Ledger, Reserved
  <2> QED BY <2>1, <2>2 DEF Balanced
<1> QED BY <1>1, <1>2, <1>3 DEF LockInv, FilePresent

\* The invariant of the locks holds whatever crashes and errors happen.
LEMMA LockInvariance == BudgetSpec => []LockInv
<1>1. BudgetInit => LockInv
  BY BudgetInitial
<1>2. LockInv /\ [BudgetNext]_vars => LockInv'
  BY TypeStep, MutexStep, ExclusiveStep, LiveStep DEF LockInv
<1> QED BY <1>1, <1>2, PTL DEF BudgetSpec

\* The two mutexes and the replacement of budget.json, for every number of
\* turns, keep the allowance's fields in their types: the balance is never
\* negative and never above the total.
THEOREM BudgetTypeCorrect == BudgetSpec => []BudgetTypeOK
<1>1. LockInv => BudgetTypeOK
  BY DEF LockInv
<1> QED BY <1>1, LockInvariance, PTL

\* An exhausted task sends nothing upstream any more: finish_budget_exhausted
\* closes the task before the error reaches the loop that polls the requests.
THEOREM BudgetExhaustion == BudgetSpec => [](ExhaustedIsFinal)
<1>1. LockInv => ExhaustedIsFinal
  BY DEF LockInv, RequestsAreLive, ExhaustedIsFinal
<1> QED BY <1>1, LockInvariance, PTL

\* submit resets the allowance only when none of the workspace's tasks is live,
\* although a turn of another session may have looked at the DAG meanwhile.
THEOREM BudgetWaves == BudgetSpec => WaveJoined
<1>1. LockInv /\ [BudgetNext]_vars => [spent' < spent => Live = {}]_vars
  <2> SUFFICES ASSUME LockInv, BudgetNext, spent' < spent PROVE Live = {}
    BY DEF vars
  <2>1. PICK t \in Turns : ResetTotalTokens(t)
    <3>1. spent \in Nat
      BY DEF LockInv, BudgetTypeOK
    <3>2. spent' # spent
      BY <3>1
    <3>3. ASSUME NEW t \in Turns, CallUpstream(t) PROVE FALSE
      <4>1. asks[t][surface[t]] \in Nat
        BY DEF LockInv, BudgetTypeOK
      <4> QED BY <4>1, <3>1, <3>3 DEF CallUpstream
    <3>4. ASSUME NEW t \in Turns, NEW s \in Surfaces, Acquire(t, s) PROVE FALSE
      BY <3>2, <3>4 DEF Acquire
    <3>5. ASSUME NEW t \in Turns,
                 \/ SubmitEnter(t) \/ SubmitCreate(t) \/ SaveRenameNew(t)
                 \/ FinishBudgetExhausted(t) \/ EndTurn(t) \/ Ask(t)
                 \/ SaveFails(t) \/ ReportFails(t)
          PROVE  FALSE
      BY <3>2, <3>5 DEF SubmitEnter, SubmitCreate, SaveRenameNew, EndTurn, Ask,
           FinishBudgetExhausted, SaveFails, ReportFails
    <3>6. ~(SaveTemporary \/ SaveRenameOld \/ Crash)
      BY <3>2 DEF SaveTemporary, SaveRenameOld, Crash
    <3> QED BY <3>3, <3>4, <3>5, <3>6 DEF BudgetNext, TurnStep
  <2> QED BY <2>1 DEF LockInv, SubmitExclusive, ResetTotalTokens
<1> QED BY <1>1, LockInvariance, PTL DEF BudgetSpec, WaveJoined

\* The invariant with the amounts, if no crash falls between the renames.
LEMMA LedgerInvariance ==
  ASSUME ~CrashInRename
  PROVE  BudgetSpec => [](LockInv /\ FilePresent /\ Balanced)
<1>1. BudgetInit => LockInv /\ FilePresent /\ Balanced
  BY BudgetInitial
<1>2. LockInv /\ FilePresent /\ Balanced /\ [BudgetNext]_vars
        => (LockInv /\ FilePresent /\ Balanced)'
  BY TypeStep, MutexStep, ExclusiveStep, LiveStep, FileStep, LedgerStep DEF LockInv
<1> QED BY <1>1, <1>2, PTL DEF BudgetSpec

\* What was sent is part of the tokens above the balance: a count of them.
LEMMA LedgerBounds ==
  ASSUME LockInv, Balanced
  PROVE  SpendWithinAllowance /\ DiskCoversSpend
<1>1. PICK alloc \in [Turns -> SUBSET Tokens], used \in SUBSET Tokens :
        Ledger(alloc, used)
  BY DEF Balanced
<1>2. used \subseteq (OnDisk + 1)..Total /\ Cardinality(used) = spent
  BY <1>1 DEF Ledger
<1>3. OnDisk \in -1..Total /\ spent \in Nat /\ Total \in Nat
  BY DEF LockInv, BudgetTypeOK, OnDisk, Absent
<1>4. Cardinality(used) <= Total
  <2>1. IsFiniteSet(1..Total) /\ Cardinality(1..Total) = Total
    BY FS_Interval
  <2>2. used \in SUBSET (1..Total)
    BY DEF Tokens
  <2>3. Cardinality(used) <= Cardinality(1..Total)
    BY <2>1, <2>2, FS_Subset
  <2> QED BY <2>1, <2>3
<1>5. Cardinality(used) <= Total - OnDisk
  <2>1. OnDisk + 1 \in Int /\ Total \in Int
    BY <1>3
  <2>2. IsFiniteSet((OnDisk + 1)..Total)
    BY <2>1, FS_Interval
  <2>3. Cardinality((OnDisk + 1)..Total) =
          IF OnDisk + 1 > Total THEN 0 ELSE Total - (OnDisk + 1) + 1
    BY <2>1, FS_Interval
  <2>4. Cardinality((OnDisk + 1)..Total) = Total - OnDisk
    BY <2>3, <1>3
  <2>5. Cardinality(used) <= Cardinality((OnDisk + 1)..Total)
    BY <2>2, <1>2, FS_Subset
  <2> QED BY <2>4, <2>5
<1> QED BY <1>2, <1>3, <1>4, <1>5 DEF SpendWithinAllowance, DiskCoversSpend

\* The cap, for any number of turns and parallel requests, errors of the save
\* and crashes of the process: a wave never sends more tokens upstream than
\* the allowance.  A crash between the two renames is excluded, as it must be.
THEOREM BudgetCap ==
  ASSUME ~CrashInRename
  PROVE  BudgetSpec => []SpendWithinAllowance
<1>1. LockInv /\ FilePresent /\ Balanced => SpendWithinAllowance
  BY LedgerBounds
<1> QED BY <1>1, LedgerInvariance, PTL

\* Under the same assumption the file never promises tokens already sent: what
\* a restart loads and what was sent stay together within the allowance.
THEOREM BudgetOnDisk ==
  ASSUME ~CrashInRename
  PROVE  BudgetSpec => []DiskCoversSpend
<1>1. LockInv /\ FilePresent /\ Balanced => DiskCoversSpend
  BY LedgerBounds
<1> QED BY <1>1, LedgerInvariance, PTL

\* The allowance is kept in memory and on disk, under that assumption.
THEOREM BudgetIsSafe ==
  ASSUME ~CrashInRename
  PROVE  BudgetSpec => []BudgetSafety
<1>1. BudgetTypeOK /\ SpendWithinAllowance /\ DiskCoversSpend => BudgetSafety
  BY DEF BudgetSafety
<1> QED BY <1>1, BudgetTypeCorrect, BudgetCap, BudgetOnDisk, PTL

-----------------------------------------------------------------------------
(* RateLimiter.  The clock of a bucket is never ahead, and what was granted  *)
(* and what is left came with the bucket or with the time it has counted.    *)

HIDE BudgetAssumption

Clocks ==
  /\ bucket.last <= clock
  /\ \A c \in Askers : asker[c].pc \in {"asking", "striking"} => asker[c].at <= clock

Paid == granted + bucket.tokens <= TokenBurst * Scale + TokenRate * (bucket.last + skew)

\* With what the clock adds until then, the level covers the need at the time.
Covers(level, rate, need, at) == level + Lack(at, bucket.last) * rate >= need

\* Whoever sleeps for a deficit, undisturbed, will find what it needs.
Promised ==
  \A c \in Askers : asker[c].calm =>
    /\ asker[c].pc \in {"asleep", "asking"} /\ Cost[c] <= TokenBurst
    /\ bucket.blocked <= asker[c].at
    /\ Covers(bucket.requests, RequestRate, Scale, asker[c].at)
    /\ Covers(bucket.tokens, TokenRate, Cost[c] * Scale, asker[c].at)

LimiterInv == LimiterTypeOK /\ Clocks /\ Paid /\ Promised

-----------------------------------------------------------------------------
LEMMA Products ==
  /\ \A a, b \in Nat : a * b \in Nat
  /\ \A a, b, r \in Nat : a <= b => a * r <= b * r
  /\ \A a, b, r \in Nat : (a + b) * r = a * r + b * r /\ r * (a + b) = r * a + r * b /\ a * b = b * a
<1>1. ASSUME NEW a \in Nat, NEW b \in Nat, NEW r \in Nat
      PROVE  /\ a * b \in Nat /\ a * b = b * a
             /\ (a + b) * r = a * r + b * r /\ r * (a + b) = r * a + r * b
  OBVIOUS
<1>2. ASSUME NEW a \in Nat, NEW b \in Nat, NEW r \in Nat, a <= b
      PROVE  a * r <= b * r
  <2>1. b - a \in Nat /\ b = a + (b - a)
    BY <1>2
  <2>2. b * r = a * r + (b - a) * r /\ (b - a) * r \in Nat /\ a * r \in Nat
    BY <1>1, <2>1
  <2> QED BY <2>2
<1> QED BY <1>1, <1>2

LEMMA Sums == \A a, b \in Nat : a + b \in Nat
OBVIOUS

LEMMA SumsTwice == \A a, b, d \in Nat : a + b + d = a + (b + d)
OBVIOUS

LEMMA LackCovers == \A a, b \in Nat : Lack(a, b) \in Nat /\ b + Lack(a, b) >= a
BY DEF Lack, Greatest

LEMMA Levels ==
  /\ Scale \in Nat \ {0} /\ RequestRate \in Nat \ {0} /\ TokenRate \in Nat \ {0}
  /\ RequestBurst * Scale \in Nat /\ TokenBurst * Scale \in Nat /\ Scale <= RequestBurst * Scale
  /\ TokenBurst \in Nat /\ MaxClock \in Nat
  /\ \A c \in Askers : Cost[c] \in Nat /\ Cost[c] * Scale \in Nat
                         /\ (Cost[c] <= TokenBurst => Cost[c] * Scale <= TokenBurst * Scale)
<1>1. /\ Scale \in Nat \ {0} /\ RequestRate \in Nat \ {0} /\ TokenRate \in Nat \ {0}
      /\ RequestBurst \in Nat \ {0} /\ TokenBurst \in Nat /\ MaxClock \in Nat
  BY LimiterAssumption
<1>2. 1 * Scale = Scale /\ 1 <= RequestBurst
  BY <1>1
<1>3. \A c \in Askers : Cost[c] \in Nat
  BY LimiterAssumption
<1> QED BY <1>1, <1>2, <1>3, Products

LEMMA Strikes == MaxStrikes \in Nat /\ MaxStrikes >= 1 /\ \A n \in 1 .. MaxStrikes : Delay[n] \in Nat
<1>1. Delay \in Seq(Nat) /\ Delay # << >>
  BY LimiterAssumption
<1> QED BY <1>1, EmptySeq, LenProperties DEF MaxStrikes

LEMMA LackIs == \A a, b \in Nat : Lack(a, b) \in Nat /\ Lack(a, b) = IF a < b THEN 0 ELSE a - b
BY DEF Lack, Greatest

\* The wait for a deficit is long enough.
LEMMA CeilCovers ==
  ASSUME NEW v \in Nat, NEW d \in Nat \ {0}
  PROVE  DivCeil(v, d) \in Nat /\ DivCeil(v, d) * d >= v
<1> DEFINE n == v + d - 1
<1>1. n \in Nat
  OBVIOUS
<1>2. n \div d \in Nat /\ n = d * (n \div d) + (n % d) /\ n % d \in 0 .. d - 1
  <2> HIDE DEF n
  <2>1. n \div d \in Int /\ n = d * (n \div d) + (n % d) /\ n % d \in 0 .. d - 1
    BY <1>1
  <2> DEFINE q == n \div d
  <2>2. q \in Int /\ d * q > -d
    BY <1>1, <2>1
  <2> HIDE DEF q
  <2>3. ASSUME q < 0 PROVE FALSE
    <3>1. -q \in Nat /\ 1 <= -q /\ d * (-q) = -(d * q) /\ 1 * d = d
      BY <2>2, <2>3
    <3>2. 1 * d <= (-q) * d /\ (-q) * d = d * (-q)
      BY <3>1, Products
    <3> QED BY <2>2, <3>1, <3>2
  <2>4. q \in Nat
    BY <2>2, <2>3
  <2> QED BY <2>1, <2>4 DEF q
<1>3. d * (n \div d) >= v
  BY <1>1, <1>2
<1> QED BY <1>2, <1>3, Products DEF DivCeil

\* What a refill leaves, whenever its clock was read, still covers a need.
LEMMA RefillCovers ==
  ASSUME NEW level \in Nat, NEW cap \in Nat, NEW rate \in Nat, NEW last \in Nat, NEW t \in Nat, NEW at \in Nat,
         NEW need \in Nat, need <= cap, level + Lack(at, last) * rate >= need
  PROVE  Least(level + Lack(t, last) * rate, cap) + Lack(at, t) * rate >= need
<1>1. /\ Lack(at, last) \in Nat /\ Lack(t, last) \in Nat /\ Lack(at, t) \in Nat
      /\ Lack(at, last) <= Lack(t, last) + Lack(at, t)
  BY DEF Lack, Greatest
<1>2. /\ Lack(at, last) * rate \in Nat /\ Lack(t, last) * rate \in Nat /\ Lack(at, t) * rate \in Nat
      /\ Lack(at, last) * rate <= Lack(t, last) * rate + Lack(at, t) * rate
  <2>1. Lack(t, last) + Lack(at, t) \in Nat
    BY <1>1, Sums
  <2>2. (Lack(t, last) + Lack(at, t)) * rate = Lack(t, last) * rate + Lack(at, t) * rate
    BY <1>1, Products
  <2>3. Lack(at, last) * rate <= (Lack(t, last) + Lack(at, t)) * rate
    BY <1>1, <2>1, Products
  <2> QED BY <1>1, <2>2, <2>3, Products
<1> DEFINE a == Lack(at, last) * rate b == Lack(t, last) * rate e == Lack(at, t) * rate
<1>3. a \in Nat /\ b \in Nat /\ e \in Nat /\ a <= b + e /\ level + a >= need
  BY <1>2
<1> HIDE DEF a, b, e
<1>4. Least(level + b, cap) + e >= need
  BY <1>3 DEF Least
<1> QED BY <1>4 DEF a, b, e

LEMMA RefillLevel ==
  ASSUME NEW level \in Nat, NEW cap \in Nat, NEW rate \in Nat, NEW last \in Nat, NEW t \in Nat, level <= cap
  PROVE  LET n == Least(level + Lack(t, last) * rate, cap) IN
         n \in 0 .. cap /\ n <= level + Lack(t, last) * rate /\ level <= n
<1> DEFINE more == Lack(t, last) * rate
<1>1. more \in Nat
  BY LackIs, Products
<1> HIDE DEF more
<1>2. LET n == Least(level + more, cap) IN n \in 0 .. cap /\ n <= level + more /\ level <= n
  BY <1>1 DEF Least
<1> QED BY <1>2 DEF more

-----------------------------------------------------------------------------
(* The steps.  Refilled is all that the clock does to a bucket. *)

LEMMA RefilledIs ==
  ASSUME LimiterInv, NEW t \in 0 .. clock
  PROVE  /\ Refilled(t) \in [requests : 0 .. RequestBurst * Scale, tokens : 0 .. TokenBurst * Scale,
                             last : 0 .. MaxClock, blocked : Nat, strikes : 0 .. MaxStrikes]
         /\ Refilled(t).last = t /\ Refilled(t).blocked = bucket.blocked
         /\ granted + Refilled(t).tokens <= TokenBurst * Scale + TokenRate * (t + skew + Lack(bucket.last, t))
         /\ \A at \in Nat : Covers(bucket.requests, RequestRate, Scale, at) =>
              Refilled(t).requests + Lack(at, t) * RequestRate >= Scale
         /\ \A at \in Nat, c \in Askers :
              Cost[c] <= TokenBurst /\ Covers(bucket.tokens, TokenRate, Cost[c] * Scale, at) =>
                Refilled(t).tokens + Lack(at, t) * TokenRate >= Cost[c] * Scale
<1> DEFINE rq == Least(bucket.requests + Lack(t, bucket.last) * RequestRate, RequestBurst * Scale)
           tk == Least(bucket.tokens + Lack(t, bucket.last) * TokenRate, TokenBurst * Scale)
<1>0. /\ bucket \in [requests : 0 .. RequestBurst * Scale, tokens : 0 .. TokenBurst * Scale,
                     last : 0 .. MaxClock, blocked : Nat, strikes : 0 .. MaxStrikes]
      /\ clock \in 0 .. MaxClock /\ skew \in Nat /\ granted \in Nat
  BY DEF LimiterInv, LimiterTypeOK
<1>1. /\ bucket.requests \in Nat /\ bucket.requests <= RequestBurst * Scale
      /\ bucket.tokens \in Nat /\ bucket.tokens <= TokenBurst * Scale
      /\ bucket.last \in Nat /\ t \in Nat /\ t \in 0 .. MaxClock
  BY <1>0, Levels
<1>2. Refilled(t) = [bucket EXCEPT !.last = t, !.requests = rq, !.tokens = tk]
  BY DEF Refilled
<1>3. /\ rq \in 0 .. RequestBurst * Scale
      /\ tk \in 0 .. TokenBurst * Scale /\ tk <= bucket.tokens + Lack(t, bucket.last) * TokenRate
  BY <1>1, Levels, RefillLevel
<1>4. \A at \in Nat : Covers(bucket.requests, RequestRate, Scale, at) => rq + Lack(at, t) * RequestRate >= Scale
  BY <1>1, Levels, RefillCovers DEF Covers
<1>5. ASSUME NEW at \in Nat, NEW c \in Askers, Cost[c] <= TokenBurst,
             Covers(bucket.tokens, TokenRate, Cost[c] * Scale, at)
      PROVE  tk + Lack(at, t) * TokenRate >= Cost[c] * Scale
  <2>1. Cost[c] * Scale \in Nat /\ Cost[c] * Scale <= TokenBurst * Scale
    BY <1>5, Levels
  <2> QED BY <1>1, <1>5, <2>1, Levels, RefillCovers DEF Covers
<1>6. granted + tk <= TokenBurst * Scale + TokenRate * (t + skew + Lack(bucket.last, t))
  <2>1. /\ Lack(t, bucket.last) \in Nat /\ Lack(bucket.last, t) \in Nat
        /\ t + skew + Lack(bucket.last, t) = (bucket.last + skew) + Lack(t, bucket.last)
    <3>1. bucket.last \in Nat /\ t \in Nat /\ skew \in Nat
      BY <1>0, <1>1
    <3> DEFINE l == bucket.last
    <3>2. l \in Nat
      BY <3>1
    <3> HIDE DEF l
    <3>3. /\ Lack(t, l) \in Nat /\ Lack(l, t) \in Nat
          /\ t + skew + Lack(l, t) = (l + skew) + Lack(t, l)
      BY <3>1, <3>2 DEF Lack, Greatest
    <3> QED BY <3>3 DEF l
  <2>2. /\ TokenRate * ((bucket.last + skew) + Lack(t, bucket.last))
            = TokenRate * (bucket.last + skew) + TokenRate * Lack(t, bucket.last)
        /\ TokenRate * Lack(t, bucket.last) = Lack(t, bucket.last) * TokenRate
        /\ TokenRate * (bucket.last + skew) \in Nat /\ Lack(t, bucket.last) * TokenRate \in Nat
    <3>1. bucket.last + skew \in Nat
      BY <1>0, <1>1, Sums
    <3>2. TokenRate \in Nat
      BY Levels
    <3>3. TokenRate * (bucket.last + skew) \in Nat /\ Lack(t, bucket.last) * TokenRate \in Nat
          /\ TokenRate * Lack(t, bucket.last) = Lack(t, bucket.last) * TokenRate
      BY <2>1, <3>1, <3>2, Products
    <3>4. TokenRate * ((bucket.last + skew) + Lack(t, bucket.last))
            = TokenRate * (bucket.last + skew) + TokenRate * Lack(t, bucket.last)
      BY <2>1, <3>1, <3>2, Products
    <3> QED BY <3>3, <3>4
  <2>3. granted + bucket.tokens <= TokenBurst * Scale + TokenRate * (bucket.last + skew)
    BY DEF LimiterInv, Paid
  <2> DEFINE p == TokenRate * (bucket.last + skew) g == Lack(t, bucket.last) * TokenRate b == TokenBurst * Scale
  <2>4. /\ granted + bucket.tokens <= b + p /\ p \in Nat /\ g \in Nat /\ b \in Nat
        /\ tk <= bucket.tokens + g /\ tk \in Nat
        /\ TokenRate * (t + skew + Lack(bucket.last, t)) = p + g
    BY <2>1, <2>2, <2>3, <1>3, Levels
  <2> HIDE DEF p, g, b, tk, rq
  <2>5. granted + tk <= b + TokenRate * (t + skew + Lack(bucket.last, t))
    <3> DEFINE k == bucket.tokens
    <3>1. /\ granted \in Nat /\ k \in Nat /\ tk \in Nat /\ p \in Nat /\ g \in Nat /\ b \in Nat
          /\ granted + k <= b + p /\ tk <= k + g
      BY <2>4, <1>0, <1>1
    <3> HIDE DEF k
    <3>2. granted + tk <= b + (p + g)
      BY <3>1
    <3> QED BY <2>4, <3>2
  <2> QED BY <2>5 DEF b
<1> HIDE DEF rq, tk
<1>7. /\ Refilled(t).last = t /\ Refilled(t).blocked = bucket.blocked
      /\ Refilled(t).requests = rq /\ Refilled(t).tokens = tk
      /\ Refilled(t) \in [requests : 0 .. RequestBurst * Scale, tokens : 0 .. TokenBurst * Scale,
                          last : 0 .. MaxClock, blocked : Nat, strikes : 0 .. MaxStrikes]
  BY <1>0, <1>1, <1>2, <1>3
<1> QED BY <1>4, <1>5, <1>6, <1>7

Buckets == [requests : 0 .. RequestBurst * Scale, tokens : 0 .. TokenBurst * Scale,
            last : 0 .. MaxClock, blocked : Nat, strikes : 0 .. MaxStrikes]
Callers == [pc : {"idle", "asking", "asleep", "served", "striking", "refused"}, at : Nat, calm : BOOLEAN]

LEMMA TypeIs ==
  ASSUME LimiterInv
  PROVE  /\ clock \in 0 .. MaxClock /\ skew \in Nat /\ granted \in Nat /\ bucket \in Buckets
         /\ asker \in [Askers -> Callers]
BY DEF LimiterInv, LimiterTypeOK, Buckets, Callers

LEMMA BucketNats ==
  ASSUME NEW b \in Buckets
  PROVE  b.requests \in Nat /\ b.tokens \in Nat /\ b.last \in Nat /\ b.blocked \in Nat
<1>1. /\ b.requests \in 0 .. RequestBurst * Scale /\ b.tokens \in 0 .. TokenBurst * Scale
      /\ b.last \in 0 .. MaxClock /\ b.blocked \in Nat
  BY DEF Buckets
<1>2. \A cap \in Nat : 0 .. cap \subseteq Nat
  OBVIOUS
<1>3. RequestBurst * Scale \in Nat /\ TokenBurst * Scale \in Nat /\ MaxClock \in Nat
  BY Levels
<1> QED BY <1>1, <1>2, <1>3

\* What is covered stays covered at a later time.
LEMMA LaterCovers ==
  ASSUME NEW level \in Nat, NEW rate \in Nat, NEW need \in Nat, NEW last \in Nat, NEW a \in Nat, NEW b \in Nat,
         a <= b, level + Lack(a, last) * rate >= need
  PROVE  level + Lack(b, last) * rate >= need
<1>1. Lack(a, last) \in Nat /\ Lack(b, last) \in Nat /\ Lack(a, last) <= Lack(b, last)
  BY DEF Lack, Greatest
<1>2. Lack(a, last) * rate <= Lack(b, last) * rate /\ Lack(a, last) * rate \in Nat /\ Lack(b, last) * rate \in Nat
  BY <1>1, Products
<1> DEFINE x == Lack(a, last) * rate y == Lack(b, last) * rate
<1>3. x \in Nat /\ y \in Nat /\ x <= y /\ level + x >= need
  BY <1>2
<1> HIDE DEF x, y
<1>4. level + y >= need
  BY <1>3
<1> QED BY <1>4 DEF y

LEMMA LimiterInitial == LimiterInit => LimiterInv
<1> SUFFICES ASSUME LimiterInit PROVE LimiterInv
  OBVIOUS
<1>1. \A n \in Nat : 0 \in 0 .. n /\ n \in 0 .. n
  OBVIOUS
<1>2. LimiterTypeOK
  BY <1>1, Levels, Strikes DEF LimiterInit, LimiterTypeOK, Resting
<1>3. Clocks /\ Promised
  BY DEF LimiterInit, Clocks, Promised, Resting
<1>4. Paid
  <2>1. \A n \in Nat : n * (0 + 0) = 0 /\ 0 + n = n /\ n <= n + 0
    OBVIOUS
  <2> QED BY <2>1, Levels DEF LimiterInit, Paid
<1> QED BY <1>2, <1>3, <1>4 DEF LimiterInv

\* A caller comes to ask, gives up, ends its request, or is answered 429.
LEMMA CallerKeeps ==
  ASSUME LimiterInv, NEW c \in Askers, ReadClock(c) \/ TooLarge(c) \/ Finish(c) \/ TooMany(c)
  PROVE  LimiterInv'
<1>0. /\ clock \in 0 .. MaxClock /\ bucket \in Buckets /\ asker \in [Askers -> Callers] /\ clock \in Nat
      /\ UNCHANGED <<clock, bucket, granted, skew>>
  BY TypeIs DEF ReadClock, TooLarge, Finish, TooMany
<1>1. asker' \in [Askers -> Callers]
  <2>1. CASE ReadClock(c)
    <3>1. asker' = [asker EXCEPT ![c] = [asker[c] EXCEPT !.pc = "asking", !.at = clock]]
      BY <1>0, <2>1 DEF ReadClock
    <3> QED BY <1>0, <3>1 DEF Callers
  <2>2. CASE TooLarge(c) \/ Finish(c)
    <3>1. \A p \in {"idle", "refused"} : Resting(p) \in Callers
      BY DEF Resting, Callers
    <3>2. asker' = [asker EXCEPT ![c] = Resting("refused")] \/ asker' = [asker EXCEPT ![c] = Resting("idle")]
      BY <2>2 DEF TooLarge, Finish
    <3> QED BY <1>0, <3>1, <3>2
  <2>3. CASE TooMany(c)
    <3>1. asker' = [asker EXCEPT ![c] = [asker[c] EXCEPT !.pc = "striking", !.at = clock]]
      BY <1>0, <2>3 DEF TooMany
    <3> QED BY <1>0, <3>1 DEF Callers
  <2> QED BY <2>1, <2>2, <2>3
<1>2. \A d \in Askers : d # c => asker'[d] = asker[d]
  BY <1>0 DEF ReadClock, TooLarge, Finish, TooMany
<1>3. /\ asker'[c].pc \in {"asking", "striking"} => asker'[c].at = clock
      /\ asker'[c].calm =>
           /\ asker[c].calm /\ asker'[c].pc \in {"asleep", "asking"}
           /\ asker'[c].at >= asker[c].at
  <2>1. CASE ReadClock(c)
    <3>1. /\ asker'[c].pc = "asking" /\ asker'[c].at = clock /\ asker'[c].calm = asker[c].calm
      BY <1>0, <2>1 DEF ReadClock, Callers
    <3>2. asker[c].pc = "asleep" => asker[c].at <= clock
      BY <2>1 DEF ReadClock
    <3>3. asker[c].pc = "idle" => ~ asker[c].calm
      BY DEF LimiterInv, Promised
    <3>4. asker[c].pc = "asleep" \/ asker[c].pc = "idle"
      BY <2>1 DEF ReadClock
    <3> QED BY <3>1, <3>2, <3>3, <3>4
  <2>2. CASE TooLarge(c) \/ Finish(c)
    BY <1>0, <2>2 DEF TooLarge, Finish, Resting
  <2>3. CASE TooMany(c)
    <3>1. asker'[c].pc = "striking" /\ asker'[c].at = clock /\ asker'[c].calm = asker[c].calm
      BY <1>0, <2>3 DEF TooMany, Callers
    <3>2. ~ asker[c].calm
      BY <2>3 DEF TooMany, LimiterInv, Promised
    <3> QED BY <3>1, <3>2
  <2> QED BY <2>1, <2>2, <2>3
<1>4. LimiterTypeOK' /\ Paid'
  BY <1>0, <1>1 DEF LimiterInv, LimiterTypeOK, Callers, Paid
<1>5. Clocks'
  BY <1>0, <1>2, <1>3 DEF LimiterInv, Clocks
<1>6. Promised'
  <2> SUFFICES ASSUME NEW d \in Askers, asker'[d].calm
               PROVE  /\ asker'[d].pc \in {"asleep", "asking"} /\ Cost[d] <= TokenBurst
                      /\ bucket.blocked <= asker'[d].at
                      /\ bucket.requests + Lack(asker'[d].at, bucket.last) * RequestRate >= Scale
                      /\ bucket.tokens + Lack(asker'[d].at, bucket.last) * TokenRate >= Cost[d] * Scale
    BY <1>0 DEF Promised, Covers
  <2>1. asker[d].calm /\ asker'[d].at >= asker[d].at /\ asker'[d].pc \in {"asleep", "asking"}
    <3>1. CASE d = c
      BY <1>3, <3>1
    <3>2. CASE d # c
      BY <1>0, <1>2, <3>2 DEF LimiterInv, Promised, Callers
    <3> QED BY <3>1, <3>2
  <2>2. /\ Cost[d] <= TokenBurst /\ bucket.blocked <= asker[d].at
        /\ bucket.requests + Lack(asker[d].at, bucket.last) * RequestRate >= Scale
        /\ bucket.tokens + Lack(asker[d].at, bucket.last) * TokenRate >= Cost[d] * Scale
    BY <2>1 DEF LimiterInv, Promised, Covers
  <2>3. /\ asker[d].at \in Nat /\ asker'[d].at \in Nat /\ bucket.blocked \in Nat /\ bucket.last \in Nat
        /\ bucket.requests \in Nat /\ bucket.tokens \in Nat
    <3>1. asker[d] \in Callers /\ asker'[d] \in Callers
      BY <1>0, <1>1
    <3>2. asker[d].at \in Nat /\ asker'[d].at \in Nat
      BY <3>1 DEF Callers
    <3> QED BY <1>0, <3>2, BucketNats
  <2>4. bucket.blocked <= asker'[d].at
    <3> DEFINE b == bucket.blocked a == asker[d].at n == asker'[d].at
    <3>1. b \in Nat /\ a \in Nat /\ n \in Nat /\ b <= a /\ a <= n
      BY <2>1, <2>2, <2>3
    <3> HIDE DEF b, a, n
    <3>2. b <= n
      BY <3>1
    <3> QED BY <3>2 DEF b, n
  <2>5. bucket.requests + Lack(asker'[d].at, bucket.last) * RequestRate >= Scale
    BY <2>1, <2>2, <2>3, Levels, LaterCovers
  <2>6. bucket.tokens + Lack(asker'[d].at, bucket.last) * TokenRate >= Cost[d] * Scale
    BY <2>1, <2>2, <2>3, Levels, LaterCovers
  <2> QED BY <2>1, <2>2, <2>4, <2>5, <2>6
<1> QED BY <1>4, <1>5, <1>6 DEF LimiterInv

\* The time a caller asks at is past.
LEMMA AskedAt ==
  ASSUME LimiterInv, NEW c \in Askers, asker[c].pc \in {"asking", "striking"}
  PROVE  asker[c].at \in 0 .. clock
<1>1. asker[c] \in Callers /\ clock \in 0 .. MaxClock /\ asker[c].at <= clock
  BY TypeIs DEF LimiterInv, Clocks
<1>2. asker[c].at \in Nat
  BY <1>1 DEF Callers
<1> QED BY <1>1, <1>2

\* A caller that is told to wait, for silence or for units.
LEMMA WaitKeeps ==
  ASSUME LimiterInv, NEW c \in Askers, asker[c].pc = "asking", NEW r \in Callers, r.pc = "asleep",
         bucket' = Refilled(asker[c].at), Touch(asker[c].at), asker' = [asker EXCEPT ![c] = r],
         UNCHANGED <<clock, granted>>,
         r.calm => /\ Cost[c] <= TokenBurst /\ bucket.blocked <= r.at
                   /\ bucket'.requests + Lack(r.at, asker[c].at) * RequestRate >= Scale
                   /\ bucket'.tokens + Lack(r.at, asker[c].at) * TokenRate >= Cost[c] * Scale
  PROVE  LimiterInv'
<1> DEFINE t == asker[c].at
<1>1. t \in 0 .. clock /\ t \in Nat
  BY AskedAt, TypeIs
<1>2. /\ bucket' \in Buckets /\ bucket'.last = t /\ bucket'.blocked = bucket.blocked
      /\ granted + bucket'.tokens <= TokenBurst * Scale + TokenRate * (t + skew + Lack(bucket.last, t))
      /\ \A at \in Nat : Covers(bucket.requests, RequestRate, Scale, at) =>
              bucket'.requests + Lack(at, t) * RequestRate >= Scale
      /\ \A at \in Nat, d \in Askers :
              Cost[d] <= TokenBurst /\ Covers(bucket.tokens, TokenRate, Cost[d] * Scale, at) =>
                bucket'.tokens + Lack(at, t) * TokenRate >= Cost[d] * Scale
  BY <1>1, RefilledIs DEF Buckets
<1>3. /\ clock \in 0 .. MaxClock /\ bucket \in Buckets /\ asker \in [Askers -> Callers]
      /\ skew \in Nat /\ granted \in Nat
  BY TypeIs
<1>4. /\ asker' \in [Askers -> Callers] /\ asker'[c] = r /\ \A d \in Askers : d # c => asker'[d] = asker[d]
  BY <1>3
<1>5. skew' = skew + Lack(bucket.last, t) /\ Lack(bucket.last, t) \in Nat
  BY <1>1, <1>3, BucketNats, LackIs DEF Touch
<1>6. LimiterTypeOK'
  <2>1. skew' \in Nat /\ clock' \in 0 .. MaxClock /\ granted' \in Nat
    BY <1>3, <1>5, Sums
  <2> QED BY <1>2, <1>4, <2>1 DEF LimiterTypeOK, Buckets, Callers
<1>7. Clocks'
  BY <1>1, <1>2, <1>4 DEF LimiterInv, Clocks
<1>8. Paid'
  <2>1. t + skew + Lack(bucket.last, t) = bucket'.last + skew'
    BY <1>1, <1>2, <1>3, <1>5, SumsTwice
  <2>2. granted' = granted
    OBVIOUS
  <2> QED BY <1>2, <2>1, <2>2 DEF Paid
<1>9. Promised'
  <2> SUFFICES ASSUME NEW d \in Askers, asker'[d].calm
               PROVE  /\ asker'[d].pc \in {"asleep", "asking"} /\ Cost[d] <= TokenBurst
                      /\ bucket.blocked <= asker'[d].at
                      /\ bucket'.requests + Lack(asker'[d].at, t) * RequestRate >= Scale
                      /\ bucket'.tokens + Lack(asker'[d].at, t) * TokenRate >= Cost[d] * Scale
    BY <1>2 DEF Promised, Covers
  <2>1. CASE d = c
    BY <1>4, <2>1
  <2>2. CASE d # c
    <3>1. asker'[d] = asker[d] /\ asker[d].at \in Nat
      BY <1>3, <1>4, <2>2 DEF Callers
    <3>2. /\ asker[d].pc \in {"asleep", "asking"} /\ Cost[d] <= TokenBurst /\ bucket.blocked <= asker[d].at
          /\ Covers(bucket.requests, RequestRate, Scale, asker[d].at)
          /\ Covers(bucket.tokens, TokenRate, Cost[d] * Scale, asker[d].at)
      BY <3>1 DEF LimiterInv, Promised
    <3> QED BY <1>2, <3>1, <3>2
  <2> QED BY <2>1, <2>2
<1> QED BY <1>6, <1>7, <1>8, <1>9 DEF LimiterInv

LEMMA SilenceKeeps == ASSUME LimiterInv, NEW c \in Askers, WaitForSilence(c) PROVE LimiterInv'
<1> DEFINE ticks == Greatest(bucket.blocked - asker[c].at, 1)
           r == [pc |-> "asleep", at |-> clock + ticks, calm |-> FALSE]
<1>1. clock \in Nat /\ bucket.blocked \in Nat /\ asker[c].at \in Nat
  BY TypeIs, BucketNats DEF Callers
<1>2. ticks \in Nat
  BY <1>1 DEF Greatest
<1>3. r \in Callers
  BY <1>1, <1>2 DEF Callers
<1>4. asker' = [asker EXCEPT ![c] = r]
  BY DEF WaitForSilence, Sleep
<1> QED BY <1>3, <1>4, WaitKeeps DEF WaitForSilence

LEMMA UnitsKeeps == ASSUME LimiterInv, NEW c \in Askers, WaitForUnits(c) PROVE LimiterInv'
<1> DEFINE t == asker[c].at
           wait == RetryAfter(bucket', Cost[c])
           ticks == Greatest(wait, 1)
           r == [pc |-> "asleep", at |-> clock + ticks, calm |-> TRUE]
<1>1. /\ asker[c].pc = "asking" /\ t \in 0 .. clock /\ clock \in Nat /\ t \in Nat /\ bucket.blocked \in Nat
      /\ Cost[c] <= TokenBurst /\ t >= bucket.blocked /\ Cost[c] * Scale \in Nat
      /\ bucket' = Refilled(t)
  BY TypeIs, BucketNats, AskedAt, Levels DEF WaitForUnits
<1>2. bucket'.requests \in Nat /\ bucket'.tokens \in Nat
  <2>1. bucket' \in Buckets
    BY <1>1, RefilledIs DEF Buckets
  <2> QED BY <2>1, BucketNats
<1> DEFINE dr == Lack(Scale, bucket'.requests) dt == Lack(Cost[c] * Scale, bucket'.tokens)
<1>3. dr \in Nat /\ bucket'.requests + dr >= Scale
  BY <1>2, Levels, LackCovers
<1>4. dt \in Nat /\ bucket'.tokens + dt >= Cost[c] * Scale
  BY <1>1, <1>2, LackCovers
<1>5. /\ DivCeil(dr, RequestRate) \in Nat /\ DivCeil(dr, RequestRate) * RequestRate >= dr
      /\ DivCeil(dt, TokenRate) \in Nat /\ DivCeil(dt, TokenRate) * TokenRate >= dt
  <2> HIDE DEF dr, dt
  <2> QED BY <1>3, <1>4, Levels, CeilCovers
<1>6. wait = Greatest(DivCeil(dr, RequestRate), DivCeil(dt, TokenRate))
  BY DEF RetryAfter
<1> HIDE DEF dr, dt
<1>7. wait \in Nat /\ ticks \in Nat /\ DivCeil(dr, RequestRate) <= ticks /\ DivCeil(dt, TokenRate) <= ticks
  <2> HIDE DEF wait
  <2> QED BY <1>5, <1>6 DEF Greatest
<1> HIDE DEF wait, ticks
<1>8. Lack(clock + ticks, t) \in Nat /\ ticks <= Lack(clock + ticks, t) /\ clock + ticks >= bucket.blocked
  <2> DEFINE b == bucket.blocked
  <2>1. b \in Nat /\ b <= t /\ t <= clock /\ ticks \in Nat /\ t \in Nat /\ clock \in Nat
    BY <1>1, <1>7
  <2> HIDE DEF b, t
  <2> QED BY <2>1 DEF Lack, Greatest, b
<1>9. bucket'.requests + Lack(clock + ticks, t) * RequestRate >= Scale
  <2>1. DivCeil(dr, RequestRate) <= Lack(clock + ticks, t)
    BY <1>5, <1>7, <1>8
  <2>2. /\ DivCeil(dr, RequestRate) * RequestRate <= Lack(clock + ticks, t) * RequestRate
        /\ Lack(clock + ticks, t) * RequestRate \in Nat /\ DivCeil(dr, RequestRate) * RequestRate \in Nat
    BY <1>5, <1>8, <2>1, Levels, Products
  <2> DEFINE x == DivCeil(dr, RequestRate) * RequestRate y == Lack(clock + ticks, t) * RequestRate
             l == bucket'.requests
  <2>3. x \in Nat /\ y \in Nat /\ x <= y /\ x >= dr /\ dr \in Nat /\ l \in Nat /\ l + dr >= Scale /\ Scale \in Nat
    BY <1>2, <1>3, <1>5, <2>2, Levels
  <2> HIDE DEF x, y, l
  <2>4. l + y >= Scale
    BY <2>3
  <2> QED BY <2>4 DEF l, y
<1>10. bucket'.tokens + Lack(clock + ticks, t) * TokenRate >= Cost[c] * Scale
  <2>1. DivCeil(dt, TokenRate) <= Lack(clock + ticks, t)
    BY <1>5, <1>7, <1>8
  <2>2. /\ DivCeil(dt, TokenRate) * TokenRate <= Lack(clock + ticks, t) * TokenRate
        /\ Lack(clock + ticks, t) * TokenRate \in Nat /\ DivCeil(dt, TokenRate) * TokenRate \in Nat
    BY <1>5, <1>8, <2>1, Levels, Products
  <2> DEFINE x == DivCeil(dt, TokenRate) * TokenRate y == Lack(clock + ticks, t) * TokenRate
             l == bucket'.tokens need == Cost[c] * Scale
  <2>3. x \in Nat /\ y \in Nat /\ x <= y /\ x >= dt /\ dt \in Nat /\ l \in Nat /\ l + dt >= need /\ need \in Nat
    BY <1>1, <1>2, <1>4, <1>5, <2>2
  <2> HIDE DEF x, y, l, need
  <2>4. l + y >= need
    BY <2>3
  <2> QED BY <2>4 DEF l, y, need
<1>11. r \in Callers /\ asker' = [asker EXCEPT ![c] = r]
  BY <1>1, <1>7 DEF Callers, WaitForUnits, Sleep, wait, ticks
<1> QED BY <1>1, <1>8, <1>9, <1>10, <1>11, WaitKeeps DEF WaitForUnits

LEMMA GrantKeeps == ASSUME LimiterInv, NEW c \in Askers, Grant(c) PROVE LimiterInv'
<1> DEFINE t == asker[c].at b == Refilled(t) cost == Cost[c] * Scale
<1>1. /\ asker[c].pc = "asking" /\ t \in 0 .. clock /\ clock \in 0 .. MaxClock /\ t \in Nat
      /\ cost \in Nat /\ b.requests >= Scale /\ b.tokens >= cost
      /\ bucket' = [b EXCEPT !.requests = @ - Scale, !.tokens = @ - cost, !.strikes = 0]
      /\ granted' = granted + cost /\ clock' = clock
  <2>1. asker[c].pc = "asking" /\ clock \in 0 .. MaxClock
    BY TypeIs DEF Grant
  <2>2. t \in 0 .. clock
    BY <2>1, AskedAt
  <2>3. t \in Nat
    <3> DEFINE at == t
    <3>1. at \in 0 .. clock
      BY <2>2
    <3> HIDE DEF at
    <3>2. at \in Nat
      BY <3>1, <2>1
    <3> QED BY <3>2 DEF at
  <2>4. cost \in Nat
    BY Levels
  <2>5. b.requests >= Scale /\ b.tokens >= cost
    BY DEF Grant, Enough
  <2>6. /\ bucket' = [b EXCEPT !.requests = @ - Scale, !.tokens = @ - cost, !.strikes = 0]
        /\ granted' = granted + cost /\ clock' = clock
    BY DEF Grant
  <2> QED BY <2>1, <2>2, <2>3, <2>4, <2>5, <2>6
<1>2. /\ b \in Buckets /\ b.last = t
      /\ granted + b.tokens <= TokenBurst * Scale + TokenRate * (t + skew + Lack(bucket.last, t))
  BY <1>1, RefilledIs DEF Buckets
<1>3. bucket \in Buckets /\ asker \in [Askers -> Callers] /\ skew \in Nat /\ granted \in Nat
  BY TypeIs
<1>4. skew' = skew + Lack(bucket.last, t) /\ Lack(bucket.last, t) \in Nat
  BY <1>1, <1>3, BucketNats, LackIs DEF Touch, Grant
<1>5. /\ bucket'.last = t /\ bucket'.tokens = b.tokens - cost
      /\ b.requests - Scale \in 0 .. RequestBurst * Scale /\ b.tokens - cost \in 0 .. TokenBurst * Scale
      /\ bucket' \in Buckets
  <2>1. b.requests \in Nat /\ b.tokens \in Nat
    BY <1>2, BucketNats
  <2>2. b.requests <= RequestBurst * Scale /\ b.tokens <= TokenBurst * Scale
    <3>1. b.requests \in 0 .. RequestBurst * Scale /\ b.tokens \in 0 .. TokenBurst * Scale
      BY <1>2 DEF Buckets
    <3>2. \A n, cap \in Nat : n \in 0 .. cap => n <= cap
      OBVIOUS
    <3> QED BY <2>1, <3>1, <3>2, Levels
  <2> DEFINE rq == b.requests tk == b.tokens rcap == RequestBurst * Scale tcap == TokenBurst * Scale
  <2>3. /\ rq \in Nat /\ tk \in Nat /\ rcap \in Nat /\ tcap \in Nat /\ rq <= rcap /\ tk <= tcap
        /\ Scale \in Nat /\ cost \in Nat /\ rq >= Scale /\ tk >= cost
    BY <1>1, <2>1, <2>2, Levels
  <2> HIDE DEF rq, tk, rcap, tcap, cost
  <2>4. rq - Scale \in 0 .. rcap /\ tk - cost \in 0 .. tcap
    BY <2>3
  <2>5. 0 \in 0 .. MaxStrikes
    BY DEF MaxStrikes
  <2>6. bucket' = [b EXCEPT !.requests = rq - Scale, !.tokens = tk - cost, !.strikes = 0]
    BY <1>1 DEF rq, tk
  <2> HIDE DEF b
  <2>7. bucket' \in Buckets /\ bucket'.last = b.last /\ bucket'.tokens = tk - cost
    BY <1>2, <2>4, <2>5, <2>6 DEF Buckets, rcap, tcap
  <2> QED BY <1>2, <2>4, <2>7 DEF rq, tk, rcap, tcap
<1>6. /\ asker' \in [Askers -> Callers]
      /\ \A d \in Askers : ~ asker'[d].calm /\ (asker'[d].pc \in {"asking", "striking"} =>
                             asker[d].pc \in {"asking", "striking"} /\ asker'[d].at = asker[d].at)
  <2> DEFINE calmed == [d \in Askers |-> IF d = c THEN asker[d] ELSE [asker[d] EXCEPT !.calm = FALSE]]
  <2>1. asker' = [calmed EXCEPT ![c] = Resting("served")]
    BY DEF Grant, Disturbed
  <2>2. Resting("served") \in Callers /\ ~ Resting("served").calm /\ Resting("served").pc = "served"
    BY DEF Resting, Callers
  <2>3. \A d \in Askers : /\ [asker[d] EXCEPT !.calm = FALSE] \in Callers
                          /\ [asker[d] EXCEPT !.calm = FALSE].calm = FALSE
                          /\ [asker[d] EXCEPT !.calm = FALSE].pc = asker[d].pc
                          /\ [asker[d] EXCEPT !.calm = FALSE].at = asker[d].at
    BY <1>3 DEF Callers
  <2> QED BY <1>3, <2>1, <2>2, <2>3
<1>7. LimiterTypeOK'
  <2>1. skew' \in Nat
    BY <1>3, <1>4
  <2>2. clock' \in 0 .. MaxClock
    BY <1>1
  <2>3. granted' \in Nat
    <3> HIDE DEF cost
    <3> QED BY <1>1, <1>3
  <2> QED BY <1>5, <1>6, <2>1, <2>2, <2>3 DEF LimiterTypeOK, Buckets, Callers
<1>8. Clocks'
  <2>1. bucket'.last <= clock'
    BY <1>1, <1>5
  <2>2. \A d \in Askers : asker'[d].pc \in {"asking", "striking"} => asker'[d].at <= clock
    BY <1>6 DEF LimiterInv, Clocks
  <2> QED BY <1>1, <2>1, <2>2 DEF Clocks
<1>9. Paid'
  <2>1. t + skew + Lack(bucket.last, t) = bucket'.last + skew'
    BY <1>1, <1>3, <1>4, <1>5, SumsTwice
  <2>2. granted' + bucket'.tokens = granted + b.tokens
    <3> DEFINE tk == b.tokens
    <3>1. tk \in Nat /\ granted \in Nat /\ cost \in Nat /\ granted' = granted + cost /\ bucket'.tokens = tk - cost
      BY <1>1, <1>2, <1>3, <1>5, BucketNats
    <3> HIDE DEF tk, cost
    <3>2. granted' + bucket'.tokens = granted + tk
      BY <3>1
    <3> QED BY <3>2 DEF tk
  <2> QED BY <1>2, <2>1, <2>2 DEF Paid
<1>10. Promised'
  BY <1>6 DEF Promised
<1> QED BY <1>7, <1>8, <1>9, <1>10 DEF LimiterInv

LEMMA StrikeKeeps == ASSUME LimiterInv, NEW c \in Askers, Record429(c) PROVE LimiterInv'
<1> DEFINE strikes == Least(bucket.strikes + 1, MaxStrikes)
<1>1. /\ asker[c].at \in 0 .. clock /\ clock \in 0 .. MaxClock /\ bucket \in Buckets
      /\ asker \in [Askers -> Callers] /\ skew \in Nat /\ granted \in Nat
      /\ bucket' = [bucket EXCEPT !.strikes = strikes, !.blocked = asker[c].at + Delay[strikes]]
      /\ UNCHANGED <<clock, granted, skew>>
  BY TypeIs, AskedAt DEF Record429
<1>2. strikes \in 1 .. MaxStrikes /\ Delay[strikes] \in Nat
  <2>1. bucket.strikes \in 0 .. MaxStrikes
    BY <1>1 DEF Buckets
  <2>2. strikes \in 1 .. MaxStrikes
    <3> DEFINE n == bucket.strikes
    <3>1. n \in 0 .. MaxStrikes
      BY <2>1
    <3> HIDE DEF n
    <3>2. Least(n + 1, MaxStrikes) \in 1 .. MaxStrikes
      BY Strikes, <3>1 DEF Least
    <3> QED BY <3>2 DEF n
  <2> QED BY <2>2, Strikes
<1> HIDE DEF strikes
<1>3. bucket' \in Buckets /\ bucket'.last = bucket.last /\ bucket'.tokens = bucket.tokens
  <2> DEFINE blocked == asker[c].at + Delay[strikes]
  <2>1. blocked \in Nat
    <3> DEFINE at == asker[c].at wait == Delay[strikes]
    <3>1. at \in Nat /\ wait \in Nat
      BY <1>1, <1>2 DEF Callers
    <3> HIDE DEF at, wait
    <3>2. at + wait \in Nat
      BY <3>1
    <3> QED BY <3>2 DEF at, wait
  <2>2. strikes \in 0 .. MaxStrikes
    BY <1>2
  <2>3. bucket' = [bucket EXCEPT !.strikes = strikes, !.blocked = blocked]
    BY <1>1
  <2> HIDE DEF blocked
  <2> QED BY <1>1, <2>1, <2>2, <2>3 DEF Buckets
<1>4. /\ asker' \in [Askers -> Callers]
      /\ \A d \in Askers : ~ asker'[d].calm /\ (asker'[d].pc \in {"asking", "striking"} =>
                             asker[d].pc \in {"asking", "striking"} /\ asker'[d].at = asker[d].at)
  <2> DEFINE calmed == [d \in Askers |-> IF d = c THEN asker[d] ELSE [asker[d] EXCEPT !.calm = FALSE]]
  <2>1. asker' = [calmed EXCEPT ![c] = Resting("idle")]
    BY DEF Record429, Disturbed
  <2>2. Resting("idle") \in Callers /\ ~ Resting("idle").calm /\ Resting("idle").pc = "idle"
    BY DEF Resting, Callers
  <2>3. \A d \in Askers : /\ [asker[d] EXCEPT !.calm = FALSE] \in Callers
                          /\ [asker[d] EXCEPT !.calm = FALSE].calm = FALSE
                          /\ [asker[d] EXCEPT !.calm = FALSE].pc = asker[d].pc
                          /\ [asker[d] EXCEPT !.calm = FALSE].at = asker[d].at
    BY <1>1 DEF Callers
  <2> QED BY <1>1, <2>1, <2>2, <2>3
<1>5. LimiterTypeOK' /\ Paid'
  BY <1>1, <1>3, <1>4 DEF LimiterTypeOK, Buckets, Callers, LimiterInv, Paid
<1>6. Clocks' /\ Promised'
  BY <1>1, <1>3, <1>4 DEF LimiterInv, Clocks, Promised
<1> QED BY <1>5, <1>6 DEF LimiterInv

LEMMA TickKeeps == ASSUME LimiterInv, Tick PROVE LimiterInv'
<1>1. /\ clock' = clock + 1 /\ clock \in Nat /\ clock' \in 0 .. MaxClock /\ UNCHANGED <<bucket, asker, granted, skew>>
  BY TypeIs, Levels DEF Tick
<1>2. LimiterTypeOK' /\ Paid' /\ Promised'
  BY <1>1 DEF LimiterInv, LimiterTypeOK, Paid, Promised, Covers
<1>3. Clocks'
  <2>1. bucket.last \in Nat /\ bucket.last <= clock
    BY TypeIs, BucketNats DEF LimiterInv, Clocks
  <2>2. ASSUME NEW d \in Askers, asker[d].pc \in {"asking", "striking"} PROVE asker[d].at <= clock + 1
    BY <1>1, <2>2, AskedAt
  <2> QED BY <1>1, <2>1, <2>2 DEF Clocks
<1> QED BY <1>2, <1>3 DEF LimiterInv

LEMMA LimiterInductive == LimiterInv /\ [LimiterNext]_limiterVars => LimiterInv'
<1> SUFFICES ASSUME LimiterInv, [LimiterNext]_limiterVars PROVE LimiterInv'
  OBVIOUS
<1>1. CASE UNCHANGED limiterVars
  BY <1>1 DEF limiterVars, LimiterInv, LimiterTypeOK, Clocks, Paid, Promised, Covers
<1>2. CASE LimiterNext
  BY <1>2, CallerKeeps, SilenceKeeps, UnitsKeeps, GrantKeeps, StrikeKeeps, TickKeeps DEF LimiterNext
<1> QED BY <1>1, <1>2

LEMMA LimiterInvariance == LimiterSpec => []LimiterInv
BY LimiterInitial, LimiterInductive, PTL DEF LimiterSpec

\* The buckets keep their rims, and what is granted by a time is what the bucket
\* held and the clock added, with the time that late clocks make it count twice:
\* for any number of callers, sizes of requests, rates and bursts.
THEOREM RatesAreKept == LimiterSpec => []LimiterSafety
<1>1. LimiterInv => LimiterSafety
  <2> SUFFICES ASSUME LimiterInv PROVE RateKept
    BY DEF LimiterInv, LimiterSafety
  <2>1. /\ clock \in Nat /\ skew \in Nat /\ granted \in Nat /\ bucket.last \in Nat /\ bucket.tokens \in Nat
        /\ bucket.last <= clock /\ TokenBurst * Scale \in Nat
    BY TypeIs, BucketNats, Levels DEF LimiterInv, Clocks
  <2>2. /\ TokenRate * (bucket.last + skew) <= TokenRate * (clock + skew)
        /\ TokenRate * (bucket.last + skew) \in Nat /\ TokenRate * (clock + skew) \in Nat
    <3> DEFINE a == bucket.last + skew b == clock + skew
    <3>1. a \in Nat /\ b \in Nat /\ a <= b /\ TokenRate \in Nat
      <4>1. \A x, y, z \in Nat : x <= y => x + z <= y + z
        OBVIOUS
      <4>2. a \in Nat /\ b \in Nat
        BY <2>1, Sums
      <4>3. a <= b
        BY <2>1, <4>1
      <4> QED BY <4>2, <4>3, Levels
    <3> HIDE DEF a, b
    <3>2. a * TokenRate <= b * TokenRate /\ a * TokenRate \in Nat /\ b * TokenRate \in Nat
          /\ a * TokenRate = TokenRate * a /\ b * TokenRate = TokenRate * b
      BY <3>1, Products
    <3> QED BY <3>2 DEF a, b
  <2> DEFINE p == TokenRate * (bucket.last + skew) q == TokenRate * (clock + skew)
             base == TokenBurst * Scale tk == bucket.tokens
  <2>3. p \in Nat /\ q \in Nat /\ base \in Nat /\ tk \in Nat /\ granted \in Nat
        /\ p <= q /\ granted + tk <= base + p
    BY <2>1, <2>2 DEF LimiterInv, Paid
  <2> HIDE DEF p, q, base, tk
  <2>4. granted <= base + q
    BY <2>3
  <2> QED BY <2>4 DEF RateKept, base, q
<1> QED BY <1>1, LimiterInvariance, PTL

\* Who has slept for as long as it was told, and nobody was served or struck in
\* between, is served: the rounding up of the wait, the order of late clocks and
\* the rims of the buckets never make it wait again.
THEOREM WaitsAreEnough == LimiterSpec => WaitIsEnough
<1> DEFINE Enoughs == \A c \in Askers :
             asker[c].pc = "asking" /\ asker[c].calm /\ asker'[c].pc # "asking" => asker'[c].pc = "served"
<1>1. LimiterInv /\ [LimiterNext]_limiterVars => [Enoughs]_limiterVars
  <2> SUFFICES ASSUME LimiterInv, LimiterNext, NEW c \in Askers,
                      asker[c].pc = "asking", asker[c].calm, asker'[c].pc # "asking"
               PROVE  asker'[c].pc = "served"
    OBVIOUS
  <2> DEFINE t == asker[c].at
  <2>1. /\ Cost[c] <= TokenBurst /\ bucket.blocked <= t /\ t \in 0 .. clock /\ t \in Nat
        /\ Covers(bucket.requests, RequestRate, Scale, t)
        /\ Covers(bucket.tokens, TokenRate, Cost[c] * Scale, t)
        /\ Cost[c] \in Nat /\ TokenBurst \in Nat /\ bucket.blocked \in Nat
    <3>1. /\ Cost[c] <= TokenBurst /\ bucket.blocked <= t
          /\ Covers(bucket.requests, RequestRate, Scale, t)
          /\ Covers(bucket.tokens, TokenRate, Cost[c] * Scale, t)
      BY DEF LimiterInv, Promised
    <3>2. t \in 0 .. clock
      BY AskedAt
    <3>3. t \in Nat /\ bucket.blocked \in Nat
      BY TypeIs, BucketNats DEF Callers
    <3>4. Cost[c] \in Nat /\ TokenBurst \in Nat
      BY Levels
    <3> QED BY <3>1, <3>2, <3>3, <3>4
  <2>2. Enough(Refilled(t), Cost[c])
    <3>1. /\ Refilled(t).requests + Lack(t, t) * RequestRate >= Scale
          /\ Refilled(t).tokens + Lack(t, t) * TokenRate >= Cost[c] * Scale
      BY <2>1, RefilledIs
    <3>2. Lack(t, t) = 0 /\ 0 * RequestRate = 0 /\ 0 * TokenRate = 0
      <4>1. \A n \in Nat : Lack(n, n) = 0
        BY DEF Lack, Greatest
      <4>2. \A n \in Nat : 0 * n = 0
        OBVIOUS
      <4> QED BY <2>1, <4>1, <4>2, Levels
    <3>3. Refilled(t).requests \in Nat /\ Refilled(t).tokens \in Nat
      <4>1. Refilled(t) \in Buckets
        BY <2>1, RefilledIs DEF Buckets
      <4> QED BY <4>1, BucketNats
    <3> QED BY <3>1, <3>2, <3>3 DEF Enough
  <2>3. ~ TooLarge(c) /\ ~ WaitForSilence(c) /\ ~ WaitForUnits(c)
    <3>1. \A x, y \in Nat : x <= y => ~ (y < x) /\ ~ (x > y)
      OBVIOUS
    <3> QED BY <2>1, <2>2, <3>1 DEF TooLarge, WaitForSilence, WaitForUnits
  <2>4. ~ ReadClock(c) /\ ~ Finish(c) /\ ~ TooMany(c) /\ ~ Record429(c)
    BY DEF ReadClock, Finish, TooMany, Record429
  <2>5. asker \in [Askers -> Callers] /\ asker[c].pc = "asking"
    BY TypeIs
  <2>6. CASE Grant(c)
    <3>1. asker'[c] = Resting("served")
      BY <2>5, <2>6 DEF Grant, Disturbed
    <3> QED BY <3>1 DEF Resting
  <2>7. ASSUME NEW d \in Askers, d # c,
               \/ ReadClock(d) \/ TooLarge(d) \/ WaitForSilence(d) \/ WaitForUnits(d)
               \/ Finish(d) \/ TooMany(d)
        PROVE  asker'[c] = asker[c]
    BY <2>5, <2>7 DEF ReadClock, TooLarge, WaitForSilence, WaitForUnits, Finish, TooMany, Sleep
  <2>8. ASSUME NEW d \in Askers, d # c, Grant(d) \/ Record429(d)
        PROVE  asker'[c].pc = "asking"
    <3>1. asker'[c] = [asker[c] EXCEPT !.calm = FALSE]
      BY <2>5, <2>8 DEF Grant, Record429, Disturbed
    <3> QED BY <2>5, <3>1 DEF Callers
  <2>9. Tick => asker'[c] = asker[c]
    BY DEF Tick
  <2> QED BY <2>3, <2>4, <2>6, <2>7, <2>8, <2>9 DEF LimiterNext
<1>2. [][Enoughs]_limiterVars => WaitIsEnough
  BY DEF WaitIsEnough
<1> HIDE DEF Enoughs
<1>3. LimiterSpec => [][Enoughs]_limiterVars
  BY <1>1, LimiterInvariance, PTL DEF LimiterSpec
<1> QED BY <1>2, <1>3
=============================================================================
