--------------------------- MODULE ExecutionFacts ---------------------------
(***************************************************************************)
(* What a turn has done, as far as tools have shown it (harness-runtime,   *)
(* execution.rs), the budget it may use, and the verdict on its delivery   *)
(* (delivery_decision.rs).  The facts are a record                         *)
(*   steps, calls, successes, writes : counters                            *)
(*   attempted : a write was tried, with or without success                *)
(*   changed   : the criteria a counted write was for                      *)
(*   verified  : those with evidence taken after the last counted write    *)
(*   evidence  : some tool has answered                                    *)
(* satisfied_criteria and the keys of verification_evidence are always the *)
(* same set: one field stands for both.  Report documents are left out.    *)
(***************************************************************************)
EXTENDS SolveGraph

Facts == [steps : Nat, calls : Nat, successes : Nat, writes : Nat, attempted : BOOLEAN,
          changed : SUBSET Items, verified : SUBSET Items, evidence : BOOLEAN]

\* A new state, or one that takes over what an earlier turn has verified.
NewFacts(restored) ==
  [steps |-> 0, calls |-> 0, successes |-> 0, writes |-> 0, attempted |-> FALSE,
   changed |-> restored, verified |-> restored, evidence |-> FALSE]

\* A repository command proves by what it prints.
Proves(e, task, c, r) ==
  /\ \/ IsVerify(task, c)
     \/ task.strategy = "Repository" /\ c.tool = "shell" /\ r.expected
  /\ r.ok /\ EvidenceMatches(task, c)
  /\ (e.writes > 0 \/ task.strategy \in {"Verification", "Repository"})

\* Mutant: the evidence of the other items outlives a write.
RecordToolResultKeeps(e, task, c, supports, r) ==
  LET wrote == IsWrite(c) /\ r.ok /\ r.changed
  IN  [steps     |-> e.steps,
       calls     |-> e.calls,
       successes |-> IF r.ok THEN e.successes + 1 ELSE e.successes,
       writes    |-> IF wrote THEN e.writes + 1 ELSE e.writes,
       attempted |-> e.attempted \/ IsWrite(c),
       changed   |-> IF wrote THEN e.changed \cup supports ELSE e.changed,
       verified  |-> IF wrote THEN e.verified \ supports
                     ELSE IF Proves(e, task, c, r) THEN e.verified \cup supports ELSE e.verified,
       evidence  |-> TRUE]

\* A counted write takes back all evidence; a matching verification gives
\* it to the items it is for, once something was written.
RecordToolResult(e, task, c, supports, r) ==
  LET wrote == IsWrite(c) /\ r.ok /\ r.changed
  IN  [steps     |-> e.steps,
       calls     |-> e.calls,
       successes |-> IF r.ok THEN e.successes + 1 ELSE e.successes,
       writes    |-> IF wrote THEN e.writes + 1 ELSE e.writes,
       attempted |-> e.attempted \/ IsWrite(c),
       changed   |-> IF wrote THEN e.changed \cup supports ELSE e.changed,
       verified  |-> IF wrote THEN {}
                     ELSE IF Proves(e, task, c, r) THEN e.verified \cup supports ELSE e.verified,
       evidence  |-> TRUE]

RequiresVerification(e, task) ==
  task.strategy \in {"Transformative", "Verification", "Repository"} \/ e.attempted

RequiresWorkspaceChange(task) ==
  task.strategy \in {"Transformative", "Generative"} /\ ~task.idempotent

RecordStaticVerification(e, task, settled) ==
  IF \/ task.evidence \in {"behavior", "visual"}
     \/ RequiresWorkspaceChange(task) /\ e.writes = 0 /\ e.changed = {}
  THEN e ELSE [e EXCEPT !.verified = @ \cup settled]

\* Mutant: files that were changed back still count.
RejectRevertedNever(e, task, netChange) == e

\* At the end, writes that left every file as it was count for nothing.
RejectReverted(e, task, netChange) ==
  IF RequiresWorkspaceChange(task) /\ e.writes > 0 /\ ~netChange
  THEN [e EXCEPT !.writes = 0, !.changed = {}, !.verified = {}] ELSE e

RecordDirectAnswer(e, task, answered) ==
  IF task.strategy = "Direct" /\ ~RequiresVerification(e, task) /\ answered
  THEN [e EXCEPT !.evidence = TRUE] ELSE e

CanComplete(e, task) ==
  IF task.strategy \in {"Investigative", "Comparative"} /\ ~RequiresVerification(e, task)
  THEN e.evidence
  ELSE /\ RequiresWorkspaceChange(task) => e.writes > 0 \/ e.changed # {}
       /\ RequiresVerification(e, task) => e.verified = Items

\* What renews a window of prompt tokens (agent_loop.rs).
ProgressUnits(e, task) ==
  (IF RequiresWorkspaceChange(task) THEN e.writes ELSE e.successes)
    + Cardinality(e.verified)

\* The items of a call when the graph is not in charge: the first one that
\* is not verified, or the first.
ProposalSupports(e) ==
  LET First(S) == CHOOSE i \in S : \A j \in S : i <= j
  IN  {First(IF Items \ e.verified # {} THEN Items \ e.verified ELSE Items)}

---------------------------------------------------------------------------
(* The budget: a hard total, and a window that is renewed                 *)

HardExhausted(e, b) == e.steps >= b.hardSteps \/ e.calls >= b.hardCalls

BudgetPhase(e, b) ==
  IF e.steps >= b.softSteps \/ e.calls >= b.softCalls THEN "Exhausted"
  ELSE IF 4 * e.steps >= 3 * b.softSteps \/ 4 * e.calls >= 3 * b.softCalls THEN "Converge"
  ELSE "Normal"

Lower(a, b) == IF a < b THEN a ELSE b

CanRenew(b) == b.renewals > 0

ExtendWindow(b) ==
  [b EXCEPT !.renewals = @ - 1,
            !.softSteps = Lower(@ + b.window, b.hardSteps),
            !.softCalls = Lower(@ + b.window, b.hardCalls)]

ArmFinalWindow(e, b) ==
  [b EXCEPT !.final = TRUE,
            !.softSteps = Lower(e.steps + 6, b.hardSteps),
            !.softCalls = Lower(e.calls + 4, b.hardCalls)]

\* The judge of turns the graph is not in charge of.
JudgeCompletion(e, task, b, hadTools) ==
  CASE BudgetPhase(e, b) = "Exhausted" -> "Continue"
    [] BudgetPhase(e, b) = "Converge" /\ hadTools -> "Converge"
    [] BudgetPhase(e, b) # "Exhausted" /\ ~hadTools ->
         IF CanComplete(e, task) THEN "Complete" ELSE "Converge"
    [] OTHER -> "Continue"

---------------------------------------------------------------------------
(* The verdict                                                            *)

CriterionVerdict(e, task, i) ==
  LET readOnly == task.outcome \in {"Answer", "Diagnose", "Verify", "Repository"}
      free     == ~RequiresVerification(e, task)
  IN  IF free /\ readOnly /\ e.evidence THEN "Investigated"
      ELSE IF free /\ task.outcome = "Undetermined" THEN "Unverified"
      ELSE IF i \in e.verified THEN "Verified"
      ELSE IF i \in e.changed /\ e.writes > 0 THEN "ChangedWithoutVerification"
      ELSE "Unverified"

Covered(e, task) ==
  \A i \in Items : CriterionVerdict(e, task, i) \in {"Verified", "Investigated"}

UnmetObservations(e, task) ==
  /\ task.evidence \in {"visual", "behavior"}
  /\ \E i \in Items : CriterionVerdict(e, task, i) = "ChangedWithoutVerification"

\* The reason to stop goes before the evidence, and the evidence before
\* any other reason.
DeliveryStatus(e, task, stop) ==
  IF stop = "UserCancelled" THEN "Cancelled"
  ELSE IF stop = "ProviderError" THEN "Blocked"
  ELSE IF /\ ~UnmetObservations(e, task)
          /\ Covered(e, task)
          /\ RequiresWorkspaceChange(task) => e.writes > 0 \/ e.changed # {}
  THEN "Completed" ELSE "Paused"

DeliveryOutcome(e, task, stop) ==
  LET status == DeliveryStatus(e, task, stop) IN
  CASE status = "Completed" -> "Verified"
    [] status = "Cancelled" -> "Cancelled"
    [] status = "Blocked"   -> "SystemFailure"
    [] status = "Paused" ->
         IF stop \in {"BudgetWindowExhausted", "HardBudgetCeiling"} THEN "SystemFailure"
         ELSE IF stop = "HardStop" THEN "Interrupted" ELSE "PartialDelivery"
=============================================================================
