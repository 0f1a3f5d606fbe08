------------------------------ MODULE AgentLoop ------------------------------
(***************************************************************************)
(* A turn of the agent (harness-runtime, agent_loop.rs), from the budget   *)
(* check before a request to the Delivery and the TurnEnd, and the next    *)
(* turn that resumes it.  The model's replies, the tools' results and the  *)
(* user are the environment.  The solve graph and the execution facts are  *)
(* the two projections the loop keeps; they are functions of SolveGraph    *)
(* and ExecutionFacts.                                                     *)
(* A call writes only through the tools edit and create; a command does    *)
(* not change the workspace.  A file's content is a number, 0 the one it   *)
(* had at the start.                                                       *)
(***************************************************************************)
EXTENDS ExecutionFacts

CONSTANTS
  Tasks,        \* the tasks a user may start with
  Governors,    \* subset of BOOLEAN: governor modes, TRUE for On
  Calls,        \* the tool calls a model may make
  MaxBatch,     \* calls in one reply
  Texts,        \* [text, claim]: the wording of a reply without calls
  Events,       \* what may come from outside, apart from replies and results
  Contents,     \* contents of a file, 0 among them
  HardSteps, HardCalls,   \* the hard budget of a new task
  SoftWindow, MaxRenewals,  \* the soft window and how often it is renewed
  PromptRenewals,  \* MAX_PROMPT_AUTORENEWS
  RepeatStop,   \* conclusions of one wording that stop a turn
  EmptyRetries, \* [reasons -> retries] after an empty response
  WindowSteps,  \* WINDOW_STEPS of the governor
  Frames,       \* frames of its strategy stack
  MaxTurns      \* bound on the turns of one task

ASSUME AgentLoopAssumption ==
  /\ HardSteps \in Nat \ {0} /\ HardCalls \in Nat \ {0}
  /\ SoftWindow \in Nat \ {0} /\ MaxRenewals \in Nat /\ PromptRenewals \in Nat
  /\ RepeatStop \in Nat \ {0, 1} /\ WindowSteps \in Nat \ {0} /\ Frames \in Nat \ {0}
  /\ MaxBatch \in Nat \ {0} /\ MaxTurns \in Nat \ {0} /\ 0 \in Contents /\ Contents \subseteq Nat
  /\ IsFiniteSet(Files)
  /\ \A c \in Calls : c.tool \in {"read", "edit", "create"} => c.file \in Files

VARIABLES
  task, governed,  \* what was asked, and whether the governor is on
  disk,      \* [Files -> Contents]
  base,      \* contents before the first write of the turn to a file
  goal, exec, budget,
  pc,        \* where the loop is
  debt,      \* steps that are owed
  flags,     \* what the turn has seen so far
  step,      \* what the current step has seen
  batch,     \* the calls of the step that are dispatched
  gov,       \* the governor's frames, and the step and writes its window began at
  outcome,   \* of the last Delivery
  ckpt,      \* the TaskCheckpoint
  turn,      \* number of the turn
  views,     \* the log's successful reads: [Files -> [Contents -> how often]]
  stamp      \* history: steps of all turns, of the last write, of each item's evidence

vars == <<task, governed, disk, base, goal, exec, budget, pc, debt, flags, step,
          batch, gov, outcome, ckpt, turn, views, stamp>>

Untouched == -1
None == "none"

\* The goal graph decides, unless the task is open and only asks.
Controlled == \/ task.strategy \in {"Transformative", "Generative"}
              \/ ~task.open /\ task.strategy # "Repository"
ImplementationWorkflow == task.strategy \in {"Transformative", "Generative"} /\ task.open

DeliveryReady == CanComplete(exec, task) /\ (Controlled => CanConclude(goal, task))

FreshFlags ==
  [hard |-> FALSE, cancelled |-> FALSE, provider |-> FALSE, verified |-> FALSE,
   stalled |-> FALSE, baseline |-> FALSE, ceiling |-> FALSE, window |-> FALSE,
   notified |-> FALSE, converged |-> FALSE, demanded |-> FALSE, streak |-> 0,
   repeats |-> 0, empties |-> 0, answered |-> FALSE, renewals |-> 0, mark |-> 0]

FreshStep == [tools |-> FALSE, text |-> None, empty |-> None, claim |-> FALSE]

NewBudget(steps, calls) ==
  [hardSteps |-> steps, hardCalls |-> calls, softSteps |-> Lower(SoftWindow, steps),
   softCalls |-> Lower(SoftWindow, calls), window |-> SoftWindow,
   renewals |-> MaxRenewals, final |-> FALSE]

AgentInit ==
  /\ task \in Tasks /\ governed \in Governors
  /\ disk = [f \in Files |-> 0] /\ base = [f \in Files |-> Untouched]
  /\ \E found \in SUBSET Files, sure \in BOOLEAN :
       goal = ApplyGrounding(FromContract, found, sure)
  /\ exec = NewFacts({}) /\ budget = NewBudget(HardSteps, HardCalls)
  /\ pc = "gate" /\ debt = 1 /\ flags = FreshFlags /\ step = FreshStep /\ batch = <<>>
  /\ gov = [frames |-> Frames, step |-> 0, writes |-> 0]
  /\ outcome = None
  /\ ckpt = [verified |-> {}, files |-> [i \in Items |-> {}],
             disk |-> disk, steps |-> HardSteps, calls |-> HardCalls]
  /\ turn = 1
  /\ views = [f \in Files |-> [v \in Contents |-> 0]]
  /\ stamp = [total |-> 0, wrote |-> 0, proof |-> [i \in Items |-> 0]]

---------------------------------------------------------------------------
(* Before the first request *)

\* A governor asks only when two frames are left: a new one never does.
AskUserPermitted == ~governed \/ gov.frames <= 2

\* A question instead of a turn: nothing was requested or called.
Clarify ==
  /\ "question" \in Events
  /\ pc = "gate" /\ AskUserPermitted /\ ~ImplementationWorkflow
  /\ pc' = "end" /\ outcome' = "NeedsUserInput"
  /\ UNCHANGED <<task, governed, disk, base, goal, exec, budget, debt, flags, step,
                 batch, gov, ckpt, turn, views, stamp>>

Begin ==
  /\ pc = "gate" /\ pc' = "request"
  /\ flags' = [flags EXCEPT !.mark = ProgressUnits(exec, task)]
  /\ UNCHANGED <<task, governed, disk, base, goal, exec, budget, debt, step, batch,
                 gov, outcome, ckpt, turn, views, stamp>>

---------------------------------------------------------------------------
(* The head of the loop *)

\* Mutant: renewals are not limited, and what was achieved is not marked.
RenewPromptForever ==
  /\ "prompt cap" \in Events
  /\ pc = "request" /\ debt > 0 /\ governed
  /\ ProgressUnits(exec, task) > flags.mark
  /\ flags' = [flags EXCEPT !.renewals = 1 - @]
  /\ UNCHANGED <<task, governed, disk, base, goal, exec, budget, pc, debt, step, batch,
                 gov, outcome, ckpt, turn, views, stamp>>

\* The prompt tokens are used up, and something was achieved since the last time.
RenewPrompt ==
  /\ "prompt cap" \in Events
  /\ pc = "request" /\ debt > 0 /\ governed
  /\ flags.renewals < PromptRenewals /\ ProgressUnits(exec, task) > flags.mark
  /\ flags' = [flags EXCEPT !.renewals = @ + 1, !.mark = ProgressUnits(exec, task)]
  /\ UNCHANGED <<task, governed, disk, base, goal, exec, budget, pc, debt, step, batch,
                 gov, outcome, ckpt, turn, views, stamp>>

PromptExhausted ==
  /\ "prompt cap" \in Events
  /\ pc = "request" /\ debt > 0 /\ governed
  /\ ~(flags.renewals < PromptRenewals /\ ProgressUnits(exec, task) > flags.mark)
  /\ flags' = [flags EXCEPT !.window = TRUE] /\ pc' = "exit"
  /\ UNCHANGED <<task, governed, disk, base, goal, exec, budget, debt, step, batch,
                 gov, outcome, ckpt, turn, views, stamp>>

BudgetHit ==
  /\ pc = "request" /\ debt > 0 /\ HardExhausted(exec, budget)
  /\ flags' = [flags EXCEPT !.ceiling = TRUE, !.hard = TRUE] /\ pc' = "exit"
  /\ UNCHANGED <<task, governed, disk, base, goal, exec, budget, debt, step, batch,
                 gov, outcome, ckpt, turn, views, stamp>>

\* Mutant: the step is not taken from the debt.
StartStepFree ==
  /\ pc = "request" /\ debt > 0 /\ ~HardExhausted(exec, budget)
  /\ exec' = [exec EXCEPT !.steps = @ + 1]
  /\ step' = FreshStep /\ batch' = <<>> /\ pc' = "stream"
  /\ stamp' = [stamp EXCEPT !.total = @ + 1]
  /\ UNCHANGED <<task, governed, disk, base, goal, budget, debt, flags, gov, outcome, ckpt,
                 turn, views>>

StartStep ==
  /\ pc = "request" /\ debt > 0 /\ ~HardExhausted(exec, budget)
  /\ exec' = [exec EXCEPT !.steps = @ + 1] /\ debt' = debt - 1
  /\ step' = FreshStep /\ batch' = <<>> /\ pc' = "stream"
  /\ stamp' = [stamp EXCEPT !.total = @ + 1]
  /\ UNCHANGED <<task, governed, disk, base, goal, budget, flags, gov, outcome, ckpt, turn, views>>

---------------------------------------------------------------------------
(* The stream of a reply *)

HardStop(f) == [f EXCEPT !.hard = TRUE]

Cancel ==
  /\ "cancel" \in Events
  /\ pc \in {"stream", "dispatch", "tail"}
  /\ flags' = [HardStop(flags) EXCEPT !.cancelled = TRUE]
  /\ step' = [step EXCEPT !.tools = @ \/ pc = "dispatch"]
  /\ debt' = 0 /\ pc' = "boundary"
  /\ UNCHANGED <<task, governed, disk, base, goal, exec, budget, batch, gov, outcome,
                 ckpt, turn, views, stamp>>

ProviderError ==
  /\ "provider error" \in Events
  /\ pc \in {"stream", "tail"}
  /\ flags' = [HardStop(flags) EXCEPT !.provider = TRUE] /\ debt' = 0 /\ pc' = "boundary"
  /\ UNCHANGED <<task, governed, disk, base, goal, exec, budget, step, batch, gov,
                 outcome, ckpt, turn, views, stamp>>

\* The reply announces tool calls and has none.
MalformedCalls ==
  /\ "malformed" \in Events
  /\ pc = "stream"
  /\ flags' = HardStop(flags) /\ debt' = 0 /\ pc' = "boundary"
  /\ UNCHANGED <<task, governed, disk, base, goal, exec, budget, step, batch, gov,
                 outcome, ckpt, turn, views, stamp>>

\* A reply without calls: one recurrent conclusion or another text, maybe
\* with a claim that no tool result supports; or cut off, with or without
\* a text before.
TextReply(text, claim, empty) ==
  /\ pc = "stream"
  /\ step' = [step EXCEPT !.text = text, !.claim = claim, !.empty = empty]
  /\ pc' = "boundary"
  /\ UNCHANGED <<task, governed, disk, base, goal, exec, budget, debt, flags, batch, gov,
                 outcome, ckpt, turn, views, stamp>>

NoResult == [ok |-> FALSE, changed |-> FALSE, finds |-> {}, expected |-> FALSE, mention |-> {},
             seen |-> Untouched]

\* The gates of one reply, call by call: what a call is for, then whether
\* it is denied, the same as an earlier one, or a second write to one file.
\* A policy, a hook, or the cache of the turn's searches may answer in the
\* place of the tool (blocked): such a call counts, and is not dispatched.
Gated(acc, c, advised, blocked) ==
  LET sup  == IF Controlled THEN Supports(acc.goal, task, c, acc.used) ELSE ProposalSupports(exec)
      spec == Controlled /\ HasActionSpec(acc.goal, task, c, sup)
      used == IF Controlled /\ ~IsVerify(task, c)
              THEN acc.used \cup {NextAdmitted(acc.goal, acc.used)} ELSE acc.used
      denied == Controlled /\ Denied(acc.goal, task, c, advised)
      again  == c \in acc.seen \/ \E q \in acc.seen : IsWrite(q) /\ IsWrite(c) /\ q.file = c.file
      entry  == [call |-> c, supports |-> sup, spec |-> spec,
                 verify |-> OfVerifyPhase(acc.goal, task, c, sup),
                 done |-> FALSE, r |-> NoResult]
  IN  [goal  |-> IF denied /\ spec THEN RecordGateRejection(acc.goal, sup) ELSE acc.goal,
       used  |-> used,
       seen  |-> IF denied \/ again THEN acc.seen ELSE acc.seen \cup {c},
       queue |-> IF denied \/ again \/ c \in blocked THEN acc.queue ELSE Append(acc.queue, entry)]

Admitted(calls, advised, blocked) ==
  LET gated[n \in 0 .. Len(calls)] ==
        IF n = 0 THEN [goal |-> goal, used |-> {}, seen |-> {}, queue |-> <<>>]
        ELSE Gated(gated[n - 1], calls[n], advised, blocked)
  IN  gated[Len(calls)]

\* Contents are kept from before the first write to a file.
CallReply(calls, advised, blocked) ==
  LET all    == Admitted(calls, advised, blocked)
      writes == {all.queue[k].call.file :
                   k \in {k \in 1 .. Len(all.queue) : IsWrite(all.queue[k].call)}}
  IN  /\ pc = "stream"
      /\ batch' = all.queue /\ goal' = all.goal
      /\ exec' = [exec EXCEPT !.calls = @ + Cardinality(all.seen)]
      /\ base' = [f \in Files |-> IF f \in writes /\ base[f] = Untouched THEN disk[f] ELSE base[f]]
      /\ step' = [step EXCEPT !.tools = TRUE]
      /\ pc' = IF all.queue = <<>> THEN "tail" ELSE "dispatch"
      /\ UNCHANGED <<task, governed, disk, budget, debt, flags, gov, outcome, ckpt,
                     turn, views, stamp>>

\* The hook's provider fails: run_turn returns the error, nothing is closed.
HookFails ==
  /\ "hook error" \in Events
  /\ pc = "stream" /\ pc' = "failed"
  /\ UNCHANGED <<task, governed, disk, base, goal, exec, budget, debt, flags, step, batch,
                 gov, outcome, ckpt, turn, views, stamp>>

\* The dispatched calls run at the same time.  A write that is given up
\* after its time may have been done.
Execute(k) ==
  LET c == batch[k].call
      Done(r) == batch' = [batch EXCEPT ![k].done = TRUE, ![k].r = r]
      Result(ok) == [NoResult EXCEPT !.ok = ok]
  IN
  /\ pc = "dispatch" /\ ~batch[k].done
  /\ \/ ~IsWrite(c) /\ Done(Result(FALSE)) /\ UNCHANGED disk
     \/ c.tool = "search" /\ UNCHANGED disk
        /\ \E F \in SUBSET Files : Done([Result(TRUE) EXCEPT !.finds = F])
     \/ c.tool = "shell" /\ UNCHANGED disk
        /\ \E x \in BOOLEAN : Done([Result(TRUE) EXCEPT !.expected = x])
     \/ c.tool = "read" /\ UNCHANGED disk
        /\ \E x \in {FALSE, task.idempotent} :
             Done([Result(TRUE) EXCEPT !.expected = x, !.seen = disk[c.file]])
     \/ c.tool \in {"test", "build"} /\ UNCHANGED disk
        /\ \/ Done(Result(TRUE))
           \/ \E M \in SUBSET batch[k].supports : Done([Result(FALSE) EXCEPT !.mention = M])
     \/ IsWrite(c) /\ \E v \in Contents, ok \in BOOLEAN :
           /\ disk' = [disk EXCEPT ![c.file] = v]
           /\ Done([Result(ok /\ v # disk[c.file]) EXCEPT !.changed = v # disk[c.file]])
  /\ UNCHANGED <<task, governed, base, goal, exec, budget, pc, debt, flags, step, gov,
                 outcome, ckpt, turn, views, stamp>>

\* One result: the facts, then the graph, then what the files prove.
Recorded(acc, b, holds) ==
  LET e == RecordToolResult(acc.exec, task, b.call, b.supports, b.r)
      kind == IF b.spec THEN EvidenceKind(acc.goal, task, b.call, b.verify, b.r)
              ELSE "NoInformation"
      g == IF b.spec THEN RecordResult(acc.goal, task, b.call, b.supports, b.verify, b.r)
           ELSE acc.goal
      exact == IF kind = "VerificationPassed" /\ task.idempotent /\ ~e.attempted
                  /\ CanConclude(g, task)
               THEN RecordStaticVerification(e, task, b.supports) ELSE e
      settled == IF kind \in {"ChangeApplied", "AlreadySatisfied"}
                 THEN Settled(g, task, holds) ELSE {}
      final == IF settled = {} THEN exact ELSE RecordStaticVerification(exact, task, settled)
  IN  [goal |-> SettleStaticConvergence(g, settled), exec |-> final,
       flags |-> [acc.flags EXCEPT
          !.baseline = @ \/ (kind = "VerificationPassed" /\ RequiresWorkspaceChange(task)
                             /\ final.writes = 0),
          !.notified = @ /\ kind = "NoInformation"],
       stamp |-> [total |-> acc.stamp.total,
          wrote |-> IF e.writes > acc.exec.writes THEN acc.stamp.total ELSE acc.stamp.wrote,
          proof |-> [i \in Items |->
             IF i \in final.verified /\ (i \in settled \/ i \in b.supports)
             THEN acc.stamp.total ELSE acc.stamp.proof[i]]]]

Results(holds) ==
  LET taken[k \in 0 .. Len(batch)] ==
        IF k = 0 THEN [goal |-> goal, exec |-> exec, flags |-> flags, stamp |-> stamp]
        ELSE Recorded(taken[k - 1], batch[k], holds)
  IN  taken[Len(batch)]

\* When all have answered, the results are taken in the order of the calls.
RecordBatch ==
  /\ pc = "dispatch" /\ \A k \in 1 .. Len(batch) : batch[k].done
  /\ \E holds \in SUBSET Items :
       LET all == Results(holds)
       IN  /\ goal' = all.goal /\ exec' = all.exec /\ flags' = all.flags
           /\ stamp' = all.stamp
  /\ views' = [f \in Files |-> [v \in Contents |->
       LET new == {k \in 1 .. Len(batch) : batch[k].call.file = f /\ batch[k].r.seen = v}
       IN  Lower(views[f][v] + Cardinality(new), MaxReads)]]
  /\ batch' = <<>> /\ pc' = "tail"
  /\ UNCHANGED <<task, governed, disk, base, budget, debt, step, gov, outcome, ckpt, turn>>

EndStream ==
  /\ pc = "tail" /\ pc' = "boundary"
  /\ UNCHANGED <<task, governed, disk, base, goal, exec, budget, debt, flags, step, batch,
                 gov, outcome, ckpt, turn, views, stamp>>

---------------------------------------------------------------------------
(* The end of a step: four judgements one after the other, each a function *)
(* of s = [flags, debt, budget].                                           *)

Recovering == step.empty # None /\ ~step.tools

\* Mutant: a step with calls owes another one after a hard stop too.
OwedAlways(s) ==
  IF Recovering THEN [s EXCEPT !.flags = [HardStop(s.flags) EXCEPT !.provider = TRUE], !.debt = 0]
  ELSE [s EXCEPT !.debt = IF step.tools \/ step.claim THEN @ + 1 ELSE @]

\* The retries of an empty reply, or the step owed for calls or for a claim
\* that has to be taken back.
Owed(s) ==
  LET g == IF ~Recovering /\ (step.text # None \/ step.tools)
           THEN [s.flags EXCEPT !.empties = 0] ELSE s.flags
  IN CASE g.hard -> [s EXCEPT !.flags = g]
       [] ~g.hard /\ Recovering /\ g.empties >= EmptyRetries[step.empty] ->
            [s EXCEPT !.flags = [HardStop(g) EXCEPT !.provider = TRUE], !.debt = 0]
       [] ~g.hard /\ Recovering /\ g.empties < EmptyRetries[step.empty] ->
            [s EXCEPT !.flags = [g EXCEPT !.empties = @ + 1], !.debt = @ + 1]
       [] OTHER -> [s EXCEPT !.flags = g,
                             !.debt = IF step.tools \/ step.claim THEN @ + 1 ELSE @]

Stalled(s) ==
  [s EXCEPT !.flags = [HardStop(s.flags) EXCEPT !.stalled = TRUE], !.debt = 0]

\* The recurrent conclusion, without calls between.
Monitored(s) ==
  LET n == IF step.tools THEN 0
           ELSE s.flags.repeats + (IF step.text = "recurrent" THEN 1 ELSE 0)
      t == [s EXCEPT !.flags.repeats = Lower(n, RepeatStop)]
  IN  IF step.text = "recurrent" /\ n >= RepeatStop /\ ~DeliveryReady THEN Stalled(t) ELSE t

\* Texts in the place of actions: one demand, then the end.  hard is the
\* flag from before the monitor's judgement.
TextGuard(s, hard) ==
  LET textOnly == /\ Controlled /\ ~hard /\ ~Recovering /\ ~step.tools
                  /\ step.text # None /\ ~DeliveryReady
      streak   == Lower(s.flags.streak + 1, 3)
      after    == IF s.flags.baseline /\ ~ImplementationWorkflow THEN 1 ELSE 2
      t        == [s EXCEPT !.flags.streak = streak]
  IN CASE textOnly /\ streak >= after /\ ~s.flags.demanded /\ ~s.flags.baseline ->
            [t EXCEPT !.flags.demanded = TRUE, !.debt = @ + 1]
       [] textOnly /\ streak >= after /\ (s.flags.demanded \/ s.flags.baseline) -> Stalled(t)
       [] textOnly /\ streak < after -> t
       [] ~textOnly /\ (step.tools \/ DeliveryReady) ->
            [s EXCEPT !.flags.streak = 0, !.flags.demanded = FALSE]
       [] OTHER -> s

VerifiedEnd(s) == [s EXCEPT !.flags.verified = TRUE, !.debt = 0]
Corrected(s)   == [s EXCEPT !.flags.notified = TRUE, !.debt = @ + 1]

\* Where the graph decides.
ControlledVerdict(s) ==
  LET completion == EvaluateCompletion(goal, task, step.tools) IN
  CASE completion = "Complete" /\ DeliveryReady -> VerifiedEnd(s)
    [] completion # "Continue" /\ ~DeliveryReady /\ ~s.flags.hard -> Corrected(s)
    [] OTHER -> s

\* Where the budget and the judge of completion decide.
OpenVerdict(s) ==
  LET completion == JudgeCompletion(exec, task, s.budget, step.tools)
      used == [s EXCEPT !.flags.window = TRUE]
  IN IF BudgetPhase(exec, s.budget) = "Exhausted"
     THEN CASE CanRenew(s.budget) ->
                 [used EXCEPT !.budget = ExtendWindow(@), !.flags.converged = FALSE]
            [] ~CanRenew(s.budget) /\ ~s.budget.final ->
                 [used EXCEPT !.budget = ArmFinalWindow(exec, @)]
            [] OTHER -> used
     ELSE CASE completion = "Converge" /\ ~s.flags.converged ->
                 [s EXCEPT !.flags.converged = TRUE,
                           !.debt = IF s.flags.hard THEN @ ELSE @ + 1]
            [] completion = "Complete" /\ (task.open \/ CanConclude(goal, task)) ->
                 VerifiedEnd(s)
            [] completion = "Complete" /\ ~(task.open \/ CanConclude(goal, task))
               /\ ~s.flags.notified /\ ~s.flags.hard -> Corrected(s)
            [] OTHER -> s

Verdict(s) ==
  IF \/ s.flags.demanded /\ ~s.flags.stalled /\ s.flags.streak >= 2
     \/ s.flags.stalled \/ Recovering \/ step.claim
  THEN s
  ELSE IF Controlled THEN ControlledVerdict(s) ELSE OpenVerdict(s)

\* The governor at the end of a step: a window without gain costs a frame of
\* its stack, and at the bottom the turn.  The anchors of the log are a gain
\* as well as writes; over: the turn is terminated.
Observed(over) ==
  LET Window(n) == [frames |-> n, step |-> exec.steps, writes |-> exec.writes]
      full == governed /\ exec.steps - gov.step >= WindowSteps
      lost == full /\ exec.writes = gov.writes
  IN  \/ ~full /\ ~over /\ gov' = gov
      \/ full /\ ~over /\ gov' = Window(gov.frames)
      \/ lost /\ ~over /\ gov.frames > 1 /\ gov' = Window(gov.frames - 1)
      \/ lost /\ over /\ gov.frames = 1 /\ gov' = gov

EndStep ==
  LET owed == Owed([flags  |-> [flags EXCEPT !.answered = @ \/ step.text # None],
                    debt   |-> debt,
                    budget |-> budget])
      last == Verdict(TextGuard(Monitored(owed), owed.flags.hard))
  IN  /\ pc = "boundary"
      /\ flags' = last.flags /\ debt' = last.debt /\ budget' = last.budget
      /\ step' = FreshStep /\ batch' = <<>>
      /\ \E over \in BOOLEAN :
           Observed(over) /\ pc' = IF over \/ last.debt = 0 THEN "exit" ELSE "request"
      /\ UNCHANGED <<task, governed, disk, base, goal, exec, outcome, ckpt, turn, views, stamp>>

---------------------------------------------------------------------------
(* The end of a turn *)

StopCause(e) ==
  CASE flags.cancelled -> "UserCancelled"
    [] ~flags.cancelled /\ flags.provider -> "ProviderError"
    [] ~flags.cancelled /\ ~flags.provider /\ flags.verified -> "Settled"
    [] OTHER ->
       IF flags.stalled
       THEN IF flags.baseline THEN "BaselineVerifiedWithoutChange" ELSE "NoProgressStall"
       ELSE IF e.changed # {} THEN "Settled"
       ELSE IF flags.ceiling THEN "HardBudgetCeiling"
       ELSE IF flags.hard THEN "HardStop"
       ELSE IF flags.window THEN "BudgetWindowExhausted" ELSE "Abnormal"

\* What a turn may do again later: the files of each criterion that was
\* satisfied, and what is left of the budget.
Saturating(a, b) == IF a < b THEN 0 ELSE a - b
TaskCheckpoint(e) ==
  LET satisfied == {i \in Items : CriterionVerdict(e, task, i) \in {"Verified", "Investigated"}}
  IN  [verified |-> satisfied,
       files |-> [i \in Items |-> IF i \notin satisfied THEN {}
                                  ELSE IF goal.items[i].cands # {} THEN goal.items[i].cands
                                  ELSE goal.confirmed],
       disk  |-> disk,
       steps |-> Saturating(budget.hardSteps, e.steps),
       calls |-> Saturating(budget.hardCalls, e.calls)]

Deliver ==
  LET touched == {f \in Files : base[f] # Untouched}
      net     == \E f \in touched : disk[f] # base[f]
      rejected == IF touched = {} THEN exec ELSE RejectReverted(exec, task, net)
      e   == RecordDirectAnswer(rejected, task, flags.answered)
      raw == DeliveryOutcome(e, task, StopCause(e))
      kept == IF governed /\ raw \notin {"Verified", "Cancelled"} THEN "PartialDelivery" ELSE raw
  IN
  /\ pc = "exit" /\ pc' = "end"
  /\ exec' = e
  /\ outcome' = IF kept = "Verified" /\ ~CanComplete(e, task) THEN "PartialDelivery" ELSE kept
  /\ ckpt' = TaskCheckpoint(e)
  /\ stamp' = [stamp EXCEPT !.proof = [i \in Items |->
                 IF CriterionVerdict(e, task, i) = "Investigated" THEN stamp.total
                 ELSE stamp.proof[i]]]
  /\ UNCHANGED <<task, governed, disk, base, goal, budget, debt, flags, step, batch, gov,
                 turn, views>>

\* What only the turn knew is gone with it.
FreshTurn ==
  /\ budget' = NewBudget(HardSteps, HardCalls) /\ flags' = FreshFlags /\ step' = FreshStep
  /\ base' = [f \in Files |-> Untouched] /\ batch' = <<>> /\ debt' = 1
  /\ gov' = [frames |-> Frames, step |-> 0, writes |-> 0]

TurnEnd ==
  /\ pc = "end" /\ pc' = "done"
  /\ goal' = FromContract /\ exec' = NewFacts({}) /\ FreshTurn
  /\ UNCHANGED <<task, governed, disk, outcome, ckpt, turn, views, stamp>>

---------------------------------------------------------------------------
(* The turn that resumes the task *)

Resumable == outcome \in {"PartialDelivery", "SystemFailure", "Interrupted"}

\* Mutant: the report is taken over as it is.
RestoredBlindly(now) == ckpt.verified

\* What is taken over from the report: of a change, the criteria whose files
\* are as they were at the checkpoint.
Restored(now) ==
  IF task.outcome # "Change" THEN ckpt.verified
  ELSE {i \in ckpt.verified : /\ ckpt.files[i] # {}
                              /\ \A f \in ckpt.files[i] : now[f] = ckpt.disk[f]}

\* A read of the log is shown to the graph again.
Replay(g, f, expected) ==
  LET c   == [tool |-> "read", file |-> f]
      sup == Supports(g, task, c, {})
      r   == [NoResult EXCEPT !.ok = TRUE, !.expected = expected]
  IN  IF HasActionSpec(g, task, c, sup)
      THEN RecordResult(g, task, c, sup, OfVerifyPhase(g, task, c, sup), r) ELSE g

\* The reads of the log that still show the file's content are replayed, each
\* as often as it was made (MaxReads is 2).
ResumeFrontier(g, now, expected) ==
  LET order == SetToSeq(Files)
      replayed[n \in 0 .. Cardinality(Files)] ==
        IF n = 0 THEN g
        ELSE LET f == order[n]
                 once == Replay(replayed[n - 1], f, expected)
             IN  CASE views[f][now[f]] = 0 -> replayed[n - 1]
                   [] views[f][now[f]] = 1 -> once
                   [] OTHER -> Replay(once, f, expected)
  IN  replayed[Cardinality(Files)]

\* Mutant: the turn gets a full budget.
ResumeBudgetFull(b) == b

\* The hard budget is what the task has left.
ResumeBudget(b) == [b EXCEPT !.hardSteps = Lower(@, ckpt.steps),
                             !.hardCalls = Lower(@, ckpt.calls)]

\* In between, the user may have changed the files.
Resume ==
  /\ pc = "done" /\ Resumable /\ turn < MaxTurns
  /\ disk' \in [Files -> Contents]
  /\ exec' = NewFacts(Restored(disk'))
  /\ \E found \in SUBSET Files, sure \in BOOLEAN, expected \in {FALSE, task.idempotent} :
       goal' = ResumeFrontier(ApplyGrounding(FromContract, found, sure), disk', expected)
  /\ budget' = ResumeBudget(budget)
  /\ pc' = "gate" /\ outcome' = None /\ turn' = turn + 1
  /\ UNCHANGED <<task, governed, base, debt, flags, step, batch, gov, ckpt, views, stamp>>

---------------------------------------------------------------------------

\* What the model answers to a request.
Reply ==
  \/ \E calls \in BoundedSeq(Calls, MaxBatch), advised \in BOOLEAN, blocked \in SUBSET Calls :
       calls # <<>> /\ blocked \subseteq ToSet(calls) /\ CallReply(calls, advised, blocked)
  \/ \E t \in Texts, empty \in {None} \cup DOMAIN EmptyRetries : TextReply(t.text, t.claim, empty)
  \/ \E empty \in DOMAIN EmptyRetries : TextReply(None, FALSE, empty)
  \/ MalformedCalls

BeforeRequest == Begin \/ RenewPrompt \/ PromptExhausted \/ BudgetHit \/ StartStep
AfterReply == RecordBatch \/ EndStream \/ EndStep \/ Deliver \/ TurnEnd

AgentNext ==
  \/ Clarify \/ BeforeRequest \/ Reply
  \/ Cancel \/ ProviderError \/ HookFails
  \/ \E k \in 1 .. Len(batch) : Execute(k)
  \/ AfterReply \/ Resume

\* The loop runs on; the model's stream and every tool call are under a
\* timeout, so that each of them comes to an end.
AgentFairness ==
  WF_vars(BeforeRequest \/ Reply \/ (\E k \in 1 .. Len(batch) : Execute(k)) \/ AfterReply)

AgentSpec == AgentInit /\ [][AgentNext]_vars /\ AgentFairness

---------------------------------------------------------------------------
(* Properties *)

AgentTypeOK ==
  /\ task \in Tasks /\ governed \in Governors
  /\ disk \in [Files -> Contents] /\ base \in [Files -> Contents \cup {Untouched}]
  /\ goal \in Graphs /\ exec \in Facts
  /\ pc \in {"gate", "request", "stream", "dispatch", "tail", "boundary",
             "exit", "end", "done", "failed"}
  /\ debt \in 0 .. exec.steps + 1 /\ turn \in 1 .. MaxTurns
  /\ pc \in {"stream", "dispatch", "tail", "boundary"} => debt < exec.steps
  /\ Len(batch) <= MaxBatch
  /\ gov.frames \in 1 .. Frames
  /\ ckpt.verified \subseteq Items /\ ckpt.steps \in 0 .. HardSteps

\* A delivery is Verified only when the turn was neither cancelled nor broken
\* off by the provider, every item has evidence, and what a change has
\* written is still a difference of the workspace (evaluate_delivery, reject_reverted_workspace_delivery).
VerifiedIsProven ==
  pc = "end" /\ outcome = "Verified" =>
    /\ ~flags.cancelled /\ ~flags.provider
    /\ RequiresVerification(exec, task) => exec.verified = Items
    /\ RequiresWorkspaceChange(task) =>
         /\ turn = 1 => exec.writes > 0
         /\ exec.writes > 0 => \E f \in Files : base[f] # Untouched /\ disk[f] # base[f]

\* Evidence is never older than the last counted write, in this turn or in an
\* earlier one of the task (record_tool_result_observed clears it).
EvidenceNotOlder == \A i \in exec.verified : stamp.proof[i] >= stamp.wrote

\* A task is not given more steps by being resumed (TaskCheckpoint's
\* remaining_steps), however often its turns end without a result.
BudgetConserved == stamp.total <= HardSteps

\* Evidence that is taken over from an earlier turn is still of the files as
\* they are, until the turn writes (validated_resume_report).
ResumedEvidenceCurrent ==
  turn > 1 /\ pc \notin {"end", "done"} /\ task.outcome = "Change"
    /\ (\A f \in Files : base[f] = Untouched) =>
      \A i \in exec.verified : \/ stamp.proof[i] > HardSteps - ckpt.steps
                               \/ \A f \in ckpt.files[i] : disk[f] = ckpt.disk[f]

\* The safety of the facts: they are of their type, and no evidence in them is
\* stale, whichever turn it is of.
FactsSafety == AgentTypeOK /\ EvidenceNotOlder /\ ResumedEvidenceCurrent

\* After a cancel or an error of the provider no further request is made in
\* the turn, whatever the judgements at the end of the step say.
NoRequestAfterEnd ==
  [][flags.cancelled \/ flags.provider => pc' # "stream"]_vars

\* Every turn ends with its TurnEnd, unless the hook failed: no judgement
\* keeps a turn alive for ever.
TurnEnds == (pc = "gate") ~> (pc \in {"done", "failed"})

\* What the comments say and the code does not do.

\* An answer is accepted for the sources that were read (the comment of
\* verdict_for): some tool has given a result.
AnswerIsRead ==
  pc = "end" /\ outcome = "Verified" /\ ReadOnly(task) => exec.successes > 0

\* A resumed turn is not stopped by the hard budget before its first step
\* (the comment of restore_verified_criteria).
ResumeCanStep == ~(turn > 1 /\ pc = "exit" /\ flags.ceiling /\ exec.steps = 0)

\* After a hard stop there is no further request (the comment before the
\* debt of a step is taken).
HardStopIsFinal == [][flags.hard => pc' # "stream"]_vars

\* The graph has no next action only when the facts cover the delivery
\* (the comment of record_static_verification).
NoDeadZone ==
  pc = "request" /\ Controlled /\ ~ReadOnly(task) /\ CanConclude(goal, task) =>
    CanComplete(exec, task)
=============================================================================
