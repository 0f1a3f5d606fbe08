----------------------------- MODULE CouncilDag -----------------------------
(***************************************************************************)
(* The expert council: one turn that runs a graph of tasks, up to          *)
(* MaxParallel at a time, each by an expert (a model with or without       *)
(* tools) or, where that is enough, by a local check; it retries what      *)
(* fails, and delivers what its gates say.                                 *)
(*                                                                         *)
(* The scheduler is one coroutine: it starts what can start, then waits    *)
(* for the first task to come back.  The user may cancel at any time.  An  *)
(* expert that is silent for too long is cut off; a command it has started *)
(* lives on, and may still write.                                          *)
(***************************************************************************)
EXTENDS Integers, FiniteSets, SequencesExt

CONSTANTS
  Classes,        \* the classes of goals that are tried
  MaxParallel,
  MaxAttempts,    \* regular attempts of a task
  MaxFailures,    \* class -> bound on the attempts that fail, in all
  MaxEdits        \* class -> bound on the writes to the implementation

ASSUME CouncilAssumption ==
  /\ Classes \subseteq {"analysis", "small", "standard", "high"}
  /\ MaxParallel \in 1 .. 8 /\ MaxAttempts \in Nat \ {0}
  /\ MaxFailures \in [Classes -> Nat] /\ MaxEdits \in [Classes -> Nat]

Node(deps, scopes) == [deps |-> deps, scopes |-> scopes]

\* Mutant: testing does not wait for the implementation.
ChangeAtOnce ==
  [implementation |-> Node({}, {"workspace"}),
   testing        |-> Node({}, {}),
   delivery       |-> Node({"testing", "implementation"}, {})]

\* dynamic_plan_for_class
Change ==
  [implementation |-> Node({}, {"workspace"}),
   testing        |-> Node({"implementation"}, {}),
   delivery       |-> Node({"testing"}, {})]

Plan == [
  analysis |-> [analysis |-> Node({}, {}), delivery |-> Node({"analysis"}, {})],
  small    |-> Change,
  standard |-> Change,
  high     |-> [requirements   |-> Node({}, {}),
                risk           |-> Node({}, {}),
                design         |-> Node({}, {}),
                implementation |-> Node({"design"}, {"workspace"}),
                review         |-> Node({"implementation"}, {}),
                testing        |-> Node({"implementation"}, {"tests"}),
                delivery       |-> Node({"requirements", "risk", "review", "testing"}, {})]]

\* Candidates are tried in the order of their names.
ByName == <<"analysis", "delivery", "design", "implementation",
            "requirements", "review", "risk", "testing">>

VARIABLES
  class,      \* of the goal
  task,       \* task -> [st, attempt, checked, resumed, verdict]
  failure,    \* hard_failure
  progress,   \* made_local_progress
  stopped,    \* the token of the turn
  phase,      \* "loop", "idle", "select", "gates", "over"
  outcome,    \* "none", "verified", "failed", "cancelled", "blocked"
  reported,   \* a Delivery was appended
  failures,   \* attempts that have failed
  stray,      \* a command of the implementation outlives its expert
  edits,      \* writes to the implementation
  tested      \* edits when testing came back

councilVars == <<class, task, failure, progress, stopped, phase, outcome, reported,
                 failures, stray, edits, tested>>

FreshTask == [st |-> "pending", attempt |-> 0, checked |-> FALSE, resumed |-> FALSE,
              verdict |-> "none"]

CouncilInit ==
  /\ class \in Classes
  /\ task = [t \in DOMAIN Plan[class] |-> FreshTask]
  /\ failure = FALSE /\ progress = FALSE /\ stopped = FALSE
  /\ phase = "loop" /\ outcome = "none" /\ reported = FALSE
  /\ failures = 0 /\ stray = FALSE /\ edits = 0 /\ tested = 0

Fast == class = "small"
NodeOf(t) == Plan[class][t]
Tasks == DOMAIN task

\* A task is in the hands of an expert, or of the local check.
InFlight(ts, t) == ts[t].st \in {"working", "checking"}
Running(ts) == {t \in DOMAIN ts : InFlight(ts, t)}

\* task_has_passed: the summary is there, has no blocker and says PASS.
Passed(ts, t) == ts[t].st = "done" /\ ts[t].verdict = "pass"

\* scopes_overlap
Overlap(a, b) == a # {} /\ b # {} /\ ("workspace" \in a \cup b \/ a \cap b # {})

----------------------------------------------------------------------------
(* Starting tasks *)

\* Mutant: a dependency that has run is enough.
CandidateEarly(t) ==
  /\ task[t].st \in {"pending", "ready"}
  /\ \A d \in NodeOf(t).deps : task[d].st # "pending"

Candidate(t) ==
  /\ task[t].st \in {"pending", "ready"}
  /\ \A d \in NodeOf(t).deps : task[d].st = "done"

Done(rec, verdict) == [rec EXCEPT !.st = "done", !.checked = TRUE, !.verdict = verdict]

\* local_delivery_summary: PASS when all the others have passed.
LocalDelivery(ts) ==
  Done(ts["delivery"],
       IF \A u \in DOMAIN ts \ {"delivery"} : Passed(ts, u) THEN "pass" ELSE "fail")

\* Mutant: one expert more.
FullLate(ts) == Cardinality(Running(ts)) > MaxParallel

Full(ts) == Cardinality(Running(ts)) >= MaxParallel

Checking(rec) == [rec EXCEPT !.st = "checking", !.checked = TRUE]
Working(rec, checked) ==
  [rec EXCEPT !.st = "working", !.attempt = rec.attempt + 1, !.checked = checked]

\* One candidate: a small plan's delivery and a low-risk review are done on the
\* spot, testing goes to the local check first, and the rest to an expert.
Started(s, t, lowRisk) ==
  LET rec == s.task[t]
      conflicts == \E r \in Running(s.task) : Overlap(NodeOf(t).scopes, NodeOf(r).scopes)
      locally == \/ t = "delivery" /\ Cardinality(Tasks) <= 3
                 \/ t = "review" /\ lowRisk
      now == IF t = "review" THEN Done(rec, "pass") ELSE LocalDelivery(s.task)
      with(r, moved) == [task |-> [s.task EXCEPT ![t] = r], progress |-> moved]
  IN  IF Full(s.task) \/ conflicts THEN s
      ELSE IF ~rec.checked /\ locally THEN with(now, TRUE)
      ELSE IF ~rec.checked /\ t = "testing" THEN with(Checking(rec), s.progress)
      ELSE with(Working(rec, rec.checked \/ t = "review"), s.progress)

\* One pass over the names.  The candidates are those of its start: what it
\* finishes locally does not release others before the next one.
Pass(lowRisk) ==
  LET pass[i \in 0 .. Len(ByName)] ==
        IF i = 0 THEN [task |-> task, progress |-> progress]
        ELSE IF ByName[i] \in Tasks /\ Candidate(ByName[i])
             THEN Started(pass[i - 1], ByName[i], lowRisk)
             ELSE pass[i - 1]
  IN  pass[Len(ByName)]

StartAll ==
  /\ phase = "loop" /\ ~stopped
  /\ \E lowRisk \in BOOLEAN :
       LET s == Pass(lowRisk)
       IN  /\ task' = s.task /\ progress' = s.progress
           /\ phase' = IF Running(s.task) = {} THEN "idle" ELSE "select"
  /\ UNCHANGED <<class, failure, stopped, outcome, reported, failures, stray, edits, tested>>

----------------------------------------------------------------------------
(* The loop *)

Ended(how, report) == outcome' = how /\ reported' = report /\ phase' = "over"

\* The top of the loop sees a cancellation before anything is started.
SeeCancel ==
  /\ phase = "loop" /\ stopped
  /\ task' = [t \in Tasks |-> IF task[t].st = "done" THEN task[t]
                              ELSE [task[t] EXCEPT !.st = "cancelled"]]
  /\ Ended("cancelled", TRUE)
  /\ UNCHANGED <<class, failure, progress, stopped, failures, stray, edits, tested>>

\* Nothing runs: look again if something was finished locally.
LookAgain ==
  /\ phase = "idle" /\ progress
  /\ progress' = FALSE /\ phase' = "loop"
  /\ UNCHANGED <<class, task, failure, stopped, outcome, reported, failures, stray, edits, tested>>

AllDone ==
  /\ phase = "idle" /\ ~progress
  /\ \A t \in Tasks : task[t].st = "done"
  /\ phase' = "gates"
  /\ UNCHANGED <<class, task, failure, progress, stopped, outcome, reported,
                 failures, stray, edits, tested>>

\* Blocked: the turn ends, and no Delivery is appended.
Blocked ==
  /\ phase = "idle" /\ ~progress
  /\ \E t \in Tasks : task[t].st # "done"
  /\ Ended("blocked", FALSE)
  /\ UNCHANGED <<class, task, failure, progress, stopped, failures, stray, edits, tested>>

\* The select! wakes up for the cancellation.
WakeForCancel ==
  /\ phase = "select" /\ stopped
  /\ phase' = "loop"
  /\ UNCHANGED <<class, task, failure, progress, stopped, outcome, reported,
                 failures, stray, edits, tested>>

\* The timer of three seconds, for the signs of life of the experts.
Heartbeat ==
  /\ phase = "select"
  /\ phase' = "loop"
  /\ UNCHANGED <<class, task, failure, progress, stopped, outcome, reported,
                 failures, stray, edits, tested>>

\* Mutant: a check that fails is tried again.
CheckedLocallyAgain(ok) ==
  /\ phase = "select" /\ "testing" \in Running(task) /\ task["testing"].st = "checking"
  /\ LET rec == task["testing"]
     IN  task' = [task EXCEPT !["testing"] = IF ok THEN Done(rec, "pass")
                                             ELSE [rec EXCEPT !.st = "ready", !.checked = FALSE]]
  /\ progress' = TRUE /\ phase' = "loop"
  /\ tested' = IF ok THEN edits ELSE tested
  /\ UNCHANGED <<class, failure, stopped, outcome, reported, failures, stray, edits>>

\* Mutant: a check that fails is the end of testing.
CheckedLocallyForGood(ok) ==
  /\ phase = "select" /\ "testing" \in Running(task) /\ task["testing"].st = "checking"
  /\ LET rec == task["testing"]
     IN  task' = [task EXCEPT !["testing"] = IF ok THEN Done(rec, "pass")
                                             ELSE [rec EXCEPT !.st = "failed"]]
  /\ progress' = TRUE /\ phase' = "loop"
  /\ tested' = IF ok THEN edits ELSE tested
  /\ UNCHANGED <<class, failure, stopped, outcome, reported, failures, stray, edits>>

\* The local check of testing: passed, or left to an expert.
CheckedLocally(ok) ==
  /\ phase = "select" /\ "testing" \in Running(task) /\ task["testing"].st = "checking"
  /\ LET rec == task["testing"]
     IN  task' = [task EXCEPT !["testing"] = IF ok THEN Done(rec, "pass")
                                             ELSE [rec EXCEPT !.st = "ready"]]
  /\ progress' = TRUE /\ phase' = "loop"
  /\ tested' = IF ok THEN edits ELSE tested
  /\ UNCHANGED <<class, failure, stopped, outcome, reported, failures, stray, edits>>

\* An answer that is accepted, with what it says.
ExpertAnswers(t, verdict) ==
  /\ phase = "select" /\ task[t].st = "working"
  /\ task' = [task EXCEPT ![t].st = "done", ![t].verdict = verdict]
  /\ tested' = IF t = "testing" THEN edits ELSE tested
  /\ phase' = "loop"
  /\ UNCHANGED <<class, failure, progress, stopped, outcome, reported, failures, stray, edits>>

\* Mutant: the last resumption is not remembered.
AfterFailureResumed(rec) ==
  IF rec.attempt < MaxAttempts \/ ~Fast THEN [rec EXCEPT !.st = "ready"]
  ELSE [rec EXCEPT !.st = "failed"]

\* Two attempts, and one more from the node that failed unless it is a small goal.
AfterFailure(rec) ==
  IF rec.attempt < MaxAttempts THEN [rec EXCEPT !.st = "ready"]
  ELSE IF ~Fast /\ ~rec.resumed THEN [rec EXCEPT !.st = "ready", !.resumed = TRUE]
  ELSE [rec EXCEPT !.st = "failed"]

\* An error, a silence or an answer that is not accepted; the future of an
\* expert that was cut off is dropped, its command is not.
ExpertFails(t, cut) ==
  /\ phase = "select" /\ task[t].st = "working"
  /\ failures < MaxFailures[class] /\ failures' = failures + 1
  /\ task' = [task EXCEPT ![t] = AfterFailure(task[t])]
  /\ failure' = (failure \/ AfterFailure(task[t]).st = "failed")
  /\ stray' = (stray \/ (t = "implementation" /\ cut))
  /\ phase' = "loop"
  /\ UNCHANGED <<class, progress, stopped, outcome, reported, edits, tested>>

\* Mutant: Done is enough.
GatesOfDone == \A t \in Tasks : task[t].st = "done"

\* evaluate_gates: the four of them come down to every task having passed.
Gates == \A t \in Tasks : Passed(task, t)

EvaluateGates ==
  /\ phase = "gates"
  /\ Ended(IF Gates THEN "verified" ELSE "failed", TRUE)
  /\ UNCHANGED <<class, task, failure, progress, stopped, failures, stray, edits, tested>>

----------------------------------------------------------------------------
(* The user and the experts *)

UserCancels ==
  /\ phase # "over" /\ ~stopped
  /\ stopped' = TRUE
  /\ UNCHANGED <<class, task, failure, progress, phase, outcome, reported, failures, stray, edits, tested>>

\* The scope of a task is a sentence of its prompt; experts are taken to obey it.
Edit ==
  /\ edits < MaxEdits[class]
  /\ phase = "select" /\ "implementation" \in Tasks
  /\ stray \/ task["implementation"].st = "working"
  /\ edits' = edits + 1
  /\ UNCHANGED <<class, task, failure, progress, stopped, phase, outcome, reported,
                 failures, stray, tested>>

Scheduler ==
  \/ SeeCancel \/ StartAll \/ LookAgain \/ AllDone \/ Blocked
  \/ WakeForCancel \/ EvaluateGates

\* What wakes the scheduler up: every attempt has its timers.
Returns ==
  \/ \E ok \in BOOLEAN : CheckedLocally(ok)
  \/ \E t \in Tasks : \/ \E v \in {"pass", "fail"} : ExpertAnswers(t, v)
                      \/ \E cut \in BOOLEAN : ExpertFails(t, cut)

CouncilNext == Scheduler \/ Heartbeat \/ Returns \/ UserCancels \/ Edit

\* An expert that has come back is polled in the end, however often the timer
\* is faster.

CouncilSpec ==
  /\ CouncilInit /\ [][CouncilNext]_councilVars
  /\ WF_councilVars(Scheduler) /\ SF_councilVars(Returns)

----------------------------------------------------------------------------
(* Properties *)

Attempts == MaxAttempts + IF Fast THEN 0 ELSE 1

CouncilTypeOK ==
  /\ class \in Classes /\ Tasks = DOMAIN Plan[class]
  /\ \A t \in Tasks :
       /\ task[t].st \in {"pending", "ready", "working", "checking", "done", "failed", "cancelled"}
       /\ task[t].verdict \in {"none", "pass", "fail"}
       /\ task[t].verdict # "none" <=> task[t].st = "done"
  /\ Cardinality(Running(task)) <= MaxParallel
  /\ phase \in {"loop", "idle", "select", "gates", "over"}
  /\ phase = "select" => Running(task) # {}
  /\ (phase = "over") = (outcome # "none")

\* A node is tried as often as it may be and no more, and it is given up only
\* then, whichever way its attempts fail; the local check is not an attempt.
AttemptsCounted ==
  \A t \in Tasks : /\ task[t].attempt <= Attempts
                   /\ task[t].st = "failed" => task[t].attempt = Attempts

\* No node is started before those it depends on have come back for good: what
\* it is told of them is what they say.
DependenciesFirst ==
  \A t \in Tasks : InFlight(task, t) \/ task[t].st = "done" =>
    \A d \in NodeOf(t).deps : task[d].st = "done"

\* The graph is given up only after a node has failed for good: the moment in
\* which nothing runs, because the last node was finished or rejected locally, is
\* not taken for a graph without a way on (the comments at council.rs:137 and 397).
BlockedHasCause ==
  outcome = "blocked" => failure /\ \E t \in Tasks : task[t].st = "failed"

\* What is delivered as verified has passed in every node, in the order of the
\* graph, and without a node that has failed for good on the way.
VerifiedHasPassed ==
  outcome = "verified" =>
    /\ \A t \in Tasks : task[t].verdict = "pass" /\ \A d \in NodeOf(t).deps : task[d].verdict = "pass"
    /\ ~failure

\* Testing has looked at what is delivered, if no command of the implementation
\* outlived the expert that had started it.
TestedIsDelivered ==
  outcome = "verified" /\ "testing" \in Tasks /\ ~stray => tested = edits

\* The safety of the council: nodes in the order of the graph, as often as they
\* may, as many as there are experts; an outcome has its reason in the nodes, and
\* what is delivered as verified was tested.
CouncilSafety ==
  /\ CouncilTypeOK /\ AttemptsCounted /\ DependenciesFirst
  /\ BlockedHasCause /\ VerifiedHasPassed /\ TestedIsDelivered

\* The council comes to its end, whatever the experts say or fail to say.
CouncilEnds == <>(phase = "over")
=============================================================================
