----------------------------- MODULE MCTurnEnds -----------------------------
(***************************************************************************)
(* TLC instance of what must come to an end: the agent loop of a turn, and *)
(* the durable turn around it, with two turns, nothing that fails, and a   *)
(* lease of three units that a heartbeat renews every unit.  The two share *)
(* no state here: part says whose behaviour this is.                       *)
(***************************************************************************)
EXTENDS MCAgentLoop

CONSTANTS t1, t2

VARIABLES
  part,
  deps, status, owner, lease, retries, progress, saved, refreshing, reaping, retrying,
  pid, turnPc, turnOutcome, beating, due, sweeping, published, errors

leaseVars ==
  <<deps, status, owner, lease, retries, progress, saved, refreshing, reaping, retrying,
    pid, turnPc, turnOutcome, beating, due, sweeping, published, errors>>
allVars == <<vars, leaseVars, part>>

MCTurns2 == {t1, t2}

Lease == INSTANCE TurnLease WITH
  Tasks <- MCTurns2, pc <- turnPc, outcome <- turnOutcome,
  Workers <- {1}, NoWorker <- 0, MaxRetries <- [t \in MCTurns2 |-> IF t = t1 THEN 1 ELSE 0],
  Times <- {0}, Ttls <- {3}, Levels <- {0}, MaxMs <- 3, Ttl <- 3, Interval <- 1,
  ClaimDelays <- {1}, Timely <- TRUE, MayDrop <- FALSE, MaxErrors <- 0, MaxCrashes <- 0

\* Where the durable turns are looked at, the agent loop is over.
AgentOver ==
  /\ governed = FALSE /\ task = (CHOOSE k \in Tasks : TRUE)
  /\ disk = [f \in Files |-> 0] /\ base = [f \in Files |-> Untouched]
  /\ goal = ApplyGrounding(FromContract, {}, TRUE)
  /\ exec = NewFacts({}) /\ budget = NewBudget(HardSteps, HardCalls)
  /\ pc = "done" /\ debt = 0 /\ flags = FreshFlags /\ step = FreshStep /\ batch = <<>>
  /\ gov = [frames |-> Frames, step |-> 0, writes |-> 0]
  /\ outcome = None /\ turn = MaxTurns
  /\ ckpt = 0 /\ views = 0 /\ stamp = 0

EndsInit ==
  /\ Lease!TurnInit
  /\ \/ part = "agent" /\ AgentInit
     \/ part = "lease" /\ AgentOver

InAgent == part = "agent" /\ UNCHANGED <<leaseVars, part>>
InLease == part = "lease" /\ UNCHANGED <<vars, part>>

EndsNext ==
  \/ part = "agent" /\ AgentNext /\ InAgent
  \/ part = "lease" /\ Lease!TurnNext /\ InLease

\* The fairness of AgentFairness and of TurnFairness.
AgentRunsOn ==
  BeforeRequest \/ Reply \/ (\E k \in 1 .. Len(batch) : Execute(k)) \/ AfterReply

EndsSpec ==
  /\ EndsInit /\ [][EndsNext]_allVars
  /\ WF_allVars(part = "agent" /\ AgentRunsOn /\ InAgent)
  /\ \A t \in MCTurns2 : /\ WF_allVars(part = "lease" /\ Lease!TurnStep(t) /\ InLease)
                         /\ WF_allVars(part = "lease" /\ Lease!HeartbeatStep(t) /\ InLease)
  /\ WF_allVars(part = "lease" /\ Lease!RefreshStep /\ InLease)
  /\ WF_allVars(part = "lease" /\ Lease!Watch /\ InLease)
  /\ WF_allVars(part = "lease" /\ Lease!Tick /\ InLease)

\* A submitted turn is settled for good (TurnLease).
SubmittedSettles == Lease!SubmittedSettles

\* A published artifact becomes the result of its task (TurnLease).
PublishedSucceeds == Lease!PublishedSucceeds
=============================================================================
