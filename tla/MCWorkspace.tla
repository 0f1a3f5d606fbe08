---------------------------- MODULE MCWorkspace -----------------------------
(***************************************************************************)
(* TLC instance of what the turns of a workspace share: the graph of their *)
(* tasks with its refinement of TaskContract, the token allowance, and the *)
(* rate limiter.  They share no state: part says whose behaviour this is.  *)
(***************************************************************************)
EXTENDS DurableDagContract, BudgetWave, RateLimiter, TLC

CONSTANTS t1, t2, t3

\* One task may be retried once, the others never.
MCMaxRetries == t1 :> 1 @@ t2 :> 0 @@ t3 :> 0

WorkspaceSymmetry == Permutations(Workers) \cup Permutations(Turns)

\* A small request, a large one, and one that never fits.
SomeCosts == [c \in Askers |-> CASE c = "small" -> 1 [] c = "large" -> 3 [] c = "huge" -> 4]
SomeDelays == <<1, 2>>

VARIABLE part

WorkspaceInit == part \in {"dag", "budget", "limiter"} /\ DagInit /\ BudgetInit /\ LimiterInit

WorkspaceNext ==
  \/ part = "dag" /\ DagNext /\ UNCHANGED <<vars, limiterVars, part>>
  \/ part = "budget" /\ BudgetNext /\ UNCHANGED <<dagVars, limiterVars, part>>
  \/ part = "limiter" /\ LimiterNext /\ UNCHANGED <<dagVars, vars, part>>

WorkspaceSpec == WorkspaceInit /\ [][WorkspaceNext]_<<dagVars, vars, limiterVars, part>>
=============================================================================
