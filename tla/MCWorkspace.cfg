\* The graph: three tasks, two workers, two clock values; 1 + 2 exceeds MaxMs, so
\* leases saturate; a zero Ttl is offered and refused.  The allowance: two turns
\* of two surfaces, one failing save, one crash; 4 exceeds allowance and burst.
\* The limiter: three callers over two ticks, the longest wait.
CONSTANTS
  t1 = t1
  t2 = t2
  t3 = t3
  Tasks = {t1, t2, t3}
  Workers = {w1, w2}
  NoWorker = NoWorker
  MaxRetries <- MCMaxRetries
  Times = {0, 1}
  Ttls = {0, 1, 2}
  Levels = {50}
  MaxMs = 2
  Turns = {u1, u2}
  Surfaces = {s1, s2}
  Nobody = Nobody
  Total = 3
  Burst = 3
  Estimates = {1, 2, 4}
  CrashInRename = FALSE
  MaxGroups = 2
  MaxErrors = 1
  MaxCrashes = 1
  Askers = {"small", "large", "huge"}
  Cost <- SomeCosts
  Scale = 5
  RequestRate = 6
  TokenRate = 8
  RequestBurst = 2
  TokenBurst = 3
  Delay <- SomeDelays
  MaxClock = 2
SYMMETRY WorkspaceSymmetry
\* When every task is terminal, or every turn is gone, nothing is left to do.
CHECK_DEADLOCK FALSE
SPECIFICATION WorkspaceSpec
INVARIANTS DagSafety BatchNeverStale BudgetSafety ExhaustedIsFinal LimiterSafety
PROPERTIES ProgressAndCheckpointKept ImplementsContract WaveJoined WaitIsEnough
