\* One crash.
CONSTANTS
  t1 = t1
  t2 = t2
  Tasks = {t1, t2}
  Workers <- MCWorkers
  NoWorker = 0
  MaxRetries <- MCMaxRetries
  Times = {0}
  Ttls = {3}
  Levels = {0}
  MaxMs = 3
  Ttl = 3
  Interval = 1
  ClaimDelays = {1}
  Timely = TRUE
  MayDrop = FALSE
  MaxErrors = 0
  MaxCrashes = 1
CHECK_DEADLOCK FALSE
SPECIFICATION TurnSpec
PROPERTIES
  DeadTurnReleased
