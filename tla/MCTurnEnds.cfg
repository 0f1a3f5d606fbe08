\* Answers of two items to two turns of the loop; two durable turns.
CONSTANTS
  t1 = t1
  t2 = t2
  Items = {1, 2}
  Files = {"a"}
  DependsOn <- NoDeps
  Risk <- LowRisk
  MaxParallel = 2
  Tasks <- AskTasks
  Governors = {TRUE, FALSE}
  Calls <- EndsCalls
  MaxBatch = 1
  Texts <- TwoTexts
  Events <- AskEvents
  Contents = {0}
  HardSteps = 3
  HardCalls = 4
  SoftWindow = 2
  MaxRenewals = 1
  PromptRenewals = 1
  RepeatStop = 2
  EmptyRetries <- NoRetry
  WindowSteps = 2
  Frames = 1
  MaxTurns = 1
SPECIFICATION EndsSpec
PROPERTIES TurnEnds SubmittedSettles PublishedSucceeds
CHECK_DEADLOCK FALSE
