CONSTANTS
  Items = {1}
  Files = {"a"}
  DependsOn <- NoDeps
  Risk <- LowRisk
  MaxParallel = 2
  Tasks <- ChangeTasks
  Governors = {TRUE, FALSE}
  Calls <- ChangeCalls
  MaxBatch = 1
  Texts <- SameText
  Events <- AllEvents
  Contents = {0, 1}
  HardSteps = 4
  HardCalls = 3
  SoftWindow = 2
  MaxRenewals = 1
  PromptRenewals = 1
  RepeatStop = 2
  EmptyRetries <- OneRetry
  WindowSteps = 2
  Frames = 3
  MaxTurns = 2
SPECIFICATION ChangeSpec
INVARIANTS  VerifiedIsProven 
PROPERTIES NoRequestAfterEnd
CHECK_DEADLOCK FALSE
