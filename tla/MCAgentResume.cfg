CONSTANTS
  Items = {1}
  Files = {"a"}
  DependsOn <- NoDeps
  Risk <- LowRisk
  MaxParallel = 2
  Tasks <- ChangeTasks
  Governors = {TRUE, FALSE}
  Calls <- ChangeCalls
  MaxBatch = 1
  Texts <- SameText
  Events <- AllEvents
  Contents = {0, 1}
  HardSteps = 2
  HardCalls = 2
  SoftWindow = 2
  MaxRenewals = 1
  PromptRenewals = 1
  RepeatStop = 2
  EmptyRetries <- OneRetry
  WindowSteps = 2
  Frames = 3
  MaxTurns = 2
SPECIFICATION AgentSpec
INVARIANTS ResumeCanStep
CHECK_DEADLOCK FALSE
