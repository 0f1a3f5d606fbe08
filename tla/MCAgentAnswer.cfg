CONSTANTS
  Items = {1, 2}
  Files = {"a"}
  DependsOn <- NoDeps
  Risk <- LowRisk
  MaxParallel = 2
  Tasks <- AskTasks
  Governors = {TRUE, FALSE}
  Calls <- AskCalls
  MaxBatch = 1
  Texts <- TwoTexts
  Events <- AskEvents
  Contents = {0}
  HardSteps = 3
  HardCalls = 4
  SoftWindow = 2
  MaxRenewals = 1
  PromptRenewals = 1
  RepeatStop = 2
  EmptyRetries <- NoRetry
  WindowSteps = 2
  Frames = 1
  MaxTurns = 1
SPECIFICATION AgentSpec
INVARIANTS AnswerIsRead
CHECK_DEADLOCK FALSE
