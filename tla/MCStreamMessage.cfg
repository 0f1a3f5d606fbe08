\* Answers of at most two calls; an answer ends.
CONSTANTS
  Clients = {"openai"}
  Styles = {"apart", "snapshot"}
  CallShapes <- SomeShapes
  MaxCalls = 2
CHECK_DEADLOCK FALSE
SPECIFICATION StreamSpec
INVARIANTS FinalMessageIsRead
