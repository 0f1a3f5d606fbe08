\* Three inputs over two sessions, one of them a council; the four plans of a
\* council, two experts at a time; two turns with a slot for their two experts.
CONSTANTS
  Sessions = {s1, s2}
  Items <- MCItems
  Councils <- MCCouncils
  NoItem = 0
  MaxSwitches = 1
  MaxCancels = 1
  Classes = {"analysis", "small", "standard", "high"}
  MaxParallel = 2
  MaxAttempts = 2
  MaxFailures <- FailuresOf
  MaxEdits <- EditsOf
  SessionLogs = {l1, l2}
  Inputs = {i1, i2}
  Experts = {e1, e2}
  Slots = 1
  MaxShows = 1
  View = View
  Upstream = Upstream
  Closed = Closed
\* When every input has had its turn the consumers are gone, and a council ends.
CHECK_DEADLOCK FALSE
SPECIFICATION TurnsSpec
INVARIANTS ControllerSafety CouncilSafety 
PROPERTIES CancelsCurrentTurn EveryInputServed CouncilEnds DelegationsEnd
