\* Each component with its own bounds: a log of four lines with two I/O errors;
\* a process that may die once among four calls of the vault; two callers, two
\* checkpoints and three proposals; four emissions of two threads with one
\* failure of the spool; two events or four segments cut anywhere; answers of at
\* most two calls; four edits of two candidate facts; three saves of two pages in
\* two seconds, with one failed walk.
CONSTANTS
  Events = {e1, e2}
  NoEvent = NoEvent
  MaxLines = 4
  MaxFaults = 2
  p1 = p1
  p2 = p2
  a1 = a1
  a2 = a2
  a3 = a3
  a4 = a4
  k1 = k1
  k2 = k2
  Processes = {p1}
  Actors = {a1, a2, a3, a4}
  Home <- MCHome
  KeyOf <- MCKeyOf
  Publishers = {a1, a2, a3}
  None = None
  Prompt = TRUE
  StealAlone = TRUE
  MaxVaultCrashes = 1
  Proposals <- SomeProposals
  Checkpoints = {c1, c2}
  LogicalKeys = {"main"}
  Deciders = {ann, bob}
  Callers = {w1, w2}
  SharedKeys = FALSE
  Nobody = Nobody
  Emitters = {"log", "loop"}
  Observing = "loop"
  Capacity = 1
  Reserve = 1
  RotateAt = 2
  Conclusions = {"c", "d"}
  GuardWindow = 2
  MaxRepeat = 1
  MaxEmitted <- SomeEmissions
  MaxTapFaults = 1
  EventData <- SomePayloads
  MaxEvents = 2
  Segments <- SomeSegments
  MaxSegments = 4
  CutWide = FALSE
  Clients = {"openai", "anthropic", "json"}
  Styles = {"apart", "braided", "snapshot", "both"}
  CallShapes <- SomeShapes
  MaxCalls = 2
  NumFacts = 2
  Texts = {"t", "T", "u", "x"}
  NormKey <- SameKey
  Fit <- FitTexts
  Gradings = {50, 90}
  Promoters = {m1}
  Unedited = TRUE
  MaxEdits = 4
  NoFile = NoFile
  Pages = {g1, g2}
  SizeOf <- Sizes
  MaxSaves = 3
  MaxSeconds = 1
  MaxWalkFaults = 1
  Gone = Gone
SYMMETRY EffectSymmetry
\* The bounds end every behaviour.
CHECK_DEADLOCK FALSE
SPECIFICATION PartsSpec
INVARIANTS WalSafety VaultSafety  MonitorSafety
           CutsDontMatter StreamSafety KnowledgeSafety
PROPERTIES  ImplementsStore
