\* Two durable turns whose heartbeats are on time, that are dropped or crash once;
\* two turns in three sessions and one crash; two contexts, three handlers and
\* three ids; two writes and a recall of two facts with one fault; one pack under
\* one operation of the interface, one edit in the file manager and one crash;
\* three chats in two projects with five events.
CONSTANTS
  t1 = t1
  t2 = t2
  Tasks = {t1, t2}
  Workers <- MCWorkers
  NoWorker = 0
  MaxRetries <- MCMaxRetries
  Times = {0}
  Ttls = {3}
  Levels = {0}
  MaxMs = 3
  Ttl = 3
  Interval = 1
  ClaimDelays = {1, 2}
  Timely = TRUE
  MayDrop = TRUE
  MaxErrors = 0
  MaxCrashes = 1
  Files = {"a", "b", "c"}
  Project <- TwoProjects
  Turns = {1, 2}
  Handles = {h1, h2, h3, h4}
  Keep = 1
  MaxCuts = 1
  Nothing = Nothing
  Contexts = {c0, c1}
  Root = c0
  Handlers = {l1, l2, l3}
  Buckets <- TwoBuckets
  MaxIds = 3
  NoTable = NoTable
  r1 = r1
  r2 = r2
  FactIds = {1, 2}
  Remembers = {r1, r2}
  IdsOf <- SomeIds
  Recallers = {q1}
  MaxFactFaults = 1
  NoFact = NoFact
  NotThere = NotThere
  Packs = {p1}
  MaxPanelOps = 1
  MaxFolderEdits = 1
  MaxRestarts = 1
  NoSkill = NoSkill
  NoList = NoList
  Chats = {"a", "b", "c"}
  FolderOf <- TwoFolders
  FirstChat = "a"
  MaxChatEvents = 5
  MaxMoves = 2
  NoChat = NoChat
SYMMETRY DeskSymmetry
\* The bounds end every behaviour.
CHECK_DEADLOCK FALSE
SPECIFICATION DeskSpec
INVARIANTS LiveTurnHoldsLease SessionSafety TablesSafety RememberSafety SkillSafety 
