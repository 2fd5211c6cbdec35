SPECIFICATION Spec
CONSTANTS
  Stores = {s1, s2, old}
  Old = {old}
  RecordKeys = {k1}
  Certs = {c1, c2}
  Batch = 1
  None = None
  Edited = Edited
  MaxStarts = 2
  MaxDamage = 1
  Clients = 2
  MemoryIds = {i1, i2, i3}
  Scopes = {user}
  Never = Never
  NoMemory = NoMemory
  MaxAge = 1
  MaxPerScope = 2
  MaxDay = 1
  Servers = {srv}
  Operators = {cli}
  ClientSlots = 1
  TokenSlots = 1
  Unlocked = Unlocked
  Dead = Dead
  MaxClients = 2
  MaxApprovals = 2
  MaxRevokes = 1
  MaxDeaths = 1
  MaxFailures = 1
  HttpCallers = {op, client}
  Operator = op
  Strangers = {stranger}
  Pages = {t1, t2}
  Unpaired = Unpaired
  Left = Left
  MaxSessions = 1
  MaxOpened = 3
  MaxRequests = 3
  Starters = {p1, p2}
  Plain = {p2}
  OwnKey = OwnKey
  NoKey = NoKey
  Together = TRUE
  MaxLosses = 1
  MaxChanges = 2
  agent = agent
  Unknown = Unknown
  McpSessions = {n1, n2}
  Closed = Closed
  NoPlanner = NoPlanner
  NoId = NoId
  NoBucket = NoBucket
  MaxChain = 1
  MaxCallsPerMinute = 1
  MaxPlanned = 2
  MaxTicks = 2
  MaxLines = 3
  MaxMembers = 2
  MaxRuns = 2
  NoFile = NoFile
  NotMerged = NotMerged
SYMMETRY Symmetry
INVARIANTS
  TypeOK
  RecordsHold
  CallersKeepApart
  HomeHolds
PROPERTIES
  BackToTheCap
CHECK_DEADLOCK FALSE
