SPECIFICATION RunsSpec
CONSTANTS
  m1 = m1
  m2 = m2
  rd = rd
  Procs = {p1}
  Tasks = {m1, m2, rd}
  Mutations = {m1, m2}
  GrantCount = 1
  MaxOps <- Twice
  DailyMax <- Twice
  Amount <- Amounts
  Threshold = 1
  Nobody = Nobody
  Gone = Gone
  MaxCrashes = 1
  MaxFaults = 1
  Shapes <- NodeShapes
  Gated <- GatedSteps
  MaxLosses = 2
  MaxDeaths = 2
  Naming = {"a"}
  MaxEvents = 6
  Ids = {na, nb, nc}
  Planners = {w1, w2}
  Nothing = Nothing
  Sharers = {e, d}
  EnforcedSharers = {e}
  Questions = {q1, q2}
  Actor = Actor
  Parent = Parent
  Person = Person
  Outsider = Outsider
  NoOwner = NoOwner
  MaxReturns = 1
INVARIANTS
  RunsTypeOK
  GrantsFundNoMore
  RunsReadAsTheyRan
  JudgedAsAnswered
PROPERTIES
  StepsKeepTheirOrder
  WaitingIsOver
CHECK_DEADLOCK FALSE
