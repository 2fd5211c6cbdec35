SPECIFICATION Spec
CONSTANTS
  m1 = m1
  m2 = m2
  r = r
  Procs = {p1}
  Tasks = {m1, m2, r}
  Mutations = {m1, m2}
  GrantCount = 2
  MaxOps <- Once
  DailyMax <- Twice
  Amount <- MCAmount
  Threshold = 1
  Nobody = Nobody
  Gone = Gone
  MaxCrashes = 1
  MaxFaults = 0
INVARIANTS
  FundsNoMore
CHECK_DEADLOCK FALSE
