SPECIFICATION FairSpec
CONSTANTS
  m = m
  r = r
  k = k
  Procs = {p1, p2}
  Tasks = {m}
  Keys = {k}
  NoKey = NoKey
  KeyOf <- MCKeyOf
  Mutations = {m}
  Observable = {m}
  Reconcilable = {m}
  NoTask = NoTask
  Nobody = Nobody
  Gone = Gone
  MaxRetries = 1
  MaxCrashes = 0
  MaxFaults = 0
PROPERTIES
  SettledStands
CHECK_DEADLOCK FALSE
