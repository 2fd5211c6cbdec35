SPECIFICATION Spec
CONSTANTS
  m = m
  r = r
  k = k
  Procs = {p1}
  Tasks = {m, r}
  Keys = {k}
  NoKey = NoKey
  KeyOf <- MCKeyOf
  Mutations = {m}
  Observable = {m}
  Reconcilable = {}
  NoTask = NoTask
  Nobody = Nobody
  Gone = Gone
  MaxRetries = 0
  MaxCrashes = 0
  MaxFaults = 2
INVARIANTS
  KeysHold
CHECK_DEADLOCK FALSE
