SPECIFICATION FairSpec
CONSTANTS
  m = m
  r = r
  k = k
  Procs = {p1, p2}
  Tasks = {m}
  Keys = {k}
  NoKey = NoKey
  KeyOf <- MCKeyOf
  Mutations = {m}
  Observable = {m}
  Reconcilable = {m}
  NoTask = NoTask
  Nobody = Nobody
  Gone = Gone
  MaxRetries = 1
  MaxCrashes = 2
  MaxFaults = 2
INVARIANTS
  TypeOK
  HeldByOneSentOnce
  OutcomesAreTrue
  ChargedIfReached
PROPERTIES
  SettledIsReopenedByCertifyOnly
  LedgerSpec
  WorkEnds
CHECK_DEADLOCK FALSE
