SPECIFICATION Spec
CONSTANTS
  sa = sa
  sb = sb
  sc = sc
  ua = ua
  ub = ub
  Procs = {p1}
  Steps = {sa, sb, sc}
  Undos = {ua, ub}
  Target <- MCTarget
  Rank <- MCRank
  DependsOn <- AfterFirst
  NeedsApproval = {sb, ub}
  Direct = {}
  Nobody = Nobody
  Gone = Gone
  MaxCrashes = 1
  MaxLapses = 1
  MaxControls = 2
INVARIANTS
  TypeOK
  UnwoundOrWhole
PROPERTIES
  UnwindIsApart
CHECK_DEADLOCK FALSE
