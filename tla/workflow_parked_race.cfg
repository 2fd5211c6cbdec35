SPECIFICATION Spec
CONSTANTS
  sa = sa
  sb = sb
  sc = sc
  ua = ua
  ub = ub
  Procs = {p1}
  Steps = {sa, sb, sc}
  Undos = {ua, ub}
  Target <- MCTarget
  Rank <- MCRank
  DependsOn <- AfterFirst
  NeedsApproval = {sb}
  Direct = {sb}
  Nobody = Nobody
  Gone = Gone
  MaxCrashes = 0
  MaxLapses = 0
  MaxControls = 0
PROPERTIES
  NoUnwindPastUnknown
CHECK_DEADLOCK FALSE
