SPECIFICATION FairSpec
CONSTANTS
  sa = sa
  sb = sb
  sc = sc
  ua = ua
  ub = ub
  Procs = {p1, p2}
  Steps = {sa}
  Undos = {ua}
  Target <- MCTarget
  Rank <- MCRank
  DependsOn <- AfterFirst
  NeedsApproval = {}
  Direct = {sa}
  Nobody = Nobody
  Gone = Gone
  MaxCrashes = 1
  MaxLapses = 1
  MaxControls = 1
INVARIANTS
  OnceAndThenNothing
PROPERTIES
  RunIsCurrent
  AbandonedEnds
CHECK_DEADLOCK FALSE
