SPECIFICATION Spec
CONSTANTS
  a = a
  b = b
  c = c
  p = p
  q = q
  Ids <- MCIds
  Planners <- MCPlanners
  Nothing = Nothing
INVARIANTS
  ApprovalsComeInTurn
CHECK_DEADLOCK FALSE
