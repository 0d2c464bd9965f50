SPECIFICATION Spec
CONSTANTS
  Null = Null
  Query = Query
  Size = 4
  MaxShared = 2
  MaxBare = 0
  Node <- MCNode
  Root = 1
  Plans <- MCPlans
  TICKS_PER_SCALE = 4
  MAX_I64 = 31
  Limits = {9}
INVARIANTS
  ExplainOrder
