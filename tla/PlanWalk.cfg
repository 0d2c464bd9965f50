SPECIFICATION Spec
CONSTANTS
  Null = Null
  Query = Query
  Size = 4
  MaxShared = 2
  MaxBare = 2
  Node <- MCNode
  Root = 1
  Plans <- MCPlans
  TICKS_PER_SCALE = 4
  MAX_I64 = 31
  Limits = {0, 1, 2, 3, 9}
INVARIANTS
  Connected
  SpansNest
  TimesExact
  EachNodeOnce
  Summary
  ExplainOrderUnlessNested
