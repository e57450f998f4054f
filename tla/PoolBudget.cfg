SPECIFICATION PoolSpec
CONSTANTS
  k1 = k1
  k2 = k2
  None = None
  PoolKeys = {k1, k2}
  MaxSize = 2
  Limits = {3, 4}
  MaxPoolGen = 3
INVARIANTS
  WithinBudget
CHECK_DEADLOCK FALSE

