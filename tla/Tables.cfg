SPECIFICATION TablesSpec
CONSTANTS
  a = a
  b = b
  c = c
  s1 = s1
  s2 = s2
  o1 = o1
  o2 = o2
  NoKey = NoKey
  k1 = k1
  k2 = k2
  None = None
  Keys = {a, b, c}
  Shards = {s1, s2}
  ShardOf <- MCShardOf
  RingSize = 2
  Ops = {o1, o2}
  MaxSeq = 5
  MaxGen = 2
  PoolKeys = {k1, k2}
  MaxSize = 2
  Limits = {3, 4}
  MaxPoolGen = 3
INVARIANTS
  RevokedNeverValid
  ExactInWindow
  CountersExact
  CapacityFollows
  NothingLeaks
PROPERTIES
  PromiseSpec
SYMMETRY PoolSymmetry
CHECK_DEADLOCK FALSE
