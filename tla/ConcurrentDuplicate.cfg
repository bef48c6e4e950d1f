CONSTANTS
  t1 = t1
  t2 = t2
  t3 = t3
  Threads <- ThreeThreads
  PoolSize = 2
  MaxValue = 255
  PositionBound = 12
  HoldBound = 2

SPECIFICATION Spec

INVARIANT ExclusiveIndex
