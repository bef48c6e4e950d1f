CONSTANTS
  t1 = t1
  t2 = t2
  t3 = t3
  Threads <- TwoThreads
  PoolSize = 2
  MaxValue = 255
  PositionBound = 10
  HoldBound = 2

SPECIFICATION FairSpec

INVARIANTS
  Conservation
  ClaimedSlotFilled

PROPERTIES
  EmptyOnlyWhenDrained
  ImplementsWeakPool
  ClaimsComplete
