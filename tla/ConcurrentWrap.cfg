CONSTANTS
  t1 = t1
  t2 = t2
  t3 = t3
  Threads <- TwoThreads
  PoolSize = 2
  MaxValue = 5
  PositionBound = 9
  HoldBound = 2

SPECIFICATION FairSpec

INVARIANTS
  TypeOK

PROPERTIES
  ConservedUnlessOvertaken
  SomeCallCompletes
