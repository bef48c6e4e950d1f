CONSTANTS
  t1 = t1
  t2 = t2
  t3 = t3
  n1 = n1
  n2 = n2
  n3 = n3
  n4 = n4
  Null = Null
  Threads <- ThreeThreads
  Acquirers <- OneThread
  Node <- FourNodes
  HoldBound = 1
  SharedBlocks = TRUE
  CounterModulus = 4

SPECIFICATION Spec
SYMMETRY SingleAcquirerSymmetry

CHECK_DEADLOCK FALSE

INVARIANTS
  TypeOK
  ExclusiveBlock
  FreeListComplete
  AvailableLedger
  FreedPoolIsEmpty
  AllocationBound

PROPERTY ImplementsBlockPool
