CONSTANTS
  t1 = t1
  t2 = t2
  t3 = t3
  n1 = n1
  n2 = n2
  n3 = n3
  n4 = n4
  Null = Null
  Threads <- ThreeThreads
  Acquirers <- ThreeThreads
  Node <- ThreeNodes
  HoldBound = 1
  SharedBlocks = FALSE
  CounterModulus = 8

SPECIFICATION Spec
SYMMETRY AllSymmetry

CHECK_DEADLOCK FALSE

INVARIANT ExclusiveBlock
