CONSTANTS
  Core <- MCCore
  NodeOf <- MCNodeOf
  MaxMoves = 2
  OtherCores <- MCOtherCores
  OtherNodes <- MCOtherNodes
  ThreadCounts <- MCThreadCounts

SPECIFICATION Spec

CHECK_DEADLOCK FALSE

INVARIANTS
  TypeOK
  BuildAllOrNothing
  NodePoolPlaced

PROPERTY ScanRestores
