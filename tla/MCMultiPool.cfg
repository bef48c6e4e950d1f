CONSTANTS
  u1 = u1
  b1 = b1
  b2 = b2
  b3 = b3
  Width = 5
  MinBits = 1
  EntryCount = 3
  User <- OneUser
  Block <- ThreeBlocks
  MaxCreates = 2

SPECIFICATION Spec
SYMMETRY BlockSymmetry

CHECK_DEADLOCK FALSE

INVARIANTS
  TypeOK
  SmallestClassThatFits
  CrashHasCause
  FreedLeavesNothing
