CONSTANTS
  h1 = h1
  h2 = h2
  h3 = h3
  h4 = h4
  Null = Null
  Handle <- MCHandle
  PoolSize = 2
  Resets = TRUE

SPECIFICATION Spec

INVARIANTS
  TypeOK
  OneOwner
  HandleTruthful
  FreeItemsClean
