CONSTANTS
  t1 = t1
  t2 = t2
  t3 = t3
  Threads <- MCThreads
  PoolSize = 2
  NoThread = NoThread

SPECIFICATION Spec

INVARIANTS
  TypeOK
  Exclusive
  Accounting

PROPERTY ImplementsIndexPool
