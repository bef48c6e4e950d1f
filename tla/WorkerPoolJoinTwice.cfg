CONSTANTS
  c1 = c1
  c2 = c2
  k1 = k1
  k2 = k2
  Noop = Noop
  NumThreads = 2
  Task <- TwoTasks
  Throwing <- NoTasks
  Closing <- NoTasks
  Closers <- TwoClosers
  LateSubmits = FALSE

SPECIFICATION Spec

CHECK_DEADLOCK FALSE

INVARIANT JoinedOnce
