CONSTANTS
  c1 = c1
  c2 = c2
  k1 = k1
  k2 = k2
  Noop = Noop
  NumThreads = 2
  Task <- TwoTasks
  Throwing <- LastTask
  Closing <- LastTask
  Closers <- TwoClosers
  LateSubmits = TRUE

SPECIFICATION FairSpec

CHECK_DEADLOCK FALSE

INVARIANTS
  TypeOK
  TaskConservation
  NoStrandedTask
  NoopsSuffice
  ShutdownStopsWorkers
  DrainedShutdownFinishes

PROPERTIES
  ShutdownEnds
  WorkersStop
  TasksRun
