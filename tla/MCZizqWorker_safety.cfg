CONSTANTS
  j1 = j1
  j2 = j2
  Jobs = {j1, j2}
  NoJob = NoJob
  MaxDeliveries = 3
  Concurrency = 2
  Prefetch = 1
  Reconnect = TRUE
  MaxFaults = 2
  FaultKinds = {"connect", "cut", "rpc", "reject", "panic", "expire", "crash"}
SPECIFICATION Spec
SYMMETRY JobSymmetry
INVARIANTS
  TypeOK
  BoundedConcurrency
  NoVerdictForgotten
  CleanShutdown
  AtMostOneLateStart
PROPERTY ImplementsAtLeastOnce
