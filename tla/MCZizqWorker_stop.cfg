CONSTANTS
  j1 = j1
  j2 = j2
  Jobs = {j1, j2}
  NoJob = NoJob
  MaxDeliveries = 2
  Concurrency = 2
  Prefetch = 2
  Reconnect = FALSE
  MaxFaults = 2
  FaultKinds = {"connect", "refused", "cut", "rpc", "panic"}
SPECIFICATION FairSpec
INVARIANT CleanShutdown
PROPERTIES
  ShutdownReturns
  StreamEndReturns
