CONSTANTS
  j1 = j1
  Jobs = {j1}
  NoJob = NoJob
  MaxDeliveries = 3
  Concurrency = 1
  Prefetch = 1
  Reconnect = TRUE
  MaxFaults = 2
  FaultKinds = {"connect", "cut", "rpc", "crash", "retry"}
SPECIFICATION FairHandlerSpec
INVARIANT IInv
PROPERTIES
  VerdictReported
  JobsSettle
  ShutdownReturns
