CONSTANTS
  j1 = j1
  Jobs = {j1}
  NoJob = NoJob
  MaxDeliveries = 1
  Concurrency = 1
  Prefetch = 1
  Reconnect = TRUE
  MaxFaults = 0
  FaultKinds = {}
SPECIFICATION FairSpec
PROPERTY PendingAcksDropped
