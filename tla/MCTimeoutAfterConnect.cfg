SPECIFICATION Spec
CONSTANTS
  Batches <- MCSandboxBatch
  GateCalls <- MCSandboxCall
  Lanes = 2
  MaxRetries = 1
  MaxTaskEvents = 0
  MaxNext = 1
INVARIANT
  TimeoutMeansUnreached
CHECK_DEADLOCK FALSE
