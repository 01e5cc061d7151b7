SPECIFICATION Spec
CONSTANTS
  Batches <- MCBatches
  GateCalls <- MCGateCalls
  Lanes = 2
  MaxRetries = 1
  MaxTaskEvents = 1
  MaxNext = 2
INVARIANTS
  BatchTypeOK
  AnswersAreTrue
  BatchIsOrdered
  StreamTellsTheRun
  RunsAtMostOnce
PROPERTIES
  NoCommandAfterAbort
  AbortEndsBatch
CHECK_DEADLOCK FALSE
