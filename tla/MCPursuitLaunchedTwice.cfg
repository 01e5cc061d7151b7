\* The launch of a worker may fail while others wait to be launched.
CONSTANTS
  MaxAttempts = 2
  MaxLegs = 2
  Plans <- MCPlans
  InitialStates <- MCInitialStates
  Dispatches <- PursuitDispatches
  Validates <- PursuitValidates
  Applied <- PursuitApplied
  Payloads <- PursuitPayloads
  KindOf <- MCKindOf
  LaunchMayFail = TRUE
  MaxSubmissions = 1
  MaxNodes = 12

SPECIFICATION Safety

INVARIANTS
  OneNodePerItem

\* The run finishes and its nodes come to rest.
CHECK_DEADLOCK FALSE
