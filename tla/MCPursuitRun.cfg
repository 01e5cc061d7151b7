\* Dynamic and predefined pursuits of two legs of up to two attempts.
CONSTANTS
  MaxAttempts = 2
  MaxLegs = 2
  Plans <- MCPlans
  InitialStates <- MCInitialStates
  Dispatches <- PursuitDispatches
  Validates <- PursuitValidates
  Applied <- PursuitApplied
  Payloads <- PursuitPayloads
  KindOf <- MCKindOf
  LaunchMayFail = FALSE
  MaxSubmissions = 1
  MaxNodes = 12

SPECIFICATION Safety

INVARIANTS
  PursuitTypeOK
  DependenciesFirst
  ItemsAreTheirOwn
  OutcomeIsEarned
  EndsQuietly

PROPERTIES
  AttemptsClose

\* The run finishes and its nodes come to rest.
CHECK_DEADLOCK FALSE
