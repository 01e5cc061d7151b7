\* Two attempts of ralph_loop, whose launches may fail, interrupted or not.
CONSTANTS
  MaxAttempts = 2
  InitialStates <- MCInitialStates
  Dispatches <- RalphDispatches
  Validates <- RalphValidates
  Applied <- RalphApplied
  Payloads <- RalphPayloads
  KindOf <- MCKindOf
  LaunchMayFail = TRUE
  MaxSubmissions = 1
  MaxNodes = 6

SPECIFICATION Spec

INVARIANTS
  RalphTypeOK
  OneNodePerPhase
  OutcomeIsEarned
  EndsAgree
  EndsQuietly

PROPERTIES
  OutcomeIsFinal
  EverybodyIsAnswered

\* The run finishes and its nodes come to rest.
CHECK_DEADLOCK FALSE
