SPECIFICATION Spec
CONSTANTS
  Wires <- MCWires
  Statuses <- MCStatuses
  StatusCodes <- MCStatusCodes
  MaxRetries = 1
  MaxFrames = 6
  MaxTurns = 2
INVARIANTS
  TurnTypeOK
  ShownOnce
  RequestsArePaired
PROPERTIES
  TurnsEnd
CHECK_DEADLOCK FALSE
