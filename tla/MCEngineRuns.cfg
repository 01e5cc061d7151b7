SPECIFICATION Spec
CONSTANTS
  c1 = c1
  c2 = c2
  Owners <- MCOwners
  Children <- MCChildren
  Payloads <- MCPayloads
  Outcomes <- MCOutcomes
  Parse <- MCParse
SYMMETRY MCSymmetry
INVARIANTS
  RunsTypeOK
  RecordsTellTheTruth
  InterruptReachesAll
  AcceptedAsAdvised
CHECK_DEADLOCK FALSE
