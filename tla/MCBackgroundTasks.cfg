\* Every order of registering, settling, cancelling and disposing.
CONSTANTS
  t1 = t1
  t2 = t2
  t3 = t3
  Tasks <- MCTasks
  Silent <- MCSilent
  TagOf <- MCTagOf

SPECIFICATION TasksSpec

INVARIANTS
  TasksTypeOK
  TaskLifecycle

PROPERTIES
  ImplementsLedger

\* Every task may have been registered, disposed and settled: nothing is left to do.
CHECK_DEADLOCK FALSE
