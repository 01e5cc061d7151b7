\* A text-mode run: what it owes the host and the model when it completes.
CONSTANTS
  t1 = t1
  t2 = t2
  n1 = n1
  n2 = n2
  Tasks <- MCTwoTasks
  Silent <- MCSilent
  TagOf <- MCTagOf
  Mode = "text"
  MaxTurns = 3
  MaxTerminal = 0
  Steers = {s1}
  Notes <- MCNotes
  KeyOf <- MCKeyOf

SPECIFICATION Spec

INVARIANTS
  CompletesWithNothingOwed
  NoLostWakeup

PROPERTIES
  FinishIsFinal
  Totality
  NoTaskSurvives

\* The run ends, its tasks are disposed, and everything may come to rest.
CHECK_DEADLOCK FALSE
