\* A terminal-mode run: the submission gate, the latch and the commit.
CONSTANTS
  t1 = t1
  t2 = t2
  n1 = n1
  n2 = n2
  Tasks <- MCTasks
  Silent <- MCNoSilent
  TagOf <- MCTagOf
  Mode = "terminal"
  MaxTurns = 3
  MaxTerminal = 2
  Steers = {s1}
  Notes <- MCKeyedNotes
  KeyOf <- MCKeyOf

SPECIFICATION Spec

INVARIANTS
  TypeOK
  ReportsReachTheModel
  CommitIsExclusive

PROPERTIES
  InterruptStops

\* The run ends, its tasks are disposed, and everything may come to rest.
CHECK_DEADLOCK FALSE
