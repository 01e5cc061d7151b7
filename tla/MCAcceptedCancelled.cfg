\* An interrupt while onSubmit decides cancels a run the host committed.
CONSTANTS
  t1 = t1
  t2 = t2
  n1 = n1
  n2 = n2
  Tasks <- MCTasks
  Silent <- MCNoSilent
  TagOf <- MCTagOf
  Mode = "terminal"
  MaxTurns = 1
  MaxTerminal = 1
  Steers = {s1}
  Notes <- MCNotes
  KeyOf <- MCKeyOf

SPECIFICATION Safety

INVARIANT
  AcceptedIsFinal

\* The run ends, its tasks are disposed, and everything may come to rest.
CHECK_DEADLOCK FALSE
