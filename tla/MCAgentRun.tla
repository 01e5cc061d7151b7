------------------------------ MODULE MCAgentRun ------------------------------
(* One run with two tasks, one of them silent, the report of the other, two *)
(* host notifications that share a key, and one or two user messages.       *)
EXTENDS AgentRun

CONSTANTS t1, t2, n1, n2

MCTasks == {t1}
MCTwoTasks == {t1, t2}
MCNoSilent == {}
MCSilent == {t2}
MCTagOf == [t \in {t1, t2} |-> t]
MCNotes == {t1, n1}
MCKeyedNotes == {t1, n1, n2}
MCKeyOf == [n \in {t1, t2, n1, n2} |-> IF n \in {n1, n2} THEN "host" ELSE n]
=============================================================================
