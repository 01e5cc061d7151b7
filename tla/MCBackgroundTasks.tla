-------------------------- MODULE MCBackgroundTasks --------------------------
(* Three tasks: two that share a tag and owe a report, and a silent one.    *)
EXTENDS BackgroundTasks

CONSTANTS t1, t2, t3

MCTasks == {t1, t2, t3}
MCSilent == {t3}
MCTagOf == [t \in MCTasks |-> IF t = t3 THEN "workflow" ELSE "subagent"]
=============================================================================
