------------------------------ MODULE MCRalphRun ------------------------------
(* A ralph_loop run whose planner is an agent and whose reviewer and critic *)
(* are delegated workflows; the runtime's hooks are bound in the            *)
(* configuration.                                                           *)
EXTENDS RalphRun

MCInitialStates == { RalphInitial }
MCKindOf(spec) == IF spec.role = "planner" THEN "agent" ELSE "workflow"
=============================================================================
