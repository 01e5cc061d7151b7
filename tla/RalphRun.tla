-------------------------------- MODULE RalphRun --------------------------------
(***************************************************************************)
(* A run of the ralph_loop workflow: WorkflowRun with the hooks of         *)
(* RalphLoop, and what the two promise together.                           *)
(***************************************************************************)
EXTENDS WorkflowRun, RalphLoop

NodesOf(role, attempt) ==
  {i \in DOMAIN nodes : nodes[i].spec = [role |-> role, attempt |-> attempt]}

(* One node at a time, and each role at most once per attempt: a phase that *)
(* was dispatched twice would spend its budget twice                        *)
(* (ralph_loop/workflow.mjs:46).                                            *)
OneNodePerPhase ==
  /\ \A i, j \in Running(nodes) : i = j
  /\ \A i, j \in DOMAIN nodes : nodes[i].spec = nodes[j].spec => i = j

(* The workflow succeeds only if planner, reviewer and critic of one and    *)
(* the same attempt each passed: no verdict is carried over from an attempt *)
(* that failed.                                                             *)
SuccessIsUnanimous ==
  outcome = "success" =>
    \A role \in Roles : \E i \in NodesOf(role, wf.attempt) :
      nodes[i].status = "completed" /\ nodes[i].said = {"pass"}

(* The workflow fails only when every attempt of the budget has been made   *)
(* and each one ended with a node that failed or said no.                   *)
FailureSpendsBudget ==
  outcome = "failure" =>
    \A attempt \in 1..MaxAttempts :
      \E role \in Roles : \E i \in NodesOf(role, attempt) :
        nodes[i].status \in {"failed", "cancelled", "rejected"}
          \/ nodes[i].said = {"fail"}

(* An outcome of ralph_loop is earned: a success by one attempt, a failure  *)
(* by all of them.                                                          *)
OutcomeIsEarned == SuccessIsUnanimous /\ FailureSpendsBudget

(* Every node entry belongs to an attempt within the budget. *)
RalphTypeOK ==
  /\ RunTypeOK
  /\ wf \in [done : BOOLEAN, status : {"running", "success", "failure"},
             attempt : 1..MaxAttempts, phase : Roles \cup {"done"},
             verdicts : [Roles -> Verdicts \cup {"none"}]]
  /\ \A i \in DOMAIN nodes : nodes[i].spec \in [role : Roles, attempt : 1..wf.attempt]
=============================================================================
