------------------------------- MODULE RalphLoop -------------------------------
(***************************************************************************)
(* The ralph_loop workflow                                                 *)
(* (coding-agent/.ephai/agentic-workflows/ralph_loop/workflow.mjs): a      *)
(* planner, a reviewer and a critic in turn, each with a verdict; any      *)
(* failure starts the next attempt at the planner.                         *)
(* The operators are the hooks the workflow runtime calls.                 *)
(***************************************************************************)
EXTENDS Integers

CONSTANT MaxAttempts      \* max_attempts

ASSUME AttemptsAssumption == MaxAttempts \in Nat \ {0}

Roles == {"planner", "reviewer", "critic"}
Verdicts == {"pass", "fail"}
NoVerdicts == [role \in Roles |-> "none"]

(* createInitialState *)
RalphInitial ==
  [done |-> FALSE, status |-> "running", attempt |-> 1, phase |-> "planner",
   verdicts |-> NoVerdicts]

(* dispatch: the node of the phase, unless one is running. *)
RalphDispatches(state, running) ==
  IF state.done \/ state.phase = "done" \/ running # {} THEN <<>>
  ELSE << [role |-> state.phase, attempt |-> state.attempt] >>

(* validateNodeSettlement looks at the phase, not at the attempt. *)
RalphValidates(state, spec, settlement) ==
  state.phase # "done" /\ spec.role = state.phase

(* Mutant: one attempt too many. *)
AttemptsLeftInclusive(state) == state.attempt <= MaxAttempts

AttemptsLeft(state) == state.attempt < MaxAttempts

(* Mutant: the verdicts of the failed attempt are kept. *)
RetryOrFailKeepsVerdicts(state) ==
  IF AttemptsLeft(state)
  THEN [state EXCEPT !.attempt = @ + 1]
  ELSE [state EXCEPT !.done = TRUE, !.status = "failure"]

(* Mutant: the next attempt has the number of the failed one. *)
RetryOrFailSameNumber(state) ==
  IF AttemptsLeft(state)
  THEN [state EXCEPT !.phase = "planner", !.verdicts = NoVerdicts]
  ELSE [state EXCEPT !.done = TRUE, !.status = "failure"]

RetryOrFail(state) ==
  IF AttemptsLeft(state)
  THEN [state EXCEPT !.attempt = @ + 1, !.phase = "planner",
                     !.verdicts = NoVerdicts]
  ELSE [state EXCEPT !.done = TRUE, !.status = "failure"]

(* evaluateWorkflowProgress for a verdict just recorded. *)
Judge(state) ==
  IF state.verdicts[state.phase] = "fail" THEN RetryOrFail(state)
  ELSE CASE state.phase = "planner"  -> [state EXCEPT !.phase = "reviewer"]
         [] state.phase = "reviewer" -> [state EXCEPT !.phase = "critic"]
         [] state.phase = "critic"   -> [state EXCEPT !.phase = "done",
                                           !.done = TRUE, !.status = "success"]

(* applyNodeSettlement, for a node that submitted: its verdict is recorded. *)
Recorded(state, settlement) ==
  [state EXCEPT !.verdicts[state.phase] = settlement.payload]

(* applyNodeSettlement and evaluateWorkflowProgress: a node that ended      *)
(* without an outcome fails its attempt, a verdict is recorded and judged.  *)
(* A workflow that failed in another phase than "done" still records a late *)
(* verdict, which nothing judges any more.                                  *)
RalphApplied(state, spec, settlement, running) ==
  IF state.phase = "done" THEN state
  ELSE IF settlement.status = "completed"
       THEN IF state.done THEN Recorded(state, settlement)
            ELSE Judge(Recorded(state, settlement))
       ELSE IF state.done THEN state ELSE RetryOrFail(state)

RalphPayloads(spec) == Verdicts
=============================================================================
