-------------------------------- MODULE Pursuit --------------------------------
(***************************************************************************)
(* The pursuit workflow                                                    *)
(* (coding-agent/.ephai/agentic-workflows/pursuit/workflow.mjs).  A        *)
(* pursuit is a sequence of legs, a leg a sequence of attempts, an attempt *)
(* a plan and the work items it declares, which depend on each other and   *)
(* on items of earlier attempts.  Legs and attempts are numbered, where    *)
(* the code mints ids.  The operators are the hooks the workflow runtime   *)
(* calls.                                                                  *)
(***************************************************************************)
EXTENDS Integers, SequencesExt

CONSTANTS
  MaxAttempts,   \* max_attempts of every leg
  Plans,         \* what planners may submit: [items, legGoal, nextGoal]
  MaxLegs        \* bound: planners of the last leg declare no next one

ASSUME AttemptsAssumption == MaxAttempts \in Nat \ {0}
ASSUME LegsAssumption == MaxLegs \in Nat

(* PlannerSubmissionSchema: a plan has at least one item. *)
PlanItems == [id : STRING, deps : SUBSET STRING]
ASSUME PlansAssumption ==
  \A plan \in Plans :
    /\ plan \in [items : Seq(PlanItems), legGoal : BOOLEAN, nextGoal : BOOLEAN]
    /\ plan.items # <<>>

EntityTerminal == {"Success", "Failed", "Cancelled"}
ItemTerminal == {"Success", "Failed", "Blocked", "Cancelled"}
PlanStatuses == {"NotStarted", "Success", "Failed"}
ItemStatuses == {"NotStarted"} \cup ItemTerminal

(* legGoalMode: "goals" counts the predefined leg goals. *)
Predefined(state) == state.goals > 0

(* createAttempt *)
NewAttempt == [status |-> "Running", consistent |-> TRUE, plan |-> "NotStarted",
               items |-> <<>>]

(* createLeg; "next" tells whether a planner declared a next leg goal. *)
NewLeg == [status |-> "Running", version |-> 1, next |-> FALSE,
           attempts |-> <<NewAttempt>>]

PursuitInitial(goals) ==
  [done |-> FALSE, status |-> "running", goals |-> goals, legs |-> <<NewLeg>>]

-----------------------------------------------------------------------------
(* Work items and what they depend on. *)

AllItems(leg) == FlattenSeq([a \in DOMAIN leg.attempts |-> leg.attempts[a].items])

(* dependencyStatus: the first item of that name and goal version. *)
DependencyStatus(leg, version, id) ==
  LET items == AllItems(leg)
      k == SelectInSeq(items, LAMBDA item : item.id = id /\ item.version = version)
  IN IF k = 0 THEN "unknown" ELSE items[k].status

(* Mutant: a dependency need only not have failed so far. *)
DependenciesNotFailed(leg, item) ==
  \A id \in item.deps : DependencyStatus(leg, item.version, id) # "Failed"

DependenciesSucceeded(leg, item) ==
  \A id \in item.deps : DependencyStatus(leg, item.version, id) = "Success"

DependencyBlocks(leg, item) ==
  \E id \in item.deps :
    DependencyStatus(leg, item.version, id) \in {"Failed", "Blocked"}

(* The specs of node runs; a worker's key is its leg, goal version and item. *)
PlannerSpec(l, a) ==
  [role |-> "planner", leg |-> l, attempt |-> a, item |-> "none", version |-> 0]
WorkerSpec(l, a, item) ==
  [role |-> "worker", leg |-> l, attempt |-> a, item |-> item.id,
   version |-> item.version]

(* runningMetadata: planners by plan, workers by key. *)
PlannerRuns(running, l, a) == PlannerSpec(l, a) \in running
WorkerRuns(running, l, item) ==
  \E spec \in running : /\ spec.role = "worker"
                        /\ spec.leg = l
                        /\ spec.item = item.id
                        /\ spec.version = item.version

-----------------------------------------------------------------------------
(* dispatch *)

IsReady(leg, l, item, running) ==
  /\ item.status = "NotStarted"
  /\ ~WorkerRuns(running, l, item)
  /\ DependenciesSucceeded(leg, item)

LegDispatches(leg, l, running) ==
  LET a == Len(leg.attempts)
      attempt == leg.attempts[a]
      ready == FlattenSeq([k \in DOMAIN attempt.items |->
                 IF IsReady(leg, l, attempt.items[k], running)
                 THEN <<WorkerSpec(l, a, attempt.items[k])>> ELSE <<>>])
  IN IF leg.status # "Running" \/ attempt.status # "Running" THEN <<>>
     ELSE CASE attempt.plan = "NotStarted" ->
                 IF PlannerRuns(running, l, a) THEN <<>> ELSE <<PlannerSpec(l, a)>>
            [] attempt.plan = "Success" -> ready
            [] OTHER -> <<>>

PursuitDispatches(state, running) ==
  IF state.done THEN <<>>
  ELSE FlattenSeq([l \in DOMAIN state.legs |->
                     LegDispatches(state.legs[l], l, running)])

-----------------------------------------------------------------------------
(* validateNodeSettlement *)

PlanIds(plan) == {plan.items[k].id : k \in DOMAIN plan.items}

(* Mutant: cycles are not looked for. *)
PlanHasNoCycleUnchecked(plan) == TRUE

(* currentGraphCycle, over the dependencies inside the plan: of any items   *)
(* of it, one waits for none of them.                                       *)
PlanHasNoCycle(plan) ==
  \A ids \in (SUBSET PlanIds(plan)) \ {{}} :
    \E k \in DOMAIN plan.items :
      plan.items[k].id \in ids /\ plan.items[k].deps \cap ids = {}

(* The items of earlier attempts that still belong to the leg's goal. *)
Existing(leg) ==
  UNION {{item \in ToSet(leg.attempts[a].items) : item.version = leg.version} :
           a \in {b \in DOMAIN leg.attempts : leg.attempts[b].consistent}}

(* Mutant: only the plan itself is searched for duplicates. *)
IdsAreFreshInPlan(leg, plan) ==
  \A j, k \in DOMAIN plan.items : plan.items[j].id = plan.items[k].id => j = k

IdsAreFresh(leg, plan) ==
  /\ \A j, k \in DOMAIN plan.items : plan.items[j].id = plan.items[k].id => j = k
  /\ plan.legGoal \/ \A item \in Existing(leg) : item.id \notin PlanIds(plan)

(* plannerSubmissionError, as the condition that it finds none. *)
PlanIsValid(state, leg, plan) ==
  /\ Predefined(state) => ~plan.legGoal /\ ~plan.nextGoal
  /\ IdsAreFresh(leg, plan)
  /\ \A k \in DOMAIN plan.items : \A id \in plan.items[k].deps \ PlanIds(plan) :
       ~plan.legGoal /\ \E item \in Existing(leg) : item.id = id
  /\ PlanHasNoCycle(plan)

ItemAt(attempt, spec) ==
  SelectInSeq(attempt.items,
              LAMBDA item : item.id = spec.item /\ item.version = spec.version)

PursuitValidates(state, spec, settlement) ==
  /\ ~state.done
  /\ LET leg == state.legs[spec.leg]
         attempt == leg.attempts[spec.attempt]
     IN IF spec.role = "planner"
        THEN /\ attempt.plan \notin EntityTerminal
             /\ settlement.status = "completed" => PlanIsValid(state, leg, settlement.payload)
        ELSE attempt.items[ItemAt(attempt, spec)].status \notin ItemTerminal

-----------------------------------------------------------------------------
(* applyNodeSettlement *)

(* applyPlannerSettlement: a leg goal replaces the one in force and leaves  *)
(* only this attempt consistent with it.                                    *)
PlannedLeg(leg, a, plan) ==
  LET version == leg.version + IF plan.legGoal THEN 1 ELSE 0
      items == [k \in DOMAIN plan.items |->
                  [id |-> plan.items[k].id, version |-> version,
                   deps |-> plan.items[k].deps, status |-> "NotStarted"]]
      After(b) ==
        [leg.attempts[b] EXCEPT
           !.consistent = IF plan.legGoal THEN b = a ELSE @,
           !.plan = IF b = a THEN "Success" ELSE @,
           !.items = IF b = a THEN @ \o items ELSE @]
  IN [leg EXCEPT !.version = version,
                 !.next = IF plan.legGoal THEN plan.nextGoal ELSE @ \/ plan.nextGoal,
                 !.attempts = [b \in DOMAIN leg.attempts |-> After(b)]]

(* applyWorkerSettlement *)
WorkedLeg(leg, spec, verdict) ==
  [leg EXCEPT !.attempts[spec.attempt].items
                 [ItemAt(leg.attempts[spec.attempt], spec)].status = verdict]

SettledLeg(leg, spec, settlement) ==
  CASE spec.role = "planner" /\ settlement.status = "completed" ->
         PlannedLeg(leg, spec.attempt, settlement.payload)
    [] spec.role = "planner" /\ settlement.status # "completed" ->
         [leg EXCEPT !.attempts[spec.attempt].plan = "Failed"]
    [] spec.role = "worker" ->
         WorkedLeg(leg, spec,
                   IF settlement.status = "completed" /\ settlement.payload.pass
                   THEN "Success" ELSE "Failed")

-----------------------------------------------------------------------------
(* evaluateWorkflowProgress *)

Blocked(leg, l, item, running) ==
  IF /\ item.status = "NotStarted"
     /\ ~WorkerRuns(running, l, item)
     /\ DependencyBlocks(leg, item)
  THEN [item EXCEPT !.status = "Blocked"] ELSE item

BlockOnce(leg, l, running) ==
  LET After(attempt) ==
        [attempt EXCEPT !.items = [k \in DOMAIN attempt.items |->
                                     Blocked(leg, l, attempt.items[k], running)]]
  IN [leg EXCEPT !.attempts = [a \in DOMAIN leg.attempts |-> After(leg.attempts[a])]]

(* propagateDependencyBlocks: round after round until nothing changes. *)
PropagatedBlocks(leg, l, running) ==
  LET rounds == Len(AllItems(leg))
      after[n \in 0..rounds] == IF n = 0 THEN leg ELSE BlockOnce(after[n - 1], l, running)
  IN after[rounds]

EffectiveStatus(l, item, running) ==
  IF item.status = "NotStarted" /\ WorkerRuns(running, l, item)
  THEN "Running" ELSE item.status

(* Mutant: the first failure is enough, the other workers are not awaited. *)
AttemptVerdictHasty(attempt, l, running) ==
  LET items == ToSet(attempt.items) IN
  CASE attempt.plan = "Failed" -> "Failed"
    [] attempt.plan = "Success" /\ \A item \in items : item.status = "Success" -> "Success"
    [] \E item \in items : item.status \in {"Failed", "Blocked"} -> "Failed"
    [] OTHER -> "Running"

AttemptVerdict(attempt, l, running) ==
  LET items == ToSet(attempt.items) IN
  CASE attempt.plan = "Failed" -> "Failed"
    [] /\ attempt.plan = "Success"
       /\ items # {}
       /\ \A item \in items : EffectiveStatus(l, item, running) = "Success" -> "Success"
    [] /\ attempt.plan = "Success"
       /\ \E item \in items : item.status \in {"Failed", "Blocked"}
       /\ \A item \in items : EffectiveStatus(l, item, running) \in ItemTerminal -> "Failed"
    [] OTHER -> "Running"

(* Mutant: one attempt too many. *)
AttemptsLeftInclusive(leg) == Len(leg.attempts) <= MaxAttempts

AttemptsLeft(leg) == Len(leg.attempts) < MaxAttempts

(* Mutant: a declared next leg is forgotten. *)
HasNextLegPredefined(state, leg, l) == l < state.goals

(* nextLegInit: the next predefined goal, or the one a planner declared. *)
HasNextLeg(state, leg, l) ==
  IF Predefined(state) THEN l < state.goals ELSE leg.next

(* reconcileLeg, on the last leg: the only one that can still be running.   *)
Reconciled(state, running) ==
  LET l == Len(state.legs)
      leg == IF state.legs[l].status = "Running"
             THEN PropagatedBlocks(state.legs[l], l, running) ELSE state.legs[l]
      a == Len(leg.attempts)
      verdict == IF leg.status # "Running" \/ leg.attempts[a].status \in EntityTerminal
                 THEN "Running" ELSE AttemptVerdict(leg.attempts[a], l, running)
      judged == [leg EXCEPT !.attempts[a].status = verdict]
      With(lastLeg) == [state EXCEPT !.legs[l] = lastLeg]
  IN CASE verdict = "Running" -> With(leg)
       [] verdict = "Failed" /\ AttemptsLeft(leg) ->
            With([judged EXCEPT !.attempts = Append(@, NewAttempt)])
       [] verdict = "Failed" /\ ~AttemptsLeft(leg) ->
            [With([judged EXCEPT !.status = "Failed"])
               EXCEPT !.done = TRUE, !.status = "failure"]
       [] verdict = "Success" /\ HasNextLeg(state, leg, l) ->
            [With([judged EXCEPT !.status = "Success"])
               EXCEPT !.legs = Append(@, NewLeg)]
       [] verdict = "Success" /\ ~HasNextLeg(state, leg, l) ->
            [With([judged EXCEPT !.status = "Success"])
               EXCEPT !.done = TRUE, !.status = "success"]

PursuitApplied(state, spec, settlement, running) ==
  LET applied == [state EXCEPT !.legs[spec.leg] = SettledLeg(@, spec, settlement)]
  IN IF applied.done THEN applied ELSE Reconciled(applied, running)

(* What planners and workers may submit. *)
PursuitPayloads(spec) ==
  IF spec.role = "planner"
  THEN {plan \in Plans : plan.nextGoal => spec.leg < MaxLegs}
  ELSE {[pass |-> TRUE], [pass |-> FALSE]}
=============================================================================
