------------------------------- MODULE PursuitRun -------------------------------
(***************************************************************************)
(* A run of the pursuit workflow: WorkflowRun with the hooks of Pursuit,   *)
(* and what the two promise together.                                      *)
(***************************************************************************)
EXTENDS WorkflowRun, Pursuit

Legs == DOMAIN wf.legs
Attempts(l) == DOMAIN wf.legs[l].attempts
LastAttempt(l) == Last(wf.legs[l].attempts)

Planners == {i \in DOMAIN nodes : nodes[i].spec.role = "planner"}
Workers == {i \in DOMAIN nodes : nodes[i].spec.role = "worker"}

ItemOf(i) ==
  LET attempt == wf.legs[nodes[i].spec.leg].attempts[nodes[i].spec.attempt]
  IN attempt.items[ItemAt(attempt, nodes[i].spec)]

WorkersOf(l, a, item) == {i \in Workers : nodes[i].spec = WorkerSpec(l, a, item)}

Passed(i) == nodes[i].status = "completed" /\ nodes[i].said = {[pass |-> TRUE]}

-----------------------------------------------------------------------------
ItemTypeOK(item, leg) ==
  /\ item.status \in ItemStatuses
  /\ item.version \in 1..leg.version
  /\ item.deps \subseteq {other.id : other \in ToSet(AllItems(leg))}

(* The types of the pursuit's state; the last leg and the last attempt are  *)
(* the only ones that can be open.                                          *)
PursuitTypeOK ==
  /\ RunTypeOK
  /\ \A l \in Legs :
       /\ wf.legs[l].status \in EntityTerminal \cup {"Running"}
       /\ wf.legs[l].status = "Running" => l = Len(wf.legs)
       /\ Len(wf.legs[l].attempts) \in 1..MaxAttempts
       /\ \A k \in DOMAIN AllItems(wf.legs[l]) :
            ItemTypeOK(AllItems(wf.legs[l])[k], wf.legs[l])
       /\ \A a \in Attempts(l) :
            /\ wf.legs[l].attempts[a].plan \in PlanStatuses
            /\ wf.legs[l].attempts[a].status = "Running" => a = Len(wf.legs[l].attempts)

(* A worker's node is launched only after everything its item depends on    *)
(* has succeeded, and nothing that happens later takes that back            *)
(* (pursuit/workflow.mjs:110).                                              *)
DependenciesFirst ==
  \A i \in Workers : DependenciesSucceeded(wf.legs[nodes[i].spec.leg], ItemOf(i))

(* A plan and a work item get at most one node in the life of the run: the  *)
(* dispatch hook does not claim what it orders, it only sees the nodes that *)
(* are already claimed (workflow-runtime.ts:288).                           *)
OneNodePerItem ==
  \A i, j \in DOMAIN nodes : nodes[i].spec = nodes[j].spec => i = j

(* What the pursuit records of an item is what its node did: success        *)
(* exactly for a pass that was accepted, no node for a blocked item, and a  *)
(* failure only for a node that ended without a pass.                       *)
ItemsMatchNodes ==
  \A l \in Legs : \A a \in Attempts(l) :
    \A item \in ToSet(wf.legs[l].attempts[a].items) :
      LET workers == WorkersOf(l, a, item) IN
      /\ item.status = "Success" <=> \E i \in workers : Passed(i)
      /\ item.status = "Blocked" => workers = {}
      /\ item.status = "Failed" =>
           \E i \in workers : nodes[i].status # "running" /\ ~Passed(i)

(* Items are found by id and goal version over all attempts of a leg, first *)
(* match first (pursuit/workflow.mjs:734): no two may share them.           *)
UniqueKeys ==
  \A l \in Legs :
    LET items == AllItems(wf.legs[l]) IN
    \A j, k \in DOMAIN items :
      items[j].id = items[k].id /\ items[j].version = items[k].version => j = k

(* A work item is its own: of its name and version there is one, it has one *)
(* node, and its status is what that node did.                              *)
ItemsAreTheirOwn == UniqueKeys /\ OneNodePerItem /\ ItemsMatchNodes

(* The pursuit succeeds only when every leg has, each by a last attempt     *)
(* whose items all have, and no further leg is wanted: every predefined     *)
(* goal has had its leg, or the last planner declared no next one.          *)
SuccessIsEarned ==
  outcome = "success" =>
    /\ \A l \in Legs :
         /\ wf.legs[l].status = "Success"
         /\ LastAttempt(l).items # <<>>
         /\ \A item \in ToSet(LastAttempt(l).items) :
              \E i \in WorkersOf(l, Len(wf.legs[l].attempts), item) : Passed(i)
    /\ IF Predefined(wf)
       THEN Len(wf.legs) = wf.goals
       ELSE \A i \in Planners :
              nodes[i].spec.leg = Len(wf.legs)
                /\ nodes[i].spec.attempt = Len(wf.legs[Len(wf.legs)].attempts)
              => \A plan \in nodes[i].said : ~plan.nextGoal

(* The pursuit fails only when a leg has used all its attempts, and each of *)
(* them has a planner that ended without a plan, a worker that did not pass *)
(* or an item held up by one that failed.                                   *)
FailureSpendsBudget ==
  outcome = "failure" =>
    LET l == Len(wf.legs) IN
    /\ Len(wf.legs[l].attempts) = MaxAttempts
    /\ \A a \in Attempts(l) :
         \/ \E i \in Planners : /\ nodes[i].spec = PlannerSpec(l, a)
                                /\ nodes[i].status \in Settled \ {"completed"}
         \/ \E i \in Workers : /\ nodes[i].spec.leg = l
                               /\ nodes[i].spec.attempt = a
                               /\ ~Passed(i)
         \/ \E item \in ToSet(wf.legs[l].attempts[a].items) :
              DependencyBlocks(wf.legs[l], item)

(* An outcome of a pursuit is earned: a success by every leg, a failure by  *)
(* every attempt of the last one.                                           *)
OutcomeIsEarned == SuccessIsEarned /\ FailureSpendsBudget

(* An attempt that was judged stays as it was judged: no late settlement    *)
(* and no block that spreads from a later attempt rewrites its items.       *)
AttemptsClose ==
  [][\A l \in Legs : \A a \in Attempts(l) :
       wf.legs[l].attempts[a].status # "Running" =>
         /\ wf'.legs[l].attempts[a].status = wf.legs[l].attempts[a].status
         /\ wf'.legs[l].attempts[a].items = wf.legs[l].attempts[a].items]_vars
=============================================================================
