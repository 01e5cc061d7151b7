----------------------------- MODULE MCPursuitRun -----------------------------
(* Pursuits whose planners choose among a few plans.  All nodes are         *)
(* delegated workflows, which submit once; MCRalphRun has an agent among    *)
(* its nodes.  The runtime's hooks are bound in the configurations.         *)
EXTENDS PursuitRun

Item(id, deps) == [id |-> id, deps |-> deps]
Plan(items, legGoal, nextGoal) ==
  [items |-> items, legGoal |-> legGoal, nextGoal |-> nextGoal]

One == << Item("x", {}) >>
Two == << Item("x", {}), Item("y", {}) >>
Chain == << Item("x", {}), Item("y", {"x"}) >>
Cycle == << Item("x", {"y"}), Item("y", {"x"}) >>
OnEarlier == << Item("z", {"x"}) >>

\* Two items at once, a chain, a plan that leans on an earlier attempt's item,
\* a cycle, a new leg goal that reuses a name, and a next leg; the last two are
\* refused where the leg goals are predefined.
MCPlans ==
  { Plan(Two, FALSE, FALSE), Plan(Chain, FALSE, FALSE), Plan(OnEarlier, FALSE, FALSE),
    Plan(Cycle, FALSE, FALSE), Plan(One, TRUE, FALSE), Plan(One, FALSE, TRUE) }

\* Dynamic leg goals, or two predefined ones.
MCInitialStates == { PursuitInitial(goals) : goals \in {0, 2} }
MCKindOf(spec) == "workflow"
=============================================================================
