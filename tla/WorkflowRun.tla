------------------------------ MODULE WorkflowRun ------------------------------
(***************************************************************************)
(* One run of an agentic workflow                                          *)
(* (agent-core/src/agentic-workflows/workflow-runtime.ts) with the node    *)
(* runs it launches (agent-engine/src/nodes/node-runner.ts), for any       *)
(* workflow implementation.                                                *)
(*                                                                         *)
(* Submissions, settlements and interrupts go through one operation queue. *)
(* An operation is synchronous up to the launches it orders; those are     *)
(* awaited one by one.  start() dispatches outside the queue, so there are *)
(* two executors of launch lists.                                          *)
(***************************************************************************)
EXTENDS Integers, Sequences, FiniteSets

CONSTANTS
  InitialStates,        \* createInitialState, for each args: records with at
                        \* least "done" and "status" (WorkflowStateBase)
  Dispatches(_, _),     \* dispatch(state, running): a sequence of specs
  Validates(_, _, _),   \* validateNodeSettlement(state, spec, settlement)
  Applied(_, _, _, _),  \* applyNodeSettlement, then evaluateWorkflowProgress,
                        \* of (state, spec, settlement, running)
  Payloads(_),          \* what the node of a spec may submit
  KindOf(_),            \* "agent" or "workflow": what a spec is bound to
  LaunchMayFail,        \* whether nodeRunner.launch() may reject
  MaxSubmissions,       \* bound: submissions of one node (its turn budget)
  MaxNodes              \* bound: the nodes a run can launch (fairness only)

ASSUME BoundAssumption == LaunchMayFail \in BOOLEAN /\ MaxSubmissions \in Nat

VARIABLES
  wf,        \* #state, the implementation's state
  nodes,     \* #nodes, with the node run behind each entry
  lists,     \* what is left of the launch list of each executor
  queue,     \* operations waiting
  op,        \* the operation being executed
  aborted,   \* the run's abort signal
  started,   \* start(): "no", "dispatching", "handed" (the host has the
             \* handle) or "threw"
  outcome    \* "none" until #finish

vars == <<wf, nodes, lists, queue, op, aborted, started, outcome>>

Executors == {"start", "queue"}
Idle == [at |-> 0, todo |-> <<>>]

Unsettled == {"working", "asking", "accepted", "reporting"}
Settled == {"completed", "rejected", "failed", "cancelled"}
NodeStatuses == {"running"} \cup Settled

(* An entry of #nodes as #claimDispatch makes it.  "run" is the node run    *)
(* behind it, "tries" and "said" what it submitted, "counted" how often a   *)
(* settlement of it was applied to the workflow's state.                    *)
Entry(spec) ==
  [spec |-> spec, status |-> "running", launched |-> FALSE,
   run |-> "working", tries |-> 0, said |-> {}, counted |-> 0]

NoOp == [kind |-> "none", node |-> 0, verdict |-> "none", running |-> {}]
Operation(kind, i, what) == [kind |-> kind, node |-> i, what |-> what]

Running(ns) == {i \in DOMAIN ns : ns[i].status = "running"}
RunningSpecs(ns) == {ns[i].spec : i \in Running(ns)}

Completed(payload) == [status |-> "completed", payload |-> payload]
Unfinished(status) == [status |-> status, payload |-> "none"]

-----------------------------------------------------------------------------
(* #dispatch with the finish and deadlock checks around it, up to the next  *)
(* launch: "rest" is what an enclosing dispatch has still to launch.        *)

Order(state, ns) == IF state.done THEN <<>> ELSE Dispatches(state, RunningSpecs(ns))

(* #deadlockIfIdle *)
IsStuck(state, ns) ==
  ~state.done /\ Order(state, ns) = <<>> /\ Running(ns) = {}

(* #finish keeps the first outcome. *)
OutcomeAfter(state, ns) ==
  IF outcome # "none" THEN outcome
  ELSE IF state.done THEN state.status
  ELSE IF IsStuck(state, ns) THEN "deadlocked" ELSE "none"

(* Claim the next dispatch of executor x, or end its launch list. *)
Claim(x, ns, todo) ==
  IF todo = <<>>
  THEN /\ nodes' = ns
       /\ lists' = [lists EXCEPT ![x] = Idle]
  ELSE /\ nodes' = Append(ns, Entry(Head(todo)))
       /\ lists' = [lists EXCEPT ![x] = [at |-> Len(ns) + 1, todo |-> Tail(todo)]]

(* The runtime ends the workflow itself (deadlock(), interrupt()). *)
Ended(state, status) == [state EXCEPT !.done = TRUE, !.status = status]

Proceed(x, state, ns, rest) ==
  /\ wf' = IF IsStuck(state, ns) THEN Ended(state, "deadlocked") ELSE state
  /\ outcome' = OutcomeAfter(state, ns)
  /\ Claim(x, ns, Order(state, ns) \o rest)

(* A node's settlement, counted into the workflow's state. *)
Counted(entry, settlement) ==
  [entry EXCEPT !.status = settlement.status, !.counted = @ + 1]

Count(i, settlement) == [nodes EXCEPT ![i] = Counted(@, settlement)]

ApplySettlement(x, i, settlement, ns, rest) ==
  Proceed(x, Applied(wf, nodes[i].spec, settlement, RunningSpecs(ns)), ns, rest)

Init ==
  /\ wf \in InitialStates
  /\ nodes = <<>>
  /\ lists = [x \in Executors |-> Idle]
  /\ queue = <<>>
  /\ op = NoOp
  /\ aborted = FALSE
  /\ started = "no"
  /\ outcome = "none"

(* start(): the first dispatch, not an operation of the queue. *)
Start ==
  /\ started = "no"
  /\ started' = "dispatching"
  /\ Proceed("start", wf, nodes, <<>>)
  /\ UNCHANGED <<queue, op, aborted>>

(* The launch list of start() is worked off: the host gets the handle. *)
HandOver ==
  /\ started = "dispatching"
  /\ lists["start"] = Idle
  /\ started' = "handed"
  /\ UNCHANGED <<wf, nodes, lists, queue, op, aborted, outcome>>

-----------------------------------------------------------------------------
(* Launches. *)

(* nodeRunner.launch() returned: the handle is kept and monitored. *)
LaunchReturns(x) ==
  /\ lists[x] # Idle
  /\ Claim(x, [nodes EXCEPT ![lists[x].at].launched = TRUE], lists[x].todo)
  /\ UNCHANGED <<wf, queue, op, aborted, started, outcome>>

(* An exception leaves every enclosing dispatch and start() or the          *)
(* operation that was dispatching.                                          *)
Throw(x) ==
  /\ lists' = [lists EXCEPT ![x] = Idle]
  /\ started' = IF x = "start" THEN "threw" ELSE started
  /\ op' = IF x = "queue" THEN [op EXCEPT !.verdict = "threw"] ELSE op

(* Mutant: a failed launch is judged by the workflow, and its entry is left *)
(* as it was claimed.                                                       *)
LaunchFailsUnsettled(x) ==
  /\ LaunchMayFail
  /\ lists[x] # Idle
  /\ LET i == lists[x].at IN
     /\ nodes[i].status = "running"
     /\ Validates(wf, nodes[i].spec, Unfinished("failed"))
     /\ ApplySettlement(x, i, Unfinished("failed"), nodes, lists[x].todo)
  /\ UNCHANGED <<op, started, queue, aborted>>

(* launch() rejected, before or after the node run was started; the node is *)
(* settled as failed on the spot, in the middle of the launch list.         *)
LaunchFails(x) ==
  /\ LaunchMayFail
  /\ lists[x] # Idle
  /\ LET i == lists[x].at IN
     \E run \in {nodes[i].run, IF nodes[i].tries = 0 THEN "absent" ELSE nodes[i].run} :
       IF /\ nodes[i].status = "running"
          /\ Validates(wf, nodes[i].spec, Unfinished("failed"))
       THEN /\ ApplySettlement(x, i, Unfinished("failed"),
                 [Count(i, Unfinished("failed")) EXCEPT ![i].run = run],
                 lists[x].todo)
            /\ UNCHANGED <<op, started>>
       ELSE /\ nodes' = [nodes EXCEPT ![i].run = run]
            /\ Throw(x)
            /\ UNCHANGED <<wf, outcome>>
  /\ UNCHANGED <<queue, aborted>>

-----------------------------------------------------------------------------
(* The operation queue. *)

Take(kind) ==
  /\ op = NoOp
  /\ queue # <<>>
  /\ Head(queue).kind = kind
  /\ queue' = Tail(queue)

Begun(verdict) ==
  [kind |-> Head(queue).kind, node |-> Head(queue).node, verdict |-> verdict,
   running |-> {}]

(* Both kinds of completion look at the entry first. *)
StillRunning(i) == nodes[i].status = "running"

(* #submitNodeCompletion.  The payload is one the outcome's schema accepts: *)
(* the terminal tool and settle() have parsed it before they submit.        *)
TakeSubmission ==
  /\ Take("submit")
  /\ LET i == Head(queue).node
         settlement == Completed(Head(queue).what)
     IN IF StillRunning(i) /\ Validates(wf, nodes[i].spec, settlement)
        THEN /\ ApplySettlement("queue", i, settlement, Count(i, settlement), <<>>)
             /\ op' = Begun("accept")
        ELSE /\ op' = Begun(IF StillRunning(i) THEN "reject" ELSE "finished")
             /\ UNCHANGED <<wf, nodes, lists, outcome>>
  /\ UNCHANGED <<aborted, started>>

(* #settleNodeRun of a monitored settlement; a throw is swallowed. *)
TakeSettlement ==
  /\ Take("settle")
  /\ LET i == Head(queue).node
         settlement == Unfinished(Head(queue).what)
     IN IF StillRunning(i) /\ Validates(wf, nodes[i].spec, settlement)
        THEN /\ ApplySettlement("queue", i, settlement, Count(i, settlement), <<>>)
             /\ op' = Begun("settled")
        ELSE /\ op' = Begun("threw")
             /\ UNCHANGED <<wf, nodes, lists, outcome>>
  /\ UNCHANGED <<aborted, started>>

(* Mutant: the run is taken down again after it has finished. *)
TakeInterruptLate ==
  /\ Take("interrupt")
  /\ op' = [Begun("stopping") EXCEPT !.running = Running(nodes)]
  /\ aborted' = TRUE
  /\ UNCHANGED <<wf, nodes, lists, started, outcome>>

(* #interrupt: nothing after the finish; otherwise every running node is    *)
(* told to stop and the operation waits for their interrupt() calls.        *)
TakeInterrupt ==
  /\ Take("interrupt")
  /\ IF outcome # "none"
     THEN op' = Begun("void") /\ UNCHANGED aborted
     ELSE /\ op' = [Begun("stopping") EXCEPT !.running = Running(nodes)]
          /\ aborted' = TRUE
  /\ UNCHANGED <<wf, nodes, lists, started, outcome>>

(* The nodes have been told: they and the workflow are cancelled. *)
FinishInterrupt ==
  /\ op.verdict = "stopping"
  /\ nodes' = [i \in DOMAIN nodes |->
                 IF i \in op.running THEN [nodes[i] EXCEPT !.status = "cancelled"]
                                     ELSE nodes[i]]
  /\ wf' = Ended(wf, "failure")
  /\ outcome' = "cancelled"
  /\ op' = [op EXCEPT !.verdict = "cancelled"]
  /\ UNCHANGED <<lists, queue, aborted, started>>

(* Mutant: "already finished" is success for any submission of an agent. *)
AfterAnswerTrusting(kind, run, verdict) ==
  CASE run = "asking" ->
         IF verdict \in {"accept", "finished"} THEN "accepted" ELSE "working"
    [] run = "reporting" ->
         IF verdict \in {"accept", "finished"} THEN "completed" ELSE "rejected"
    [] OTHER -> run

(* What a node run makes of the answer to its submission: an agent that was *)
(* accepted may end; settle() takes "already finished" for success when the *)
(* node is an agent, which has submitted once before (node-runner.ts:102).  *)
AfterAnswer(kind, run, verdict) ==
  CASE run = "asking" -> IF verdict = "accept" THEN "accepted" ELSE "working"
    [] run = "reporting" ->
         IF verdict = "accept" \/ (verdict = "finished" /\ kind = "agent")
         THEN "completed"
         ELSE IF verdict = "threw" THEN "failed" ELSE "rejected"
    [] OTHER -> run

(* The operation's launches are done: it resolves, and the next may begin. *)
EndOperation ==
  /\ op # NoOp
  /\ op.verdict # "stopping"
  /\ lists["queue"] = Idle
  /\ op' = NoOp
  /\ nodes' = IF op.kind # "submit" THEN nodes
              ELSE [nodes EXCEPT ![op.node].run =
                           AfterAnswer(KindOf(nodes[op.node].spec), @, op.verdict)]
  /\ UNCHANGED <<wf, lists, queue, aborted, started, outcome>>

-----------------------------------------------------------------------------
(* The node runs and the host. *)

Enqueue(kind, i, what) ==
  /\ queue' = Append(queue, Operation(kind, i, what))
  /\ UNCHANGED <<wf, lists, op, aborted, started, outcome>>

EnqueueNothing == UNCHANGED <<wf, lists, queue, op, aborted, started, outcome>>

Submitting(entry, run, payload) ==
  [entry EXCEPT !.run = run, !.tries = @ + 1, !.said = {payload}]

(* The terminal tool of the agent behind node i calls completion.submit(). *)
AgentSubmits(i, payload) ==
  /\ KindOf(nodes[i].spec) = "agent"
  /\ nodes[i].run = "working"
  /\ nodes[i].tries < MaxSubmissions
  /\ nodes' = [nodes EXCEPT ![i] = Submitting(@, "asking", payload)]
  /\ Enqueue("submit", i, payload)

(* settle() of an agent whose run completed submits its outcome again. *)
AgentReports(i) ==
  /\ KindOf(nodes[i].spec) = "agent"
  /\ nodes[i].run = "accepted"
  /\ nodes' = [nodes EXCEPT ![i].run = "reporting"]
  /\ \E payload \in nodes[i].said : Enqueue("submit", i, payload)

(* settle() of a delegated workflow that succeeded submits once. *)
WorkflowReports(i, payload) ==
  /\ KindOf(nodes[i].spec) = "workflow"
  /\ nodes[i].run = "working"
  /\ nodes' = [nodes EXCEPT ![i] = Submitting(@, "reporting", payload)]
  /\ Enqueue("submit", i, payload)

(* The node run ends without an outcome: it fails, a delegated workflow     *)
(* returns what the outcome's schema refuses, or the abort stops it, which  *)
(* does not wait for the answer to a submission.                            *)
RunEnds(i, how) ==
  /\ \/ how = "failed" /\ nodes[i].run = "working"
     \/ how = "rejected" /\ nodes[i].run = "working" /\ KindOf(nodes[i].spec) = "workflow"
     \/ how = "cancelled" /\ aborted
                          /\ nodes[i].run \in {"working", "asking", "accepted"}
  /\ nodes' = [nodes EXCEPT ![i].run = how]
  /\ EnqueueNothing

(* Mutant: a node run that failed is not reported to the workflow. *)
MonitorIgnoresFailures(i) ==
  /\ nodes[i].launched
  /\ nodes[i].run \in {"rejected", "cancelled"}
  /\ StillRunning(i)
  /\ nodes' = [nodes EXCEPT ![i].run = "heard"]
  /\ Enqueue("settle", i, nodes[i].run)

(* #monitorNodeSettlement: an unfinished node that is still counted on is   *)
(* settled through the queue; any other settlement is ignored.              *)
Monitor(i) ==
  /\ nodes[i].launched
  /\ nodes[i].run \in {"rejected", "failed", "cancelled"}
  /\ StillRunning(i)
  /\ nodes' = [nodes EXCEPT ![i].run = "heard"]
  /\ Enqueue("settle", i, nodes[i].run)

(* The host interrupts once it has the handle; a second call would find the *)
(* run finished.                                                            *)
Interrupt ==
  /\ started = "handed"
  /\ ~aborted
  /\ outcome = "none"
  /\ op.kind # "interrupt"
  /\ \A k \in DOMAIN queue : queue[k].kind # "interrupt"
  /\ UNCHANGED nodes
  /\ Enqueue("interrupt", 0, "none")

RuntimeStep ==
  \/ Start \/ HandOver
  \/ \E x \in Executors : LaunchReturns(x) \/ LaunchFails(x)
  \/ TakeSubmission \/ TakeSettlement \/ TakeInterrupt
  \/ FinishInterrupt \/ EndOperation

NodeStep(i) ==
  \/ \E payload \in Payloads(nodes[i].spec) :
       AgentSubmits(i, payload) \/ WorkflowReports(i, payload)
  \/ AgentReports(i)
  \/ \E how \in {"failed", "rejected", "cancelled"} : RunEnds(i, how)
  \/ Monitor(i)

Next ==
  \/ RuntimeStep
  \/ \E i \in DOMAIN nodes : NodeStep(i)
  \/ Interrupt

Safety == Init /\ [][Next]_vars

(* The runtime's promises are settled by the event loop; a launch returns   *)
(* or rejects; an agent is bounded by its turn budget and a node that was   *)
(* told to stop stops.  The host need not interrupt.                        *)
Spec ==
  /\ Safety
  /\ WF_vars(RuntimeStep)
  /\ \A i \in 1..MaxNodes : WF_vars(i \in DOMAIN nodes /\ NodeStep(i))

-----------------------------------------------------------------------------
EntryTypeOK(entry) ==
  /\ entry.status \in NodeStatuses
  /\ entry.launched \in BOOLEAN
  /\ entry.run \in Unsettled \cup Settled \cup {"absent", "heard"}
  /\ entry.tries \in 0..MaxSubmissions + 1
  /\ entry.counted \in Nat

(* The types of the runtime's own variables; a launch list is at an entry   *)
(* that exists.                                                             *)
RunTypeOK ==
  /\ \A i \in DOMAIN nodes : EntryTypeOK(nodes[i])
  /\ \A x \in Executors : lists[x].at \in 0..Len(nodes)
  /\ \A k \in DOMAIN queue : /\ queue[k].kind \in {"submit", "settle", "interrupt"}
                              /\ queue[k].node \in 0..Len(nodes)
  /\ op.node \in 0..Len(nodes)
  /\ op.running \subseteq DOMAIN nodes
  /\ aborted \in BOOLEAN
  /\ started \in {"no", "dispatching", "handed", "threw"}
  /\ outcome \in {"none", "success", "failure", "deadlocked", "cancelled"}

(* A node's end is counted once into the workflow, although an agent node   *)
(* submits its outcome twice and its settlement is monitored as well        *)
(* (workflow-runtime.ts:173 and 223); an entry cancelled by an interrupt is *)
(* not counted.                                                             *)
CountedOnce ==
  \A i \in DOMAIN nodes :
    /\ nodes[i].counted <= 1
    /\ nodes[i].status = "running" => nodes[i].counted = 0
    /\ nodes[i].status \in {"completed", "failed", "rejected"} => nodes[i].counted = 1

(* What a node run was told agrees with the workflow: an agent whose        *)
(* submission was accepted, and a node run recorded as completed, have an   *)
(* entry that completed.  This is what reading "already finished" as        *)
(* success relies on (node-runner.ts:102).                                  *)
ToldTheTruth ==
  \A i \in DOMAIN nodes :
    nodes[i].run \in {"accepted", "completed"} => nodes[i].status = "completed"

(* However its submissions, its settlement and an interrupt race, the       *)
(* workflow and the node run agree on how a node ended, and it is counted   *)
(* once.                                                                    *)
EndsAgree == CountedOnce /\ ToldTheTruth

(* When the workflow has finished none of its nodes is left running: the    *)
(* implementation closes the run only when all have settled, and an         *)
(* interrupt takes every running one down.                                  *)
QuietFinish == outcome # "none" => Running(nodes) = {}

(* The finish is final: no late submission, settlement or interrupt changes *)
(* the outcome or the state it was read from.                               *)
OutcomeIsFinal ==
  [][outcome # "none" => outcome' = outcome /\ wf' = wf]_vars

(* The bundled workflows always have a node to run until they are done. *)
NeverDeadlocked == outcome # "deadlocked"

(* A run comes to an end with nothing stuck and nothing running. *)
EndsQuietly == QuietFinish /\ NeverDeadlocked

(* The workflow run finishes. *)
WorkflowEnds == <>(outcome # "none")

(* A node run that asked is answered: onSubmit is never left hanging. *)
SubmissionsAreAnswered ==
  \A i \in 1..MaxNodes :
    (i \in DOMAIN nodes /\ nodes[i].run = "asking")
      ~> (i \in DOMAIN nodes /\ nodes[i].run # "asking")

(* The workflow and whoever waits for it get their answers. *)
EverybodyIsAnswered == WorkflowEnds /\ SubmissionsAreAnswered

-----------------------------------------------------------------------------
(* The inductive invariant behind CountedOnce and ToldTheTruth: what an     *)
(* entry, a waiting operation and the executing one may say at any time.    *)
EntryInv(entry) ==
  /\ entry.counted <= 1
  /\ entry.status = "running" => entry.counted = 0
  /\ entry.status \in {"completed", "failed", "rejected"} => entry.counted = 1
  /\ entry.run \in {"accepted", "completed"} => entry.status = "completed"
  /\ entry.run = "reporting" /\ KindOf(entry.spec) = "agent"
       => entry.status = "completed"

NodesInv(ns) == \A i \in DOMAIN ns : EntryInv(ns[i])

(* Operations are about entries that exist, and a settlement in the queue   *)
(* is never a completion.                                                   *)
WaitingInv(waiting) ==
  /\ waiting.kind # "interrupt" => waiting.node \in DOMAIN nodes
  /\ waiting.kind = "settle" => waiting.what \in {"rejected", "failed", "cancelled"}

(* A submission answered with "accept" completed its entry, and no entry    *)
(* completes while an interrupt waits for the nodes it told to stop.        *)
OperationInv ==
  /\ op.kind = "submit" => op.node \in DOMAIN nodes
  /\ op.kind = "submit" /\ op.verdict = "accept" => nodes[op.node].status = "completed"
  /\ op.verdict = "stopping" =>
       /\ op.running \subseteq DOMAIN nodes
       /\ \A i \in op.running : nodes[i].status \in {"running", "failed"}

WorkflowInv ==
  /\ NodesInv(nodes)
  /\ \A k \in DOMAIN queue : WaitingInv(queue[k])
  /\ OperationInv
=============================================================================
