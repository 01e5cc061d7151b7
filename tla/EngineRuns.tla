------------------------------ MODULE EngineRuns ------------------------------
(***************************************************************************)
(* The runs one owner starts in the engine, from the call to the record on *)
(* disk: an agent's tools run_subagent, ask_advisor and delegate_workflow, *)
(* and a workflow's node launches, over AgentFactory, AgenticWorkflow-     *)
(* Factory, the run stores with their bridges, and the advisory gate       *)
(* (agent-engine/src: tools/, agents/, agentic-workflows/, runs/, nodes/). *)
(*                                                                         *)
(* A step is the code between two awaits.  The run itself is one of core   *)
(* (AgentRun, WorkflowRun): it runs, may be told to stop, and ends.  Every *)
(* write to the store may fail.                                            *)
(***************************************************************************)
EXTENDS Naturals, FiniteSets

CONSTANTS
  Owners,     \* what the owner may be: a subset of {"agent", "workflow"}
  Children,   \* the runs it may start
  Payloads,   \* the submissions an advisor may be asked about, as they are
              \* written: raw inputs of the terminal call, in canonical form
  Outcomes,   \* what the schema of the outcome makes of them
  Parse       \* schema.safeParse: an outcome, or none

None == "none"

ASSUME OwnerAssumption == Owners \subseteq {"agent", "workflow"}
ASSUME ParseAssumption == Parse \in [Payloads -> Outcomes \cup {None}]

VARIABLES
  kind,      \* what each child is started as
  at,        \* how far its start, and then its owner with it, is
  run,       \* the run of core
  record,    \* its run directory: meta.json, then outcome.json
  answer,    \* the outcome() promise of its bridged handle
  listening, \* an abort listener on the owner's signal is attached
  node,      \* the node run's own directory
  heard,     \* what reached the owner
  asked      \* what an advisor is asked about

VARIABLES
  owner,     \* "agent" or "workflow"
  advised,   \* its outcome is bound to an advisor
  aborted,   \* the owner's abort signal
  over,      \* the owner's run has ended, its tasks are disposed
  passes,    \* AdvisorPassRegistry, of this owner
  gated,     \* the submission whose preToolUse hooks have passed
  accepted   \* the outcome onSubmit accepted

childVars == <<kind, at, run, record, answer, listening, node, heard, asked>>
ownerVars == <<owner, advised, aborted, over, passes, gated, accepted>>
vars == <<childVars, ownerVars>>

NodeKinds == {"agent node", "workflow node"}

(* What buildAgentSpec gives an agent to start runs with: the advisor only  *)
(* with an advisory binding.  A workflow launches nodes.                    *)
KindsOf(o, bound) ==
  IF o = "workflow" THEN NodeKinds
  ELSE {"subagent", "background", "delegated"} \cup (IF bound THEN {"advisor"} ELSE {})

IsWorkflow(c) == kind[c] \in {"delegated", "workflow node"}
IsNode(c) == kind[c] \in NodeKinds
IsTask(c) == kind[c] \in {"background", "delegated"}

Starts == {"idle", "hooking", "launching", "creating", "starting", "bridging", "projecting",
           "failing", "refused", "awaited", "open", "told"}
Ends == {"completed", "failed", "cancelled"}
Ended(c) == run[c] \in Ends

Init ==
  /\ owner \in Owners
  /\ advised \in IF owner = "agent" THEN BOOLEAN ELSE {FALSE}
  /\ kind \in [Children -> KindsOf(owner, advised)]
  /\ at = [c \in Children |-> "idle"]
  /\ run = [c \in Children |-> None]
  /\ record = [c \in Children |-> None]
  /\ answer = [c \in Children |-> None]
  /\ listening = [c \in Children |-> FALSE]
  /\ node = [c \in Children |-> None]
  /\ heard = [c \in Children |-> None]
  /\ asked \in [Children -> Payloads]
  /\ \A c \in Children : kind[c] # "advisor" => asked[c] = CHOOSE p \in Payloads : TRUE
  /\ aborted = FALSE
  /\ over = FALSE
  /\ passes = {}
  /\ gated = None
  /\ accepted = None

(* Mutant: an interrupted run is over at once. *)
StoppedAtOnce(r) == IF r = "running" THEN "interrupted" ELSE r

(* An interrupt of a run that has ended does nothing. *)
Stopped(r) == IF r = "running" THEN "stopping" ELSE r

(* Tool calls and launches that have not returned, node runs not settled. *)
Calling == {c \in Children : \/ at[c] \notin {"idle", "refused", "open", "told"}
                             \/ at[c] = "refused" /\ node[c] = "running" /\ heard[c] = None}
OpenTasks == {c \in Children : at[c] = "open"}

Moves(c, place) == at' = [at EXCEPT ![c] = place]

-----------------------------------------------------------------------------
(* The start of a run. *)

Goes(c, place) ==
  /\ Moves(c, place)
  /\ UNCHANGED <<kind, run, record, answer, listening, node, heard, asked, ownerVars>>

(* An agent's tool is called: its preToolUse hooks are asked.  No call of a *)
(* batch begins after the abort, and none beside a terminal call.           *)
Calls(c) ==
  /\ ~IsNode(c)
  /\ at[c] = "idle"
  /\ ~aborted /\ ~over /\ gated = None
  /\ Goes(c, "hooking")

(* The hooks have answered: a denied call is over, any other enters         *)
(* execute() without a look at the signal, however long they took.          *)
HooksAnswer(c) ==
  /\ at[c] = "hooking"
  /\ \E place \in {"creating", "refused"} : Goes(c, place)

(* NodeRunner.launch().  start() works its list of launches off while the   *)
(* queue may interrupt or finish the workflow, and looks at neither.        *)
Launches(c) ==
  /\ IsNode(c)
  /\ at[c] = "idle"
  /\ Goes(c, "launching")

(* The node run's directory; without one launch() throws. *)
NodeRecorded(c) ==
  /\ at[c] = "launching"
  /\ \/ Moves(c, "creating") /\ node' = [node EXCEPT ![c] = "running"]
     \/ Moves(c, "refused") /\ UNCHANGED node
  /\ UNCHANGED <<kind, run, record, answer, listening, heard, asked, ownerVars>>

(* start() threw before it had a run directory: a tool reports an error. *)
Refused(c) == at[c] = "creating" /\ Goes(c, "refused")

(* Unknown profile, tool or subagent, or mkdir fails. *)
CreateAgentThrows(c) == ~IsWorkflow(c) /\ Refused(c)

(* Unknown workflow, arguments that do not parse, or mkdir fails. *)
CreateWorkflowThrows(c) == IsWorkflow(c) /\ Refused(c)

Creates(c, place, state) ==
  /\ at[c] = "creating"
  /\ Moves(c, place)
  /\ record' = [record EXCEPT ![c] = "running"]
  /\ run' = [run EXCEPT ![c] = state]
  /\ UNCHANGED <<kind, listening, node, heard, asked, ownerVars>>

(* buildAgentSpec, or createImplementation, throws. *)
BuildThrows(c) == Creates(c, "failing", None) /\ UNCHANGED answer

(* The agent's run of core begins in the step that finds the directory      *)
(* made, and is bridged at once: from here on its end is recorded.          *)
AgentBegins(c) ==
  /\ ~IsWorkflow(c)
  /\ Creates(c, "bridging", "running")
  /\ answer' = [answer EXCEPT ![c] = "pending"]

(* runtime.start() of a workflow is awaited, with its nodes launching. *)
WorkflowBegins(c) == IsWorkflow(c) /\ Creates(c, "starting", "running") /\ UNCHANGED answer

(* runtime.start() threw: what it has launched by then runs on. *)
StartThrows(c) == at[c] = "starting" /\ Goes(c, "failing")

(* bridgeWorkflowRun up to registerHandle. *)
Bridged(c) ==
  /\ at[c] = "starting"
  /\ answer' = [answer EXCEPT ![c] = "pending"]
  /\ Moves(c, "projecting")
  /\ UNCHANGED <<kind, run, record, listening, node, heard, asked, ownerVars>>

(* projectInitialContext threw: the workflow runs, its handle is dropped. *)
ProjectionFails(c) == at[c] = "projecting" /\ Goes(c, "failing")

(* failStart of the store, then, for a node, failStart of its own; the      *)
(* owner is told by an exception whether they were written or not.          *)
FailStart(c) ==
  /\ at[c] = "failing"
  /\ record' \in {record, [record EXCEPT ![c] = "start_failed"]}
  /\ Moves(c, "refused")
  /\ UNCHANGED <<kind, run, answer, listening, node, heard, asked, ownerVars>>

NodeFailStart(c) ==
  /\ at[c] = "refused"
  /\ node[c] = "running" /\ heard[c] = None
  /\ node' \in {node, [node EXCEPT ![c] = "start_failed"]}
  /\ heard' = [heard EXCEPT ![c] = "error"]
  /\ UNCHANGED <<kind, at, run, record, answer, listening, asked, ownerVars>>

(* Mutant: register() adopts a task whenever it comes. *)
RegisteredAlways(c) == run

(* RunBackgroundTaskSupervisor.register: disposed, it cancels the task. *)
Registered(c) == IF over THEN [run EXCEPT ![c] = Stopped(@)] ELSE run

(* The handle is there.  A tool attaches its listener without a look at the *)
(* signal; createNodeHandle looks; the background ones register a task.     *)
Handed(c) ==
  /\ at[c] \in {"bridging", "projecting"}
  /\ Moves(c, IF ~IsTask(c) THEN "awaited" ELSE IF over THEN "told" ELSE "open")
  /\ listening' = [listening EXCEPT ![c] = ~aborted /\ kind[c] # "delegated"]
  /\ run' = CASE IsTask(c) -> Registered(c)
              [] IsNode(c) /\ aborted -> [run EXCEPT ![c] = Stopped(@)]
              [] OTHER -> run
  /\ UNCHANGED <<kind, record, answer, node, heard, asked, ownerVars>>

-----------------------------------------------------------------------------
(* The end of a run. *)

(* A run that was told to stop may have got to its end by itself. *)
RunEnds(c) ==
  /\ run[c] \in {"running", "stopping"}
  /\ \E how \in Ends :
       /\ how = "cancelled" => run[c] = "stopping"
       /\ run' = [run EXCEPT ![c] = how]
  /\ UNCHANGED <<kind, at, record, answer, listening, node, heard, asked, ownerVars>>

(* Mutant: outcome() does not wait for the record. *)
AnsweredFirst(c) ==
  /\ answer[c] = "pending"
  /\ Ended(c)
  /\ answer' = [answer EXCEPT ![c] = "resolved"]
  /\ UNCHANGED <<kind, at, run, record, listening, node, heard, asked, ownerVars>>

(* store.finish in the bridge: without the record outcome() rejects. *)
FinishRecorded(c) ==
  /\ answer[c] = "pending"
  /\ Ended(c)
  /\ \/ /\ record' = [record EXCEPT ![c] = "finished"]
        /\ answer' = [answer EXCEPT ![c] = "resolved"]
     \/ /\ answer' = [answer EXCEPT ![c] = "rejected"]
        /\ UNCHANGED record
  /\ UNCHANGED <<kind, at, run, listening, node, heard, asked, ownerVars>>

(* The tool returns, throws, or the task settles and publishes; a task that *)
(* was torn down has told already.  An advisor that passed is recorded,     *)
(* also when its caller has been interrupted.                               *)
ToolHears(c) ==
  /\ ~IsNode(c)
  /\ at[c] \in {"awaited", "open"}
  /\ answer[c] \in {"resolved", "rejected"}
  /\ Moves(c, "told")
  /\ \/ /\ heard' = [heard EXCEPT ![c] = IF answer[c] = "rejected" THEN "error" ELSE run[c]]
        /\ UNCHANGED passes
     \/ /\ kind[c] = "advisor" /\ answer[c] = "resolved" /\ run[c] = "completed"
        /\ heard' = [heard EXCEPT ![c] = "passed"]
        /\ passes' = passes \cup {asked[c]}
  /\ UNCHANGED <<kind, run, record, answer, listening, node, asked,
                 owner, advised, aborted, over, gated, accepted>>

(* createNodeHandle's settlement: the delegate's outcome or its rejection,  *)
(* submitted, then the node's events and its record; if they cannot be      *)
(* written the settlement rejects, and the workflow's monitor swallows that.*)
NodeHears(c) ==
  /\ IsNode(c)
  /\ at[c] = "awaited"
  /\ answer[c] \in {"resolved", "rejected"}
  /\ Moves(c, "told")
  /\ \E how \in IF answer[c] = "rejected" THEN {"failed"}
                ELSE IF run[c] = "completed" THEN {"completed", "rejected", "failed"}
                ELSE {run[c]} :
       \/ node' = [node EXCEPT ![c] = "finished"] /\ heard' = [heard EXCEPT ![c] = how]
       \/ UNCHANGED <<node, heard>>
  /\ listening' = [listening EXCEPT ![c] = FALSE]
  /\ UNCHANGED <<kind, run, record, answer, asked, ownerVars>>

-----------------------------------------------------------------------------
(* The owner. *)

(* The signal fires its listeners; a workflow's interrupt() also asks every *)
(* node it has a handle of.                                                 *)
Interrupt ==
  /\ ~aborted /\ ~over
  /\ aborted' = TRUE
  /\ run' = [c \in Children |-> IF listening[c] THEN Stopped(run[c]) ELSE run[c]]
  /\ listening' = [c \in Children |-> FALSE]
  /\ UNCHANGED <<kind, at, record, answer, node, heard, asked,
                 owner, advised, over, passes, gated, accepted>>

(* Mutant: any pass of the run will do. *)
HasAnyPass(p) == passes # {}

(* AdvisorPassRegistry.hasPass: this submission, in canonical form. *)
HasPass(p) == p \in passes

(* requireNoBackgroundTasks and, with a binding, advisorApproval of the raw *)
(* input, for an input that parses, once every other call of the batch has  *)
(* returned.                                                                *)
Gate(p) ==
  /\ owner = "agent" /\ ~aborted /\ ~over /\ gated = None
  /\ Parse[p] # None
  /\ Calling = {}
  /\ OpenTasks = {}
  /\ advised => HasPass(p)
  /\ gated' = p
  /\ UNCHANGED <<childVars, owner, advised, aborted, over, passes, accepted>>

(* onSubmit accepts what the schema made of the input, or the call fails    *)
(* after the hooks.                                                         *)
Submits ==
  /\ gated # None /\ accepted = None
  /\ \/ accepted' = Parse[gated] /\ UNCHANGED gated
     \/ gated' = None /\ UNCHANGED accepted
  /\ UNCHANGED <<childVars, owner, advised, aborted, over, passes>>

(* The run is over: accepted, ended between two batches, or interrupted,    *)
(* which does not wait for the calls.  A workflow waits for every node, and *)
(* for ever for one whose settlement rejected.  Open tasks are torn down.   *)
OwnerEnds ==
  /\ ~over
  /\ \/ aborted \/ accepted # None
     \/ /\ Calling = {} /\ gated = None
        /\ owner = "workflow" => \A c \in Children : at[c] = "told" => heard[c] # None
  /\ over' = TRUE
  /\ run' = [c \in Children |-> IF c \in OpenTasks THEN Stopped(run[c]) ELSE run[c]]
  /\ at' = [c \in Children |-> IF c \in OpenTasks THEN "told" ELSE at[c]]
  /\ UNCHANGED <<kind, record, answer, listening, node, heard, asked,
                 owner, advised, aborted, passes, gated, accepted>>

ChildStep(c) ==
  \/ Calls(c) \/ HooksAnswer(c) \/ Launches(c) \/ NodeRecorded(c)
  \/ CreateAgentThrows(c) \/ CreateWorkflowThrows(c) \/ BuildThrows(c)
  \/ AgentBegins(c) \/ WorkflowBegins(c)
  \/ StartThrows(c) \/ Bridged(c) \/ ProjectionFails(c) \/ FailStart(c) \/ NodeFailStart(c)
  \/ Handed(c) \/ RunEnds(c) \/ FinishRecorded(c) \/ ToolHears(c) \/ NodeHears(c)

Next ==
  \/ \E c \in Children : ChildStep(c)
  \/ Interrupt \/ OwnerEnds \/ Submits
  \/ \E p \in Payloads : Gate(p)

Spec == Init /\ [][Next]_vars

-----------------------------------------------------------------------------
(* The variables have the types of the fields they stand for. *)
RunsTypeOK ==
  /\ owner \in Owners
  /\ advised \in IF owner = "agent" THEN BOOLEAN ELSE {FALSE}
  /\ kind \in [Children -> KindsOf(owner, advised)]
  /\ at \in [Children -> Starts]
  /\ run \in [Children -> {None, "running", "stopping"} \cup Ends]
  /\ record \in [Children -> {None, "running", "start_failed", "finished"}]
  /\ answer \in [Children -> {None, "pending", "resolved", "rejected"}]
  /\ listening \in [Children -> BOOLEAN]
  /\ node \in [Children -> {None, "running", "start_failed", "finished"}]
  /\ heard \in [Children -> {None, "error", "rejected", "passed"} \cup Ends]
  /\ asked \in [Children -> Payloads]
  /\ aborted \in BOOLEAN /\ over \in BOOLEAN
  /\ passes \subseteq Payloads
  /\ gated \in Payloads \cup {None} /\ accepted \in Outcomes \cup {None}

(* The record comes first (agent-run-store.ts:34, node-runner.ts:236): what *)
(* an owner was told of a run's end is what the directory says, whichever   *)
(* writes fail.  An agent whose record says start_failed never ran; of a    *)
(* workflow it says only that nobody holds its handle.                      *)
RecordTellsTheTruth(c) ==
  /\ heard[c] \in Ends /\ ~IsNode(c) => record[c] = "finished" /\ heard[c] = run[c]
  /\ heard[c] \in {"completed", "passed"} => run[c] = "completed" /\ record[c] = "finished"
  /\ node[c] = "finished" => heard[c] # None
  /\ node[c] = "start_failed" => at[c] = "refused"
  /\ record[c] = "finished" => Ended(c)
  /\ record[c] = "start_failed" => at[c] = "refused" /\ (run[c] = None \/ IsWorkflow(c))

RecordsTellTheTruth == \A c \in Children : RecordTellsTheTruth(c)

(* Nothing runs on for an owner that is gone (background-task-supervisor.ts *)
(* :59: "a late registration ... is immediately cancelled"; node-runner.ts  *)
(* :217): after an interrupt every run the owner got a handle of has been   *)
(* stopped, except a foreground one it got after the abort, whose listener  *)
(* came too late; and no task is left in the registry.                      *)
Reached(c) ==
  /\ aborted /\ at[c] = "awaited" /\ run[c] = "running" =>
       kind[c] \in {"subagent", "advisor"} /\ ~listening[c]
  /\ over => at[c] # "open" /\ (IsTask(c) /\ at[c] = "told" => run[c] # "running")

InterruptReachesAll == \A c \in Children : Reached(c)

(* The gate of outcome-advisory.ts: what is accepted of an advised agent is *)
(* the outcome written in exactly the submission that an advisor of this run*)
(* has read and passed, and no task of the run is open or can open any more.*)
AcceptedAsAdvised ==
  accepted # None =>
    /\ OpenTasks = {}
    /\ \A c \in Children : IsTask(c) => at[c] \in {"idle", "refused", "told"}
    /\ advised => \E c \in Children :
         heard[c] = "passed" /\ asked[c] = gated /\ Parse[asked[c]] = accepted
=============================================================================
