# Formal model of the Ephemeral Agent engine

TLA+ modules, TLC model checks and TLAPS proofs about the engine in
`src/packages`. File references are relative to that directory unless they
start with `src/`. `PROJECT.json` maps every definition to the lines it models.

## 1. Inventory

The repository is a TypeScript monorepo that runs language-model agents.
`agent-core` is the engine, `agent-engine` builds running agents and workflows
from profiles and records, `coding-agent` is the product (sandbox client, tools,
hooks, and the two bundled workflows `ralph_loop` and `pursuit`). All of it is
single-threaded asynchronous JavaScript: code runs to the next `await`, and
anything else may happen there. That is where the difficulty is, and an action of
a model is the code between two awaits.

| Component | State | Operations | Interacts with |
|---|---|---|---|
| Background-task registry `agent-core/src/agents/background/background-task-supervisor.ts` | entries, tags, settling flags, `#changes`, disposed | `register`, `cancel`, `disposeAll`, settle, bounded completion handlers | tools register, the loop waits on `#changes`, handlers publish into the inbox, the run handle disposes |
| Agent loop and run handle `engine/agent-loop.ts`, `engine/run-handle.ts`, `agent-runtime.ts` | where the loop awaits, turns, steer queue, finishing latch, outcome | turn, park, wake, text exit, finish; `steer`, `interrupt`, `outcome` | all of this table's first seven rows |
| Notification inbox `notification/inbox.ts` | pending entries by coalescing key | `publish`, drain | handlers, tools and hooks publish; the loop drains at boundaries |
| Terminal submission gate `tool/terminal.ts` | `finishing`, accepted value | hooks, `blockers`, `beginFinishing`, `onSubmit`, `cancelFinishing` | reads registry, inbox and steer queue, awaits host code |
| Tool batch executor and pipeline `tool/executor.ts`, `tool/pipeline.ts`, `tool/hooks.ts` | lanes, where each call is, results | batch, abort race, hooks and `execute` of a call, terminal calls one by one | the loop, the gate, the tools |
| Event streams `engine/run-handle.ts`, `agent-engine/src/runs/live-event-stream.ts` | buffer, wakers, closed, detached | emit, `next`, `return`, close | every emitter, one consumer |
| Provider client `llm-client/`, `engine/turn.ts`, `engine/conversation.ts` | attempt, visible output, decoder, backoff, idle timer, conversation | encode, stream, decode, retry, salvage, commit | the loop's turn |
| Workflow runtime `agentic-workflows/workflow-runtime.ts` | state of the implementation, node entries, operation queue, launch lists, outcome | start, dispatch, submit, settle, interrupt, finish, deadlock | node runner, workflow implementations |
| Node runner `agent-engine/src/nodes/node-runner.ts` | a node's run, what it submitted, its record | launch, submit, settle, interrupt | runtime's completion port, agent and workflow factories |
| `ralph_loop`, `pursuit` `coding-agent/.ephai/agentic-workflows/*/workflow.mjs` | phases and verdicts; legs, attempts, work-item graph | the hooks `dispatch`, `validateNodeSettlement`, `applyNodeSettlement`, ... | called by the runtime |
| Agent factory, advisors, subagents, workflow factory `agent-engine/src/agents`, `tools`, `agentic-workflows` | runs started, abort listeners, advisor passes, records | start, bridge, advise, delegate, finish | runtime, registry, stores |
| Run stores `agent-engine/src/runs` | a directory per run: `meta.json`, `outcome.json` | create, finish, fail to start | factories, node runner |
| Sandbox gateway client `coding-agent/src/sandbox` | connection attempt, timer, the run's sandbox | call with retries of a refused connection, abort, bind, end | sandbox tools |

**What is hard.** Steers, interrupts, publications and task ends at every await
of the loop; level-triggered waits that must not miss a change; a gate that looks
at three queues and acts after further awaits; tools and handlers abandoned by an
abort or a time-out that answer later; work registered after the run has ended;
lanes that go on while their batch is already answered; next() calls that sleep on
a stream others push to, close and leave; a provider stream that fails after it has
shown something; a sandbox command whose connection breaks after it was sent; a
workflow's submissions, settlements and interrupts racing through one queue
while `start()` dispatches outside it; launches that fail in the middle of a
launch list; records that cannot be written; attempt budgets; a work-item graph that
is searched by name and version over all earlier attempts. `PROJECT.json` lists 40
hazards with their lines and the properties that watch them.

**What makes the components correct.** A task is completed once, by one cause,
and reported unless silent; nothing outlives its run. A run resolves, ends once,
completes only when the model has seen everything it was owed, and commits a
submission at most once. A batch answers each call with what really happened to
it; the consumer is told exactly the log; a sandbox command runs at most once. A
turn shows nothing twice and sends only paired requests. A workflow counts each
node's end once, tells the node the truth about it, ends once and quietly;
`ralph_loop` succeeds only on a unanimous attempt and fails only when the budget is
spent; `pursuit` starts a worker only on satisfied dependencies, judges an attempt
once, and never gets stuck. A record says how its run ended, and an interrupt
reaches what the run started.

## 2. Modules

```
TaskLedger      <--implements--  BackgroundTasks  <--EXTENDS--  AgentRun
                                                                AgentRunProofs
EventStream, GatewayCall  <--EXTENDS--  ToolBatch      ToolBatchProofs
ProviderWires             <--EXTENDS--  ProviderTurn   ProviderTurnProofs
WorkflowRun (any implementation)  <--EXTENDS--  RalphRun   (+ RalphLoop hooks)
                                                PursuitRun (+ Pursuit hooks)
  WorkflowRunProofs               <--EXTENDS--  RalphRunProofs, PursuitRunProofs
EngineRuns                EngineRunsProofs
SequenceLemmas: induction over sequences and FlattenSeq, for the *Proofs
MC*: instances for TLC
```

**TaskLedger** is what the registry promises: a task is opened at most once,
reported at most once, closed for good; after the seal nothing opens and
everything open drains.

**BackgroundTasks** is `RunBackgroundTaskSupervisor`. `path[t][c]` follows each of the three
ways a task can be completed (`Cause`) through teardown,
handler call, handler time-out; `entries`, `settling`, `changes` are the fields
of that name, `orphans` the tasks registered after disposal (`register` stops
them at once), `inHandler` the handlers that are still running, timed out or not.
`#complete` is two actions, `BeginComplete` up to its await and `EndComplete`
after it. `ImplementsLedger` is the refinement: a task's stage is computed from its
entry and handler.

**AgentRun** is one run. `pc` names the await `runAgentLoop` is suspended at;
an action is the code from there to the next one, with `Finish` (the run
handle's `finish()` and the loop's `finally`) inside the action that decides.
Messages are followed by their fate (queued, appended to the conversation, seen
by a committed turn, refused, dropped), which is what the properties ask about; their
text and order are left out. Ordinary tool calls are one unit (`executing`),
which an abort abandons but does not end; ToolBatch has them call by call. The
terminal gate has an action per await: preToolUse hooks and gate, postToolUse
hooks, latch, `onSubmit`, verdict, result.

**ToolBatch** is one batch: `executeBatch` with its lanes and its abort race,
every call's way through `bindTool` (`stage`, `result`, `executed`), the events it
emits (`log`), the handle's stream and its consumer. What an abort abandons goes on and
`Land`s later, where it is dropped. **EventStream** is the stream as a value, an
operator per method, for both classes of it; a `next()` that waits is a count, because
all of them are woken and look again. **GatewayCall** is the client behind a
sandbox tool: dialling, retrying what was refused (and only that: a socket that cannot
be dialled at all fails the call at once), the one timer, the abort, and the end of the
run's binding. The gateway is external: it handles each line it received
once, whether or not anybody listens.

**ProviderTurn** is `runAssistantTurn` over `retryStream`, `withIdleGuard` and a
decoder, from the request to the committed or salvaged message. The layers are
pulled, so a frame is one step through all of them. **ProviderWires** has the two
decoders, the two encoders of a conversation and the error taxonomy; the frames
(`AnthropicSends`, `OpenAiSends`) are what a provider may send next: external.

**WorkflowRun** is `WorkflowRunInstance` with the node runs behind its entries,
for *any* implementation: the hooks are operator constants (`Dispatches`,
`Validates`, `Applied`, ...). `queue`/`op` is the operation queue; `lists` has the
rest of the launch list of each of the two executors (`start()` and the queue),
because a launch is awaited and other code runs meanwhile. `Proceed` is
`#dispatch` with the finish and deadlock checks around it; it nests as the code
does: a failed launch settles its node inside the launch loop and prepends what
the nested dispatch orders. `nodes[i].run` is the node runner: an agent asks
through its terminal tool, is accepted, and reports again when it settles; a
delegated workflow reports once.

**RalphLoop**, **Pursuit** are the hooks of the two bundled workflows as pure
operators; **RalphRun**, **PursuitRun** put them under the runtime and state the
properties of the composition. Goals are told apart only by their version,
prompts and wording are left out; the planner's plan, its validation (fresh ids,
known dependencies, no cycle), the spreading of blocks and the judging of
attempts and legs are complete. That the plan has no cycle is stated without a
search: among any items of it, one waits for none of the others. `Plans` is any set
of plans the submission schema lets through (`PlansAssumption`: at least one item).

**EngineRuns** is the layer above both: the runs one owner starts, an agent
through `run_subagent`, `ask_advisor` and `delegate_agentic_workflow`, a workflow
as its nodes. `at` follows the start of a run over the awaits of its factory, its
tool or the node runner, `record` is its directory, `answer` the promise of its
bridged handle, `listening` the abort listener, `heard` what came back. The run
itself is only "running", told to stop, or ended: that is AgentRun and
WorkflowRun. Every write may fail. A call may enter `execute()` after the abort, when its
preToolUse hooks took that long (`HooksAnswer`), and `start()` of a workflow works its
list of launches off whatever the queue has decided meanwhile (`Launches`): what begins so
late is part of every property here. The advisory gate is there too: advisor and gate know
a submission as it is written (`asked`, `gated`, `passes`), `onSubmit` what the schema
makes of it (`Parse`, `accepted`), and two ways to write one outcome are two submissions.

## 3. Runs

| Run | Question | Bounds | Distinct states |
|---|---|---|---|
| `registry` | Is every task completed once, whatever the order of settle, cancel, dispose, time-outs and late handlers; does the registry implement the ledger? | 3 tasks: two share a tag, one silent | 12 000 |
| `run_text` | What does a text-mode run owe host and model when it completes; can the park miss a wake-up; does it resolve? | 3 turns, 1 steer, 2 tasks (1 silent), 2 notifications | 630 000 |
| `run_terminal` | Does the submission gate hold up to the finish; does an interrupt stop a run nobody answers? | 3 turns, 2 terminal calls per message, 1 steer, 1 task, 3 notifications (2 share a key) | 900 000 |
| `tool_batch` | Do answers, events and executions agree whatever the abort, the hooks, the socket and the timer do; is the consumer told the log; does an interrupted batch end? | 4 batches of up to 3 calls over 2 lanes, 1 retry, 1 task event, 2 open `next()` calls | 527 200 |
| `provider_turn` | Is nothing shown twice, is every request paired, does a turn end although the provider falls silent? | both wires, 6 frames, 2 turns, 1 retry | 460 000 |
| `ralph` | Does the runtime count and answer every node's end once, does it end with no node left running, and does `ralph_loop` spend exactly its budget? | 2 attempts, agent planner, delegated reviewer and critic, failing launches, interrupt | 330 000 |
| `pursuit` | Do dependencies, plans, attempts and legs stay consistent under every order of node ends? | 2 legs, 2 attempts, 6 plans, dynamic and predefined goals, interrupt | 660 000 |
| `engine_runs` | Do records tell the truth, does an interrupt reach every run, is an outcome accepted only as advised? | 2 children of an agent or a workflow, 4 submissions (2 of one outcome, 1 that does not parse), every write may fail | 184 200 |
| `steer_dropped`, `accepted_cancelled`, `launched_twice`, `timeout_after_connect` | findings, section 6 | | |

**Properties that may need a word.** `CompletesWithNothingOwed` and
`ReportsReachTheModel` relate the outcome to the fate of every message: they
fail if a removal overtakes the report it stands for. `NoLostWakeup` says a
parked loop has a wake-up due or a task still to be completed, and that the change
counter counts every removal. `CommitIsExclusive` (the latch is given back
on every rejection, nobody submits after an acceptance) and
`FinishIsFinal` cover what stragglers, two terminal calls in a message and late
registrations may do. `TaskLifecycle` joins what the registry owes one task: one
completion path, one owner of the settling flag, one handler call, one tag. `EndsAgree` says
that workflow and node run agree on each end and that it is counted once; it is what
`node-runner.ts:102` relies on when it reads "already finished" as success.
`ItemsAreTheirOwn` (pursuit) has one node per item, an item's status from its own
node, and unique keys; it holds when launches do not fail, and `OneNodePerItem` is
violated when they do (section 6). `OutcomeIsEarned` joins, for each of the two
workflows, what a success and what a failure must have behind it. `AttemptsClose`
says that no late settlement and no spreading block rewrites a judged attempt.
`AnswersAreTrue` ties the answer to the model, the event to the host and the execution
of the tool together. `NoCommandAfterAbort` says what the retries and the stragglers of an
interrupted run may not do: nobody listens to the abort between two attempts, and an
`execute()` may still be entered, but no command line goes out. `EndsQuietly` is checked of
both workflows: of `ralph_loop` with launches that fail in the middle of a launch list, of
`pursuit`, which launches a worker twice then (section 6), without. `TypeOK` has the
turn budget; it is checked in terminal mode, where an empty wake prompts the model again
and must cost a turn. `ShownOnce` compares what was shown with what is committed,
delta by delta, each stamped with its turn, attempt and frame. `InterruptReachesAll`
states its one exception: a foreground subagent or advisor whose abort listener is
attached after the abort (`run-subagent.ts:35`) runs on. `AcceptedAsAdvised` is about the
submission as it was read: an advisor's pass of the same outcome written otherwise would
not do.

**Why the bounds are enough.** Two tasks or three show every pair of callers of
the same task and a tag conflict; two notifications with one key show coalescing;
three turns allow a turn, a park and a turn after the wake-up; two terminal calls
show the second submission after an acceptance and after a rejection. Two lanes and
three calls fill the lanes and leave one call waiting (the code has eight lanes: more of the
same); two open `next()` calls show a push that wakes more calls than it has
events for. Six frames are an interrupted text, a tool call and its terminal event; two
turns show a conversation with results; one retry is a first, a middle and a last
attempt. Two attempts show a retry and a spent budget; two legs a goal that is
carried over; the six plans are two parallel items, a chain, an item that depends on an
earlier attempt's, a cycle (to be refused), a replaced leg goal that reuses a name, and a
next leg. Two children show an advisor beside a task it must not overlook. What
the bounds cut off, more of the same, is what the proofs cover.
Every bound is a constant commented as such: `MaxTerminal`, `MaxSubmissions`,
`MaxNodes`, `MaxTaskEvents`, `MaxNext`, `MaxFrames`; `Lanes`, `MaxTurns`,
`MaxAttempts`, `MaxLegs` and `MaxRetries` are the program's own limits, made small.

Each property of a passing run has a mutant of the code that violates it
(definitions commented "Mutant").

**Deadlock checking** is off because every one of these systems is meant to come
to rest.

## 4. Fairness

- `AgentRun!Spec`: weak fairness of `LoopAlone`, the loop's own steps. The event
  loop runs ready continuations; a provider stream is idle-guarded
  (`llm-client/retry.ts`); hooks and `onSubmit` are taken to settle. `StartTurn`,
  `Wake` and the gate are in it; a tool answering is not.
- `ToolsAnswer` and `TasksEnd` are hypotheses *inside* the properties that need
  them: tools return, `cancel()` settles, timers fire; and tasks end by
  themselves. `InterruptStops` needs neither; `NoTaskSurvives` only the first.
- `ToolBatch!Spec`: weak fairness of the loop, of a woken `next()`, and of terminal
  calls, which an interrupted batch still awaits: their hooks and `onSubmit` are
  taken to settle, as in AgentRun. Nothing is assumed of ordinary tools, their hooks or the
  gateway, which is the point of `AbortEndsBatch`.
- `ProviderTurn!Spec`: weak fairness of the turn's start, of the sleep and of the watchdog
  (timers), and of the opening of a stream, which the sdk's time-out bounds. No frame
  need ever come.
- `EngineRuns` is checked for safety only: whether its runs end is the business of
  the two specifications above it stands on.
- The host owes nothing: it need not steer, publish, interrupt or cancel.
- `WorkflowRun!Spec`: weak fairness of the runtime's steps and of each node. A
  launch returns or rejects, an agent is bounded by its turn budget, a node told to stop
  stops. `WorkflowEnds` and `SubmissionsAreAnswered` use it.
- `pursuit` is checked for safety only: with its hooks inside `ENABLED` the
  liveness graph is out of TLC's reach. `NeverDeadlocked` says that it is never
  without a node to wait for; the runtime's own liveness is checked in `ralph`.

## 5. Proofs

All for any number of tasks, messages, turns, calls, lanes, retries, nodes and runs,
and any workflow.

**Registry** (first half of `AgentRunProofs`). `TasksInv` adds to the type a life cycle
of every task: at most one completion path has begun, the settling flag is set
exactly when one has, an active path has its entry and a finished one has not, and
the handler has been called exactly as often as the path says. `OneCompletionPath`
alone is not inductive: that a second caller finds the settling flag set has to
be known. Theorems: `TasksTypeCorrect`, `LifeCycleHolds`, `OneCompletionPathHolds`,
`CompletionOwedHolds`, `SettlingHasOwnerHolds`, `DisposedIsClosingHolds`
and `TagsUniqueHolds` (an open entry has its tag alone, because `register` looks at all of
them, settling or not), their conjunction `TaskLifecycleHolds`, and `ImplementsLedgerSafety`: every step of the registry is a step of the ledger
or a stutter.

**Run** (second half of `AgentRunProofs`). `RunInv` contains `TasksInv` and adds, among others:
the loop, the outcome and the registry end together; a drained message is unseen
only during a turn; a latch is held only by a deciding or an accepted submission;
a parked loop has tasks to wait for or the counter has moved since; and
`GateHolds`: between the gate and the finish the registry stays empty and no report
of a task that answered in time can turn up. The last one is why a completed run
owes nothing although three awaits lie between gate and finish. Theorems: `TypeCorrect`,
`RunInvariant`, `CompletesWithNothingOwedHolds`, `ReportsReachTheModelHolds`,
`NoLostWakeupHolds`, `LatchIsReleasedHolds`, `OneAcceptanceHolds` and the two together,
`CommitIsExclusiveHolds`, the action
property `FinishIsFinalHolds`, and `RunKeepsLedger`.

**Workflow runtime** (`WorkflowRunProofs`). `Good` is the type of the runtime's
variables with `WorkflowInv`: a settlement is counted exactly when the entry
leaves "running"; an agent that is reporting has a completed entry; a queued
settlement is never a completion; an operation that answered "accept" completed
its entry; and while an interrupt waits, none of the nodes it told to stop
completes. It is proved for every implementation whose hooks are well typed
(`HooksTyped(W, S, P, K)`: sets of states, specs and payloads closed under the hooks, and
a set of pairs of a state and a spec that belongs to it), which is a hypothesis of the
theorems and not an assumption of the module. `Linked(K)` says that every node there is, and
every one still on a launch list, belongs to the state the runtime is in: what a dispatch
orders belongs when it is ordered, and `Applied` and `Ended` lose nothing that belongs
(`Carries`). That is how an implementation's facts about its own state reach the nodes that run
on its behalf, over launches that are awaited while other settlements are applied.
Theorems: `WorkflowInvariant`, `CountedOnceHolds`, `ToldTheTruthHolds`, and the two
together, `EndsAgreeHolds`. `RunTypesHold` adds the ranges of what `Good` leaves untyped: an
operation, a launch list, an outcome and a node's end take only the values they may.

A last part is about runs whose launches do not fail (`~LaunchMayFail`) and whose first dispatch
orders one node (`StartsWithOne`), of any implementation. `StepKinds(S, P)` says all that a step
can be for the workflow: its state and outcome stay and at most the head of the launch list is
claimed (`Continues`); the run begins (`Begins`); one settlement of a running node is applied,
with nothing left to launch (`Accepts`); or an interrupt ends the run (`Stops`). It rests on
`Orderly` (all launches but the first are the queue's, made while an operation executes, and an
interrupt is stopping exactly the nodes that run) and on `PendingInv` (what waits to be applied
is the one thing its node has said). `StepInOrder` proves that both are kept and that every
step is of a kind, so an implementation's proof treats four kinds of step instead of each action.
`RalphRunProofs` shares `PendingInv`, `PursuitRunProofs` uses all of it.

**ralph_loop** (`RalphRunProofs`). Its hooks meet `HooksTyped` for any attempt budget
(`RalphHooksTyped`), so the runtime's theorems hold of its runs: `RalphCountedOnce`,
`RalphToldTheTruth`, `RalphEndsAgree`, `RalphTypesHold`. `RalphInv` adds to `Good` four parts. `SequenceInv`: the nodes are strictly ordered by
attempt and role, and until the workflow is done only the last one runs, the one the state
stands at. `ControlInv`: a launch list never has a second entry, the queue's list launches
only while its node runs, and nothing is launched while an interrupt stops the nodes.
`PendingInv`: a submission that waits is the one thing its node has said, so an entry
completes with the verdict that was applied. `HistoryInv`: the roles before the current one
have passed in this attempt and every earlier attempt has a node that failed or said no.
The outcome cannot be read off the state alone, hence the last; and the last is not
inductive without the other three, since a second running node, a second launch or a second
submission could apply a verdict to a phase it was not meant for. Theorems: `RalphInvariant`,
`OneNodePerPhaseHolds`, `OutcomeIsEarnedHolds`, `RalphEndsQuietly`, `OutcomeIsFinalHolds`,
for any attempt budget.

**pursuit** (`PursuitRunProofs`), for any attempt budget, any goals and any plans. A leg is in
order (`LegOK`) when its parts have their types; when its attempts are within the budget, only the last
of them is open, and that only in an open leg, and what was judged was planned and is done with
its items (`ShapeOK`); and when its items form a graph (`GraphOK`): no two share
name and goal version (`KeysDiffer`), every dependency names an item of the same version
(`DepsResolve`), and no version is ahead of the leg's, those of the version in force being in
attempts consistent with it (`VersionsFit`). Every operator of the hooks gets
a lemma that it keeps a leg in order and only moves it forward (`LegMoves`, `Grows`): a success
stays a success, a name and a version go on standing for the same item, a judged attempt is not
touched. For the blocks this goes through `PropagatedBlocks`' recursive function, whose
existence is proved for it (`RoundsExist`). `Belongs` then says what a node needs of the state: its attempt is there, and a
worker's item is in it with every dependency succeeded; and, as facts that belong as well, what every
judged attempt looks like. `PursuitHooksTyped` gives `HooksTyped` with these pairs, and
`PursuitInv` is `Good` with `Linked(PursuitPairs)`. `DependenciesFirst` is not
inductive alone: a dependency is looked up by name and version over all attempts of the leg, first match
first, so a later plan that reused a key would change what an earlier worker waited for; it needs
`KeysDiffer`, which rests on the ids of a plan being fresh in its version. Theorems:
`PursuitInvariant`, `PursuitTypesHold`, `DependenciesFirstHolds`, `AttemptsCloseHolds`,
`UniqueKeysHold` (the first part of `ItemsAreTheirOwn`), `PursuitEndsAgree`.

Who did what needs more, and holds only while launches do not fail: with failing ones a worker
is launched twice (section 6, `launched_twice`), so `OwnInvariant` and what follows from it
assume `~LaunchMayFail`, as `MCPursuitRun.cfg` does. `OwnInv` puts the nodes beside the items.
`NodesFit`: a spec has one node; a spec still to be launched has none and stands in the
state as not started; the status at which a spec stands there (of the plan for a planner, of
the item for a worker) is the one its node earned (`OwnStatus`), and what stands as succeeded
or failed has a node that was counted. `RunFit`: until the pursuit is done every node that was not
counted is running, and when it is done nothing waits. Neither is inductive without the
other, nor without `PendingInv`: a dispatch passes over what runs and not over what is about to
be launched, so two dispatches would order an item twice if one could begin before the lists of
the other were empty, which `StepKinds` excludes. Theorems: `OwnInvariant`,
`ItemsAreTheirOwnHolds`.

`EarnedInv` adds the reasons of what was decided. `StateSound`: a leg stands as its last
attempt does, the attempts before it have failed, a success has items that all succeeded, a failure
has a plan or an item that failed or was blocked, a blocked item has a dependency that did not
succeed (`BlocksFounded`), and a failed leg has spent its attempts. `Declared`: a leg whose last
planner asked for a next goal knows it. The outcome is `Won` or `Lost` by the last leg. With
`OwnInv` each of these statuses is what some node did, which is how `OutcomeIsEarnedHolds`
names the nodes behind an outcome.

`QuietInv` keeps the run from standing still. `Sane`: a plan that was accepted has items, of any of
them one waits for none of them (`NoCycle`, which is the cycle check of a submission), and no
item is ever cancelled. Suppose a settlement leaves no node running and the pursuit not done. Then the
last attempt has no plan and its planner is ordered; or it has items that were not started. Of
these `NoCycle` gives one that waits for none of the others, so its dependencies are judged;
none of them failed or was blocked, since `PropagatedBlocks` has left the leg `Stable`
(`BlocksSettle`: each round blocks an item or changes nothing, and there are as many rounds as items); so
it is ready and ordered. When a pursuit was won or lost every attempt was judged, so nothing stands
as not started and by `NodesFit` every node was counted (`EndsSettled`); an interrupt takes down
what runs. Theorem: `PursuitEndsQuietly`.

**Batch** (`ToolBatchProofs`). `BatchInv` joins: `StageInv`, where a call may be in the
pipeline and what it has been executed, denied and dialled by then; `PhaseInv`, which
calls have settled when the batch is past its lanes or answered, unless it was aborted;
`LaneInv`, as many calls under way as there are lanes while one waits; `ReportInv`, a call
is reported exactly when it settled, once, with its result; `AnswerInv`, what was answered
for a settled call is its result and for any other is "interrupted"; `StreamInv`, the log is
what the consumer took, what waits for it, and what only the tap saw; and `CallInv` of every
gateway call. None of the properties is inductive alone: that no event follows
`run_finished` rests on all calls having settled or the abort dropping the rest. The
order of `StartedAll` is a rank in a finite set, and that every rank is taken follows
from the well-foundedness of the naturals (`LeastNatural` in SequenceLemmas). Theorems:
`BatchInvariant`, `BatchTypeCorrect`, `AnswersAreTrueHolds`, `BatchIsOrderedHolds`,
`StreamTellsTheRunHolds`, `RunsAtMostOnceHolds`, `NoCommandAfterAbortHolds`; the last rests
on `QuietInv`: after the abort no connection is under way, and none is opened again.

**Provider calls** (`ProviderTurnProofs`), for both wires. `TurnInv` adds to the types four
parts. `OneAttempt`: everything shown in a turn is stamped by the current attempt, and once
something is shown the visible flag is set, so no second attempt can begin. `TurnTold`: while a
stream is read, what was shown is, for text, reasoning and calls alike, what the decoder has
collected together with what its open block has shown so far (`Assembled`); at a boundary it is
what the last assistant message says. `TurnAsked`: the request built from the conversation has its
calls answered (`Paired`), and every call in it is of an earlier turn (`Dated`), which is why the
calls of the turn to be committed cannot be mistaken for any of them. `TurnBounds` keeps attempt
and turn numbers in range. `ShownOnce` is not inductive without the second: the committed
message is made by the decoder, which on the responses wire puts reasoning, text and calls
together by kind at the end. `RequestsArePaired` needs besides that the calls of a message differ
(`CallsDiffer`), which the decoder owes to the frame number in each stamp. Below it are lemmas about the
operators: what `Said`, `Keep`, `Entries`, the encoders' items and a request make of one more block
or message (`SaidAppend`, `KeepAppend`, `RequestAppend`), that `Keep` keeps exactly what it should, in
order and distinct, and one lemma per decoder (`AnthropicDecodes`, `OpenAiDecodes`). They rest on
`SequenceLemmas`: the existence and uniqueness of the recursive function inside `FlattenSeq`, that
`FlattenSeq` of one more sequence appends it, where in it each element of a part is placed
(`FlattenPlaces`, for the items of a leg), and induction over sequences, stated for a set
of sequences instead of a predicate. Theorems: `TurnInvariant`, `TurnTypeCorrect`,
`ShownOnceHolds`, `RequestsArePairedHolds`.

**Engine's runs** (`EngineRunsProofs`). `EngineInv` says of each run how far it may be
when its record, its answer and its owner say something, that a listener is attached as long
as a foreground run is awaited unless the signal had fired before, and that a gated
submission has its pass, nothing beside it that may still open a task, and parses to what
is accepted. Theorems: `EngineInvariant`, `RunsTypeCorrect`,
`RecordsTellTheTruthHolds`, `InterruptReachesAllHolds`, `AcceptedAsAdvisedHolds`.

**Only model-checked:** liveness (the drain of the ledger after its seal, `InterruptStops`,
`NoTaskSurvives`, `Totality`, `AbortEndsBatch`, `TurnsEnd`, `EverybodyIsAnswered`), which
is out of the provers' reach.

**Assumptions.** Only a tool's `execute()` registers tasks
(`agent-engine/src/tools/agent/run-subagent.ts:43`,
`delegate-agentic-workflow.ts:33`). `disposeAll` is called once, by the finish.
A payload that reaches the runtime has been parsed by the outcome's schema (both
callers do). `deadlock()` of a bundled workflow always reports when asked. The
host interrupts a workflow once: a second interrupt queued behind the first finds
the run finished. The inputs of terminal calls parse in ToolBatch: AgentRun has what a
refused one does. The gateway handles a line it received once. The provider sdk
ends a stream that is aborted and bounds the opening of one.

## 6. Findings

| Run | What the text says | What the code does |
|---|---|---|
| `steer_dropped` | `run-handle.ts:272`: a commit-window steer is refused, not accepted-but-dropped | The gate is read before the awaited postToolUse hooks, the latch is set after them (`terminal.ts:82`, `:90`): a steer in between is accepted and discarded by the finish |
| `accepted_cancelled` | `terminal.ts:43`: once `onSubmit` accepts, nothing can stop the finish | The executor drops a result that arrives after the abort (`executor.ts:56`): an interrupt while `onSubmit` decides gives an accepted submission and a cancelled run |
| `launched_twice` | `design_workflow.md:319`: claims prevent duplicate launches | A failed launch dispatches again inside the launch loop, before the rest of the list is claimed (`workflow-runtime.ts:288`, `:314`): a worker is launched twice |
| `timeout_after_connect` | `gateway-client.ts:30`: the time-out bounds the connecting, the gateway may not yet be listening | The timer is started with the connection and cleared only at the end (`gateway-client.ts:176`, `:184`): a command the gateway received and works on is reported as "gateway connect timeout" |

Four things the models show that no text contradicts. Nothing in the product calls
`SandboxService.runBinding.acquire`, so with the shipped wiring a sandbox tool
answers with an error before it dials (`bound` is FALSE throughout; the runs check both). And a node
whose settlement rejects, because its record cannot be written, is never heard of: its
workflow waits for ever (`node-runner.ts:240`), which is why `RecordsTellTheTruth` speaks
of what was heard and not of everything that ended, and why `EverybodyIsAnswered` takes a
node's settlement to settle. A foreground run handed over after the abort gets a listener
that never fires (`run-subagent.ts:35`). And a workflow whose start fails after its nodes
were launched is recorded as `start_failed` while they run
(`agentic-workflow-factory.ts:239`). The properties name these cases as what they do not
claim.

## 7. Not modelled, and the plan

- **Out of the provider client**: token counts, cache breakpoints, effort and tool-choice
  encoding, credentials, the registry of models: lookups and formatting without state.
- **Out of the engine's runs**: the event lines and snapshots appended while a run goes on,
  the readers, the workflow loader (imports and validates modules). Advisor passes are
  never consumed in the code, and not in the model.
- **Sandbox tools, configuration files, command scripts, bootstrap**: argument shaping and
  file reading around the parts above.
- **pursuit's context store** (`workflow.mjs:790-1186`): answers queries, changes nothing.
- **Test kits and end-to-end suites**: read for what the code promises.
- Wording, timestamps and layout throughout.

Only partly modelled: the notification inbox. AgentRun has which notifications are pending
and which were coalesced, not that a coalesced one keeps its place in the drain.

Left to do: the order of the inbox as a refinement of AgentRun's sets.

## 8. Running

```
tlasany AgentRun.tla
tlc -workers 2 -config MCAgentRunText.cfg MCAgentRun
tlapm AgentRunProofs.tla
```
