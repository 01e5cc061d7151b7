------------------------------- MODULE AgentRun -------------------------------
(***************************************************************************)
(* One agent run: the loop (agent-core/src/agents/engine/agent-loop.ts),   *)
(* the run handle the host holds (engine/run-handle.ts), the notification  *)
(* inbox, the submission gate (agents/agent-runtime.ts) and the terminal   *)
(* tool (agents/tool/terminal.ts), over the task registry of               *)
(* BackgroundTasks.                                                        *)
(*                                                                         *)
(* The code is single threaded; "pc" names the await the loop is suspended *)
(* at and an action is the code from one await to the next.  The host may  *)
(* steer, interrupt and publish, and tasks may settle, at every await.     *)
(***************************************************************************)
EXTENDS BackgroundTasks

CONSTANTS
  Mode,          \* "text" or "terminal": TerminationMode.kind
  MaxTurns,      \* ctx.maxTurns
  MaxTerminal,   \* bound: terminal calls in one assistant message
  Steers,        \* the user messages the host may queue
  Notes,         \* the notifications that may be published
  KeyOf          \* KeyOf[n]: the coalescing key of a notification

ASSUME ModeAssumption == Mode \in {"text", "terminal"}
ASSUME TurnsAssumption == MaxTurns \in Nat /\ MaxTerminal \in Nat

VARIABLES
  pc,          \* where the loop is suspended
  turns,       \* committed assistant turns
  atRest,      \* the last turn made no calls (pendingText, in text mode)
  since,       \* tasksSince: the change counter captured at the boundary
  batch,       \* what is left of the tool batch
  aborted,     \* the run's abort signal
  finishing,   \* the finishing latch, set and cleared with "submitting"
  accepted,    \* onSubmit accepted a submission: the host has committed
  executing,   \* ordinary execute() calls are outstanding; an abort
               \* abandons them, it does not end them
  steer,       \* the fate of each user message
  note,        \* the fate of each notification
  outcome      \* the run's outcome, "none" while it runs

runVars == <<pc, turns, atRest, since, batch, aborted, finishing, accepted,
             executing, steer, note, outcome>>
vars == <<taskVars, runVars>>

Awaits == {"boundary", "parked", "turn", "restHook", "batchHook", "batch",
           "terminal", "preHook", "postHook", "submit", "verdict", "done"}

(* queued: pending; appended: in the conversation, no turn committed since; *)
(* seen: an assistant turn committed with it in the conversation; refused:  *)
(* not accepted; replaced: coalesced away; dropped: discarded by finish().  *)
SteerFates == {"unsent", "refused", "queued", "appended", "seen", "dropped"}
NoteFates == {"unsent", "refused", "queued", "replaced", "appended", "seen"}

Outcomes == {"completed", "max_turns", "provider_error", "internal",
             "cancelled"}

finished == outcome # "none"

PendingSteers == {s \in Steers : steer[s] = "queued"}
Inbox == {n \in Notes : note[n] = "queued"}

NoBatch == [ordinary |-> FALSE, calls |-> 0, result |-> FALSE]

Init ==
  /\ TasksInit
  /\ pc = "boundary"
  /\ turns = 0
  /\ atRest = FALSE
  /\ since = 0
  /\ batch = NoBatch
  /\ aborted = FALSE
  /\ finishing = FALSE
  /\ accepted = FALSE
  /\ executing = FALSE
  /\ steer = [s \in Steers |-> "unsent"]
  /\ note = [n \in Notes |-> "unsent"]
  /\ outcome = "none"

-----------------------------------------------------------------------------
(* Messages of one fate that move to another. *)
Move(msgs, from, to) ==
  [m \in DOMAIN msgs |-> IF msgs[m] = from THEN to ELSE msgs[m]]

(* RunHandle.finish() and the loop's finally block, one synchronous piece:  *)
(* pending steers are discarded and the registry is disposed.  "queue" is   *)
(* the steer queue as the deciding block leaves it.                         *)
Finish(o, queue) ==
  /\ outcome' = o
  /\ finishing' = TRUE
  /\ steer' = Move(queue, "queued", "dropped")
  /\ pc' = "done"
  /\ DisposeAll

KeepRunning == UNCHANGED <<outcome, taskVars>>

-----------------------------------------------------------------------------
(* The boundary: loop top to the next await (agent-loop.ts:115-159). *)

BoundaryCancelled ==
  /\ pc = "boundary"
  /\ aborted
  /\ Finish("cancelled", steer)
  /\ UNCHANGED <<turns, atRest, since, batch, aborted, accepted, executing,
                 note>>

(* Nothing new to tell the model after a bare-text turn. *)
EmptyWake == atRest /\ PendingSteers = {} /\ Inbox = {}

(* Empty wake with the gate open: complete with the text already there. *)
BoundaryCompletes ==
  /\ pc = "boundary"
  /\ ~aborted
  /\ EmptyWake
  /\ entries = {}
  /\ Mode = "text"
  /\ Finish("completed", steer)
  /\ since' = changes
  /\ UNCHANGED <<turns, atRest, batch, aborted, accepted, executing, note>>

Park ==
  /\ pc = "boundary"
  /\ ~aborted
  /\ EmptyWake
  /\ entries # {}
  /\ pc' = "parked"
  /\ since' = changes
  /\ KeepRunning
  /\ UNCHANGED <<turns, atRest, batch, aborted, finishing, accepted, executing,
                 steer, note>>

(* Neither of the two exits above: what was drained is in the conversation. *)
MustPrompt == ~aborted /\ ~(EmptyWake /\ (entries # {} \/ Mode = "text"))

DrainedSteers == Move(steer, "queued", "appended")
DrainedNotes == Move(note, "queued", "appended")

(* Mutant: one turn too many. *)
BudgetLeftInclusive == turns <= MaxTurns

(* Mutant: a prompt with nothing new in it does not count. *)
BudgetLeftForEmptyWakes == EmptyWake \/ turns < MaxTurns

(* The turn budget, checked before every prompt. *)
BudgetLeft == turns < MaxTurns

TurnBudgetSpent ==
  /\ pc = "boundary"
  /\ MustPrompt
  /\ ~BudgetLeft
  /\ Finish("max_turns", DrainedSteers)
  /\ note' = DrainedNotes
  /\ since' = changes
  /\ UNCHANGED <<turns, atRest, batch, aborted, accepted, executing>>

StartTurn ==
  /\ pc = "boundary"
  /\ MustPrompt
  /\ BudgetLeft
  /\ pc' = "turn"
  /\ atRest' = FALSE
  /\ since' = changes
  /\ steer' = DrainedSteers
  /\ note' = DrainedNotes
  /\ KeepRunning
  /\ UNCHANGED <<turns, batch, aborted, finishing, accepted, executing>>

(* Mutant: task removals do not wake the park. *)
WakeIgnoresTasks == aborted \/ PendingSteers # {} \/ Inbox # {}

(* Mutant: the park does not listen to the abort signal. *)
WakeIgnoresAbort == PendingSteers # {} \/ Inbox # {} \/ changes # since

(* waitForWake: any of the three level-triggered waits, or the abort. *)
WakeEnabled == aborted \/ PendingSteers # {} \/ Inbox # {} \/ changes # since

Wake ==
  /\ pc = "parked"
  /\ WakeEnabled
  /\ pc' = "boundary"
  /\ KeepRunning
  /\ UNCHANGED <<turns, atRest, since, batch, aborted, finishing, accepted,
                 executing, steer, note>>

-----------------------------------------------------------------------------
(* The provider turn. *)

(* The stream died: classifyLoopError looks at the signal, not the error. *)
TurnFails ==
  /\ pc = "turn"
  /\ \E error \in {"provider_error", "internal"} :
       Finish(IF aborted THEN "cancelled" ELSE error, steer)
  /\ UNCHANGED <<turns, atRest, since, batch, aborted, accepted, executing,
                 note>>

(* What the model had in front of it when the turn committed. *)
CommitTurn ==
  /\ pc = "turn"
  /\ turns' = turns + 1
  /\ note' = Move(note, "appended", "seen")

SeenSteers == Move(steer, "appended", "seen")

(* Mutant: the inbox is forgotten. *)
TextGateNoInbox == PendingSteers = {} /\ entries = {}

(* The text exit's predicate, the same one that ends a park. *)
TextGate == PendingSteers = {} /\ entries = {} /\ Inbox = {}

(* A bare-text turn in text mode with the gate open ends the run. *)
TextExit ==
  /\ CommitTurn
  /\ Mode = "text"
  /\ TextGate
  /\ Finish("completed", SeenSteers)
  /\ UNCHANGED <<atRest, since, batch, aborted, accepted, executing>>

(* A bare-text turn that does not end the run: the boundary hook runs. *)
BareText ==
  /\ CommitTurn
  /\ ~(Mode = "text" /\ TextGate)
  /\ steer' = SeenSteers
  /\ atRest' = TRUE
  /\ pc' = "restHook"
  /\ KeepRunning
  /\ UNCHANGED <<since, batch, aborted, finishing, accepted, executing>>

(* A turn with tool calls; only terminal mode has a terminal tool. *)
ToolTurn(ordinary, calls) ==
  /\ CommitTurn
  /\ ordinary \/ calls > 0
  /\ Mode = "text" => calls = 0
  /\ steer' = SeenSteers
  /\ batch' = [ordinary |-> ordinary, calls |-> calls, result |-> FALSE]
  /\ pc' = "batchHook"
  /\ KeepRunning
  /\ UNCHANGED <<atRest, since, aborted, finishing, accepted, executing>>

RestHookDone ==
  /\ pc = "restHook"
  /\ pc' = "boundary"
  /\ KeepRunning
  /\ UNCHANGED <<turns, atRest, since, batch, aborted, finishing, accepted,
                 executing, steer, note>>

-----------------------------------------------------------------------------
(* The tool batch (tool/executor.ts): ordinary calls first, raced against   *)
(* the abort, then the terminal calls one by one.                           *)

BatchHookDone ==
  /\ pc = "batchHook"
  /\ IF batch.ordinary /\ ~aborted
     THEN pc' = "batch" /\ executing' = TRUE
     ELSE pc' = "terminal" /\ UNCHANGED executing
  /\ KeepRunning
  /\ UNCHANGED <<turns, atRest, since, batch, aborted, finishing, accepted,
                 steer, note>>

(* Every lane settled. *)
OrdinaryDone ==
  /\ pc = "batch"
  /\ pc' = "terminal"
  /\ executing' = FALSE
  /\ KeepRunning
  /\ UNCHANGED <<turns, atRest, since, batch, aborted, finishing, accepted,
                 steer, note>>

(* The abort wins the race: the batch settles, the calls run on. *)
OrdinaryAbandoned ==
  /\ pc = "batch"
  /\ aborted
  /\ pc' = "terminal"
  /\ KeepRunning
  /\ UNCHANGED <<turns, atRest, since, batch, aborted, finishing, accepted,
                 executing, steer, note>>

(* Abandoned calls end whenever they do; their results are dropped. *)
StragglersEnd ==
  /\ executing
  /\ pc # "batch"
  /\ executing' = FALSE
  /\ KeepRunning
  /\ UNCHANGED <<pc, turns, atRest, since, batch, aborted, finishing, accepted,
                 steer, note>>

(* Dispatch of the next terminal call; an invalid submission is answered    *)
(* at once, a valid one goes to the preToolUse hooks.                       *)
TerminalCall ==
  /\ pc = "terminal"
  /\ ~aborted
  /\ batch.calls > 0
  /\ batch' = [batch EXCEPT !.calls = @ - 1]
  /\ pc' \in {"terminal", "preHook"}
  /\ KeepRunning
  /\ UNCHANGED <<turns, atRest, since, aborted, finishing, accepted, executing,
                 steer, note>>

(* Mutant: notifications do not block a submission. *)
BlockedNoInbox == entries # {} \/ PendingSteers # {} \/ finishing

(* Mutant: an earlier acceptance does not block a submission. *)
BlockedNoLatch == entries # {} \/ Inbox # {} \/ PendingSteers # {}

(* gate.blockers(): open tasks, undrained notifications, queued steers, and *)
(* a submission already accepted in this batch.                             *)
Blocked == entries # {} \/ Inbox # {} \/ PendingSteers # {} \/ finishing

(* The hooks deny the call, or pass it to the gate. *)
PreHookDone ==
  /\ pc = "preHook"
  /\ pc' \in IF Blocked THEN {"terminal"} ELSE {"terminal", "postHook"}
  /\ KeepRunning
  /\ UNCHANGED <<turns, atRest, since, batch, aborted, finishing, accepted,
                 executing, steer, note>>

PostHookDenies ==
  /\ pc = "postHook"
  /\ pc' = "terminal"
  /\ KeepRunning
  /\ UNCHANGED <<turns, atRest, since, batch, aborted, finishing, accepted,
                 executing, steer, note>>

(* gate.beginFinishing(), and onSubmit is called. *)
BeginSubmit ==
  /\ pc = "postHook"
  /\ finishing' = TRUE
  /\ pc' = "submit"
  /\ KeepRunning
  /\ UNCHANGED <<turns, atRest, since, batch, aborted, accepted, executing,
                 steer, note>>

(* Mutant: the rejection leaves the latch set. *)
SubmitRejectedKeepsLatch ==
  /\ pc = "submit"
  /\ pc' = "terminal"
  /\ KeepRunning
  /\ UNCHANGED <<turns, atRest, since, batch, aborted, finishing, accepted,
                 executing, steer, note>>

(* onSubmit rejected or threw: gate.cancelFinishing(). *)
SubmitRejected ==
  /\ pc = "submit"
  /\ finishing' = FALSE
  /\ pc' = "terminal"
  /\ KeepRunning
  /\ UNCHANGED <<turns, atRest, since, batch, aborted, accepted, executing,
                 steer, note>>

SubmitAccepted ==
  /\ pc = "submit"
  /\ accepted' = TRUE
  /\ pc' = "verdict"
  /\ KeepRunning
  /\ UNCHANGED <<turns, atRest, since, batch, aborted, finishing, executing,
                 steer, note>>

(* dispatch() drops a result that arrives after the abort (executor.ts:56). *)
VerdictSettles ==
  /\ pc = "verdict"
  /\ batch' = [batch EXCEPT !.result = ~aborted]
  /\ pc' = "terminal"
  /\ KeepRunning
  /\ UNCHANGED <<turns, atRest, since, aborted, finishing, accepted, executing,
                 steer, note>>

(* The batch is answered: a terminal result ends the run, an abort cancels  *)
(* it, anything else goes back to the boundary.                             *)
BatchSettled == pc = "terminal" /\ (aborted \/ batch.calls = 0)

BatchEndsRun ==
  /\ BatchSettled
  /\ batch.result \/ aborted
  /\ Finish(IF ~batch.result THEN "cancelled"
            ELSE IF accepted THEN "completed" ELSE "internal", steer)
  /\ UNCHANGED <<turns, atRest, since, batch, aborted, accepted, executing,
                 note>>

BatchContinues ==
  /\ BatchSettled
  /\ ~batch.result
  /\ ~aborted
  /\ pc' = "boundary"
  /\ batch' = NoBatch
  /\ KeepRunning
  /\ UNCHANGED <<turns, atRest, since, aborted, finishing, accepted, executing,
                 steer, note>>

-----------------------------------------------------------------------------
(* The host, the tools and the tasks. *)

(* RunHandle.steer(): refused once finishing has begun. *)
Steer(s) ==
  /\ steer[s] = "unsent"
  /\ steer' = [steer EXCEPT ![s] = IF finishing \/ finished THEN "refused"
                                                           ELSE "queued"]
  /\ KeepRunning
  /\ UNCHANGED <<pc, turns, atRest, since, batch, aborted, finishing, accepted,
                 executing, note>>

(* RunHandle.interrupt() *)
Interrupt ==
  /\ ~finished
  /\ ~aborted
  /\ aborted' = TRUE
  /\ KeepRunning
  /\ UNCHANGED <<pc, turns, atRest, since, batch, finishing, accepted,
                 executing, steer, note>>

(* Mutant: the notifier is not latched by the end of the run. *)
PublishAlwaysLands == FALSE

(* The notifier's latch. *)
PublishIgnored == finished

(* notifier.publish(): a no-op after the run; a pending entry with the same *)
(* key is replaced.  A notification that carries a task's name is published *)
(* by that task's completion handler, the others by hooks, tools and host.  *)
Publish(n) ==
  /\ note[n] = "unsent"
  /\ n \in Tasks => n \in inHandler
  /\ note' = IF PublishIgnored
             THEN [note EXCEPT ![n] = "refused"]
             ELSE [m \in Notes |->
                     IF m = n THEN "queued"
                     ELSE IF m \in Inbox /\ KeyOf[m] = KeyOf[n] THEN "replaced"
                     ELSE note[m]]
  /\ KeepRunning
  /\ UNCHANGED <<pc, turns, atRest, since, batch, aborted, finishing, accepted,
                 executing, steer>>

(* Only a tool's execute() registers tasks; it may do so after the run. *)
ToolRegisters(t) ==
  /\ executing
  /\ Register(t)
  /\ UNCHANGED runVars

(* Whoever holds the supervisor may cancel; tasks and handlers run on. *)
Background(t) ==
  /\ CancelBegin(t) \/ TaskStep(t)
  /\ UNCHANGED runVars

(* What the loop does without a tool having to answer. *)
LoopAlone ==
  \/ BoundaryCancelled \/ BoundaryCompletes \/ Park \/ TurnBudgetSpent
  \/ StartTurn \/ Wake
  \/ TurnFails \/ TextExit \/ BareText
  \/ \E ordinary \in BOOLEAN, calls \in 0..MaxTerminal :
       ToolTurn(ordinary, calls)
  \/ RestHookDone \/ BatchHookDone \/ OrdinaryAbandoned
  \/ TerminalCall \/ PreHookDone \/ PostHookDenies \/ BeginSubmit
  \/ SubmitRejected \/ SubmitAccepted \/ VerdictSettles
  \/ BatchEndsRun \/ BatchContinues

LoopStep == LoopAlone \/ OrdinaryDone

HostStep ==
  \/ \E s \in Steers : Steer(s)
  \/ \E n \in Notes : Publish(n)
  \/ Interrupt
  \/ StragglersEnd

Next ==
  \/ LoopStep
  \/ HostStep
  \/ \E t \in Tasks : ToolRegisters(t) \/ Background(t)

Safety == Init /\ [][Next]_vars

(* The loop is never suspended for good by itself: a provider turn is       *)
(* idle-guarded, parks are woken, and hooks and onSubmit are taken to       *)
(* settle.  The host owes nothing: it need not steer, publish or interrupt. *)
Spec == Safety /\ WF_vars(LoopAlone)

(* Further, that tools return, that cancel() callbacks settle and that the  *)
(* event loop runs timers, which bound the completion handlers ...          *)
ToolsAnswer ==
  /\ WF_vars(LoopStep)
  /\ \A t \in Tasks :
       /\ WF_vars(StopOrphan(t) /\ UNCHANGED runVars)
       /\ \A c \in Cause :
            /\ WF_vars(TeardownDone(t, c) /\ UNCHANGED runVars)
            /\ WF_vars((HandlerDone(t, c) \/ HandlerTimeout(t, c))
                         /\ UNCHANGED runVars)

(* ... and that tasks end by themselves sooner or later: what a property    *)
(* that needs them assumes.                                                 *)
TasksEnd == \A t \in Tasks : WF_vars(Settle(t) /\ UNCHANGED runVars)

-----------------------------------------------------------------------------
RunTypeOK ==
  /\ pc \in Awaits
  /\ turns \in 0..MaxTurns
  /\ atRest \in BOOLEAN
  /\ since \in Nat
  /\ batch \in [ordinary : BOOLEAN, calls : 0..MaxTerminal, result : BOOLEAN]
  /\ aborted \in BOOLEAN
  /\ finishing \in BOOLEAN
  /\ accepted \in BOOLEAN
  /\ executing \in BOOLEAN
  /\ steer \in [Steers -> SteerFates]
  /\ note \in [Notes -> NoteFates]
  /\ outcome \in Outcomes \cup {"none"}

(* The variables have the types of the fields and counters they stand for;  *)
(* in particular no turn is committed beyond the budget.                    *)
TypeOK == TasksTypeOK /\ RunTypeOK

(* "Committed in the same synchronous block as its decision so a late steer *)
(* is never accepted-but-dropped": a run that completes in text mode has    *)
(* shown the model every user message it accepted and every notification    *)
(* published, and has nothing open.                                         *)
CompletesWithNothingOwed ==
  outcome = "completed" /\ Mode = "text" =>
    /\ \A s \in Steers : steer[s] \in {"unsent", "refused", "seen"}
    /\ \A n \in Notes : note[n] \in {"unsent", "refused", "replaced", "seen"}
    /\ entries = {}

(* In either mode a completed run closed its registry before it finished,   *)
(* and the model saw the report of every task whose handler answered in     *)
(* time: a removal may never overtake the report it stands for.             *)
ReportsReachTheModel ==
  outcome = "completed" =>
    /\ entries = {}
    /\ \A t \in Tasks \cap Notes :
         (\E c \in Cause : path[t][c] = "ended")
           => note[t] \notin {"queued", "appended"}

(* A parked loop has a reason to sleep or a wake-up on its way: with no     *)
(* open task left there is always something that wakes it.                  *)
NoLostWakeup ==
  pc = "parked" => \/ WakeEnabled
                   \/ \E t \in entries : \/ t \notin settling
                                         \/ \E c \in Cause : Active(t, c)

(* The finishing latch is only held while onSubmit decides or after it      *)
(* accepted; a latch left behind by a rejection would refuse every later    *)
(* steer of a live run.                                                     *)
LatchIsReleased ==
  ~finished /\ finishing => pc = "submit" \/ accepted

(* onSubmit is never asked again once it accepted, whatever else the batch  *)
(* holds, and an accepted run never prompts the model again.                *)
OneAcceptance ==
  accepted => pc \in {"verdict", "terminal", "preHook", "done"}

(* The window between onSubmit's verdict and the finish belongs to one      *)
(* submission (terminal.ts:82-112): the latch is held by it alone and is    *)
(* given back unless it was accepted, and nobody submits after it.          *)
CommitIsExclusive ==
  LatchIsReleased /\ OneAcceptance

(* "once onSubmit accepts, nothing can stop the finish": the run completes  *)
(* or is still on its way there (terminal.ts:43).                           *)
AcceptedIsFinal ==
  accepted => outcome \in {"none", "completed"}

(* "a commit-window steer is refused instead of accepted-but-dropped": a    *)
(* completed run has dropped no steer it accepted (run-handle.ts:271).      *)
NoSteerDropped ==
  outcome = "completed" => \A s \in Steers : steer[s] # "dropped"

(* The run ends once: nothing that happens after run_finished (a straggler, *)
(* a late registration, a handler, the host) changes what was reported or   *)
(* brings the registry back to life.                                        *)
FinishIsFinal ==
  [][finished => /\ outcome' = outcome
                 /\ entries' \subseteq entries
                 /\ \A s \in Steers : steer'[s] # steer[s]
                                        => steer'[s] = "refused"
                 /\ \A n \in Notes : note'[n] # note[n]
                                        => note'[n] = "refused"]_vars

(* "Totality: always resolves, never rejects": outcome() resolves if what   *)
(* the run waits for answers.                                               *)
Totality == ToolsAnswer /\ TasksEnd => <>finished

(* "The one stop semantic": an interrupted run finishes even when no tool,  *)
(* task or cancel() callback ever answers.                                  *)
InterruptStops == aborted ~> finished

(* No task survives its run, although none would end by itself. *)
NoTaskSurvives ==
  ToolsAnswer =>
    /\ finished ~> entries = {}
    /\ \A t \in Tasks : finished /\ t \in asked ~> t \notin orphans

-----------------------------------------------------------------------------
(* The inductive invariant behind the safety properties. *)

(* The loop, the outcome and the registry agree on whether the run is over. *)
EndsTogether ==
  /\ finished <=> pc = "done"
  /\ finished <=> disposed
  /\ finished => finishing

(* Until the run ends no accepted steer is lost, and a drained message is   *)
(* in the conversation unseen only while a turn is running.                 *)
NothingUnseen ==
  \/ finished
  \/ /\ \A s \in Steers : steer[s] # "dropped"
     /\ \/ pc = "turn"
        \/ /\ \A s \in Steers : steer[s] # "appended"
           /\ \A n \in Notes : note[n] # "appended"

(* A turn is only started within the budget. *)
BudgetKept == pc = "turn" => turns < MaxTurns

(* Tools run during their batch, or abandoned by an aborted one. *)
ToolsAreAccounted ==
  executing => \/ pc = "batch"
               \/ aborted /\ pc \in {"terminal", "done"} /\ ~batch.result

(* A latch is held by a deciding or an accepted submission, nothing else. *)
SubmissionShape ==
  /\ pc = "submit" => finishing
  /\ pc = "verdict" => accepted
  /\ batch.result => accepted /\ pc \in {"terminal", "preHook", "done"}
  /\ accepted => finishing /\ pc \in {"verdict", "terminal", "preHook", "done"}
  /\ ~finished /\ finishing => pc = "submit" \/ accepted
  /\ accepted /\ ~finished /\ pc # "verdict" => batch.result \/ aborted

(* A text-mode run has no terminal calls. *)
TextHasNoTerminal ==
  Mode = "text" => /\ batch.calls = 0
                   /\ ~accepted
                   /\ ~finishing \/ finished
                   /\ pc \notin {"preHook", "postHook", "submit", "verdict"}

(* A parked loop has open tasks to wait for, or the counter has moved since *)
(* it captured it.                                                          *)
ParkIsWatched ==
  pc = "parked" => since <= changes /\ (entries # {} \/ since # changes)

(* Between the gate and the finish the registry stays empty and no report   *)
(* of a task that answered in time can turn up.                             *)
ReportedInTime(t) == \E c \in Cause : path[t][c] = "ended"
GateHolds ==
  pc \in {"postHook", "submit", "verdict"} \/ batch.result =>
    /\ entries = {}
    /\ \A t \in Tasks \cap Notes : ReportedInTime(t) => note[t] # "queued"

RunInv ==
  /\ TasksInv
  /\ EndsTogether
  /\ NothingUnseen
  /\ BudgetKept
  /\ ToolsAreAccounted
  /\ SubmissionShape
  /\ TextHasNoTerminal
  /\ ParkIsWatched
  /\ GateHolds
  /\ CompletesWithNothingOwed
  /\ ReportsReachTheModel
=============================================================================
