------------------------------ MODULE ToolBatch ------------------------------
(***************************************************************************)
(* One batch of tool calls and the events of its run: the batch executor   *)
(* (agent-core/src/agents/tool/executor.ts), the pipeline every call goes  *)
(* through (tool/pipeline.ts, tool/hooks.ts), the emitter of the run handle*)
(* (engine/run-handle.ts), its stream and the one consumer of it.  A       *)
(* sandbox tool's execute() is a call of the gateway (GatewayCall).        *)
(*                                                                         *)
(* Calls are known by their index.  An abort may come at every await; what *)
(* it abandons goes on and lands later.                                    *)
(***************************************************************************)
EXTENDS EventStream, GatewayCall, FiniteSets

CONSTANTS
  Batches,        \* the batches the model may ask for: sequences of Kinds
  Lanes,          \* MAX_TOOL_CONCURRENCY
  MaxTaskEvents,  \* bound: background-task events
  MaxNext         \* bound: next() calls a consumer has open at a time

Kinds == {"tool", "sandbox", "unknown", "invalid", "terminal"}

ASSUME BatchAssumption ==
  /\ Batches \subseteq Seq(Kinds)
  /\ Lanes \in Nat \ {0}
  /\ \A batch \in Batches : DOMAIN batch \subseteq GateCalls

VARIABLES
  calls,      \* the batch
  phase,      \* where the loop and its executeBatch are
  stage,      \* where each call is in the pipeline
  result,     \* what the pipeline made of it
  executed,   \* the calls whose execute() was entered
  answers,    \* what executeBatch returned
  aborted     \* the run's abort signal

VARIABLES
  log,        \* every stamped event, as the tap sees them; seq is the index
  stream,     \* the handle's EventStream
  taken,      \* what its consumer got
  ended       \* one of the consumer's next() calls said "done"

batchVars == <<calls, phase, stage, result, executed, answers, aborted>>
eventVars == <<log, stream, taken, ended>>
vars == <<batchVars, eventVars, gateVars>>

Stages == {"idle", "pre", "exec", "post", "landing", "settled", "dropped"}
Results == {"none", "output", "accepted", "tool error", "denied", "withheld",
            "not found", "invalid input", "interrupted"}

Indices == DOMAIN calls
Ordinary == {i \in Indices : calls[i] # "terminal"}
Terminal == Indices \ Ordinary
At(s) == {i \in Indices : stage[i] = s}
InFlight == At("pre") \cup At("exec") \cup At("post") \cup At("landing")
First(S) == CHOOSE i \in S : \A j \in S : i <= j

(* The calls of S in call order. *)
InOrder(S) == [k \in 1..Cardinality(S) |->
                 CHOOSE i \in S : Cardinality({j \in S : j <= i}) = k]

Event(kind, i, r) == [kind |-> kind, call |-> i, result |-> r]
Started(i) == Event("started", i, "none")
Completed(i) == Event("completed", i, result[i])
RunFinished == Event("run_finished", 0, "none")
TaskEvent == Event("task", 0, "none")

Events == [kind : {"started", "completed", "run_finished", "task"},
           call : Nat, result : Results]

Init ==
  /\ calls \in Batches
  /\ phase = "turn"
  /\ stage = [i \in Indices |-> "idle"]
  /\ result = [i \in Indices |-> "none"]
  /\ executed = {}
  /\ answers = <<>>
  /\ aborted = FALSE
  /\ log = <<>>
  /\ stream = NewStream
  /\ taken = <<>>
  /\ ended = FALSE
  /\ GateInit

-----------------------------------------------------------------------------
(* RunHandle.emit: stamped and tapped, then pushed. *)
Emit(events) ==
  /\ log' = log \o events
  /\ stream' = Pushed(stream, events)
  /\ UNCHANGED <<taken, ended>>

(* dispatch() up to its first await.  An unknown name and an input that     *)
(* does not parse are answered without a hook or the tool being asked.      *)
Entry(i) == IF calls[i] \in {"unknown", "invalid"} THEN "landing" ELSE "pre"

Rejection(i) == CASE calls[i] = "unknown" -> "not found"
                  [] calls[i] = "invalid" -> "invalid input"
                  [] OTHER -> "none"

StageAfter(S) == [i \in Indices |-> IF i \in S THEN Entry(i) ELSE stage[i]]
ResultAfter(S) == [i \in Indices |-> IF i \in S THEN Rejection(i) ELSE result[i]]
StartedAll(S) == [k \in 1..Cardinality(S) |-> Started(InOrder(S)[k])]

(* Mutant: the terminal calls take a lane like the others. *)
LaneWorkAll == At("idle")

(* What a free lane may take: the calls before the cursor are not idle. *)
LaneWork == {i \in At("idle") : calls[i] # "terminal"}

(* Array.from starts a lane per call up to the cap; each takes the next call. *)
Opening ==
  IF aborted THEN {}
  ELSE {i \in LaneWork : Cardinality({j \in LaneWork : j < i}) < Lanes}

(* executeBatch up to settledOrAborted. *)
Begin ==
  /\ phase = "turn"
  /\ phase' = "ordinary"
  /\ stage' = StageAfter(Opening)
  /\ result' = ResultAfter(Opening)
  /\ Emit(StartedAll(Opening))
  /\ UNCHANGED <<calls, executed, answers, aborted, gateVars>>

-----------------------------------------------------------------------------
(* The pipeline of one call: bindTool's run(). *)

(* combine(): any deny wins; a hook that throws denies. *)
HookDecisions == {"passthrough", "deny"}

Denied(i) ==
  /\ stage' = [stage EXCEPT ![i] = "landing"]
  /\ result' = [result EXCEPT ![i] = "denied"]
  /\ UNCHANGED <<executed, gate>>

(* execute() or onSubmit() is entered.  A sandbox tool resolves its sandbox *)
(* first, and throws without one.                                           *)
Entered(i) ==
  /\ stage' = [stage EXCEPT ![i] = "exec"]
  /\ executed' = executed \cup {i}
  /\ gate' = IF calls[i] = "sandbox" /\ bound
             THEN [gate EXCEPT ![i] = Dialled(@, aborted)] ELSE gate
  /\ UNCHANGED result

(* preToolUse has answered; a terminal call goes on to postToolUse. *)
PreHooks(i) ==
  /\ stage[i] = "pre"
  /\ \E decision \in HookDecisions :
       CASE decision = "deny" -> Denied(i)
         [] decision = "passthrough" /\ calls[i] # "terminal" -> Entered(i)
         [] decision = "passthrough" /\ calls[i] = "terminal" ->
              /\ stage' = [stage EXCEPT ![i] = "post"]
              /\ UNCHANGED <<result, executed, gate>>
  /\ UNCHANGED <<calls, phase, answers, aborted, eventVars, bound>>

(* bindTerminalTool asks both hooks before it submits. *)
SubmitHooks(i) ==
  /\ stage[i] = "post"
  /\ calls[i] = "terminal"
  /\ Denied(i) \/ Entered(i)
  /\ UNCHANGED <<calls, phase, answers, aborted, eventVars, bound>>

(* execute() returns or throws; a sandbox tool with what its call settled to. *)
MayReturn(i) ==
  CASE calls[i] = "terminal" -> {"accepted", "tool error"}
    [] calls[i] = "tool" -> {"output", "tool error"}
    [] calls[i] = "sandbox" -> IF gate[i].at = "idle" THEN {"tool error"}
                               ELSE IF gate[i].at # "settled" THEN {}
                               ELSE IF IsOutput(gate[i].reply) THEN {"output"}
                               ELSE {"tool error"}

Returns(i) ==
  /\ stage[i] = "exec"
  /\ \E r \in MayReturn(i) : result' = [result EXCEPT ![i] = r]
  /\ stage' = [stage EXCEPT ![i] = IF calls[i] = "terminal" THEN "landing" ELSE "post"]
  /\ UNCHANGED <<calls, phase, executed, answers, aborted, eventVars, gateVars>>

(* postToolUse has answered: a deny replaces the result. *)
PostHooks(i) ==
  /\ stage[i] = "post"
  /\ calls[i] # "terminal"
  /\ \E decision \in HookDecisions :
       result' = [result EXCEPT ![i] = IF decision = "deny" THEN "withheld" ELSE @]
  /\ stage' = [stage EXCEPT ![i] = "landing"]
  /\ UNCHANGED <<calls, phase, executed, answers, aborted, eventVars, gateVars>>

(* Mutant: a result that lands after the abort is kept. *)
StragglerNever == FALSE

(* The batch was, or will be, answered without it. *)
Straggler == aborted

(* The rest of dispatch(), and the lane that takes the next call. *)
Land(i) ==
  /\ stage[i] = "landing"
  /\ IF Straggler
     THEN /\ stage' = [stage EXCEPT ![i] = "dropped"]
          /\ UNCHANGED <<result, eventVars>>
     ELSE LET next == IF calls[i] = "terminal" \/ LaneWork = {} THEN {}
                      ELSE {First(LaneWork)}
          IN /\ stage' = [StageAfter(next) EXCEPT ![i] = "settled"]
             /\ result' = ResultAfter(next)
             /\ Emit(<<Completed(i)>> \o StartedAll(next))
  /\ UNCHANGED <<calls, phase, executed, answers, aborted, gateVars>>

-----------------------------------------------------------------------------
(* The batch: settledOrAborted, then the terminal calls one by one. *)

(* Mutant: the lanes are awaited whatever the signal says. *)
LanesAwaited == \A i \in Ordinary : stage[i] \in {"settled", "dropped"}

LanesDone == aborted \/ \A i \in Ordinary : stage[i] = "settled"

LanesSettle ==
  /\ phase = "ordinary"
  /\ LanesDone
  /\ phase' = "terminal"
  /\ UNCHANGED <<calls, stage, result, executed, answers, aborted, eventVars,
                 gateVars>>

BetweenTerminals == phase = "terminal" /\ Terminal \cap InFlight = {}

NextTerminal ==
  /\ BetweenTerminals
  /\ ~aborted
  /\ Terminal \cap At("idle") # {}
  /\ LET next == {First(Terminal \cap At("idle"))}
     IN /\ stage' = StageAfter(next)
        /\ result' = ResultAfter(next)
        /\ Emit(StartedAll(next))
  /\ UNCHANGED <<calls, phase, executed, answers, aborted, gateVars>>

(* One result per call, in call order. *)
Answer ==
  /\ BetweenTerminals
  /\ aborted \/ Terminal \cap At("idle") = {}
  /\ phase' = "answered"
  /\ answers' = [i \in Indices |-> IF stage[i] = "settled" THEN result[i]
                                                           ELSE "interrupted"]
  /\ UNCHANGED <<calls, stage, result, executed, aborted, eventVars, gateVars>>

(* RunHandle.finish: the last event, and the stream is closed. *)
Finish ==
  /\ phase = "answered"
  /\ phase' = "finished"
  /\ log' = Append(log, RunFinished)
  /\ stream' = Closed(Pushed(stream, <<RunFinished>>))
  /\ UNCHANGED <<calls, stage, result, executed, answers, aborted, taken, ended,
                 gateVars>>

-----------------------------------------------------------------------------
(* Everyone else. *)

Interrupt ==
  /\ phase # "finished"
  /\ ~aborted
  /\ aborted' = TRUE
  /\ gate' = [i \in GateCalls |-> Signalled(gate[i])]
  /\ UNCHANGED <<calls, phase, stage, result, executed, answers, eventVars, bound>>

(* A task of the run starts, settles or reports, also after the run. *)
TaskHappens ==
  /\ Cardinality({k \in DOMAIN log : log[k] = TaskEvent}) < MaxTaskEvents
  /\ Emit(<<TaskEvent>>)
  /\ UNCHANGED <<batchVars, gateVars>>

(* What the consumer gets from a look at stream s, which becomes t. *)
Deliver(s, t) ==
  /\ stream' = t
  /\ taken' = IF Look(s) = "event" THEN Append(taken, Head(s.buffer)) ELSE taken
  /\ ended' = (ended \/ Look(s) = "done")
  /\ UNCHANGED <<log, batchVars, gateVars>>

AsksNext ==
  /\ ~ended
  /\ Pending(stream) < MaxNext
  /\ Deliver(stream, Looked([stream EXCEPT !.consumed = TRUE]))

Resumes ==
  /\ stream.ready > 0
  /\ Deliver(stream, Resumed(stream))

Leaves ==
  /\ stream.consumed
  /\ ~ended
  /\ stream' = Detached(stream)
  /\ ended' = TRUE
  /\ UNCHANGED <<log, taken, batchVars, gateVars>>

CallStep(i) ==
  PreHooks(i) \/ SubmitHooks(i) \/ Returns(i) \/ PostHooks(i) \/ Land(i)

Gateway(i) ==
  /\ i \in Indices
  /\ GateStep(i, aborted)
  /\ UNCHANGED <<batchVars, eventVars>>

LoopStep == Begin \/ LanesSettle \/ NextTerminal \/ Answer \/ Finish

Next ==
  \/ LoopStep
  \/ \E i \in Indices : CallStep(i)
  \/ \E i \in GateCalls : Gateway(i)
  \/ Interrupt \/ TaskHappens
  \/ AsksNext \/ Resumes \/ Leaves
  \/ EndBinding /\ UNCHANGED <<batchVars, eventVars>>

Safety == Init /\ [][Next]_vars

(* The loop goes on, a woken next() runs, and terminal calls are awaited    *)
(* even by an interrupted batch: hooks and onSubmit are taken to settle.    *)
Spec ==
  /\ Safety
  /\ WF_vars(LoopStep)
  /\ WF_vars(Resumes)
  /\ \A i \in GateCalls : WF_vars(i \in Terminal /\ CallStep(i))

-----------------------------------------------------------------------------
(* The variables have the types of the fields they stand for. *)
BatchTypeOK ==
  /\ calls \in Batches
  /\ phase \in {"turn", "ordinary", "terminal", "answered", "finished"}
  /\ stage \in [Indices -> Stages]
  /\ result \in [Indices -> Results]
  /\ executed \subseteq Indices
  /\ answers \in {<<>>} \cup [Indices -> Results]
  /\ aborted \in BOOLEAN
  /\ log \in Seq(Events)
  /\ stream \in Streams(Events)
  /\ taken \in Seq(Events)
  /\ ended \in BOOLEAN
  /\ GateTypeOK

Reported(i) == \E k \in DOMAIN log : log[k] = Completed(i)
Concerns(i) == {k \in DOMAIN log : log[k].kind = "completed" /\ log[k].call = i}

(* "The batch already settled with synthetic results; drop the straggler"   *)
(* (executor.ts:54): what the model is answered, what the host was told and *)
(* what the tool did agree, for ever.  A call is answered with its own      *)
(* result exactly when that result was reported, once, and "interrupted"    *)
(* only in an interrupted run; what was denied before it ran never ran.     *)
AnswersAreTrue ==
  /\ answers # <<>> => \A i \in Indices :
       IF answers[i] = "interrupted" THEN aborted /\ Concerns(i) = {}
       ELSE answers[i] = result[i] /\ Reported(i) /\ Cardinality(Concerns(i)) = 1
  /\ \A i \in Indices :
       /\ result[i] \in {"output", "accepted", "tool error"} => i \in executed
       /\ i \in executed => result[i] \notin {"denied", "not found", "invalid input"}

(* The contract of executeBatch (executor.ts:19-26): a terminal call starts *)
(* when every sibling has a result, and one at a time; and the lanes are    *)
(* busy as long as there is work, so that a slow call holds up nobody.      *)
BatchIsOrdered ==
  /\ \A t \in Terminal : stage[t] # "idle" => \A i \in Ordinary :
       stage[i] = "settled" /\ Reported(i)
  /\ \A s, t \in Terminal : s < t /\ stage[t] # "idle" => stage[s] = "settled"
  /\ phase = "ordinary" /\ ~aborted /\ LaneWork # {} =>
       Cardinality(Ordinary \cap InFlight) = Lanes

Finishes == {k \in DOMAIN log : log[k].kind = "run_finished"}

(* "Live-only, single consumer; run_finished is always last"                *)
(* (run-handle.ts:90): what the consumer has and what waits for it is the   *)
(* log up to run_finished, after which only tasks report, to the tap alone; *)
(* and no next() sleeps while there is something to say to it.              *)
StreamTellsTheRun ==
  /\ Cardinality(Finishes) <= 1
  /\ \A k \in Finishes : \A m \in DOMAIN log : m > k => log[m].kind = "task"
  /\ taken = SubSeq(log, 1, Len(taken))
  /\ ~stream.detached =>
       taken \o stream.buffer =
         IF Finishes = {} THEN log ELSE SubSeq(log, 1, First(Finishes))
  /\ stream.waiting > 0 => Look(stream) = "wait"

(* The tools of a run whose signal has fired send no further command to the *)
(* sandbox: neither a call that was waiting between two attempts, where     *)
(* nothing listens to the abort (gateway-client.ts:157), nor a straggler    *)
(* whose execute() is entered after it (pipeline.ts:111).  #once looks first*)
(* (:165), and a socket the abort destroyed does not connect any more.      *)
NoCommandAfterAbort ==
  [][aborted => \A i \in GateCalls : gate'[i].sent = gate[i].sent]_vars

(* "Abort settling" (executor.ts:22): an interrupted run is over without    *)
(* an ordinary tool, a hook of it or the gateway having to answer, and then *)
(* no next() of its consumer is left waiting.                               *)
AbortEndsBatch == aborted ~> (phase = "finished" /\ Pending(stream) = 0)
=============================================================================
