----------------------------- MODULE ProviderTurn -----------------------------
(***************************************************************************)
(* The provider calls of a run: a turn (engine/turn.ts: runAssistantTurn)  *)
(* over the retry gate (llm-client/retry.ts), one attempt of it with its   *)
(* idle guard (llm-client/stream-client.ts) and the wire's decoder, and the*)
(* conversation the next turn is asked with (engine/conversation.ts).      *)
(*                                                                         *)
(* The layers are async generators pulled by the turn: a frame is decoded, *)
(* passes every layer and is emitted before the next one is asked for.     *)
(***************************************************************************)
EXTENDS ProviderWires

CONSTANTS
  Wires,         \* the protocols: a subset of {"anthropic", "openai"}
  Statuses,      \* http statuses the provider may answer with
  StatusCodes,   \* RetryConfig.status_codes
  MaxRetries,    \* RetryConfig.max_retries
  MaxFrames,     \* bound: frames the provider sends, over all streams
  MaxTurns       \* bound: turns

ASSUME ProviderAssumption ==
  /\ Wires \subseteq {"anthropic", "openai"}
  /\ MaxRetries \in Nat /\ MaxFrames \in Nat /\ MaxTurns \in Nat \ {0}

VARIABLES
  wire,             \* the client's wire
  at,               \* what the turn waits for
  turn,             \* committed turns
  attemptIndex,     \* retryStream's counter
  emittedVisible,   \* retryStream's flag, over all attempts
  decoder,          \* the decoder of the current attempt
  frames,           \* frames the provider has sent
  failure,          \* what the last attempt failed with
  shown,            \* the deltas emitted in this turn, in order
  conversation,     \* #llm
  partial,          \* the salvaged assistant content, and why
  aborted           \* the run's abort signal

vars == <<wire, at, turn, attemptIndex, emittedVisible, decoder, frames,
          failure, shown, conversation, partial, aborted>>

NoFailure == Failure("none", 0, FALSE)
NoPartial == [reason |-> "none", content |-> <<>>]
Stamp == <<turn, attemptIndex, frames>>

(* The run's first turn is about to start its first attempt. *)
Init ==
  /\ wire \in Wires
  /\ at = "boundary"
  /\ turn = 0
  /\ attemptIndex = 0
  /\ emittedVisible = FALSE
  /\ decoder = NewDecoder
  /\ frames = 0
  /\ failure = NoFailure
  /\ shown = <<>>
  /\ conversation = <<Message("user", <<Block("text", <<"task">>)>>)>>
  /\ partial = NoPartial
  /\ aborted = FALSE

Request == IF wire = "anthropic" THEN AnthropicEntries(conversation)
                                 ELSE OpenAiEntries(conversation)
Handles(f) == IF wire = "anthropic" THEN AnthropicHandles(decoder, f)
                                    ELSE OpenAiHandles(decoder, f)
Sends == IF wire = "anthropic" THEN AnthropicSends(decoder, Stamp)
                               ELSE OpenAiSends(decoder, Stamp)

-----------------------------------------------------------------------------
(* runAssistantTurn's catch: what was shown is salvaged to the side         *)
(* channel, reasoning before text, tool calls not at all.                   *)
Salvage ==
  LET said(kind) == IF Said(shown, kind) = <<>> THEN <<>>
                    ELSE <<Block(kind, Said(shown, kind))>>
  IN said("reasoning") \o said("text")

Dies ==
  /\ at' = "dead"
  /\ partial' = IF Salvage = <<>> THEN NoPartial
                ELSE [reason |-> IF aborted THEN "interrupted" ELSE "provider_error",
                      content |-> Salvage]

(* The turn asks: retryStream, its flag and its counter, first attempt.  The *)
(* loop ends an interrupted run at the boundary.                             *)
StartTurn ==
  /\ at = "boundary"
  /\ turn < MaxTurns
  /\ ~aborted
  /\ at' = "opening"
  /\ attemptIndex' = 0
  /\ emittedVisible' = FALSE
  /\ shown' = <<>>
  /\ failure' = NoFailure
  /\ UNCHANGED <<wire, turn, decoder, frames, conversation, partial, aborted>>

(* Mutant: one retry too many. *)
RetriesInclusive(f) ==
  /\ ~emittedVisible
  /\ attemptIndex <= MaxRetries
  /\ IsRetryable(f, StatusCodes)

(* retryStream's catch, in a run that is not aborted. *)
Retries(f) ==
  /\ ~emittedVisible
  /\ attemptIndex < MaxRetries
  /\ IsRetryable(f, StatusCodes)

(* An attempt throws.  An aborted run rethrows whatever it was. *)
Fails(f) ==
  /\ failure' = f
  /\ IF ~aborted /\ Retries(f) THEN at' = "backoff" /\ UNCHANGED partial ELSE Dies
  /\ UNCHANGED <<wire, turn, attemptIndex, emittedVisible, shown, conversation, aborted>>

(* The sleep is over, or cut short by the abort. *)
BackoffEnds ==
  /\ at = "backoff"
  /\ IF aborted THEN Dies /\ UNCHANGED attemptIndex
     ELSE /\ at' = "opening"
          /\ attemptIndex' = attemptIndex + 1
          /\ UNCHANGED partial
  /\ UNCHANGED <<wire, turn, emittedVisible, decoder, frames, failure, shown,
                 conversation, aborted>>

-----------------------------------------------------------------------------
(* runAttempt *)

Opens ==
  /\ at = "opening"
  /\ at' = "streaming"
  /\ decoder' = NewDecoder
  /\ UNCHANGED <<wire, turn, attemptIndex, emittedVisible, frames, failure, shown,
                 conversation, partial, aborted>>

OpenFails ==
  /\ at = "opening"
  /\ \E f \in OpenFailures(Statuses) : Fails(f)
  /\ UNCHANGED <<decoder, frames>>

(* The committed turn: appendAssistant, and appendToolResults with one      *)
(* result per call, in call order.                                          *)
Committed(message) ==
  LET uses == Keep(message, {"tool"})
      results == [k \in DOMAIN uses |-> Block("result", uses[k].data)]
  IN <<Message("assistant", message)>>
       \o IF uses = <<>> THEN <<>> ELSE <<Message("user", results)>>

(* Mutant: a tool call is not an output. *)
IsVisibleText(event) == event.kind \in {"text", "reasoning"}

IsVisible(event) == event.kind \in {"text", "reasoning", "tool"}

(* What one decoded event does on its way through retryStream and the turn. *)
Passes(events) ==
  IF events = <<>> THEN UNCHANGED <<at, turn, emittedVisible, shown, conversation>>
  ELSE LET event == Head(events)
       IN IF event.kind = "complete"
          THEN /\ at' = "boundary"
               /\ turn' = turn + 1
               /\ conversation' = conversation \o Committed(event.message)
               /\ UNCHANGED <<emittedVisible, shown>>
          ELSE /\ emittedVisible' = (emittedVisible \/ IsVisible(event))
               /\ shown' = Append(shown, Block(event.kind, event.data))
               /\ UNCHANGED <<at, turn, conversation>>

(* A frame arrives, also one that was read before the abort. *)
FrameArrives ==
  /\ at = "streaming"
  /\ frames < MaxFrames
  /\ frames' = frames + 1
  /\ \E f \in Sends :
       LET step == Handles(f)
       IN IF step.throws
          THEN Fails(DecodeError) /\ UNCHANGED decoder
          ELSE /\ decoder' = step.decoder
               /\ Passes(step.events)
               /\ UNCHANGED <<wire, attemptIndex, failure, partial, aborted>>

(* The connection, or the sdk's parser, throws. *)
StreamFails ==
  /\ at = "streaming"
  /\ \E f \in StreamFailures : Fails(f)
  /\ UNCHANGED <<decoder, frames>>

(* The stream ends without the terminal event; an abort ends it like that.  *)
StreamEnds ==
  /\ at = "streaming"
  /\ Fails(Truncated)
  /\ UNCHANGED <<decoder, frames>>

(* Mutant: no watchdog. *)
Unguarded == FALSE

(* The watchdog of withIdleGuard runs while a frame is awaited. *)
Guarded == at = "streaming"

GoesIdle ==
  /\ Guarded
  /\ Fails(Transport)
  /\ UNCHANGED <<decoder, frames>>

(* The boundary before the next turn: a steer or a notification.  Without   *)
(* one the loop goes on after results, and when it re-prompts.              *)
UserSpeaks ==
  /\ at = "boundary"
  /\ 0 < turn /\ turn < MaxTurns
  /\ Last(conversation) # Message("user", <<Block("text", <<"steer">>)>>)
  /\ conversation' = Append(conversation, Message("user", <<Block("text", <<"steer">>)>>))
  /\ UNCHANGED <<wire, at, turn, attemptIndex, emittedVisible, decoder, frames,
                 failure, shown, partial, aborted>>

Interrupt ==
  /\ ~aborted
  /\ at # "dead"
  /\ aborted' = TRUE
  /\ UNCHANGED <<wire, at, turn, attemptIndex, emittedVisible, decoder, frames,
                 failure, shown, conversation, partial>>

OpenEnds == Opens \/ OpenFails
StreamGoesOn == FrameArrives \/ StreamFails \/ StreamEnds

Next ==
  \/ StartTurn \/ BackoffEnds \/ OpenEnds \/ StreamGoesOn \/ GoesIdle
  \/ UserSpeaks \/ Interrupt

(* The sleep and the watchdog are timers, and the sdk bounds the opening of *)
(* a stream; nothing is assumed of the frames.                              *)
Spec ==
  /\ Init /\ [][Next]_vars
  /\ WF_vars(StartTurn) /\ WF_vars(BackoffEnds) /\ WF_vars(OpenEnds)
  /\ WF_vars(GoesIdle)

-----------------------------------------------------------------------------
(* The variables have the types of the fields they stand for. *)
TurnTypeOK ==
  /\ wire \in Wires
  /\ at \in {"boundary", "opening", "streaming", "backoff", "dead"}
  /\ turn \in 0..MaxTurns
  /\ attemptIndex \in 0..MaxRetries
  /\ emittedVisible \in BOOLEAN
  /\ frames \in 0..MaxFrames
  /\ \A k \in DOMAIN shown : shown[k].kind \in {"text", "reasoning", "tool"}
  /\ partial.reason \in {"none", "interrupted", "provider_error"}
  /\ aborted \in BOOLEAN

LastAssistant == CHOOSE m \in DOMAIN conversation :
  /\ conversation[m].role = "assistant"
  /\ \A n \in DOMAIN conversation : conversation[n].role = "assistant" => n <= m
Committing == at = "boundary" /\ turn > 0

(* "re-running the request would duplicate text and double-dispatch         *)
(* tool_use ids" (retry.ts:67): what the host is shown in a turn comes from *)
(* one attempt, and is the message the turn commits, word for word and call *)
(* for call.                                                                *)
ShownOnce ==
  /\ at # "boundary" => \A k \in DOMAIN shown :
       shown[k].data[1][1] = turn /\ shown[k].data[1][2] = attemptIndex
  /\ Committing => \A kind \in {"text", "reasoning", "tool"} :
       Said(shown, kind) = Said(conversation[LastAssistant].content, kind)
  /\ at = "backoff" => shown = <<>>

(* A request that is sent asks what was said: every call has one result,    *)
(* in the message after it, and on the responses wire nothing but calls and *)
(* results stands between the two.                                          *)
RequestsArePaired ==
  at = "opening" =>
    LET sent == Request
        results(k) == {r \in DOMAIN sent : sent[r].type = "result"
                                             /\ sent[r].data = sent[k].data}
    IN /\ \A k \in DOMAIN sent : sent[k].type = "tool" =>
            \E r \in DOMAIN sent :
              /\ results(k) = {r}
              /\ k < r
              /\ sent[r].message = sent[k].message + 1
              /\ wire = "openai" => \A j \in k..r : sent[j].type \in {"tool", "result"}
       /\ \A r \in DOMAIN sent : sent[r].type = "result" =>
            \E k \in 1..(r - 1) : sent[k].type = "tool" /\ sent[k].data = sent[r].data

(* "a stream that goes quiet is a first-class transport failure, not a      *)
(* hang" (stream-client.ts:17): whatever the provider does, a turn is       *)
(* committed or dies.                                                       *)
TurnsEnd == at = "opening" ~> at \in {"boundary", "dead"}
=============================================================================
