----------------------------- MODULE GatewayCall -----------------------------
(***************************************************************************)
(* Calls of the sandbox gateway: coding-agent/src/sandbox/gateway-client.ts*)
(* with the run's sandbox binding (run-binding.ts, run-sandbox-registry.ts)*)
(* and the way the sandbox tools read an answer (tools/sandbox/shared.ts). *)
(*                                                                         *)
(* A call opens a fresh connection, writes one line and reads to the end.  *)
(* The gateway itself is external: it handles the lines it received, once  *)
(* each, whether or not the client still listens.                          *)
(***************************************************************************)
EXTENDS Naturals

CONSTANTS
  GateCalls,     \* the calls that may be made
  MaxRetries     \* CONNECT_RETRY_DELAYS_MS.length

ASSUME RetriesAssumption == MaxRetries \in Nat

VARIABLES
  gate,     \* each call: where it is, its connection attempt, lines written,
            \* lines handled by the gateway, and how it settled
  bound     \* the registry holds a sandbox for the run

gateVars == <<gate, bound>>

(* What the gateway answers: an output ("ok", "running"), or one of the     *)
(* statuses that are an error of the tool.                                  *)
Envelopes == {"ok", "failed"}

(* What the client reports instead: nobody listens yet (ECONNREFUSED), the  *)
(* socket cannot be dialled at all (ENOENT, EACCES), the connection was lost*)
(* once it was open or the answer does not parse, ...                       *)
Faults == {"refused", "unreachable", "broken", "connect timeout", "aborted"}

NoCall == [at |-> "idle", attempt |-> 0, sent |-> 0, ran |-> 0, reply |-> "none"]

GateInit ==
  /\ gate = [i \in GateCalls |-> NoCall]
  /\ bound \in BOOLEAN

(* The whole answer of a settled call. *)
Settled(call, reply) == [call EXCEPT !.at = "settled", !.reply = reply]

(* #once up to its first wait: a call whose signal is already aborted does  *)
(* not connect.                                                             *)
Dialled(call, signalled) ==
  IF signalled THEN Settled(call, "aborted") ELSE [call EXCEPT !.at = "dialling"]

(* The abort listener runs inside abort(): the socket is destroyed at once. *)
(* A call that waits between two attempts has no listener.                  *)
Signalled(call) ==
  IF call.at \in {"dialling", "open"} THEN Settled(call, "aborted") ELSE call

(* envelopeResult and commandResult: what the model is told is an output.   *)
IsOutput(reply) == reply = "ok"

-----------------------------------------------------------------------------
(* The connection is there: the line is written. *)
Connected(call) == [call EXCEPT !.at = "open", !.sent = @ + 1]

Connects(i) ==
  /\ gate[i].at = "dialling"
  /\ gate' = [gate EXCEPT ![i] = Connected(@)]
  /\ UNCHANGED bound

(* The socket's "error" event, by how far the connection had come. *)
SocketErrors(call) ==
  IF call.at = "dialling" THEN {"refused", "unreachable"} ELSE {"broken"}

(* Mutant: every failed connection is tried again, also one that was open. *)
RetryableAlways(call, error) == call.attempt < MaxRetries

(* isConnectionRefused, and an attempt is left: only ECONNREFUSED is tried  *)
(* again, a connection that never came about.                               *)
Retryable(call, error) == error = "refused" /\ call.attempt < MaxRetries

(* A socket error, with #withRetry's decision. *)
ConnectionFails(i) ==
  /\ gate[i].at \in {"dialling", "open"}
  /\ \E error \in SocketErrors(gate[i]) :
       gate' = [gate EXCEPT ![i] = IF Retryable(@, error)
                                   THEN [@ EXCEPT !.at = "backoff"]
                                   ELSE Settled(@, error)]
  /\ UNCHANGED bound

(* Mutant: the next attempt does not look at the signal. *)
RedialledDeaf(call, signalled) == Dialled([call EXCEPT !.attempt = @ + 1], FALSE)

(* The next attempt of #withRetry. *)
Redialled(call, signalled) == Dialled([call EXCEPT !.attempt = @ + 1], signalled)

DelayPasses(i, signalled) ==
  /\ gate[i].at = "backoff"
  /\ gate' = [gate EXCEPT ![i] = Redialled(@, signalled)]
  /\ UNCHANGED bound

(* The gateway handles a line it received: external. *)
GatewayRuns(i) ==
  /\ gate[i].ran < gate[i].sent
  /\ gate' = [gate EXCEPT ![i].ran = @ + 1]
  /\ UNCHANGED bound

(* "close": the answer is decoded; nothing, or half a line, does not parse. *)
Answered(i) ==
  /\ gate[i].at = "open"
  /\ \E reply \in Envelopes \cup {"broken"} :
       /\ reply \in Envelopes => gate[i].ran = gate[i].sent
       /\ gate' = [gate EXCEPT ![i] = Settled(@, reply)]
  /\ UNCHANGED bound

(* The one timer of #once, started with the connection. *)
TimerFires(i) ==
  /\ gate[i].at \in {"dialling", "open"}
  /\ gate' = [gate EXCEPT ![i] = Settled(@, "connect timeout")]
  /\ UNCHANGED bound

(* SandboxRunBinding.end: the registry forgets the sandbox before the calls *)
(* that release it; calls under way keep the id they were made with.        *)
EndBinding ==
  /\ bound
  /\ bound' = FALSE
  /\ UNCHANGED gate

(* What happens to a call without the gateway doing anything. *)
ClientStep(i, signalled) ==
  Connects(i) \/ ConnectionFails(i) \/ DelayPasses(i, signalled) \/ TimerFires(i)

GateStep(i, signalled) == ClientStep(i, signalled) \/ GatewayRuns(i) \/ Answered(i)

-----------------------------------------------------------------------------
(* The fields have the types of what they stand for. *)
GateTypeOK ==
  /\ gate \in [GateCalls ->
       [at : {"idle", "dialling", "open", "backoff", "settled"},
        attempt : Nat, sent : Nat, ran : Nat,
        reply : {"none"} \cup Envelopes \cup Faults]]
  /\ bound \in BOOLEAN

(* "A connected-then-failed call is not retried" (gateway-client.ts:125): a *)
(* sandbox command is run at most once per tool call, whatever the socket,  *)
(* the timer and the abort do, and never after the model was told that      *)
(* nobody answered the connection.                                          *)
RunsAtMostOnce ==
  \A i \in GateCalls :
    /\ gate[i].sent <= 1
    /\ gate[i].reply = "refused" => gate[i].sent = 0 /\ gate[i].attempt = MaxRetries
    /\ gate[i].reply = "unreachable" => gate[i].sent = 0
    /\ IsOutput(gate[i].reply) => gate[i].ran = 1

(* "Bounded connect timeout; the gateway may not yet be listening"          *)
(* (gateway-client.ts:30): a call that is given up with "gateway connect    *)
(* timeout" never reached the gateway.                                      *)
TimeoutMeansUnreached ==
  \A i \in GateCalls : gate[i].reply = "connect timeout" => gate[i].sent = 0
=============================================================================
