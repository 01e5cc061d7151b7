--------------------------- MODULE ToolBatchProofs ---------------------------
(***************************************************************************)
(* Proofs about a batch of tool calls (ToolBatch), its gateway calls       *)
(* (GatewayCall) and its event stream (EventStream), for every batch, any  *)
(* number of lanes and any number of retries.                              *)
(*                                                                         *)
(* BatchInv is the inductive invariant: the types and the pipeline of each *)
(* call (ToolInv), where the batch is (PhaseInv, LaneInv), what was answered*)
(* and reported (AnswerInv, ReportInv), and what the consumer has been told*)
(* of the log (StreamInv).                                                 *)
(***************************************************************************)
EXTENDS ToolBatch, SequenceLemmas, FiniteSetTheorems

CallRecords == [at : {"idle", "dialling", "open", "backoff", "settled"},
                attempt : Nat, sent : Nat, ran : Nat,
                reply : {"none"} \cup Envelopes \cup Faults]

(* Nothing is written before the connection is there, and one line then;    *)
(* the gateway handles what it received; a retry is still to come.          *)
CallInv(call) ==
  /\ call \in CallRecords
  /\ call.at \in {"idle", "dialling", "backoff"} => call.sent = 0
  /\ call.at = "open" => call.sent = 1
  /\ call.sent <= 1 /\ call.ran <= call.sent
  /\ call.attempt <= MaxRetries
  /\ call.at = "backoff" => call.attempt < MaxRetries
  /\ call.at # "settled" => call.reply = "none"
  /\ call.reply = "refused" => call.sent = 0 /\ call.attempt = MaxRetries
  /\ call.reply = "unreachable" => call.sent = 0
  /\ IsOutput(call.reply) => call.ran = 1

LEMMA NoCallInv == CallInv(NoCall)
BY RetriesAssumption DEF CallInv, NoCall, CallRecords, IsOutput, Envelopes, Faults

LEMMA SettledInv ==
  ASSUME NEW call, CallInv(call),
         NEW reply \in Envelopes \cup Faults,
         reply = "refused" => call.sent = 0 /\ call.attempt = MaxRetries,
         reply = "unreachable" => call.sent = 0,
         IsOutput(reply) => call.ran = 1
  PROVE  CallInv(Settled(call, reply))
<1> DEFINE new == Settled(call, reply)
<1>1. /\ new \in CallRecords
      /\ new.at = "settled" /\ new.reply = reply
      /\ new.sent = call.sent /\ new.ran = call.ran /\ new.attempt = call.attempt
  BY DEF Settled, CallInv, CallRecords
<1> QED
  BY <1>1 DEF CallInv

LEMMA DialledInv ==
  ASSUME NEW call, CallInv(call), call.at \in {"idle", "dialling", "backoff"},
         NEW signalled \in BOOLEAN
  PROVE  CallInv(Dialled(call, signalled))
<1>1. CASE signalled
  BY <1>1, SettledInv DEF Dialled, Faults, IsOutput
<1>2. CASE ~signalled
  <2> DEFINE new == [call EXCEPT !.at = "dialling"]
  <2>1. /\ new \in CallRecords /\ new.at = "dialling" /\ new.reply = call.reply
        /\ new.sent = call.sent /\ new.ran = call.ran /\ new.attempt = call.attempt
    BY DEF CallInv, CallRecords
  <2>2. CallInv(new)
    BY <2>1 DEF CallInv
  <2> QED
    BY <1>2, <2>2 DEF Dialled
<1> QED
  BY <1>1, <1>2

LEMMA SignalledInv ==
  ASSUME NEW call, CallInv(call) PROVE CallInv(Signalled(call))
BY SettledInv DEF Signalled, Faults, IsOutput

-----------------------------------------------------------------------------
(* Sets of calls and their order. *)

LEMMA FirstIsLeast ==
  ASSUME NEW S \in SUBSET Nat, S # {}
  PROVE  First(S) \in S /\ \A j \in S : First(S) <= j
BY LeastNatural DEF First

(* Every rank up to the number of elements is taken. *)
LEMMA RankTaken ==
  ASSUME NEW b \in Nat, NEW S \in SUBSET (1..b), NEW k \in 1..Cardinality(S)
  PROVE  \E i \in S : Cardinality({j \in S : j <= i}) = k
<1> DEFINE Upto(n) == {j \in S : j <= n}
           T == {n \in Nat : Cardinality(Upto(n)) >= k}
<1>1. IsFiniteSet(S)
  <2>1. IsFiniteSet(1..b)
    BY FS_Interval
  <2> QED
    BY <2>1, FS_Subset
<1>0. \A j \in S : j \in Nat /\ 1 <= j /\ j <= b
  OBVIOUS
<1>2. Cardinality(S) \in Nat /\ k \in Nat /\ k # 0
  BY <1>1, FS_CardinalityType
<1>3. \A n \in Nat : IsFiniteSet(Upto(n)) /\ Cardinality(Upto(n)) \in Nat
  BY <1>1, FS_CardinalityType, FS_Subset
<1>4. PICK n \in T : \A m \in T : n <= m
  <2>1. Upto(b) = S
    BY <1>0
  <2>2. b \in T
    BY <2>1, <1>2
  <2> HIDE DEF T
  <2>3. T \in SUBSET Nat
    BY DEF T
  <2> QED
    BY <2>2, <2>3, LeastNatural
<1>5. n \in Nat /\ Cardinality(Upto(n)) >= k
  OBVIOUS
<1>6. n # 0
  <2> SUFFICES ASSUME n = 0 PROVE FALSE
    OBVIOUS
  <2>1. \A j \in S : ~ (j <= 0)
    BY <1>0
  <2>2. Upto(n) = {}
    BY <2>1
  <2>3. Cardinality(Upto(n)) = 0
    BY <2>2, FS_EmptySet
  <2> QED
    BY <2>3, <1>2, <1>5
<1>7. Upto(n) \ {n} = Upto(n - 1)
  <2>1. \A j \in Nat : j <= n /\ j # n <=> j <= n - 1
    BY <1>5, <1>6
  <2> QED
    BY <2>1, <1>0
<1>8. Cardinality(Upto(n - 1)) \in Nat /\ Cardinality(Upto(n - 1)) < k
  <2>1. n - 1 \in Nat /\ ~ (n <= n - 1)
    BY <1>5, <1>6
  <2>2. ~ (Cardinality(Upto(n - 1)) >= k)
    BY <2>1, <1>4
  <2>3. Cardinality(Upto(n - 1)) \in Nat
    BY <2>1, <1>3
  <2> HIDE DEF Upto
  <2> QED
    BY <2>2, <2>3, <1>2
<1>9. n \in S
  <2> SUFFICES ASSUME n \notin S PROVE FALSE
    OBVIOUS
  <2>1. Upto(n) = Upto(n - 1)
    BY <1>7
  <2> HIDE DEF Upto
  <2> QED
    BY <2>1, <1>2, <1>5, <1>8
<1>10. Cardinality(Upto(n)) = k
  <2>1. Upto(n) = Upto(n - 1) \cup {n} /\ n \notin Upto(n - 1)
    BY <1>5, <1>7, <1>9
  <2>2. IsFiniteSet(Upto(n - 1))
    <3>1. n - 1 \in Nat
      BY <1>5, <1>6
    <3> QED
      BY <3>1, <1>3
  <2>3. Cardinality(Upto(n)) = Cardinality(Upto(n - 1)) + 1
    BY <2>1, <2>2, FS_AddElement
  <2> QED
    BY <2>3, <1>2, <1>5, <1>8
<1> QED
  BY <1>9, <1>10

(* The started events of some calls are a sequence of just those. *)
LEMMA StartedAllIsSeq ==
  ASSUME calls \in Seq(Kinds), NEW S \in SUBSET Indices
  PROVE  /\ StartedAll(S) \in Seq({Started(i) : i \in S})
         /\ StartedAll(S) \in Seq(Events)
         /\ \A k \in DOMAIN StartedAll(S) : StartedAll(S)[k].kind = "started"
<1>1. Len(calls) \in Nat /\ Indices = 1..Len(calls)
  BY DEF Indices
<1>2. IsFiniteSet(S)
  <2>1. IsFiniteSet(1..Len(calls))
    BY <1>1, FS_Interval
  <2> QED
    BY <1>1, <2>1, FS_Subset
<1>3. Cardinality(S) \in Nat
  BY <1>2, FS_CardinalityType
<1>4. ASSUME NEW k \in 1..Cardinality(S) PROVE InOrder(S)[k] \in S
  <2>1. \E i \in S : Cardinality({j \in S : j <= i}) = k
    BY <1>1, RankTaken
  <2> QED
    BY <2>1 DEF InOrder
<1>5. StartedAll(S) \in [1..Cardinality(S) -> {Started(i) : i \in S}]
  BY <1>4 DEF StartedAll
<1>6. StartedAll(S) \in Seq({Started(i) : i \in S})
  BY <1>3, <1>5, SeqDef
<1>7. {Started(i) : i \in S} \subseteq Events
  <2>1. ASSUME NEW i \in S PROVE Started(i) \in Events
    <3>1. i \in Nat
      BY <1>1
    <3> QED
      BY <3>1 DEF Started, Event, Events, Results
  <2> QED
    BY <2>1
<1>8. StartedAll(S) \in Seq(Events)
  BY <1>6, <1>7, SeqMonotonic
<1>9. \A k \in DOMAIN StartedAll(S) : StartedAll(S)[k].kind = "started"
  BY <1>5 DEF Started, Event
<1> QED
  BY <1>6, <1>8, <1>9

-----------------------------------------------------------------------------
(* What a step may do to one call of the gateway. *)

Goes(old, new) ==
  /\ CallInv(old) => CallInv(new)
  /\ old.at = "idle" => new = old

LEMMA ConnectedInv ==
  ASSUME NEW call, CallInv(call), call.at = "dialling"
  PROVE  CallInv(Connected(call))
<1>1. /\ call \in CallRecords /\ call.sent = 0 /\ call.ran = 0
      /\ call.attempt \in Nat /\ call.attempt <= MaxRetries /\ call.reply = "none"
  BY DEF CallInv, CallRecords
<1> DEFINE new == [call EXCEPT !.at = "open", !.sent = 1]
<1>2. Connected(call) = new
  BY <1>1 DEF Connected, CallRecords
<1>3. /\ new \in CallRecords /\ new.at = "open" /\ new.sent = 1 /\ new.ran = 0
      /\ new.attempt = call.attempt /\ new.reply = "none"
  BY <1>1 DEF CallRecords
<1>4. CallInv(new)
  BY <1>1, <1>3 DEF CallInv, IsOutput
<1> QED
  BY <1>2, <1>4

LEMMA FailsInv ==
  ASSUME NEW call, CallInv(call), call.at \in {"dialling", "open"},
         NEW error \in SocketErrors(call)
  PROVE  CallInv(IF Retryable(call, error) THEN [call EXCEPT !.at = "backoff"]
                 ELSE Settled(call, error))
<1>1. CASE Retryable(call, error)
  <2> DEFINE new == [call EXCEPT !.at = "backoff"]
  <2>1. /\ new \in CallRecords /\ new.at = "backoff" /\ new.sent = 0 /\ new.ran = call.ran
        /\ new.attempt = call.attempt /\ new.reply = call.reply /\ call.attempt < MaxRetries
    BY <1>1 DEF CallInv, CallRecords, Retryable, SocketErrors
  <2>2. CallInv(new)
    BY <2>1 DEF CallInv
  <2> QED
    BY <1>1, <2>2
<1>2. CASE ~Retryable(call, error) /\ call.at = "dialling"
  <2>1. /\ error \in {"refused", "unreachable"} /\ call.sent = 0
        /\ error = "refused" => call.attempt = MaxRetries
    BY <1>2, RetriesAssumption DEF CallInv, CallRecords, Retryable, SocketErrors
  <2>2. CallInv(Settled(call, error))
    BY <2>1, SettledInv DEF Faults, IsOutput
  <2> QED
    BY <1>2, <2>2
<1>3. CASE ~Retryable(call, error) /\ call.at = "open"
  <2>1. error = "broken"
    BY <1>3 DEF SocketErrors
  <2>2. CallInv(Settled(call, error))
    BY <2>1, SettledInv DEF Faults, IsOutput
  <2> QED
    BY <1>3, <2>2
<1> QED
  BY <1>1, <1>2, <1>3

LEMMA RedialledInv ==
  ASSUME NEW call, CallInv(call), call.at = "backoff", NEW signalled \in BOOLEAN
  PROVE  CallInv(Redialled(call, signalled))
<1> USE DEF Redialled
<1> DEFINE new == [call EXCEPT !.attempt = @ + 1]
<1>1. /\ new \in CallRecords /\ new.at = "backoff" /\ new.sent = 0 /\ new.ran = call.ran
      /\ new.attempt = call.attempt + 1 /\ new.reply = "none" /\ new.attempt <= MaxRetries
  BY RetriesAssumption DEF CallInv, CallRecords
<1>2. CASE signalled
  <2> DEFINE end == Settled(new, "aborted")
  <2>1. /\ end \in CallRecords /\ end.at = "settled" /\ end.sent = 0 /\ end.ran = call.ran
        /\ end.attempt = call.attempt + 1 /\ end.reply = "aborted"
    BY <1>1 DEF Settled, CallRecords, Faults
  <2>2. CallInv(end)
    BY <1>1, <2>1 DEF CallInv, IsOutput
  <2> QED
    BY <1>2, <2>2 DEF Dialled
<1>3. CASE ~signalled
  <2> DEFINE end == [new EXCEPT !.at = "dialling"]
  <2>1. /\ end \in CallRecords /\ end.at = "dialling" /\ end.sent = 0 /\ end.ran = call.ran
        /\ end.attempt = call.attempt + 1 /\ end.reply = "none"
    BY <1>1 DEF CallRecords
  <2>2. CallInv(end)
    BY <1>1, <2>1 DEF CallInv, IsOutput
  <2> QED
    BY <1>3, <2>2 DEF Dialled
<1> QED
  BY <1>2, <1>3

LEMMA RunsInv ==
  ASSUME NEW call, CallInv(call), call.ran < call.sent
  PROVE  call.at # "idle" /\ CallInv([call EXCEPT !.ran = @ + 1])
<1> DEFINE new == [call EXCEPT !.ran = @ + 1]
<1>1. call.sent = 1 /\ call.ran = 0 /\ call.at # "idle"
  BY DEF CallInv, CallRecords
<1>2. /\ new \in CallRecords /\ new.at = call.at /\ new.sent = 1 /\ new.ran = 1
      /\ new.attempt = call.attempt /\ new.reply = call.reply
  BY <1>1 DEF CallInv, CallRecords
<1> QED
  BY <1>1, <1>2 DEF CallInv

(* Every call obeys CallInv, whatever the client and the gateway do. *)
LEMMA GateStepInv ==
  ASSUME NEW signalled \in BOOLEAN, NEW i \in GateCalls, GateStep(i, signalled),
         gate = [j \in GateCalls |-> gate[j]],
         \A j \in GateCalls : CallInv(gate[j])
  PROVE  /\ gate' = [j \in GateCalls |-> gate'[j]]
         /\ \A j \in GateCalls : CallInv(gate'[j])
         /\ \A j \in GateCalls : gate[j].at = "idle" => gate'[j] = gate[j]
<1>1. ASSUME NEW new, gate' = [gate EXCEPT ![i] = new], CallInv(new), gate[i].at # "idle"
      PROVE  /\ gate' = [j \in GateCalls |-> gate'[j]]
             /\ \A j \in GateCalls : CallInv(gate'[j])
             /\ \A j \in GateCalls : gate[j].at = "idle" => gate'[j] = gate[j]
  BY <1>1
<1>2. CASE Connects(i)
  BY <1>1, <1>2, ConnectedInv DEF Connects
<1>3. CASE ConnectionFails(i)
  <2>1. PICK error \in SocketErrors(gate[i]) :
          gate' = [gate EXCEPT ![i] = IF Retryable(@, error)
                                      THEN [@ EXCEPT !.at = "backoff"]
                                      ELSE Settled(@, error)]
    BY <1>3 DEF ConnectionFails
  <2>2. gate[i].at \in {"dialling", "open"}
    BY <1>3 DEF ConnectionFails
  <2> QED
    BY <1>1, <2>1, <2>2, FailsInv
<1>4. CASE DelayPasses(i, signalled)
  BY <1>1, <1>4, RedialledInv DEF DelayPasses
<1>5. CASE TimerFires(i)
  <2>1. CallInv(Settled(gate[i], "connect timeout"))
    BY SettledInv DEF Faults, IsOutput
  <2> QED
    BY <1>1, <1>5, <2>1 DEF TimerFires
<1>6. CASE GatewayRuns(i)
  BY <1>1, <1>6, RunsInv DEF GatewayRuns
<1>7. CASE Answered(i)
  <2>1. PICK reply \in Envelopes \cup {"broken"} :
          /\ reply \in Envelopes => gate[i].ran = gate[i].sent
          /\ gate' = [gate EXCEPT ![i] = Settled(@, reply)]
    BY <1>7 DEF Answered
  <2>2. gate[i].at = "open" /\ gate[i].sent = 1
    BY <1>7 DEF Answered, CallInv
  <2>3. CallInv(Settled(gate[i], reply))
    BY <2>1, <2>2, SettledInv DEF Faults, IsOutput, Envelopes
  <2> QED
    BY <1>1, <2>1, <2>2, <2>3
<1> QED
  BY <1>2, <1>3, <1>4, <1>5, <1>6, <1>7 DEF GateStep, ClientStep

-----------------------------------------------------------------------------
(* The stream: what its methods do to each field. *)

LEMMA WokenIs ==
  ASSUME NEW s \in Streams(Events)
  PROVE  /\ Woken(s) \in Streams(Events)
         /\ Woken(s).waiting = 0 /\ Woken(s).buffer = s.buffer
         /\ Woken(s).closed = s.closed /\ Woken(s).detached = s.detached
<1> DEFINE r == s.ready + s.waiting
<1>1. r \in Nat
  BY DEF Streams
<1>2. Woken(s) = [s EXCEPT !.ready = r, !.waiting = 0]
  BY DEF Woken, Streams
<1> HIDE DEF r
<1> DEFINE t == [s EXCEPT !.ready = r, !.waiting = 0]
<1>3. t \in Streams(Events)
  BY <1>1 DEF Streams
<1>4. /\ t.waiting = 0 /\ t.buffer = s.buffer
      /\ t.closed = s.closed /\ t.detached = s.detached
  BY DEF Streams
<1> QED
  BY <1>2, <1>3, <1>4

LEMMA PushedIs ==
  ASSUME NEW s \in Streams(Events), NEW es \in Seq(Events)
  PROVE  /\ Pushed(s, es) \in Streams(Events)
         /\ Pushed(s, es).closed = s.closed /\ Pushed(s, es).detached = s.detached
         /\ Pushed(s, es).buffer = IF s.closed \/ s.detached \/ es = <<>> THEN s.buffer
                                   ELSE s.buffer \o es
         /\ Pushed(s, es).waiting = IF s.closed \/ s.detached \/ es = <<>> THEN s.waiting ELSE 0
<1>1. CASE s.closed \/ s.detached \/ es = <<>>
  BY <1>1 DEF Pushed
<1>2. CASE ~(s.closed \/ s.detached \/ es = <<>>)
  <2> DEFINE b == s.buffer \o es
             t == [s EXCEPT !.buffer = b]
  <2>1. b \in Seq(Events)
    BY ConcatProperties DEF Streams
  <2>2. Pushed(s, es) = Woken(t)
    BY <1>2 DEF Pushed, Streams
  <2> HIDE DEF b
  <2>3. /\ t \in Streams(Events) /\ t.buffer = b
        /\ t.closed = s.closed /\ t.detached = s.detached
    BY <2>1 DEF Streams
  <2> HIDE DEF t
  <2> QED
    BY <1>2, <2>2, <2>3, WokenIs DEF b
<1> QED
  BY <1>1, <1>2

LEMMA ClosedIs ==
  ASSUME NEW s \in Streams(Events)
  PROVE  /\ Closed(s) \in Streams(Events)
         /\ Closed(s).closed /\ Closed(s).detached = s.detached
         /\ Closed(s).buffer = s.buffer /\ Closed(s).waiting = 0
<1> DEFINE t == [s EXCEPT !.closed = TRUE]
<1>1. /\ t \in Streams(Events) /\ t.closed = TRUE /\ t.detached = s.detached
      /\ t.buffer = s.buffer
  BY DEF Streams
<1>2. Closed(s) = Woken(t)
  BY DEF Closed
<1> HIDE DEF t
<1> QED
  BY <1>1, <1>2, WokenIs

LEMMA DetachedIs ==
  ASSUME NEW s \in Streams(Events)
  PROVE  /\ Detached(s) \in Streams(Events)
         /\ Detached(s).closed = s.closed /\ Detached(s).detached
         /\ Detached(s).waiting = 0
<1> DEFINE t == [s EXCEPT !.detached = TRUE, !.buffer = <<>>]
<1>1. t \in Streams(Events) /\ t.closed = s.closed /\ t.detached = TRUE
  <2>1. <<>> \in Seq(Events)
    BY EmptySeq
  <2> QED
    BY <2>1 DEF Streams
<1>2. Detached(s) = Woken(t)
  BY DEF Detached
<1> HIDE DEF t
<1> QED
  BY <1>1, <1>2, WokenIs

LEMMA LookedIs ==
  ASSUME NEW s \in Streams(Events)
  PROVE  /\ Looked(s) \in Streams(Events)
         /\ Looked(s).closed = s.closed /\ Looked(s).detached = s.detached
         /\ Looked(s).buffer = IF Look(s) = "event" THEN Tail(s.buffer) ELSE s.buffer
         /\ Look(s) # "wait" => Looked(s).waiting = s.waiting
         /\ Look(s) = "wait" => ~s.detached /\ ~s.closed /\ s.buffer = <<>>
         /\ Look(s) = "event" => ~s.detached /\ s.buffer # <<>>
<1>1. CASE Look(s) = "event"
  <2>1. s.buffer # <<>> /\ ~s.detached
    BY <1>1 DEF Look
  <2> DEFINE b == Tail(s.buffer)
  <2>2. b \in Seq(Events)
    BY <2>1, HeadTailProperties DEF Streams
  <2>3. Looked(s) = [s EXCEPT !.buffer = b]
    BY <1>1 DEF Looked, Streams
  <2> HIDE DEF b
  <2>4. /\ Looked(s) \in Streams(Events) /\ Looked(s).buffer = b
        /\ Looked(s).closed = s.closed /\ Looked(s).detached = s.detached
        /\ Looked(s).waiting = s.waiting
    BY <2>2, <2>3 DEF Streams
  <2> QED
    BY <1>1, <2>1, <2>4 DEF b
<1>2. CASE Look(s) = "wait"
  <2> DEFINE w == s.waiting + 1
  <2>1. w \in Nat
    BY DEF Streams
  <2>2. Looked(s) = [s EXCEPT !.waiting = w]
    BY <1>2 DEF Looked, Streams
  <2>3. ~s.detached /\ ~s.closed /\ s.buffer = <<>>
    BY <1>2 DEF Look
  <2> HIDE DEF w
  <2> QED
    BY <1>2, <2>1, <2>2, <2>3 DEF Streams
<1>3. CASE Look(s) = "done"
  BY <1>3 DEF Looked
<1> QED
  BY <1>1, <1>2, <1>3 DEF Look

-----------------------------------------------------------------------------
(* The types of the batch, of its events, and of the gateway calls. *)

CallsTyped ==
  /\ calls \in Batches
  /\ phase \in {"turn", "ordinary", "terminal", "answered", "finished"}
  /\ stage \in [Indices -> Stages]
  /\ result \in [Indices -> Results]
  /\ executed \subseteq Indices
  /\ answers \in {<<>>} \cup [Indices -> Results]
  /\ aborted \in BOOLEAN

EventsTyped ==
  /\ log \in Seq(Events)
  /\ stream \in Streams(Events)
  /\ taken \in Seq(Events)
  /\ ended \in BOOLEAN

GatesTyped ==
  /\ bound \in BOOLEAN
  /\ gate = [j \in GateCalls |-> gate[j]]
  /\ \A j \in GateCalls : CallInv(gate[j])

(* A call is idle or asks its hooks before anything of it is executed or    *)
(* dialled; what was executed has a result of its own, and what was not has *)
(* none of a tool.                                                          *)
StageInv(i) ==
  /\ calls[i] \in {"unknown", "invalid"} => stage[i] \notin {"pre", "exec", "post"}
  /\ stage[i] \in {"idle", "pre"} => gate[i].at = "idle"
  /\ \/ stage[i] \in {"idle", "pre"}
     \/ stage[i] = "post" /\ calls[i] = "terminal"
     => i \notin executed /\ result[i] = "none"
  /\ stage[i] = "exec" => i \in executed /\ result[i] = "none"
  /\ stage[i] = "dropped" => aborted
  /\ result[i] \in {"output", "accepted", "tool error"} => i \in executed
  /\ i \in executed => result[i] \notin {"denied", "not found", "invalid input"}
  /\ result[i] # "interrupted"

LEMMA TypesAreTypes ==
  CallsTyped /\ EventsTyped /\ GatesTyped => BatchTypeOK /\ RunsAtMostOnce
<1> SUFFICES ASSUME CallsTyped, EventsTyped, GatesTyped
             PROVE  BatchTypeOK /\ RunsAtMostOnce
  OBVIOUS
<1>1. GateTypeOK
  <2>1. \A j \in GateCalls : gate[j] \in CallRecords
    BY DEF GatesTyped, CallInv
  <2> QED
    BY <2>1 DEF GatesTyped, GateTypeOK, CallRecords
<1>2. RunsAtMostOnce
  BY DEF GatesTyped, CallInv, RunsAtMostOnce
<1> QED
  BY <1>1, <1>2 DEF CallsTyped, EventsTyped, BatchTypeOK

LEMMA CallsAreKnown ==
  ASSUME CallsTyped
  PROVE  calls \in Seq(Kinds) /\ Indices \subseteq GateCalls /\ Indices \subseteq Nat
         /\ \A i \in Indices : calls[i] \in Kinds
<1>1. calls \in Seq(Kinds) /\ Indices \subseteq GateCalls
  BY BatchAssumption DEF CallsTyped, Indices
<1> QED
  BY <1>1 DEF Indices

(* A stage a call has entered with the calls that were idle. *)
LEMMA EntryTyped ==
  ASSUME CallsTyped, NEW S
  PROVE  /\ StageAfter(S) \in [Indices -> Stages]
         /\ ResultAfter(S) \in [Indices -> Results]
<1>1. \A i : Entry(i) \in Stages /\ Rejection(i) \in Results
  BY DEF Entry, Rejection, Stages, Results
<1> QED
  BY <1>1 DEF CallsTyped, StageAfter, ResultAfter

LEMMA CallsStayTyped ==
  ASSUME CallsTyped, \A i \in Indices : StageInv(i), Next
  PROVE  CallsTyped'
<1>1. CASE UNCHANGED batchVars
  BY <1>1 DEF CallsTyped, batchVars, Indices
<1>2. CASE Begin
  BY <1>2, EntryTyped DEF Begin, CallsTyped, Indices
<1>3. CASE NextTerminal
  BY <1>3, EntryTyped DEF NextTerminal, CallsTyped, Indices
<1>4. CASE LanesSettle \/ Finish \/ Interrupt
  BY <1>4 DEF LanesSettle, Finish, Interrupt, CallsTyped, Indices
<1>5. CASE Answer
  <2>1. [i \in Indices |-> IF stage[i] = "settled" THEN result[i] ELSE "interrupted"]
          \in [Indices -> Results]
    BY DEF CallsTyped, Results
  <2> QED
    BY <1>5, <2>1 DEF Answer, CallsTyped, Indices
<1>6. ASSUME NEW i \in Indices, CallStep(i) PROVE CallsTyped'
  <2>1. CASE Denied(i) /\ UNCHANGED <<calls, phase, answers, aborted>>
    BY <2>1 DEF Denied, CallsTyped, Indices, Stages, Results
  <2>2. CASE Entered(i) /\ UNCHANGED <<calls, phase, answers, aborted>>
    BY <2>2, <1>6 DEF Entered, CallsTyped, Indices, Stages
  <2>3. CASE PreHooks(i)
    <3>1. CASE /\ stage' = [stage EXCEPT ![i] = "post"]
               /\ UNCHANGED <<result, executed, gate>>
      BY <2>3, <3>1 DEF PreHooks, CallsTyped, Indices, Stages
    <3> QED
      BY <2>1, <2>2, <2>3, <3>1 DEF PreHooks, HookDecisions
  <2>4. CASE SubmitHooks(i)
    BY <2>1, <2>2, <2>4 DEF SubmitHooks
  <2>5. CASE Returns(i)
    <3>1. MayReturn(i) \subseteq Results
      <4>1. calls[i] \in {"tool", "sandbox", "terminal"}
        BY <2>5, CallsAreKnown DEF Returns, StageInv, Kinds
      <4> QED
        BY <4>1 DEF MayReturn, Results
    <3> QED
      BY <2>5, <3>1 DEF Returns, CallsTyped, Indices, Stages
  <2>6. CASE PostHooks(i)
    <3>1. result' \in [Indices -> Results]
      BY <2>6 DEF PostHooks, CallsTyped, Results
    <3> QED
      BY <2>6, <3>1 DEF PostHooks, CallsTyped, Indices, Stages
  <2>7. CASE Land(i)
    <3>1. CASE Straggler
      BY <2>7, <3>1 DEF Land, CallsTyped, Indices, Stages
    <3>2. CASE ~Straggler
      <4>1. PICK next : /\ stage' = [StageAfter(next) EXCEPT ![i] = "settled"]
                        /\ result' = ResultAfter(next)
        BY <2>7, <3>2 DEF Land
      <4>2. stage' \in [Indices -> Stages] /\ result' \in [Indices -> Results]
        BY <4>1, EntryTyped DEF Stages
      <4> QED
        BY <2>7, <4>2 DEF Land, CallsTyped, Indices
    <3> QED
      BY <3>1, <3>2
  <2> QED
    BY <1>6, <2>3, <2>4, <2>5, <2>6, <2>7 DEF CallStep
<1> QED
  BY <1>1, <1>2, <1>3, <1>4, <1>5, <1>6
     DEF Next, LoopStep, Gateway, TaskHappens, AsksNext, Resumes, Leaves, Deliver

LEMMA EventsStayTyped ==
  ASSUME CallsTyped, EventsTyped, Next
  PROVE  EventsTyped'
<1>1. CASE UNCHANGED eventVars
  BY <1>1 DEF EventsTyped, eventVars
<1>2. ASSUME NEW es \in Seq(Events), Emit(es) PROVE EventsTyped'
  BY <1>2, ConcatProperties, PushedIs DEF Emit, EventsTyped
<1>3. ASSUME NEW S \in SUBSET Indices PROVE StartedAll(S) \in Seq(Events)
  BY CallsAreKnown, StartedAllIsSeq
<1>4. CASE Begin
  <2>1. Opening \in SUBSET Indices
    BY DEF Opening, LaneWork, At
  <2> QED
    BY <1>2, <1>3, <1>4, <2>1 DEF Begin
<1>5. CASE NextTerminal
  <2>1. PICK next : next = {First(Terminal \cap At("idle"))} /\ Emit(StartedAll(next))
    BY <1>5 DEF NextTerminal
  <2>2. First(Terminal \cap At("idle")) \in Terminal
    <3>1. Terminal \cap At("idle") \in SUBSET Nat /\ Terminal \cap At("idle") # {}
      BY <1>5, CallsAreKnown DEF NextTerminal, At
    <3> QED
      BY <3>1, FirstIsLeast
  <2>3. next \in SUBSET Indices
    BY <2>1, <2>2 DEF Terminal
  <2> QED
    BY <1>2, <1>3, <2>1, <2>3
<1>6. ASSUME NEW i \in Indices, CallStep(i) PROVE EventsTyped'
  <2>1. CASE PreHooks(i) \/ SubmitHooks(i) \/ Returns(i) \/ PostHooks(i)
    BY <1>1, <2>1 DEF PreHooks, SubmitHooks, Returns, PostHooks
  <2>2. CASE Land(i)
    <3>1. CASE Straggler
      BY <1>1, <2>2, <3>1 DEF Land
    <3>2. CASE ~Straggler
      <4>1. PICK next : /\ next = IF calls[i] = "terminal" \/ LaneWork = {} THEN {}
                                  ELSE {First(LaneWork)}
                        /\ Emit(<<Completed(i)>> \o StartedAll(next))
        BY <2>2, <3>2 DEF Land
      <4>2. next \in SUBSET Indices
        <5>1. CASE LaneWork = {}
          BY <4>1, <5>1
        <5>2. CASE LaneWork # {}
          <6>1. LaneWork \in SUBSET Nat
            BY CallsAreKnown DEF LaneWork, At
          <6>2. First(LaneWork) \in LaneWork
            BY <5>2, <6>1, FirstIsLeast
          <6> QED
            BY <4>1, <6>2 DEF LaneWork, At
        <5> QED
          BY <5>1, <5>2
      <4>3. Completed(i) \in Events
        BY CallsAreKnown DEF Completed, Event, Events, CallsTyped
      <4>4. <<Completed(i)>> \in Seq(Events)
        BY <4>3
      <4>5. <<Completed(i)>> \o StartedAll(next) \in Seq(Events)
        BY <1>3, <4>2, <4>4, ConcatProperties
      <4> QED
        BY <1>2, <4>1, <4>5
    <3> QED
      BY <3>1, <3>2
  <2> QED
    BY <1>6, <2>1, <2>2 DEF CallStep
<1>7. CASE Finish
  <2>1. RunFinished \in Events
    BY DEF RunFinished, Event, Events, Results
  <2>2. <<RunFinished>> \in Seq(Events)
    BY <2>1
  <2> QED
    BY <1>7, <2>1, <2>2, AppendProperties, PushedIs, ClosedIs DEF Finish, EventsTyped
<1>8. CASE TaskHappens
  <2>1. TaskEvent \in Events
    BY DEF TaskEvent, Event, Events, Results
  <2>2. <<TaskEvent>> \in Seq(Events)
    BY <2>1
  <2> QED
    BY <1>2, <1>8, <2>2 DEF TaskHappens
<1>9. ASSUME NEW s \in Streams(Events), NEW t \in Streams(Events), Deliver(s, t)
      PROVE  EventsTyped'
  <2>1. CASE Look(s) = "event"
    <3>1. Head(s.buffer) \in Events
      BY <2>1, LookedIs, HeadTailProperties DEF Streams
    <3> QED
      BY <1>9, <2>1, <3>1, AppendProperties DEF Deliver, EventsTyped
  <2>2. CASE Look(s) # "event"
    BY <1>9, <2>2 DEF Deliver, EventsTyped
  <2> QED
    BY <2>1, <2>2
<1>10. CASE AsksNext
  <2>1. stream \in Streams(Events)
    BY DEF EventsTyped
  <2>2. [stream EXCEPT !.consumed = TRUE] \in Streams(Events)
    BY <2>1 DEF Streams
  <2> QED
    BY <1>9, <1>10, <2>1, <2>2, LookedIs DEF AsksNext
<1>11. CASE Resumes
  <2>1. stream \in Streams(Events) /\ stream.ready \in Nat /\ stream.ready > 0
    BY <1>11 DEF EventsTyped, Streams, Resumes
  <2>2. [stream EXCEPT !.ready = @ - 1] \in Streams(Events)
    <3> DEFINE r == stream.ready - 1
    <3>1. r \in Nat
      BY <2>1
    <3>2. [stream EXCEPT !.ready = @ - 1] = [stream EXCEPT !.ready = r]
      BY <2>1 DEF Streams
    <3> HIDE DEF r
    <3> QED
      BY <2>1, <3>1, <3>2 DEF Streams
  <2> QED
    BY <1>9, <1>11, <2>1, <2>2, LookedIs DEF Resumes, Resumed
<1>12. CASE Leaves
  BY <1>12, DetachedIs DEF Leaves, EventsTyped
<1> QED
  BY <1>1, <1>4, <1>5, <1>6, <1>7, <1>8, <1>10, <1>11, <1>12
     DEF Next, LoopStep, LanesSettle, Answer, Gateway, Interrupt, EndBinding

LEMMA GatesStayTyped ==
  ASSUME CallsTyped, GatesTyped, \A i \in Indices : StageInv(i), Next
  PROVE  GatesTyped'
<1>1. CASE UNCHANGED gateVars
  BY <1>1 DEF GatesTyped, gateVars
<1>2. ASSUME NEW i \in Indices, stage[i] \in {"pre", "post"}, Entered(i), UNCHANGED bound,
             calls[i] = "sandbox" => stage[i] = "pre"
      PROVE  GatesTyped'
  <2>1. CASE calls[i] = "sandbox" /\ bound
    <3>1. i \in GateCalls /\ CallInv(gate[i]) /\ gate[i].at = "idle"
      BY <1>2, <2>1, CallsAreKnown DEF GatesTyped, StageInv
    <3>2. CallInv(Dialled(gate[i], aborted))
      BY <3>1, DialledInv DEF CallsTyped
    <3> QED
      BY <1>2, <2>1, <3>1, <3>2 DEF Entered, GatesTyped
  <2>2. CASE ~(calls[i] = "sandbox" /\ bound)
    BY <1>2, <2>2 DEF Entered, GatesTyped
  <2> QED
    BY <2>1, <2>2
<1>3. ASSUME NEW i \in Indices, PreHooks(i) PROVE GatesTyped'
  <2>1. CASE UNCHANGED gate
    BY <1>3, <2>1 DEF PreHooks, GatesTyped
  <2>2. CASE Entered(i)
    BY <1>2, <1>3, <2>2 DEF PreHooks
  <2> QED
    BY <1>3, <2>1, <2>2 DEF PreHooks, HookDecisions, Denied
<1>4. ASSUME NEW i \in Indices, SubmitHooks(i) PROVE GatesTyped'
  <2>1. CASE UNCHANGED gate
    BY <1>4, <2>1 DEF SubmitHooks, GatesTyped
  <2>2. CASE Entered(i)
    BY <1>2, <1>4, <2>2 DEF SubmitHooks
  <2> QED
    BY <1>4, <2>1, <2>2 DEF SubmitHooks, Denied
<1>5. ASSUME NEW i \in GateCalls, Gateway(i) PROVE GatesTyped'
  <2>1. GateStep(i, aborted) /\ aborted \in BOOLEAN
    BY <1>5 DEF Gateway, CallsTyped
  <2>2. bound' = bound
    BY <2>1 DEF GateStep, ClientStep, Connects, ConnectionFails, DelayPasses, TimerFires,
                GatewayRuns, Answered
  <2> QED
    BY <2>1, <2>2, GateStepInv DEF GatesTyped
<1>6. CASE Interrupt
  BY <1>6, SignalledInv DEF Interrupt, GatesTyped
<1>7. CASE EndBinding
  BY <1>7 DEF EndBinding, GatesTyped
<1> QED
  BY <1>1, <1>3, <1>4, <1>5, <1>6, <1>7
     DEF Next, LoopStep, Begin, LanesSettle, NextTerminal, Answer, Finish, CallStep, Returns,
         PostHooks, Land, TaskHappens, AsksNext, Resumes, Leaves, Deliver

(* Nothing of a call changes that StageInv tells apart. *)
CallKept(j) ==
  /\ calls' = calls /\ stage'[j] = stage[j] /\ result'[j] = result[j]
  /\ j \in executed' <=> j \in executed
  /\ aborted => aborted'
  /\ gate[j].at = "idle" => gate'[j].at = "idle"

LEMMA CallKeptIsKept ==
  ASSUME NEW j, StageInv(j), CallKept(j) PROVE StageInv(j)'
BY DEF StageInv, CallKept

LEMMA EntryInv ==
  ASSUME CallsTyped, NEW S \in SUBSET At("idle"), NEW j \in Indices, StageInv(j),
         calls' = calls, stage' = StageAfter(S), result' = ResultAfter(S),
         executed' = executed, aborted' = aborted, gate' = gate
  PROVE  StageInv(j)'
<1>1. CASE j \in S
  <2>1. stage[j] = "idle" /\ stage'[j] = Entry(j) /\ result'[j] = Rejection(j)
    BY <1>1 DEF At, StageAfter, ResultAfter, Indices
  <2>2. CASE calls[j] \in {"unknown", "invalid"}
    BY <2>1, <2>2 DEF StageInv, Entry, Rejection
  <2>3. CASE calls[j] \notin {"unknown", "invalid"}
    BY <2>1, <2>3 DEF StageInv, Entry, Rejection
  <2> QED
    BY <2>2, <2>3
<1>2. CASE j \notin S
  <2>1. CallKept(j)
    BY <1>2 DEF CallKept, StageAfter, ResultAfter
  <2> QED
    BY <2>1, CallKeptIsKept
<1> QED
  BY <1>1, <1>2

LEMMA StagesStay ==
  ASSUME CallsTyped, GatesTyped, \A i \in Indices : StageInv(i), Next
  PROVE  \A j \in Indices : StageInv(j)'
<1> SUFFICES ASSUME NEW j \in Indices PROVE StageInv(j)'
  OBVIOUS
<1> USE DEF CallsTyped
<1>1. CASE UNCHANGED <<batchVars, gateVars>>
  <2>1. CallKept(j)
    BY <1>1 DEF CallKept, batchVars, gateVars
  <2> QED
    BY <2>1, CallKeptIsKept
<1>2. CASE Begin
  <2>1. Opening \subseteq At("idle")
    BY DEF Opening, LaneWork
  <2> QED
    BY <1>2, <2>1, EntryInv DEF Begin, gateVars
<1>3. CASE NextTerminal
  <2>1. Terminal \cap At("idle") \in SUBSET Nat /\ Terminal \cap At("idle") # {}
    BY <1>3, CallsAreKnown DEF NextTerminal, At
  <2>2. {First(Terminal \cap At("idle"))} \subseteq At("idle")
    BY <2>1, FirstIsLeast
  <2> QED
    BY <1>3, <2>2, EntryInv DEF NextTerminal, gateVars
<1>4. CASE LanesSettle \/ Answer \/ Finish
  <2>1. CallKept(j)
    BY <1>4 DEF CallKept, LanesSettle, Answer, Finish, gateVars
  <2> QED
    BY <2>1, CallKeptIsKept
<1>8. CASE EndBinding /\ UNCHANGED <<batchVars, eventVars>>
  <2>1. CallKept(j)
    BY <1>8 DEF CallKept, EndBinding, batchVars
  <2> QED
    BY <2>1, CallKeptIsKept
<1>9. CASE TaskHappens \/ AsksNext \/ Resumes \/ Leaves
  BY <1>1, <1>9 DEF TaskHappens, AsksNext, Resumes, Leaves, Deliver
<1>5. CASE Interrupt
  <2>1. j \in GateCalls
    BY CallsAreKnown
  <2>2. gate[j].at = "idle" => gate'[j].at = "idle"
    BY <1>5, <2>1 DEF Interrupt, Signalled
  <2>3. CallKept(j)
    BY <1>5, <2>2 DEF CallKept, Interrupt
  <2> QED
    BY <2>3, CallKeptIsKept
<1>6. ASSUME NEW i \in GateCalls, Gateway(i) PROVE StageInv(j)'
  <2>1. j \in GateCalls
    BY CallsAreKnown
  <2>2. gate[j].at = "idle" => gate'[j] = gate[j]
    BY <1>6, <2>1, GateStepInv DEF Gateway, GatesTyped
  <2>3. CallKept(j)
    BY <1>6, <2>2 DEF CallKept, Gateway, batchVars
  <2> QED
    BY <2>3, CallKeptIsKept
<1>7. ASSUME NEW i \in Indices, CallStep(i) PROVE StageInv(j)'
  <2> USE <1>7
  <2>0. StageInv(i)
    OBVIOUS
  <2>1. ASSUME Denied(i), UNCHANGED <<calls, aborted>>,
               i \notin executed
        PROVE  StageInv(j)'
    <3>1. CASE j = i
      BY <2>1, <3>1 DEF Denied, StageInv
    <3>2. CASE j # i
      <4>1. CallKept(j)
        BY <2>1, <3>2 DEF Denied, CallKept
      <4> QED
        BY <4>1, CallKeptIsKept
    <3> QED
      BY <3>1, <3>2
  <2>2. ASSUME Entered(i), UNCHANGED <<calls, aborted>>, result[i] = "none",
               calls[i] \notin {"unknown", "invalid"}
        PROVE  StageInv(j)'
    <3>1. CASE j = i
      BY <2>2, <3>1 DEF Entered, StageInv
    <3>2. CASE j # i
      <4>1. gate'[j] = gate[j]
        BY <2>2, <3>2 DEF Entered, GatesTyped
      <4>2. CallKept(j)
        BY <2>2, <3>2, <4>1 DEF Entered, CallKept
      <4> QED
        BY <4>2, CallKeptIsKept
    <3> QED
      BY <3>1, <3>2
  <2>3. CASE PreHooks(i)
    <3>1. i \notin executed /\ result[i] = "none" /\ calls[i] \notin {"unknown", "invalid"}
      BY <2>0, <2>3 DEF PreHooks, StageInv
    <3>2. CASE /\ calls[i] = "terminal"
               /\ stage' = [stage EXCEPT ![i] = "post"]
               /\ UNCHANGED <<result, executed, gate>>
      <4>1. CASE j = i
        BY <2>0, <2>3, <3>1, <3>2, <4>1 DEF PreHooks, StageInv
      <4>2. CASE j # i
        <5>1. CallKept(j)
          BY <2>3, <3>2, <4>2 DEF PreHooks, CallKept
        <5> QED
          BY <5>1, CallKeptIsKept
      <4> QED
        BY <4>1, <4>2
    <3> QED
      BY <2>1, <2>2, <2>3, <3>1, <3>2 DEF PreHooks, HookDecisions
  <2>4. CASE SubmitHooks(i)
    <3>1. i \notin executed /\ result[i] = "none" /\ calls[i] \notin {"unknown", "invalid"}
      BY <2>0, <2>4 DEF SubmitHooks, StageInv
    <3> QED
      BY <2>1, <2>2, <2>4, <3>1 DEF SubmitHooks
  <2>5. CASE Returns(i)
    <3>1. calls[i] \in {"tool", "sandbox", "terminal"} /\ i \in executed
      BY <2>0, <2>5, CallsAreKnown DEF Returns, StageInv, Kinds
    <3>2. PICK r \in {"output", "accepted", "tool error"} : result' = [result EXCEPT ![i] = r]
      BY <2>5, <3>1 DEF Returns, MayReturn
    <3>3. CASE j = i
      BY <2>0, <2>5, <3>1, <3>2, <3>3 DEF Returns, StageInv, gateVars
    <3>4. CASE j # i
      <4>1. CallKept(j)
        BY <2>5, <3>2, <3>4 DEF Returns, CallKept, gateVars
      <4> QED
        BY <4>1, CallKeptIsKept
    <3> QED
      BY <3>3, <3>4
  <2>6. CASE PostHooks(i)
    <3>1. PICK r \in {"withheld", result[i]} : result' = [result EXCEPT ![i] = r]
      BY <2>6 DEF PostHooks
    <3>2. CASE j = i
      BY <2>0, <2>6, <3>1, <3>2 DEF PostHooks, StageInv, gateVars
    <3>3. CASE j # i
      <4>1. CallKept(j)
        BY <2>6, <3>1, <3>3 DEF PostHooks, CallKept, gateVars
      <4> QED
        BY <4>1, CallKeptIsKept
    <3> QED
      BY <3>2, <3>3
  <2>7. CASE Land(i) /\ Straggler
    <3>1. CASE j = i
      BY <2>0, <2>7, <3>1 DEF Land, Straggler, StageInv, gateVars
    <3>2. CASE j # i
      <4>1. CallKept(j)
        BY <2>7, <3>2 DEF Land, CallKept, gateVars
      <4> QED
        BY <4>1, CallKeptIsKept
    <3> QED
      BY <3>1, <3>2
  <2>8. CASE Land(i) /\ ~Straggler
    <3>1. PICK next : /\ next = IF calls[i] = "terminal" \/ LaneWork = {} THEN {}
                                ELSE {First(LaneWork)}
                      /\ stage' = [StageAfter(next) EXCEPT ![i] = "settled"]
                      /\ result' = ResultAfter(next)
      BY <2>8 DEF Land
    <3>2. next \subseteq At("idle")
      <4>1. LaneWork \in SUBSET Nat /\ LaneWork \subseteq At("idle")
        BY CallsAreKnown DEF LaneWork, At
      <4> QED
        BY <3>1, <4>1, FirstIsLeast
    <3>3. i \notin next /\ stage[i] = "landing"
      BY <2>8, <3>2 DEF Land, At
    <3>4. CASE j = i
      <4>1. stage'[i] = "settled" /\ result'[i] = result[i]
        BY <3>1, <3>3 DEF StageAfter, ResultAfter
      <4> QED
        BY <2>0, <2>8, <3>4, <4>1 DEF Land, StageInv, gateVars
    <3>5. CASE j \in next
      <4>1. stage[j] = "idle" /\ stage'[j] = Entry(j) /\ result'[j] = Rejection(j) /\ j # i
        BY <3>1, <3>2, <3>3, <3>5 DEF At, StageAfter, ResultAfter
      <4>2. CASE calls[j] \in {"unknown", "invalid"}
        BY <2>8, <4>1, <4>2 DEF Land, StageInv, Entry, Rejection, gateVars
      <4>3. CASE calls[j] \notin {"unknown", "invalid"}
        BY <2>8, <4>1, <4>3 DEF Land, StageInv, Entry, Rejection, gateVars
      <4> QED
        BY <4>2, <4>3
    <3>6. CASE j # i /\ j \notin next
      <4>1. CallKept(j)
        BY <2>8, <3>1, <3>6 DEF Land, CallKept, StageAfter, ResultAfter, gateVars
      <4> QED
        BY <4>1, CallKeptIsKept
    <3> QED
      BY <3>4, <3>5, <3>6
  <2> QED
    BY <2>3, <2>4, <2>5, <2>6, <2>7, <2>8 DEF CallStep
<1> QED
  BY <1>2, <1>3, <1>4, <1>5, <1>6, <1>7, <1>8, <1>9 DEF Next, LoopStep

-----------------------------------------------------------------------------
(* The types and the stages of the calls, together inductive. *)
ToolInv ==
  CallsTyped /\ EventsTyped /\ GatesTyped /\ \A i \in Indices : StageInv(i)

LEMMA InitToolInv == Init => ToolInv
<1> SUFFICES ASSUME Init PROVE ToolInv
  OBVIOUS
<1>1. CallsTyped
  BY DEF Init, CallsTyped, Stages, Results
<1>2. EventsTyped
  <2>1. <<>> \in Seq(Events)
    OBVIOUS
  <2> QED
    BY <2>1 DEF Init, EventsTyped, NewStream, Streams
<1>3. GatesTyped
  BY NoCallInv DEF Init, GateInit, GatesTyped
<1>4. ASSUME NEW i \in Indices PROVE StageInv(i)
  <2>1. i \in GateCalls
    BY <1>1, CallsAreKnown
  <2> QED
    BY <2>1 DEF Init, GateInit, NoCall, StageInv
<1> QED
  BY <1>1, <1>2, <1>3, <1>4 DEF ToolInv

LEMMA NextKeepsCalls == Next => calls' = calls
BY DEF Next, LoopStep, Begin, LanesSettle, NextTerminal, Answer, Finish, CallStep, PreHooks,
       SubmitHooks, Returns, PostHooks, Land, Gateway, Interrupt, TaskHappens, AsksNext,
       Resumes, Leaves, Deliver, batchVars

LEMMA NextToolInv == ToolInv /\ [Next]_vars => ToolInv'
<1> SUFFICES ASSUME ToolInv, [Next]_vars PROVE ToolInv'
  OBVIOUS
<1>1. CASE Next
  <2>1. CallsTyped' /\ EventsTyped' /\ GatesTyped'
    BY <1>1, CallsStayTyped, EventsStayTyped, GatesStayTyped DEF ToolInv
  <2>2. \A j \in Indices : StageInv(j)'
    BY <1>1, StagesStay DEF ToolInv
  <2>3. calls' = calls
    BY <1>1, NextKeepsCalls
  <2> QED
    BY <2>1, <2>2, <2>3 DEF ToolInv, Indices
<1>2. CASE UNCHANGED vars
  BY <1>2 DEF ToolInv, vars, batchVars, eventVars, gateVars, CallsTyped, EventsTyped,
              GatesTyped, StageInv, Indices
<1> QED
  BY <1>1, <1>2

-----------------------------------------------------------------------------
(* What a step makes of the stages and of the log. *)

(* A call goes on, or lands and its lane takes the calls of S. *)
Moves(i, S) ==
  /\ stage[i] \in {"pre", "exec", "post", "landing"}
  /\ S \subseteq LaneWork
  /\ \A j \in Indices \ (S \cup {i}) : stage'[j] = stage[j]
  /\ \A j \in S : stage'[j] \in {"landing", "pre"}
  /\ stage'[i] \in {"exec", "post", "landing", "settled", "dropped"}
  /\ stage'[i] = "settled" =>
       /\ ~aborted /\ stage[i] = "landing" /\ result'[i] = result[i]
       /\ Emit(<<Completed(i)>> \o StartedAll(S))
       /\ calls[i] # "terminal" /\ LaneWork # {} => \E k : S = {k}
  /\ stage'[i] # "settled" => UNCHANGED eventVars /\ S = {}
  /\ stage'[i] = "dropped" => aborted
  /\ \A j \in Indices : stage[j] = "settled" => result'[j] = result[j]
  /\ UNCHANGED <<calls, phase, answers, aborted>>

LEMMA CallMoves ==
  ASSUME ToolInv, NEW i \in Indices, CallStep(i)
  PROVE  \E S : Moves(i, S)
<1> USE DEF ToolInv, CallsTyped
<1>1. ASSUME NEW s \in {"exec", "post", "landing"}, stage' = [stage EXCEPT ![i] = s],
             stage[i] \in {"pre", "exec", "post", "landing"},
             \A j \in Indices : stage[j] = "settled" => result'[j] = result[j],
             UNCHANGED eventVars, UNCHANGED <<calls, phase, answers, aborted>>
      PROVE  Moves(i, {})
  BY <1>1 DEF Moves
<1>2. CASE PreHooks(i)
  BY <1>1, <1>2 DEF PreHooks, HookDecisions, Denied, Entered
<1>3. CASE SubmitHooks(i)
  BY <1>1, <1>3 DEF SubmitHooks, Denied, Entered
<1>4. CASE Returns(i)
  BY <1>1, <1>4 DEF Returns
<1>5. CASE PostHooks(i)
  BY <1>1, <1>5 DEF PostHooks
<1>6. CASE Land(i) /\ Straggler
  <2>1. Moves(i, {})
    BY <1>6 DEF Land, Straggler, Moves
  <2> QED
    BY <2>1
<1>7. CASE Land(i) /\ ~Straggler
  <2>1. PICK S : /\ S = IF calls[i] = "terminal" \/ LaneWork = {} THEN {}
                        ELSE {First(LaneWork)}
                 /\ stage' = [StageAfter(S) EXCEPT ![i] = "settled"]
                 /\ result' = ResultAfter(S)
                 /\ Emit(<<Completed(i)>> \o StartedAll(S))
    BY <1>7 DEF Land
  <2>2. S \subseteq LaneWork /\ LaneWork \subseteq At("idle")
    <3>1. LaneWork \in SUBSET Nat
      BY CallsAreKnown DEF LaneWork, At
    <3> QED
      BY <2>1, <3>1, FirstIsLeast DEF LaneWork
  <2>3. stage[i] = "landing" /\ ~aborted /\ \A j \in S : stage[j] = "idle"
    BY <1>7, <2>2 DEF Land, Straggler, At
  <2>4. i \notin S /\ S \subseteq Indices
    BY <2>2, <2>3 DEF At
  <2>5. stage'[i] = "settled" /\ result'[i] = result[i]
    BY <2>1, <2>4 DEF StageAfter, ResultAfter
  <2>6. \A j \in Indices \ (S \cup {i}) : stage'[j] = stage[j]
    BY <2>1 DEF StageAfter
  <2>7. \A j \in S : stage'[j] \in {"landing", "pre"}
    BY <2>1, <2>4 DEF StageAfter, Entry
  <2>8. \A j \in Indices : stage[j] = "settled" => result'[j] = result[j]
    BY <2>1, <2>3 DEF ResultAfter
  <2>9. Moves(i, S)
    BY <1>7, <2>1, <2>2, <2>3, <2>5, <2>6, <2>7, <2>8 DEF Moves, Land
  <2> QED
    BY <2>9
<1> QED
  BY <1>2, <1>3, <1>4, <1>5, <1>6, <1>7 DEF CallStep

(* Idle calls are entered, and nothing else of the stages changes. *)
Enters(S) ==
  /\ S \subseteq At("idle")
  /\ \A j \in Indices \ S : stage'[j] = stage[j] /\ result'[j] = result[j]
  /\ \A j \in S : stage'[j] \in {"landing", "pre"}
  /\ Emit(StartedAll(S))
  /\ UNCHANGED <<calls, answers, aborted>>

LEMMA BeginEnters ==
  ASSUME ToolInv, Begin PROVE Enters(Opening)
<1>1. Opening \subseteq At("idle")
  BY DEF Opening, LaneWork
<1> QED
  BY <1>1 DEF Begin, Enters, StageAfter, ResultAfter, Entry, At

LEMMA TerminalEnters ==
  ASSUME ToolInv, NextTerminal
  PROVE  LET t == First(Terminal \cap At("idle"))
         IN  /\ Enters({t}) /\ t \in Terminal /\ stage[t] = "idle"
             /\ \A s \in Terminal : s < t => stage[s] # "idle"
<1> DEFINE t == First(Terminal \cap At("idle"))
<1>1. Terminal \cap At("idle") \in SUBSET Nat /\ Terminal \cap At("idle") # {}
  BY CallsAreKnown DEF NextTerminal, At, ToolInv
<1>2. t \in Terminal \cap At("idle") /\ \A j \in Terminal \cap At("idle") : t <= j
  BY <1>1, FirstIsLeast
<1>3. Enters({t})
  BY <1>2 DEF NextTerminal, Enters, StageAfter, ResultAfter, Entry, At
<1>4. \A s \in Terminal : s < t => stage[s] # "idle"
  <2> SUFFICES ASSUME NEW s \in Terminal, s < t, stage[s] = "idle" PROVE FALSE
    OBVIOUS
  <2>1. s \in Terminal \cap At("idle")
    BY DEF At, Terminal
  <2>2. s \in Nat /\ t \in Nat /\ t <= s
    BY <1>1, <1>2, <2>1
  <2> HIDE DEF t
  <2> QED
    BY <2>2
<1> QED
  BY <1>2, <1>3, <1>4 DEF At

-----------------------------------------------------------------------------
(* Where the batch is, and where its calls are then. *)

PhaseInv ==
  /\ phase = "turn" => \A i \in Indices : stage[i] = "idle"
  /\ phase = "ordinary" => \A t \in Terminal : stage[t] = "idle"
  /\ phase \in {"terminal", "answered", "finished"} /\ ~aborted =>
       \A i \in Ordinary : stage[i] = "settled"
  /\ phase \in {"answered", "finished"} /\ ~aborted =>
       \A i \in Indices : stage[i] = "settled"
  /\ \A t \in Terminal : stage[t] # "idle" => \A i \in Ordinary : stage[i] = "settled"
  /\ \A s, t \in Terminal : s < t /\ stage[t] # "idle" => stage[s] = "settled"

AnswerInv ==
  answers # <<>> =>
    /\ phase \in {"answered", "finished"}
    /\ \A i \in Indices :
         IF answers[i] = "interrupted" THEN aborted /\ stage[i] # "settled"
                                       ELSE stage[i] = "settled" /\ answers[i] = result[i]

LEMMA PhaseStays ==
  ASSUME ToolInv, PhaseInv, AnswerInv, Next
  PROVE  PhaseInv' /\ AnswerInv'
<1> USE DEF ToolInv, Terminal, Ordinary, Indices
<1>1. CASE UNCHANGED batchVars
  BY <1>1 DEF PhaseInv, AnswerInv, batchVars
<1>2. CASE Begin
  <2>1. Enters(Opening) /\ Opening \subseteq Ordinary
    BY <1>2, BeginEnters DEF Opening, LaneWork, At
  <2>2. phase = "turn" /\ phase' = "ordinary"
    BY <1>2 DEF Begin
  <2>3. \A t \in Terminal : stage'[t] = "idle"
    BY <2>1, <2>2 DEF Enters, PhaseInv
  <2> QED
    BY <2>1, <2>2, <2>3 DEF Enters, PhaseInv, AnswerInv
<1>3. CASE LanesSettle
  BY <1>3 DEF LanesSettle, LanesDone, PhaseInv, AnswerInv
<1>4. CASE NextTerminal
  <2> DEFINE t == First(Terminal \cap At("idle"))
  <2>1. /\ Enters({t}) /\ t \in Terminal /\ stage[t] = "idle"
        /\ \A s \in Terminal : s < t => stage[s] # "idle"
    BY <1>4, TerminalEnters
  <2> HIDE DEF t
  <2>2. phase = "terminal" /\ phase' = phase /\ ~aborted /\ ~aborted'
    BY <1>4 DEF NextTerminal, BetweenTerminals
  <2>3. \A s \in Terminal : s < t => stage[s] = "settled"
    <3>1. \A s \in Terminal : stage[s] \notin {"pre", "exec", "post", "landing"}
      BY <1>4 DEF NextTerminal, BetweenTerminals, InFlight, At
    <3>2. \A s \in Terminal : stage[s] # "dropped"
      BY <2>2 DEF StageInv
    <3> QED
      BY <2>1, <3>1, <3>2 DEF CallsTyped, Stages
  <2>4. \A i \in Ordinary : stage[i] = "settled"
    BY <2>2 DEF PhaseInv
  <2>5. \A i \in Indices : i # t => stage'[i] = stage[i]
    BY <2>1 DEF Enters
  <2>6. PhaseInv'
    BY <2>1, <2>2, <2>3, <2>4, <2>5 DEF PhaseInv, Enters
  <2>7. AnswerInv'
    BY <2>1, <2>2 DEF AnswerInv, Enters
  <2> QED
    BY <2>6, <2>7
<1>5. CASE Answer
  <2>1. phase = "terminal" /\ phase' = "answered"
        /\ UNCHANGED <<calls, stage, result, aborted>>
    BY <1>5 DEF Answer, BetweenTerminals
  <2>2. ~aborted => \A i \in Indices : stage[i] = "settled"
    <3> SUFFICES ASSUME ~aborted, NEW i \in Terminal PROVE stage[i] = "settled"
      BY <2>1 DEF PhaseInv
    <3>1. stage[i] \notin {"pre", "exec", "post", "landing", "idle"}
      BY <1>5 DEF Answer, BetweenTerminals, InFlight, At
    <3>2. stage[i] # "dropped"
      BY DEF StageInv
    <3> QED
      BY <3>1, <3>2 DEF CallsTyped, Stages
  <2>3. PhaseInv'
    BY <2>1, <2>2 DEF PhaseInv
  <2>4. \A i \in Indices : answers'[i] = IF stage[i] = "settled" THEN result[i]
                                         ELSE "interrupted"
    BY <1>5 DEF Answer
  <2>5. \A i \in Indices : result[i] # "interrupted"
    BY DEF StageInv
  <2>6. AnswerInv'
    BY <2>1, <2>2, <2>4, <2>5 DEF AnswerInv
  <2> QED
    BY <2>3, <2>6
<1>6. CASE Finish
  BY <1>6 DEF Finish, PhaseInv, AnswerInv
<1>7. CASE Interrupt
  BY <1>7 DEF Interrupt, PhaseInv, AnswerInv
<1>8. ASSUME NEW i \in Indices, CallStep(i) PROVE PhaseInv' /\ AnswerInv'
  <2>1. PICK S : Moves(i, S)
    BY <1>8, CallMoves
  <2>2. \A j \in Indices : stage[j] = "settled" =>
          stage'[j] = "settled" /\ result'[j] = result[j]
    BY <2>1 DEF Moves, LaneWork, At
  <2>3. \A j \in Indices : aborted /\ stage[j] # "settled" => stage'[j] # "settled"
    BY <2>1 DEF Moves
  <2>4. \A t \in Terminal : stage'[t] # "idle" => stage[t] # "idle"
    BY <2>1 DEF Moves, LaneWork
  <2>5. UNCHANGED <<calls, phase, answers, aborted>>
    BY <2>1 DEF Moves
  <2>6. phase # "turn"
    BY <2>1 DEF Moves, PhaseInv
  <2>7. PhaseInv'
    BY <2>2, <2>4, <2>5, <2>6 DEF PhaseInv
  <2>8. AnswerInv'
    BY <2>2, <2>3, <2>5 DEF AnswerInv
  <2> QED
    BY <2>7, <2>8
<1> QED
  BY <1>1, <1>2, <1>3, <1>4, <1>5, <1>6, <1>7, <1>8
     DEF Next, LoopStep, Gateway, TaskHappens, AsksNext, Resumes, Leaves, Deliver

-----------------------------------------------------------------------------
(* What is reported of a call. *)

ReportInv(j) ==
  IF stage[j] = "settled"
  THEN \E k \in DOMAIN log : log[k] = Completed(j) /\ Concerns(j) = {k}
  ELSE Concerns(j) = {}

(* Events that say nothing of call j change nothing that is reported of it. *)
LEMMA SilentOn ==
  ASSUME EventsTyped, NEW j, NEW es \in Seq(Events), log' = log \o es,
         \A k \in 1..Len(es) : ~(es[k].kind = "completed" /\ es[k].call = j)
  PROVE  /\ Concerns(j)' = Concerns(j)
         /\ \A k \in DOMAIN log : k \in DOMAIN log' /\ log'[k] = log[k]
<1> USE DEF EventsTyped
<1>1. /\ log' \in Seq(Events) /\ Len(log') = Len(log) + Len(es)
      /\ \A k \in 1..(Len(log) + Len(es)) :
           log'[k] = IF k <= Len(log) THEN log[k] ELSE es[k - Len(log)]
  BY ConcatProperties
<1>2. Len(log) \in Nat /\ Len(es) \in Nat
  OBVIOUS
<1>3. DOMAIN log = 1..Len(log) /\ DOMAIN log' = 1..(Len(log) + Len(es))
  BY <1>1
<1>4. \A k \in DOMAIN log : k \in DOMAIN log' /\ log'[k] = log[k]
  BY <1>1, <1>2, <1>3
<1>5. ASSUME NEW k \in DOMAIN log', k \notin DOMAIN log
      PROVE  ~(log'[k].kind = "completed" /\ log'[k].call = j)
  <2>1. k \in Nat /\ k > Len(log) /\ k <= Len(log) + Len(es)
    BY <1>2, <1>3, <1>5
  <2>2. k - Len(log) \in 1..Len(es) /\ log'[k] = es[k - Len(log)]
    BY <1>1, <1>2, <2>1
  <2> QED
    BY <2>2
<1> QED
  BY <1>4, <1>5 DEF Concerns

LEMMA ReportKept ==
  ASSUME EventsTyped, NEW j, ReportInv(j), NEW es \in Seq(Events), log' = log \o es,
         \A k \in 1..Len(es) : ~(es[k].kind = "completed" /\ es[k].call = j),
         stage'[j] = "settled" <=> stage[j] = "settled",
         stage[j] = "settled" => result'[j] = result[j]
  PROVE  ReportInv(j)'
<1>1. /\ Concerns(j)' = Concerns(j)
      /\ \A k \in DOMAIN log : k \in DOMAIN log' /\ log'[k] = log[k]
  BY SilentOn
<1>2. stage[j] = "settled" => Completed(j)' = Completed(j)
  BY DEF Completed, Event
<1> QED
  BY <1>1, <1>2 DEF ReportInv

LEMMA ReportMade ==
  ASSUME EventsTyped, NEW j, Concerns(j) = {}, NEW es \in Seq(Events),
         Completed(j) \in Events, log' = log \o (<<Completed(j)>> \o es),
         \A k \in 1..Len(es) : es[k].kind # "completed",
         stage'[j] = "settled", result'[j] = result[j]
  PROVE  ReportInv(j)'
<1> USE DEF EventsTyped
<1> DEFINE n == Len(log) + 1
<1>1. Append(log, Completed(j)) = log \o <<Completed(j)>> /\ <<Completed(j)>> \in Seq(Events)
  OBVIOUS
<1>2. log' = Append(log, Completed(j)) \o es /\ Append(log, Completed(j)) \in Seq(Events)
  BY <1>1, ConcatAssociative
<1>3. Len(log) \in Nat /\ Len(es) \in Nat /\ Len(Append(log, Completed(j))) = n
  OBVIOUS
<1>4. \A k \in 1..n : Append(log, Completed(j))[k] = IF k = n THEN Completed(j) ELSE log[k]
  BY <1>3
<1> DEFINE head == Append(log, Completed(j))
<1> HIDE DEF head
<1>5. /\ log' \in Seq(Events) /\ Len(log') = n + Len(es)
      /\ \A k \in 1..(n + Len(es)) : log'[k] = IF k <= n THEN head[k] ELSE es[k - n]
  BY <1>2, <1>3, ConcatProperties DEF head
<1>6. DOMAIN log' = 1..(n + Len(es))
  BY <1>5
<1>7. n \in DOMAIN log' /\ log'[n] = Completed(j)
  BY <1>3, <1>4, <1>5, <1>6 DEF head
<1>8. ASSUME NEW k \in DOMAIN log', k # n
      PROVE  ~(log'[k].kind = "completed" /\ log'[k].call = j)
  <2>1. CASE k < n
    <3>1. k \in DOMAIN log /\ log'[k] = log[k]
      BY <1>3, <1>4, <1>5, <1>6, <2>1 DEF head
    <3> QED
      BY <3>1 DEF Concerns
  <2>2. CASE k > n
    <3>1. k - n \in 1..Len(es) /\ log'[k] = es[k - n]
      BY <1>3, <1>5, <1>6, <2>2
    <3> QED
      BY <3>1
  <2> QED
    BY <1>3, <1>6, <1>8, <2>1, <2>2
<1>9. Completed(j).kind = "completed" /\ Completed(j).call = j /\ Completed(j)' = Completed(j)
  BY DEF Completed, Event
<1>10. Concerns(j)' = {n}
  BY <1>7, <1>8, <1>9 DEF Concerns
<1> QED
  BY <1>7, <1>9, <1>10 DEF ReportInv

LEMMA EventsAreEvents ==
  ASSUME ToolInv
  PROVE  /\ <<TaskEvent>> \in Seq(Events) /\ TaskEvent.kind = "task"
         /\ <<RunFinished>> \in Seq(Events) /\ RunFinished.kind = "run_finished"
         /\ TaskEvent \in Events /\ RunFinished \in Events
         /\ \A i \in Indices : Completed(i) \in Events /\ Completed(i).kind = "completed"
                               /\ Completed(i).call = i
         /\ \A S \in SUBSET Indices :
              /\ StartedAll(S) \in Seq(Events)
              /\ \A k \in 1..Len(StartedAll(S)) : StartedAll(S)[k].kind = "started"
<1>1. TaskEvent \in Events /\ RunFinished \in Events
  BY DEF TaskEvent, RunFinished, Event, Events, Results
<1>2. \A i \in Indices : Completed(i) \in Events
  BY CallsAreKnown DEF ToolInv, CallsTyped, Completed, Event, Events
<1>3. ASSUME NEW S \in SUBSET Indices
      PROVE  /\ StartedAll(S) \in Seq(Events)
             /\ \A k \in 1..Len(StartedAll(S)) : StartedAll(S)[k].kind = "started"
  <2>1. StartedAll(S) \in Seq(Events)
        /\ \A k \in DOMAIN StartedAll(S) : StartedAll(S)[k].kind = "started"
    BY CallsAreKnown, StartedAllIsSeq DEF ToolInv
  <2>2. DOMAIN StartedAll(S) = 1..Len(StartedAll(S))
    BY <2>1
  <2> QED
    BY <2>1, <2>2
<1> QED
  BY <1>1, <1>2, <1>3 DEF TaskEvent, RunFinished, Completed, Event

LEMMA ReportsStay ==
  ASSUME ToolInv, \A i \in Indices : ReportInv(i), Next, NEW j \in Indices
  PROVE  ReportInv(j)'
<1> USE DEF ToolInv
<1>0. EventsTyped
  OBVIOUS
<1>1. CASE UNCHANGED <<log, stage, result>>
  BY <1>1 DEF ReportInv, Concerns, Completed, Event
<1>2. ASSUME NEW S, Enters(S) PROVE ReportInv(j)'
  <2>1. S \in SUBSET Indices /\ log' = log \o StartedAll(S)
    BY <1>2 DEF Enters, Emit, At
  <2>2. /\ stage'[j] = "settled" <=> stage[j] = "settled"
        /\ stage[j] = "settled" => result'[j] = result[j]
    BY <1>2 DEF Enters, At
  <2> QED
    BY <1>0, <2>1, <2>2, EventsAreEvents, ReportKept
<1>3. CASE Begin
  BY <1>2, <1>3, BeginEnters
<1>4. CASE NextTerminal
  BY <1>2, <1>4, TerminalEnters
<1>5. CASE Finish
  <2>1. log' = log \o <<RunFinished>>
    <3>1. log' = Append(log, RunFinished)
      BY <1>5 DEF Finish
    <3>2. log \in Seq(Events) /\ RunFinished \in Events
      BY EventsAreEvents DEF EventsTyped
    <3> QED
      BY <3>1, <3>2
  <2>2. \A k \in 1..Len(<<RunFinished>>) : <<RunFinished>>[k].kind # "completed"
    BY EventsAreEvents
  <2>3. UNCHANGED <<stage, result>>
    BY <1>5 DEF Finish
  <2> QED
    BY <1>0, <2>1, <2>2, <2>3, EventsAreEvents, ReportKept
<1>6. CASE TaskHappens
  <2>1. log' = log \o <<TaskEvent>> /\ UNCHANGED <<stage, result>>
    BY <1>6 DEF TaskHappens, Emit, batchVars
  <2>2. \A k \in 1..Len(<<TaskEvent>>) : <<TaskEvent>>[k].kind # "completed"
    BY EventsAreEvents
  <2> QED
    BY <1>0, <2>1, <2>2, EventsAreEvents, ReportKept
<1>7. ASSUME NEW i \in Indices, CallStep(i) PROVE ReportInv(j)'
  <2>1. PICK S : Moves(i, S)
    BY <1>7, CallMoves
  <2>2. S \in SUBSET Indices /\ i \notin S /\ \A k \in S : stage[k] = "idle"
    BY <2>1 DEF Moves, LaneWork, At
  <2>3. CASE stage'[i] # "settled"
    <3>1. log' = log
      BY <2>1, <2>3 DEF Moves, eventVars
    <3>2. /\ stage'[j] = "settled" <=> stage[j] = "settled"
          /\ stage[j] = "settled" => result'[j] = result[j]
      BY <2>1, <2>3 DEF Moves
    <3> QED
      BY <3>1, <3>2 DEF ReportInv, Concerns, Completed, Event
  <2>4. CASE stage'[i] = "settled"
    <3>1. log' = log \o (<<Completed(i)>> \o StartedAll(S)) /\ result'[i] = result[i]
          /\ stage[i] = "landing"
      BY <2>1, <2>4 DEF Moves, Emit
    <3>2. CASE j = i
      <4>1. Concerns(j) = {}
        BY <3>1, <3>2 DEF ReportInv
      <4> QED
        BY <1>0, <2>2, <2>4, <3>1, <3>2, <4>1, EventsAreEvents, ReportMade
    <3>3. CASE j # i
      <4> DEFINE es == <<Completed(i)>> \o StartedAll(S)
      <4>1. es \in Seq(Events) /\ Len(es) = 1 + Len(StartedAll(S)) /\ es[1] = Completed(i)
            /\ \A k \in 2..Len(es) : es[k] = StartedAll(S)[k - 1]
        BY <2>2, EventsAreEvents, ConcatProperties
      <4>2. \A k \in 1..Len(es) : ~(es[k].kind = "completed" /\ es[k].call = j)
        <5>1. Len(StartedAll(S)) \in Nat
              /\ \A k \in 1..Len(StartedAll(S)) : StartedAll(S)[k].kind = "started"
          BY <2>2, EventsAreEvents
        <5>2. ASSUME NEW k \in 1..Len(es), k # 1 PROVE es[k].kind = "started"
          <6>1. k \in 2..Len(es) /\ k - 1 \in 1..Len(StartedAll(S))
            BY <4>1, <5>1, <5>2
          <6> QED
            BY <4>1, <5>1, <6>1
        <5> QED
          BY <3>3, <4>1, <5>2, EventsAreEvents
      <4>3. /\ stage'[j] = "settled" <=> stage[j] = "settled"
            /\ stage[j] = "settled" => result'[j] = result[j]
        BY <2>1, <2>2, <3>3 DEF Moves
      <4> QED
        BY <1>0, <3>1, <4>1, <4>2, <4>3, ReportKept
    <3> QED
      BY <3>2, <3>3
  <2> QED
    BY <2>3, <2>4
<1> QED
  BY <1>1, <1>3, <1>4, <1>5, <1>6, <1>7
     DEF Next, LoopStep, LanesSettle, Answer, Gateway, Interrupt, AsksNext, Resumes, Leaves,
         Deliver, batchVars, eventVars

-----------------------------------------------------------------------------
(* The consumer: what it was told, and what the log says after that. *)

Mute(es) == \A k \in 1..Len(es) : es[k].kind # "run_finished"

(* l is the log, s the stream, t what was taken; over: the run is finished. *)
Tells(told, more, l, s, t, over) ==
  /\ l = told \o more
  /\ ~s.detached => t \o s.buffer = told
  /\ \E rest \in Seq(Events) : told = t \o rest
  /\ ~over => more = <<>> /\ Mute(told)
  /\ over => /\ Len(told) > 0 /\ told[Len(told)].kind = "run_finished"
             /\ \A k \in 1..(Len(told) - 1) : told[k].kind # "run_finished"
             /\ \A k \in 1..Len(more) : more[k].kind = "task"

StreamInv ==
  /\ stream.closed <=> phase = "finished"
  /\ \E told, more \in Seq(Events) :
       Tells(told, more, log, stream, taken, phase = "finished")
  /\ stream.waiting > 0 => Look(stream) = "wait"

\* Sequences of events may be joined in either order.
LEMMA EventsAssociate ==
  \A a, b, c \in Seq(Events) : (a \o b) \o c = a \o (b \o c)
<1> TAKE a, b, c \in Seq(Events)
<1> QED
  BY ConcatAssociative

LEMMA PrefixOfConcat ==
  ASSUME NEW S, NEW s \in Seq(S), NEW t \in Seq(S)
  PROVE  SubSeq(s \o t, 1, Len(s)) = s
<1>1. /\ s \o t \in Seq(S) /\ Len(s) \in Nat /\ Len(t) \in Nat
      /\ Len(s \o t) = Len(s) + Len(t)
      /\ \A i \in 1..Len(s) : (s \o t)[i] = s[i]
  BY ConcatProperties
<1>2. \A i \in 1..Len(s) : (s \o t)[i] \in S
  BY <1>1, ElementOfSeq
<1> DEFINE u == SubSeq(s \o t, 1, Len(s))
<1>3. u \in Seq(S) /\ Len(u) = Len(s) /\ \A i \in 1..Len(s) : u[i] = (s \o t)[i]
  BY <1>1, <1>2, SubSeqProperties
<1> HIDE DEF u
<1>4. u = s
  BY <1>1, <1>3, SeqEqual
<1> QED
  BY <1>4 DEF u

LEMMA MuteConcat ==
  ASSUME NEW s \in Seq(Events), NEW t \in Seq(Events), Mute(s), Mute(t)
  PROVE  Mute(s \o t)
<1>1. /\ Len(s) \in Nat /\ Len(t) \in Nat /\ Len(s \o t) = Len(s) + Len(t)
      /\ \A i \in 1..(Len(s) + Len(t)) :
           (s \o t)[i] = IF i <= Len(s) THEN s[i] ELSE t[i - Len(s)]
  BY ConcatProperties
<1>2. ASSUME NEW i \in 1..(Len(s) + Len(t)), i > Len(s) PROVE i - Len(s) \in 1..Len(t)
  BY <1>1, <1>2
<1> QED
  BY <1>1, <1>2 DEF Mute

(* Before the run is over, whatever is emitted is told or waits to be. *)
LEMMA EmissionTold ==
  ASSUME EventsTyped, StreamInv, phase # "finished", phase' # "finished",
         NEW es \in Seq(Events), Mute(es), Emit(es)
  PROVE  StreamInv'
<1> USE DEF EventsTyped
<1>1. PICK told, more \in Seq(Events) : Tells(told, more, log, stream, taken, FALSE)
  BY DEF StreamInv
<1>2. more = <<>> /\ Mute(told) /\ log = told /\ ~stream.closed
  <2>1. told \o <<>> = told
    BY ConcatEmptySeq
  <2> QED
    BY <1>1, <2>1 DEF Tells, StreamInv
<1>3. log' = log \o es /\ log' \in Seq(Events) /\ taken' = taken /\ stream' = Pushed(stream, es)
  BY ConcatProperties DEF Emit
<1>4. /\ stream'.closed = stream.closed /\ stream'.detached = stream.detached
      /\ stream'.buffer = IF stream.detached \/ es = <<>> THEN stream.buffer
                          ELSE stream.buffer \o es
      /\ stream'.waiting = IF stream.detached \/ es = <<>> THEN stream.waiting ELSE 0
  BY <1>2, <1>3, PushedIs
<1>5. stream.buffer \in Seq(Events)
  BY DEF Streams
<1>6. ~stream'.detached => taken' \o stream'.buffer = log'
  <2>1. ~stream.detached => taken \o stream.buffer = log
    BY <1>1, <1>2 DEF Tells
  <2>2. CASE es = <<>>
    BY <1>3, <1>4, <2>1, <2>2, ConcatEmptySeq
  <2>3. CASE es # <<>>
    <3>1. (taken \o stream.buffer) \o es = taken \o (stream.buffer \o es)
      <4>1. \A b \in Seq(Events) : (taken \o b) \o es = taken \o (b \o es)
        BY EventsAssociate
      <4> QED
        BY <1>5, <4>1
    <3> QED
      BY <1>3, <1>4, <2>1, <2>3, <3>1
  <2> QED
    BY <2>2, <2>3
<1>7. \E rest \in Seq(Events) : log' = taken' \o rest
  <2>1. PICK rest \in Seq(Events) : log = taken \o rest
    BY <1>1, <1>2 DEF Tells
  <2>2. log' = taken \o (rest \o es) /\ rest \o es \in Seq(Events)
    BY <1>3, <2>1, EventsAssociate, ConcatProperties, SMTT(30)
  <2> QED
    BY <1>3, <2>2
<1>8. Mute(log')
  BY <1>2, <1>3, MuteConcat
<1>9. Tells(log', <<>>, log', stream', taken', FALSE)
  <2>1. log' = log' \o <<>>
    BY <1>3, ConcatEmptySeq
  <2> QED
    BY <1>6, <1>7, <1>8, <2>1 DEF Tells
<1>10. stream'.waiting > 0 => Look(stream') = "wait"
  BY <1>4 DEF StreamInv, Look
<1> QED
  BY <1>2, <1>3, <1>4, <1>9, <1>10, EmptySeq DEF StreamInv

(* The last event, and the end of the stream. *)
LEMMA FinishTold ==
  ASSUME ToolInv, EventsTyped, StreamInv, Finish PROVE StreamInv'
<1> USE DEF EventsTyped
<1>0. phase # "finished" /\ phase' = "finished" /\ taken' = taken
      /\ log' = Append(log, RunFinished)
      /\ stream' = Closed(Pushed(stream, <<RunFinished>>))
  BY DEF Finish
<1>1. PICK told, more \in Seq(Events) : Tells(told, more, log, stream, taken, FALSE)
  BY <1>0 DEF StreamInv
<1>2. Mute(log) /\ log = told
  <2>1. told \o <<>> = told
    BY ConcatEmptySeq
  <2> QED
    BY <1>1, <2>1 DEF Tells
<1> DEFINE last == RunFinished
<1>3. last \in Events /\ <<last>> \in Seq(Events) /\ last.kind = "run_finished"
  BY EventsAreEvents
<1> HIDE DEF last
<1>4. /\ log' = log \o <<last>> /\ log' \in Seq(Events) /\ Len(log') = Len(log) + 1
      /\ log'[Len(log')] = last
      /\ \A k \in 1..(Len(log') - 1) : log'[k] = log[k]
  <2>1. log' = Append(log, last) /\ log \in Seq(Events)
    BY <1>0 DEF last
  <2> QED
    BY <1>3, <2>1
<1>5. /\ stream'.closed /\ stream'.detached = stream.detached /\ stream'.waiting = 0
      /\ stream'.buffer = IF stream.detached THEN stream.buffer
                          ELSE stream.buffer \o <<last>>
  <2> DEFINE p == Pushed(stream, <<last>>)
  <2>1. ~stream.closed /\ <<last>> # <<>>
    BY <1>0 DEF StreamInv
  <2>2. /\ p \in Streams(Events) /\ p.detached = stream.detached
        /\ p.buffer = IF stream.detached THEN stream.buffer ELSE stream.buffer \o <<last>>
    BY <1>3, <2>1, PushedIs
  <2>3. stream' = Closed(p)
    BY <1>0 DEF last
  <2> HIDE DEF p
  <2> QED
    BY <2>2, <2>3, ClosedIs
<1>6. ~stream'.detached => taken' \o stream'.buffer = log'
  <2> SUFFICES ASSUME ~stream.detached PROVE taken \o (stream.buffer \o <<last>>) = log'
    BY <1>0, <1>5
  <2>1. taken \o stream.buffer = log
    BY <1>1, <1>2 DEF Tells
  <2>2. \A b \in Seq(Events) : (taken \o b) \o <<last>> = taken \o (b \o <<last>>)
    BY <1>3, EventsAssociate
  <2>3. stream.buffer \in Seq(Events)
    BY DEF Streams
  <2> QED
    BY <1>4, <2>1, <2>2, <2>3
<1>7. \E rest \in Seq(Events) : log' = taken' \o rest
  <2>1. PICK rest \in Seq(Events) : log = taken \o rest
    BY <1>1, <1>2 DEF Tells
  <2>2. log' = taken \o (rest \o <<last>>) /\ rest \o <<last>> \in Seq(Events)
    BY <1>3, <1>4, <2>1, EventsAssociate, ConcatProperties
  <2> QED
    BY <1>0, <2>2
<1>8. /\ Len(log') > 0 /\ log'[Len(log')].kind = "run_finished"
      /\ \A k \in 1..(Len(log') - 1) : log'[k].kind # "run_finished"
  BY <1>2, <1>3, <1>4 DEF Mute
<1>9. Tells(log', <<>>, log', stream', taken', phase' = "finished")
  <2>1. log' = log' \o <<>>
    BY <1>4, ConcatEmptySeq
  <2>2. \A k \in 1..Len(<<>>) : <<>>[k].kind = "task"
    OBVIOUS
  <2> QED
    BY <1>0, <1>6, <1>7, <1>8, <2>1, <2>2, Zenon DEF Tells
<1>10. \E t, m \in Seq(Events) : Tells(t, m, log', stream', taken', phase' = "finished")
  BY <1>4, <1>9, EmptySeq
<1>11. (stream'.closed <=> phase' = "finished") /\ ~(stream'.waiting > 0)
  BY <1>0, <1>5
<1> QED
  BY <1>10, <1>11 DEF StreamInv

(* A task that reports: after the run the stream takes no more of it. *)
LEMMA TaskTold ==
  ASSUME ToolInv, EventsTyped, StreamInv, TaskHappens PROVE StreamInv'
<1> USE DEF EventsTyped
<1>0. Emit(<<TaskEvent>>) /\ phase' = phase
  BY DEF TaskHappens, batchVars
<1>1. CASE phase # "finished"
  <2>1. Mute(<<TaskEvent>>)
    BY EventsAreEvents DEF Mute
  <2> QED
    BY <1>0, <1>1, <2>1, EventsAreEvents, EmissionTold
<1>2. CASE phase = "finished"
  <2>1. PICK told, more \in Seq(Events) : Tells(told, more, log, stream, taken, TRUE)
    BY <1>2 DEF StreamInv
  <2>2. UNCHANGED <<stream, taken>> /\ log' = log \o <<TaskEvent>>
    BY <1>0, <1>2 DEF Emit, Pushed, StreamInv
  <2> DEFINE new == more \o <<TaskEvent>>
  <2>3. new \in Seq(Events) /\ Len(new) = Len(more) + 1
        /\ \A k \in 1..(Len(more) + 1) : new[k] = IF k <= Len(more) THEN more[k] ELSE TaskEvent
    BY EventsAreEvents
  <2>4. log' = told \o new
    <3>1. \A es \in Seq(Events) : (told \o more) \o es = told \o (more \o es)
      BY EventsAssociate
    <3> QED
      BY <2>1, <2>2, <3>1, EventsAreEvents DEF Tells
  <2> HIDE DEF new
  <2>5. \A k \in 1..Len(new) : new[k].kind = "task"
    <3>1. \A k \in 1..Len(more) : more[k].kind = "task"
      BY <2>1 DEF Tells
    <3>2. ASSUME NEW k \in 1..Len(new) PROVE new[k].kind = "task"
      <4>1. new[k] = IF k <= Len(more) THEN more[k] ELSE TaskEvent
        BY <2>3
      <4> QED
        BY <3>1, <4>1, EventsAreEvents
    <3> QED
      BY <3>2
  <2>6. Tells(told, new, log', stream', taken', TRUE)
    BY <2>1, <2>2, <2>4, <2>5 DEF Tells
  <2> QED
    BY <1>0, <1>2, <2>2, <2>3, <2>6 DEF StreamInv
<1> QED
  BY <1>1, <1>2

(* One look at the stream, of a next() that has just come or was woken. *)
LEMMA LookTold ==
  ASSUME EventsTyped, StreamInv, NEW s \in Streams(Events), Deliver(s, Looked(s)),
         s.buffer = stream.buffer, s.closed = stream.closed, s.detached = stream.detached,
         s.waiting = stream.waiting
  PROVE  StreamInv'
<1> USE DEF EventsTyped
<1>0. phase' = phase /\ log' = log /\ stream' = Looked(s)
  BY DEF Deliver, batchVars
<1>1. PICK told, more \in Seq(Events) :
        Tells(told, more, log, stream, taken, phase = "finished")
  BY DEF StreamInv
<1>2. /\ stream'.closed = stream.closed /\ stream'.detached = stream.detached
      /\ stream'.buffer = IF Look(s) = "event" THEN Tail(s.buffer) ELSE s.buffer
      /\ Look(s) # "wait" => stream'.waiting = stream.waiting
      /\ Look(s) = "event" => ~s.detached /\ s.buffer # <<>>
  BY <1>0, LookedIs
<1>3. Look(s) = Look(stream)
  BY DEF Look
<1>4. stream'.waiting > 0 => Look(stream') = "wait"
  <2>1. CASE Look(s) = "wait"
    BY <1>2, <2>1, LookedIs DEF Look
  <2>2. CASE Look(s) # "wait"
    BY <1>2, <1>3, <2>2 DEF StreamInv
  <2> QED
    BY <2>1, <2>2
<1>5. CASE Look(s) # "event"
  <2>1. taken' = taken /\ stream'.buffer = stream.buffer
    BY <1>2, <1>5 DEF Deliver
  <2>2. Tells(told, more, log', stream', taken', phase = "finished")
    BY <1>0, <1>1, <1>2, <2>1 DEF Tells
  <2> QED
    BY <1>0, <1>2, <1>4, <2>2 DEF StreamInv
<1>6. CASE Look(s) = "event"
  <2> DEFINE b == s.buffer
             h == Head(b)
             r == Tail(b)
  <2>1. b \in Seq(Events) /\ b # <<>> /\ ~stream.detached /\ taken \o b = told
    BY <1>1, <1>2, <1>6 DEF Streams, Tells
  <2> HIDE DEF b
  <2>2. h \in Events /\ r \in Seq(Events) /\ b = <<h>> \o r
    BY <2>1
  <2>3. taken' = Append(taken, h) /\ stream'.buffer = r
    BY <1>2, <1>6 DEF Deliver, b
  <2> HIDE DEF h, r
  <2>4. Append(taken, h) = taken \o <<h>> /\ <<h>> \in Seq(Events)
    BY <2>2
  <2>5. taken' \o r = told
    <3>1. (taken \o <<h>>) \o r = taken \o (<<h>> \o r)
      BY <2>2, <2>4, EventsAssociate
    <3> QED
      BY <2>1, <2>2, <2>3, <2>4, <3>1
  <2>6. Tells(told, more, log', stream', taken', phase = "finished")
    BY <1>0, <1>1, <2>2, <2>3, <2>5 DEF Tells
  <2> QED
    BY <1>0, <1>2, <1>4, <2>6 DEF StreamInv
<1> QED
  BY <1>5, <1>6

LEMMA StreamStays ==
  ASSUME ToolInv, EventsTyped, PhaseInv, StreamInv, Next PROVE StreamInv'
<1>1. CASE UNCHANGED eventVars /\ (phase' = "finished" <=> phase = "finished")
  BY <1>1 DEF StreamInv, eventVars
<1>2. ASSUME NEW S, Enters(S), phase # "finished", phase' # "finished" PROVE StreamInv'
  <2>1. S \in SUBSET Indices /\ Emit(StartedAll(S))
    BY <1>2 DEF Enters, At
  <2>2. StartedAll(S) \in Seq(Events) /\ Mute(StartedAll(S))
    BY <2>1, EventsAreEvents DEF Mute
  <2> QED
    BY <1>2, <2>1, <2>2, EmissionTold
<1>3. CASE Begin
  <2>1. phase # "finished" /\ phase' # "finished"
    BY <1>3 DEF Begin
  <2> QED
    BY <1>2, <1>3, <2>1, BeginEnters
<1>4. CASE NextTerminal
  <2>1. phase # "finished" /\ phase' # "finished"
    BY <1>4 DEF NextTerminal, BetweenTerminals
  <2> QED
    BY <1>2, <1>4, <2>1, TerminalEnters
<1>5. CASE LanesSettle \/ Answer \/ Interrupt \/ \E i \in GateCalls : Gateway(i)
  BY <1>1, <1>5 DEF LanesSettle, Answer, BetweenTerminals, Interrupt, Gateway, batchVars
<1>6. ASSUME NEW i \in Indices, CallStep(i) PROVE StreamInv'
  <2>1. PICK S : Moves(i, S)
    BY <1>6, CallMoves
  <2>2. CASE stage'[i] # "settled"
    BY <1>1, <2>1, <2>2 DEF Moves
  <2>3. CASE stage'[i] = "settled"
    <3>1. /\ S \in SUBSET Indices /\ Emit(<<Completed(i)>> \o StartedAll(S))
          /\ phase' = phase /\ ~aborted /\ stage[i] = "landing"
      BY <2>1, <2>3 DEF Moves, LaneWork, At
    <3>2. phase # "finished"
      BY <3>1 DEF PhaseInv
    <3>3. <<Completed(i)>> \in Seq(Events) /\ Mute(<<Completed(i)>>)
      BY EventsAreEvents DEF Mute
    <3>4. StartedAll(S) \in Seq(Events) /\ Mute(StartedAll(S))
      BY <3>1, EventsAreEvents DEF Mute
    <3>5. <<Completed(i)>> \o StartedAll(S) \in Seq(Events)
          /\ Mute(<<Completed(i)>> \o StartedAll(S))
      BY <3>3, <3>4, MuteConcat, ConcatProperties
    <3> QED
      BY <3>1, <3>2, <3>5, EmissionTold
  <2> QED
    BY <2>2, <2>3
<1>7. CASE AsksNext
  <2> DEFINE s == [stream EXCEPT !.consumed = TRUE]
  <2>1. /\ s \in Streams(Events) /\ s.buffer = stream.buffer /\ s.closed = stream.closed
        /\ s.detached = stream.detached /\ s.waiting = stream.waiting
    BY DEF EventsTyped, Streams
  <2>2. Deliver(s, Looked(s))
    <3>1. Deliver(stream, Looked(s))
      BY <1>7 DEF AsksNext
    <3>2. Look(s) = Look(stream)
      BY <2>1 DEF Look
    <3> QED
      BY <2>1, <3>1, <3>2 DEF Deliver
  <2> HIDE DEF s
  <2> QED
    BY <2>1, <2>2, LookTold
<1>8. CASE Resumes
  <2> DEFINE r == stream.ready - 1
             s == [stream EXCEPT !.ready = r]
  <2>1. r \in Nat
    BY <1>8 DEF Resumes, EventsTyped, Streams
  <2>2. Resumed(stream) = Looked(s)
    BY DEF Resumed, EventsTyped, Streams
  <2> HIDE DEF r
  <2>3. /\ s \in Streams(Events) /\ s.buffer = stream.buffer /\ s.closed = stream.closed
        /\ s.detached = stream.detached /\ s.waiting = stream.waiting
    BY <2>1 DEF EventsTyped, Streams
  <2>4. Deliver(s, Looked(s))
    <3>1. Deliver(stream, Looked(s))
      BY <1>8, <2>2 DEF Resumes
    <3>2. Look(s) = Look(stream)
      BY <2>3 DEF Look
    <3> QED
      BY <2>3, <3>1, <3>2 DEF Deliver
  <2> HIDE DEF s
  <2> QED
    BY <2>3, <2>4, LookTold
<1>9. CASE Leaves
  <2>1. PICK told, more \in Seq(Events) :
          Tells(told, more, log, stream, taken, phase = "finished")
    BY DEF StreamInv
  <2>2. /\ stream'.detached /\ stream'.closed = stream.closed /\ stream'.waiting = 0
        /\ UNCHANGED <<phase, log, taken>>
    BY <1>9, DetachedIs DEF Leaves, EventsTyped, batchVars
  <2>3. Tells(told, more, log', stream', taken', phase' = "finished")
    BY <2>1, <2>2 DEF Tells
  <2> QED
    BY <2>2, <2>3 DEF StreamInv
<1> QED
  BY <1>1, <1>3, <1>4, <1>5, <1>6, <1>7, <1>8, <1>9, FinishTold, TaskTold
     DEF Next, LoopStep, EndBinding, batchVars

LEMMA StreamInvTells ==
  ASSUME EventsTyped, StreamInv PROVE StreamTellsTheRun
<1> USE DEF EventsTyped
<1>1. PICK told, more \in Seq(Events) :
        Tells(told, more, log, stream, taken, phase = "finished")
  BY DEF StreamInv
<1>2. taken = SubSeq(log, 1, Len(taken))
  <2>1. PICK rest \in Seq(Events) : told = taken \o rest
    BY <1>1 DEF Tells
  <2>2. log = taken \o (rest \o more) /\ rest \o more \in Seq(Events)
    <3>1. (taken \o rest) \o more = taken \o (rest \o more)
      BY EventsAssociate
    <3> QED
      BY <1>1, <2>1, <3>1, ConcatProperties DEF Tells
  <2> QED
    BY <2>2, PrefixOfConcat
<1>3. /\ log = told \o more /\ Len(told) \in Nat /\ Len(more) \in Nat
      /\ DOMAIN log = 1..(Len(told) + Len(more))
      /\ \A k \in 1..(Len(told) + Len(more)) :
           log[k] = IF k <= Len(told) THEN told[k] ELSE more[k - Len(told)]
  BY <1>1, ConcatProperties DEF Tells
<1>4. CASE phase # "finished"
  <2>1. told = log /\ Mute(log)
    <3>1. told \o <<>> = told
      BY ConcatEmptySeq
    <3> QED
      BY <1>1, <1>4, <3>1 DEF Tells
  <2>2. Finishes = {}
    BY <2>1 DEF Finishes, Mute
  <2>3. Cardinality(Finishes) = 0
    BY <2>2, FS_EmptySet
  <2>4. ~stream.detached => taken \o stream.buffer =
          IF Finishes = {} THEN log ELSE SubSeq(log, 1, First(Finishes))
    BY <1>1, <2>1, <2>2 DEF Tells
  <2>5. Cardinality(Finishes) <= 1 /\ \A k \in Finishes : FALSE
    BY <2>2, <2>3
  <2> QED
    BY <1>2, <2>4, <2>5 DEF StreamTellsTheRun, StreamInv
<1>5. CASE phase = "finished"
  <2> DEFINE n == Len(told)
  <2>1. /\ n > 0 /\ told[n].kind = "run_finished"
        /\ \A k \in 1..(n - 1) : told[k].kind # "run_finished"
        /\ \A k \in 1..Len(more) : more[k].kind = "task"
    BY <1>1, <1>5 DEF Tells
  <2>2. ASSUME NEW k \in DOMAIN log, k > n PROVE log[k].kind = "task"
    <3>1. k - n \in 1..Len(more) /\ log[k] = more[k - n]
      BY <1>3, <2>2
    <3> QED
      BY <2>1, <3>1
  <2>3. n \in DOMAIN log /\ log[n].kind = "run_finished"
    BY <1>3, <2>1
  <2>4. ASSUME NEW k \in DOMAIN log, k < n PROVE log[k].kind # "run_finished"
    <3>1. k \in 1..(n - 1) /\ log[k] = told[k]
      BY <1>3, <2>4
    <3> QED
      BY <2>1, <3>1
  <2>5. Finishes = {n}
    <3>1. ASSUME NEW k \in DOMAIN log, k # n PROVE log[k].kind # "run_finished"
      <4>1. k < n \/ k > n
        BY <1>3, <3>1
      <4> QED
        BY <2>2, <2>4, <4>1
    <3> QED
      BY <2>3, <3>1 DEF Finishes
  <2>6. Cardinality(Finishes) = 1 /\ First(Finishes) = n
    <3>1. Finishes \in SUBSET Nat /\ Finishes # {}
      BY <1>3, <2>5
    <3> QED
      BY <2>5, <3>1, FirstIsLeast, FS_Singleton
  <2>7. SubSeq(log, 1, n) = told
    BY <1>3, PrefixOfConcat
  <2>8. ~stream.detached => taken \o stream.buffer = told
    BY <1>1 DEF Tells
  <2> HIDE DEF n
  <2>9. ~stream.detached => taken \o stream.buffer =
          IF Finishes = {} THEN log ELSE SubSeq(log, 1, First(Finishes))
    BY <2>5, <2>6, <2>7, <2>8
  <2>10. Cardinality(Finishes) <= 1
         /\ \A k \in Finishes : \A m \in DOMAIN log : m > k => log[m].kind = "task"
    BY <2>2, <2>5, <2>6
  <2> QED
    BY <1>2, <2>9, <2>10 DEF StreamTellsTheRun, StreamInv
<1> QED
  BY <1>4, <1>5

-----------------------------------------------------------------------------
(* The lanes: as many calls are under way as there are lanes, or none waits. *)

LaneInv ==
  phase = "ordinary" /\ ~aborted /\ LaneWork # {} =>
    Cardinality(Ordinary \cap InFlight) = Lanes

LEMMA IndicesFinite ==
  ASSUME ToolInv
  PROVE  \E b \in Nat : Indices = 1..b /\ \A S \in SUBSET Indices : IsFiniteSet(S)
<1>1. calls \in Seq(Kinds)
  BY CallsAreKnown DEF ToolInv
<1>2. Len(calls) \in Nat /\ Indices = 1..Len(calls)
  BY <1>1 DEF Indices
<1>3. IsFiniteSet(1..Len(calls))
  BY <1>2, FS_Interval
<1>4. \A S \in SUBSET (1..Len(calls)) : IsFiniteSet(S)
  BY <1>3, FS_Subset
<1> QED
  BY <1>2, <1>4

(* The lanes that open are all there are, when a call is left without one. *)
LEMMA OpeningFillsLanes ==
  ASSUME ToolInv, ~aborted, NEW left \in LaneWork \ Opening
  PROVE  Cardinality(Opening) = Lanes
<1> DEFINE W == LaneWork
           Below(k) == {j \in W : j < k}
<1>1. PICK b \in Nat : Indices = 1..b /\ \A S \in SUBSET Indices : IsFiniteSet(S)
  BY IndicesFinite
<1>2. W \in SUBSET (1..b) /\ IsFiniteSet(W) /\ \A k : IsFiniteSet(Below(k))
  BY <1>1 DEF LaneWork, At
<1>0. \A k \in W : k \in Nat
  BY <1>2
<1>3. \A k : Cardinality(Below(k)) \in Nat
  BY <1>2, FS_CardinalityType
<1>4. Lanes \in Nat /\ Opening = {k \in W : Cardinality(Below(k)) < Lanes}
  BY BatchAssumption DEF Opening
<1>5. left \in W /\ Cardinality(Below(left)) >= Lanes
  BY <1>3, <1>4
<1> HIDE DEF W
<1>6. Lanes + 1 \in 1..Cardinality(W)
  <2>1. Cardinality(Below(left) \cup {left}) = Cardinality(Below(left)) + 1
    <3>1. left \notin Below(left)
      BY <1>2, <1>5
    <3> QED
      BY <1>2, <3>1, FS_AddElement
  <2>2. Below(left) \cup {left} \in SUBSET W
    BY <1>5
  <2>3. Cardinality(Below(left) \cup {left}) <= Cardinality(W) /\ Cardinality(W) \in Nat
    BY <1>2, <2>2, FS_Subset, FS_CardinalityType
  <2> QED
    BY <1>3, <1>4, <1>5, <2>1, <2>3
<1>7. PICK l \in W : Cardinality({j \in W : j <= l}) = Lanes + 1
  BY <1>2, <1>6, RankTaken
<1>8. Cardinality(Below(l)) = Lanes
  <2>1. {j \in W : j <= l} = Below(l) \cup {l} /\ l \notin Below(l)
    <3>1. ~(l < l) /\ \A j \in W : j <= l <=> (j < l \/ j = l)
      BY <1>0
    <3> QED
      BY <3>1
  <2>2. Cardinality(Below(l) \cup {l}) = Cardinality(Below(l)) + 1
    BY <1>2, <2>1, FS_AddElement
  <2>3. Cardinality(Below(l)) \in Nat /\ Cardinality(Below(l) \cup {l}) = Lanes + 1
    BY <1>3, <1>7, <2>1
  <2> HIDE DEF Below
  <2> QED
    BY <1>4, <2>2, <2>3
<1>9. ASSUME NEW k \in W PROVE k < l <=> Cardinality(Below(k)) < Lanes
  <2>1. k \in Nat /\ l \in Nat
    BY <1>0
  <2>2. CASE k < l
    <3>1. k \notin Below(k) /\ Below(k) \cup {k} \in SUBSET Below(l)
      <4>1. ~(k < k) /\ \A j \in W : j < k => j < l
        BY <1>0, <2>1, <2>2
      <4> QED
        BY <2>2, <4>1
    <3>2. Cardinality(Below(k) \cup {k}) = Cardinality(Below(k)) + 1
      BY <1>2, <3>1, FS_AddElement
    <3>3. Cardinality(Below(k) \cup {k}) <= Cardinality(Below(l))
      BY <1>2, <3>1, FS_Subset
    <3> HIDE DEF Below
    <3> QED
      BY <1>3, <1>4, <1>8, <2>2, <3>2, <3>3
  <2>3. CASE ~(k < l)
    <3>1. Below(l) \in SUBSET Below(k)
      <4>1. \A j \in W : j < l => j < k
        BY <1>0, <2>1, <2>3
      <4> QED
        BY <4>1
    <3>2. Cardinality(Below(l)) <= Cardinality(Below(k))
      BY <1>2, <3>1, FS_Subset
    <3> HIDE DEF Below
    <3> QED
      BY <1>3, <1>4, <1>8, <2>3, <3>2
  <2> QED
    BY <2>2, <2>3
<1>10. Opening = Below(l)
  BY <1>4, <1>9
<1> QED
  BY <1>8, <1>10

LEMMA LanesStay ==
  ASSUME ToolInv, CallsTyped, PhaseInv, LaneInv, Next PROVE LaneInv'
<1> DEFINE busy == Ordinary \cap InFlight
<1>1. CASE UNCHANGED batchVars
  BY <1>1 DEF LaneInv, LaneWork, Ordinary, InFlight, At, Indices, batchVars
<1>2. CASE Begin
  <2>1. Enters(Opening) /\ phase = "turn"
    BY <1>2, BeginEnters DEF Begin
  <2>2. Opening \subseteq LaneWork /\ LaneWork \subseteq Ordinary
    BY DEF Opening, LaneWork, Ordinary, At
  <2>3. Indices' = Indices /\ Ordinary' = Ordinary /\ aborted' = aborted
    BY <2>1 DEF Enters, Ordinary, Indices
  <2>4. \A i \in Indices : stage[i] = "idle"
    BY <2>1 DEF PhaseInv
  <2>5. LaneWork' = LaneWork \ Opening
    <3>1. \A i \in Indices : stage'[i] = "idle" <=> i \notin Opening
      BY <2>1, <2>4 DEF Enters
    <3> QED
      BY <2>1, <2>3, <2>4, <3>1 DEF LaneWork, At, Enters
  <2>6. busy' = Opening
    <3>1. \A i \in Indices :
            stage'[i] \in {"pre", "exec", "post", "landing"} <=> i \in Opening
      BY <2>1, <2>4 DEF Enters
    <3>2. InFlight' = {i \in Indices' : stage'[i] \in {"pre", "exec", "post", "landing"}}
      BY DEF InFlight, At
    <3> QED
      BY <2>2, <2>3, <3>1, <3>2 DEF Ordinary
  <2> QED
    BY <2>3, <2>5, <2>6, OpeningFillsLanes DEF LaneInv
<1>3. CASE LanesSettle \/ NextTerminal \/ Answer \/ Finish
  BY <1>3 DEF LanesSettle, NextTerminal, Answer, BetweenTerminals, Finish, LaneInv
<1>4. CASE Interrupt
  BY <1>4 DEF Interrupt, LaneInv
<1>5. ASSUME NEW i \in Indices, CallStep(i) PROVE LaneInv'
  <2>1. PICK S : Moves(i, S)
    BY <1>5, CallMoves
  <2> SUFFICES ASSUME phase = "ordinary", ~aborted, LaneWork' # {}
               PROVE  Cardinality(busy') = Lanes
    BY <2>1 DEF LaneInv, Moves
  <2>2. /\ Indices' = Indices /\ Ordinary' = Ordinary /\ calls' = calls
        /\ S \subseteq LaneWork /\ i \notin LaneWork
    BY <2>1 DEF Moves, Ordinary, Indices, LaneWork, At
  <2>3. i \in Ordinary
    BY <2>1 DEF PhaseInv, Moves, Terminal
  <2>4. LaneWork' \subseteq LaneWork
    <3>1. ASSUME NEW k \in LaneWork' PROVE k \in LaneWork
      <4>1. k \in Indices /\ stage'[k] = "idle" /\ calls[k] # "terminal"
        BY <2>2 DEF LaneWork, At
      <4>2. k \notin S /\ k # i
        BY <2>1, <4>1 DEF Moves
      <4> QED
        BY <2>1, <4>1, <4>2 DEF Moves, LaneWork, At
    <3> QED
      BY <3>1
  <2>5. Cardinality(busy) = Lanes
    BY <2>4 DEF LaneInv
  <2>6. /\ InFlight = {k \in Indices : stage[k] \in {"pre", "exec", "post", "landing"}}
        /\ InFlight' = {k \in Indices : stage'[k] \in {"pre", "exec", "post", "landing"}}
    BY <2>2 DEF InFlight, At
  <2>7. CASE stage'[i] # "settled"
    <3>1. S = {} /\ stage'[i] \in {"exec", "post", "landing"}
      BY <2>1, <2>7 DEF Moves
    <3>2. busy' = busy
      BY <2>1, <2>2, <2>6, <3>1 DEF Moves
    <3> QED
      BY <2>5, <3>2
  <2>8. CASE stage'[i] = "settled"
    <3>1. PICK k : S = {k}
      BY <2>1, <2>3, <2>4, <2>8 DEF Moves, Ordinary
    <3>2. k \in LaneWork /\ k # i /\ stage[k] = "idle" /\ k \in Ordinary
      BY <2>2, <3>1 DEF LaneWork, At, Ordinary
    <3>3. busy' = (busy \ {i}) \cup {k}
      <4>1. stage'[k] \in {"landing", "pre"}
        BY <2>1, <3>1 DEF Moves
      <4>2. \A j \in Indices : j # k /\ j # i => stage'[j] = stage[j]
        BY <2>1, <3>1 DEF Moves
      <4>3. \A j \in Ordinary : j \in Indices
        BY DEF Ordinary
      <4> QED
        BY <2>2, <2>6, <2>8, <3>2, <4>1, <4>2, <4>3
    <3>4. i \in busy /\ k \notin busy /\ IsFiniteSet(busy)
      <4>1. IsFiniteSet(busy)
        BY IndicesFinite DEF Ordinary
      <4> QED
        BY <2>1, <2>3, <2>6, <3>2, <4>1 DEF Moves
    <3> HIDE DEF busy
    <3>5. IsFiniteSet(busy \ {i}) /\ Cardinality(busy \ {i}) = Lanes - 1
      BY <2>5, <3>4, FS_RemoveElement
    <3>6. Cardinality((busy \ {i}) \cup {k}) = Cardinality(busy \ {i}) + 1
      BY <3>4, <3>5, FS_AddElement
    <3>7. Cardinality((busy \ {i}) \cup {k}) = Lanes
      BY <3>5, <3>6, BatchAssumption
    <3> QED
      BY <3>3, <3>7 DEF busy
  <2> QED
    BY <2>7, <2>8
<1> QED
  BY <1>1, <1>2, <1>3, <1>4, <1>5
     DEF Next, LoopStep, Gateway, TaskHappens, AsksNext, Resumes, Leaves, Deliver

-----------------------------------------------------------------------------
(* After the abort no connection is under way, and none is opened again.    *)

QuietInv == aborted => \A i \in GateCalls : gate[i].at \notin {"dialling", "open"}

LEMMA GateMoves ==
  ASSUME CallsTyped, Next
  PROVE  \/ gate' = gate /\ aborted' = aborted
         \/ aborted' = aborted /\ \E i \in GateCalls :
              gate' = [gate EXCEPT ![i] = Dialled(@, aborted)]
         \/ aborted' = aborted /\ \E i \in GateCalls : GateStep(i, aborted)
         \/ Interrupt
<1>1. ASSUME NEW i \in Indices, Entered(i)
      PROVE  \/ gate' = gate
             \/ i \in GateCalls /\ gate' = [gate EXCEPT ![i] = Dialled(@, aborted)]
  BY <1>1, CallsAreKnown DEF Entered
<1>2. ASSUME NEW i \in Indices, PreHooks(i) \/ SubmitHooks(i)
      PROVE  /\ aborted' = aborted
             /\ \/ gate' = gate
                \/ i \in GateCalls /\ gate' = [gate EXCEPT ![i] = Dialled(@, aborted)]
  <2>1. aborted' = aborted
    BY <1>2 DEF PreHooks, SubmitHooks
  <2>2. gate' = gate \/ Entered(i)
    BY <1>2 DEF PreHooks, SubmitHooks, HookDecisions, Denied
  <2> QED
    BY <1>1, <2>1, <2>2
<1>3. ASSUME NEW i \in Indices, Returns(i) \/ PostHooks(i) \/ Land(i)
      PROVE  gate' = gate /\ aborted' = aborted
  BY <1>3 DEF Returns, PostHooks, Land, gateVars
<1>4. ASSUME NEW i \in GateCalls, Gateway(i)
      PROVE  aborted' = aborted /\ GateStep(i, aborted)
  BY <1>4 DEF Gateway, batchVars
<1>5. CASE LoopStep \/ TaskHappens \/ AsksNext \/ Resumes \/ Leaves
  BY <1>5 DEF LoopStep, Begin, LanesSettle, NextTerminal, Answer, Finish, TaskHappens,
              AsksNext, Resumes, Leaves, Deliver, batchVars, gateVars
<1>6. CASE EndBinding /\ UNCHANGED <<batchVars, eventVars>>
  BY <1>6 DEF EndBinding, batchVars
<1> QED
  BY <1>2, <1>3, <1>4, <1>5, <1>6 DEF Next, CallStep

LEMMA QuietStays ==
  ASSUME CallsTyped, GatesTyped, QuietInv, Next
  PROVE  /\ QuietInv'
         /\ aborted => \A j \in GateCalls : gate'[j].sent = gate[j].sent
<1>0. \A j \in GateCalls : gate[j] \in CallRecords
  BY DEF GatesTyped, CallInv
<1>1. CASE gate' = gate /\ aborted' = aborted
  BY <1>1 DEF QuietInv
<1>2. ASSUME NEW i \in GateCalls, NEW new, gate' = [gate EXCEPT ![i] = new],
             aborted' = aborted,
             aborted => new.at \notin {"dialling", "open"} /\ new.sent = gate[i].sent
      PROVE  /\ QuietInv'
             /\ aborted => \A j \in GateCalls : gate'[j].sent = gate[j].sent
  <2>1. gate'[i] = new /\ \A j \in GateCalls : j # i => gate'[j] = gate[j]
    BY <1>2 DEF GatesTyped
  <2> QED
    BY <1>2, <2>1 DEF QuietInv
<1>3. ASSUME NEW call \in CallRecords
      PROVE  /\ Dialled(call, TRUE).at = "settled" /\ Dialled(call, TRUE).sent = call.sent
             /\ Redialled(call, TRUE).at = "settled" /\ Redialled(call, TRUE).sent = call.sent
             /\ Signalled(call).at \notin {"dialling", "open"}
             /\ [call EXCEPT !.ran = @ + 1].at = call.at
             /\ [call EXCEPT !.ran = @ + 1].sent = call.sent
  BY DEF Dialled, Redialled, Settled, Signalled, CallRecords
<1>4. ASSUME NEW i \in GateCalls, gate' = [gate EXCEPT ![i] = Dialled(@, aborted)],
             aborted' = aborted
      PROVE  /\ QuietInv'
             /\ aborted => \A j \in GateCalls : gate'[j].sent = gate[j].sent
  BY <1>0, <1>2, <1>3, <1>4 DEF CallsTyped
<1>5. ASSUME NEW i \in GateCalls, GateStep(i, aborted), aborted' = aborted
      PROVE  /\ QuietInv'
             /\ aborted => \A j \in GateCalls : gate'[j].sent = gate[j].sent
  <2>1. CASE ~aborted
    BY <1>5, <2>1 DEF QuietInv
  <2>2. CASE aborted
    <3>1. gate[i].at \notin {"dialling", "open"}
      BY <2>2 DEF QuietInv
    <3>2. DelayPasses(i, aborted) \/ GatewayRuns(i)
      BY <1>5, <3>1 DEF GateStep, ClientStep, Connects, ConnectionFails, TimerFires, Answered
    <3>3. CASE DelayPasses(i, aborted)
      BY <1>0, <1>2, <1>3, <1>5, <2>2, <3>3 DEF DelayPasses, CallsTyped
    <3>4. CASE GatewayRuns(i)
      BY <1>0, <1>2, <1>3, <1>5, <3>1, <3>4 DEF GatewayRuns
    <3> QED
      BY <3>2, <3>3, <3>4
  <2> QED
    BY <2>1, <2>2 DEF CallsTyped
<1>6. CASE Interrupt
  BY <1>0, <1>3, <1>6 DEF Interrupt, QuietInv
<1> QED
  BY <1>1, <1>4, <1>5, <1>6, GateMoves

-----------------------------------------------------------------------------
(* The inductive invariant of the batch, and what follows from it. *)

BatchInv ==
  /\ ToolInv /\ PhaseInv /\ AnswerInv /\ LaneInv /\ StreamInv
  /\ \A i \in Indices : ReportInv(i)

LEMMA InitBatchInv == Init => BatchInv
<1> SUFFICES ASSUME Init PROVE BatchInv
  OBVIOUS
<1>1. ToolInv
  BY InitToolInv
<1>2. PhaseInv /\ AnswerInv /\ LaneInv
  BY DEF Init, PhaseInv, AnswerInv, LaneInv, Ordinary, Terminal
<1>3. StreamInv
  <2>1. /\ log = <<>> /\ taken = <<>> /\ phase # "finished" /\ stream.buffer = <<>>
        /\ ~stream.closed /\ ~(stream.waiting > 0)
    BY DEF Init, NewStream
  <2>2. <<>> \in Seq(Events) /\ <<>> \o <<>> = <<>> /\ Mute(<<>>)
    BY DEF Mute
  <2>3. Tells(<<>>, <<>>, log, stream, taken, phase = "finished")
    BY <2>1, <2>2 DEF Tells
  <2> QED
    BY <2>1, <2>2, <2>3 DEF StreamInv
<1>4. \A i \in Indices : ReportInv(i)
  BY DEF Init, ReportInv, Concerns
<1> QED
  BY <1>1, <1>2, <1>3, <1>4 DEF BatchInv

LEMMA NextBatchInv == BatchInv /\ [Next]_vars => BatchInv'
<1> SUFFICES ASSUME BatchInv, [Next]_vars PROVE BatchInv'
  OBVIOUS
<1>1. ToolInv'
  BY NextToolInv DEF BatchInv
<1>2. CASE Next
  <2>1. CallsTyped /\ EventsTyped
    BY DEF BatchInv, ToolInv
  <2>2. PhaseInv' /\ AnswerInv'
    BY <1>2, PhaseStays DEF BatchInv
  <2>3. LaneInv'
    BY <1>2, <2>1, LanesStay DEF BatchInv
  <2>4. StreamInv'
    BY <1>2, <2>1, StreamStays DEF BatchInv
  <2>5. \A i \in Indices : ReportInv(i)'
    BY <1>2, ReportsStay DEF BatchInv
  <2>6. Indices' = Indices
    BY <1>2, NextKeepsCalls DEF Indices
  <2> QED
    BY <1>1, <2>2, <2>3, <2>4, <2>5, <2>6 DEF BatchInv
<1>3. CASE UNCHANGED vars
  BY <1>1, <1>3 DEF BatchInv, vars, batchVars, eventVars, PhaseInv, AnswerInv, LaneInv,
                    LaneWork, InFlight, At, Ordinary, Terminal, Indices, StreamInv, ReportInv,
                    Concerns, Completed, Event
<1> QED
  BY <1>2, <1>3

(* The invariant the properties below rest on holds in every run. *)
THEOREM BatchInvariant == Safety => []BatchInv
BY InitBatchInv, NextBatchInv, PTL DEF Safety

(* Every variable of the batch, of its events and of its gateway calls      *)
(* keeps the type of the field it stands for.                               *)
THEOREM BatchTypeCorrect == Safety => []BatchTypeOK
<1>1. BatchInv => BatchTypeOK
  BY TypesAreTypes DEF BatchInv, ToolInv
<1> QED
  BY <1>1, BatchInvariant, PTL

(* "A connected-then-failed call is not retried" (gateway-client.ts:125):   *)
(* a sandbox command is run at most once per tool call.                     *)
THEOREM RunsAtMostOnceHolds == Safety => []RunsAtMostOnce
<1>1. BatchInv => RunsAtMostOnce
  BY TypesAreTypes DEF BatchInv, ToolInv
<1> QED
  BY <1>1, BatchInvariant, PTL

(* The tools of a run whose signal has fired send no further command to the *)
(* sandbox (gateway-client.ts:165), whatever was waiting for another attempt*)
(* and whatever straggler is still entered.                                 *)
THEOREM NoCommandAfterAbortHolds == Safety => NoCommandAfterAbort
<1>1. Init => QuietInv
  BY DEF Init, QuietInv
<1>2. BatchInv /\ QuietInv /\ [Next]_vars =>
        /\ QuietInv'
        /\ [aborted => \A i \in GateCalls : gate'[i].sent = gate[i].sent]_vars
  <2>1. CASE UNCHANGED vars
    BY <2>1 DEF vars, batchVars, gateVars, QuietInv
  <2> QED
    BY <2>1, QuietStays DEF BatchInv, ToolInv
<1> QED
  BY <1>1, <1>2, BatchInvariant, PTL DEF Safety, NoCommandAfterAbort

LEMMA AnswersFollow == BatchInv => AnswersAreTrue
<1> SUFFICES ASSUME BatchInv PROVE AnswersAreTrue
  OBVIOUS
<1>1. ASSUME answers # <<>>, NEW i \in Indices
      PROVE  IF answers[i] = "interrupted" THEN aborted /\ Concerns(i) = {}
             ELSE answers[i] = result[i] /\ Reported(i) /\ Cardinality(Concerns(i)) = 1
  <2>1. CASE answers[i] = "interrupted"
    BY <1>1, <2>1 DEF BatchInv, AnswerInv, ReportInv
  <2>2. CASE answers[i] # "interrupted"
    <3>1. stage[i] = "settled" /\ answers[i] = result[i]
      BY <1>1, <2>2 DEF BatchInv, AnswerInv
    <3>2. PICK k \in DOMAIN log : log[k] = Completed(i) /\ Concerns(i) = {k}
      BY <3>1 DEF BatchInv, ReportInv
    <3>3. Reported(i) /\ Cardinality(Concerns(i)) = 1
      BY <3>2, FS_Singleton DEF Reported
    <3> QED
      BY <2>2, <3>1, <3>3
  <2> QED
    BY <2>1, <2>2
<1>2. \A i \in Indices :
        /\ result[i] \in {"output", "accepted", "tool error"} => i \in executed
        /\ i \in executed => result[i] \notin {"denied", "not found", "invalid input"}
  BY DEF BatchInv, ToolInv, StageInv
<1> QED
  BY <1>1, <1>2 DEF AnswersAreTrue

(* What the model is answered, what the host was told and what the tool did *)
(* agree for ever: a straggler of an interrupted batch is dropped           *)
(* (executor.ts:54), and its call is answered "interrupted" instead.        *)
THEOREM AnswersAreTrueHolds == Safety => []AnswersAreTrue
BY BatchInvariant, AnswersFollow, PTL

LEMMA OrderFollows == BatchInv => BatchIsOrdered
<1> SUFFICES ASSUME BatchInv PROVE BatchIsOrdered
  OBVIOUS
<1>1. ASSUME NEW i \in Indices, stage[i] = "settled" PROVE Reported(i)
  BY <1>1 DEF BatchInv, ReportInv, Reported
<1>2. \A t \in Terminal : stage[t] # "idle" => \A i \in Ordinary :
        stage[i] = "settled" /\ Reported(i)
  BY <1>1 DEF BatchInv, PhaseInv, Ordinary
<1> QED
  BY <1>2 DEF BatchIsOrdered, BatchInv, PhaseInv, LaneInv

(* A terminal call starts when every sibling has a reported result, and one *)
(* at a time; every lane is busy as long as an ordinary call waits          *)
(* (executor.ts:19-26).                                                     *)
THEOREM BatchIsOrderedHolds == Safety => []BatchIsOrdered
BY BatchInvariant, OrderFollows, PTL

(* "Live-only, single consumer; run_finished is always last"                *)
(* (run-handle.ts:90): the consumer is told the log up to run_finished, and *)
(* never sleeps while there is something to say to it.                      *)
THEOREM StreamTellsTheRunHolds == Safety => []StreamTellsTheRun
<1>1. BatchInv => StreamTellsTheRun
  BY StreamInvTells DEF BatchInv, ToolInv
<1> QED
  BY <1>1, BatchInvariant, PTL
=============================================================================
