----------------------------- MODULE RalphRunProofs -----------------------------
(***************************************************************************)
(* The theorems about any workflow, applied to ralph_loop: its hooks have  *)
(* the types they ask for.  Then what ralph_loop itself promises, for any  *)
(* attempt budget: one node per phase, and an outcome that its nodes'      *)
(* verdicts have earned.                                                   *)
(***************************************************************************)
EXTENDS RalphRun, WorkflowRunProofs

(* The runtime runs ralph_loop. *)
RalphHooks ==
  /\ InitialStates = {RalphInitial}
  /\ \A state, running : Dispatches(state, running) = RalphDispatches(state, running)
  /\ \A state, spec, settlement, running :
       Applied(state, spec, settlement, running)
         = RalphApplied(state, spec, settlement, running)
  /\ \A state, spec, settlement :
       Validates(state, spec, settlement) <=> RalphValidates(state, spec, settlement)
  /\ \A spec : Payloads(spec) = RalphPayloads(spec)

RalphStates ==
  [done : BOOLEAN, status : {"running", "success", "failure", "deadlocked"},
   attempt : 1..MaxAttempts, phase : Roles \cup {"done"},
   verdicts : [Roles -> Verdicts \cup {"none"}]]
RalphSpecs == [role : Roles, attempt : 1..MaxAttempts]

LEMMA InitialTyped == RalphInitial \in RalphStates
BY AttemptsAssumption DEF RalphInitial, RalphStates, Roles, NoVerdicts

LEMMA DispatchesTyped ==
  ASSUME NEW state \in RalphStates, NEW running
  PROVE  RalphDispatches(state, running) \in Seq(RalphSpecs)
<1>1. CASE state.phase = "done"
  BY <1>1 DEF RalphDispatches
<1>2. CASE state.phase # "done"
  <2>1. [role |-> state.phase, attempt |-> state.attempt] \in RalphSpecs
    BY <1>2 DEF RalphStates, RalphSpecs
  <2> QED BY <2>1 DEF RalphDispatches
<1> QED BY <1>1, <1>2

(* The runtime's own ending of the workflow. *)
LEMMA EndedTyped ==
  ASSUME NEW state \in RalphStates, NEW status \in {"failure", "deadlocked"}
  PROVE  Ended(state, status) \in RalphStates
<1> DEFINE ended == Ended(state, status)
<1>1. ended = [state EXCEPT !.done = TRUE, !.status = status]
  BY DEF Ended
<1> HIDE DEF ended
<1>2. ended = [done |-> TRUE, status |-> status, attempt |-> state.attempt,
               phase |-> state.phase, verdicts |-> state.verdicts]
  BY <1>1 DEF RalphStates
<1>3. ended \in RalphStates
  BY <1>2 DEF RalphStates
<1> QED BY <1>3 DEF ended

(* A failed attempt: the next one, within the budget, or the end. *)
LEMMA RetryTyped ==
  ASSUME NEW state \in RalphStates
  PROVE  RetryOrFail(state) \in RalphStates
<1> DEFINE next == RetryOrFail(state)
<1>1. CASE AttemptsLeft(state)
  <2>1. next = [state EXCEPT !.attempt = @ + 1, !.phase = "planner",
                             !.verdicts = NoVerdicts]
    BY <1>1 DEF RetryOrFail
  <2> HIDE DEF next
  <2>2. next = [done |-> state.done, status |-> state.status,
                attempt |-> state.attempt + 1, phase |-> "planner",
                verdicts |-> NoVerdicts]
    BY <2>1 DEF RalphStates
  <2>3. state.attempt + 1 \in 1..MaxAttempts
    BY <1>1, AttemptsAssumption DEF AttemptsLeft, RalphStates
  <2>4. NoVerdicts \in [Roles -> Verdicts \cup {"none"}] /\ "planner" \in Roles
    BY DEF NoVerdicts, Roles
  <2>5. next \in RalphStates
    BY <2>2, <2>3, <2>4 DEF RalphStates
  <2> QED BY <2>5 DEF next
<1>2. CASE ~AttemptsLeft(state)
  <2>1. next = Ended(state, "failure")
    BY <1>2 DEF RetryOrFail, Ended
  <2> QED BY <2>1, EndedTyped
<1> QED BY <1>1, <1>2

(* A verdict: the next phase, success, or a failed attempt. *)
LEMMA JudgeTyped ==
  ASSUME NEW state \in RalphStates, state.phase # "done"
  PROVE  Judge(state) \in RalphStates
<1> DEFINE next == Judge(state)
<1>1. CASE state.verdicts[state.phase] = "fail"
  BY <1>1, RetryTyped DEF Judge
<1>2. CASE state.verdicts[state.phase] # "fail" /\ state.phase \in {"planner", "reviewer"}
  <2>1. PICK phase \in Roles : next = [state EXCEPT !.phase = phase]
    BY <1>2 DEF Judge, Roles
  <2> HIDE DEF next
  <2>2. next = [done |-> state.done, status |-> state.status, attempt |-> state.attempt,
                phase |-> phase, verdicts |-> state.verdicts]
    BY <2>1 DEF RalphStates
  <2>3. next \in RalphStates
    BY <2>2 DEF RalphStates
  <2> QED BY <2>3 DEF next
<1>3. CASE state.verdicts[state.phase] # "fail" /\ state.phase = "critic"
  <2>1. next = [state EXCEPT !.phase = "done", !.done = TRUE, !.status = "success"]
    BY <1>3 DEF Judge
  <2> HIDE DEF next
  <2>2. next = [done |-> TRUE, status |-> "success", attempt |-> state.attempt,
                phase |-> "done", verdicts |-> state.verdicts]
    BY <2>1 DEF RalphStates
  <2>3. next \in RalphStates
    BY <2>2 DEF RalphStates
  <2> QED BY <2>3 DEF next
<1>4. state.phase \in Roles
  BY DEF RalphStates
<1> QED BY <1>1, <1>2, <1>3, <1>4 DEF Roles

LEMMA AppliedTyped ==
  ASSUME NEW state \in RalphStates, NEW spec, NEW settlement \in Settlements(Verdicts),
         NEW running
  PROVE  RalphApplied(state, spec, settlement, running) \in RalphStates
<1>1. CASE state.phase = "done"
  BY <1>1 DEF RalphApplied
<1>2. CASE state.phase # "done" /\ settlement.status # "completed"
  BY <1>2, RetryTyped DEF RalphApplied
<1>3. CASE state.phase # "done" /\ settlement.status = "completed"
  <2> DEFINE judged == Recorded(state, settlement)
             verdicts == [state.verdicts EXCEPT ![state.phase] = settlement.payload]
  <2>1. RalphApplied(state, spec, settlement, running) =
          IF state.done THEN judged ELSE Judge(judged)
    BY <1>3 DEF RalphApplied
  <2>2. judged = [state EXCEPT !.verdicts = verdicts]
    BY DEF Recorded
  <2>3. settlement.payload \in Verdicts \cup {"none"}
    BY DEF Settlements
  <2>4. verdicts \in [Roles -> Verdicts \cup {"none"}]
    BY <2>3 DEF RalphStates
  <2> HIDE DEF judged, verdicts
  <2>5. judged = [done |-> state.done, status |-> state.status, attempt |-> state.attempt,
                  phase |-> state.phase, verdicts |-> verdicts]
    BY <2>2 DEF RalphStates
  <2>6. judged \in RalphStates /\ judged.phase # "done"
    BY <1>3, <2>4, <2>5 DEF RalphStates
  <2> QED BY <2>1, <2>6, JudgeTyped
<1> QED BY <1>1, <1>2, <1>3

(* Every spec of ralph_loop may be of any of its states. *)
RalphPairs == RalphStates \X RalphSpecs

(* ralph_loop's hooks are well typed. *)
LEMMA RalphHooksTyped ==
  ASSUME RalphHooks
  PROVE  HooksTyped(RalphStates, RalphSpecs, Verdicts, RalphPairs)
<1>1. InitialStates \subseteq RalphStates
  BY InitialTyped DEF RalphHooks
<1>2. ASSUME NEW state \in RalphStates, NEW specs \in SUBSET RalphSpecs
      PROVE  /\ Dispatches(state, specs) \in Seq(RalphSpecs)
             /\ TodoLinked(RalphPairs, state, Dispatches(state, specs))
  <2>1. Dispatches(state, specs) \in Seq(RalphSpecs)
    BY DispatchesTyped DEF RalphHooks
  <2> QED
    BY <2>1 DEF TodoLinked, RalphPairs
<1>3. ASSUME NEW state \in RalphStates, NEW specs \in SUBSET RalphSpecs,
             NEW spec \in RalphSpecs, NEW settlement \in Settlements(Verdicts)
      PROVE  /\ Applied(state, spec, settlement, specs) \in RalphStates
             /\ Carries(RalphPairs, state, Applied(state, spec, settlement, specs))
  <2>1. RalphApplied(state, spec, settlement, specs) \in RalphStates
    BY AppliedTyped
  <2> QED
    BY <2>1 DEF RalphHooks, Carries, RalphPairs
<1>4. \A state \in RalphStates : \A status \in {"failure", "deadlocked"} :
        Ended(state, status) \in RalphStates /\ Carries(RalphPairs, state, Ended(state, status))
  BY EndedTyped DEF Carries, RalphPairs
<1>5. \A spec \in RalphSpecs : Payloads(spec) \subseteq Verdicts
  BY DEF RalphHooks, RalphPayloads
<1> QED BY <1>1, <1>2, <1>3, <1>4, <1>5 DEF HooksTyped

(* And they ask nothing more of nodes than their types. *)
LEMMA RalphLinked ==
  ASSUME RalphHooks, Good(RalphStates, RalphSpecs, Verdicts)
  PROVE  Linked(RalphPairs)
<1>1. /\ nodes \in Seq(EntryType(RalphSpecs, Verdicts)) /\ wf \in RalphStates
      /\ lists \in [Executors -> ListType(RalphSpecs)]
      /\ \A k \in DOMAIN queue : queue[k].kind = "submit" => queue[k].what \in Verdicts
  BY DEF Good, Typed, ListsTyped
<1>2. \A spec : Payloads(spec) = Verdicts
  BY DEF RalphHooks, RalphPayloads
<1>3. EntriesLinked(RalphPairs, wf, nodes)
  <2> SUFFICES ASSUME NEW i \in DOMAIN nodes
               PROVE  /\ <<wf, nodes[i].spec>> \in RalphPairs
                      /\ nodes[i].said \subseteq Payloads(nodes[i].spec)
    BY DEF EntriesLinked
  <2>1. nodes[i] \in EntryType(RalphSpecs, Verdicts)
    BY <1>1
  <2> QED
    BY <1>1, <1>2, <2>1 DEF EntryType, RalphPairs
<1>4. ListsLinked(RalphPairs, wf, lists)
  <2> SUFFICES ASSUME NEW x \in Executors, NEW n \in DOMAIN lists[x].todo
               PROVE  <<wf, lists[x].todo[n]>> \in RalphPairs
    BY DEF ListsLinked, TodoLinked
  <2>1. lists[x].todo \in Seq(RalphSpecs)
    BY <1>1 DEF ListType
  <2> QED
    BY <1>1, <2>1 DEF RalphPairs
<1>5. QueueLinked(nodes, queue)
  BY <1>1, <1>2 DEF QueueLinked
<1> QED BY <1>3, <1>4, <1>5 DEF Linked

(* In a run of ralph_loop, for any attempt budget, a node's end is counted  *)
(* once: no phase's verdict is applied twice although the planner submits   *)
(* twice (workflow-runtime.ts:173).                                         *)
THEOREM RalphCountedOnce ==
  ASSUME RalphHooks
  PROVE  Safety => []CountedOnce
BY RalphHooksTyped, CountedOnceHolds

(* In a run of ralph_loop an accepted node run has a completed entry        *)
(* (node-runner.ts:102).                                                    *)
THEOREM RalphToldTheTruth ==
  ASSUME RalphHooks
  PROVE  Safety => []ToldTheTruth
BY RalphHooksTyped, ToldTheTruthHolds

(* In a run of ralph_loop workflow and node runs agree on every end.        *)
THEOREM RalphEndsAgree ==
  ASSUME RalphHooks
  PROVE  Safety => []EndsAgree
BY RalphHooksTyped, EndsAgreeHolds

-----------------------------------------------------------------------------
(* What a run of ralph_loop rests on.                                       *)

(* The place of a role in an attempt, and the order of the nodes' specs.    *)
Rank == [role \in Roles |-> IF role = "planner" THEN 1 ELSE IF role = "reviewer" THEN 2 ELSE 3]
Before(a, b) ==
  \/ a.attempt < b.attempt
  \/ a.attempt = b.attempt /\ Rank[a.role] < Rank[b.role]
Current(state) == [role |-> state.phase, attempt |-> state.attempt]

(* The run is a sequence of nodes of which only the last may be running:    *)
(* the one the state stands at, until the workflow is done.                 *)
AtLast(state, ns) ==
  /\ state.status = "running"
  /\ state.phase \in Roles
  /\ ns # <<>>
  /\ ns[Len(ns)].spec = Current(state)
  /\ \A i \in DOMAIN ns : ns[i].status = "running" <=> i = Len(ns)

SequenceInv ==
  /\ \A i, j \in DOMAIN nodes : i < j => Before(nodes[i].spec, nodes[j].spec)
  /\ \A i \in DOMAIN nodes : nodes[i].spec.attempt <= wf.attempt
  /\ wf.done <=> outcome # "none"
  /\ outcome \in {"none", "success", "failure", "cancelled"} /\ wf.status # "deadlocked"
  /\ started = "no" => wf = RalphInitial /\ nodes = <<>>
  /\ wf.done => \A i \in DOMAIN nodes : nodes[i].status # "running"
  /\ ~wf.done /\ started # "no" => AtLast(wf, nodes)

(* Who may launch: a launch list has one entry, that of the queue is        *)
(* running, and nothing is launched while an interrupt stops the nodes.     *)
ControlInv ==
  /\ \A x \in Executors : lists[x].todo = <<>>
  /\ started # "dispatching" => lists["start"] = Idle
  /\ lists["queue"] # Idle => /\ op.kind \in {"submit", "settle"}
                              /\ nodes[lists["queue"].at].status = "running"
                              /\ lists["start"].at # lists["queue"].at
  /\ op.kind = "interrupt" => started = "handed"
  /\ \A k \in DOMAIN queue : queue[k].kind = "interrupt" => started = "handed"
  /\ op.verdict = "stopping" => /\ op.kind = "interrupt"
                                /\ outcome = "none"
                                /\ op.running = Running(nodes)

(* The verdicts that have been given. *)
Passed(entry) == entry.status = "completed" /\ entry.said = {"pass"}
Failed(entry) ==
  \/ entry.status \in {"failed", "cancelled", "rejected"}
  \/ entry.status = "completed" /\ entry.said = {"fail"}
HasPassed(ns, role, attempt) ==
  \E i \in DOMAIN ns : ns[i].spec = [role |-> role, attempt |-> attempt] /\ Passed(ns[i])
IsSpent(ns, attempt) ==
  \E i \in DOMAIN ns : ns[i].spec.attempt = attempt /\ Failed(ns[i])

HistoryInv ==
  /\ ~wf.done =>
       /\ \A role \in Roles : Rank[role] < Rank[wf.phase] => HasPassed(nodes, role, wf.attempt)
       /\ \A attempt \in 1..MaxAttempts : attempt < wf.attempt => IsSpent(nodes, attempt)
  /\ outcome = "success" => \A role \in Roles : HasPassed(nodes, role, wf.attempt)
  /\ outcome = "failure" => \A attempt \in 1..MaxAttempts : IsSpent(nodes, attempt)

RalphInv == SequenceInv /\ ControlInv /\ PendingInv /\ HistoryInv

-----------------------------------------------------------------------------
(* The types of a run of ralph_loop, from the runtime's invariant.          *)
RalphGood == Good(RalphStates, RalphSpecs, Verdicts)
Entries == EntryType(RalphSpecs, Verdicts)

LEMMA Facts ==
  ASSUME RalphGood
  PROVE  /\ wf \in RalphStates
         /\ nodes \in Seq(Entries)
         /\ Len(nodes) \in Nat /\ DOMAIN nodes = 1..Len(nodes)
         /\ lists \in [Executors -> ListType(RalphSpecs)]
         /\ \A x \in Executors : lists[x] # Idle => lists[x].at \in DOMAIN nodes
         /\ queue \in Seq(OperationType(Verdicts))
         /\ op \in ExecutingType
<1>1. nodes \in Seq(Entries)
  BY DEF RalphGood, Good, Typed, ListsTyped, Entries
<1>2. Len(nodes) \in Nat /\ DOMAIN nodes = 1..Len(nodes)
  BY <1>1
<1> QED
  BY <1>1, <1>2 DEF RalphGood, Good, Typed, ListsTyped

LEMMA EntryFacts ==
  ASSUME RalphGood, NEW i \in DOMAIN nodes
  PROVE  /\ nodes[i] \in Entries
         /\ nodes[i].spec \in RalphSpecs
         /\ nodes[i].spec.role \in Roles
         /\ nodes[i].spec.attempt \in 1..MaxAttempts /\ nodes[i].spec.attempt \in Nat
         /\ nodes[i].spec = [role |-> nodes[i].spec.role, attempt |-> nodes[i].spec.attempt]
<1>1. nodes[i] \in Entries
  BY Facts
<1>2. nodes[i].spec \in RalphSpecs
  BY <1>1 DEF Entries, EntryType
<1>3. nodes[i].spec.attempt \in 1..MaxAttempts
  BY <1>2 DEF RalphSpecs
<1> QED
  BY <1>1, <1>2, <1>3, AttemptsAssumption DEF RalphSpecs

LEMMA RankFacts ==
  /\ Rank["planner"] = 1 /\ Rank["reviewer"] = 2 /\ Rank["critic"] = 3
  /\ \A role \in Roles : Rank[role] \in 1..3
BY DEF Rank, Roles

-----------------------------------------------------------------------------
(* What a settlement does to the state: a failed attempt is followed by the *)
(* next one or the end, a passed phase by the next one or success.          *)
IsBad(settlement) == settlement.status # "completed" \/ settlement.payload = "fail"

Follows(state, settlement, next) ==
  \/ /\ IsBad(settlement) /\ state.attempt < MaxAttempts
     /\ ~next.done /\ next.status = "running"
     /\ next.attempt = state.attempt + 1 /\ next.phase = "planner"
  \/ /\ IsBad(settlement) /\ state.attempt = MaxAttempts
     /\ next.done /\ next.status = "failure" /\ next.attempt = state.attempt
  \/ /\ ~IsBad(settlement) /\ state.phase = "planner"
     /\ ~next.done /\ next.status = "running"
     /\ next.attempt = state.attempt /\ next.phase = "reviewer"
  \/ /\ ~IsBad(settlement) /\ state.phase = "reviewer"
     /\ ~next.done /\ next.status = "running"
     /\ next.attempt = state.attempt /\ next.phase = "critic"
  \/ /\ ~IsBad(settlement) /\ state.phase = "critic"
     /\ next.done /\ next.status = "success" /\ next.attempt = state.attempt

IsOpen(state) ==
  state \in RalphStates /\ ~state.done /\ state.status = "running" /\ state.phase \in Roles

LEMMA RetryFollows ==
  ASSUME NEW state, IsOpen(state), NEW settlement, IsBad(settlement)
  PROVE  Follows(state, settlement, RetryOrFail(state))
<1> DEFINE next == RetryOrFail(state)
<1>1. state.attempt \in 1..MaxAttempts /\ MaxAttempts \in Nat
  BY AttemptsAssumption DEF IsOpen, RalphStates
<1>2. CASE AttemptsLeft(state)
  <2>1. next = [state EXCEPT !.attempt = @ + 1, !.phase = "planner", !.verdicts = NoVerdicts]
    BY <1>2 DEF RetryOrFail
  <2> HIDE DEF next
  <2>2. next = [done |-> state.done, status |-> state.status, attempt |-> state.attempt + 1,
                phase |-> "planner", verdicts |-> NoVerdicts]
    BY <2>1 DEF IsOpen, RalphStates
  <2>3. Follows(state, settlement, next)
    BY <1>2, <2>2 DEF Follows, IsOpen, AttemptsLeft
  <2> QED
    BY <2>3 DEF next
<1>3. CASE ~AttemptsLeft(state)
  <2>1. next = [state EXCEPT !.done = TRUE, !.status = "failure"]
    BY <1>3 DEF RetryOrFail
  <2> HIDE DEF next
  <2>2. next = [done |-> TRUE, status |-> "failure", attempt |-> state.attempt,
                phase |-> state.phase, verdicts |-> state.verdicts]
    BY <2>1 DEF IsOpen, RalphStates
  <2>3. state.attempt = MaxAttempts
    BY <1>1, <1>3 DEF AttemptsLeft
  <2>4. Follows(state, settlement, next)
    BY <2>2, <2>3 DEF Follows
  <2> QED
    BY <2>4 DEF next
<1> QED
  BY <1>2, <1>3

LEMMA AppliedFollows ==
  ASSUME NEW state, IsOpen(state), NEW spec, NEW running,
         NEW settlement, settlement.status = "completed" => settlement.payload \in Verdicts
  PROVE  Follows(state, settlement, RalphApplied(state, spec, settlement, running))
<1>0. ~state.done /\ state.phase # "done" /\ state.phase \in Roles
  BY DEF IsOpen, Roles
<1>1. CASE settlement.status # "completed"
  <2>1. RalphApplied(state, spec, settlement, running) = RetryOrFail(state)
    BY <1>0, <1>1 DEF RalphApplied
  <2> QED
    BY <1>1, <2>1, RetryFollows DEF IsBad
<1>2. CASE settlement.status = "completed"
  <2> DEFINE verdicts == [state.verdicts EXCEPT ![state.phase] = settlement.payload]
             judged == Recorded(state, settlement)
             next == Judge(judged)
  <2>1. RalphApplied(state, spec, settlement, running) = next
    BY <1>0, <1>2 DEF RalphApplied
  <2>2. judged = [state EXCEPT !.verdicts = verdicts]
    BY DEF Recorded
  <2>3. verdicts \in [Roles -> Verdicts \cup {"none"}] /\ verdicts[state.phase] = settlement.payload
    BY <1>0, <1>2 DEF IsOpen, RalphStates
  <2> HIDE DEF verdicts, judged, next
  <2>4. judged = [done |-> state.done, status |-> state.status, attempt |-> state.attempt,
                  phase |-> state.phase, verdicts |-> verdicts]
    BY <2>2 DEF IsOpen, RalphStates
  <2>5. /\ IsOpen(judged)
        /\ judged.attempt = state.attempt /\ judged.phase = state.phase
        /\ judged.verdicts[judged.phase] = settlement.payload
    BY <2>3, <2>4 DEF IsOpen, RalphStates
  <2>6. CASE settlement.payload = "fail"
    <3>1. next = RetryOrFail(judged)
      BY <2>5, <2>6 DEF next, Judge
    <3>2. Follows(judged, settlement, next)
      BY <2>5, <2>6, <3>1, RetryFollows DEF IsBad
    <3> QED
      BY <2>1, <2>5, <2>6, <3>2 DEF Follows, IsBad
  <2>7. CASE settlement.payload = "pass"
    <3>1. ~IsBad(settlement)
      BY <1>2, <2>7 DEF IsBad
    <3>2. judged.verdicts[judged.phase] # "fail"
      BY <2>5, <2>7
    <3>3. CASE state.phase = "planner"
      <4>1. next = [judged EXCEPT !.phase = "reviewer"]
        BY <2>5, <3>2, <3>3 DEF next, Judge
      <4>2. ~next.done /\ next.status = "running" /\ next.attempt = state.attempt
            /\ next.phase = "reviewer"
        BY <2>4, <4>1 DEF IsOpen
      <4> QED
        BY <2>1, <3>1, <3>3, <4>2 DEF Follows
    <3>4. CASE state.phase = "reviewer"
      <4>1. next = [judged EXCEPT !.phase = "critic"]
        BY <2>5, <3>2, <3>4 DEF next, Judge
      <4>2. ~next.done /\ next.status = "running" /\ next.attempt = state.attempt
            /\ next.phase = "critic"
        BY <2>4, <4>1 DEF IsOpen
      <4> QED
        BY <2>1, <3>1, <3>4, <4>2 DEF Follows
    <3>5. CASE state.phase = "critic"
      <4>1. next = [judged EXCEPT !.phase = "done", !.done = TRUE, !.status = "success"]
        BY <2>5, <3>2, <3>5 DEF next, Judge
      <4>2. next.done /\ next.status = "success" /\ next.attempt = state.attempt
        BY <2>4, <4>1
      <4> QED
        BY <2>1, <3>1, <3>5, <4>2 DEF Follows
    <3> QED
      BY <1>0, <3>3, <3>4, <3>5 DEF Roles
  <2> QED
    BY <1>2, <2>6, <2>7 DEF Verdicts
<1> QED
  BY <1>1, <1>2

-----------------------------------------------------------------------------
(* A settlement of the running node, with the dispatch that follows it.     *)

(* The entries "ns" are the present ones, the i-th settled.                 *)
Ends(i, settlement, ns) ==
  /\ ns \in Seq(Entries) /\ Len(ns) = Len(nodes)
  /\ \A j \in DOMAIN nodes \ {i} : ns[j] = nodes[j]
  /\ ns[i].spec = nodes[i].spec /\ ns[i].said = nodes[i].said
  /\ ns[i].status = settlement.status /\ ns[i].run \in {nodes[i].run, "absent"}

(* What the step leaves behind: the settled entry, the state that follows,  *)
(* and the node of the next phase unless that state is done.                *)
Advance(x, i, settlement) ==
  /\ i = Len(nodes) /\ i \in DOMAIN nodes /\ IsOpen(wf) /\ outcome = "none"
  /\ nodes[i].spec = Current(wf)
  /\ wf' \in RalphStates
  /\ Follows(wf, settlement, wf')
  /\ outcome' = IF wf'.done THEN wf'.status ELSE "none"
  /\ \A j \in DOMAIN nodes \ {i} : nodes'[j] = nodes[j]
  /\ nodes'[i].spec = nodes[i].spec /\ nodes'[i].said = nodes[i].said
  /\ nodes'[i].status = settlement.status /\ nodes'[i].run \in {nodes[i].run, "absent"}
  /\ wf'.done => /\ Len(nodes') = Len(nodes) /\ DOMAIN nodes' = DOMAIN nodes
                 /\ lists' = [lists EXCEPT ![x] = Idle]
  /\ ~wf'.done => /\ Len(nodes') = i + 1 /\ DOMAIN nodes' = 1..(i + 1)
                  /\ nodes'[i + 1] = Entry(Current(wf'))
                  /\ lists' = [lists EXCEPT ![x] = [at |-> i + 1, todo |-> <<>>]]

(* The dispatch of ralph_loop when no node is running.                      *)
LEMMA RalphOrder ==
  ASSUME RalphHooks, NEW state, state \in RalphStates, NEW ns, Running(ns) = {}
  PROVE  /\ state.done => Order(state, ns) = <<>>
         /\ ~state.done /\ state.phase # "done" => Order(state, ns) = <<Current(state)>>
<1>1. RunningSpecs(ns) = {}
  BY DEF RunningSpecs
<1>2. Dispatches(state, {}) = RalphDispatches(state, {})
  BY DEF RalphHooks
<1> QED
  BY <1>1, <1>2 DEF Order, RalphDispatches, Current

LEMMA FollowsIsOpen ==
  ASSUME NEW state, NEW settlement, NEW next, Follows(state, settlement, next), ~next.done
  PROVE  next.status = "running" /\ next.phase \in Roles /\ next.phase # "done"
BY DEF Follows, Roles

LEMMA RunningIsLast ==
  ASSUME RalphGood, SequenceInv, NEW i \in DOMAIN nodes, nodes[i].status = "running"
  PROVE  /\ i = Len(nodes) /\ IsOpen(wf) /\ outcome = "none" /\ started # "no"
         /\ nodes[i].spec = Current(wf) /\ nodes[i].spec.role = wf.phase
<1>1. ~wf.done
  BY DEF SequenceInv
<1>2. nodes # <<>>
  BY Facts
<1>3. started # "no"
  BY <1>2 DEF SequenceInv
<1>4. AtLast(wf, nodes) /\ outcome = "none"
  BY <1>1, <1>3 DEF SequenceInv
<1>5. i = Len(nodes)
  BY <1>4 DEF AtLast
<1>6. IsOpen(wf)
  BY <1>1, <1>4, Facts DEF IsOpen, AtLast
<1>7. nodes[i].spec = Current(wf)
  BY <1>4, <1>5 DEF AtLast
<1> QED
  BY <1>3, <1>4, <1>5, <1>6, <1>7 DEF Current

LEMMA SettleAdvances ==
  ASSUME RalphHooks, RalphGood, SequenceInv, NEW x \in Executors, NEW i \in DOMAIN nodes,
         nodes[i].status = "running",
         NEW settlement \in Settlements(Verdicts),
         settlement.status = "completed" => settlement.payload \in Verdicts,
         NEW ns, Ends(i, settlement, ns), ApplySettlement(x, i, settlement, ns, <<>>)
  PROVE  Advance(x, i, settlement)
<1>1. /\ i = Len(nodes) /\ IsOpen(wf) /\ outcome = "none"
      /\ nodes[i].spec = Current(wf)
  BY RunningIsLast
<1>2. /\ ns \in Seq(Entries) /\ Len(ns) = i /\ DOMAIN ns = DOMAIN nodes /\ i \in Nat
      /\ DOMAIN nodes = 1..i
  <2>1. ns \in Seq(Entries) /\ Len(ns) = Len(nodes)
    BY DEF Ends
  <2> QED
    BY <1>1, <2>1, Facts
<1>3. Running(ns) = {}
  <2>1. \A j \in DOMAIN nodes : j # i => nodes[j].status # "running"
    BY <1>1, RunningIsLast
  <2>2. settlement.status # "running"
    BY DEF Settlements, Settled
  <2>3. \A j \in DOMAIN ns : ns[j].status # "running"
    BY <1>2, <2>1, <2>2 DEF Ends
  <2> QED
    BY <2>3 DEF Running
<1> DEFINE next == RalphApplied(wf, nodes[i].spec, settlement, RunningSpecs(ns))
<1>4. Proceed(x, next, ns, <<>>)
  BY DEF ApplySettlement, RalphHooks
<1>5. Follows(wf, settlement, next)
  BY <1>1, AppliedFollows
<1>6. next \in RalphStates
  BY Facts, AppliedTyped
<1> HIDE DEF next
<1>7. Order(next, ns) = IF next.done THEN <<>> ELSE <<Current(next)>>
  BY <1>3, <1>5, <1>6, RalphOrder, FollowsIsOpen
<1>8. ~IsStuck(next, ns)
  BY <1>7 DEF IsStuck
<1>9. wf' = next
  BY <1>4, <1>8 DEF Proceed
<1>10. outcome' = IF next.done THEN next.status ELSE "none"
  BY <1>1, <1>4, <1>8 DEF Proceed, OutcomeAfter
<1>11. CASE next.done
  <2>1. Order(next, ns) \o <<>> = <<>>
    BY <1>7, <1>11
  <2>2. nodes' = ns /\ lists' = [lists EXCEPT ![x] = Idle]
    BY <1>4, <2>1 DEF Proceed, Claim
  <2> QED
    BY <1>1, <1>2, <1>5, <1>6, <1>9, <1>10, <1>11, <2>2 DEF Advance, Ends
<1>12. CASE ~next.done
  <2> DEFINE entry == Entry(Current(next))
  <2>1. Order(next, ns) \o <<>> = <<Current(next)>>
    BY <1>7, <1>12
  <2>2. /\ nodes' = Append(ns, entry)
        /\ lists' = [lists EXCEPT ![x] = [at |-> Len(ns) + 1, todo |-> <<>>]]
    <3>1. /\ <<Current(next)>> # <<>> /\ Head(<<Current(next)>>) = Current(next)
          /\ Tail(<<Current(next)>>) = <<>>
      OBVIOUS
    <3> QED
      BY <1>4, <2>1, <3>1 DEF Proceed, Claim
  <2>3. Current(next) \in RalphSpecs
    BY <1>5, <1>6, <1>12, FollowsIsOpen DEF Current, RalphSpecs, RalphStates
  <2>4. entry \in Entries
    BY <2>3 DEF Entry, Entries, EntryType, NodeStatuses, Settled, Unsettled, Runs
  <2> HIDE DEF entry
  <2>5. /\ Len(nodes') = i + 1 /\ DOMAIN nodes' = 1..(i + 1)
        /\ nodes'[i + 1] = entry
        /\ \A j \in DOMAIN nodes : nodes'[j] = ns[j]
    BY <1>2, <2>2, <2>4
  <2>6. nodes'[i + 1] = Entry(Current(wf'))
    BY <1>9, <2>5 DEF entry
  <2>7. /\ \A j \in DOMAIN nodes \ {i} : nodes'[j] = nodes[j]
        /\ nodes'[i] = ns[i]
    BY <2>5 DEF Ends
  <2> QED
    BY <1>1, <1>2, <1>5, <1>6, <1>9, <1>10, <1>12, <2>2, <2>5, <2>6, <2>7 DEF Advance, Ends
<1> QED
  BY <1>11, <1>12

-----------------------------------------------------------------------------
(* Steps that leave the state and the ends of the nodes alone.              *)
Quiet ==
  /\ UNCHANGED <<wf, outcome>>
  /\ Len(nodes') = Len(nodes) /\ DOMAIN nodes' = DOMAIN nodes
  /\ \A i \in DOMAIN nodes :
       /\ nodes'[i].spec = nodes[i].spec /\ nodes'[i].status = nodes[i].status
       /\ nodes[i].status = "completed" => nodes'[i].said = nodes[i].said
  /\ started' = "no" <=> started = "no"

(* Ended nodes stay as they are.                                            *)
Keeps(ns, ms) ==
  /\ DOMAIN ns \subseteq DOMAIN ms
  /\ \A i \in DOMAIN ns :
       /\ ms[i].spec = ns[i].spec
       /\ ns[i].status # "running" => ms[i].status = ns[i].status
       /\ ns[i].status = "completed" => ms[i].said = ns[i].said

LEMMA VerdictsKept ==
  ASSUME NEW ns, NEW ms, Keeps(ns, ms), NEW attempt
  PROVE  /\ IsSpent(ns, attempt) => IsSpent(ms, attempt)
         /\ \A role : HasPassed(ns, role, attempt) => HasPassed(ms, role, attempt)
<1>1. ASSUME NEW i \in DOMAIN ns
      PROVE  /\ i \in DOMAIN ms /\ ms[i].spec = ns[i].spec
             /\ Passed(ns[i]) => Passed(ms[i])
             /\ Failed(ns[i]) => Failed(ms[i])
  BY DEF Keeps, Passed, Failed
<1> QED
  BY <1>1 DEF IsSpent, HasPassed

LEMMA QuietKeeps ==
  ASSUME Quiet PROVE Keeps(nodes, nodes')
BY DEF Quiet, Keeps

LEMMA SequenceQuiet ==
  ASSUME RalphGood, SequenceInv, Quiet PROVE SequenceInv'
<1>1. Len(nodes) \in Nat /\ DOMAIN nodes = 1..Len(nodes) /\ nodes \in Seq(Entries)
  BY Facts
<1>2. nodes = <<>> => Len(nodes') = 0 /\ DOMAIN nodes' = {}
  BY <1>1 DEF Quiet
<1>3. started' = "no" => wf' = RalphInitial /\ nodes = <<>>
  BY DEF SequenceInv, Quiet
<1> QED
  BY <1>1, <1>2, <1>3 DEF SequenceInv, Quiet, AtLast, Before

-----------------------------------------------------------------------------
(* A settlement keeps the sequence of nodes and the history of verdicts.    *)
LEMMA AdvanceFacts ==
  ASSUME RalphGood, NEW x, NEW i, NEW settlement, Advance(x, i, settlement)
  PROVE  /\ i \in Nat /\ DOMAIN nodes = 1..i /\ Len(nodes) = i
         /\ i \in DOMAIN nodes' /\ DOMAIN nodes \subseteq DOMAIN nodes'
         /\ DOMAIN nodes' = IF wf'.done THEN 1..i ELSE 1..(i + 1)
         /\ \A j \in DOMAIN nodes : nodes'[j].spec = nodes[j].spec
         /\ wf.attempt \in 1..MaxAttempts /\ wf'.attempt \in 1..MaxAttempts
         /\ MaxAttempts \in Nat /\ wf.attempt \in Nat /\ wf'.attempt \in Nat
<1>1. i \in Nat /\ DOMAIN nodes = 1..i /\ Len(nodes) = i
  BY Facts DEF Advance
<1>2. DOMAIN nodes' = IF wf'.done THEN 1..i ELSE 1..(i + 1)
  BY <1>1 DEF Advance
<1>3. \A j \in DOMAIN nodes : nodes'[j].spec = nodes[j].spec
  BY DEF Advance
<1>4. wf.attempt \in 1..MaxAttempts /\ wf'.attempt \in 1..MaxAttempts
  BY DEF Advance, IsOpen, RalphStates
<1>5. MaxAttempts \in Nat /\ wf.attempt \in Nat /\ wf'.attempt \in Nat
  BY <1>4, AttemptsAssumption
<1> QED
  BY <1>1, <1>2, <1>3, <1>4, <1>5 DEF Advance

LEMMA SequenceAdvances ==
  ASSUME RalphGood, SequenceInv, NEW x, NEW i, NEW settlement, settlement.status # "running",
         Advance(x, i, settlement), started' = "no" <=> started = "no"
  PROVE  SequenceInv'
<1>1. /\ i \in Nat /\ DOMAIN nodes = 1..i /\ Len(nodes) = i /\ i > 0
      /\ DOMAIN nodes' = IF wf'.done THEN 1..i ELSE 1..(i + 1)
      /\ \A j \in DOMAIN nodes : nodes'[j].spec = nodes[j].spec
      /\ wf.attempt \in Nat /\ wf'.attempt \in Nat
  <2>1. /\ i \in Nat /\ DOMAIN nodes = 1..i /\ Len(nodes) = i
        /\ DOMAIN nodes' = IF wf'.done THEN 1..i ELSE 1..(i + 1)
        /\ \A j \in DOMAIN nodes : nodes'[j].spec = nodes[j].spec
        /\ wf.attempt \in Nat /\ wf'.attempt \in Nat
    BY AdvanceFacts
  <2>2. i > 0
    BY <2>1 DEF Advance
  <2> QED
    BY <2>1, <2>2
<1>2. nodes[i].status = "running" /\ started # "no" /\ ~wf.done
  <2>1. ~wf.done
    BY DEF Advance, IsOpen
  <2>2. nodes # <<>>
    BY <1>1
  <2>3. started # "no"
    BY <2>2 DEF SequenceInv
  <2> QED
    BY <1>1, <2>1, <2>3 DEF SequenceInv, AtLast
<1>3. wf.attempt <= wf'.attempt
  BY <1>1 DEF Advance, Follows
<1>4. \A j \in DOMAIN nodes : nodes'[j].status # "running"
  <2>1. \A j \in DOMAIN nodes : j # i => nodes[j].status # "running"
    BY <1>1, <1>2 DEF SequenceInv, AtLast
  <2> QED
    BY <2>1 DEF Advance
<1>5. ~wf'.done => /\ nodes'[i + 1].spec = Current(wf') /\ nodes'[i + 1].status = "running"
                   /\ Len(nodes') = i + 1
                   /\ wf'.status = "running" /\ wf'.phase \in Roles
  BY FollowsIsOpen DEF Advance, Entry
<1>6. wf'.done <=> outcome' # "none"
  BY DEF Advance, Follows
<1>12. outcome' \in {"none", "success", "failure", "cancelled"} /\ wf'.status # "deadlocked"
  BY DEF Advance, Follows
<1>7. \A k \in DOMAIN nodes : ~wf'.done => Before(nodes[k].spec, Current(wf'))
  <2> SUFFICES ASSUME NEW k \in DOMAIN nodes, ~wf'.done
               PROVE  Before(nodes[k].spec, Current(wf'))
    OBVIOUS
  <2>1. nodes[k].spec.attempt \in Nat /\ nodes[k].spec.role \in Roles
    BY EntryFacts
  <2>2. nodes[k].spec.attempt <= wf.attempt
    BY DEF SequenceInv
  <2>3. k = i \/ Before(nodes[k].spec, nodes[i].spec)
    BY <1>1 DEF SequenceInv
  <2>4. nodes[i].spec.attempt = wf.attempt /\ nodes[i].spec.role = wf.phase
    BY DEF Advance, Current
  <2>5. CASE IsBad(settlement)
    <3>1. wf'.attempt = wf.attempt + 1
      BY <2>5 DEF Advance, Follows
    <3> QED
      BY <1>1, <2>1, <2>2, <3>1 DEF Before, Current
  <2>6. CASE ~IsBad(settlement)
    <3>1. /\ wf'.attempt = wf.attempt
          /\ \/ wf.phase = "planner" /\ wf'.phase = "reviewer"
             \/ wf.phase = "reviewer" /\ wf'.phase = "critic"
      BY <2>6 DEF Advance, Follows
    <3>2. Rank[wf.phase] < Rank[wf'.phase] /\ Rank[wf.phase] \in Nat /\ Rank[wf'.phase] \in Nat
      BY <3>1, RankFacts
    <3>3. Rank[nodes[k].spec.role] \in Nat
      BY <2>1, RankFacts
    <3> QED
      BY <1>1, <2>1, <2>3, <2>4, <3>1, <3>2, <3>3 DEF Before, Current
  <2> QED
    BY <2>5, <2>6
<1>8. \A j, k \in DOMAIN nodes' : j < k => Before(nodes'[j].spec, nodes'[k].spec)
  <2> SUFFICES ASSUME NEW j \in DOMAIN nodes', NEW k \in DOMAIN nodes', j < k
               PROVE  Before(nodes'[j].spec, nodes'[k].spec)
    OBVIOUS
  <2>1. j \in DOMAIN nodes /\ (k \in DOMAIN nodes \/ (k = i + 1 /\ ~wf'.done))
    BY <1>1
  <2>2. CASE k \in DOMAIN nodes
    <3>1. Before(nodes[j].spec, nodes[k].spec)
      BY <2>1, <2>2 DEF SequenceInv
    <3> QED
      BY <1>1, <2>1, <2>2, <3>1
  <2>3. CASE k = i + 1 /\ ~wf'.done
    BY <1>1, <1>5, <1>7, <2>1, <2>3
  <2> QED
    BY <2>1, <2>2, <2>3
<1>9. \A j \in DOMAIN nodes' : nodes'[j].spec.attempt <= wf'.attempt
  <2> SUFFICES ASSUME NEW j \in DOMAIN nodes' PROVE nodes'[j].spec.attempt <= wf'.attempt
    OBVIOUS
  <2>1. CASE j \in DOMAIN nodes
    <3>1. nodes[j].spec.attempt \in Nat /\ nodes[j].spec.attempt <= wf.attempt
      BY <2>1, EntryFacts DEF SequenceInv
    <3> QED
      BY <1>1, <1>3, <2>1, <3>1
  <2>2. CASE j \notin DOMAIN nodes
    <3>1. ~wf'.done /\ j = i + 1
      BY <1>1, <2>2
    <3> QED
      BY <1>1, <1>5, <3>1 DEF Current
  <2> QED
    BY <2>1, <2>2
<1>10. ~wf'.done => AtLast(wf, nodes)'
  <2>1. ~wf'.done => \A j \in DOMAIN nodes' : nodes'[j].status = "running" <=> j = i + 1
    BY <1>1, <1>4, <1>5
  <2>2. ~wf'.done => nodes' # <<>>
    BY <1>1
  <2> QED
    BY <1>5, <2>1, <2>2 DEF AtLast
<1>11. wf'.done => \A j \in DOMAIN nodes' : nodes'[j].status # "running"
  BY <1>1, <1>4
<1> QED
  BY <1>2, <1>6, <1>8, <1>9, <1>10, <1>11, <1>12 DEF SequenceInv

(* The settled node has the verdict that was applied.                       *)
LEMMA HistoryAdvances ==
  ASSUME RalphGood, SequenceInv, HistoryInv, NEW x, NEW i,
         NEW settlement \in Settlements(Verdicts),
         settlement.status = "completed" =>
           settlement.payload \in Verdicts /\ nodes[i].said = {settlement.payload},
         Advance(x, i, settlement)
  PROVE  HistoryInv'
<1>1. /\ i \in DOMAIN nodes /\ i \in DOMAIN nodes' /\ nodes[i].status = "running"
      /\ wf.attempt \in 1..MaxAttempts /\ wf'.attempt \in 1..MaxAttempts /\ MaxAttempts \in Nat
      /\ nodes'[i].spec = nodes[i].spec /\ nodes[i].spec = Current(wf)
  <2>1. nodes # <<>> /\ ~wf.done /\ i = Len(nodes)
    BY AdvanceFacts DEF Advance, IsOpen
  <2>2. nodes[i].status = "running"
    BY <2>1, AdvanceFacts DEF SequenceInv, AtLast, Advance
  <2> QED
    BY <2>2, AdvanceFacts DEF Advance
<1>2. Keeps(nodes, nodes')
  <2>1. \A j \in DOMAIN nodes \ {i} : nodes'[j] = nodes[j]
    BY DEF Advance
  <2> QED
    BY <1>1, <2>1, AdvanceFacts DEF Keeps
<1>3. ~wf.done
  BY DEF Advance, IsOpen
<1>4. /\ \A role \in Roles : Rank[role] < Rank[wf.phase] => HasPassed(nodes', role, wf.attempt)
      /\ \A attempt \in 1..MaxAttempts : attempt < wf.attempt => IsSpent(nodes', attempt)
  BY <1>2, <1>3, VerdictsKept DEF HistoryInv
<1>5. CASE IsBad(settlement)
  <2>1. Failed(nodes'[i])
    <3>1. CASE settlement.status # "completed"
      BY <3>1 DEF Failed, Advance, Settlements, Settled
    <3>2. CASE settlement.status = "completed"
      BY <1>5, <3>2 DEF Failed, Advance, IsBad
    <3> QED
      BY <3>1, <3>2
  <2>2. IsSpent(nodes', wf.attempt)
    BY <1>1, <2>1 DEF IsSpent, Current
  <2>3. \A attempt \in 1..MaxAttempts : attempt < wf.attempt + 1 => IsSpent(nodes', attempt)
    BY <1>1, <1>4, <2>2
  <2>4. CASE ~wf'.done
    <3>1. wf'.attempt = wf.attempt + 1 /\ wf'.phase = "planner" /\ outcome' = "none"
      BY <1>5, <2>4 DEF Advance, Follows
    <3>2. \A role \in Roles : ~(Rank[role] < Rank[wf'.phase])
      BY <3>1, RankFacts
    <3> QED
      BY <2>3, <2>4, <3>1, <3>2 DEF HistoryInv
  <2>5. CASE wf'.done
    <3>1. wf.attempt = MaxAttempts /\ outcome' = "failure"
      BY <1>5, <2>5 DEF Advance, Follows
    <3>2. \A attempt \in 1..MaxAttempts : IsSpent(nodes', attempt)
      BY <1>1, <2>3, <3>1
    <3> QED
      BY <2>5, <3>1, <3>2 DEF HistoryInv
  <2> QED
    BY <2>4, <2>5
<1>6. CASE ~IsBad(settlement)
  <2>1. Passed(nodes'[i])
    BY <1>6 DEF Passed, Advance, IsBad, Verdicts
  <2>2. HasPassed(nodes', wf.phase, wf.attempt)
    BY <1>1, <2>1 DEF HasPassed, Current
  <2>3. wf'.attempt = wf.attempt
    BY <1>6 DEF Advance, Follows
  <2>4. CASE ~wf'.done
    <3>1. /\ outcome' = "none"
          /\ \/ wf.phase = "planner" /\ wf'.phase = "reviewer"
             \/ wf.phase = "reviewer" /\ wf'.phase = "critic"
      BY <1>6, <2>4 DEF Advance, Follows
    <3>2. \A role \in Roles : Rank[role] < Rank[wf'.phase] =>
            Rank[role] < Rank[wf.phase] \/ role = wf.phase
      BY <3>1, RankFacts DEF Roles
    <3>3. \A role \in Roles : Rank[role] < Rank[wf'.phase] => HasPassed(nodes', role, wf'.attempt)
      BY <1>4, <2>2, <2>3, <3>2
    <3> QED
      BY <1>4, <2>3, <2>4, <3>1, <3>3 DEF HistoryInv
  <2>5. CASE wf'.done
    <3>1. outcome' = "success" /\ wf.phase = "critic"
      BY <1>6, <2>5 DEF Advance, Follows
    <3>2. \A role \in Roles : Rank[role] < Rank[wf.phase] \/ role = wf.phase
      BY <3>1, RankFacts DEF Roles
    <3>3. \A role \in Roles : HasPassed(nodes', role, wf'.attempt)
      BY <1>4, <2>2, <2>3, <3>2
    <3> QED
      BY <2>5, <3>1, <3>3 DEF HistoryInv
  <2> QED
    BY <2>4, <2>5
<1> QED
  BY <1>5, <1>6

LEMMA HistoryQuiet ==
  ASSUME HistoryInv, Quiet PROVE HistoryInv'
<1>1. Keeps(nodes, nodes')
  BY QuietKeeps
<1>2. UNCHANGED <<wf, outcome>>
  BY DEF Quiet
<1> QED
  BY <1>1, <1>2, VerdictsKept DEF HistoryInv

-----------------------------------------------------------------------------
(* The first dispatch.                                                      *)
StartedWith(entry) ==
  /\ nodes = <<>> /\ wf = RalphInitial /\ wf' = RalphInitial
  /\ outcome = "none" /\ outcome' = "none"
  /\ entry.spec = Current(RalphInitial) /\ entry.status = "running" /\ entry.said = {}
  /\ nodes' = <<entry>>
  /\ lists' = [lists EXCEPT !["start"] = [at |-> 1, todo |-> <<>>]]

LEMMA InitialIs ==
  /\ RalphInitial \in RalphStates /\ ~RalphInitial.done /\ RalphInitial.status = "running"
  /\ RalphInitial.attempt = 1 /\ RalphInitial.phase = "planner"
BY InitialTyped DEF RalphInitial

LEMMA StartIs ==
  ASSUME RalphHooks, RalphGood, SequenceInv, Start
  PROVE  \E entry : StartedWith(entry)
<1>1. wf = RalphInitial /\ nodes = <<>> /\ Proceed("start", wf, nodes, <<>>)
  BY DEF SequenceInv, Start
<1>2. Running(nodes) = {} /\ Len(nodes) = 0
  BY <1>1 DEF Running
<1>3. Order(wf, nodes) = <<Current(RalphInitial)>>
  BY <1>1, <1>2, InitialIs, RalphOrder
<1>4. ~IsStuck(wf, nodes)
  BY <1>3 DEF IsStuck
<1>5. outcome = "none"
  BY <1>1, InitialIs DEF SequenceInv
<1>6. wf' = RalphInitial /\ outcome' = "none"
  BY <1>1, <1>4, <1>5, InitialIs DEF Proceed, OutcomeAfter
<1> DEFINE entry == Entry(Current(RalphInitial))
<1>7. nodes' = <<entry>> /\ lists' = [lists EXCEPT !["start"] = [at |-> 1, todo |-> <<>>]]
  <2>1. /\ Order(wf, nodes) \o <<>> = <<Current(RalphInitial)>>
        /\ <<Current(RalphInitial)>> # <<>>
        /\ Head(<<Current(RalphInitial)>>) = Current(RalphInitial)
        /\ Tail(<<Current(RalphInitial)>>) = <<>>
    BY <1>3
  <2>2. nodes' = Append(<<>>, entry)
        /\ lists' = [lists EXCEPT !["start"] = [at |-> 0 + 1, todo |-> <<>>]]
    BY <1>1, <1>2, <2>1 DEF Proceed, Claim
  <2> QED
    BY <2>2
<1>8. entry.spec = Current(RalphInitial) /\ entry.status = "running" /\ entry.said = {}
  BY DEF Entry
<1> QED
  BY <1>1, <1>5, <1>6, <1>7, <1>8 DEF StartedWith

LEMMA SequenceStarts ==
  ASSUME NEW entry, StartedWith(entry), started' # "no"
  PROVE  SequenceInv'
<1>1. /\ Len(nodes') = 1 /\ DOMAIN nodes' = {1} /\ nodes'[1] = entry /\ nodes' # <<>>
      /\ wf' = RalphInitial /\ outcome' = "none"
      /\ entry.spec = Current(RalphInitial) /\ entry.status = "running"
  BY DEF StartedWith
<1>2. entry.spec.attempt = 1
  BY <1>1, InitialIs DEF Current
<1>3. AtLast(wf, nodes)'
  BY <1>1, InitialIs DEF AtLast, Roles
<1> QED
  BY <1>1, <1>2, <1>3, InitialIs DEF SequenceInv

LEMMA HistoryStarts ==
  ASSUME NEW entry, StartedWith(entry)
  PROVE  HistoryInv'
<1>1. wf' = RalphInitial /\ outcome' = "none"
  BY DEF StartedWith
<1>2. \A role \in Roles : ~(Rank[role] < Rank["planner"])
  BY RankFacts
<1>3. \A attempt \in 1..MaxAttempts : ~(attempt < 1)
  BY AttemptsAssumption
<1> QED
  BY <1>1, <1>2, <1>3, InitialIs DEF HistoryInv

-----------------------------------------------------------------------------
(* An interrupt that ends the run: none of its nodes is running any more.   *)
LEMMA CancelIs ==
  ASSUME RalphGood, SequenceInv, ControlInv, FinishInterrupt
  PROVE  /\ wf'.done /\ wf'.attempt = wf.attempt /\ outcome' = "cancelled"
         /\ wf'.status = "failure"
         /\ started' = started /\ started # "no" /\ DOMAIN nodes' = DOMAIN nodes
         /\ \A i \in DOMAIN nodes :
              /\ nodes'[i].spec = nodes[i].spec /\ nodes'[i].run = nodes[i].run
              /\ nodes'[i].said = nodes[i].said /\ nodes'[i].status # "running"
              /\ nodes'[i].status = "completed" => nodes[i].status = "completed"
<1>1. op.verdict = "stopping" /\ op.running = Running(nodes) /\ started = "handed"
  BY DEF FinishInterrupt, ControlInv
<1>2. wf'.done /\ wf'.attempt = wf.attempt /\ wf'.status = "failure"
  BY Facts DEF FinishInterrupt, Ended, RalphStates
<1>3. DOMAIN nodes' = DOMAIN nodes
  BY DEF FinishInterrupt
<1>4. ASSUME NEW i \in DOMAIN nodes
      PROVE  /\ nodes'[i].spec = nodes[i].spec /\ nodes'[i].run = nodes[i].run
             /\ nodes'[i].said = nodes[i].said /\ nodes'[i].status # "running"
             /\ nodes'[i].status = "completed" => nodes[i].status = "completed"
  <2>1. nodes[i] \in Entries
    BY EntryFacts
  <2>2. CASE nodes[i].status = "running"
    <3>1. nodes'[i] = [nodes[i] EXCEPT !.status = "cancelled"]
      BY <1>1, <2>2 DEF FinishInterrupt, Running
    <3> QED
      BY <2>1, <3>1 DEF Entries, EntryType
  <2>3. CASE nodes[i].status # "running"
    <3>1. nodes'[i] = nodes[i]
      BY <1>1, <2>3 DEF FinishInterrupt, Running
    <3> QED
      BY <2>3, <3>1
  <2> QED
    BY <2>2, <2>3
<1> QED
  BY <1>1, <1>2, <1>3, <1>4 DEF FinishInterrupt

LEMMA SequenceCancelled ==
  ASSUME RalphGood, SequenceInv, ControlInv, FinishInterrupt
  PROVE  SequenceInv'
BY CancelIs DEF SequenceInv

LEMMA HistoryCancelled ==
  ASSUME RalphGood, SequenceInv, ControlInv, FinishInterrupt
  PROVE  HistoryInv'
BY CancelIs DEF HistoryInv

-----------------------------------------------------------------------------

-----------------------------------------------------------------------------
(* Launch lists and interrupts.                                             *)
LEMMA ListFacts ==
  ASSUME RalphGood, ControlInv
  PROVE  /\ "start" \in Executors /\ "queue" \in Executors
         /\ lists["queue"] # Idle => lists["queue"].at \in DOMAIN nodes
         /\ lists["start"].at \in 0..Len(nodes)
         /\ DOMAIN nodes = 1..Len(nodes) /\ Len(nodes) \in Nat
<1>1. /\ \A x \in Executors : lists[x] # Idle => lists[x].at \in DOMAIN nodes
      /\ DOMAIN nodes = 1..Len(nodes) /\ Len(nodes) \in Nat
      /\ "start" \in Executors /\ "queue" \in Executors
  BY Facts DEF Executors
<1>2. lists["start"].at \in 0..Len(nodes)
  <2>1. CASE lists["start"] = Idle
    BY <1>1, <2>1 DEF Idle
  <2>2. CASE lists["start"] # Idle
    BY <1>1, <2>2
  <2> QED
    BY <2>1, <2>2
<1> QED
  BY <1>1, <1>2

(* No operation begins, or one that launches nothing; launch lists may end. *)
Calm ==
  /\ \A x \in Executors : lists'[x] = lists[x] \/ lists'[x] = Idle
  /\ \/ op' = op
     \/ /\ op'.kind \in {"none", "submit", "settle"} /\ op'.verdict # "stopping"
        /\ lists'["queue"] = Idle
  /\ \A k \in DOMAIN queue' : queue'[k].kind = "interrupt" => started' = "handed"
  /\ started' = started \/ (started = "dispatching" /\ lists'["start"] = Idle)

LEMMA ControlCalm ==
  ASSUME RalphGood, ControlInv, Quiet, Calm
  PROVE  ControlInv'
<1>1. /\ "start" \in Executors /\ "queue" \in Executors
      /\ lists["queue"] # Idle => lists["queue"].at \in DOMAIN nodes
      /\ DOMAIN nodes = 1..Len(nodes) /\ Len(nodes) \in Nat
  BY ListFacts
<1>2. Running(nodes') = Running(nodes)
  BY DEF Quiet, Running
<1>3. \A x \in Executors : lists'[x].todo = <<>>
  BY DEF Calm, ControlInv, Idle
<1>4. started' # "dispatching" => lists'["start"] = Idle
  BY <1>1 DEF Calm, ControlInv
<1>5. lists'["queue"] # Idle =>
        /\ op'.kind \in {"submit", "settle"}
        /\ nodes'[lists'["queue"].at].status = "running"
        /\ lists'["start"].at # lists'["queue"].at
  <2> SUFFICES ASSUME lists'["queue"] # Idle
               PROVE  /\ op'.kind \in {"submit", "settle"}
                      /\ nodes'[lists'["queue"].at].status = "running"
                      /\ lists'["start"].at # lists'["queue"].at
    OBVIOUS
  <2>1. lists'["queue"] = lists["queue"] /\ op' = op
    BY <1>1 DEF Calm
  <2>2. /\ lists["queue"].at \in DOMAIN nodes
        /\ op.kind \in {"submit", "settle"}
        /\ nodes[lists["queue"].at].status = "running"
        /\ lists["start"].at # lists["queue"].at
    BY <1>1, <2>1 DEF ControlInv
  <2>3. lists'["start"].at # lists["queue"].at
    BY <1>1, <2>2 DEF Calm, Idle
  <2> QED
    BY <2>1, <2>2, <2>3 DEF Quiet
<1>6. op'.kind = "interrupt" => started' = "handed"
  BY DEF Calm, ControlInv
<1>7. op'.verdict = "stopping" => /\ op'.kind = "interrupt"
                                  /\ outcome' = "none"
                                  /\ op'.running = Running(nodes')
  BY <1>2 DEF Calm, ControlInv, Quiet
<1> QED
  BY <1>3, <1>4, <1>5, <1>6, <1>7 DEF Calm, ControlInv

(* A settlement, by start() or by an operation of the queue.                *)
LEMMA ControlAdvances ==
  ASSUME RalphGood, ControlInv, NEW x \in Executors, NEW i, NEW settlement,
         Advance(x, i, settlement), UNCHANGED started,
         x = "start" => started = "dispatching" /\ lists["queue"] = Idle,
         x = "queue" => op'.kind \in {"submit", "settle"},
         op'.kind = "interrupt" => started = "handed",
         op'.verdict # "stopping",
         \A k \in DOMAIN queue' : queue'[k].kind = "interrupt" => started = "handed"
  PROVE  ControlInv'
<1>1. /\ "start" \in Executors /\ "queue" \in Executors
      /\ lists \in [Executors -> ListType(RalphSpecs)]
      /\ lists["start"].at \in 0..Len(nodes)
      /\ i = Len(nodes) /\ i \in Nat
  BY ListFacts, Facts DEF Advance
<1>2. PICK item : /\ lists' = [lists EXCEPT ![x] = item] /\ item.todo = <<>>
                  /\ item # Idle => /\ item.at = i + 1 /\ ~wf'.done
                                    /\ nodes'[i + 1].status = "running"
  <2>1. CASE wf'.done
    BY <2>1 DEF Advance, Idle
  <2>2. CASE ~wf'.done
    <3> DEFINE item == [at |-> i + 1, todo |-> <<>>]
    <3>1. lists' = [lists EXCEPT ![x] = item] /\ item.todo = <<>> /\ item.at = i + 1
          /\ nodes'[i + 1].status = "running"
      BY <2>2 DEF Advance, Entry
    <3> QED
      BY <2>2, <3>1
  <2> QED
    BY <2>1, <2>2
<1>3. \A y \in Executors : lists'[y] = IF y = x THEN item ELSE lists[y]
  BY <1>1, <1>2
<1>4. \A y \in Executors : lists'[y].todo = <<>>
  BY <1>2, <1>3 DEF ControlInv
<1>5. started' # "dispatching" => lists'["start"] = Idle
  BY <1>1, <1>3 DEF ControlInv
<1>6. lists'["queue"] # Idle =>
        /\ op'.kind \in {"submit", "settle"}
        /\ nodes'[lists'["queue"].at].status = "running"
        /\ lists'["start"].at # lists'["queue"].at
  <2>1. CASE x = "start"
    BY <1>1, <1>3, <2>1
  <2>2. CASE x = "queue"
    BY <1>1, <1>2, <1>3, <2>2
  <2> QED
    BY <2>1, <2>2 DEF Executors
<1> QED
  BY <1>4, <1>5, <1>6 DEF ControlInv

LEMMA ControlStarts ==
  ASSUME RalphGood, ControlInv, NEW entry, StartedWith(entry), started = "no",
         started' = "dispatching", UNCHANGED <<op, queue>>
  PROVE  ControlInv'
<1>1. /\ "start" \in Executors /\ "queue" \in Executors /\ DOMAIN nodes = {}
      /\ lists \in [Executors -> ListType(RalphSpecs)]
  BY ListFacts, Facts DEF StartedWith
<1>2. lists["queue"] = Idle
  BY <1>1, ListFacts
<1>3. \A x \in Executors :
        lists'[x] = IF x = "start" THEN [at |-> 1, todo |-> <<>>] ELSE lists[x]
  BY <1>1 DEF StartedWith
<1>4. lists'["queue"] = Idle
  BY <1>1, <1>2, <1>3
<1>5. op.kind # "interrupt" /\ op.verdict # "stopping"
      /\ \A k \in DOMAIN queue : queue[k].kind # "interrupt"
  BY DEF ControlInv
<1>6. \A x \in Executors : lists'[x].todo = <<>>
  BY <1>3 DEF ControlInv
<1> QED
  BY <1>4, <1>5, <1>6 DEF ControlInv

LEMMA ControlStops ==
  ASSUME RalphGood, ControlInv, TakeInterrupt
  PROVE  ControlInv'
<1>1. /\ queue # <<>> /\ Head(queue).kind = "interrupt" /\ queue' = Tail(queue) /\ op = NoOp
      /\ UNCHANGED <<wf, nodes, lists, started, outcome>>
  BY DEF TakeInterrupt, Take
<1>2. /\ 1 \in DOMAIN queue /\ Head(queue) = queue[1]
      /\ \A k \in DOMAIN queue' : k + 1 \in DOMAIN queue /\ queue'[k] = queue[k + 1]
  BY <1>1, TailFacts DEF RalphGood
<1>3. started = "handed" /\ lists["queue"] = Idle
  BY <1>1, <1>2 DEF ControlInv, NoOp
<1>4. /\ op'.kind = "interrupt"
      /\ op'.verdict = "stopping" => outcome = "none" /\ op'.running = Running(nodes)
  <2>1. CASE outcome # "none"
    <3>1. op' = Begun("void")
      BY <2>1 DEF TakeInterrupt
    <3> QED
      BY <1>1, <3>1 DEF Begun
  <2>2. CASE outcome = "none"
    <3>1. op' = [Begun("stopping") EXCEPT !.running = Running(nodes)]
      BY <2>2 DEF TakeInterrupt
    <3>2. op' = [kind |-> "interrupt", node |-> Head(queue).node, verdict |-> "stopping",
                 running |-> Running(nodes)]
      BY <1>1, <3>1 DEF Begun
    <3> QED
      BY <2>2, <3>2
  <2> QED
    BY <2>1, <2>2
<1>5. \A k \in DOMAIN queue' : queue'[k].kind = "interrupt" => started' = "handed"
  BY <1>1, <1>3
<1> QED
  BY <1>1, <1>3, <1>4, <1>5 DEF ControlInv

LEMMA ControlCancelled ==
  ASSUME RalphGood, SequenceInv, ControlInv, FinishInterrupt
  PROVE  ControlInv'
<1>1. op.kind = "interrupt" /\ started = "handed" /\ lists["queue"] = Idle
  BY DEF FinishInterrupt, ControlInv
<1>2. op'.kind = "interrupt" /\ op'.verdict = "cancelled"
  <2>1. op' = [op EXCEPT !.verdict = "cancelled"]
    BY DEF FinishInterrupt
  <2> QED
    BY <1>1, <2>1, Facts DEF ExecutingType
<1>3. UNCHANGED <<lists, queue, started>>
  BY DEF FinishInterrupt
<1> QED
  BY <1>1, <1>2, <1>3 DEF ControlInv

-----------------------------------------------------------------------------
(* The steps.                                                               *)
(* A step that moves one node run, or none.                                 *)
LEMMA CalmStep ==
  ASSUME RalphGood, RalphInv, Quiet, Calm, PendingInv'
  PROVE  RalphInv'
BY SequenceQuiet, ControlCalm, HistoryQuiet DEF RalphInv

(* The interrupts of the next queue.                                        *)
LEMMA InterruptsStay ==
  ASSUME RalphGood, ControlInv, started' = started,
         \/ queue' = queue
         \/ queue # <<>> /\ queue' = Tail(queue)
         \/ \E operation : /\ queue' = Append(queue, operation)
                           /\ operation.kind = "interrupt" => started = "handed"
  PROVE  \A k \in DOMAIN queue' : queue'[k].kind = "interrupt" => started' = "handed"
<1>1. CASE queue' = queue
  BY <1>1 DEF ControlInv
<1>2. CASE queue # <<>> /\ queue' = Tail(queue)
  BY <1>2, TailFacts DEF RalphGood, ControlInv
<1>3. ASSUME NEW operation, queue' = Append(queue, operation),
             operation.kind = "interrupt" => started = "handed"
      PROVE  \A k \in DOMAIN queue' : queue'[k].kind = "interrupt" => started' = "handed"
  BY <1>3, AppendFacts DEF RalphGood, ControlInv
<1> QED
  BY <1>1, <1>2, <1>3

LEMMA RalphSubmit ==
  ASSUME RalphGood, RalphGood', RalphInv, NEW i \in DOMAIN nodes, NEW payload,
         AgentSubmits(i, payload) \/ WorkflowReports(i, payload)
  PROVE  RalphInv'
<1>1. PICK run \in {"asking", "reporting"} :
        nodes' = [nodes EXCEPT ![i] = Submitting(@, run, payload)]
  BY DEF AgentSubmits, WorkflowReports
<1>2. /\ nodes[i].run = "working" /\ Enqueue("submit", i, payload)
      /\ queue' = Append(queue, Operation("submit", i, payload))
      /\ UNCHANGED <<wf, lists, op, started, outcome>>
  BY DEF AgentSubmits, WorkflowReports, Enqueue
<1>3. /\ Len(nodes') = Len(nodes) /\ DOMAIN nodes' = DOMAIN nodes
      /\ \A j \in DOMAIN nodes : /\ nodes'[j].spec = nodes[j].spec
                                 /\ nodes'[j].status = nodes[j].status
      /\ \A j \in DOMAIN nodes \ {i} : nodes'[j] = nodes[j]
      /\ nodes'[i].run = run /\ nodes'[i].said = {payload}
  BY <1>1, EntrySubmits DEF RalphGood
<1>4. nodes[i].status # "completed"
  BY <1>2 DEF RalphInv, PendingInv
<1>5. Quiet
  BY <1>2, <1>3, <1>4 DEF Quiet
<1>6. PendingInv'
  <2>1. Speaks(i, payload)
    BY <1>1, <1>2, <1>3, <1>4 DEF Speaks
  <2> QED
    BY <2>1, PendingSpeaks DEF RalphGood, RalphInv
<1>7. Calm
  <2>1. Operation("submit", i, payload).kind # "interrupt"
    BY DEF Operation
  <2>2. \A k \in DOMAIN queue' : queue'[k].kind = "interrupt" => started' = "handed"
    BY <1>2, <2>1, InterruptsStay DEF RalphInv
  <2> QED
    BY <1>2, <2>2 DEF Calm
<1> QED
  BY <1>5, <1>6, <1>7, CalmStep

LEMMA RalphReports ==
  ASSUME RalphGood, RalphGood', RalphInv, NEW i \in DOMAIN nodes, AgentReports(i)
  PROVE  RalphInv'
<1>1. /\ nodes[i].run = "accepted" /\ nodes' = [nodes EXCEPT ![i].run = "reporting"]
      /\ UNCHANGED <<wf, lists, op, started, outcome>>
  BY DEF AgentReports, Enqueue
<1>2. PICK payload \in nodes[i].said : queue' = Append(queue, Operation("submit", i, payload))
  BY DEF AgentReports, Enqueue
<1>3. /\ Len(nodes') = Len(nodes) /\ DOMAIN nodes' = DOMAIN nodes
      /\ \A j \in DOMAIN nodes : /\ nodes'[j].spec = nodes[j].spec
                                 /\ nodes'[j].status = nodes[j].status
                                 /\ nodes'[j].said = nodes[j].said
      /\ \A j \in DOMAIN nodes \ {i} : nodes'[j] = nodes[j]
      /\ nodes'[i].run = "reporting"
  BY <1>1, EntryMoves DEF RalphGood
<1>4. nodes[i].said = {payload}
  BY <1>2 DEF RalphInv, PendingInv
<1>5. Quiet
  BY <1>1, <1>3 DEF Quiet
<1>6. PendingInv'
  <2>1. Speaks(i, payload)
    BY <1>1, <1>2, <1>3, <1>4 DEF Speaks
  <2> QED
    BY <2>1, PendingSpeaks DEF RalphGood, RalphInv
<1>7. Calm
  <2>1. Operation("submit", i, payload).kind # "interrupt"
    BY DEF Operation
  <2>2. \A k \in DOMAIN queue' : queue'[k].kind = "interrupt" => started' = "handed"
    BY <1>1, <1>2, <2>1, InterruptsStay DEF RalphInv
  <2> QED
    BY <1>1, <2>2 DEF Calm
<1> QED
  BY <1>5, <1>6, <1>7, CalmStep

(* A node run ends, and its settlement is queued.                           *)
LEMMA RalphRunEnds ==
  ASSUME RalphGood, RalphGood', RalphInv, NEW i \in DOMAIN nodes,
         Monitor(i) \/ \E how \in {"failed", "rejected", "cancelled"} : RunEnds(i, how)
  PROVE  RalphInv'
<1>1. PICK run \in {"failed", "rejected", "cancelled", "heard"} :
        nodes' = [nodes EXCEPT ![i].run = run]
  BY DEF Monitor, RunEnds
<1>2. /\ UNCHANGED <<wf, lists, op, started, outcome>>
      /\ \/ queue' = queue
         \/ \E operation : operation.kind = "settle" /\ queue' = Append(queue, operation)
  <2>1. CASE Monitor(i)
    <3>1. queue' = Append(queue, Operation("settle", i, nodes[i].run))
          /\ UNCHANGED <<wf, lists, op, started, outcome>>
      BY <2>1 DEF Monitor, Enqueue
    <3>2. Operation("settle", i, nodes[i].run).kind = "settle"
      BY DEF Operation
    <3> QED
      BY <3>1, <3>2
  <2>2. CASE ~Monitor(i)
    BY <2>2 DEF RunEnds, EnqueueNothing
  <2> QED
    BY <2>1, <2>2
<1>3. /\ Len(nodes') = Len(nodes) /\ DOMAIN nodes' = DOMAIN nodes
      /\ \A j \in DOMAIN nodes : /\ nodes'[j].spec = nodes[j].spec
                                 /\ nodes'[j].status = nodes[j].status
                                 /\ nodes'[j].said = nodes[j].said
      /\ \A j \in DOMAIN nodes \ {i} : nodes'[j] = nodes[j]
      /\ nodes'[i].run = run
  BY <1>1, EntryMoves DEF RalphGood
<1>4. Quiet
  BY <1>2, <1>3 DEF Quiet
<1>5. PendingInv'
  <2>1. Silent
    BY <1>1, <1>2, <1>3 DEF Silent
  <2> QED
    BY <2>1, PendingSilent DEF RalphGood, RalphInv
<1>6. Calm
  <2>1. \A k \in DOMAIN queue' : queue'[k].kind = "interrupt" => started' = "handed"
    BY <1>2, InterruptsStay DEF RalphInv
  <2> QED
    BY <1>2, <2>1 DEF Calm
<1> QED
  BY <1>4, <1>5, <1>6, CalmStep

LEMMA RalphInterrupts ==
  ASSUME RalphGood, RalphInv, Interrupt
  PROVE  RalphInv'
<1>1. /\ UNCHANGED <<wf, nodes, lists, op, started, outcome>> /\ started = "handed"
      /\ queue' = Append(queue, Operation("interrupt", 0, "none"))
  BY DEF Interrupt, Enqueue
<1>2. Operation("interrupt", 0, "none").kind = "interrupt"
  BY DEF Operation
<1>3. Quiet
  BY <1>1 DEF Quiet
<1>4. PendingInv'
  <2>1. Silent
    BY <1>1, <1>2 DEF Silent
  <2> QED
    BY <2>1, PendingSilent DEF RalphGood, RalphInv
<1>5. Calm
  BY <1>1 DEF Calm
<1> QED
  BY <1>3, <1>4, <1>5, CalmStep

LEMMA RalphHandsOver ==
  ASSUME RalphGood, RalphInv, HandOver \/ UNCHANGED vars
  PROVE  RalphInv'
<1>1. /\ UNCHANGED <<wf, nodes, lists, queue, op, outcome>>
      /\ \/ started' = started
         \/ started = "dispatching" /\ started' = "handed" /\ lists["start"] = Idle
  BY DEF HandOver, vars
<1>2. Quiet
  BY <1>1 DEF Quiet
<1>3. PendingInv'
  <2>1. Silent
    BY <1>1 DEF Silent
  <2> QED
    BY <2>1, PendingSilent DEF RalphGood, RalphInv
<1>4. Calm
  BY <1>1 DEF Calm, RalphInv, ControlInv
<1> QED
  BY <1>2, <1>3, <1>4, CalmStep

LEMMA RalphLaunched ==
  ASSUME RalphGood, RalphGood', RalphInv, NEW x \in Executors, LaunchReturns(x)
  PROVE  RalphInv'
<1> DEFINE i == lists[x].at
           entry == [nodes[i] EXCEPT !.launched = TRUE]
<1>1. i \in DOMAIN nodes /\ lists[x].todo = <<>>
      /\ lists \in [Executors -> ListType(RalphSpecs)]
  BY Facts DEF LaunchReturns, RalphInv, ControlInv
<1>2. /\ nodes' = [nodes EXCEPT ![i] = entry]
      /\ lists' = [lists EXCEPT ![x] = Idle]
      /\ UNCHANGED <<wf, queue, op, started, outcome>>
  BY <1>1 DEF LaunchReturns, Claim
<1>3. nodes[i] \in Entries
  BY <1>1, EntryFacts
<1>4. entry.spec = nodes[i].spec /\ entry.status = nodes[i].status
      /\ entry.said = nodes[i].said /\ entry.run = nodes[i].run
  BY <1>3 DEF Entries, EntryType
<1> HIDE DEF entry
<1>5. DOMAIN nodes' = DOMAIN nodes /\ nodes'[i] = entry
      /\ \A j \in DOMAIN nodes \ {i} : nodes'[j] = nodes[j]
  BY <1>1, <1>2
<1>6. Len(nodes') = Len(nodes)
  <2>1. nodes' \in Seq(Entries)
    BY DEF RalphGood, Good, Typed, ListsTyped, Entries
  <2>2. Len(nodes') \in Nat /\ DOMAIN nodes' = 1..Len(nodes')
    BY <2>1
  <2> QED
    BY <1>5, <2>2, Facts
<1>7. Quiet
  BY <1>2, <1>4, <1>5, <1>6 DEF Quiet
<1>8. PendingInv'
  <2>1. Silent
    BY <1>2, <1>4, <1>5 DEF Silent
  <2> QED
    BY <2>1, PendingSilent DEF RalphGood, RalphInv
<1>9. Calm
  <2>1. \A y \in Executors : lists'[y] = lists[y] \/ lists'[y] = Idle
    BY <1>1, <1>2
  <2> QED
    BY <1>2, <2>1 DEF Calm, RalphInv, ControlInv
<1> QED
  BY <1>7, <1>8, <1>9, CalmStep

LEMMA RalphStarts ==
  ASSUME RalphHooks, RalphGood, RalphInv, Start
  PROVE  RalphInv'
<1>1. PICK entry : StartedWith(entry)
  BY StartIs DEF RalphInv
<1>2. started = "no" /\ started' = "dispatching" /\ UNCHANGED <<op, queue>>
  BY DEF Start
<1>3. SequenceInv' /\ HistoryInv'
  BY <1>1, <1>2, SequenceStarts, HistoryStarts
<1>4. ControlInv'
  BY <1>1, <1>2, ControlStarts DEF RalphInv
<1>5. PendingInv'
  <2>1. /\ DOMAIN nodes = {} /\ DOMAIN nodes' = {1} /\ nodes'[1] = entry
        /\ entry.said = {} /\ entry.status = "running"
    BY <1>1 DEF StartedWith
  <2>2. Silent
    BY <1>2, <2>1 DEF Silent
  <2> QED
    BY <2>2, PendingSilent DEF RalphGood, RalphInv
<1> QED
  BY <1>3, <1>4, <1>5 DEF RalphInv

LEMMA RalphCancelled ==
  ASSUME RalphGood, RalphInv, FinishInterrupt
  PROVE  RalphInv'
<1>1. SequenceInv' /\ HistoryInv' /\ ControlInv'
  BY SequenceCancelled, HistoryCancelled, ControlCancelled DEF RalphInv
<1>2. PendingInv'
  <2>1. op.kind = "interrupt"
    BY DEF RalphInv, ControlInv, FinishInterrupt
  <2>2. op'.kind = "interrupt"
    BY <2>1, Facts DEF FinishInterrupt, ExecutingType
  <2>3. queue' = queue
    BY DEF FinishInterrupt
  <2>4. Silent
    BY <2>1, <2>2, <2>3, CancelIs DEF Silent, RalphInv
  <2> QED
    BY <2>4, PendingSilent DEF RalphGood, RalphInv
<1> QED
  BY <1>1, <1>2 DEF RalphInv

LEMMA RalphStops ==
  ASSUME RalphGood, RalphInv, TakeInterrupt
  PROVE  RalphInv'
<1>1. /\ queue # <<>> /\ queue' = Tail(queue) /\ op = NoOp
      /\ UNCHANGED <<wf, nodes, lists, started, outcome>>
  BY DEF TakeInterrupt, Take
<1>2. ControlInv'
  BY ControlStops DEF RalphInv
<1>3. Quiet
  BY <1>1 DEF Quiet
<1>4. PendingInv'
  <2>1. op.kind # "submit"
    BY <1>1 DEF NoOp
  <2>2. op'.kind # "submit"
    <3>1. CASE outcome # "none"
      BY <3>1 DEF TakeInterrupt, Take, Begun
    <3>2. CASE outcome = "none"
      <4>1. op' = [kind |-> Head(queue).kind, node |-> Head(queue).node,
                   verdict |-> "stopping", running |-> Running(nodes)]
        BY <3>2 DEF TakeInterrupt, Begun
      <4> QED
        BY <4>1 DEF TakeInterrupt, Take
    <3> QED
      BY <3>1, <3>2
  <2>3. Silent
    BY <1>1, <2>1, <2>2 DEF Silent
  <2> QED
    BY <2>3, PendingSilent DEF RalphGood, RalphInv
<1> QED
  BY <1>2, <1>3, <1>4, SequenceQuiet, HistoryQuiet DEF RalphInv

LEMMA RalphAnswers ==
  ASSUME RalphGood, RalphGood', RalphInv, EndOperation
  PROVE  RalphInv'
<1>1. /\ op' = NoOp /\ lists["queue"] = Idle
      /\ UNCHANGED <<wf, lists, queue, started, outcome>>
  BY DEF EndOperation
<1>2. /\ DOMAIN nodes' = DOMAIN nodes
      /\ \A j \in DOMAIN nodes :
           /\ nodes'[j].spec = nodes[j].spec /\ nodes'[j].status = nodes[j].status
           /\ nodes'[j].said = nodes[j].said
  <2>1. CASE op.kind = "submit"
    BY <2>1, Answered DEF RalphGood
  <2>2. CASE op.kind # "submit"
    BY <2>2 DEF EndOperation
  <2> QED
    BY <2>1, <2>2
<1>3. Quiet
  <2>1. nodes' \in Seq(Entries)
    BY DEF RalphGood, Good, Typed, ListsTyped, Entries
  <2>2. Len(nodes') \in Nat /\ DOMAIN nodes' = 1..Len(nodes')
    BY <2>1
  <2>3. Len(nodes') = Len(nodes)
    BY <1>2, <2>2, Facts
  <2> QED
    BY <1>1, <1>2, <2>3 DEF Quiet
<1>4. PendingInv'
  <2>1. CASE op.kind = "submit"
    BY <2>1, PendingAnswered DEF RalphGood, RalphInv
  <2>2. CASE op.kind # "submit"
    <3>1. nodes' = nodes
      BY <2>2 DEF EndOperation
    <3>2. Silent
      BY <1>1, <2>2, <3>1 DEF Silent, NoOp
    <3> QED
      BY <3>2, PendingSilent DEF RalphGood, RalphInv
  <2> QED
    BY <2>1, <2>2
<1>5. Calm
  BY <1>1 DEF Calm, NoOp, RalphInv, ControlInv
<1> QED
  BY <1>3, <1>4, <1>5, CalmStep

-----------------------------------------------------------------------------
(* Settlements.                                                             *)
LEMMA CountEnds ==
  ASSUME RalphGood, NEW i \in DOMAIN nodes, NEW settlement, settlement.status \in Settled,
         NEW run \in {nodes[i].run, "absent"}
  PROVE  /\ Ends(i, settlement, Count(i, settlement))
         /\ Ends(i, settlement, [Count(i, settlement) EXCEPT ![i].run = run])
         /\ Count(i, settlement)[i].run = nodes[i].run
<1> DEFINE entry == Counted(nodes[i], settlement)
           counted == Count(i, settlement)
           status == settlement.status
<1>1. nodes[i] \in Entries /\ nodes \in Seq(Entries) /\ i \in 1..Len(nodes)
  BY EntryFacts, Facts
<1>2. entry = [nodes[i] EXCEPT !.status = status, !.counted = @ + 1]
  BY DEF Counted
<1>3. counted = [nodes EXCEPT ![i] = entry]
  BY DEF Count
<1>4. status \in NodeStatuses
  BY DEF NodeStatuses
<1> HIDE DEF entry, counted, status
<1>5. entry = [spec |-> nodes[i].spec, status |-> status, launched |-> nodes[i].launched,
               run |-> nodes[i].run, tries |-> nodes[i].tries, said |-> nodes[i].said,
               counted |-> nodes[i].counted + 1]
  BY <1>1, <1>2 DEF Entries, EntryType
<1>6. nodes[i].counted + 1 \in Nat
  BY <1>1 DEF Entries, EntryType
<1>7. entry \in Entries
  BY <1>1, <1>4, <1>5, <1>6 DEF Entries, EntryType
<1>8. /\ counted \in Seq(Entries) /\ Len(counted) = Len(nodes) /\ counted[i] = entry
      /\ \A j \in DOMAIN nodes \ {i} : counted[j] = nodes[j]
  BY <1>1, <1>3, <1>7
<1>9. Ends(i, settlement, counted) /\ counted[i].run = nodes[i].run
  BY <1>5, <1>8 DEF Ends, status
<1> DEFINE moved == [entry EXCEPT !.run = run]
           ns == [counted EXCEPT ![i].run = run]
<1>10. ns = [counted EXCEPT ![i] = moved]
  BY <1>8
<1>11. run \in Runs
  BY <1>1 DEF Entries, EntryType, Runs
<1>12. moved = [spec |-> nodes[i].spec, status |-> status, launched |-> nodes[i].launched,
                run |-> run, tries |-> nodes[i].tries, said |-> nodes[i].said,
                counted |-> nodes[i].counted + 1]
  BY <1>5
<1> HIDE DEF moved, ns
<1>13. moved \in Entries
  BY <1>1, <1>4, <1>6, <1>11, <1>12 DEF Entries, EntryType
<1>14. /\ ns \in Seq(Entries) /\ Len(ns) = Len(nodes) /\ ns[i] = moved
       /\ \A j \in DOMAIN nodes \ {i} : ns[j] = nodes[j]
  BY <1>1, <1>8, <1>10, <1>13
<1>15. Ends(i, settlement, ns)
  BY <1>12, <1>14 DEF Ends, status
<1> QED
  BY <1>9, <1>15 DEF ns, counted

(* A settlement keeps all but what its executor has to say.                 *)
LEMMA SettlementKeeps ==
  ASSUME RalphHooks, RalphGood, RalphInv, NEW x \in Executors, NEW i \in DOMAIN nodes,
         nodes[i].status = "running",
         NEW settlement \in Settlements(Verdicts),
         settlement.status = "completed" =>
           settlement.payload \in Verdicts /\ nodes[i].said = {settlement.payload},
         NEW ns, Ends(i, settlement, ns), ApplySettlement(x, i, settlement, ns, <<>>),
         UNCHANGED started
  PROVE  Advance(x, i, settlement) /\ SequenceInv' /\ HistoryInv'
<1>1. Advance(x, i, settlement)
  BY SettleAdvances DEF RalphInv
<1>2. settlement.status # "running"
  BY DEF Settlements, Settled
<1> QED
  BY <1>1, <1>2, SequenceAdvances, HistoryAdvances DEF RalphInv

(* The entries after it: only the settled one may have completed.           *)
LEMMA AdvanceEntries ==
  ASSUME RalphGood, NEW x, NEW i, NEW settlement, Advance(x, i, settlement)
  PROVE  /\ DOMAIN nodes \subseteq DOMAIN nodes'
         /\ \A j \in DOMAIN nodes :
              /\ nodes'[j].said = nodes[j].said
              /\ nodes'[j].run = nodes[j].run
                   \/ nodes'[j].run \notin {"working", "accepted", "asking"}
              /\ nodes'[j].status = "completed" =>
                   \/ nodes[j].status = "completed"
                   \/ j = i /\ settlement.status = "completed"
         /\ \A j \in DOMAIN nodes' \ DOMAIN nodes :
              nodes'[j].said = {} /\ nodes'[j].status # "completed"
<1>1. \A j \in DOMAIN nodes' \ DOMAIN nodes : ~wf'.done /\ j = i + 1
  BY AdvanceFacts
<1>2. \A j \in DOMAIN nodes' \ DOMAIN nodes :
        nodes'[j].said = {} /\ nodes'[j].status # "completed"
  BY <1>1 DEF Advance, Entry
<1> QED
  BY <1>2, AdvanceFacts DEF Advance

LEMMA RalphTakesSubmission ==
  ASSUME RalphHooks, RalphGood, RalphInv, TakeSubmission
  PROVE  RalphInv'
<1> DEFINE i == Head(queue).node
           settlement == Completed(Head(queue).what)
<1>1. /\ op = NoOp /\ queue # <<>> /\ Head(queue).kind = "submit" /\ queue' = Tail(queue)
      /\ UNCHANGED started
  BY DEF TakeSubmission, Take
<1>2. 1 \in DOMAIN queue /\ Head(queue) = queue[1] /\ IsSubmission(1)
  BY <1>1, TailFacts DEF RalphGood, IsSubmission
<1>3. /\ i \in DOMAIN nodes /\ Head(queue).what \in Verdicts
      /\ nodes[i].said = {Head(queue).what}
  BY <1>2, QueueFacts DEF RalphGood, RalphInv, PendingInv, Says
<1>4. /\ settlement \in Settlements(Verdicts) /\ settlement.status = "completed"
      /\ settlement.status \in Settled
      /\ settlement.payload = Head(queue).what
  BY <1>3 DEF Completed, Settlements, Settled
<1>5. lists["queue"] = Idle /\ op.kind = "none"
  BY <1>1 DEF RalphInv, ControlInv, NoOp
<1>6. \A k \in DOMAIN queue' : queue'[k].kind = "interrupt" => started' = "handed"
  BY <1>1, InterruptsStay DEF RalphInv
<1>7. CASE StillRunning(i) /\ Validates(wf, nodes[i].spec, settlement)
  <2>1. /\ ApplySettlement("queue", i, settlement, Count(i, settlement), <<>>)
        /\ op' = [kind |-> "submit", node |-> i, verdict |-> "accept", running |-> {}]
    BY <1>1, <1>7 DEF TakeSubmission, Begun
  <2>2. nodes[i].status = "running"
    BY <1>7 DEF StillRunning
  <2> HIDE DEF i, settlement
  <2> DEFINE x == "queue"
             ns == Count(i, settlement)
  <2>3. x \in Executors
    BY DEF Executors
  <2>4. Ends(i, settlement, ns)
    BY <1>3, <1>4, CountEnds
  <2>5. ApplySettlement(x, i, settlement, ns, <<>>)
    BY <2>1
  <2> HIDE DEF x, ns
  <2>6. Advance(x, i, settlement) /\ SequenceInv' /\ HistoryInv'
    BY <1>1, <1>3, <1>4, <2>2, <2>3, <2>4, <2>5, SettlementKeeps
  <2>7. ControlInv'
    BY <1>1, <1>6, <2>1, <2>3, <2>6, ControlAdvances DEF RalphInv, x
  <2>8. PendingInv'
    <3>1. Answering(i, "accept")
      BY <1>1, <1>5, <2>1, <2>6, AdvanceEntries DEF Answering, i
    <3> QED
      BY <3>1, PendingAnswering DEF RalphGood, RalphInv
  <2> QED
    BY <2>6, <2>7, <2>8 DEF RalphInv
<1>8. CASE ~(StillRunning(i) /\ Validates(wf, nodes[i].spec, settlement))
  <2> DEFINE verdict == IF StillRunning(i) THEN "reject" ELSE "finished"
  <2>1. /\ op' = [kind |-> "submit", node |-> i, verdict |-> verdict, running |-> {}]
        /\ UNCHANGED <<wf, nodes, lists, outcome>>
    BY <1>1, <1>8 DEF TakeSubmission, Begun
  <2>2. verdict \in {"reject", "finished"}
    OBVIOUS
  <2> HIDE DEF verdict
  <2>3. Quiet
    BY <1>1, <2>1 DEF Quiet
  <2>4. Calm
    BY <1>1, <1>5, <1>6, <2>1, <2>2 DEF Calm
  <2>5. PendingInv'
    <3>1. Answering(i, verdict)
      BY <1>1, <1>5, <2>1, <2>2 DEF Answering
    <3> QED
      BY <3>1, PendingAnswering DEF RalphGood, RalphInv
  <2> QED
    BY <2>3, <2>4, <2>5, CalmStep
<1> QED
  BY <1>7, <1>8

LEMMA RalphTakesSettlement ==
  ASSUME RalphHooks, RalphGood, RalphInv, TakeSettlement
  PROVE  RalphInv'
<1> DEFINE i == Head(queue).node
           settlement == Unfinished(Head(queue).what)
<1>1. /\ op = NoOp /\ queue # <<>> /\ Head(queue).kind = "settle" /\ queue' = Tail(queue)
      /\ UNCHANGED started
  BY DEF TakeSettlement, Take
<1>2. 1 \in DOMAIN queue /\ Head(queue) = queue[1]
  BY <1>1, TailFacts DEF RalphGood
<1>3. i \in DOMAIN nodes /\ Head(queue).what \in {"rejected", "failed", "cancelled"}
  BY <1>1, <1>2 DEF RalphGood, Good, WorkflowInv, WaitingInv
<1>4. /\ settlement \in Settlements(Verdicts) /\ settlement.status # "completed"
      /\ settlement.status \in Settled
  BY <1>3 DEF Unfinished, Settlements, Settled
<1>5. lists["queue"] = Idle /\ op.kind = "none"
  BY <1>1 DEF RalphInv, ControlInv, NoOp
<1>6. \A k \in DOMAIN queue' : queue'[k].kind = "interrupt" => started' = "handed"
  BY <1>1, InterruptsStay DEF RalphInv
<1>7. CASE StillRunning(i) /\ Validates(wf, nodes[i].spec, settlement)
  <2>1. /\ ApplySettlement("queue", i, settlement, Count(i, settlement), <<>>)
        /\ op' = [kind |-> "settle", node |-> i, verdict |-> "settled", running |-> {}]
    BY <1>1, <1>7 DEF TakeSettlement, Begun
  <2>2. nodes[i].status = "running"
    BY <1>7 DEF StillRunning
  <2> HIDE DEF i, settlement
  <2> DEFINE x == "queue"
             ns == Count(i, settlement)
  <2>3. x \in Executors
    BY DEF Executors
  <2>4. Ends(i, settlement, ns)
    BY <1>3, <1>4, CountEnds
  <2>5. ApplySettlement(x, i, settlement, ns, <<>>)
    BY <2>1
  <2> HIDE DEF x, ns
  <2>6. Advance(x, i, settlement) /\ SequenceInv' /\ HistoryInv'
    BY <1>1, <1>3, <1>4, <2>2, <2>3, <2>4, <2>5, SettlementKeeps
  <2>7. ControlInv'
    BY <1>1, <1>6, <2>1, <2>3, <2>6, ControlAdvances DEF RalphInv, x
  <2>8. PendingInv'
    <3>1. Silent
      BY <1>1, <1>4, <1>5, <2>1, <2>6, AdvanceEntries DEF Silent
    <3> QED
      BY <3>1, PendingSilent DEF RalphGood, RalphInv
  <2> QED
    BY <2>6, <2>7, <2>8 DEF RalphInv
<1>8. CASE ~(StillRunning(i) /\ Validates(wf, nodes[i].spec, settlement))
  <2>1. /\ op' = [kind |-> "settle", node |-> i, verdict |-> "threw", running |-> {}]
        /\ UNCHANGED <<wf, nodes, lists, outcome>>
    BY <1>1, <1>8 DEF TakeSettlement, Begun
  <2>2. Quiet
    BY <1>1, <2>1 DEF Quiet
  <2>3. Calm
    BY <1>1, <1>5, <1>6, <2>1 DEF Calm
  <2>4. PendingInv'
    <3>1. Silent
      BY <1>1, <1>5, <2>1 DEF Silent
    <3> QED
      BY <3>1, PendingSilent DEF RalphGood, RalphInv
  <2> QED
    BY <2>2, <2>3, <2>4, CalmStep
<1> QED
  BY <1>7, <1>8

(* A launch that rejected: ralph_loop takes any settlement of the running   *)
(* node, so that only start() can be thrown out of its launch list.         *)
LEMMA RalphLaunchFails ==
  ASSUME RalphHooks, RalphGood, RalphGood', RalphInv, NEW x \in Executors, LaunchFails(x)
  PROVE  RalphInv'
<1> DEFINE i == lists[x].at
           failed == Unfinished("failed")
<1>1. /\ lists[x] # Idle /\ UNCHANGED queue
      /\ i \in DOMAIN nodes /\ lists[x].todo = <<>>
      /\ lists \in [Executors -> ListType(RalphSpecs)]
  BY Facts DEF LaunchFails, RalphInv, ControlInv
<1>2. /\ failed \in Settlements(Verdicts) /\ failed.status # "completed"
      /\ failed.status \in Settled
  BY DEF Unfinished, Settlements, Settled
<1>3. PICK run \in {nodes[i].run, "absent"} :
        IF StillRunning(i) /\ Validates(wf, nodes[i].spec, failed)
        THEN /\ ApplySettlement(x, i, failed, [Count(i, failed) EXCEPT ![i].run = run],
                                lists[x].todo)
             /\ UNCHANGED <<op, started>>
        ELSE /\ nodes' = [nodes EXCEPT ![i].run = run]
             /\ Throw(x)
             /\ UNCHANGED <<wf, outcome>>
  BY DEF LaunchFails, StillRunning
<1>4. x \in {"start", "queue"}
  BY DEF Executors
<1>5. x = "start" => started = "dispatching"
  BY <1>1 DEF RalphInv, ControlInv
<1>6. x = "queue" => /\ op.kind \in {"submit", "settle"} /\ nodes[i].status = "running"
                     /\ lists["start"].at # i
  BY <1>1 DEF RalphInv, ControlInv
<1>7. op.kind # "interrupt" /\ op.verdict # "stopping"
  BY <1>4, <1>5, <1>6 DEF RalphInv, ControlInv
<1>8. CASE nodes[i].status = "running"
  <2>1. nodes[i].spec.role = wf.phase /\ IsOpen(wf) /\ i = Len(nodes)
    BY <1>1, <1>8, RunningIsLast DEF RalphInv
  <2>2. StillRunning(i) /\ Validates(wf, nodes[i].spec, failed)
    <3>1. wf.phase # "done"
      BY <2>1 DEF IsOpen, Roles
    <3> QED
      BY <1>8, <2>1, <3>1 DEF StillRunning, RalphHooks, RalphValidates
  <2>3. x = "start" => lists["queue"] = Idle
    <3> SUFFICES ASSUME x = "start", lists["queue"] # Idle PROVE FALSE
      OBVIOUS
    <3>1. lists["queue"].at \in DOMAIN nodes /\ nodes[lists["queue"].at].status = "running"
          /\ lists["start"].at # lists["queue"].at
      BY ListFacts DEF RalphInv, ControlInv
    <3>2. lists["queue"].at = Len(nodes)
      BY <3>1, RunningIsLast DEF RalphInv
    <3> QED
      BY <2>1, <3>1, <3>2
  <2> DEFINE ns == [Count(i, failed) EXCEPT ![i].run = run]
  <2>4. ApplySettlement(x, i, failed, ns, <<>>) /\ UNCHANGED <<op, started>>
    BY <1>1, <1>3, <2>2
  <2> HIDE DEF i, failed
  <2>5. Ends(i, failed, ns)
    BY <1>1, <1>2, <1>3, CountEnds
  <2> HIDE DEF ns
  <2>6. Advance(x, i, failed) /\ SequenceInv' /\ HistoryInv'
    BY <1>1, <1>2, <1>8, <2>4, <2>5, SettlementKeeps
  <2>7. ControlInv'
    <3>1. \A k \in DOMAIN queue' : queue'[k].kind = "interrupt" => started = "handed"
      BY <1>1 DEF RalphInv, ControlInv
    <3>2. x = "queue" => op'.kind \in {"submit", "settle"}
      BY <1>6, <2>4
    <3>3. op'.kind # "interrupt" /\ op'.verdict # "stopping"
      BY <1>7, <2>4
    <3> QED
      BY <1>5, <2>3, <2>4, <2>6, <3>1, <3>2, <3>3, ControlAdvances DEF RalphInv
  <2>8. PendingInv'
    <3>1. Silent
      BY <1>1, <1>2, <2>4, <2>6, AdvanceEntries DEF Silent
    <3> QED
      BY <3>1, PendingSilent DEF RalphGood, RalphInv
  <2> QED
    BY <2>6, <2>7, <2>8 DEF RalphInv
<1>9. CASE nodes[i].status # "running"
  <2>1. x = "start" /\ started = "dispatching"
    BY <1>4, <1>5, <1>6, <1>9
  <2>2. /\ nodes' = [nodes EXCEPT ![i].run = run]
        /\ lists' = [lists EXCEPT ![x] = Idle]
        /\ op' = op /\ started' = "threw" /\ UNCHANGED <<wf, outcome>>
    BY <1>3, <1>9, <2>1 DEF StillRunning, Throw
  <2> HIDE DEF i
  <2>3. /\ Len(nodes') = Len(nodes) /\ DOMAIN nodes' = DOMAIN nodes
        /\ \A j \in DOMAIN nodes : /\ nodes'[j].spec = nodes[j].spec
                                   /\ nodes'[j].status = nodes[j].status
                                   /\ nodes'[j].said = nodes[j].said
        /\ \A j \in DOMAIN nodes \ {i} : nodes'[j] = nodes[j]
        /\ nodes'[i].run = run
    BY <1>1, <2>2, EntryMoves DEF RalphGood
  <2>4. Quiet
    BY <2>1, <2>2, <2>3 DEF Quiet
  <2>5. Silent
    BY <1>1, <1>3, <2>2, <2>3 DEF Silent
  <2>6. Calm
    <3>1. \A k \in DOMAIN queue' : queue'[k].kind # "interrupt"
      BY <1>1, <2>1 DEF RalphInv, ControlInv
    <3>2. /\ \A y \in Executors : lists'[y] = lists[y] \/ lists'[y] = Idle
          /\ lists'["start"] = Idle
      BY <1>1, <2>1, <2>2
    <3> QED
      BY <2>1, <2>2, <3>1, <3>2 DEF Calm
  <2>7. PendingInv'
    BY <2>5, PendingSilent DEF RalphGood, RalphInv
  <2> QED
    BY <2>4, <2>6, <2>7, CalmStep
<1> QED
  BY <1>8, <1>9

-----------------------------------------------------------------------------
LEMMA RalphInit ==
  ASSUME RalphHooks, Init
  PROVE  RalphInv
<1>1. /\ wf = RalphInitial /\ nodes = <<>> /\ queue = <<>> /\ op = NoOp
      /\ lists = [x \in Executors |-> Idle] /\ started = "no" /\ outcome = "none"
  BY DEF Init, RalphHooks
<1>2. DOMAIN nodes = {} /\ DOMAIN queue = {}
  BY <1>1
<1>3. SequenceInv
  BY <1>1, <1>2, InitialIs DEF SequenceInv
<1>4. ControlInv
  BY <1>1, <1>2 DEF ControlInv, Idle, NoOp, Executors
<1>5. PendingInv
  BY <1>1, <1>2 DEF PendingInv, NoOp
<1>6. HistoryInv
  <2>1. \A role \in Roles : ~(Rank[role] < Rank["planner"])
    BY RankFacts
  <2>2. \A attempt \in 1..MaxAttempts : ~(attempt < 1)
    BY AttemptsAssumption
  <2> QED
    BY <1>1, <2>1, <2>2, InitialIs DEF HistoryInv
<1> QED
  BY <1>3, <1>4, <1>5, <1>6 DEF RalphInv

LEMMA RalphStep ==
  ASSUME RalphHooks, RalphGood, RalphGood', RalphInv, [Next]_vars
  PROVE  RalphInv'
<1>1. CASE RuntimeStep
  <2>1. ASSUME NEW x \in Executors, LaunchReturns(x) \/ LaunchFails(x)
        PROVE  RalphInv'
    BY <2>1, RalphLaunched, RalphLaunchFails
  <2> QED
    BY <1>1, <2>1, RalphStarts, RalphHandsOver, RalphTakesSubmission, RalphTakesSettlement,
       RalphStops, RalphCancelled, RalphAnswers DEF RuntimeStep
<1>2. ASSUME NEW i \in DOMAIN nodes, NodeStep(i)
      PROVE  RalphInv'
  BY <1>2, RalphSubmit, RalphReports, RalphRunEnds DEF NodeStep
<1>3. CASE Interrupt \/ UNCHANGED vars
  BY <1>3, RalphInterrupts, RalphHandsOver
<1> QED
  BY <1>1, <1>2, <1>3 DEF Next

(* The inductive invariant of ralph_loop, for any attempt budget.           *)
THEOREM RalphInvariant ==
  ASSUME RalphHooks
  PROVE  Safety => [](RalphGood /\ RalphInv)
<1>1. HooksTyped(RalphStates, RalphSpecs, Verdicts, RalphPairs)
  BY RalphHooksTyped
<1>2. Init => RalphGood
  BY <1>1, InitGood DEF RalphGood
<1>3. RalphGood /\ [Next]_vars => RalphGood'
  BY <1>1, StepGood, RalphLinked DEF RalphGood
<1>4. Init => RalphInv
  BY RalphInit
<1>5. RalphGood /\ RalphGood' /\ RalphInv /\ [Next]_vars => RalphInv'
  BY RalphStep
<1> QED
  BY <1>2, <1>3, <1>4, <1>5, PTL DEF Safety

(* One node at a time, and each role once per attempt, however submissions, *)
(* failing launches and an interrupt race (ralph_loop/workflow.mjs:46).     *)
THEOREM OneNodePerPhaseHolds ==
  ASSUME RalphHooks
  PROVE  Safety => []OneNodePerPhase
<1>1. ASSUME RalphGood, RalphInv
      PROVE  OneNodePerPhase
  <2>1. \A i, j \in Running(nodes) : i = j
    BY <1>1, RunningIsLast DEF RalphInv, Running
  <2>2. ASSUME NEW i \in DOMAIN nodes, NEW j \in DOMAIN nodes, i < j,
               nodes[i].spec = nodes[j].spec
        PROVE  FALSE
    <3>1. Before(nodes[i].spec, nodes[i].spec)
      BY <1>1, <2>2 DEF RalphInv, SequenceInv
    <3>2. nodes[i].spec.attempt \in Nat /\ nodes[i].spec.role \in Roles
      BY <1>1, EntryFacts
    <3>3. Rank[nodes[i].spec.role] \in Nat
      BY <3>2, RankFacts
    <3> QED
      BY <3>1, <3>2, <3>3 DEF Before
  <2>3. \A i, j \in DOMAIN nodes : i < j \/ j < i \/ i = j
    BY <1>1, Facts
  <2> QED
    BY <2>1, <2>2, <2>3 DEF OneNodePerPhase
<1> QED
  BY <1>1, RalphInvariant, PTL

(* A success is unanimous and a failure has spent the whole budget,         *)
(* whatever the budget: no verdict is carried over, applied twice or lost   *)
(* (ralph_loop/workflow.mjs:67-155).                                        *)
THEOREM OutcomeIsEarnedHolds ==
  ASSUME RalphHooks
  PROVE  Safety => []OutcomeIsEarned
<1>1. ASSUME RalphGood, RalphInv
      PROVE  OutcomeIsEarned
  <2>1. SuccessIsUnanimous
    BY <1>1 DEF RalphInv, HistoryInv, HasPassed, Passed, NodesOf, SuccessIsUnanimous
  <2>2. FailureSpendsBudget
    <3> SUFFICES ASSUME outcome = "failure", NEW attempt \in 1..MaxAttempts
                 PROVE  \E role \in Roles : \E i \in NodesOf(role, attempt) :
                          nodes[i].status \in {"failed", "cancelled", "rejected"}
                            \/ nodes[i].said = {"fail"}
      BY DEF FailureSpendsBudget
    <3>1. PICK i \in DOMAIN nodes : nodes[i].spec.attempt = attempt /\ Failed(nodes[i])
      BY <1>1 DEF RalphInv, HistoryInv, IsSpent
    <3>2. nodes[i].spec.role \in Roles /\ i \in NodesOf(nodes[i].spec.role, attempt)
      BY <1>1, <3>1, EntryFacts DEF NodesOf
    <3> QED
      BY <3>1, <3>2 DEF Failed
  <2> QED
    BY <2>1, <2>2 DEF OutcomeIsEarned
<1> QED
  BY <1>1, RalphInvariant, PTL

(* A finished ralph_loop has no node running, and a run of it never        *)
(* deadlocks: there is a node to wait for until it is done                 *)
(* (workflow-runtime.ts:292, 350-363).                                      *)
THEOREM RalphEndsQuietly ==
  ASSUME RalphHooks
  PROVE  Safety => []EndsQuietly
<1>1. RalphInv => EndsQuietly
  BY DEF RalphInv, SequenceInv, EndsQuietly, QuietFinish, NeverDeadlocked, Running
<1> QED
  BY <1>1, RalphInvariant, PTL

(* Nothing that arrives after the finish changes the outcome or the state   *)
(* it was read from (workflow-runtime.ts:403, 416).                              *)
THEOREM OutcomeIsFinalHolds ==
  ASSUME RalphHooks
  PROVE  Safety => OutcomeIsFinal
<1>1. ASSUME RalphGood, RalphInv, [Next]_vars
      PROVE  [outcome # "none" => outcome' = outcome /\ wf' = wf]_vars
  <2> SUFFICES ASSUME outcome # "none", Next
               PROVE  UNCHANGED <<wf, outcome>>
    BY <1>1
  <2>1. wf.done /\ \A i \in DOMAIN nodes : nodes[i].status # "running"
    BY <1>1 DEF RalphInv, SequenceInv
  <2>2. CASE Start
    BY <1>1, <2>1, <2>2, InitialIs DEF Start, RalphInv, SequenceInv
  <2>3. ASSUME NEW x \in Executors, LaunchFails(x)
        PROVE  UNCHANGED <<wf, outcome>>
    <3>1. lists[x].at \in DOMAIN nodes
      BY <1>1, <2>3, Facts DEF LaunchFails
    <3> QED
      BY <2>1, <2>3, <3>1 DEF LaunchFails
  <2>4. CASE TakeSubmission \/ TakeSettlement
    <3>1. queue # <<>> /\ Head(queue).kind \in {"submit", "settle"}
      BY <2>4 DEF TakeSubmission, TakeSettlement, Take
    <3>2. Head(queue).node \in DOMAIN nodes
      <4>1. 1 \in DOMAIN queue /\ Head(queue) = queue[1]
        BY <1>1, <3>1, Facts
      <4> QED
        BY <1>1, <3>1, <4>1 DEF RalphGood, Good, WorkflowInv, WaitingInv
    <3>3. ~StillRunning(Head(queue).node)
      BY <2>1, <3>2 DEF StillRunning
    <3> QED
      BY <2>4, <3>3 DEF TakeSubmission, TakeSettlement
  <2>5. CASE FinishInterrupt
    BY <1>1, <2>5 DEF FinishInterrupt, RalphInv, ControlInv
  <2>6. CASE HandOver \/ TakeInterrupt \/ EndOperation \/ Interrupt
    BY <2>6 DEF HandOver, TakeInterrupt, EndOperation, Interrupt, Enqueue
  <2>7. ASSUME NEW x \in Executors, LaunchReturns(x)
        PROVE  UNCHANGED <<wf, outcome>>
    BY <2>7 DEF LaunchReturns
  <2>8. ASSUME NEW i \in DOMAIN nodes, NodeStep(i)
        PROVE  UNCHANGED <<wf, outcome>>
    BY <2>8 DEF NodeStep, AgentSubmits, WorkflowReports, AgentReports, RunEnds, Monitor,
                Enqueue, EnqueueNothing
  <2> QED
    BY <2>2, <2>3, <2>4, <2>5, <2>6, <2>7, <2>8 DEF Next, RuntimeStep
<1>2. RalphGood /\ RalphInv /\ [Next]_vars
        => [outcome # "none" => outcome' = outcome /\ wf' = wf]_vars
  BY <1>1
<1> QED
  BY <1>2, RalphInvariant, PTL DEF Safety, OutcomeIsFinal

(* A run of ralph_loop keeps its types, for any attempt budget: the         *)
(* runtime's own, a state that is never deadlocked, and nodes of attempts   *)
(* that have begun (ralph_loop/workflow.mjs:46, 67).                        *)
THEOREM RalphTypesHold ==
  ASSUME RalphHooks
  PROVE  Safety => []RalphTypeOK
<1>1. HooksTyped(RalphStates, RalphSpecs, Verdicts, RalphPairs)
  BY RalphHooksTyped
<1>2. Init => RalphGood /\ RalphInv /\ RangeInv
  BY <1>1, InitGood, RalphInit, RangeInit DEF RalphGood
<1>3. RalphGood /\ RalphInv /\ RangeInv /\ [Next]_vars => (RalphGood /\ RalphInv /\ RangeInv)'
  <2> SUFFICES ASSUME RalphGood, RalphInv, RangeInv, [Next]_vars
               PROVE  (RalphGood /\ RalphInv /\ RangeInv)'
    OBVIOUS
  <2>1. RalphGood'
    BY <1>1, StepGood, RalphLinked DEF RalphGood
  <2>2. RalphInv'
    BY <2>1, RalphStep
  <2>3. outcome' \in Outcomes
    BY <2>2 DEF RalphInv, SequenceInv, Outcomes
  <2>4. RangeInv'
    BY <2>1, <2>3, StepRange DEF RalphGood
  <2> QED
    BY <2>1, <2>2, <2>4
<1>4. ASSUME RalphGood, RalphInv, RangeInv
      PROVE  RalphTypeOK
  <2>1. RunTypeOK
    BY <1>4, RangeTypes DEF RalphGood
  <2>2. wf \in [done : BOOLEAN, status : {"running", "success", "failure"},
                attempt : 1..MaxAttempts, phase : Roles \cup {"done"},
                verdicts : [Roles -> Verdicts \cup {"none"}]]
    BY <1>4, Facts DEF RalphStates, RalphInv, SequenceInv
  <2>3. ASSUME NEW i \in DOMAIN nodes
        PROVE  nodes[i].spec \in [role : Roles, attempt : 1..wf.attempt]
    <3>1. nodes[i].spec.attempt <= wf.attempt
      BY <1>4 DEF RalphInv, SequenceInv
    <3>2. wf.attempt \in Nat
      BY <2>2, AttemptsAssumption
    <3>3. nodes[i].spec \in RalphSpecs /\ nodes[i].spec.attempt \in 1..MaxAttempts
      BY <1>4, EntryFacts
    <3>4. nodes[i].spec.attempt \in 1..wf.attempt
      BY <3>1, <3>2, <3>3, AttemptsAssumption
    <3> QED
      BY <3>3, <3>4 DEF RalphSpecs
  <2> QED
    BY <2>1, <2>2, <2>3 DEF RalphTypeOK
<1> QED
  BY <1>2, <1>3, <1>4, PTL DEF Safety
=============================================================================
