--------------------------- MODULE WorkflowRunProofs ---------------------------
(***************************************************************************)
(* Proofs about a workflow run, for any workflow implementation: its hooks *)
(* need only have their types.  The last part says what a step of a run    *)
(* whose launches do not fail can be for the workflow: nothing is          *)
(* decided, the run begins, one settlement is applied with nothing left    *)
(* to launch, or an interrupt ends it.                                     *)
(***************************************************************************)
EXTENDS WorkflowRun, TLAPS

Runs == Unsettled \cup Settled \cup {"absent", "heard"}
Settlements(P) == [status : Settled, payload : P \cup {"none"}]

(* What a settlement of a spec's node may say.                              *)
MayEnd(spec, settlement) ==
  settlement.status = "completed" => settlement.payload \in Payloads(spec)

(* The specs that belong to a state v belong to a state w as well.          *)
Carries(K, v, w) == \A spec : <<v, spec>> \in K => <<w, spec>> \in K

(* A launch list of specs that belong to the state.                         *)
TodoLinked(K, state, todo) == \A n \in DOMAIN todo : <<state, todo[n]>> \in K

(* The hooks' types, over states W, specs S and payloads P, and over the    *)
(* pairs K of a state and a spec that belongs to it: a workflow's states    *)
(* are closed under the settlements it validates, of specs that belong to   *)
(* the state, and under being ended by the runtime; what belongs to a state *)
(* belongs to its successors; dispatch() returns a list of specs that       *)
(* belong to the state, and nodes submit payloads.                          *)
HooksTyped(W, S, P, K) ==
  /\ InitialStates \subseteq W
  /\ \A w \in W : \A specs \in SUBSET S :
       Dispatches(w, specs) \in Seq(S) /\ TodoLinked(K, w, Dispatches(w, specs))
  /\ \A w \in W : \A specs \in SUBSET S : \A spec \in S : \A settlement \in Settlements(P) :
       <<w, spec>> \in K /\ MayEnd(spec, settlement) /\ Validates(w, spec, settlement)
         => /\ Applied(w, spec, settlement, specs) \in W
            /\ Carries(K, w, Applied(w, spec, settlement, specs))
  /\ \A w \in W : \A status \in {"failure", "deadlocked"} :
       Ended(w, status) \in W /\ Carries(K, w, Ended(w, status))
  /\ \A spec \in S : Payloads(spec) \subseteq P

EntryType(S, P) ==
  [spec : S, status : NodeStatuses, launched : BOOLEAN, run : Runs,
   tries : Nat, said : SUBSET P, counted : Nat]
Kinds == {"none", "submit", "settle", "interrupt"}
OperationType(P) ==
  [kind : Kinds, node : Nat, what : P \cup Runs \cup {"none"}]
Answers ==
  {"none", "accept", "reject", "finished", "settled", "threw", "stopping", "void",
   "cancelled"}
ExecutingType == [kind : Kinds, node : Nat, verdict : Answers, running : SUBSET Nat]
ListType(S) == [at : Nat, todo : Seq(S)]

ListsTyped(S, P) ==
  /\ nodes \in Seq(EntryType(S, P))
  /\ lists \in [Executors -> ListType(S)]
  /\ \A x \in Executors : lists[x] # Idle => lists[x].at \in DOMAIN nodes

(* The types of the runtime's variables, over the hooks' types. *)
Typed(W, S, P) ==
  /\ wf \in W
  /\ ListsTyped(S, P)
  /\ queue \in Seq(OperationType(P))
  /\ \A k \in DOMAIN queue : queue[k].kind = "submit" => queue[k].what \in P
  /\ op \in ExecutingType

Good(W, S, P) == Typed(W, S, P) /\ WorkflowInv

(* Every entry and every spec that waits to be launched belongs to the      *)
(* workflow's state, and nodes have submitted what their specs may.         *)
EntriesLinked(K, state, ns) ==
  \A i \in DOMAIN ns : <<state, ns[i].spec>> \in K /\ ns[i].said \subseteq Payloads(ns[i].spec)
ListsLinked(K, state, todos) == \A x \in Executors : TodoLinked(K, state, todos[x].todo)
QueueLinked(ns, waiting) ==
  \A k \in DOMAIN waiting :
    waiting[k].kind = "submit" => waiting[k].what \in Payloads(ns[waiting[k].node].spec)

Linked(K) ==
  /\ EntriesLinked(K, wf, nodes)
  /\ ListsLinked(K, wf, lists)
  /\ QueueLinked(nodes, queue)

-----------------------------------------------------------------------------
(* Launching claims at most one new entry and leaves the others alone. *)
LEMMA ClaimAppends ==
  ASSUME NEW S, NEW P, NEW x \in Executors, NEW ns \in Seq(EntryType(S, P)),
         NEW todo \in Seq(S), Claim(x, ns, todo),
         lists \in [Executors -> ListType(S)],
         \A y \in Executors \ {x} : lists[y] # Idle => lists[y].at \in DOMAIN ns,
         NodesInv(ns)
  PROVE  /\ ListsTyped(S, P)'
         /\ DOMAIN ns \subseteq DOMAIN nodes'
         /\ \A i \in DOMAIN ns : nodes'[i] = ns[i]
         /\ NodesInv(nodes')
<1>1. CASE todo = <<>>
  <2>1. nodes' = ns /\ lists' = [lists EXCEPT ![x] = Idle]
    BY <1>1 DEF Claim
  <2>2. Idle \in ListType(S)
    BY DEF Idle, ListType
  <2> QED BY <2>1, <2>2 DEF ListsTyped
<1>2. CASE todo # <<>>
  <2> DEFINE spec == Head(todo)
             item == [at |-> Len(ns) + 1, todo |-> Tail(todo)]
  <2>1. /\ nodes' = Append(ns, Entry(spec))
        /\ lists' = [lists EXCEPT ![x] = item]
    BY <1>2 DEF Claim
  <2>2. spec \in S /\ Tail(todo) \in Seq(S)
    BY <1>2
  <2>3. Entry(spec) \in EntryType(S, P)
    BY <2>2 DEF Entry, EntryType, NodeStatuses, Settled, Unsettled, Runs
  <2>4. EntryInv(Entry(spec))
    BY DEF Entry, EntryInv
  <2> HIDE DEF spec
  <2>5. /\ nodes' \in Seq(EntryType(S, P))
        /\ Len(nodes') = Len(ns) + 1
        /\ \A i \in DOMAIN ns : nodes'[i] = ns[i]
        /\ nodes'[Len(ns) + 1] = Entry(spec)
    BY <2>1, <2>3
  <2>6. DOMAIN nodes' = DOMAIN ns \cup {Len(ns) + 1}
    BY <2>5
  <2>7. NodesInv(nodes')
    BY <2>4, <2>5, <2>6 DEF NodesInv
  <2>8. item \in ListType(S) /\ item.at \in DOMAIN nodes'
    BY <2>2, <2>6 DEF ListType
  <2> QED BY <2>1, <2>5, <2>6, <2>7, <2>8 DEF ListsTyped
<1> QED BY <1>1, <1>2

(* What a dispatch adds to a launch list. *)
LEMMA OrderIsTyped ==
  ASSUME NEW W, NEW S, NEW P, NEW K, HooksTyped(W, S, P, K), NEW state \in W,
         NEW ns \in Seq(EntryType(S, P)), NEW rest \in Seq(S)
  PROVE  Order(state, ns) \o rest \in Seq(S)
<1>1. \A i \in DOMAIN ns : ns[i].spec \in S
  <2>1. \A i \in DOMAIN ns : ns[i] \in EntryType(S, P)
    OBVIOUS
  <2> QED BY <2>1 DEF EntryType
<1>2. RunningSpecs(ns) \in SUBSET S
  BY <1>1 DEF RunningSpecs, Running
<1>3. Order(state, ns) \in Seq(S)
  BY <1>2 DEF Order, HooksTyped
<1> QED BY <1>3

(* A dispatch, as far as it touches the entries. *)
LEMMA ProceedAppends ==
  ASSUME NEW W, NEW S, NEW P, NEW K, HooksTyped(W, S, P, K), NEW x \in Executors, NEW state \in W,
         NEW ns \in Seq(EntryType(S, P)), NEW rest \in Seq(S),
         Proceed(x, state, ns, rest),
         lists \in [Executors -> ListType(S)],
         \A y \in Executors \ {x} : lists[y] # Idle => lists[y].at \in DOMAIN ns,
         NodesInv(ns)
  PROVE  /\ wf' \in W
         /\ ListsTyped(S, P)'
         /\ DOMAIN ns \subseteq DOMAIN nodes'
         /\ \A i \in DOMAIN ns : nodes'[i] = ns[i]
         /\ NodesInv(nodes')
<1> DEFINE todo == Order(state, ns) \o rest
<1>1. todo \in Seq(S)
  BY OrderIsTyped
<1>2. Claim(x, ns, todo)
  BY DEF Proceed
<1>3. wf' \in W
  BY DEF Proceed, HooksTyped
<1> HIDE DEF todo
<1>4. /\ ListsTyped(S, P)'
      /\ DOMAIN ns \subseteq DOMAIN nodes'
      /\ \A i \in DOMAIN ns : nodes'[i] = ns[i]
      /\ NodesInv(nodes')
  BY <1>1, <1>2, ClaimAppends
<1> QED BY <1>3, <1>4

(* What an entry is after its settlement has been counted. *)
LEMMA CountedEntry ==
  ASSUME NEW S, NEW P, NEW entry \in EntryType(S, P),
         NEW settlement, settlement.status \in Settled
  PROVE  /\ Counted(entry, settlement) \in EntryType(S, P)
         /\ Counted(entry, settlement).status = settlement.status
         /\ Counted(entry, settlement).run = entry.run
         /\ Counted(entry, settlement).spec = entry.spec
         /\ Counted(entry, settlement).counted = entry.counted + 1
<1> DEFINE new == Counted(entry, settlement)
           status == settlement.status
<1>1. new = [entry EXCEPT !.status = status, !.counted = @ + 1]
  BY DEF Counted
<1>2. status \in NodeStatuses
  BY DEF NodeStatuses
<1> HIDE DEF new, status
<1>3. new = [spec |-> entry.spec, status |-> status, launched |-> entry.launched,
             run |-> entry.run, tries |-> entry.tries, said |-> entry.said,
             counted |-> entry.counted + 1]
  BY <1>1 DEF EntryType
<1>4. entry.counted + 1 \in Nat
  BY DEF EntryType
<1>5. /\ new \in EntryType(S, P)
      /\ new.status = status
      /\ new.run = entry.run
      /\ new.spec = entry.spec
      /\ new.counted = entry.counted + 1
  BY <1>2, <1>3, <1>4 DEF EntryType
<1> QED BY <1>5 DEF new, status

(* Counting a running entry's settlement keeps what entries say. *)
LEMMA CountKeeps ==
  ASSUME NEW S, NEW P, nodes \in Seq(EntryType(S, P)), NodesInv(nodes),
         NEW i \in DOMAIN nodes, nodes[i].status = "running",
         NEW settlement, settlement.status \in Settled
  PROVE  /\ Count(i, settlement) \in Seq(EntryType(S, P))
         /\ DOMAIN Count(i, settlement) = DOMAIN nodes
         /\ NodesInv(Count(i, settlement))
         /\ Count(i, settlement)[i].status = settlement.status
         /\ Count(i, settlement)[i].run = nodes[i].run
         /\ \A j \in DOMAIN nodes \ {i} : Count(i, settlement)[j] = nodes[j]
<1> DEFINE new == Counted(nodes[i], settlement)
<1>1. nodes[i] \in EntryType(S, P)
  OBVIOUS
<1>2. /\ new \in EntryType(S, P)
      /\ new.status = settlement.status
      /\ new.run = nodes[i].run
      /\ new.spec = nodes[i].spec
      /\ new.counted = nodes[i].counted + 1
  BY <1>1, CountedEntry
<1>3. Count(i, settlement) = [nodes EXCEPT ![i] = new]
  BY DEF Count
<1> HIDE DEF new
<1>4. EntryInv(nodes[i])
  BY DEF NodesInv
<1>5. EntryInv(new)
  <2>1. nodes[i].counted = 0 /\ new.counted = 1
    BY <1>2, <1>4 DEF EntryInv
  <2>2. nodes[i].run \notin {"accepted", "completed"}
    BY <1>4 DEF EntryInv
  <2>3. ~(nodes[i].run = "reporting" /\ KindOf(nodes[i].spec) = "agent")
    BY <1>4 DEF EntryInv
  <2>4. new.status # "running"
    BY <1>2 DEF Settled
  <2> QED BY <1>2, <2>1, <2>2, <2>3, <2>4 DEF EntryInv
<1>6. /\ Count(i, settlement) \in Seq(EntryType(S, P))
      /\ DOMAIN Count(i, settlement) = DOMAIN nodes
      /\ Count(i, settlement)[i] = new
      /\ \A j \in DOMAIN nodes \ {i} : Count(i, settlement)[j] = nodes[j]
  BY <1>2, <1>3
<1>7. NodesInv(Count(i, settlement))
  BY <1>5, <1>6 DEF NodesInv
<1> QED BY <1>2, <1>6, <1>7

(* The entries "ns" are the present ones with the i-th settled. *)
Settles(S, P, i, status, ns) ==
  /\ ns \in Seq(EntryType(S, P))
  /\ DOMAIN ns = DOMAIN nodes
  /\ NodesInv(ns)
  /\ ns[i].status = status
  /\ \A j \in DOMAIN nodes \ {i} : ns[j] = nodes[j]

(* A settlement of a running entry, applied and dispatched upon. *)
LEMMA ApplyKeeps ==
  ASSUME NEW W, NEW S, NEW P, NEW K, HooksTyped(W, S, P, K), Good(W, S, P), Linked(K), NEW x \in Executors,
         NEW i \in DOMAIN nodes, nodes[i].status = "running",
         NEW settlement \in Settlements(P), NEW rest \in Seq(S),
         MayEnd(nodes[i].spec, settlement), Validates(wf, nodes[i].spec, settlement),
         NEW ns, Settles(S, P, i, settlement.status, ns),
         ApplySettlement(x, i, settlement, ns, rest)
  PROVE  /\ wf' \in W
         /\ ListsTyped(S, P)'
         /\ NodesInv(nodes')
         /\ DOMAIN nodes \subseteq DOMAIN nodes'
         /\ nodes'[i].status = settlement.status
         /\ \A j \in DOMAIN nodes \ {i} : nodes'[j] = nodes[j]
<1> DEFINE state == Applied(wf, nodes[i].spec, settlement, RunningSpecs(ns))
<1>1. nodes[i].spec \in S
  <2>1. nodes[i] \in EntryType(S, P)
    BY DEF Good, Typed, ListsTyped
  <2> QED BY <2>1 DEF EntryType
<1>0. /\ ns \in Seq(EntryType(S, P))
      /\ DOMAIN ns = DOMAIN nodes
      /\ NodesInv(ns)
      /\ ns[i].status = settlement.status
      /\ \A j \in DOMAIN nodes \ {i} : ns[j] = nodes[j]
  BY DEF Settles
<1>2. RunningSpecs(ns) \in SUBSET S
  <2>1. \A j \in DOMAIN ns : ns[j] \in EntryType(S, P)
    BY <1>0
  <2> QED BY <2>1 DEF RunningSpecs, Running, EntryType
<1>3. state \in W
  <2>1. <<wf, nodes[i].spec>> \in K
    BY DEF Linked, EntriesLinked
  <2> QED BY <1>1, <1>2, <2>1 DEF HooksTyped, Good, Typed
<1>4. Proceed(x, state, ns, rest)
  BY DEF ApplySettlement
<1> HIDE DEF state
<1>5. /\ lists \in [Executors -> ListType(S)]
      /\ \A y \in Executors \ {x} : lists[y] # Idle => lists[y].at \in DOMAIN ns
  BY <1>0 DEF Good, Typed, ListsTyped
<1>6. /\ wf' \in W
      /\ ListsTyped(S, P)'
      /\ DOMAIN ns \subseteq DOMAIN nodes'
      /\ \A j \in DOMAIN ns : nodes'[j] = ns[j]
      /\ NodesInv(nodes')
  BY <1>0, <1>3, <1>4, <1>5, ProceedAppends
<1> QED BY <1>0, <1>6

(* The same from the count, which is what both kinds of completion do. *)
CountedInto(W, S, P, i, status) ==
  /\ wf' \in W
  /\ ListsTyped(S, P)'
  /\ NodesInv(nodes')
  /\ DOMAIN nodes \subseteq DOMAIN nodes'
  /\ nodes'[i].status = status

LEMMA CountApplies ==
  ASSUME NEW W, NEW S, NEW P, NEW K, HooksTyped(W, S, P, K), Good(W, S, P), Linked(K), NEW x \in Executors,
         NEW i \in DOMAIN nodes, nodes[i].status = "running",
         NEW settlement \in Settlements(P), NEW rest \in Seq(S),
         MayEnd(nodes[i].spec, settlement), Validates(wf, nodes[i].spec, settlement),
         ApplySettlement(x, i, settlement, Count(i, settlement), rest)
  PROVE  CountedInto(W, S, P, i, settlement.status)
<1> DEFINE ns == Count(i, settlement)
<1>1. nodes \in Seq(EntryType(S, P)) /\ NodesInv(nodes)
  BY DEF Good, Typed, ListsTyped, WorkflowInv
<1>2. settlement.status \in Settled
  BY DEF Settlements
<1>3. Settles(S, P, i, settlement.status, ns)
  BY <1>1, <1>2, CountKeeps DEF Settles
<1> HIDE DEF ns
<1>4. ApplySettlement(x, i, settlement, ns, rest)
  BY DEF ns
<1> QED BY <1>3, <1>4, ApplyKeeps DEF CountedInto

(* Entries that keep their status, or fail from running, keep what is true  *)
(* of the executing operation.                                              *)
Steady ==
  /\ DOMAIN nodes \subseteq DOMAIN nodes'
  /\ \A i \in DOMAIN nodes :
       \/ nodes'[i].status = nodes[i].status
       \/ nodes[i].status = "running" /\ nodes'[i].status = "failed"

LEMMA OperationKept ==
  ASSUME OperationInv, UNCHANGED op, Steady
  PROVE  OperationInv'
BY DEF OperationInv, Steady

QueueGood(P) ==
  /\ queue \in Seq(OperationType(P))
  /\ \A k \in DOMAIN queue : queue[k].kind = "submit" => queue[k].what \in P
  /\ \A k \in DOMAIN queue : WaitingInv(queue[k])

LEMMA QueueKept ==
  ASSUME NEW P, QueueGood(P), DOMAIN nodes \subseteq DOMAIN nodes', UNCHANGED queue
  PROVE  QueueGood(P)'
BY DEF QueueGood, WaitingInv

LEMMA QueueTaken ==
  ASSUME NEW P, QueueGood(P), DOMAIN nodes \subseteq DOMAIN nodes',
         queue # <<>>, queue' = Tail(queue)
  PROVE  QueueGood(P)'
<1>1. queue \in Seq(OperationType(P))
  BY DEF QueueGood
<1>2. queue' \in Seq(OperationType(P))
  BY <1>1
<1>3. \A k \in DOMAIN queue' : k + 1 \in DOMAIN queue /\ queue'[k] = queue[k + 1]
  BY <1>1
<1> QED BY <1>2, <1>3 DEF QueueGood, WaitingInv

LEMMA QueueGrown ==
  ASSUME NEW P, QueueGood(P), DOMAIN nodes \subseteq DOMAIN nodes',
         NEW operation \in OperationType(P), queue' = Append(queue, operation),
         operation.kind = "submit" => operation.what \in P,
         WaitingInv(operation)
  PROVE  QueueGood(P)'
<1>1. queue \in Seq(OperationType(P))
  BY DEF QueueGood
<1>2. queue' \in Seq(OperationType(P))
  BY <1>1
<1>3. \A k \in DOMAIN queue' :
        \/ k \in DOMAIN queue /\ queue'[k] = queue[k]
        \/ queue'[k] = operation
  BY <1>1
<1> QED BY <1>2, <1>3 DEF QueueGood, WaitingInv

Parts(W, S, P) ==
  /\ wf \in W
  /\ ListsTyped(S, P)
  /\ NodesInv(nodes)
  /\ QueueGood(P)
  /\ op \in ExecutingType
  /\ OperationInv

LEMMA GoodParts ==
  ASSUME NEW W, NEW S, NEW P
  PROVE  /\ Good(W, S, P) <=> Parts(W, S, P)
         /\ Good(W, S, P)' <=> Parts(W, S, P)'
BY DEF Good, Typed, WorkflowInv, QueueGood, Parts

(* Replacing an entry by one that is as good. *)
LEMMA Replaced ==
  ASSUME NEW S, NEW P, NEW before \in Seq(EntryType(S, P)), NodesInv(before),
         NEW i \in DOMAIN before, NEW entry \in EntryType(S, P), EntryInv(entry),
         NEW after, after = [before EXCEPT ![i] = entry]
  PROVE  /\ after \in Seq(EntryType(S, P))
         /\ DOMAIN after = DOMAIN before
         /\ NodesInv(after)
         /\ after[i] = entry
         /\ \A j \in DOMAIN before \ {i} : after[j] = before[j]
<1>1. /\ after \in Seq(EntryType(S, P))
      /\ DOMAIN after = DOMAIN before
      /\ after[i] = entry
      /\ \A j \in DOMAIN before \ {i} : after[j] = before[j]
  OBVIOUS
<1> QED BY <1>1 DEF NodesInv

(* What an entry is after its node run has moved on. *)
LEMMA Moved ==
  ASSUME NEW S, NEW P, NEW entry \in EntryType(S, P), NEW run \in Runs,
         NEW moved, moved = [entry EXCEPT !.run = run]
  PROVE  /\ moved \in EntryType(S, P)
         /\ moved.run = run
         /\ moved.status = entry.status
         /\ moved.spec = entry.spec
         /\ moved.counted = entry.counted
<1>1. moved = [spec |-> entry.spec, status |-> entry.status, launched |-> entry.launched,
               run |-> run, tries |-> entry.tries, said |-> entry.said,
               counted |-> entry.counted]
  BY DEF EntryType
<1> QED BY <1>1 DEF EntryType

(* What an entry is after its handle has been kept. *)
LEMMA Kept ==
  ASSUME NEW S, NEW P, NEW entry \in EntryType(S, P),
         NEW kept, kept = [entry EXCEPT !.launched = TRUE]
  PROVE  /\ kept \in EntryType(S, P)
         /\ kept.run = entry.run
         /\ kept.status = entry.status
         /\ kept.spec = entry.spec
         /\ kept.counted = entry.counted
<1>1. kept = [spec |-> entry.spec, status |-> entry.status, launched |-> TRUE,
              run |-> entry.run, tries |-> entry.tries, said |-> entry.said,
              counted |-> entry.counted]
  BY DEF EntryType
<1> QED BY <1>1 DEF EntryType

-----------------------------------------------------------------------------
LEMMA StartStep ==
  ASSUME NEW W, NEW S, NEW P, NEW K, HooksTyped(W, S, P, K), Good(W, S, P), Start
  PROVE  Good(W, S, P)'
<1>1. Parts(W, S, P)
  BY GoodParts
<1>2. /\ Proceed("start", wf, nodes, <<>>)
      /\ UNCHANGED <<queue, op>>
  BY DEF Start
<1>3. /\ "start" \in Executors
      /\ nodes \in Seq(EntryType(S, P))
      /\ <<>> \in Seq(S)
      /\ lists \in [Executors -> ListType(S)]
      /\ \A y \in Executors \ {"start"} : lists[y] # Idle => lists[y].at \in DOMAIN nodes
      /\ NodesInv(nodes)
      /\ wf \in W
  BY <1>1 DEF Parts, ListsTyped, Executors
<1>4. /\ wf' \in W
      /\ ListsTyped(S, P)'
      /\ DOMAIN nodes \subseteq DOMAIN nodes'
      /\ \A i \in DOMAIN nodes : nodes'[i] = nodes[i]
      /\ NodesInv(nodes')
  BY <1>2, <1>3, ProceedAppends
<1>5. Steady
  BY <1>4 DEF Steady
<1>6. OperationInv'
  BY <1>1, <1>2, <1>5, OperationKept DEF Parts
<1>7. QueueGood(P)'
  BY <1>1, <1>2, <1>4, QueueKept DEF Parts
<1>8. Parts(W, S, P)'
  BY <1>1, <1>2, <1>4, <1>6, <1>7 DEF Parts
<1> QED BY <1>8, GoodParts

LEMMA LaunchReturnsStep ==
  ASSUME NEW W, NEW S, NEW P, Good(W, S, P),
         NEW x \in Executors, LaunchReturns(x)
  PROVE  Good(W, S, P)'
<1> DEFINE i == lists[x].at
           entry == [nodes[i] EXCEPT !.launched = TRUE]
           ns == [nodes EXCEPT ![i].launched = TRUE]
           todo == lists[x].todo
<1>1. Parts(W, S, P)
  BY GoodParts
<1>2. /\ lists[x] # Idle
      /\ Claim(x, ns, todo)
      /\ UNCHANGED <<wf, queue, op>>
  BY DEF LaunchReturns
<1>3. /\ i \in DOMAIN nodes
      /\ nodes \in Seq(EntryType(S, P))
      /\ lists \in [Executors -> ListType(S)]
      /\ \A y \in Executors : lists[y] # Idle => lists[y].at \in DOMAIN nodes
      /\ NodesInv(nodes)
  BY <1>1, <1>2 DEF Parts, ListsTyped
<1>4. todo \in Seq(S)
  BY <1>3 DEF ListType
<1>5. nodes[i] \in EntryType(S, P) /\ EntryInv(nodes[i])
  BY <1>3 DEF NodesInv
<1> HIDE DEF i
<1>6. entry = [nodes[i] EXCEPT !.launched = TRUE]
  OBVIOUS
<1>7. ns = [nodes EXCEPT ![i] = entry]
  OBVIOUS
<1> HIDE DEF entry, ns, todo
<1>8. /\ entry \in EntryType(S, P)
      /\ entry.run = nodes[i].run
      /\ entry.status = nodes[i].status
      /\ entry.spec = nodes[i].spec
      /\ entry.counted = nodes[i].counted
  BY <1>5, <1>6, Kept
<1>9. EntryInv(entry)
  BY <1>5, <1>8 DEF EntryInv
<1>10. /\ ns \in Seq(EntryType(S, P))
       /\ DOMAIN ns = DOMAIN nodes
       /\ NodesInv(ns)
       /\ ns[i] = entry
       /\ \A j \in DOMAIN nodes \ {i} : ns[j] = nodes[j]
  BY <1>3, <1>7, <1>8, <1>9, Replaced
<1>11. /\ ListsTyped(S, P)'
       /\ DOMAIN ns \subseteq DOMAIN nodes'
       /\ \A j \in DOMAIN ns : nodes'[j] = ns[j]
       /\ NodesInv(nodes')
  BY <1>2, <1>3, <1>4, <1>10, ClaimAppends
<1>12. Steady
  BY <1>8, <1>10, <1>11 DEF Steady
<1>13. OperationInv'
  BY <1>1, <1>2, <1>12, OperationKept DEF Parts
<1>14. QueueGood(P)'
  BY <1>1, <1>2, <1>12, QueueKept DEF Parts, Steady
<1>15. Parts(W, S, P)'
  BY <1>1, <1>2, <1>11, <1>13, <1>14 DEF Parts
<1> QED BY <1>15, GoodParts

LEMMA TakeSubmissionStep ==
  ASSUME NEW W, NEW S, NEW P, NEW K, HooksTyped(W, S, P, K), Good(W, S, P), Linked(K), TakeSubmission
  PROVE  Good(W, S, P)'
<1> DEFINE i == Head(queue).node
           settlement == Completed(Head(queue).what)
<1>1. Parts(W, S, P)
  BY GoodParts
<1>2. /\ queue # <<>>
      /\ Head(queue).kind = "submit"
      /\ queue' = Tail(queue)
  BY DEF TakeSubmission, Take
<1>3. /\ queue \in Seq(OperationType(P))
      /\ Head(queue) = queue[1]
      /\ 1 \in DOMAIN queue
  BY <1>1, <1>2 DEF Parts, QueueGood
<1>4. i \in DOMAIN nodes /\ Head(queue).what \in P
  BY <1>1, <1>2, <1>3 DEF Parts, QueueGood, WaitingInv
<1>5. settlement \in Settlements(P) /\ settlement.status = "completed"
  BY <1>4 DEF Completed, Settlements, Settled
<1>6. i \in Nat
  BY <1>1, <1>4 DEF Parts, ListsTyped
<1>7. CASE StillRunning(i) /\ Validates(wf, nodes[i].spec, settlement)
  <2>1. /\ ApplySettlement("queue", i, settlement, Count(i, settlement), <<>>)
        /\ op' = [kind |-> "submit", node |-> i, verdict |-> "accept", running |-> {}]
    BY <1>2, <1>7 DEF TakeSubmission, Begun
  <2>2. nodes[i].status = "running"
    BY <1>7 DEF StillRunning
  <2>0. MayEnd(nodes[i].spec, settlement) /\ Validates(wf, nodes[i].spec, settlement)
    <3>1. Head(queue).what \in Payloads(nodes[i].spec)
      BY <1>2, <1>3 DEF Linked, QueueLinked
    <3> QED BY <1>7, <3>1 DEF MayEnd, Completed
  <2> HIDE DEF i, settlement
  <2> DEFINE x == "queue"
             rest == <<>>
  <2>3. x \in Executors /\ rest \in Seq(S)
    BY DEF Executors
  <2>4. ApplySettlement(x, i, settlement, Count(i, settlement), rest)
    BY <2>1
  <2> HIDE DEF x, rest
  <2>5. CountedInto(W, S, P, i, settlement.status)
    BY <1>4, <1>5, <2>0, <2>2, <2>3, <2>4, CountApplies
  <2>8. /\ wf' \in W
        /\ ListsTyped(S, P)'
        /\ NodesInv(nodes')
        /\ DOMAIN nodes \subseteq DOMAIN nodes'
        /\ nodes'[i].status = settlement.status
    BY <2>5 DEF CountedInto
  <2>9. OperationInv'
    BY <1>4, <1>5, <2>1, <2>8 DEF OperationInv
  <2>10. QueueGood(P)'
    BY <1>1, <1>2, <2>8, QueueTaken DEF Parts
  <2>11. op' \in ExecutingType
    BY <1>6, <2>1 DEF ExecutingType, Kinds, Answers
  <2> QED BY <2>8, <2>9, <2>10, <2>11, GoodParts DEF Parts
<1>8. CASE ~(StillRunning(i) /\ Validates(wf, nodes[i].spec, settlement))
  <2> DEFINE verdict == IF StillRunning(i) THEN "reject" ELSE "finished"
  <2>1. /\ op' = [kind |-> "submit", node |-> i, verdict |-> verdict, running |-> {}]
        /\ UNCHANGED <<wf, nodes, lists>>
    BY <1>2, <1>8 DEF TakeSubmission, Begun
  <2>2. verdict \in {"reject", "finished"}
    OBVIOUS
  <2> HIDE DEF i, settlement, verdict
  <2>3. OperationInv'
    BY <1>4, <2>1, <2>2 DEF OperationInv
  <2>4. QueueGood(P)'
    BY <1>1, <1>2, <2>1, QueueTaken DEF Parts
  <2>5. op' \in ExecutingType
    BY <1>6, <2>1, <2>2 DEF ExecutingType, Kinds, Answers
  <2>6. wf' \in W /\ ListsTyped(S, P)' /\ NodesInv(nodes')
    BY <1>1, <2>1 DEF Parts, ListsTyped
  <2> QED BY <2>3, <2>4, <2>5, <2>6, GoodParts DEF Parts
<1> QED BY <1>7, <1>8

LEMMA TakeSettlementStep ==
  ASSUME NEW W, NEW S, NEW P, NEW K, HooksTyped(W, S, P, K), Good(W, S, P), Linked(K), TakeSettlement
  PROVE  Good(W, S, P)'
<1> DEFINE i == Head(queue).node
           settlement == Unfinished(Head(queue).what)
<1>1. Parts(W, S, P)
  BY GoodParts
<1>2. /\ queue # <<>>
      /\ Head(queue).kind = "settle"
      /\ queue' = Tail(queue)
  BY DEF TakeSettlement, Take
<1>3. /\ queue \in Seq(OperationType(P))
      /\ Head(queue) = queue[1]
      /\ 1 \in DOMAIN queue
  BY <1>1, <1>2 DEF Parts, QueueGood
<1>4. i \in DOMAIN nodes /\ Head(queue).what \in {"rejected", "failed", "cancelled"}
  BY <1>1, <1>2, <1>3 DEF Parts, QueueGood, WaitingInv
<1>5. settlement \in Settlements(P)
  BY <1>4 DEF Unfinished, Settlements, Settled
<1>6. i \in Nat
  BY <1>1, <1>4 DEF Parts, ListsTyped
<1>7. CASE StillRunning(i) /\ Validates(wf, nodes[i].spec, settlement)
  <2>1. /\ ApplySettlement("queue", i, settlement, Count(i, settlement), <<>>)
        /\ op' = [kind |-> "settle", node |-> i, verdict |-> "settled", running |-> {}]
    BY <1>2, <1>7 DEF TakeSettlement, Begun
  <2>2. nodes[i].status = "running"
    BY <1>7 DEF StillRunning
  <2>0. MayEnd(nodes[i].spec, settlement) /\ Validates(wf, nodes[i].spec, settlement)
    BY <1>4, <1>7 DEF MayEnd, Unfinished
  <2> HIDE DEF i, settlement
  <2> DEFINE x == "queue"
             rest == <<>>
  <2>3. x \in Executors /\ rest \in Seq(S)
    BY DEF Executors
  <2>4. ApplySettlement(x, i, settlement, Count(i, settlement), rest)
    BY <2>1
  <2> HIDE DEF x, rest
  <2>5. CountedInto(W, S, P, i, settlement.status)
    BY <1>4, <1>5, <2>0, <2>2, <2>3, <2>4, CountApplies
  <2>6. /\ wf' \in W
        /\ ListsTyped(S, P)'
        /\ NodesInv(nodes')
        /\ DOMAIN nodes \subseteq DOMAIN nodes'
    BY <2>5 DEF CountedInto
  <2>7. OperationInv'
    BY <2>1 DEF OperationInv
  <2>8. QueueGood(P)'
    BY <1>1, <1>2, <2>6, QueueTaken DEF Parts
  <2>9. op' \in ExecutingType
    BY <1>6, <2>1 DEF ExecutingType, Kinds, Answers
  <2> QED BY <2>6, <2>7, <2>8, <2>9, GoodParts DEF Parts
<1>8. CASE ~(StillRunning(i) /\ Validates(wf, nodes[i].spec, settlement))
  <2>1. /\ op' = [kind |-> "settle", node |-> i, verdict |-> "threw", running |-> {}]
        /\ UNCHANGED <<wf, nodes, lists>>
    BY <1>2, <1>8 DEF TakeSettlement, Begun
  <2> HIDE DEF i, settlement
  <2>2. OperationInv'
    BY <2>1 DEF OperationInv
  <2>3. QueueGood(P)'
    BY <1>1, <1>2, <2>1, QueueTaken DEF Parts
  <2>4. op' \in ExecutingType
    BY <1>6, <2>1 DEF ExecutingType, Kinds, Answers
  <2>5. wf' \in W /\ ListsTyped(S, P)' /\ NodesInv(nodes')
    BY <1>1, <2>1 DEF Parts, ListsTyped
  <2> QED BY <2>2, <2>3, <2>4, <2>5, GoodParts DEF Parts
<1> QED BY <1>7, <1>8

LEMMA TakeInterruptStep ==
  ASSUME NEW W, NEW S, NEW P, Good(W, S, P), TakeInterrupt
  PROVE  Good(W, S, P)'
<1>1. Parts(W, S, P)
  BY GoodParts
<1>2. /\ queue # <<>>
      /\ Head(queue).kind = "interrupt"
      /\ queue' = Tail(queue)
      /\ UNCHANGED <<wf, nodes, lists>>
  BY DEF TakeInterrupt, Take
<1>3. Head(queue).node \in Nat
  <2>1. Head(queue) \in OperationType(P)
    BY <1>1, <1>2 DEF Parts, QueueGood
  <2> QED BY <2>1 DEF OperationType
<1>4. PICK verdict \in {"void", "stopping"}, running \in {{}, Running(nodes)} :
        op' = [kind |-> "interrupt", node |-> Head(queue).node, verdict |-> verdict,
               running |-> running]
  <2>1. CASE outcome # "none"
    BY <1>2, <2>1 DEF TakeInterrupt, Begun
  <2>2. CASE outcome = "none"
    <3>1. op' = [Begun("stopping") EXCEPT !.running = Running(nodes)]
      BY <2>2 DEF TakeInterrupt
    <3>2. op' = [kind |-> "interrupt", node |-> Head(queue).node, verdict |-> "stopping",
                 running |-> Running(nodes)]
      BY <1>2, <3>1 DEF Begun
    <3> QED BY <3>2
  <2> QED BY <2>1, <2>2
<1>5. running \subseteq DOMAIN nodes /\ \A i \in running : nodes[i].status = "running"
  BY <1>4 DEF Running
<1>6. running \in SUBSET Nat
  BY <1>1, <1>5 DEF Parts, ListsTyped
<1>7. op' \in ExecutingType
  BY <1>3, <1>4, <1>6 DEF ExecutingType, Kinds, Answers
<1>8. OperationInv'
  BY <1>2, <1>4, <1>5 DEF OperationInv
<1>9. QueueGood(P)'
  BY <1>1, <1>2, QueueTaken DEF Parts
<1>10. wf' \in W /\ ListsTyped(S, P)' /\ NodesInv(nodes')
  BY <1>1, <1>2 DEF Parts, ListsTyped
<1> QED BY <1>7, <1>8, <1>9, <1>10, GoodParts DEF Parts

LEMMA HandOverStep ==
  ASSUME NEW W, NEW S, NEW P, Good(W, S, P), HandOver
  PROVE  Good(W, S, P)'
BY DEF HandOver, Good, Typed, ListsTyped, WorkflowInv, NodesInv, WaitingInv, OperationInv

LEMMA StutterStep ==
  ASSUME NEW W, NEW S, NEW P, Good(W, S, P), UNCHANGED vars
  PROVE  Good(W, S, P)'
BY DEF vars, Good, Typed, ListsTyped, WorkflowInv, NodesInv, WaitingInv, OperationInv

(* The interrupt cancels what it told to stop. *)
LEMMA FinishInterruptStep ==
  ASSUME NEW W, NEW S, NEW P, NEW K, HooksTyped(W, S, P, K), Good(W, S, P), FinishInterrupt
  PROVE  Good(W, S, P)'
<1>1. Parts(W, S, P)
  BY GoodParts
<1> DEFINE cancelled(i) == [nodes[i] EXCEPT !.status = "cancelled"]
<1>2. /\ op.verdict = "stopping"
      /\ nodes' = [i \in DOMAIN nodes |-> IF i \in op.running THEN cancelled(i) ELSE nodes[i]]
      /\ wf' = Ended(wf, "failure")
      /\ op' = [op EXCEPT !.verdict = "cancelled"]
      /\ UNCHANGED <<lists, queue>>
  BY DEF FinishInterrupt
<1>3. \A i \in DOMAIN nodes : nodes[i] \in EntryType(S, P) /\ EntryInv(nodes[i])
  BY <1>1 DEF Parts, ListsTyped, NodesInv
<1>4. \A i \in op.running : i \in DOMAIN nodes /\ nodes[i].status \in {"running", "failed"}
  BY <1>1, <1>2 DEF Parts, OperationInv
<1>5. ASSUME NEW i \in op.running
      PROVE  cancelled(i) \in EntryType(S, P) /\ EntryInv(cancelled(i))
  <2> DEFINE new == cancelled(i)
  <2>1. new = [spec |-> nodes[i].spec, status |-> "cancelled", launched |-> nodes[i].launched,
               run |-> nodes[i].run, tries |-> nodes[i].tries, said |-> nodes[i].said,
               counted |-> nodes[i].counted]
    BY <1>3, <1>4 DEF EntryType
  <2>2. nodes[i] \in EntryType(S, P) /\ EntryInv(nodes[i])
    BY <1>3, <1>4
  <2> HIDE DEF new
  <2>3. /\ new \in EntryType(S, P)
        /\ new.status = "cancelled"
        /\ new.run = nodes[i].run
        /\ new.spec = nodes[i].spec
        /\ new.counted = nodes[i].counted
    BY <2>1, <2>2 DEF EntryType, NodeStatuses, Settled
  <2>4. nodes[i].status \in {"running", "failed"}
    BY <1>4
  <2>5. EntryInv(new)
    BY <2>2, <2>3, <2>4 DEF EntryInv
  <2> QED BY <2>3, <2>5 DEF new
<1> HIDE DEF cancelled
<1>6. \A i \in DOMAIN nodes : nodes'[i] \in EntryType(S, P) /\ EntryInv(nodes'[i])
  BY <1>2, <1>3, <1>5
<1>7. nodes' \in Seq(EntryType(S, P)) /\ DOMAIN nodes' = DOMAIN nodes
  <2>1. nodes \in Seq(EntryType(S, P))
    BY <1>1 DEF Parts, ListsTyped
  <2>2. DOMAIN nodes = 1..Len(nodes) /\ Len(nodes) \in Nat
    BY <2>1
  <2>3. nodes' \in [1..Len(nodes) -> EntryType(S, P)]
    BY <1>2, <1>6, <2>2
  <2> QED BY <2>2, <2>3
<1>8. NodesInv(nodes')
  BY <1>6, <1>7 DEF NodesInv
<1>9. ListsTyped(S, P)'
  BY <1>1, <1>2, <1>7 DEF Parts, ListsTyped
<1>10. wf' \in W
  BY <1>1, <1>2 DEF Parts, HooksTyped
<1>11. op' \in ExecutingType /\ op'.verdict = "cancelled" /\ op'.kind = op.kind /\ op'.node = op.node
  BY <1>1, <1>2 DEF Parts, ExecutingType, Answers
<1>12. OperationInv'
  BY <1>1, <1>7, <1>11 DEF Parts, OperationInv
<1>13. QueueGood(P)'
  BY <1>1, <1>2, <1>7, QueueKept DEF Parts
<1> QED BY <1>8, <1>9, <1>10, <1>11, <1>12, <1>13, GoodParts DEF Parts

(* A launch that rejected. *)
LEMMA LaunchFailsStep ==
  ASSUME NEW W, NEW S, NEW P, NEW K, HooksTyped(W, S, P, K), Good(W, S, P), Linked(K),
         NEW x \in Executors, LaunchFails(x)
  PROVE  Good(W, S, P)'
<1> DEFINE i == lists[x].at
           failed == Unfinished("failed")
           rest == lists[x].todo
<1>1. Parts(W, S, P)
  BY GoodParts
<1>2. lists[x] # Idle /\ UNCHANGED queue
  BY DEF LaunchFails
<1>3. /\ i \in DOMAIN nodes
      /\ nodes \in Seq(EntryType(S, P))
      /\ NodesInv(nodes)
      /\ lists \in [Executors -> ListType(S)]
      /\ \A y \in Executors : lists[y] # Idle => lists[y].at \in DOMAIN nodes
  BY <1>1, <1>2 DEF Parts, ListsTyped
<1>4. rest \in Seq(S)
  BY <1>3 DEF ListType
<1>5. /\ failed \in Settlements(P) /\ failed.status = "failed" /\ failed.status \in Settled
      /\ MayEnd(nodes[i].spec, failed)
  BY DEF Unfinished, Settlements, Settled, MayEnd
<1>6. nodes[i] \in EntryType(S, P) /\ EntryInv(nodes[i])
  BY <1>3 DEF NodesInv
<1>7. PICK run \in {nodes[i].run, "absent"} :
        IF StillRunning(i) /\ Validates(wf, nodes[i].spec, failed)
        THEN /\ ApplySettlement(x, i, failed, [Count(i, failed) EXCEPT ![i].run = run], rest)
             /\ UNCHANGED op
        ELSE /\ nodes' = [nodes EXCEPT ![i].run = run]
             /\ Throw(x)
             /\ UNCHANGED wf
  BY DEF LaunchFails, StillRunning
<1>8. run \in Runs
  BY <1>6, <1>7 DEF EntryType, Runs
<1> HIDE DEF i, failed, rest
<1>9. CASE StillRunning(i) /\ Validates(wf, nodes[i].spec, failed)
  <2> DEFINE counted == Count(i, failed)
             entry == [counted[i] EXCEPT !.run = run]
             ns == [counted EXCEPT ![i].run = run]
  <2>1. nodes[i].status = "running"
    BY <1>9 DEF StillRunning
  <2>2. Settles(S, P, i, "failed", counted) /\ counted[i].run = nodes[i].run
    BY <1>3, <1>5, <2>1, CountKeeps DEF Settles
  <2>3. ApplySettlement(x, i, failed, ns, rest) /\ UNCHANGED op
    BY <1>7, <1>9
  <2>4. entry = [counted[i] EXCEPT !.run = run] /\ ns = [counted EXCEPT ![i] = entry]
    OBVIOUS
  <2> HIDE DEF counted, entry, ns
  <2>5. /\ counted \in Seq(EntryType(S, P))
        /\ DOMAIN counted = DOMAIN nodes
        /\ NodesInv(counted)
        /\ counted[i].status = "failed"
        /\ \A j \in DOMAIN nodes \ {i} : counted[j] = nodes[j]
    BY <2>2 DEF Settles
  <2>6. counted[i] \in EntryType(S, P) /\ EntryInv(counted[i])
    BY <1>3, <2>5 DEF NodesInv
  <2>7. /\ entry \in EntryType(S, P)
        /\ entry.run = run
        /\ entry.status = counted[i].status
        /\ entry.spec = counted[i].spec
        /\ entry.counted = counted[i].counted
    BY <1>8, <2>4, <2>6, Moved
  <2>8. EntryInv(entry)
    BY <1>7, <2>2, <2>6, <2>7 DEF EntryInv
  <2>9. /\ ns \in Seq(EntryType(S, P))
        /\ DOMAIN ns = DOMAIN counted
        /\ NodesInv(ns)
        /\ ns[i] = entry
        /\ \A j \in DOMAIN counted \ {i} : ns[j] = counted[j]
    BY <1>3, <2>4, <2>5, <2>7, <2>8, Replaced
  <2>10. Settles(S, P, i, failed.status, ns)
    BY <1>5, <2>5, <2>7, <2>9 DEF Settles
  <2>11. /\ wf' \in W
         /\ ListsTyped(S, P)'
         /\ NodesInv(nodes')
         /\ DOMAIN nodes \subseteq DOMAIN nodes'
         /\ nodes'[i].status = failed.status
         /\ \A j \in DOMAIN nodes \ {i} : nodes'[j] = nodes[j]
    BY <1>3, <1>4, <1>5, <1>9, <2>1, <2>3, <2>10, ApplyKeeps
  <2>12. Steady
    BY <1>5, <2>1, <2>11 DEF Steady
  <2>13. OperationInv'
    BY <1>1, <2>3, <2>12, OperationKept DEF Parts
  <2>14. QueueGood(P)'
    BY <1>1, <1>2, <2>11, QueueKept DEF Parts
  <2>15. op' \in ExecutingType
    BY <1>1, <2>3 DEF Parts
  <2> QED BY <2>11, <2>13, <2>14, <2>15, GoodParts DEF Parts
<1>10. CASE ~(StillRunning(i) /\ Validates(wf, nodes[i].spec, failed))
  <2> DEFINE entry == [nodes[i] EXCEPT !.run = run]
  <2>1. /\ nodes' = [nodes EXCEPT ![i].run = run]
        /\ Throw(x)
        /\ UNCHANGED wf
    BY <1>7, <1>10
  <2>2. entry = [nodes[i] EXCEPT !.run = run] /\ nodes' = [nodes EXCEPT ![i] = entry]
    BY <2>1
  <2> HIDE DEF entry
  <2>3. /\ entry \in EntryType(S, P)
        /\ entry.run = run
        /\ entry.status = nodes[i].status
        /\ entry.spec = nodes[i].spec
        /\ entry.counted = nodes[i].counted
    BY <1>6, <1>8, <2>2, Moved
  <2>4. EntryInv(entry)
    BY <1>6, <1>7, <2>3 DEF EntryInv
  <2>5. /\ nodes' \in Seq(EntryType(S, P))
        /\ DOMAIN nodes' = DOMAIN nodes
        /\ NodesInv(nodes')
        /\ nodes'[i] = entry
        /\ \A j \in DOMAIN nodes \ {i} : nodes'[j] = nodes[j]
    BY <1>3, <2>2, <2>3, <2>4, Replaced
  <2>6. Steady
    BY <2>3, <2>5 DEF Steady
  <2>7. lists' = [lists EXCEPT ![x] = Idle] /\ op' \in {op, [op EXCEPT !.verdict = "threw"]}
    BY <2>1 DEF Throw
  <2>8. ListsTyped(S, P)'
    <3>1. Idle \in ListType(S)
      BY DEF Idle, ListType
    <3>2. lists' \in [Executors -> ListType(S)] /\ \A y \in Executors : lists'[y] \in {lists[y], Idle}
      BY <1>3, <2>7, <3>1
    <3> QED BY <1>3, <2>5, <3>2 DEF ListsTyped
  <2>9. op' \in ExecutingType /\ OperationInv'
    <3>1. CASE op' = op
      BY <1>1, <2>6, <3>1, OperationKept DEF Parts
    <3>2. CASE op' = [op EXCEPT !.verdict = "threw"]
      <4>1. /\ op' \in ExecutingType
            /\ op'.verdict = "threw" /\ op'.kind = op.kind /\ op'.node = op.node
        BY <1>1, <3>2 DEF Parts, ExecutingType, Answers
      <4> QED BY <1>1, <2>5, <4>1 DEF Parts, OperationInv
    <3> QED BY <2>7, <3>1, <3>2
  <2>10. QueueGood(P)'
    BY <1>1, <1>2, <2>5, QueueKept DEF Parts
  <2>11. wf' \in W
    BY <1>1, <2>1 DEF Parts
  <2> QED BY <2>5, <2>8, <2>9, <2>10, <2>11, GoodParts DEF Parts
<1> QED BY <1>9, <1>10

-----------------------------------------------------------------------------
(* A step of one node run: its entry is replaced by one of the same status, *)
(* and nothing but the queue changes with it.                               *)
LEMMA NodeMoves ==
  ASSUME NEW W, NEW S, NEW P, Good(W, S, P), NEW i \in DOMAIN nodes,
         NEW entry \in EntryType(S, P), EntryInv(entry),
         entry.status = nodes[i].status,
         nodes' = [nodes EXCEPT ![i] = entry],
         UNCHANGED <<wf, lists, op>>,
         DOMAIN nodes \subseteq DOMAIN nodes' => QueueGood(P)'
  PROVE  Good(W, S, P)'
<1>1. Parts(W, S, P)
  BY GoodParts
<1>2. nodes \in Seq(EntryType(S, P)) /\ NodesInv(nodes)
  BY <1>1 DEF Parts, ListsTyped
<1>3. /\ nodes' \in Seq(EntryType(S, P))
      /\ DOMAIN nodes' = DOMAIN nodes
      /\ NodesInv(nodes')
      /\ nodes'[i] = entry
      /\ \A j \in DOMAIN nodes \ {i} : nodes'[j] = nodes[j]
  BY <1>2, Replaced
<1>4. Steady
  BY <1>3 DEF Steady
<1>5. OperationInv'
  BY <1>1, <1>4, OperationKept DEF Parts
<1>6. ListsTyped(S, P)'
  BY <1>1, <1>3 DEF Parts, ListsTyped
<1>7. wf' \in W /\ op' \in ExecutingType
  BY <1>1 DEF Parts
<1>8. QueueGood(P)'
  BY <1>3
<1> QED BY <1>3, <1>5, <1>6, <1>7, <1>8, GoodParts DEF Parts

(* What an entry is after its node run has submitted. *)
LEMMA Submitted ==
  ASSUME NEW S, NEW P, NEW entry \in EntryType(S, P), NEW run \in Runs, NEW payload \in P
  PROVE  /\ Submitting(entry, run, payload) \in EntryType(S, P)
         /\ Submitting(entry, run, payload).run = run
         /\ Submitting(entry, run, payload).status = entry.status
         /\ Submitting(entry, run, payload).spec = entry.spec
         /\ Submitting(entry, run, payload).counted = entry.counted
<1> DEFINE new == Submitting(entry, run, payload)
<1>1. new = [entry EXCEPT !.run = run, !.tries = @ + 1, !.said = {payload}]
  BY DEF Submitting
<1> HIDE DEF new
<1>2. new = [spec |-> entry.spec, status |-> entry.status, launched |-> entry.launched,
             run |-> run, tries |-> entry.tries + 1, said |-> {payload},
             counted |-> entry.counted]
  BY <1>1 DEF EntryType
<1>3. entry.tries + 1 \in Nat /\ {payload} \in SUBSET P
  BY DEF EntryType
<1>4. /\ new \in EntryType(S, P)
      /\ new.run = run
      /\ new.status = entry.status
      /\ new.spec = entry.spec
      /\ new.counted = entry.counted
  BY <1>2, <1>3 DEF EntryType
<1> QED BY <1>4 DEF new

(* What a queued operation must say. *)
LEMMA Queued ==
  ASSUME NEW S, NEW P, ListsTyped(S, P), NEW i \in DOMAIN nodes,
         NEW operation,
         \/ \E payload \in P : operation = Operation("submit", i, payload)
         \/ \E how \in {"rejected", "failed", "cancelled"} :
               operation = Operation("settle", i, how)
  PROVE  /\ operation \in OperationType(P)
         /\ operation.kind = "submit" => operation.what \in P
         /\ WaitingInv(operation)
<1>1. i \in Nat
  BY DEF ListsTyped
<1>2. ASSUME NEW payload \in P, operation = Operation("submit", i, payload)
      PROVE  /\ operation \in OperationType(P)
             /\ operation.kind = "submit" => operation.what \in P
             /\ WaitingInv(operation)
  BY <1>1, <1>2 DEF Operation, OperationType, Kinds, WaitingInv
<1>3. ASSUME NEW how \in {"rejected", "failed", "cancelled"},
             operation = Operation("settle", i, how)
      PROVE  /\ operation \in OperationType(P)
             /\ operation.kind = "submit" => operation.what \in P
             /\ WaitingInv(operation)
  BY <1>1, <1>3 DEF Operation, OperationType, Kinds, WaitingInv, Runs, Settled
<1> QED BY <1>2, <1>3

(* completion.submit() of an agent's terminal tool, or of the settle() of a *)
(* delegated workflow: from a node run that has not been accepted.          *)
LEMMA SubmitStep ==
  ASSUME NEW W, NEW S, NEW P, NEW K, HooksTyped(W, S, P, K), Good(W, S, P), NEW i \in DOMAIN nodes,
         NEW payload \in Payloads(nodes[i].spec),
         AgentSubmits(i, payload) \/ WorkflowReports(i, payload)
  PROVE  Good(W, S, P)'
<1>1. Parts(W, S, P)
  BY GoodParts
<1>2. nodes[i] \in EntryType(S, P) /\ EntryInv(nodes[i])
  BY <1>1 DEF Parts, ListsTyped, NodesInv
<1>3. payload \in P
  BY <1>2 DEF HooksTyped, EntryType
<1>4. PICK run \in {"asking", "reporting"} :
        /\ run = "reporting" => KindOf(nodes[i].spec) = "workflow"
        /\ nodes' = [nodes EXCEPT ![i] = Submitting(@, run, payload)]
        /\ Enqueue("submit", i, payload)
  BY DEF AgentSubmits, WorkflowReports
<1> DEFINE entry == Submitting(nodes[i], run, payload)
           operation == Operation("submit", i, payload)
<1>5. run \in Runs
  BY <1>4 DEF Runs, Unsettled
<1>6. nodes' = [nodes EXCEPT ![i] = entry]
  BY <1>4
<1>7. queue' = Append(queue, operation) /\ UNCHANGED <<wf, lists, op>>
  BY <1>4 DEF Enqueue
<1>8. /\ entry \in EntryType(S, P)
      /\ entry.run = run
      /\ entry.status = nodes[i].status
      /\ entry.spec = nodes[i].spec
      /\ entry.counted = nodes[i].counted
  BY <1>2, <1>3, <1>5, Submitted
<1>9. /\ operation \in OperationType(P)
      /\ operation.kind = "submit" => operation.what \in P
      /\ WaitingInv(operation)
  BY <1>1, <1>3, Queued DEF Parts
<1> HIDE DEF entry, operation
<1>10. EntryInv(entry)
  <2>1. entry.run \notin {"accepted", "completed"}
    BY <1>4, <1>8
  <2>2. ~(entry.run = "reporting" /\ KindOf(entry.spec) = "agent")
    BY <1>4, <1>8
  <2> QED BY <1>2, <1>8, <2>1, <2>2 DEF EntryInv
<1>11. DOMAIN nodes \subseteq DOMAIN nodes' => QueueGood(P)'
  BY <1>1, <1>7, <1>9, QueueGrown DEF Parts
<1> QED BY <1>6, <1>7, <1>8, <1>10, <1>11, NodeMoves

(* An agent that was accepted reports: its entry has completed. *)
LEMMA AgentReportsStep ==
  ASSUME NEW W, NEW S, NEW P, Good(W, S, P), NEW i \in DOMAIN nodes, AgentReports(i)
  PROVE  Good(W, S, P)'
<1>1. Parts(W, S, P)
  BY GoodParts
<1>2. nodes[i] \in EntryType(S, P) /\ EntryInv(nodes[i])
  BY <1>1 DEF Parts, ListsTyped, NodesInv
<1> DEFINE entry == [nodes[i] EXCEPT !.run = "reporting"]
<1>3. /\ nodes[i].run = "accepted"
      /\ nodes' = [nodes EXCEPT ![i] = entry]
  BY DEF AgentReports
<1>4. PICK payload \in nodes[i].said : Enqueue("submit", i, payload)
  BY DEF AgentReports
<1>5. payload \in P
  BY <1>2 DEF EntryType
<1> DEFINE operation == Operation("submit", i, payload)
<1>6. queue' = Append(queue, operation) /\ UNCHANGED <<wf, lists, op>>
  BY <1>4 DEF Enqueue
<1>7. /\ operation \in OperationType(P)
      /\ operation.kind = "submit" => operation.what \in P
      /\ WaitingInv(operation)
  BY <1>1, <1>5, Queued DEF Parts
<1>8. entry = [nodes[i] EXCEPT !.run = "reporting"] /\ "reporting" \in Runs
  BY DEF Runs, Unsettled
<1> HIDE DEF entry, operation
<1>9. /\ entry \in EntryType(S, P)
      /\ entry.run = "reporting"
      /\ entry.status = nodes[i].status
      /\ entry.spec = nodes[i].spec
      /\ entry.counted = nodes[i].counted
  BY <1>2, <1>8, Moved
<1>10. EntryInv(entry)
  BY <1>2, <1>3, <1>9 DEF EntryInv
<1>11. DOMAIN nodes \subseteq DOMAIN nodes' => QueueGood(P)'
  BY <1>1, <1>6, <1>7, QueueGrown DEF Parts
<1> QED BY <1>3, <1>6, <1>9, <1>10, <1>11, NodeMoves

(* A node run ends without an outcome. *)
LEMMA RunEndsStep ==
  ASSUME NEW W, NEW S, NEW P, Good(W, S, P), NEW i \in DOMAIN nodes,
         NEW how \in {"failed", "rejected", "cancelled"}, RunEnds(i, how)
  PROVE  Good(W, S, P)'
<1>1. Parts(W, S, P)
  BY GoodParts
<1>2. nodes[i] \in EntryType(S, P) /\ EntryInv(nodes[i])
  BY <1>1 DEF Parts, ListsTyped, NodesInv
<1> DEFINE entry == [nodes[i] EXCEPT !.run = how]
<1>3. nodes' = [nodes EXCEPT ![i] = entry]
  BY DEF RunEnds
<1>4. UNCHANGED <<wf, lists, op, queue>>
  BY DEF RunEnds, EnqueueNothing
<1>5. entry = [nodes[i] EXCEPT !.run = how] /\ how \in Runs
  BY DEF Runs, Settled
<1> HIDE DEF entry
<1>6. /\ entry \in EntryType(S, P)
      /\ entry.run = how
      /\ entry.status = nodes[i].status
      /\ entry.spec = nodes[i].spec
      /\ entry.counted = nodes[i].counted
  BY <1>2, <1>5, Moved
<1>7. EntryInv(entry)
  BY <1>2, <1>6 DEF EntryInv
<1>8. DOMAIN nodes \subseteq DOMAIN nodes' => QueueGood(P)'
  BY <1>1, <1>4, QueueKept DEF Parts
<1> QED BY <1>3, <1>4, <1>6, <1>7, <1>8, NodeMoves

(* Its settlement is queued. *)
LEMMA MonitorStep ==
  ASSUME NEW W, NEW S, NEW P, Good(W, S, P), NEW i \in DOMAIN nodes, Monitor(i)
  PROVE  Good(W, S, P)'
<1>1. Parts(W, S, P)
  BY GoodParts
<1>2. nodes[i] \in EntryType(S, P) /\ EntryInv(nodes[i])
  BY <1>1 DEF Parts, ListsTyped, NodesInv
<1> DEFINE entry == [nodes[i] EXCEPT !.run = "heard"]
           operation == Operation("settle", i, nodes[i].run)
<1>3. nodes' = [nodes EXCEPT ![i] = entry]
  BY DEF Monitor
<1>4. queue' = Append(queue, operation) /\ UNCHANGED <<wf, lists, op>>
  BY DEF Monitor, Enqueue
<1>5. nodes[i].run \in {"rejected", "failed", "cancelled"}
  BY DEF Monitor
<1>6. /\ operation \in OperationType(P)
      /\ operation.kind = "submit" => operation.what \in P
      /\ WaitingInv(operation)
  BY <1>1, <1>5, Queued DEF Parts
<1>7. entry = [nodes[i] EXCEPT !.run = "heard"] /\ "heard" \in Runs
  BY DEF Runs
<1> HIDE DEF entry, operation
<1>8. /\ entry \in EntryType(S, P)
      /\ entry.run = "heard"
      /\ entry.status = nodes[i].status
      /\ entry.spec = nodes[i].spec
      /\ entry.counted = nodes[i].counted
  BY <1>2, <1>7, Moved
<1>9. EntryInv(entry)
  BY <1>2, <1>8 DEF EntryInv
<1>10. DOMAIN nodes \subseteq DOMAIN nodes' => QueueGood(P)'
  BY <1>1, <1>4, <1>6, QueueGrown DEF Parts
<1> QED BY <1>3, <1>4, <1>8, <1>9, <1>10, NodeMoves

LEMMA InterruptStep ==
  ASSUME NEW W, NEW S, NEW P, Good(W, S, P), Interrupt
  PROVE  Good(W, S, P)'
<1> DEFINE operation == Operation("interrupt", 0, "none")
<1>1. Parts(W, S, P)
  BY GoodParts
<1>2. queue' = Append(queue, operation) /\ UNCHANGED <<wf, nodes, lists, op>>
  BY DEF Interrupt, Enqueue
<1>3. /\ operation \in OperationType(P)
      /\ operation.kind = "interrupt"
      /\ WaitingInv(operation)
  BY DEF Operation, OperationType, Kinds, WaitingInv
<1> HIDE DEF operation
<1>4. QueueGood(P)'
  BY <1>1, <1>2, <1>3, QueueGrown DEF Parts
<1>5. OperationInv'
  BY <1>1, <1>2 DEF Parts, OperationInv
<1>6. wf' \in W /\ ListsTyped(S, P)' /\ NodesInv(nodes') /\ op' \in ExecutingType
  BY <1>1, <1>2 DEF Parts, ListsTyped
<1> QED BY <1>4, <1>5, <1>6, GoodParts DEF Parts

(* The answer reaches the node run: accepted only if its entry completed,   *)
(* and completed on "already finished" only as an agent that was accepted.  *)
LEMMA EndOperationStep ==
  ASSUME NEW W, NEW S, NEW P, Good(W, S, P), EndOperation
  PROVE  Good(W, S, P)'
<1>1. Parts(W, S, P)
  BY GoodParts
<1>2. op' = NoOp /\ UNCHANGED <<wf, lists, queue>>
  BY DEF EndOperation
<1>3. op' \in ExecutingType /\ OperationInv'
  BY <1>2 DEF NoOp, ExecutingType, Kinds, Answers, OperationInv
<1>4. CASE op.kind # "submit"
  <2>1. UNCHANGED nodes
    BY <1>4 DEF EndOperation
  <2>2. QueueGood(P)'
    BY <1>1, <1>2, <2>1, QueueKept DEF Parts
  <2>3. wf' \in W /\ ListsTyped(S, P)' /\ NodesInv(nodes')
    BY <1>1, <1>2, <2>1 DEF Parts, ListsTyped
  <2> QED BY <1>3, <2>2, <2>3, GoodParts DEF Parts
<1>5. CASE op.kind = "submit"
  <2> DEFINE i == op.node
             kind == KindOf(nodes[i].spec)
             run == AfterAnswer(kind, nodes[i].run, op.verdict)
             entry == [nodes[i] EXCEPT !.run = run]
  <2>1. nodes' = [nodes EXCEPT ![i] = entry]
    BY <1>5 DEF EndOperation
  <2>2. i \in DOMAIN nodes /\ (op.verdict = "accept" => nodes[i].status = "completed")
    BY <1>1, <1>5 DEF Parts, OperationInv
  <2>3. nodes[i] \in EntryType(S, P) /\ EntryInv(nodes[i])
    BY <1>1, <2>2 DEF Parts, ListsTyped, NodesInv
  <2>4. nodes[i].run \in Runs
    BY <2>3 DEF EntryType
  <2> HIDE DEF i
  <2>5. run \in Runs
    BY <2>4 DEF AfterAnswer, Runs, Unsettled, Settled
  <2>6. /\ run \in {"accepted", "completed"} => nodes[i].status = "completed"
        /\ run = "reporting" /\ kind = "agent" => nodes[i].status = "completed"
    BY <2>2, <2>3 DEF AfterAnswer, EntryInv
  <2>7. entry = [nodes[i] EXCEPT !.run = run]
    OBVIOUS
  <2> HIDE DEF run, entry
  <2>8. /\ entry \in EntryType(S, P)
        /\ entry.run = run
        /\ entry.status = nodes[i].status
        /\ entry.spec = nodes[i].spec
        /\ entry.counted = nodes[i].counted
    BY <2>3, <2>5, <2>7, Moved
  <2>9. EntryInv(entry)
    BY <2>3, <2>6, <2>8 DEF EntryInv
  <2>10. /\ nodes' \in Seq(EntryType(S, P))
         /\ DOMAIN nodes' = DOMAIN nodes
         /\ NodesInv(nodes')
    <3>1. nodes \in Seq(EntryType(S, P)) /\ NodesInv(nodes)
      BY <1>1 DEF Parts, ListsTyped
    <3> QED BY <2>1, <2>2, <2>8, <2>9, <3>1, Replaced
  <2>11. ListsTyped(S, P)'
    BY <1>1, <1>2, <2>10 DEF Parts, ListsTyped
  <2>12. QueueGood(P)'
    BY <1>1, <1>2, <2>10, QueueKept DEF Parts
  <2>13. wf' \in W
    BY <1>1, <1>2 DEF Parts
  <2> QED BY <1>3, <2>10, <2>11, <2>12, <2>13, GoodParts DEF Parts
<1> QED BY <1>4, <1>5

-----------------------------------------------------------------------------
LEMMA InitGood ==
  ASSUME NEW W, NEW S, NEW P, NEW K, HooksTyped(W, S, P, K), Init
  PROVE  Good(W, S, P)
<1>1. wf \in W /\ nodes = <<>> /\ queue = <<>> /\ op = NoOp
      /\ lists = [x \in Executors |-> Idle]
  BY DEF Init, HooksTyped
<1>2. ListsTyped(S, P)
  <2>1. Idle \in ListType(S)
    BY DEF Idle, ListType
  <2> QED BY <1>1, <2>1 DEF ListsTyped
<1>3. NodesInv(nodes)
  BY <1>1 DEF NodesInv
<1>4. QueueGood(P)
  BY <1>1 DEF QueueGood
<1>5. op \in ExecutingType /\ OperationInv
  BY <1>1 DEF NoOp, ExecutingType, Kinds, Answers, OperationInv
<1> QED BY <1>1, <1>2, <1>3, <1>4, <1>5, GoodParts DEF Parts

LEMMA StepGood ==
  ASSUME NEW W, NEW S, NEW P, NEW K, HooksTyped(W, S, P, K), Good(W, S, P), Linked(K), [Next]_vars
  PROVE  Good(W, S, P)'
<1>1. CASE Start
  BY <1>1, StartStep
<1>2. CASE HandOver
  BY <1>2, HandOverStep
<1>3. ASSUME NEW x \in Executors, LaunchReturns(x)
      PROVE  Good(W, S, P)'
  BY <1>3, LaunchReturnsStep
<1>4. ASSUME NEW x \in Executors, LaunchFails(x)
      PROVE  Good(W, S, P)'
  BY <1>4, LaunchFailsStep
<1>5. CASE TakeSubmission
  BY <1>5, TakeSubmissionStep
<1>6. CASE TakeSettlement
  BY <1>6, TakeSettlementStep
<1>7. CASE TakeInterrupt
  BY <1>7, TakeInterruptStep
<1>8. CASE FinishInterrupt
  BY <1>8, FinishInterruptStep
<1>9. CASE EndOperation
  BY <1>9, EndOperationStep
<1>10. CASE RuntimeStep
  BY <1>1, <1>2, <1>3, <1>4, <1>5, <1>6, <1>7, <1>8, <1>9, <1>10 DEF RuntimeStep
<1>11. ASSUME NEW i \in DOMAIN nodes, NodeStep(i)
       PROVE  Good(W, S, P)'
  <2>1. ASSUME NEW payload \in Payloads(nodes[i].spec),
               AgentSubmits(i, payload) \/ WorkflowReports(i, payload)
        PROVE  Good(W, S, P)'
    BY <2>1, SubmitStep
  <2>2. CASE AgentReports(i)
    BY <2>2, AgentReportsStep
  <2>3. ASSUME NEW how \in {"failed", "rejected", "cancelled"}, RunEnds(i, how)
        PROVE  Good(W, S, P)'
    BY <2>3, RunEndsStep
  <2>4. CASE Monitor(i)
    BY <2>4, MonitorStep
  <2> QED BY <1>11, <2>1, <2>2, <2>3, <2>4 DEF NodeStep
<1>12. CASE Interrupt
  BY <1>12, InterruptStep
<1>13. CASE UNCHANGED vars
  BY <1>13, StutterStep
<1> QED BY <1>10, <1>11, <1>12, <1>13 DEF Next

-----------------------------------------------------------------------------
(* The ranges of the runtime's counters and indices, for any workflow: a    *)
(* delegated workflow submits once and is never refused into trying again,  *)
(* an agent as often as its budget lets it.                                 *)
Bounded(entry) ==
  IF KindOf(entry.spec) = "workflow"
  THEN /\ entry.run # "asking"
       /\ entry.tries <= 1
       /\ entry.run = "working" => entry.tries = 0
  ELSE entry.tries <= MaxSubmissions

QueueRange == \A k \in DOMAIN queue : /\ queue[k].kind \in {"submit", "settle", "interrupt"}
                                      /\ queue[k].node \in 0..Len(nodes)
OpRange == op.node \in 0..Len(nodes) /\ op.running \subseteq DOMAIN nodes
Outcomes == {"none", "success", "failure", "deadlocked", "cancelled"}
FlagRange ==
  /\ aborted \in BOOLEAN
  /\ started \in {"no", "dispatching", "handed", "threw"}
  /\ outcome \in Outcomes

RangeInv ==
  /\ \A i \in DOMAIN nodes : Bounded(nodes[i])
  /\ QueueRange /\ OpRange /\ FlagRange

(* What one step makes of an entry. *)
Moves(before, after) ==
  /\ after.spec = before.spec
  /\ \/ /\ after.tries = before.tries
        /\ after.run \in {"working", "asking"} => before.run \in {after.run, "asking"}
     \/ /\ KindOf(before.spec) = "agent"
        /\ before.tries < MaxSubmissions
        /\ after.tries = before.tries + 1
     \/ /\ KindOf(before.spec) = "workflow"
        /\ before.run = "working" /\ after.run = "reporting"
        /\ after.tries = before.tries + 1
Fresh(entry) == entry.run = "working" /\ entry.tries = 0

EntriesMove ==
  /\ Len(nodes) <= Len(nodes')
  /\ \A i \in DOMAIN nodes : Moves(nodes[i], nodes'[i])
  /\ \A i \in DOMAIN nodes' : i \notin DOMAIN nodes => Fresh(nodes'[i])

LEMMA MovesBounded ==
  ASSUME NEW S, NEW P, NEW before \in EntryType(S, P), NEW after, Moves(before, after),
         Bounded(before)
  PROVE  Bounded(after)
<1>1. before.tries \in Nat /\ MaxSubmissions \in Nat
  BY BoundAssumption DEF EntryType
<1> QED
  BY <1>1 DEF Moves, Bounded

LEMMA ClaimMoves ==
  ASSUME NEW S, NEW P, nodes \in Seq(EntryType(S, P)), NEW x,
         NEW T, NEW ns \in Seq(T), Len(ns) = Len(nodes),
         \A i \in DOMAIN nodes : Moves(nodes[i], ns[i]), NEW todo, Claim(x, ns, todo)
  PROVE  EntriesMove
<1>1. CASE todo = <<>>
  BY <1>1 DEF Claim, EntriesMove
<1>2. CASE todo # <<>>
  <2> DEFINE new == Entry(Head(todo))
  <2>1. nodes' = Append(ns, new)
    BY <1>2 DEF Claim
  <2>2. Fresh(new)
    BY DEF Fresh, Entry
  <2> HIDE DEF new
  <2>3. /\ Len(nodes') = Len(ns) + 1 /\ DOMAIN nodes' = 1..Len(ns) + 1
        /\ \A i \in DOMAIN ns : nodes'[i] = ns[i]
        /\ nodes'[Len(ns) + 1] = new
        /\ DOMAIN ns = 1..Len(ns) /\ Len(ns) \in Nat
    <3>1. ns \in Seq(T \cup {new})
      OBVIOUS
    <3> QED
      BY <2>1, <3>1
  <2> QED
    BY <2>2, <2>3 DEF EntriesMove
<1> QED
  BY <1>1, <1>2

LEMMA OneMoves ==
  ASSUME NEW S, NEW P, nodes \in Seq(EntryType(S, P)), NEW i \in DOMAIN nodes, NEW entry,
         Moves(nodes[i], entry), NEW ns, ns = [nodes EXCEPT ![i] = entry]
  PROVE  /\ \E T : ns \in Seq(T)
         /\ Len(ns) = Len(nodes) /\ DOMAIN ns = DOMAIN nodes
         /\ \A j \in DOMAIN nodes : Moves(nodes[j], ns[j])
<1>1. \A j \in DOMAIN nodes : Moves(nodes[j], nodes[j])
  BY DEF Moves
<1>2. ns \in Seq(EntryType(S, P) \cup {entry})
  OBVIOUS
<1> QED
  BY <1>1, <1>2

(* A settlement that is counted, by a node run that may not have started.   *)
LEMMA CountMoves ==
  ASSUME NEW S, NEW P, nodes \in Seq(EntryType(S, P)), NEW i \in DOMAIN nodes,
         NEW settlement, NEW run \in {nodes[i].run, "absent"}, NEW ns,
         ns \in {Count(i, settlement), [Count(i, settlement) EXCEPT ![i].run = run]}
  PROVE  /\ \E T : ns \in Seq(T)
         /\ Len(ns) = Len(nodes)
         /\ \A j \in DOMAIN nodes : Moves(nodes[j], ns[j])
<1> DEFINE counted == Counted(nodes[i], settlement)
           entry == [counted EXCEPT !.run = run]
<1>1. nodes[i] \in EntryType(S, P)
  OBVIOUS
<1>2. ns \in {[nodes EXCEPT ![i] = counted], [nodes EXCEPT ![i] = entry]}
  BY DEF Count
<1>3. counted.spec = nodes[i].spec /\ counted.tries = nodes[i].tries
      /\ counted.run = nodes[i].run
  BY <1>1 DEF EntryType, Counted
<1>4. entry.spec = nodes[i].spec /\ entry.tries = nodes[i].tries /\ entry.run = run
  BY <1>1 DEF EntryType, Counted
<1> HIDE DEF counted, entry
<1>5. Moves(nodes[i], counted) /\ Moves(nodes[i], entry)
  BY <1>3, <1>4 DEF Moves
<1> QED
  BY <1>2, <1>5, OneMoves

LEMMA RunMoves ==
  ASSUME NEW S, NEW P, nodes \in Seq(EntryType(S, P)), NEW i \in DOMAIN nodes, NEW run,
         run \in {"working", "asking"} => nodes[i].run \in {run, "asking"},
         nodes' = [nodes EXCEPT ![i].run = run]
  PROVE  EntriesMove
<1> DEFINE entry == [nodes[i] EXCEPT !.run = run]
<1>1. nodes[i] \in EntryType(S, P)
  OBVIOUS
<1>2. entry.spec = nodes[i].spec /\ entry.tries = nodes[i].tries /\ entry.run = run
  BY <1>1 DEF EntryType
<1>3. nodes' = [nodes EXCEPT ![i] = entry]
  OBVIOUS
<1> HIDE DEF entry
<1>4. Moves(nodes[i], entry)
  BY <1>2 DEF Moves
<1>5. Len(nodes') = Len(nodes) /\ DOMAIN nodes' = DOMAIN nodes
      /\ \A j \in DOMAIN nodes : Moves(nodes[j], nodes'[j])
  BY <1>3, <1>4, OneMoves
<1> QED
  BY <1>5 DEF EntriesMove

LEMMA NothingMoves ==
  ASSUME NEW S, NEW P, nodes \in Seq(EntryType(S, P)), UNCHANGED nodes
  PROVE  EntriesMove
BY DEF EntriesMove, Moves

LEMMA SubmittingMoves ==
  ASSUME NEW S, NEW P, nodes \in Seq(EntryType(S, P)), NEW i \in DOMAIN nodes, NEW run,
         NEW payload, nodes' = [nodes EXCEPT ![i] = Submitting(@, run, payload)],
         \/ KindOf(nodes[i].spec) = "agent" /\ nodes[i].tries < MaxSubmissions
         \/ KindOf(nodes[i].spec) = "workflow" /\ nodes[i].run = "working" /\ run = "reporting"
  PROVE  EntriesMove
<1> DEFINE entry == Submitting(nodes[i], run, payload)
<1>1. nodes[i] \in EntryType(S, P)
  OBVIOUS
<1>2. entry.spec = nodes[i].spec /\ entry.tries = nodes[i].tries + 1 /\ entry.run = run
  BY <1>1 DEF EntryType, Submitting
<1>3. nodes' = [nodes EXCEPT ![i] = entry]
  OBVIOUS
<1> HIDE DEF entry
<1>4. Moves(nodes[i], entry)
  BY <1>2 DEF Moves
<1>5. Len(nodes') = Len(nodes) /\ DOMAIN nodes' = DOMAIN nodes
      /\ \A j \in DOMAIN nodes : Moves(nodes[j], nodes'[j])
  BY <1>3, <1>4, OneMoves
<1> QED
  BY <1>5 DEF EntriesMove

LEMMA CancelMoves ==
  ASSUME NEW S, NEW P, nodes \in Seq(EntryType(S, P)), FinishInterrupt
  PROVE  EntriesMove
<1>1. /\ Len(nodes') = Len(nodes) /\ DOMAIN nodes' = DOMAIN nodes
      /\ \A i \in DOMAIN nodes :
           nodes'[i] = IF i \in op.running THEN [nodes[i] EXCEPT !.status = "cancelled"]
                                           ELSE nodes[i]
  BY DEF FinishInterrupt
<1>2. ASSUME NEW i \in DOMAIN nodes PROVE Moves(nodes[i], nodes'[i])
  <2>1. nodes[i] \in EntryType(S, P)
    OBVIOUS
  <2>2. nodes'[i].spec = nodes[i].spec /\ nodes'[i].tries = nodes[i].tries
        /\ nodes'[i].run = nodes[i].run
    BY <1>1, <2>1 DEF EntryType
  <2> QED
    BY <2>2 DEF Moves
<1> QED
  BY <1>1, <1>2 DEF EntriesMove

LEMMA AnswerMoves ==
  ASSUME NEW S, NEW P, nodes \in Seq(EntryType(S, P)), EndOperation,
         op.kind = "submit" => op.node \in DOMAIN nodes
  PROVE  EntriesMove
<1>1. CASE op.kind # "submit"
  BY <1>1, NothingMoves DEF EndOperation
<1>2. CASE op.kind = "submit"
  <2> DEFINE i == op.node
             run == AfterAnswer(KindOf(nodes[i].spec), nodes[i].run, op.verdict)
  <2>1. nodes' = [nodes EXCEPT ![i].run = run]
    BY <1>2 DEF EndOperation
  <2>2. run \in {"working", "asking"} => nodes[i].run \in {run, "asking"}
    BY DEF AfterAnswer
  <2>3. i \in DOMAIN nodes
    BY <1>2
  <2> HIDE DEF i, run
  <2> QED
    BY <2>1, <2>2, <2>3, RunMoves
<1> QED
  BY <1>1, <1>2

LEMMA LaunchedMoves ==
  ASSUME NEW S, NEW P, ListsTyped(S, P), NEW x \in Executors, LaunchReturns(x)
  PROVE  EntriesMove
<1> DEFINE i == lists[x].at
           entry == [nodes[i] EXCEPT !.launched = TRUE]
           ns == [nodes EXCEPT ![i].launched = TRUE]
<1>1. i \in DOMAIN nodes /\ nodes \in Seq(EntryType(S, P))
  BY DEF ListsTyped, LaunchReturns
<1>2. nodes[i] \in EntryType(S, P)
  BY <1>1
<1>3. entry.spec = nodes[i].spec /\ entry.tries = nodes[i].tries /\ entry.run = nodes[i].run
  BY <1>2 DEF EntryType
<1>4. ns = [nodes EXCEPT ![i] = entry]
  OBVIOUS
<1>5. Claim(x, ns, lists[x].todo)
  BY DEF LaunchReturns
<1> HIDE DEF i, entry, ns
<1>6. Moves(nodes[i], entry)
  BY <1>3 DEF Moves
<1>7. /\ \E T : ns \in Seq(T)
      /\ Len(ns) = Len(nodes)
      /\ \A j \in DOMAIN nodes : Moves(nodes[j], ns[j])
  BY <1>1, <1>4, <1>6, OneMoves
<1> QED
  BY <1>1, <1>5, <1>7, ClaimMoves

LEMMA LaunchFailsMoves ==
  ASSUME NEW S, NEW P, ListsTyped(S, P), NEW x \in Executors, LaunchFails(x)
  PROVE  EntriesMove
<1> DEFINE i == lists[x].at
           failed == Unfinished("failed")
<1>1. i \in DOMAIN nodes /\ nodes \in Seq(EntryType(S, P))
  BY DEF ListsTyped, LaunchFails
<1>2. PICK run \in {nodes[i].run, "absent"} :
        \/ \E state, rest : Proceed(x, state, [Count(i, failed) EXCEPT ![i].run = run], rest)
        \/ nodes' = [nodes EXCEPT ![i].run = run]
  BY DEF LaunchFails, ApplySettlement
<1> HIDE DEF i, failed
<1>3. CASE nodes' = [nodes EXCEPT ![i].run = run]
  <2>1. run \in {"working", "asking"} => nodes[i].run \in {run, "asking"}
    BY <1>2
  <2> QED
    BY <1>1, <1>3, <2>1, RunMoves
<1>4. CASE \E state, rest : Proceed(x, state, [Count(i, failed) EXCEPT ![i].run = run], rest)
  <2> DEFINE ns == [Count(i, failed) EXCEPT ![i].run = run]
  <2>0. ns \in {Count(i, failed), [Count(i, failed) EXCEPT ![i].run = run]}
    OBVIOUS
  <2>2. \E todo : Claim(x, ns, todo)
    BY <1>4 DEF Proceed
  <2> HIDE DEF ns
  <2>1. /\ \E T : ns \in Seq(T)
        /\ Len(ns) = Len(nodes)
        /\ \A j \in DOMAIN nodes : Moves(nodes[j], ns[j])
    BY <1>1, <1>2, <2>0, CountMoves
  <2> QED
    BY <1>1, <2>1, <2>2, ClaimMoves
<1> QED
  BY <1>2, <1>3, <1>4

LEMMA SettlementMoves ==
  ASSUME NEW S, NEW P, ListsTyped(S, P), NEW i \in DOMAIN nodes, NEW x, NEW settlement, NEW rest,
         ApplySettlement(x, i, settlement, Count(i, settlement), rest)
  PROVE  EntriesMove
<1> DEFINE ns == Count(i, settlement)
<1>0. nodes \in Seq(EntryType(S, P))
  BY DEF ListsTyped
<1>1. \E todo : Claim(x, ns, todo)
  BY DEF ApplySettlement, Proceed
<1>2. /\ \E T : ns \in Seq(T)
      /\ Len(ns) = Len(nodes)
      /\ \A j \in DOMAIN nodes : Moves(nodes[j], ns[j])
  BY <1>0, CountMoves
<1> HIDE DEF ns
<1> QED
  BY <1>0, <1>1, <1>2, ClaimMoves

(* Every step moves the entries so. *)
LEMMA StepMoves ==
  ASSUME NEW W, NEW S, NEW P, Good(W, S, P), [Next]_vars
  PROVE  EntriesMove
<1>0. ListsTyped(S, P) /\ nodes \in Seq(EntryType(S, P))
  BY DEF Good, Typed, ListsTyped
<1>1. CASE Start
  <2>1. \E todo : Claim("start", nodes, todo)
    BY <1>1 DEF Start, Proceed
  <2>2. \A j \in DOMAIN nodes : Moves(nodes[j], nodes[j])
    BY DEF Moves
  <2> QED
    BY <1>0, <2>1, <2>2, ClaimMoves
<1>2. ASSUME NEW x \in Executors, LaunchReturns(x) \/ LaunchFails(x)
      PROVE  EntriesMove
  BY <1>0, <1>2, LaunchedMoves, LaunchFailsMoves
<1>3. CASE TakeSubmission \/ TakeSettlement
  <2>1. CASE UNCHANGED nodes
    BY <1>0, <2>1, NothingMoves
  <2>2. CASE ~ UNCHANGED nodes
    <3> DEFINE i == Head(queue).node
    <3>1. queue # <<>> /\ Head(queue).kind \in {"submit", "settle"}
      BY <1>3 DEF TakeSubmission, TakeSettlement, Take
    <3>2. Head(queue) = queue[1] /\ 1 \in DOMAIN queue
      BY <3>1 DEF Good, Typed
    <3>3. i \in DOMAIN nodes
      BY <3>1, <3>2 DEF Good, WorkflowInv, WaitingInv
    <3>4. \E settlement : ApplySettlement("queue", i, settlement, Count(i, settlement), <<>>)
      BY <1>3, <2>2 DEF TakeSubmission, TakeSettlement
    <3> HIDE DEF i
    <3> QED
      BY <1>0, <3>3, <3>4, SettlementMoves
  <2> QED
    BY <2>1, <2>2
<1>4. CASE HandOver \/ TakeInterrupt \/ Interrupt \/ UNCHANGED vars
  <2>1. UNCHANGED nodes
    BY <1>4 DEF HandOver, TakeInterrupt, Interrupt, vars
  <2> QED
    BY <1>0, <2>1, NothingMoves
<1>5. CASE FinishInterrupt
  BY <1>0, <1>5, CancelMoves
<1>6. CASE EndOperation
  <2>1. op.kind = "submit" => op.node \in DOMAIN nodes
    BY DEF Good, WorkflowInv, OperationInv
  <2> QED
    BY <1>0, <1>6, <2>1, AnswerMoves
<1>7. ASSUME NEW i \in DOMAIN nodes, NodeStep(i)
      PROVE  EntriesMove
  <2>1. ASSUME NEW payload, AgentSubmits(i, payload) \/ WorkflowReports(i, payload)
        PROVE  EntriesMove
    BY <1>0, <2>1, SubmittingMoves DEF AgentSubmits, WorkflowReports
  <2>2. CASE AgentReports(i) \/ Monitor(i)
                \/ \E how \in {"failed", "rejected", "cancelled"} : RunEnds(i, how)
    <3>1. \E run \in {"reporting", "heard", "failed", "rejected", "cancelled"} :
            nodes' = [nodes EXCEPT ![i].run = run]
      BY <2>2 DEF AgentReports, Monitor, RunEnds
    <3> QED
      BY <1>0, <3>1, RunMoves
  <2> QED
    BY <1>7, <2>1, <2>2 DEF NodeStep
<1> QED
  BY <1>1, <1>2, <1>3, <1>4, <1>5, <1>6, <1>7 DEF Next, RuntimeStep

(* Entries of the same specs, that have submitted nothing new, are linked. *)
LEMMA OneLinked ==
  ASSUME NEW K, NEW state, NEW S, NEW P, NEW before \in Seq(EntryType(S, P)),
         EntriesLinked(K, state, before), NEW i \in DOMAIN before, NEW entry,
         entry.spec = before[i].spec, entry.said \subseteq Payloads(entry.spec),
         NEW after, after = [before EXCEPT ![i] = entry]
  PROVE  EntriesLinked(K, state, after)
<1>1. DOMAIN after = DOMAIN before
  OBVIOUS
<1>2. \A j \in DOMAIN before : after[j] = IF j = i THEN entry ELSE before[j]
  OBVIOUS
<1> QED
  BY <1>1, <1>2 DEF EntriesLinked

LEMMA ClaimLinks ==
  ASSUME NEW K, NEW state, NEW S, NEW P, NEW x \in Executors,
         NEW ns \in Seq(EntryType(S, P)), EntriesLinked(K, state, ns),
         NEW todo \in Seq(S), TodoLinked(K, state, todo),
         lists \in [Executors -> ListType(S)],
         \A y \in Executors \ {x} : TodoLinked(K, state, lists[y].todo),
         Claim(x, ns, todo)
  PROVE  EntriesLinked(K, state, nodes') /\ ListsLinked(K, state, lists')
<1>1. CASE todo = <<>>
  <2>1. nodes' = ns /\ lists' = [lists EXCEPT ![x] = Idle]
    BY <1>1 DEF Claim
  <2>2. TodoLinked(K, state, Idle.todo)
    BY DEF TodoLinked, Idle
  <2>3. \A y \in Executors : lists'[y] = IF y = x THEN Idle ELSE lists[y]
    BY <2>1
  <2>4. ListsLinked(K, state, lists')
    BY <2>2, <2>3 DEF ListsLinked
  <2> QED
    BY <2>1, <2>4
<1>2. CASE todo # <<>>
  <2> DEFINE new == Entry(Head(todo))
             item == [at |-> Len(ns) + 1, todo |-> Tail(todo)]
  <2>1. nodes' = Append(ns, new) /\ lists' = [lists EXCEPT ![x] = item]
    BY <1>2 DEF Claim
  <2>2. 1 \in DOMAIN todo /\ Head(todo) = todo[1]
    BY <1>2
  <2>3. <<state, new.spec>> \in K /\ new.said \subseteq Payloads(new.spec)
    BY <2>2 DEF TodoLinked, Entry
  <2>4. TodoLinked(K, state, item.todo)
    <3>1. \A n \in DOMAIN Tail(todo) : n + 1 \in DOMAIN todo /\ Tail(todo)[n] = todo[n + 1]
      BY <1>2
    <3> QED
      BY <3>1 DEF TodoLinked
  <2> HIDE DEF new, item
  <2>5. \A y \in Executors : lists'[y] = IF y = x THEN item ELSE lists[y]
    BY <2>1
  <2>6. ListsLinked(K, state, lists')
    BY <2>4, <2>5 DEF ListsLinked
  <2>7. /\ DOMAIN nodes' = 1..Len(ns) + 1 /\ DOMAIN ns = 1..Len(ns) /\ Len(ns) \in Nat
        /\ \A j \in 1..Len(ns) : nodes'[j] = ns[j]
        /\ nodes'[Len(ns) + 1] = new
    <3>1. ns \in Seq(EntryType(S, P) \cup {new})
      OBVIOUS
    <3> QED
      BY <2>1, <3>1
  <2>8. EntriesLinked(K, state, nodes')
    <3> SUFFICES ASSUME NEW j \in DOMAIN nodes'
                 PROVE  /\ <<state, nodes'[j].spec>> \in K
                        /\ nodes'[j].said \subseteq Payloads(nodes'[j].spec)
      BY DEF EntriesLinked
    <3>1. j \in 1..Len(ns) \/ j = Len(ns) + 1
      BY <2>7
    <3> QED
      BY <2>3, <2>7, <3>1 DEF EntriesLinked
  <2> QED
    BY <2>6, <2>8
<1> QED
  BY <1>1, <1>2

(* What a dispatch launches belongs to the state it is ordered in. *)
LEMMA ProceedLinks ==
  ASSUME NEW W, NEW S, NEW P, NEW K, HooksTyped(W, S, P, K), NEW x \in Executors,
         NEW state \in W, NEW ns \in Seq(EntryType(S, P)), NEW rest \in Seq(S),
         EntriesLinked(K, state, ns), TodoLinked(K, state, rest),
         lists \in [Executors -> ListType(S)],
         \A y \in Executors \ {x} : TodoLinked(K, state, lists[y].todo),
         Proceed(x, state, ns, rest)
  PROVE  /\ EntriesLinked(K, wf', nodes') /\ ListsLinked(K, wf', lists')
         /\ Carries(K, state, wf')
<1> DEFINE order == Order(state, ns)
           todo == order \o rest
<1>1. order \in Seq(S) /\ TodoLinked(K, state, order)
  <2>1. \A i \in DOMAIN ns : ns[i] \in EntryType(S, P)
    OBVIOUS
  <2>2. RunningSpecs(ns) \in SUBSET S
    BY <2>1 DEF RunningSpecs, Running, EntryType
  <2>3. TodoLinked(K, state, <<>>)
    BY DEF TodoLinked
  <2> QED
    BY <2>2, <2>3 DEF Order, HooksTyped
<1>2. Claim(x, ns, todo)
  BY DEF Proceed
<1> HIDE DEF order
<1>3. todo \in Seq(S)
  BY <1>1
<1>4. TodoLinked(K, state, todo)
  <2>1. /\ Len(order) \in Nat /\ Len(rest) \in Nat
        /\ DOMAIN order = 1..Len(order) /\ DOMAIN rest = 1..Len(rest)
        /\ DOMAIN todo = 1..Len(order) + Len(rest)
        /\ \A n \in DOMAIN todo : todo[n] = IF n <= Len(order) THEN order[n]
                                            ELSE rest[n - Len(order)]
    BY <1>1
  <2> HIDE DEF todo
  <2>2. \A n \in DOMAIN todo : n \in DOMAIN order \/ (~(n <= Len(order)) /\ n - Len(order) \in DOMAIN rest)
    BY <2>1
  <2>3. \A n \in DOMAIN order : n <= Len(order)
    BY <2>1
  <2> QED
    BY <1>1, <2>1, <2>2, <2>3 DEF TodoLinked
<1> HIDE DEF todo
<1>5. EntriesLinked(K, state, nodes') /\ ListsLinked(K, state, lists')
  BY <1>2, <1>3, <1>4, ClaimLinks
<1>6. wf' = state \/ wf' = Ended(state, "deadlocked")
  BY DEF Proceed
<1>7. Carries(K, state, wf')
  BY <1>6 DEF HooksTyped, Carries
<1> QED
  BY <1>5, <1>7 DEF EntriesLinked, ListsLinked, TodoLinked, Carries

(* The same of a settlement that is applied first. *)
LEMMA ApplyLinks ==
  ASSUME NEW W, NEW S, NEW P, NEW K, HooksTyped(W, S, P, K), Good(W, S, P), Linked(K),
         NEW x \in Executors, NEW i \in DOMAIN nodes,
         NEW settlement \in Settlements(P), NEW rest \in Seq(S), TodoLinked(K, wf, rest),
         MayEnd(nodes[i].spec, settlement), Validates(wf, nodes[i].spec, settlement),
         NEW ns \in Seq(EntryType(S, P)), EntriesLinked(K, wf, ns),
         ApplySettlement(x, i, settlement, ns, rest)
  PROVE  /\ EntriesLinked(K, wf', nodes') /\ ListsLinked(K, wf', lists')
         /\ Carries(K, wf, wf')
<1> DEFINE state == Applied(wf, nodes[i].spec, settlement, RunningSpecs(ns))
<1>1. nodes[i].spec \in S /\ <<wf, nodes[i].spec>> \in K
  <2>1. nodes[i] \in EntryType(S, P)
    BY DEF Good, Typed, ListsTyped
  <2> QED
    BY <2>1 DEF EntryType, Linked, EntriesLinked
<1>2. RunningSpecs(ns) \in SUBSET S
  <2>1. \A j \in DOMAIN ns : ns[j] \in EntryType(S, P)
    OBVIOUS
  <2> QED
    BY <2>1 DEF RunningSpecs, Running, EntryType
<1>3. state \in W /\ Carries(K, wf, state)
  BY <1>1, <1>2 DEF HooksTyped, Good, Typed
<1>4. Proceed(x, state, ns, rest)
  BY DEF ApplySettlement
<1> HIDE DEF state
<1>5. EntriesLinked(K, state, ns) /\ TodoLinked(K, state, rest)
      /\ \A y \in Executors : TodoLinked(K, state, lists[y].todo)
  BY <1>3 DEF Carries, EntriesLinked, TodoLinked, Linked, ListsLinked
<1>6. lists \in [Executors -> ListType(S)]
  BY DEF Good, Typed, ListsTyped
<1>7. /\ EntriesLinked(K, wf', nodes') /\ ListsLinked(K, wf', lists')
      /\ Carries(K, state, wf')
  BY <1>3, <1>4, <1>5, <1>6, ProceedLinks
<1> QED
  BY <1>3, <1>7 DEF Carries

LEMMA CountLinks ==
  ASSUME NEW W, NEW S, NEW P, NEW K, HooksTyped(W, S, P, K), Good(W, S, P), Linked(K),
         NEW x \in Executors, NEW i \in DOMAIN nodes, nodes[i].status = "running",
         NEW settlement \in Settlements(P), NEW rest \in Seq(S), TodoLinked(K, wf, rest),
         MayEnd(nodes[i].spec, settlement), Validates(wf, nodes[i].spec, settlement),
         NEW run \in Runs, NEW ns,
         ns \in {Count(i, settlement), [Count(i, settlement) EXCEPT ![i].run = run]},
         ApplySettlement(x, i, settlement, ns, rest)
  PROVE  /\ EntriesLinked(K, wf', nodes') /\ ListsLinked(K, wf', lists')
         /\ Carries(K, wf, wf')
<1> DEFINE counted == Counted(nodes[i], settlement)
           moved == [counted EXCEPT !.run = run]
<1>1. nodes \in Seq(EntryType(S, P)) /\ nodes[i] \in EntryType(S, P)
  BY DEF Good, Typed, ListsTyped
<1>2. settlement.status \in Settled
  BY DEF Settlements
<1>3. counted \in EntryType(S, P) /\ counted.spec = nodes[i].spec
  BY <1>1, <1>2, CountedEntry
<1>4. counted.said = nodes[i].said
  BY <1>1 DEF EntryType, Counted
<1>5. moved = [counted EXCEPT !.run = run]
  OBVIOUS
<1>6. ns \in {[nodes EXCEPT ![i] = counted], [nodes EXCEPT ![i] = moved]}
  BY DEF Count
<1> HIDE DEF counted, moved
<1>7. moved \in EntryType(S, P) /\ moved.spec = nodes[i].spec
  BY <1>3, <1>5, Moved
<1>8. moved.said = nodes[i].said
  BY <1>3, <1>4, <1>5 DEF EntryType
<1>9. ns \in Seq(EntryType(S, P))
  BY <1>1, <1>3, <1>6, <1>7
<1>10. EntriesLinked(K, wf, nodes) /\ nodes[i].said \subseteq Payloads(nodes[i].spec)
  BY DEF Linked, EntriesLinked
<1>11. EntriesLinked(K, wf, ns)
  BY <1>1, <1>3, <1>4, <1>6, <1>7, <1>8, <1>10, OneLinked
<1> QED
  BY <1>9, <1>11, ApplyLinks

-----------------------------------------------------------------------------
(* Nothing but a node's progress, or its answer. *)
LEMMA EntryLinks ==
  ASSUME NEW W, NEW S, NEW P, NEW K, Good(W, S, P), Linked(K), NEW i \in DOMAIN nodes,
         NEW run, nodes' = [nodes EXCEPT ![i].run = run], UNCHANGED wf
  PROVE  EntriesLinked(K, wf', nodes')
<1> DEFINE entry == [nodes[i] EXCEPT !.run = run]
<1>1. nodes \in Seq(EntryType(S, P)) /\ nodes[i] \in EntryType(S, P)
  BY DEF Good, Typed, ListsTyped
<1>2. entry.spec = nodes[i].spec /\ entry.said = nodes[i].said
  BY <1>1 DEF EntryType
<1>3. nodes' = [nodes EXCEPT ![i] = entry]
  OBVIOUS
<1> HIDE DEF entry
<1>4. EntriesLinked(K, wf, nodes) /\ nodes[i].said \subseteq Payloads(nodes[i].spec)
  BY DEF Linked, EntriesLinked
<1> QED
  BY <1>1, <1>2, <1>3, <1>4, OneLinked

(* The launch lists and the entries stay linked, and what belonged to the   *)
(* state still does.                                                        *)
LaunchesLinked(K) == EntriesLinked(K, wf, nodes) /\ ListsLinked(K, wf, lists)

LEMMA LaunchReturnsLinks ==
  ASSUME NEW W, NEW S, NEW P, NEW K, Good(W, S, P), Linked(K), NEW x \in Executors,
         LaunchReturns(x)
  PROVE  LaunchesLinked(K)' /\ Carries(K, wf, wf')
<1> DEFINE i == lists[x].at
           entry == [nodes[i] EXCEPT !.launched = TRUE]
           ns == [nodes EXCEPT ![i].launched = TRUE]
           todo == lists[x].todo
<1>1. /\ i \in DOMAIN nodes /\ nodes \in Seq(EntryType(S, P))
      /\ lists \in [Executors -> ListType(S)]
  BY DEF Good, Typed, ListsTyped, LaunchReturns
<1>2. nodes[i] \in EntryType(S, P) /\ todo \in Seq(S)
  BY <1>1 DEF ListType
<1>3. Claim(x, ns, todo) /\ UNCHANGED wf
  BY DEF LaunchReturns
<1>4. ns = [nodes EXCEPT ![i] = entry] /\ entry = [nodes[i] EXCEPT !.launched = TRUE]
  OBVIOUS
<1>5. entry.said = nodes[i].said
  BY <1>2 DEF EntryType
<1>6. \A y \in Executors : TodoLinked(K, wf, lists[y].todo)
  BY DEF Linked, ListsLinked
<1>10. TodoLinked(K, wf, todo)
  BY <1>6
<1> HIDE DEF i, entry, ns, todo
<1>7. entry \in EntryType(S, P) /\ entry.spec = nodes[i].spec
  BY <1>2, <1>4, Kept
<1>8. EntriesLinked(K, wf, nodes) /\ nodes[i].said \subseteq Payloads(nodes[i].spec)
  BY <1>1 DEF Linked, EntriesLinked
<1>11. entry.said \subseteq Payloads(entry.spec)
  BY <1>5, <1>7, <1>8
<1>12. EntriesLinked(K, wf, ns)
  BY <1>1, <1>4, <1>7, <1>8, <1>11, OneLinked
<1>9. EntriesLinked(K, wf, ns) /\ ns \in Seq(EntryType(S, P))
  BY <1>1, <1>4, <1>7, <1>12
<1> QED
  BY <1>1, <1>2, <1>3, <1>6, <1>9, <1>10, ClaimLinks DEF LaunchesLinked, Carries

LEMMA LaunchFailsLinks ==
  ASSUME NEW W, NEW S, NEW P, NEW K, HooksTyped(W, S, P, K), Good(W, S, P), Linked(K),
         NEW x \in Executors, LaunchFails(x)
  PROVE  LaunchesLinked(K)' /\ Carries(K, wf, wf')
<1> DEFINE i == lists[x].at
           failed == Unfinished("failed")
           rest == lists[x].todo
<1>1. /\ i \in DOMAIN nodes /\ nodes \in Seq(EntryType(S, P))
      /\ lists \in [Executors -> ListType(S)]
  BY DEF Good, Typed, ListsTyped, LaunchFails
<1>2. nodes[i] \in EntryType(S, P) /\ rest \in Seq(S) /\ TodoLinked(K, wf, rest)
  BY <1>1 DEF ListType, Linked, ListsLinked
<1>3. failed \in Settlements(P) /\ MayEnd(nodes[i].spec, failed)
  BY DEF Unfinished, Settlements, Settled, MayEnd
<1>4. PICK run \in {nodes[i].run, "absent"} :
        IF nodes[i].status = "running" /\ Validates(wf, nodes[i].spec, failed)
        THEN ApplySettlement(x, i, failed, [Count(i, failed) EXCEPT ![i].run = run], rest)
        ELSE nodes' = [nodes EXCEPT ![i].run = run] /\ Throw(x) /\ UNCHANGED wf
  BY DEF LaunchFails
<1>5. run \in Runs
  BY <1>2, <1>4 DEF EntryType, Runs
<1> HIDE DEF i, failed, rest
<1>6. CASE nodes[i].status = "running" /\ Validates(wf, nodes[i].spec, failed)
  <2> DEFINE ns == [Count(i, failed) EXCEPT ![i].run = run]
  <2>1. ApplySettlement(x, i, failed, ns, rest)
    BY <1>4, <1>6
  <2>2. ns \in {Count(i, failed), [Count(i, failed) EXCEPT ![i].run = run]}
    OBVIOUS
  <2> HIDE DEF ns
  <2> QED
    BY <1>1, <1>2, <1>3, <1>5, <1>6, <2>1, <2>2, CountLinks DEF LaunchesLinked
<1>7. CASE ~(nodes[i].status = "running" /\ Validates(wf, nodes[i].spec, failed))
  <2>1. nodes' = [nodes EXCEPT ![i].run = run] /\ Throw(x) /\ UNCHANGED wf
    BY <1>4, <1>7
  <2>2. EntriesLinked(K, wf', nodes')
    BY <1>1, <2>1, EntryLinks
  <2>3. lists' = [lists EXCEPT ![x] = Idle]
    BY <2>1 DEF Throw
  <2>4. \A y \in Executors : lists'[y] = IF y = x THEN Idle ELSE lists[y]
    BY <1>1, <2>3
  <2>5. TodoLinked(K, wf', Idle.todo)
    BY DEF TodoLinked, Idle
  <2>6. \A y \in Executors : TodoLinked(K, wf', lists[y].todo)
    BY <2>1 DEF Linked, ListsLinked
  <2>7. ListsLinked(K, wf', lists')
    BY <2>4, <2>5, <2>6 DEF ListsLinked
  <2> QED
    BY <2>1, <2>2, <2>7 DEF LaunchesLinked, Carries
<1> QED
  BY <1>6, <1>7

LEMMA CompletionLinks ==
  ASSUME NEW W, NEW S, NEW P, NEW K, HooksTyped(W, S, P, K), Good(W, S, P), Linked(K),
         TakeSubmission \/ TakeSettlement
  PROVE  LaunchesLinked(K)' /\ Carries(K, wf, wf')
<1> DEFINE i == Head(queue).node
<1>1. queue # <<>> /\ Head(queue).kind \in {"submit", "settle"}
  BY DEF TakeSubmission, TakeSettlement, Take
<1>2. Head(queue) = queue[1] /\ 1 \in DOMAIN queue
  BY <1>1 DEF Good, Typed
<1>3. i \in DOMAIN nodes
  BY <1>1, <1>2 DEF Good, WorkflowInv, WaitingInv
<1>0. nodes[i] \in EntryType(S, P)
  BY <1>3 DEF Good, Typed, ListsTyped
<1>4. CASE UNCHANGED <<wf, nodes, lists>>
  BY <1>4 DEF LaunchesLinked, Linked, Carries
<1>5. CASE ~UNCHANGED <<wf, nodes, lists>>
  <2>1. PICK settlement :
          /\ settlement \in Settlements(P) /\ MayEnd(nodes[i].spec, settlement)
          /\ nodes[i].status = "running" /\ Validates(wf, nodes[i].spec, settlement)
          /\ ApplySettlement("queue", i, settlement, Count(i, settlement), <<>>)
    <3>1. CASE TakeSubmission
      <4> DEFINE settlement == Completed(Head(queue).what)
      <4>1. Head(queue).kind = "submit"
        BY <3>1 DEF TakeSubmission, Take
      <4>2. Head(queue).what \in Payloads(nodes[i].spec) /\ Head(queue).what \in P
        BY <1>2, <4>1 DEF Linked, QueueLinked, Good, Typed
      <4>3. settlement \in Settlements(P) /\ MayEnd(nodes[i].spec, settlement)
        BY <4>2 DEF Completed, Settlements, Settled, MayEnd
      <4>4. /\ nodes[i].status = "running" /\ Validates(wf, nodes[i].spec, settlement)
            /\ ApplySettlement("queue", i, settlement, Count(i, settlement), <<>>)
        BY <1>5, <3>1 DEF TakeSubmission, StillRunning
      <4> QED
        BY <4>3, <4>4
    <3>2. CASE TakeSettlement
      <4> DEFINE settlement == Unfinished(Head(queue).what)
      <4>1. Head(queue).kind = "settle"
        BY <3>2 DEF TakeSettlement, Take
      <4>2. Head(queue).what \in {"rejected", "failed", "cancelled"}
        BY <1>2, <4>1 DEF Good, WorkflowInv, WaitingInv
      <4>3. settlement \in Settlements(P) /\ MayEnd(nodes[i].spec, settlement)
        BY <4>2 DEF Unfinished, Settlements, Settled, MayEnd
      <4>4. /\ nodes[i].status = "running" /\ Validates(wf, nodes[i].spec, settlement)
            /\ ApplySettlement("queue", i, settlement, Count(i, settlement), <<>>)
        BY <1>5, <3>2 DEF TakeSettlement, StillRunning
      <4> QED
        BY <4>3, <4>4
    <3> QED
      BY <3>1, <3>2
  <2> DEFINE x == "queue"
             rest == <<>>
             ns == Count(i, settlement)
             run == nodes[i].run
  <2>2. x \in Executors /\ rest \in Seq(S) /\ TodoLinked(K, wf, rest) /\ run \in Runs
    BY <1>0 DEF Executors, TodoLinked, EntryType
  <2>3. ns \in {Count(i, settlement), [Count(i, settlement) EXCEPT ![i].run = run]}
    OBVIOUS
  <2>4. ApplySettlement(x, i, settlement, ns, rest)
    BY <2>1
  <2> HIDE DEF i, x, rest, ns, run
  <2> QED
    BY <1>3, <2>1, <2>2, <2>3, <2>4, CountLinks DEF LaunchesLinked
<1> QED
  BY <1>4, <1>5

LEMMA CancelLinks ==
  ASSUME NEW W, NEW S, NEW P, NEW K, HooksTyped(W, S, P, K), Good(W, S, P), Linked(K),
         FinishInterrupt
  PROVE  LaunchesLinked(K)' /\ Carries(K, wf, wf')
<1>1. nodes \in Seq(EntryType(S, P)) /\ wf \in W
  BY DEF Good, Typed, ListsTyped
<1>2. /\ DOMAIN nodes' = DOMAIN nodes
      /\ \A i \in DOMAIN nodes :
           nodes'[i] = IF i \in op.running THEN [nodes[i] EXCEPT !.status = "cancelled"]
                                           ELSE nodes[i]
      /\ wf' = Ended(wf, "failure") /\ UNCHANGED lists
  BY DEF FinishInterrupt
<1>3. Carries(K, wf, wf')
  BY <1>1, <1>2 DEF HooksTyped
<1>4. ASSUME NEW i \in DOMAIN nodes
      PROVE  nodes'[i].spec = nodes[i].spec /\ nodes'[i].said = nodes[i].said
  <2>1. nodes[i] \in EntryType(S, P)
    BY <1>1
  <2> QED
    BY <1>2, <2>1 DEF EntryType
<1>5. EntriesLinked(K, wf', nodes')
  BY <1>2, <1>3, <1>4 DEF EntriesLinked, Linked, Carries
<1>6. ListsLinked(K, wf', lists')
  BY <1>2, <1>3 DEF ListsLinked, TodoLinked, Linked, Carries
<1> QED
  BY <1>3, <1>5, <1>6 DEF LaunchesLinked

LEMMA SubmitLinks ==
  ASSUME NEW W, NEW S, NEW P, NEW K, Good(W, S, P), Linked(K), NEW i \in DOMAIN nodes,
         NEW payload \in Payloads(nodes[i].spec),
         AgentSubmits(i, payload) \/ WorkflowReports(i, payload)
  PROVE  LaunchesLinked(K)' /\ Carries(K, wf, wf')
<1>1. PICK run : nodes' = [nodes EXCEPT ![i] = Submitting(@, run, payload)]
  BY DEF AgentSubmits, WorkflowReports
<1> DEFINE entry == Submitting(nodes[i], run, payload)
<1>2. nodes \in Seq(EntryType(S, P)) /\ nodes[i] \in EntryType(S, P)
  BY DEF Good, Typed, ListsTyped
<1>3. entry.spec = nodes[i].spec /\ entry.said = {payload}
  BY <1>2 DEF EntryType, Submitting
<1>4. nodes' = [nodes EXCEPT ![i] = entry]
  BY <1>1
<1>5. UNCHANGED <<wf, lists>>
  BY DEF AgentSubmits, WorkflowReports, Enqueue
<1> HIDE DEF entry
<1>6. entry.said \subseteq Payloads(entry.spec)
  BY <1>3
<1>7. EntriesLinked(K, wf, nodes')
  BY <1>2, <1>3, <1>4, <1>6, OneLinked DEF Linked
<1> QED
  BY <1>5, <1>7 DEF LaunchesLinked, Linked, Carries

LEMMA StepLaunches ==
  ASSUME NEW W, NEW S, NEW P, NEW K, HooksTyped(W, S, P, K), Good(W, S, P), Linked(K),
         [Next]_vars
  PROVE  LaunchesLinked(K)' /\ Carries(K, wf, wf')
<1>0. /\ nodes \in Seq(EntryType(S, P)) /\ wf \in W
      /\ lists \in [Executors -> ListType(S)]
      /\ EntriesLinked(K, wf, nodes)
      /\ \A y \in Executors : TodoLinked(K, wf, lists[y].todo)
  BY DEF Good, Typed, ListsTyped, Linked, ListsLinked
<1>1. CASE Start
  <2> DEFINE x == "start"
             rest == <<>>
  <2>1. Proceed(x, wf, nodes, rest)
    BY <1>1 DEF Start
  <2>2. x \in Executors /\ rest \in Seq(S) /\ TodoLinked(K, wf, rest)
    BY DEF Executors, TodoLinked
  <2> HIDE DEF x, rest
  <2> QED
    BY <1>0, <2>1, <2>2, ProceedLinks DEF LaunchesLinked
<1>2. ASSUME NEW x \in Executors, LaunchReturns(x) \/ LaunchFails(x)
      PROVE  LaunchesLinked(K)' /\ Carries(K, wf, wf')
  BY <1>2, LaunchReturnsLinks, LaunchFailsLinks
<1>3. CASE TakeSubmission \/ TakeSettlement
  BY <1>3, CompletionLinks
<1>4. CASE UNCHANGED <<wf, nodes, lists>>
  BY <1>4 DEF LaunchesLinked, Linked, Carries
<1>5. CASE HandOver \/ TakeInterrupt \/ Interrupt \/ UNCHANGED vars
  BY <1>4, <1>5 DEF HandOver, TakeInterrupt, Interrupt, Enqueue, vars
<1>6. CASE FinishInterrupt
  BY <1>6, CancelLinks
<1>7. ASSUME NEW i \in DOMAIN nodes, NEW run, nodes' = [nodes EXCEPT ![i].run = run],
             UNCHANGED <<wf, lists>>
      PROVE  LaunchesLinked(K)' /\ Carries(K, wf, wf')
  BY <1>7, EntryLinks DEF LaunchesLinked, Linked, Carries
<1>8. CASE EndOperation
  <2>1. op.kind = "submit" => op.node \in DOMAIN nodes
    BY DEF Good, WorkflowInv, OperationInv
  <2>2. CASE op.kind = "submit"
    <3> DEFINE run == AfterAnswer(KindOf(nodes[op.node].spec), nodes[op.node].run, op.verdict)
    <3>1. nodes' = [nodes EXCEPT ![op.node].run = run] /\ UNCHANGED <<wf, lists>>
      BY <1>8, <2>2 DEF EndOperation
    <3> HIDE DEF run
    <3> QED
      BY <1>7, <2>1, <2>2, <3>1
  <2> QED
    BY <1>4, <1>8, <2>2 DEF EndOperation
<1>9. ASSUME NEW i \in DOMAIN nodes, NodeStep(i)
      PROVE  LaunchesLinked(K)' /\ Carries(K, wf, wf')
  <2>1. ASSUME NEW payload \in Payloads(nodes[i].spec),
               AgentSubmits(i, payload) \/ WorkflowReports(i, payload)
        PROVE  LaunchesLinked(K)' /\ Carries(K, wf, wf')
    BY <2>1, SubmitLinks
  <2>2. CASE AgentReports(i) \/ Monitor(i)
                \/ \E how \in {"failed", "rejected", "cancelled"} : RunEnds(i, how)
    <3>1. \E run \in {"reporting", "heard", "failed", "rejected", "cancelled"} :
            nodes' = [nodes EXCEPT ![i].run = run]
      BY <2>2 DEF AgentReports, Monitor, RunEnds
    <3>2. UNCHANGED <<wf, lists>>
      BY <2>2 DEF AgentReports, Monitor, RunEnds, Enqueue, EnqueueNothing
    <3> QED
      BY <1>7, <3>1, <3>2
  <2> QED
    BY <1>9, <2>1, <2>2 DEF NodeStep
<1> QED
  BY <1>1, <1>2, <1>3, <1>5, <1>6, <1>8, <1>9 DEF Next, RuntimeStep

(* What waits in the queue stays what its node's spec may submit. *)
LEMMA StepQueueLinked ==
  ASSUME NEW W, NEW S, NEW P, NEW K, Good(W, S, P), Linked(K), [Next]_vars
  PROVE  QueueLinked(nodes', queue')
<1>0. queue \in Seq(OperationType(P)) /\ QueueLinked(nodes, queue)
  BY DEF Good, Typed, Linked
<1>1. /\ DOMAIN nodes \subseteq DOMAIN nodes'
      /\ \A i \in DOMAIN nodes : nodes'[i].spec = nodes[i].spec
  <2>1. nodes \in Seq(EntryType(S, P)) /\ EntriesMove
    BY StepMoves DEF Good, Typed, ListsTyped
  <2> QED
    BY <2>1, StepMoves DEF EntriesMove, Moves, Next, vars
<1>2. \A k \in DOMAIN queue : queue[k].kind = "submit" =>
        queue[k].node \in DOMAIN nodes /\ queue[k].what \in Payloads(nodes'[queue[k].node].spec)
  BY <1>0, <1>1 DEF Good, WorkflowInv, WaitingInv, QueueLinked
<1>3. CASE UNCHANGED queue
  BY <1>2, <1>3 DEF QueueLinked
<1>4. CASE queue # <<>> /\ queue' = Tail(queue)
  <2>1. \A k \in DOMAIN queue' : k + 1 \in DOMAIN queue /\ queue'[k] = queue[k + 1]
    BY <1>0, <1>4
  <2> QED
    BY <1>2, <2>1 DEF QueueLinked
<1>5. ASSUME NEW kind, NEW i, NEW what, queue' = Append(queue, Operation(kind, i, what)),
             kind = "submit" => i \in DOMAIN nodes /\ what \in Payloads(nodes[i].spec)
      PROVE  QueueLinked(nodes', queue')
  <2> DEFINE new == Operation(kind, i, what)
  <2>1. new.kind = kind /\ new.node = i /\ new.what = what
    BY DEF Operation
  <2>2. queue' = Append(queue, new)
    BY <1>5
  <2> HIDE DEF new
  <2>3. /\ DOMAIN queue' = 1..Len(queue) + 1
        /\ \A k \in 1..Len(queue) : queue'[k] = queue[k]
        /\ queue'[Len(queue) + 1] = new
        /\ DOMAIN queue = 1..Len(queue) /\ Len(queue) \in Nat
    <3>1. queue \in Seq(OperationType(P) \cup {new})
      BY <1>0
    <3> QED
      BY <2>2, <3>1
  <2> SUFFICES ASSUME NEW k \in DOMAIN queue', queue'[k].kind = "submit"
               PROVE  queue'[k].what \in Payloads(nodes'[queue'[k].node].spec)
    BY DEF QueueLinked
  <2>4. k \in 1..Len(queue) \/ k = Len(queue) + 1
    BY <2>3
  <2> QED
    BY <1>1, <1>2, <1>5, <2>1, <2>3, <2>4
<1>6. CASE Start \/ HandOver \/ FinishInterrupt \/ EndOperation \/ UNCHANGED vars
  BY <1>3, <1>6 DEF Start, HandOver, FinishInterrupt, EndOperation, vars
<1>7. CASE TakeSubmission \/ TakeSettlement \/ TakeInterrupt
  BY <1>4, <1>7 DEF TakeSubmission, TakeSettlement, TakeInterrupt, Take
<1>8. ASSUME NEW x \in Executors, LaunchReturns(x) \/ LaunchFails(x)
      PROVE  QueueLinked(nodes', queue')
  BY <1>3, <1>8 DEF LaunchReturns, LaunchFails
<1>9. ASSUME NEW i \in DOMAIN nodes, NodeStep(i)
      PROVE  QueueLinked(nodes', queue')
  <2>1. ASSUME NEW payload \in Payloads(nodes[i].spec),
               AgentSubmits(i, payload) \/ WorkflowReports(i, payload)
        PROVE  QueueLinked(nodes', queue')
    BY <1>5, <2>1 DEF AgentSubmits, WorkflowReports, Enqueue
  <2>2. CASE AgentReports(i)
    <3>1. nodes[i].said \subseteq Payloads(nodes[i].spec)
      BY DEF Linked, EntriesLinked
    <3> QED
      BY <1>5, <2>2, <3>1 DEF AgentReports, Enqueue
  <2>3. CASE Monitor(i)
    BY <1>5, <2>3 DEF Monitor, Enqueue
  <2>4. CASE \E how \in {"failed", "rejected", "cancelled"} : RunEnds(i, how)
    BY <1>3, <2>4 DEF RunEnds, EnqueueNothing
  <2> QED
    BY <1>9, <2>1, <2>2, <2>3, <2>4 DEF NodeStep
<1>10. CASE Interrupt
  BY <1>5, <1>10 DEF Interrupt, Enqueue
<1> QED
  BY <1>6, <1>7, <1>8, <1>9, <1>10 DEF Next, RuntimeStep

LEMMA StepLinked ==
  ASSUME NEW W, NEW S, NEW P, NEW K, HooksTyped(W, S, P, K), Good(W, S, P), Linked(K),
         [Next]_vars
  PROVE  Linked(K)'
BY StepLaunches, StepQueueLinked DEF Linked, LaunchesLinked

LEMMA InitLinked ==
  ASSUME NEW K, Init
  PROVE  Linked(K)
<1>1. nodes = <<>> /\ queue = <<>> /\ \A x \in Executors : lists[x] = Idle
  BY DEF Init
<1> QED
  BY <1>1 DEF Linked, EntriesLinked, ListsLinked, QueueLinked, TodoLinked, Idle

(* The invariant holds of every workflow whose hooks have their types. *)
THEOREM WorkflowInvariant ==
  ASSUME NEW W, NEW S, NEW P, NEW K, HooksTyped(W, S, P, K)
  PROVE  Safety => [](Good(W, S, P) /\ Linked(K))
<1>1. Init => Good(W, S, P) /\ Linked(K)
  BY InitGood, InitLinked
<1>2. Good(W, S, P) /\ Linked(K) /\ [Next]_vars => Good(W, S, P)' /\ Linked(K)'
  BY StepGood, StepLinked
<1> QED BY <1>1, <1>2, PTL DEF Safety

(* For every workflow implementation, a node's end is counted once into the *)
(* workflow, whatever submissions, settlements, launch failures and         *)
(* interrupts race (workflow-runtime.ts:173 and 223).                       *)
THEOREM CountedOnceHolds ==
  ASSUME NEW W, NEW S, NEW P, NEW K, HooksTyped(W, S, P, K)
  PROVE  Safety => []CountedOnce
<1>1. Good(W, S, P) => CountedOnce
  <2> SUFFICES ASSUME Good(W, S, P), NEW i \in DOMAIN nodes
               PROVE  /\ nodes[i].counted <= 1
                      /\ nodes[i].status = "running" => nodes[i].counted = 0
                      /\ nodes[i].status \in {"completed", "failed", "rejected"}
                           => nodes[i].counted = 1
    BY DEF CountedOnce
  <2>1. EntryInv(nodes[i])
    BY DEF Good, WorkflowInv, NodesInv
  <2> QED BY <2>1 DEF EntryInv
<1> QED BY <1>1, WorkflowInvariant, PTL

(* For every workflow implementation, an agent whose submission was         *)
(* accepted, and a node run recorded as completed, have an entry that       *)
(* completed: "already finished" may be read as success (node-runner.ts:102).*)
THEOREM ToldTheTruthHolds ==
  ASSUME NEW W, NEW S, NEW P, NEW K, HooksTyped(W, S, P, K)
  PROVE  Safety => []ToldTheTruth
<1>1. Good(W, S, P) => ToldTheTruth
  BY DEF Good, WorkflowInv, NodesInv, EntryInv, ToldTheTruth
<1> QED BY <1>1, WorkflowInvariant, PTL

(* Both, for every workflow implementation: workflow and node run agree on  *)
(* how a node ended (workflow-runtime.ts:173, node-runner.ts:102).          *)
THEOREM EndsAgreeHolds ==
  ASSUME NEW W, NEW S, NEW P, NEW K, HooksTyped(W, S, P, K)
  PROVE  Safety => []EndsAgree
BY CountedOnceHolds, ToldTheTruthHolds, PTL DEF EndsAgree

-----------------------------------------------------------------------------
(* The queue holds submissions, settlements and the interrupt, of nodes     *)
(* that exist.                                                              *)
LEMMA StepQueue ==
  ASSUME NEW W, NEW S, NEW P, Good(W, S, P), [Next]_vars,
         Len(nodes) <= Len(nodes'), QueueRange
  PROVE  QueueRange'
<1>0. queue \in Seq(OperationType(P)) /\ Len(nodes) \in Nat /\ DOMAIN nodes = 1..Len(nodes)
  <2>1. nodes \in Seq(EntryType(S, P))
    BY DEF Good, Typed, ListsTyped
  <2> QED
    BY <2>1 DEF Good, Typed
<1>1. Len(nodes') \in Nat
  BY <1>0, StepMoves DEF EntriesMove, Next, vars
<1>2. CASE UNCHANGED queue
  BY <1>0, <1>1, <1>2 DEF QueueRange
<1>3. CASE queue # <<>> /\ queue' = Tail(queue)
  BY <1>0, <1>1, <1>3 DEF QueueRange
<1>4. ASSUME NEW kind \in {"submit", "settle", "interrupt"}, NEW i \in 0..Len(nodes), NEW what,
             queue' = Append(queue, Operation(kind, i, what))
      PROVE  QueueRange'
  <2> DEFINE new == Operation(kind, i, what)
  <2>1. new.kind = kind /\ new.node = i
    BY DEF Operation
  <2> HIDE DEF new
  <2>2. /\ DOMAIN queue' = 1..Len(queue) + 1
        /\ \A k \in 1..Len(queue) : queue'[k] = queue[k]
        /\ queue'[Len(queue) + 1] = new
    <3>1. queue \in Seq(OperationType(P) \cup {new})
      BY <1>0
    <3> QED
      BY <1>4, <3>1 DEF new
  <2> QED
    BY <1>0, <1>1, <2>1, <2>2 DEF QueueRange
<1>5. CASE Start \/ HandOver \/ FinishInterrupt \/ EndOperation \/ UNCHANGED vars
  BY <1>2, <1>5 DEF Start, HandOver, FinishInterrupt, EndOperation, vars
<1>6. CASE TakeSubmission \/ TakeSettlement \/ TakeInterrupt
  BY <1>3, <1>6 DEF TakeSubmission, TakeSettlement, TakeInterrupt, Take
<1>7. ASSUME NEW x \in Executors, LaunchReturns(x) \/ LaunchFails(x)
      PROVE  QueueRange'
  BY <1>2, <1>7 DEF LaunchReturns, LaunchFails
<1>8. ASSUME NEW i \in DOMAIN nodes, NodeStep(i)
      PROVE  QueueRange'
  <2>0. i \in 0..Len(nodes)
    BY <1>0
  <2>1. UNCHANGED queue \/ \E kind \in {"submit", "settle"} : \E what :
          queue' = Append(queue, Operation(kind, i, what))
    BY <1>8 DEF NodeStep, AgentSubmits, WorkflowReports, AgentReports, RunEnds, Monitor,
                Enqueue, EnqueueNothing
  <2> QED
    BY <1>2, <1>4, <2>0, <2>1
<1>9. CASE Interrupt
  BY <1>0, <1>4, <1>9 DEF Interrupt, Enqueue
<1> QED
  BY <1>5, <1>6, <1>7, <1>8, <1>9 DEF Next, RuntimeStep

(* The executing operation is about nodes that exist. *)
LEMMA StepOperation ==
  ASSUME NEW W, NEW S, NEW P, Good(W, S, P), [Next]_vars,
         Good(W, S, P)', QueueRange, OpRange
  PROVE  OpRange'
<1>0. /\ nodes \in Seq(EntryType(S, P)) /\ nodes' \in Seq(EntryType(S, P))
      /\ queue \in Seq(OperationType(P)) /\ op \in ExecutingType
  BY DEF Good, Typed, ListsTyped
<1>1. /\ Len(nodes) \in Nat /\ DOMAIN nodes = 1..Len(nodes)
      /\ Len(nodes') \in Nat /\ DOMAIN nodes' = 1..Len(nodes')
  BY <1>0
<1>2. Len(nodes) <= Len(nodes')
  BY StepMoves DEF EntriesMove
<1>3. ASSUME NEW new, op' = new, new.node \in 0..Len(nodes), new.running \subseteq DOMAIN nodes
      PROVE  OpRange'
  BY <1>1, <1>2, <1>3 DEF OpRange
<1>4. CASE UNCHANGED op
  BY <1>3, <1>4 DEF OpRange
<1>5. ASSUME NEW verdict, op' = [op EXCEPT !.verdict = verdict]
      PROVE  OpRange'
  <2>1. op'.node = op.node /\ op'.running = op.running
    BY <1>0, <1>5 DEF ExecutingType
  <2> QED
    BY <1>3, <2>1 DEF OpRange
<1>6. ASSUME NEW kind, Take(kind)
      PROVE  Head(queue).node \in 0..Len(nodes)
  <2>1. Head(queue) = queue[1] /\ 1 \in DOMAIN queue
    BY <1>0, <1>6 DEF Take
  <2> QED
    BY <2>1 DEF QueueRange
<1>7. ASSUME NEW kind, Take(kind), NEW verdict, op' = Begun(verdict)
      PROVE  OpRange'
  BY <1>3, <1>6, <1>7 DEF Begun
<1>8. CASE op' = NoOp
  BY <1>1, <1>3, <1>8 DEF NoOp
<1>9. CASE TakeSubmission \/ TakeSettlement
  <2>1. \E kind, verdict : Take(kind) /\ op' = Begun(verdict)
    BY <1>9 DEF TakeSubmission, TakeSettlement
  <2> QED
    BY <1>7, <2>1
<1>10. CASE TakeInterrupt
  <2>1. CASE op' = Begun("void")
    BY <1>7, <1>10, <2>1 DEF TakeInterrupt
  <2>2. CASE op' = [Begun("stopping") EXCEPT !.running = Running(nodes)]
    <3>1. op'.node = Head(queue).node /\ op'.running = Running(nodes)
      BY <2>2 DEF Begun
    <3> QED
      BY <1>3, <1>6, <1>10, <3>1 DEF TakeInterrupt, Running
  <2> QED
    BY <1>10, <2>1, <2>2 DEF TakeInterrupt
<1>11. ASSUME NEW x \in Executors, LaunchFails(x)
       PROVE  OpRange'
  <2>1. UNCHANGED op \/ op' = [op EXCEPT !.verdict = "threw"]
    BY <1>11 DEF LaunchFails, Throw
  <2> QED
    BY <1>4, <1>5, <2>1
<1>12. ASSUME NEW i \in DOMAIN nodes, NodeStep(i)
       PROVE  OpRange'
  BY <1>4, <1>12 DEF NodeStep, AgentSubmits, WorkflowReports, AgentReports, RunEnds, Monitor,
                     Enqueue, EnqueueNothing
<1>13. CASE Start \/ HandOver \/ Interrupt \/ (\E x \in Executors : LaunchReturns(x))
              \/ UNCHANGED vars
  BY <1>4, <1>13 DEF Start, HandOver, Interrupt, LaunchReturns, Enqueue, vars
<1>14. CASE FinishInterrupt
  BY <1>5, <1>14 DEF FinishInterrupt
<1>15. CASE EndOperation
  BY <1>8, <1>15 DEF EndOperation
<1> QED
  BY <1>9, <1>10, <1>11, <1>12, <1>13, <1>14, <1>15 DEF Next, RuntimeStep

(* The flags, as long as the outcome keeps its type. *)
LEMMA StepFlags ==
  ASSUME [Next]_vars, FlagRange, outcome' \in Outcomes
  PROVE  FlagRange'
<1>1. CASE aborted' \in {aborted, TRUE} /\ started' \in {started, "dispatching", "handed", "threw"}
  BY <1>1 DEF FlagRange
<1>2. CASE Start \/ HandOver \/ TakeInterrupt \/ FinishInterrupt \/ EndOperation
             \/ TakeSubmission \/ TakeSettlement \/ Interrupt \/ UNCHANGED vars
  BY <1>1, <1>2 DEF Start, HandOver, TakeInterrupt, FinishInterrupt, EndOperation,
                    TakeSubmission, TakeSettlement, Interrupt, Enqueue, vars
<1>3. ASSUME NEW x \in Executors, LaunchReturns(x) \/ LaunchFails(x)
      PROVE  FlagRange'
  <2>1. CASE LaunchReturns(x)
    BY <1>1, <2>1 DEF LaunchReturns
  <2>2. CASE LaunchFails(x)
    BY <1>1, <2>2 DEF LaunchFails, Throw
  <2> QED
    BY <1>3, <2>1, <2>2
<1>4. ASSUME NEW i \in DOMAIN nodes, NodeStep(i)
      PROVE  FlagRange'
  BY <1>1, <1>4 DEF NodeStep, AgentSubmits, WorkflowReports, AgentReports, RunEnds, Monitor,
                    Enqueue, EnqueueNothing
<1> QED
  BY <1>2, <1>3, <1>4 DEF Next, RuntimeStep

(* A workflow that is done says how it ended, and that is the outcome. *)
SaysHow(W) == \A w \in W : w.done => w.status \in Outcomes

LEMMA StepOutcome ==
  ASSUME NEW W, SaysHow(W), wf' \in W, [Next]_vars, outcome \in Outcomes
  PROVE  outcome' \in Outcomes
<1>1. ASSUME NEW x, NEW state, NEW ns, NEW rest, Proceed(x, state, ns, rest)
      PROVE  outcome' \in Outcomes
  <2>1. outcome' = OutcomeAfter(state, ns)
    BY <1>1 DEF Proceed
  <2>2. CASE outcome # "none" \/ ~state.done
    BY <2>1, <2>2 DEF OutcomeAfter, Outcomes
  <2>3. CASE outcome = "none" /\ state.done
    <3>1. wf' = state
      BY <1>1, <2>3 DEF Proceed, IsStuck
    <3> QED
      BY <2>1, <2>3, <3>1 DEF OutcomeAfter, SaysHow
  <2> QED
    BY <2>2, <2>3
<1>2. CASE Start \/ TakeSubmission \/ TakeSettlement
  BY <1>1, <1>2 DEF Start, TakeSubmission, TakeSettlement, ApplySettlement
<1>3. ASSUME NEW x \in Executors, LaunchReturns(x) \/ LaunchFails(x)
      PROVE  outcome' \in Outcomes
  BY <1>1, <1>3 DEF LaunchReturns, LaunchFails, ApplySettlement
<1>4. CASE HandOver \/ TakeInterrupt \/ EndOperation \/ Interrupt \/ UNCHANGED vars
  BY <1>4 DEF HandOver, TakeInterrupt, EndOperation, Interrupt, Enqueue, vars
<1>5. CASE FinishInterrupt
  BY <1>5 DEF FinishInterrupt, Outcomes
<1>6. ASSUME NEW i \in DOMAIN nodes, NodeStep(i)
      PROVE  outcome' \in Outcomes
  BY <1>6 DEF NodeStep, AgentSubmits, WorkflowReports, AgentReports, RunEnds, Monitor,
              Enqueue, EnqueueNothing
<1> QED
  BY <1>2, <1>3, <1>4, <1>5, <1>6 DEF Next, RuntimeStep

LEMMA RangeInit ==
  ASSUME Init
  PROVE  RangeInv
<1>1. nodes = <<>> /\ queue = <<>> /\ op = NoOp
      /\ aborted = FALSE /\ started = "no" /\ outcome = "none"
  BY DEF Init
<1>2. Len(nodes) = 0 /\ DOMAIN nodes = {} /\ DOMAIN queue = {}
  BY <1>1
<1>3. \A i \in DOMAIN nodes : Bounded(nodes[i])
  BY <1>2
<1>4. QueueRange
  BY <1>2 DEF QueueRange
<1>5. OpRange
  BY <1>1, <1>2 DEF OpRange, NoOp
<1>6. FlagRange
  BY <1>1 DEF FlagRange, Outcomes
<1> QED
  BY <1>3, <1>4, <1>5, <1>6 DEF RangeInv

LEMMA StepRange ==
  ASSUME NEW W, NEW S, NEW P, Good(W, S, P), Good(W, S, P)', RangeInv, [Next]_vars,
         outcome' \in Outcomes
  PROVE  RangeInv'
<1>1. EntriesMove
  BY StepMoves
<1>2. QueueRange'
  BY <1>1, StepQueue DEF EntriesMove, RangeInv
<1>3. OpRange'
  BY StepOperation DEF RangeInv
<1>4. FlagRange'
  BY StepFlags DEF RangeInv
<1>5. ASSUME NEW i \in DOMAIN nodes'
      PROVE  Bounded(nodes'[i])
  <2>1. CASE i \in DOMAIN nodes
    <3>1. nodes[i] \in EntryType(S, P)
      BY <2>1 DEF Good, Typed, ListsTyped
    <3>2. Moves(nodes[i], nodes'[i]) /\ Bounded(nodes[i])
      BY <1>1, <2>1 DEF EntriesMove, RangeInv
    <3> QED
      BY <3>1, <3>2, MovesBounded
  <2>2. CASE i \notin DOMAIN nodes
    BY <1>1, <2>2, BoundAssumption DEF EntriesMove, Fresh, Bounded
  <2> QED
    BY <2>1, <2>2
<1> QED
  BY <1>2, <1>3, <1>4, <1>5 DEF RangeInv

LEMMA RangeTypes ==
  ASSUME NEW W, NEW S, NEW P, Good(W, S, P), RangeInv
  PROVE  RunTypeOK
<1>1. ASSUME NEW i \in DOMAIN nodes
      PROVE  EntryTypeOK(nodes[i])
  <2>1. nodes[i] \in EntryType(S, P)
    BY DEF Good, Typed, ListsTyped
  <2>2. nodes[i].tries \in 0..MaxSubmissions + 1
    BY <2>1, BoundAssumption DEF EntryType, RangeInv, Bounded
  <2> QED
    BY <2>1, <2>2 DEF EntryType, EntryTypeOK, Runs
<1>2. ASSUME NEW x \in Executors
      PROVE  lists[x].at \in 0..Len(nodes)
  <2>1. nodes \in Seq(EntryType(S, P))
    BY DEF Good, Typed, ListsTyped
  <2>2. CASE lists[x] = Idle
    BY <2>1, <2>2 DEF Idle
  <2>3. CASE lists[x] # Idle
    BY <2>1, <2>3 DEF Good, Typed, ListsTyped
  <2> QED
    BY <2>2, <2>3
<1> QED
  BY <1>1, <1>2 DEF RangeInv, QueueRange, OpRange, FlagRange, Outcomes, RunTypeOK

(* The runtime's own variables keep their types, for any workflow whose     *)
(* hooks have theirs and which says how it ended when it is done: a launch  *)
(* list, a waiting operation and an interrupt only ever name entries that   *)
(* exist (workflow-runtime.ts, #nodes is never shortened), and no node      *)
(* submits more often than its budget and its report allow.                 *)
THEOREM RunTypesHold ==
  ASSUME NEW W, NEW S, NEW P, NEW K, HooksTyped(W, S, P, K), SaysHow(W)
  PROVE  Safety => []RunTypeOK
<1>1. Init => Good(W, S, P) /\ RangeInv
  BY InitGood, RangeInit
<1>2. Good(W, S, P) /\ Good(W, S, P)' /\ RangeInv /\ [Next]_vars => RangeInv'
  <2> SUFFICES ASSUME Good(W, S, P), Good(W, S, P)', RangeInv, [Next]_vars
               PROVE  RangeInv'
    OBVIOUS
  <2>2. outcome' \in Outcomes
    BY StepOutcome DEF Good, Typed, RangeInv, FlagRange
  <2> QED
    BY <2>2, StepRange
<1>3. Good(W, S, P) /\ RangeInv => RunTypeOK
  BY RangeTypes
<1>4. Safety => []Good(W, S, P)
  BY WorkflowInvariant, PTL
<1> QED
  BY <1>1, <1>2, <1>3, <1>4, PTL DEF Safety
-----------------------------------------------------------------------------
(* Who is told what: the submissions that wait or are being answered, when  *)
(* no launch fails or every settlement of a running node is valid.          *)
LEMMA GoodFacts ==
  ASSUME NEW W, NEW S, NEW P, Good(W, S, P)
  PROVE  /\ wf \in W
         /\ nodes \in Seq(EntryType(S, P))
         /\ Len(nodes) \in Nat /\ DOMAIN nodes = 1..Len(nodes)
         /\ lists \in [Executors -> ListType(S)]
         /\ \A x \in Executors : lists[x] # Idle => lists[x].at \in DOMAIN nodes
         /\ queue \in Seq(OperationType(P))
         /\ op \in ExecutingType
<1>1. nodes \in Seq(EntryType(S, P))
  BY DEF Good, Typed, ListsTyped
<1>2. Len(nodes) \in Nat /\ DOMAIN nodes = 1..Len(nodes)
  BY <1>1
<1> QED
  BY <1>1, <1>2 DEF Good, Typed, ListsTyped

LEMMA GoodEntry ==
  ASSUME NEW W, NEW S, NEW P, Good(W, S, P), NEW i \in DOMAIN nodes
  PROVE  /\ nodes[i] \in EntryType(S, P)
         /\ nodes[i].spec \in S
         /\ EntryInv(nodes[i])
<1>1. nodes[i] \in EntryType(S, P)
  BY GoodFacts
<1> QED
  BY <1>1 DEF EntryType, Good, WorkflowInv, NodesInv

(* A submission that waits or is being answered says what its node said:    *)
(* the node is at it, and a node has one at a time.                         *)
Says(entry, payload) ==
  entry.run \notin {"working", "accepted"} /\ entry.said = {payload}

IsSubmission(k) == k \in DOMAIN queue /\ queue[k].kind = "submit"

PendingInv ==
  /\ \A i \in DOMAIN nodes : \A one, other \in nodes[i].said : one = other
  /\ \A k \in DOMAIN queue : IsSubmission(k) => Says(nodes[queue[k].node], queue[k].what)
  /\ \A k, l \in DOMAIN queue :
       IsSubmission(k) /\ IsSubmission(l) /\ queue[k].node = queue[l].node => k = l
  /\ op.kind = "submit" =>
       /\ nodes[op.node].run \notin {"working", "accepted"}
       /\ op.verdict # "threw"
       /\ \A k \in DOMAIN queue : IsSubmission(k) => queue[k].node # op.node
  /\ \A i \in DOMAIN nodes : nodes[i].status = "completed" =>
       /\ nodes[i].run # "working"
       /\ nodes[i].run = "asking" =>
            op.kind = "submit" /\ op.node = i /\ op.verdict = "accept"

(* Submissions in the queue, and being answered.                            *)
LEMMA QueueFacts ==
  ASSUME NEW W, NEW S, NEW P, Good(W, S, P)
  PROVE  /\ \A k \in DOMAIN queue : IsSubmission(k) =>
               queue[k].node \in DOMAIN nodes /\ queue[k].what \in P
         /\ op.kind = "submit" => op.node \in DOMAIN nodes
         /\ op.kind = "submit" /\ op.verdict = "accept" => nodes[op.node].status = "completed"
BY DEF Good, Typed, WorkflowInv, WaitingInv, OperationInv, IsSubmission

LEMMA TailFacts ==
  ASSUME NEW W, NEW S, NEW P, Good(W, S, P), queue # <<>>, queue' = Tail(queue)
  PROVE  /\ 1 \in DOMAIN queue /\ Head(queue) = queue[1]
         /\ \A k \in DOMAIN queue' :
              k + 1 \in DOMAIN queue /\ k + 1 # 1 /\ queue'[k] = queue[k + 1] /\ k \in Nat
<1>1. queue \in Seq(OperationType(P))
  BY GoodFacts
<1> QED
  BY <1>1

LEMMA AppendFacts ==
  ASSUME NEW W, NEW S, NEW P, Good(W, S, P), NEW operation, queue' = Append(queue, operation)
  PROVE  /\ DOMAIN queue \subseteq DOMAIN queue' /\ Len(queue) + 1 \in DOMAIN queue'
         /\ \A k \in DOMAIN queue : queue'[k] = queue[k]
         /\ \A k \in DOMAIN queue' :
              \/ k \in DOMAIN queue /\ queue'[k] = queue[k]
              \/ k = Len(queue) + 1 /\ queue'[k] = operation
<1>1. queue \in Seq(OperationType(P))
  BY GoodFacts
<1>2. Len(queue) \in Nat /\ DOMAIN queue = 1..Len(queue) /\ DOMAIN queue' = 1..(Len(queue) + 1)
  BY <1>1
<1> QED
  BY <1>1, <1>2

(* The submissions of the next queue are submissions of this one.           *)
LEMMA QueueShrinks ==
  ASSUME NEW W, NEW S, NEW P, Good(W, S, P), PendingInv,
         \/ queue' = queue
         \/ queue # <<>> /\ queue' = Tail(queue)
         \/ \E operation : operation.kind # "submit" /\ queue' = Append(queue, operation)
  PROVE  /\ \A k \in DOMAIN queue' : IsSubmission(k)' =>
              \E l \in DOMAIN queue : IsSubmission(l) /\ queue'[k] = queue[l]
         /\ \A k, l \in DOMAIN queue' :
              IsSubmission(k)' /\ IsSubmission(l)' /\ queue'[k].node = queue'[l].node => k = l
<1>1. CASE queue' = queue
  BY <1>1 DEF PendingInv, IsSubmission
<1>2. CASE queue # <<>> /\ queue' = Tail(queue)
  <2>1. \A k \in DOMAIN queue' :
          k + 1 \in DOMAIN queue /\ queue'[k] = queue[k + 1] /\ k \in Nat
    BY <1>2, TailFacts
  <2>2. \A k \in DOMAIN queue' : IsSubmission(k)' => IsSubmission(k + 1)
    BY <2>1 DEF IsSubmission
  <2>3. \A k, l \in DOMAIN queue' :
          IsSubmission(k)' /\ IsSubmission(l)' /\ queue'[k].node = queue'[l].node => k + 1 = l + 1
    BY <2>1, <2>2 DEF PendingInv
  <2>4. \A k, l \in DOMAIN queue' :
          IsSubmission(k)' /\ IsSubmission(l)' /\ queue'[k].node = queue'[l].node => k = l
    BY <2>1, <2>3
  <2>5. \A k \in DOMAIN queue' : IsSubmission(k)' =>
          \E l \in DOMAIN queue : IsSubmission(l) /\ queue'[k] = queue[l]
    BY <2>1, <2>2
  <2> QED
    BY <2>4, <2>5
<1>3. ASSUME NEW operation, operation.kind # "submit", queue' = Append(queue, operation)
      PROVE  \A k \in DOMAIN queue' : IsSubmission(k)' => IsSubmission(k) /\ queue'[k] = queue[k]
  BY <1>3, AppendFacts DEF IsSubmission
<1>4. CASE \E operation : operation.kind # "submit" /\ queue' = Append(queue, operation)
  <2>1. \A k \in DOMAIN queue' : IsSubmission(k)' => IsSubmission(k) /\ queue'[k] = queue[k]
    BY <1>3, <1>4
  <2> QED
    BY <2>1 DEF PendingInv, IsSubmission
<1> QED
  BY <1>1, <1>2, <1>4

(* Steps without a submission: a node run may end, nobody speaks.           *)
Silent ==
  /\ op' = op \/ (op.kind # "submit" /\ op'.kind # "submit")
  /\ DOMAIN nodes \subseteq DOMAIN nodes'
  /\ \A i \in DOMAIN nodes :
       /\ nodes'[i].said = nodes[i].said
       /\ nodes'[i].run = nodes[i].run \/ nodes'[i].run \notin {"working", "accepted", "asking"}
       /\ nodes'[i].status = "completed" => nodes[i].status = "completed"
  /\ \A i \in DOMAIN nodes' \ DOMAIN nodes :
       nodes'[i].said = {} /\ nodes'[i].status # "completed"
  /\ \/ queue' = queue
     \/ queue # <<>> /\ queue' = Tail(queue)
     \/ \E operation : operation.kind # "submit" /\ queue' = Append(queue, operation)

LEMMA PendingSilent ==
  ASSUME NEW W, NEW S, NEW P, Good(W, S, P), PendingInv, Silent
  PROVE  PendingInv'
<1>1. /\ \A k \in DOMAIN queue' : IsSubmission(k)' =>
            \E l \in DOMAIN queue : IsSubmission(l) /\ queue'[k] = queue[l]
      /\ \A k, l \in DOMAIN queue' :
            IsSubmission(k)' /\ IsSubmission(l)' /\ queue'[k].node = queue'[l].node => k = l
  BY QueueShrinks DEF Silent
<1>2. \A i \in DOMAIN nodes' : \A one, other \in nodes'[i].said : one = other
  BY DEF Silent, PendingInv
<1>3. \A k \in DOMAIN queue' : IsSubmission(k)' => Says(nodes'[queue'[k].node], queue'[k].what)
  <2> SUFFICES ASSUME NEW k \in DOMAIN queue', IsSubmission(k)'
               PROVE  Says(nodes'[queue'[k].node], queue'[k].what)
    OBVIOUS
  <2>1. PICK l \in DOMAIN queue : IsSubmission(l) /\ queue'[k] = queue[l]
    BY <1>1
  <2>2. queue[l].node \in DOMAIN nodes /\ Says(nodes[queue[l].node], queue[l].what)
    BY <2>1, QueueFacts DEF PendingInv
  <2> QED
    BY <2>1, <2>2 DEF Says, Silent
<1>4. op'.kind = "submit" =>
        /\ nodes'[op'.node].run \notin {"working", "accepted"}
        /\ op'.verdict # "threw"
        /\ \A k \in DOMAIN queue' : IsSubmission(k)' => queue'[k].node # op'.node
  <2> SUFFICES ASSUME op'.kind = "submit"
               PROVE  /\ nodes'[op'.node].run \notin {"working", "accepted"}
                      /\ op'.verdict # "threw"
                      /\ \A k \in DOMAIN queue' : IsSubmission(k)' => queue'[k].node # op'.node
    OBVIOUS
  <2>1. op' = op
    BY DEF Silent
  <2>2. /\ op.node \in DOMAIN nodes /\ op.verdict # "threw"
        /\ nodes[op.node].run \notin {"working", "accepted"}
        /\ \A k \in DOMAIN queue : IsSubmission(k) => queue[k].node # op.node
    BY <2>1, QueueFacts DEF PendingInv
  <2> QED
    BY <1>1, <2>1, <2>2 DEF Silent
<1>5. ASSUME NEW i \in DOMAIN nodes', nodes'[i].status = "completed"
      PROVE  /\ nodes'[i].run # "working"
             /\ nodes'[i].run = "asking" =>
                  op'.kind = "submit" /\ op'.node = i /\ op'.verdict = "accept"
  <2>1. i \in DOMAIN nodes /\ nodes[i].status = "completed"
    BY <1>5 DEF Silent
  <2>2. /\ nodes[i].run # "working"
        /\ nodes[i].run = "asking" => op.kind = "submit" /\ op.node = i /\ op.verdict = "accept"
    BY <2>1 DEF PendingInv
  <2>3. nodes'[i].run = nodes[i].run \/ nodes'[i].run \notin {"working", "accepted", "asking"}
    BY <2>1 DEF Silent
  <2>4. op' = op \/ op.kind # "submit"
    BY DEF Silent
  <2> QED
    BY <2>2, <2>3, <2>4
<1> QED
  BY <1>1, <1>2, <1>3, <1>4, <1>5 DEF PendingInv

(* A node run submits: it was not waiting for an answer.                    *)
Speaks(i, payload) ==
  /\ nodes[i].run \in {"working", "accepted"}
  /\ nodes'[i].run \in {"asking", "reporting"} /\ nodes'[i].said = {payload}
  /\ nodes'[i].status = nodes[i].status
  /\ nodes'[i].run = "asking" => nodes[i].status # "completed"
  /\ DOMAIN nodes' = DOMAIN nodes
  /\ \A j \in DOMAIN nodes \ {i} : nodes'[j] = nodes[j]
  /\ queue' = Append(queue, Operation("submit", i, payload))
  /\ op' = op

LEMMA PendingSpeaks ==
  ASSUME NEW W, NEW S, NEW P, Good(W, S, P), PendingInv, NEW i \in DOMAIN nodes, NEW payload, Speaks(i, payload)
  PROVE  PendingInv'
<1> DEFINE operation == Operation("submit", i, payload)
<1>1. operation.kind = "submit" /\ operation.node = i /\ operation.what = payload
  BY DEF Operation
<1>2. \A k \in DOMAIN queue' :
        \/ k \in DOMAIN queue /\ queue'[k] = queue[k]
        \/ k = Len(queue) + 1 /\ queue'[k] = operation
  BY AppendFacts DEF Speaks
<1> HIDE DEF operation
<1>3. \A k \in DOMAIN queue : IsSubmission(k) =>
        queue[k].node \in DOMAIN nodes \ {i} /\ Says(nodes[queue[k].node], queue[k].what)
  BY QueueFacts DEF PendingInv, Says, Speaks
<1>4. \A k \in DOMAIN queue' : IsSubmission(k)' =>
        \/ IsSubmission(k) /\ queue'[k] = queue[k]
        \/ k = Len(queue) + 1 /\ queue'[k] = operation
  BY <1>2 DEF IsSubmission
<1>5. \A j \in DOMAIN nodes' : \A one, other \in nodes'[j].said : one = other
  BY DEF Speaks, PendingInv
<1>6. \A k \in DOMAIN queue' : IsSubmission(k)' => Says(nodes'[queue'[k].node], queue'[k].what)
  BY <1>1, <1>3, <1>4 DEF Says, Speaks, IsSubmission
<1>7. \A k, l \in DOMAIN queue' :
        IsSubmission(k)' /\ IsSubmission(l)' /\ queue'[k].node = queue'[l].node => k = l
  BY <1>1, <1>3, <1>4 DEF PendingInv, IsSubmission
<1>8. op'.kind = "submit" =>
        /\ nodes'[op'.node].run \notin {"working", "accepted"}
        /\ op'.verdict # "threw"
        /\ \A k \in DOMAIN queue' : IsSubmission(k)' => queue'[k].node # op'.node
  <2> SUFFICES ASSUME op'.kind = "submit"
               PROVE  /\ nodes'[op'.node].run \notin {"working", "accepted"}
                      /\ op'.verdict # "threw"
                      /\ \A k \in DOMAIN queue' : IsSubmission(k)' => queue'[k].node # op'.node
    OBVIOUS
  <2>1. /\ op' = op /\ op.node \in DOMAIN nodes /\ op.verdict # "threw"
        /\ nodes[op.node].run \notin {"working", "accepted"}
        /\ \A k \in DOMAIN queue : IsSubmission(k) => queue[k].node # op.node
    BY QueueFacts DEF PendingInv, Speaks
  <2>2. op.node # i
    BY <2>1 DEF Speaks
  <2> QED
    BY <1>1, <1>4, <2>1, <2>2 DEF Speaks, IsSubmission
<1>9. ASSUME NEW j \in DOMAIN nodes', nodes'[j].status = "completed"
      PROVE  /\ nodes'[j].run # "working"
             /\ nodes'[j].run = "asking" =>
                  op'.kind = "submit" /\ op'.node = j /\ op'.verdict = "accept"
  <2>1. CASE j = i
    BY <1>9, <2>1 DEF Speaks
  <2>2. CASE j # i
    BY <1>9, <2>2 DEF Speaks, PendingInv
  <2> QED
    BY <2>1, <2>2
<1> QED
  BY <1>5, <1>6, <1>7, <1>8, <1>9 DEF PendingInv

(* A submission is taken from the queue and answered.                       *)
Answering(i, verdict) ==
  /\ op.kind = "none" /\ queue # <<>> /\ queue' = Tail(queue)
  /\ Head(queue).kind = "submit" /\ Head(queue).node = i
  /\ op'.kind = "submit" /\ op'.node = i /\ op'.verdict = verdict /\ verdict # "threw"
  /\ DOMAIN nodes \subseteq DOMAIN nodes'
  /\ \A j \in DOMAIN nodes :
       /\ nodes'[j].said = nodes[j].said
       /\ nodes'[j].run = nodes[j].run \/ nodes'[j].run \notin {"working", "accepted", "asking"}
       /\ nodes'[j].status = "completed" =>
            nodes[j].status = "completed" \/ (j = i /\ verdict = "accept")
  /\ \A j \in DOMAIN nodes' \ DOMAIN nodes :
       nodes'[j].said = {} /\ nodes'[j].status # "completed"

LEMMA PendingAnswering ==
  ASSUME NEW W, NEW S, NEW P, Good(W, S, P), PendingInv, NEW i, NEW verdict, Answering(i, verdict)
  PROVE  PendingInv'
<1>1. /\ 1 \in DOMAIN queue /\ Head(queue) = queue[1]
      /\ \A k \in DOMAIN queue' :
           k + 1 \in DOMAIN queue /\ k + 1 # 1 /\ queue'[k] = queue[k + 1] /\ k \in Nat
  BY TailFacts DEF Answering
<1>2. IsSubmission(1) /\ queue[1].node = i
  BY <1>1 DEF Answering, IsSubmission
<1>3. i \in DOMAIN nodes /\ nodes[i].run \notin {"working", "accepted"}
  BY <1>1, <1>2, QueueFacts DEF PendingInv, Says
<1>4. /\ \A k \in DOMAIN queue' : IsSubmission(k)' =>
            \E l \in DOMAIN queue : IsSubmission(l) /\ queue'[k] = queue[l]
      /\ \A k, l \in DOMAIN queue' :
            IsSubmission(k)' /\ IsSubmission(l)' /\ queue'[k].node = queue'[l].node => k = l
  BY QueueShrinks DEF Answering
<1>5. \A j \in DOMAIN nodes' : \A one, other \in nodes'[j].said : one = other
  BY DEF Answering, PendingInv
<1>6. \A k \in DOMAIN queue' : IsSubmission(k)' => Says(nodes'[queue'[k].node], queue'[k].what)
  <2> SUFFICES ASSUME NEW k \in DOMAIN queue', IsSubmission(k)'
               PROVE  Says(nodes'[queue'[k].node], queue'[k].what)
    OBVIOUS
  <2>1. PICK l \in DOMAIN queue : IsSubmission(l) /\ queue'[k] = queue[l]
    BY <1>4
  <2>2. queue[l].node \in DOMAIN nodes /\ Says(nodes[queue[l].node], queue[l].what)
    BY <2>1, QueueFacts DEF PendingInv
  <2> QED
    BY <2>1, <2>2 DEF Says, Answering
<1>7. \A k \in DOMAIN queue' : IsSubmission(k)' => queue'[k].node # i
  <2> SUFFICES ASSUME NEW k \in DOMAIN queue', IsSubmission(k)', queue'[k].node = i
               PROVE  FALSE
    OBVIOUS
  <2>1. k + 1 \in DOMAIN queue /\ k + 1 # 1 /\ queue'[k] = queue[k + 1]
    BY <1>1
  <2>2. IsSubmission(k + 1) /\ queue[k + 1].node = queue[1].node
    BY <1>2, <2>1 DEF IsSubmission
  <2> DEFINE l == k + 1
  <2>3. l \in DOMAIN queue /\ l # 1 /\ IsSubmission(l) /\ queue[l].node = queue[1].node
    BY <2>1, <2>2
  <2> HIDE DEF l
  <2> QED
    BY <1>1, <1>2, <2>3 DEF PendingInv
<1>8. /\ nodes'[i].run \notin {"working", "accepted"}
      /\ op'.kind = "submit" /\ op'.node = i /\ op'.verdict # "threw"
  BY <1>3 DEF Answering
<1>9. ASSUME NEW j \in DOMAIN nodes', nodes'[j].status = "completed"
      PROVE  /\ nodes'[j].run # "working"
             /\ nodes'[j].run = "asking" =>
                  op'.kind = "submit" /\ op'.node = j /\ op'.verdict = "accept"
  <2>1. j \in DOMAIN nodes
    BY <1>9 DEF Answering
  <2>2. CASE nodes[j].status = "completed"
    <3>1. nodes[j].run \notin {"working", "asking"}
      BY <2>1, <2>2 DEF PendingInv, Answering
    <3> QED
      BY <2>1, <3>1 DEF Answering
  <2>3. CASE nodes[j].status # "completed"
    <3>1. j = i /\ verdict = "accept"
      BY <1>9, <2>1, <2>3 DEF Answering
    <3> QED
      BY <1>8, <3>1 DEF Answering
  <2> QED
    BY <2>2, <2>3
<1> QED
  BY <1>4, <1>5, <1>6, <1>7, <1>8, <1>9 DEF PendingInv

(* The answer reaches the node run.                                         *)
LEMMA Answered ==
  ASSUME NEW W, NEW S, NEW P, Good(W, S, P), EndOperation, op.kind = "submit"
  PROVE  /\ op.node \in DOMAIN nodes /\ DOMAIN nodes' = DOMAIN nodes
         /\ op' = NoOp /\ queue' = queue
         /\ \A j \in DOMAIN nodes \ {op.node} : nodes'[j] = nodes[j]
         /\ \A j \in DOMAIN nodes :
              /\ nodes'[j].spec = nodes[j].spec /\ nodes'[j].status = nodes[j].status
              /\ nodes'[j].said = nodes[j].said
         /\ \E kind : nodes'[op.node].run = AfterAnswer(kind, nodes[op.node].run, op.verdict)
<1> DEFINE i == op.node
           kind == KindOf(nodes[i].spec)
           run == AfterAnswer(kind, nodes[i].run, op.verdict)
           entry == [nodes[i] EXCEPT !.run = run]
<1>1. i \in DOMAIN nodes
  BY QueueFacts
<1>2. nodes[i] \in EntryType(S, P)
  BY <1>1, GoodEntry
<1>3. nodes' = [nodes EXCEPT ![i] = entry] /\ op' = NoOp /\ queue' = queue
  BY DEF EndOperation
<1> HIDE DEF run, kind
<1>4. entry = [spec |-> nodes[i].spec, status |-> nodes[i].status,
               launched |-> nodes[i].launched, run |-> run, tries |-> nodes[i].tries,
               said |-> nodes[i].said, counted |-> nodes[i].counted]
  BY <1>2 DEF EntryType
<1> HIDE DEF entry, i
<1>5. DOMAIN nodes' = DOMAIN nodes /\ nodes'[i] = entry
      /\ \A j \in DOMAIN nodes \ {i} : nodes'[j] = nodes[j]
  BY <1>1, <1>3, GoodFacts
<1>6. nodes'[i].run = run
  BY <1>4, <1>5
<1>7. \A j \in DOMAIN nodes :
        /\ nodes'[j].spec = nodes[j].spec /\ nodes'[j].status = nodes[j].status
        /\ nodes'[j].said = nodes[j].said
  BY <1>4, <1>5
<1>8. \E someKind : nodes'[i].run = AfterAnswer(someKind, nodes[i].run, op.verdict)
  BY <1>6 DEF run
<1> QED
  BY <1>1, <1>3, <1>5, <1>7, <1>8 DEF i

LEMMA PendingAnswered ==
  ASSUME NEW W, NEW S, NEW P, Good(W, S, P), PendingInv, EndOperation, op.kind = "submit"
  PROVE  PendingInv'
<1>1. /\ op.node \in DOMAIN nodes /\ DOMAIN nodes' = DOMAIN nodes
      /\ op' = NoOp /\ queue' = queue
      /\ \A j \in DOMAIN nodes \ {op.node} : nodes'[j] = nodes[j]
      /\ \A j \in DOMAIN nodes :
           nodes'[j].said = nodes[j].said /\ nodes'[j].status = nodes[j].status
  BY Answered
<1>2. PICK kind : nodes'[op.node].run = AfterAnswer(kind, nodes[op.node].run, op.verdict)
  BY Answered
<1>3. op'.kind # "submit"
  BY <1>1 DEF NoOp
<1>4. \A k \in DOMAIN queue : IsSubmission(k) =>
        queue[k].node \in DOMAIN nodes \ {op.node} /\ Says(nodes[queue[k].node], queue[k].what)
  BY QueueFacts DEF PendingInv
<1>5. \A k \in DOMAIN queue' : IsSubmission(k)' => Says(nodes'[queue'[k].node], queue'[k].what)
  BY <1>1, <1>4 DEF IsSubmission
<1>6. ASSUME NEW j \in DOMAIN nodes, nodes[j].status = "completed"
      PROVE  nodes'[j].run \notin {"working", "asking"}
  <2>1. /\ nodes[j].run # "working"
        /\ nodes[j].run = "asking" => op.node = j /\ op.verdict = "accept"
    BY <1>6 DEF PendingInv
  <2>2. CASE j # op.node
    BY <1>1, <2>1, <2>2
  <2>3. CASE j = op.node
    BY <1>2, <2>1, <2>3 DEF AfterAnswer
  <2> QED
    BY <2>2, <2>3
<1> QED
  BY <1>1, <1>3, <1>5, <1>6 DEF PendingInv, IsSubmission

LEMMA EntryMoves ==
  ASSUME NEW W, NEW S, NEW P, Good(W, S, P), Good(W, S, P)', NEW i \in DOMAIN nodes, NEW run,
         nodes' = [nodes EXCEPT ![i].run = run]
  PROVE  /\ Len(nodes') = Len(nodes) /\ DOMAIN nodes' = DOMAIN nodes
         /\ \A j \in DOMAIN nodes : /\ nodes'[j].spec = nodes[j].spec
                                    /\ nodes'[j].status = nodes[j].status
                                    /\ nodes'[j].said = nodes[j].said
                                    /\ nodes'[j].counted = nodes[j].counted
         /\ \A j \in DOMAIN nodes \ {i} : nodes'[j] = nodes[j]
         /\ nodes'[i].run = run
<1> DEFINE entry == [nodes[i] EXCEPT !.run = run]
<1>1. nodes[i] \in EntryType(S, P)
  BY GoodEntry
<1>2. nodes' = [nodes EXCEPT ![i] = entry]
  OBVIOUS
<1>3. entry = [spec |-> nodes[i].spec, status |-> nodes[i].status,
               launched |-> nodes[i].launched, run |-> run, tries |-> nodes[i].tries,
               said |-> nodes[i].said, counted |-> nodes[i].counted]
  BY <1>1 DEF EntryType
<1> HIDE DEF entry
<1>4. DOMAIN nodes' = DOMAIN nodes /\ nodes'[i] = entry
      /\ \A j \in DOMAIN nodes \ {i} : nodes'[j] = nodes[j]
  BY <1>2
<1>5. /\ Len(nodes) \in Nat /\ DOMAIN nodes = 1..Len(nodes)
      /\ Len(nodes') \in Nat /\ DOMAIN nodes' = 1..Len(nodes')
  <2>1. nodes' \in Seq(EntryType(S, P))
    BY DEF Good, Typed, ListsTyped
  <2> QED
    BY <2>1, GoodFacts
<1>6. Len(nodes') = Len(nodes)
  BY <1>4, <1>5
<1> QED
  BY <1>3, <1>4, <1>6

LEMMA EntrySubmits ==
  ASSUME NEW W, NEW S, NEW P, Good(W, S, P), Good(W, S, P)', NEW i \in DOMAIN nodes, NEW run, NEW payload,
         nodes' = [nodes EXCEPT ![i] = Submitting(@, run, payload)]
  PROVE  /\ Len(nodes') = Len(nodes) /\ DOMAIN nodes' = DOMAIN nodes
         /\ \A j \in DOMAIN nodes : /\ nodes'[j].spec = nodes[j].spec
                                    /\ nodes'[j].status = nodes[j].status
         /\ \A j \in DOMAIN nodes \ {i} : nodes'[j] = nodes[j]
         /\ nodes'[i].run = run /\ nodes'[i].said = {payload}
<1> DEFINE entry == Submitting(nodes[i], run, payload)
<1>1. nodes[i] \in EntryType(S, P)
  BY GoodEntry
<1>2. nodes' = [nodes EXCEPT ![i] = entry]
  OBVIOUS
<1>3. entry = [nodes[i] EXCEPT !.run = run, !.tries = @ + 1, !.said = {payload}]
  BY DEF Submitting
<1> HIDE DEF entry
<1>4. entry = [spec |-> nodes[i].spec, status |-> nodes[i].status,
               launched |-> nodes[i].launched, run |-> run, tries |-> nodes[i].tries + 1,
               said |-> {payload}, counted |-> nodes[i].counted]
  BY <1>1, <1>3 DEF EntryType
<1>5. DOMAIN nodes' = DOMAIN nodes /\ nodes'[i] = entry
      /\ \A j \in DOMAIN nodes \ {i} : nodes'[j] = nodes[j]
  BY <1>2
<1>6. /\ Len(nodes) \in Nat /\ DOMAIN nodes = 1..Len(nodes)
      /\ Len(nodes') \in Nat /\ DOMAIN nodes' = 1..Len(nodes')
  <2>1. nodes' \in Seq(EntryType(S, P))
    BY DEF Good, Typed, ListsTyped
  <2> QED
    BY <2>1, GoodFacts
<1>7. Len(nodes') = Len(nodes)
  BY <1>5, <1>6
<1> QED
  BY <1>4, <1>5, <1>7

-----------------------------------------------------------------------------
(* The order of a run in which no launch fails and the first dispatch       *)
(* orders one node: start() claims that node and nothing else, so all later *)
(* launches are the queue's, and an operation's launch list is worked off   *)
(* before the next operation begins (workflow-runtime.ts:288).              *)
Waiting == lists["queue"].todo

InterruptsWait == \A k \in DOMAIN queue : queue[k].kind = "interrupt" => started = "handed"

Untouched ==
  /\ wf \in InitialStates /\ nodes = <<>> /\ outcome = "none" /\ queue = <<>> /\ op = NoOp

Orderly ==
  /\ lists["start"].todo = <<>>
  /\ started # "dispatching" => lists["start"] = Idle
  /\ lists["queue"] # Idle => op.kind \in {"submit", "settle"}
  /\ op.kind = "interrupt" => started = "handed"
  /\ InterruptsWait
  /\ op.verdict = "stopping" => /\ op.kind = "interrupt"
                                /\ outcome = "none"
                                /\ op.running = Running(nodes)
  /\ started = "no" => Untouched

(* At most the head of a launch list is claimed.                            *)
Takes(ns, todo, after, left) ==
  \/ after = ns /\ left = todo
  \/ todo # <<>> /\ after = Append(ns, Entry(Head(todo))) /\ left = Tail(todo)

(* Entries that ended, and the specs of all, are as they were.              *)
SameEnds(ns, ms) ==
  /\ DOMAIN ms = DOMAIN ns
  /\ \A i \in DOMAIN ns :
       /\ ms[i].spec = ns[i].spec /\ ms[i].status = ns[i].status
       /\ ms[i].counted = ns[i].counted
       /\ ns[i].status = "completed" => ms[i].said = ns[i].said

(* What a step may be to the workflow: the next launch of a list, or        *)
(* nothing; the first dispatch; the acceptance of a settlement; the         *)
(* take-down by an interrupt.                                               *)
Continues(S, P) ==
  /\ UNCHANGED <<wf, outcome>>
  /\ \E ns \in Seq(EntryType(S, P)) :
       SameEnds(nodes, ns) /\ Takes(ns, Waiting, nodes', Waiting')

Begins ==
  /\ wf \in InitialStates /\ nodes = <<>> /\ outcome = "none"
  /\ Waiting = <<>> /\ Waiting' = <<>>
  /\ UNCHANGED <<wf, outcome>>
  /\ \E spec : Order(wf, <<>>) = <<spec>> /\ nodes' = <<Entry(spec)>>

After(i, settlement) ==
  Applied(wf, nodes[i].spec, settlement, RunningSpecs(Count(i, settlement)))

Accepts(P, i, settlement) ==
  LET ns == Count(i, settlement)
      state == After(i, settlement)
  IN /\ i \in DOMAIN nodes /\ nodes[i].status = "running"
     /\ Waiting = <<>>
     /\ settlement \in Settlements(P) /\ MayEnd(nodes[i].spec, settlement)
     /\ Validates(wf, nodes[i].spec, settlement)
     /\ settlement.status = "completed" => nodes[i].said = {settlement.payload}
     /\ wf' = IF IsStuck(state, ns) THEN Ended(state, "deadlocked") ELSE state
     /\ outcome' = OutcomeAfter(state, ns)
     /\ Takes(ns, Order(state, ns), nodes', Waiting')

Stops ==
  /\ FinishInterrupt
  /\ op.running = Running(nodes) /\ outcome = "none"
  /\ Waiting = <<>> /\ Waiting' = <<>>

StepKinds(S, P) ==
  \/ Continues(S, P)
  \/ Begins
  \/ Stops
  \/ \E i, settlement : Accepts(P, i, settlement)

StartsWithOne == \A w \in InitialStates : \E spec : Order(w, <<>>) = <<spec>>

LEMMA TakesFacts ==
  ASSUME NEW S, NEW P, NEW ns \in Seq(EntryType(S, P)), NEW todo \in Seq(S),
         NEW after, NEW left, Takes(ns, todo, after, left)
  PROVE  /\ after \in Seq(EntryType(S, P)) /\ left \in Seq(S)
         /\ DOMAIN ns \subseteq DOMAIN after
         /\ \A i \in DOMAIN ns : after[i] = ns[i]
         /\ \A i \in DOMAIN after \ DOMAIN ns :
              /\ todo # <<>> /\ i = Len(ns) + 1 /\ left = Tail(todo)
              /\ after[i] = Entry(Head(todo))
              /\ after[i].spec = Head(todo) /\ after[i].status = "running"
              /\ after[i].said = {} /\ after[i].counted = 0
<1>1. CASE after = ns /\ left = todo
  BY <1>1
<1>2. CASE todo # <<>> /\ after = Append(ns, Entry(Head(todo))) /\ left = Tail(todo)
  <2> DEFINE entry == Entry(Head(todo))
  <2>1. Head(todo) \in S /\ Tail(todo) \in Seq(S)
    BY <1>2
  <2>2. entry \in EntryType(S, P)
    BY <2>1 DEF Entry, EntryType, NodeStatuses, Settled, Unsettled, Runs
  <2>3. /\ entry.spec = Head(todo) /\ entry.status = "running"
        /\ entry.said = {} /\ entry.counted = 0
    BY DEF Entry
  <2> HIDE DEF entry
  <2>4. after = Append(ns, entry)
    BY <1>2 DEF entry
  <2>5. /\ after \in Seq(EntryType(S, P)) /\ Len(after) = Len(ns) + 1
        /\ \A i \in DOMAIN ns : i \in DOMAIN after /\ after[i] = ns[i]
        /\ after[Len(ns) + 1] = entry
        /\ \A i \in DOMAIN after \ DOMAIN ns : i = Len(ns) + 1
    BY <2>2, <2>4
  <2> QED
    BY <1>2, <2>1, <2>3, <2>5 DEF entry
<1> QED
  BY <1>1, <1>2 DEF Takes

LEMMA CountIs ==
  ASSUME NEW W, NEW S, NEW P, Good(W, S, P), NEW i \in DOMAIN nodes,
         NEW settlement, settlement.status \in Settled
  PROVE  /\ Count(i, settlement) \in Seq(EntryType(S, P))
         /\ DOMAIN Count(i, settlement) = DOMAIN nodes
         /\ Len(Count(i, settlement)) = Len(nodes)
         /\ \A j \in DOMAIN nodes \ {i} : Count(i, settlement)[j] = nodes[j]
         /\ Count(i, settlement)[i].spec = nodes[i].spec
         /\ Count(i, settlement)[i].said = nodes[i].said
         /\ Count(i, settlement)[i].run = nodes[i].run
         /\ Count(i, settlement)[i].status = settlement.status
         /\ Count(i, settlement)[i].counted = nodes[i].counted + 1
<1> DEFINE entry == Counted(nodes[i], settlement)
           counted == Count(i, settlement)
           status == settlement.status
<1>1. nodes[i] \in EntryType(S, P) /\ nodes \in Seq(EntryType(S, P)) /\ i \in 1..Len(nodes)
  BY GoodEntry, GoodFacts
<1>2. entry = [nodes[i] EXCEPT !.status = status, !.counted = @ + 1]
  BY DEF Counted
<1>3. counted = [nodes EXCEPT ![i] = entry]
  BY DEF Count
<1>4. status \in NodeStatuses
  BY DEF NodeStatuses
<1> HIDE DEF entry, counted, status
<1>5. entry = [spec |-> nodes[i].spec, status |-> status, launched |-> nodes[i].launched,
               run |-> nodes[i].run, tries |-> nodes[i].tries, said |-> nodes[i].said,
               counted |-> nodes[i].counted + 1]
  BY <1>1, <1>2 DEF EntryType
<1>6. nodes[i].counted + 1 \in Nat
  BY <1>1 DEF EntryType
<1>7. entry \in EntryType(S, P)
  BY <1>1, <1>4, <1>5, <1>6 DEF EntryType
<1>8. /\ counted \in Seq(EntryType(S, P)) /\ Len(counted) = Len(nodes) /\ counted[i] = entry
      /\ DOMAIN counted = DOMAIN nodes
      /\ \A j \in DOMAIN nodes \ {i} : counted[j] = nodes[j]
  BY <1>1, <1>3, <1>7
<1> QED
  BY <1>5, <1>8 DEF counted, status

(* The claim of a launch list.                                              *)
LEMMA QueueTakes ==
  ASSUME NEW W, NEW S, NEW P, Good(W, S, P), NEW ns, NEW todo, Claim("queue", ns, todo)
  PROVE  Takes(ns, todo, nodes', Waiting') /\ lists'["start"] = lists["start"]
<1>1. lists \in [Executors -> ListType(S)] /\ "queue" \in Executors /\ "start" \in Executors
  BY GoodFacts DEF Executors
<1>2. CASE todo = <<>>
  BY <1>1, <1>2 DEF Claim, Takes, Waiting, Idle
<1>3. CASE todo # <<>>
  BY <1>1, <1>3 DEF Claim, Takes, Waiting
<1> QED
  BY <1>2, <1>3

(* The state that follows an acceptance, and what it dispatches.            *)
LEMMA AfterIsTyped ==
  ASSUME NEW W, NEW S, NEW P, NEW K, HooksTyped(W, S, P, K), Good(W, S, P), Linked(K),
         NEW i \in DOMAIN nodes, NEW settlement \in Settlements(P),
         MayEnd(nodes[i].spec, settlement), Validates(wf, nodes[i].spec, settlement)
  PROVE  /\ After(i, settlement) \in W
         /\ Order(After(i, settlement), Count(i, settlement)) \in Seq(S)
         /\ RunningSpecs(Count(i, settlement)) \in SUBSET S
<1> DEFINE ns == Count(i, settlement)
<1>1. settlement.status \in Settled
  BY DEF Settlements
<1>2. ns \in Seq(EntryType(S, P))
  BY <1>1, CountIs
<1> HIDE DEF ns
<1>3. \A j \in DOMAIN ns : ns[j] \in EntryType(S, P)
  BY <1>2
<1>4. RunningSpecs(ns) \in SUBSET S
  BY <1>3 DEF RunningSpecs, Running, EntryType
<1>5. nodes[i].spec \in S /\ wf \in W
  BY GoodEntry, GoodFacts
<1>6. <<wf, nodes[i].spec>> \in K
  BY DEF Linked, EntriesLinked
<1>7. After(i, settlement) \in W
  BY <1>4, <1>5, <1>6 DEF HooksTyped, After, ns
<1>8. Order(After(i, settlement), ns) \in Seq(S)
  BY <1>4, <1>7 DEF Order, HooksTyped
<1> QED
  BY <1>4, <1>7, <1>8 DEF ns

LEMMA OrderlyInit ==
  ASSUME Init
  PROVE  Orderly /\ PendingInv /\ Waiting = <<>>
<1>1. /\ "start" \in Executors /\ "queue" \in Executors
      /\ lists["start"] = Idle /\ lists["queue"] = Idle
  BY DEF Init, Executors
<1>2. DOMAIN nodes = {} /\ DOMAIN queue = {}
  BY DEF Init
<1>3. Orderly
  BY <1>1, <1>2 DEF Orderly, InterruptsWait, Untouched, Init, Idle, NoOp
<1>4. PendingInv
  BY <1>2 DEF PendingInv, Init, NoOp
<1> QED
  BY <1>1, <1>3, <1>4 DEF Waiting, Idle

(* A step that stops no node and claims nothing at start().                 *)
LEMMA OrderlyOn ==
  ASSUME Orderly,
         lists'["start"] = lists["start"] \/ lists'["start"] = Idle,
         lists'["queue"] # Idle => op'.kind \in {"submit", "settle"},
         \/ op' = op /\ Running(nodes') = Running(nodes) /\ outcome' = outcome
         \/ op'.verdict # "stopping" /\ op'.kind # "interrupt",
         InterruptsWait',
         \/ started' = started
         \/ started = "dispatching" /\ lists'["start"] = Idle /\ started' = "handed",
         started' = "no" => Untouched'
  PROVE  Orderly'
<1>1. lists'["start"].todo = <<>>
  BY DEF Orderly, Idle
<1>2. started' # "dispatching" => lists'["start"] = Idle
  BY DEF Orderly
<1>3. op'.kind = "interrupt" => started' = "handed"
  BY DEF Orderly
<1>4. op'.verdict = "stopping" => /\ op'.kind = "interrupt"
                                  /\ outcome' = "none"
                                  /\ op'.running = Running(nodes')
  BY DEF Orderly
<1> QED
  BY <1>1, <1>2, <1>3, <1>4 DEF Orderly

LEMMA InterruptsGo ==
  ASSUME NEW W, NEW S, NEW P, Good(W, S, P), InterruptsWait,
         started' = started \/ started' = "handed",
         \/ queue' = queue
         \/ queue # <<>> /\ queue' = Tail(queue)
         \/ \E operation : /\ queue' = Append(queue, operation)
                           /\ operation.kind = "interrupt" => started = "handed"
  PROVE  InterruptsWait'
<1>1. CASE queue' = queue
  BY <1>1 DEF InterruptsWait
<1>2. CASE queue # <<>> /\ queue' = Tail(queue)
  BY <1>2, TailFacts DEF InterruptsWait
<1>3. ASSUME NEW operation, queue' = Append(queue, operation),
             operation.kind = "interrupt" => started = "handed"
      PROVE  InterruptsWait'
  BY <1>3, AppendFacts DEF InterruptsWait
<1> QED
  BY <1>1, <1>2, <1>3

(* A step that leaves the workflow, the launch lists and the operation.     *)
LEMMA FrameInOrder ==
  ASSUME NEW W, NEW S, NEW P, Good(W, S, P), Good(W, S, P)', Orderly,
         UNCHANGED <<wf, outcome, lists, op>>, SameEnds(nodes, nodes'),
         InterruptsWait',
         \/ started' = started
         \/ started = "dispatching" /\ lists["start"] = Idle /\ started' = "handed",
         started' = "no" => Untouched'
  PROVE  Orderly' /\ StepKinds(S, P)
<1>1. Running(nodes') = Running(nodes)
  BY DEF SameEnds, Running
<1>2. lists'["queue"] # Idle => op'.kind \in {"submit", "settle"}
  BY DEF Orderly
<1>3. Orderly'
  BY <1>1, <1>2, OrderlyOn
<1>4. nodes' \in Seq(EntryType(S, P))
  BY DEF Good, Typed, ListsTyped
<1>5. Waiting' = Waiting
  BY DEF Waiting
<1>6. Takes(nodes', Waiting, nodes', Waiting')
  BY <1>5 DEF Takes
<1>7. Continues(S, P)
  BY <1>4, <1>6 DEF Continues
<1> QED
  BY <1>3, <1>7 DEF StepKinds

LEMMA SubmitInOrder ==
  ASSUME NEW W, NEW S, NEW P, Good(W, S, P), Good(W, S, P)', Orderly, PendingInv,
         NEW i \in DOMAIN nodes, NEW payload,
         AgentSubmits(i, payload) \/ WorkflowReports(i, payload)
  PROVE  Orderly' /\ PendingInv' /\ StepKinds(S, P)
<1>1. PICK run \in {"asking", "reporting"} :
        nodes' = [nodes EXCEPT ![i] = Submitting(@, run, payload)]
  BY DEF AgentSubmits, WorkflowReports
<1>2. /\ nodes[i].run = "working"
      /\ queue' = Append(queue, Operation("submit", i, payload))
      /\ UNCHANGED <<wf, lists, op, started, outcome>>
  BY DEF AgentSubmits, WorkflowReports, Enqueue
<1>3. nodes[i].status # "completed"
  BY <1>2 DEF PendingInv
<1>4. /\ Len(nodes') = Len(nodes) /\ DOMAIN nodes' = DOMAIN nodes
      /\ \A j \in DOMAIN nodes : /\ nodes'[j].spec = nodes[j].spec
                                 /\ nodes'[j].status = nodes[j].status
      /\ \A j \in DOMAIN nodes \ {i} : nodes'[j] = nodes[j]
      /\ nodes'[i].run = run /\ nodes'[i].said = {payload}
  BY <1>1, EntrySubmits
<1>5. nodes'[i].counted = nodes[i].counted
  <2> DEFINE entry == [nodes[i] EXCEPT !.run = run, !.tries = @ + 1, !.said = {payload}]
  <2>1. nodes[i] \in EntryType(S, P)
    BY GoodEntry
  <2>2. entry.counted = nodes[i].counted
    BY <2>1 DEF EntryType
  <2>3. nodes' = [nodes EXCEPT ![i] = entry]
    BY <1>1 DEF Submitting
  <2> HIDE DEF entry
  <2> QED
    BY <2>2, <2>3
<1>6. SameEnds(nodes, nodes')
  <2>1. \A j \in DOMAIN nodes : nodes'[j].counted = nodes[j].counted
    BY <1>4, <1>5
  <2> QED
    BY <1>3, <1>4, <2>1 DEF SameEnds
<1>7. Operation("submit", i, payload).kind # "interrupt"
  BY DEF Operation
<1>8. InterruptsWait'
  BY <1>2, <1>7, InterruptsGo DEF Orderly
<1>9. started # "no"
  BY DEF Orderly, Untouched
<1>10. Orderly' /\ StepKinds(S, P)
  BY <1>2, <1>6, <1>8, <1>9, FrameInOrder
<1>11. PendingInv'
  <2>1. Speaks(i, payload)
    BY <1>1, <1>2, <1>3, <1>4 DEF Speaks
  <2> QED
    BY <2>1, PendingSpeaks
<1> QED
  BY <1>10, <1>11

LEMMA ReportInOrder ==
  ASSUME NEW W, NEW S, NEW P, Good(W, S, P), Good(W, S, P)', Orderly, PendingInv,
         NEW i \in DOMAIN nodes, AgentReports(i)
  PROVE  Orderly' /\ PendingInv' /\ StepKinds(S, P)
<1>1. /\ nodes[i].run = "accepted" /\ nodes' = [nodes EXCEPT ![i].run = "reporting"]
      /\ UNCHANGED <<wf, lists, op, started, outcome>>
  BY DEF AgentReports, Enqueue
<1>2. PICK payload \in nodes[i].said : queue' = Append(queue, Operation("submit", i, payload))
  BY DEF AgentReports, Enqueue
<1>3. /\ Len(nodes') = Len(nodes) /\ DOMAIN nodes' = DOMAIN nodes
      /\ \A j \in DOMAIN nodes : /\ nodes'[j].spec = nodes[j].spec
                                 /\ nodes'[j].status = nodes[j].status
                                 /\ nodes'[j].said = nodes[j].said
                                 /\ nodes'[j].counted = nodes[j].counted
      /\ \A j \in DOMAIN nodes \ {i} : nodes'[j] = nodes[j]
      /\ nodes'[i].run = "reporting"
  BY <1>1, EntryMoves
<1>4. nodes[i].said = {payload}
  BY <1>2 DEF PendingInv
<1>5. SameEnds(nodes, nodes')
  BY <1>3 DEF SameEnds
<1>6. Operation("submit", i, payload).kind # "interrupt"
  BY DEF Operation
<1>7. InterruptsWait'
  BY <1>1, <1>2, <1>6, InterruptsGo DEF Orderly
<1>8. started # "no"
  BY DEF Orderly, Untouched
<1>9. Orderly' /\ StepKinds(S, P)
  BY <1>1, <1>5, <1>7, <1>8, FrameInOrder
<1>10. PendingInv'
  <2>1. Speaks(i, payload)
    BY <1>1, <1>2, <1>3, <1>4 DEF Speaks
  <2> QED
    BY <2>1, PendingSpeaks
<1> QED
  BY <1>9, <1>10

LEMMA RunEndsInOrder ==
  ASSUME NEW W, NEW S, NEW P, Good(W, S, P), Good(W, S, P)', Orderly, PendingInv,
         NEW i \in DOMAIN nodes,
         Monitor(i) \/ \E how \in {"failed", "rejected", "cancelled"} : RunEnds(i, how)
  PROVE  Orderly' /\ PendingInv' /\ StepKinds(S, P)
<1>1. PICK run \in {"failed", "rejected", "cancelled", "heard"} :
        nodes' = [nodes EXCEPT ![i].run = run]
  BY DEF Monitor, RunEnds
<1>2. /\ UNCHANGED <<wf, lists, op, started, outcome>>
      /\ \/ queue' = queue
         \/ \E operation : operation.kind = "settle" /\ queue' = Append(queue, operation)
  <2>1. CASE Monitor(i)
    <3>1. queue' = Append(queue, Operation("settle", i, nodes[i].run))
          /\ UNCHANGED <<wf, lists, op, started, outcome>>
      BY <2>1 DEF Monitor, Enqueue
    <3>2. Operation("settle", i, nodes[i].run).kind = "settle"
      BY DEF Operation
    <3> QED
      BY <3>1, <3>2
  <2>2. CASE ~Monitor(i)
    BY <2>2 DEF RunEnds, EnqueueNothing
  <2> QED
    BY <2>1, <2>2
<1>3. /\ Len(nodes') = Len(nodes) /\ DOMAIN nodes' = DOMAIN nodes
      /\ \A j \in DOMAIN nodes : /\ nodes'[j].spec = nodes[j].spec
                                 /\ nodes'[j].status = nodes[j].status
                                 /\ nodes'[j].said = nodes[j].said
                                 /\ nodes'[j].counted = nodes[j].counted
      /\ \A j \in DOMAIN nodes \ {i} : nodes'[j] = nodes[j]
      /\ nodes'[i].run = run
  BY <1>1, EntryMoves
<1>4. SameEnds(nodes, nodes')
  BY <1>3 DEF SameEnds
<1>5. InterruptsWait'
  BY <1>2, InterruptsGo DEF Orderly
<1>6. started # "no"
  BY DEF Orderly, Untouched
<1>7. Orderly' /\ StepKinds(S, P)
  BY <1>2, <1>4, <1>5, <1>6, FrameInOrder
<1>8. PendingInv'
  <2>1. Silent
    BY <1>1, <1>2, <1>3 DEF Silent
  <2> QED
    BY <2>1, PendingSilent
<1> QED
  BY <1>7, <1>8

LEMMA InterruptInOrder ==
  ASSUME NEW W, NEW S, NEW P, Good(W, S, P), Good(W, S, P)', Orderly, PendingInv, Interrupt
  PROVE  Orderly' /\ PendingInv' /\ StepKinds(S, P)
<1>1. /\ UNCHANGED <<wf, nodes, lists, op, started, outcome>> /\ started = "handed"
      /\ queue' = Append(queue, Operation("interrupt", 0, "none"))
  BY DEF Interrupt, Enqueue
<1>2. Operation("interrupt", 0, "none").kind = "interrupt"
  BY DEF Operation
<1>3. SameEnds(nodes, nodes')
  BY <1>1 DEF SameEnds
<1>4. InterruptsWait'
  BY <1>1 DEF InterruptsWait
<1>5. Orderly' /\ StepKinds(S, P)
  BY <1>1, <1>3, <1>4, FrameInOrder
<1>6. PendingInv'
  <2>1. Silent
    BY <1>1, <1>2 DEF Silent
  <2> QED
    BY <2>1, PendingSilent
<1> QED
  BY <1>5, <1>6

LEMMA HandOverInOrder ==
  ASSUME NEW W, NEW S, NEW P, Good(W, S, P), Good(W, S, P)', Orderly, PendingInv,
         HandOver \/ UNCHANGED vars
  PROVE  Orderly' /\ PendingInv' /\ StepKinds(S, P)
<1>1. /\ UNCHANGED <<wf, nodes, lists, queue, op, outcome>>
      /\ \/ started' = started
         \/ started = "dispatching" /\ lists["start"] = Idle /\ started' = "handed"
  BY DEF HandOver, vars
<1>2. SameEnds(nodes, nodes')
  BY <1>1 DEF SameEnds
<1>3. InterruptsWait'
  BY <1>1 DEF Orderly, InterruptsWait
<1>4. started' = "no" => Untouched'
  BY <1>1 DEF Orderly, Untouched
<1>5. Orderly' /\ StepKinds(S, P)
  BY <1>1, <1>2, <1>3, <1>4, FrameInOrder
<1>6. PendingInv'
  <2>1. Silent
    BY <1>1 DEF Silent
  <2> QED
    BY <2>1, PendingSilent
<1> QED
  BY <1>5, <1>6

LEMMA AnswerInOrder ==
  ASSUME NEW W, NEW S, NEW P, Good(W, S, P), Good(W, S, P)', Orderly, PendingInv, EndOperation
  PROVE  Orderly' /\ PendingInv' /\ StepKinds(S, P)
<1>1. /\ op' = NoOp /\ lists["queue"] = Idle /\ op # NoOp
      /\ UNCHANGED <<wf, lists, queue, started, outcome>>
  BY DEF EndOperation
<1>2. SameEnds(nodes, nodes')
  <2>1. CASE op.kind = "submit"
    <3> DEFINE run == AfterAnswer(KindOf(nodes[op.node].spec), nodes[op.node].run, op.verdict)
    <3>1. op.node \in DOMAIN nodes
      BY <2>1, QueueFacts
    <3>2. nodes' = [nodes EXCEPT ![op.node].run = run]
      BY <2>1 DEF EndOperation
    <3> HIDE DEF run
    <3>3. /\ DOMAIN nodes' = DOMAIN nodes
          /\ \A j \in DOMAIN nodes : /\ nodes'[j].spec = nodes[j].spec
                                     /\ nodes'[j].status = nodes[j].status
                                     /\ nodes'[j].said = nodes[j].said
                                     /\ nodes'[j].counted = nodes[j].counted
      BY <3>1, <3>2, EntryMoves
    <3> QED
      BY <3>3 DEF SameEnds
  <2>2. CASE op.kind # "submit"
    <3>1. nodes' = nodes
      BY <2>2 DEF EndOperation
    <3> QED
      BY <3>1 DEF SameEnds
  <2> QED
    BY <2>1, <2>2
<1>3. PendingInv'
  <2>1. CASE op.kind = "submit"
    BY <2>1, PendingAnswered
  <2>2. CASE op.kind # "submit"
    <3>1. nodes' = nodes
      BY <2>2 DEF EndOperation
    <3>2. Silent
      BY <1>1, <2>2, <3>1 DEF Silent, NoOp
    <3> QED
      BY <3>2, PendingSilent
  <2> QED
    BY <2>1, <2>2
<1>4. InterruptsWait'
  BY <1>1 DEF Orderly, InterruptsWait
<1>5. Orderly'
  <2>1. op'.verdict # "stopping" /\ op'.kind # "interrupt"
    BY <1>1 DEF NoOp
  <2>2. started' # "no"
    BY <1>1 DEF Orderly, Untouched
  <2>3. lists'["queue"] = Idle
    BY <1>1
  <2> QED
    BY <1>1, <1>4, <2>1, <2>2, <2>3, OrderlyOn
<1>6. Continues(S, P)
  <2>1. nodes' \in Seq(EntryType(S, P))
    BY DEF Good, Typed, ListsTyped
  <2>2. Takes(nodes', Waiting, nodes', Waiting')
    BY <1>1 DEF Takes, Waiting
  <2> QED
    BY <1>1, <1>2, <2>1, <2>2 DEF Continues
<1> QED
  BY <1>3, <1>5, <1>6 DEF StepKinds

LEMMA InterruptTaken ==
  ASSUME NEW W, NEW S, NEW P, Good(W, S, P), Good(W, S, P)', Orderly, PendingInv,
         TakeInterrupt
  PROVE  Orderly' /\ PendingInv' /\ StepKinds(S, P)
<1>1. /\ queue # <<>> /\ Head(queue).kind = "interrupt" /\ queue' = Tail(queue) /\ op = NoOp
      /\ UNCHANGED <<wf, nodes, lists, started, outcome>>
  BY DEF TakeInterrupt, Take
<1>2. 1 \in DOMAIN queue /\ Head(queue) = queue[1]
  BY <1>1, TailFacts
<1>3. started = "handed"
  BY <1>1, <1>2 DEF Orderly, InterruptsWait
<1>4. /\ op'.kind = "interrupt"
      /\ op'.verdict = "stopping" => outcome = "none" /\ op'.running = Running(nodes)
  <2>1. CASE outcome # "none"
    BY <1>1, <2>1 DEF TakeInterrupt, Begun
  <2>2. CASE outcome = "none"
    <3>1. op' = [kind |-> "interrupt", node |-> Head(queue).node, verdict |-> "stopping",
                 running |-> Running(nodes)]
      BY <1>1, <2>2 DEF TakeInterrupt, Begun
    <3> QED
      BY <2>2, <3>1
  <2> QED
    BY <2>1, <2>2
<1>5. InterruptsWait'
  BY <1>1, InterruptsGo DEF Orderly
<1>6. lists["queue"] = Idle /\ op.kind # "submit"
  BY <1>1 DEF Orderly, NoOp
<1>7. Orderly'
  BY <1>1, <1>3, <1>4, <1>5, <1>6 DEF Orderly
<1>8. PendingInv'
  <2>1. Silent
    BY <1>1, <1>4, <1>6 DEF Silent
  <2> QED
    BY <2>1, PendingSilent
<1>9. Continues(S, P)
  <2>1. nodes \in Seq(EntryType(S, P)) /\ SameEnds(nodes, nodes)
    BY GoodFacts DEF SameEnds
  <2>2. Takes(nodes, Waiting, nodes', Waiting')
    BY <1>1 DEF Takes, Waiting
  <2> QED
    BY <1>1, <2>1, <2>2 DEF Continues
<1> QED
  BY <1>7, <1>8, <1>9 DEF StepKinds

LEMMA StopInOrder ==
  ASSUME NEW W, NEW S, NEW P, Good(W, S, P), Orderly, PendingInv, FinishInterrupt
  PROVE  Orderly' /\ PendingInv' /\ StepKinds(S, P)
<1>1. /\ op.verdict = "stopping" /\ UNCHANGED <<lists, queue, aborted, started>>
      /\ nodes' = [i \in DOMAIN nodes |->
                     IF i \in op.running THEN [nodes[i] EXCEPT !.status = "cancelled"]
                                         ELSE nodes[i]]
      /\ op' = [op EXCEPT !.verdict = "cancelled"]
  BY DEF FinishInterrupt
<1>2. op.kind = "interrupt" /\ outcome = "none" /\ op.running = Running(nodes)
      /\ started = "handed" /\ lists["queue"] = Idle
  BY <1>1 DEF Orderly
<1>3. op'.kind = "interrupt" /\ op'.verdict = "cancelled"
  <2>1. op \in ExecutingType
    BY GoodFacts
  <2> QED
    BY <1>1, <1>2, <2>1 DEF ExecutingType
<1>4. Orderly'
  BY <1>1, <1>2, <1>3 DEF Orderly, InterruptsWait
<1>5. ASSUME NEW i \in DOMAIN nodes
      PROVE  /\ nodes'[i].said = nodes[i].said /\ nodes'[i].run = nodes[i].run
             /\ nodes'[i].status = "completed" => nodes[i].status = "completed"
  <2>1. nodes[i] \in EntryType(S, P)
    BY GoodEntry
  <2>2. CASE i \in op.running
    <3>1. nodes'[i] = [nodes[i] EXCEPT !.status = "cancelled"]
      BY <1>1, <2>2
    <3> QED
      BY <2>1, <3>1 DEF EntryType
  <2>3. CASE i \notin op.running
    BY <1>1, <2>3
  <2> QED
    BY <2>2, <2>3
<1>6. PendingInv'
  <2>1. DOMAIN nodes' = DOMAIN nodes
    BY <1>1
  <2>2. Silent
    BY <1>1, <1>2, <1>3, <1>5, <2>1 DEF Silent
  <2> QED
    BY <2>2, PendingSilent
<1>7. Stops
  BY <1>1, <1>2 DEF Stops, Waiting, Idle
<1> QED
  BY <1>4, <1>6, <1>7 DEF StepKinds

LEMMA LaunchInOrder ==
  ASSUME NEW W, NEW S, NEW P, Good(W, S, P), Good(W, S, P)', Orderly, PendingInv,
         NEW x \in Executors, LaunchReturns(x)
  PROVE  Orderly' /\ PendingInv' /\ StepKinds(S, P)
<1> DEFINE i == lists[x].at
           entry == [nodes[i] EXCEPT !.launched = TRUE]
           ns == [nodes EXCEPT ![i] = entry]
<1>1. i \in DOMAIN nodes /\ lists \in [Executors -> ListType(S)] /\ lists[x] # Idle
  BY GoodFacts DEF LaunchReturns
<1>2. Claim(x, ns, lists[x].todo) /\ UNCHANGED <<wf, queue, op, aborted, started, outcome>>
  BY DEF LaunchReturns
<1>3. nodes[i] \in EntryType(S, P)
  BY <1>1, GoodEntry
<1>4. /\ entry \in EntryType(S, P)
      /\ entry.spec = nodes[i].spec /\ entry.status = nodes[i].status
      /\ entry.said = nodes[i].said /\ entry.run = nodes[i].run
      /\ entry.counted = nodes[i].counted
  BY <1>3 DEF EntryType
<1> HIDE DEF entry
<1>5. /\ DOMAIN ns = DOMAIN nodes /\ ns \in Seq(EntryType(S, P)) /\ ns[i] = entry
      /\ \A j \in DOMAIN nodes \ {i} : ns[j] = nodes[j]
  BY <1>1, <1>4, GoodFacts
<1> HIDE DEF ns
<1>6. SameEnds(nodes, ns)
  BY <1>4, <1>5 DEF SameEnds
<1>7. \A j \in DOMAIN nodes : ns[j].said = nodes[j].said /\ ns[j].run = nodes[j].run
  BY <1>4, <1>5
<1>8. "start" \in Executors /\ "queue" \in Executors
  BY DEF Executors
<1>9. /\ Takes(ns, Waiting, nodes', Waiting')
      /\ lists'["start"] = lists["start"] \/ lists'["start"] = Idle
      /\ lists'["queue"] # Idle => lists["queue"] # Idle
  <2>1. CASE x = "queue"
    <3>1. Claim("queue", ns, Waiting)
      BY <1>2, <2>1 DEF Waiting
    <3>2. Takes(ns, Waiting, nodes', Waiting') /\ lists'["start"] = lists["start"]
      BY <3>1, QueueTakes
    <3> QED
      BY <1>1, <2>1, <3>2
  <2>2. CASE x = "start"
    <3>1. lists[x].todo = <<>>
      BY <2>2 DEF Orderly
    <3>2. nodes' = ns /\ lists' = [lists EXCEPT !["start"] = Idle]
      BY <1>2, <2>2, <3>1 DEF Claim
    <3>3. lists'["start"] = Idle /\ lists'["queue"] = lists["queue"]
      BY <1>1, <1>8, <3>2
    <3> QED
      BY <3>2, <3>3 DEF Takes, Waiting
  <2> QED
    BY <2>1, <2>2 DEF Executors
<1>10. Continues(S, P)
  BY <1>2, <1>5, <1>6, <1>9 DEF Continues
<1>11. Waiting \in Seq(S)
  BY <1>1, <1>8 DEF Waiting, ListType
<1>12. /\ DOMAIN ns \subseteq DOMAIN nodes'
       /\ \A j \in DOMAIN ns : nodes'[j] = ns[j]
       /\ \A j \in DOMAIN nodes' \ DOMAIN ns :
            nodes'[j].status = "running" /\ nodes'[j].said = {}
  BY <1>5, <1>9, <1>11, TakesFacts
<1>13. PendingInv'
  <2>1. Silent
    BY <1>2, <1>5, <1>6, <1>7, <1>12 DEF Silent, SameEnds
  <2> QED
    BY <2>1, PendingSilent
<1>14. Orderly'
  <2>1. CASE op.verdict = "stopping"
    <3>1. op.kind = "interrupt" /\ lists["queue"] = Idle /\ started = "handed"
      BY <2>1 DEF Orderly
    <3>2. lists["start"] = Idle
      BY <3>1 DEF Orderly
    <3> QED
      BY <1>1, <3>1, <3>2 DEF Executors
  <2>2. CASE op.verdict # "stopping"
    <3>1. started # "no"
      BY <1>1 DEF Orderly, Untouched
    <3>2. lists'["queue"] # Idle => op'.kind \in {"submit", "settle"}
      BY <1>2, <1>9 DEF Orderly
    <3>3. lists'["start"].todo = <<>>
      BY <1>9 DEF Orderly, Idle
    <3>4. started' # "dispatching" => lists'["start"] = Idle
      BY <1>2, <1>9 DEF Orderly
    <3> QED
      BY <1>2, <2>2, <3>1, <3>2, <3>3, <3>4 DEF Orderly, InterruptsWait
  <2> QED
    BY <2>1, <2>2
<1> QED
  BY <1>10, <1>13, <1>14 DEF StepKinds

LEMMA StartInOrder ==
  ASSUME NEW W, NEW S, NEW P, StartsWithOne, Good(W, S, P), Orderly, PendingInv, Start
  PROVE  Orderly' /\ PendingInv' /\ StepKinds(S, P)
<1>1. Untouched /\ started' = "dispatching" /\ UNCHANGED <<queue, op, aborted>>
      /\ Proceed("start", wf, nodes, <<>>) /\ lists["start"] = Idle
  BY DEF Start, Orderly
<1>2. PICK spec : Order(wf, <<>>) = <<spec>>
  BY <1>1 DEF Untouched, StartsWithOne
<1> DEFINE todo == <<spec>>
<1>3. ~IsStuck(wf, nodes) /\ ~wf.done
  <2>1. <<spec>> # <<>>
    OBVIOUS
  <2>2. Order(wf, nodes) # <<>>
    BY <1>1, <1>2, <2>1 DEF Untouched
  <2> QED
    BY <2>2 DEF IsStuck, Order
<1>4. wf' = wf /\ outcome' = "none" /\ outcome = "none"
  BY <1>1, <1>3 DEF Proceed, OutcomeAfter, Untouched
<1>5. Claim("start", <<>>, todo)
  <2>1. <<spec>> \o <<>> = <<spec>>
    OBVIOUS
  <2> QED
    BY <1>1, <1>2, <2>1 DEF Proceed, Untouched
<1>6. /\ nodes' = Append(<<>>, Entry(spec))
      /\ lists' = [lists EXCEPT !["start"] = [at |-> 1, todo |-> <<>>]]
  <2>1. todo # <<>> /\ Head(todo) = spec /\ Tail(todo) = <<>> /\ Len(<<>>) + 1 = 1
    OBVIOUS
  <2> QED
    BY <1>5, <2>1 DEF Claim
<1>7. nodes' = <<Entry(spec)>>
  BY <1>6
<1>8. /\ lists \in [Executors -> ListType(S)]
      /\ "start" \in Executors /\ "queue" \in Executors
  BY GoodFacts DEF Executors
<1>9. lists["queue"] = Idle
  BY <1>1 DEF Orderly, Untouched, NoOp
<1>10. lists'["start"].todo = <<>> /\ lists'["queue"] = Idle
  BY <1>6, <1>8, <1>9
<1>11. Begins
  <2>1. Waiting = <<>> /\ Waiting' = <<>>
    BY <1>9, <1>10 DEF Waiting, Idle
  <2> QED
    BY <1>1, <1>2, <1>4, <1>7, <2>1 DEF Begins, Untouched
<1>12. Orderly'
  BY <1>1, <1>10 DEF Orderly, InterruptsWait, Untouched, NoOp
<1>13. PendingInv'
  <2>1. DOMAIN nodes' = {1} /\ nodes'[1] = Entry(spec) /\ DOMAIN nodes = {}
    BY <1>1, <1>7 DEF Untouched
  <2>2. Silent
    BY <1>1, <2>1 DEF Silent, Entry
  <2> QED
    BY <2>2, PendingSilent
<1> QED
  BY <1>11, <1>12, <1>13 DEF StepKinds

(* An operation of the queue that settles a node.                           *)
LEMMA AcceptanceIs ==
  ASSUME NEW W, NEW S, NEW P, NEW K, HooksTyped(W, S, P, K), Good(W, S, P), Linked(K),
         Waiting = <<>>, NEW i \in DOMAIN nodes, nodes[i].status = "running",
         NEW settlement \in Settlements(P), MayEnd(nodes[i].spec, settlement),
         Validates(wf, nodes[i].spec, settlement),
         settlement.status = "completed" => nodes[i].said = {settlement.payload},
         ApplySettlement("queue", i, settlement, Count(i, settlement), <<>>)
  PROVE  /\ Accepts(P, i, settlement)
         /\ lists'["start"] = lists["start"]
         /\ DOMAIN nodes \subseteq DOMAIN nodes'
         /\ \A j \in DOMAIN nodes : nodes'[j].said = nodes[j].said /\ nodes'[j].run = nodes[j].run
         /\ \A j \in DOMAIN nodes \ {i} : nodes'[j].status = nodes[j].status
         /\ nodes'[i].status = settlement.status
         /\ \A j \in DOMAIN nodes' \ DOMAIN nodes :
              nodes'[j].said = {} /\ nodes'[j].status = "running"
<1> DEFINE ns == Count(i, settlement)
           state == After(i, settlement)
           todo == Order(state, ns)
           rest == <<>>
<1>1. state \in W /\ todo \in Seq(S)
  BY AfterIsTyped
<1>2. Proceed("queue", state, ns, rest)
  BY DEF ApplySettlement, After
<1>3. settlement.status \in Settled
  BY DEF Settlements
<1>4. /\ ns \in Seq(EntryType(S, P)) /\ DOMAIN ns = DOMAIN nodes
      /\ \A j \in DOMAIN nodes \ {i} : ns[j] = nodes[j]
      /\ ns[i].said = nodes[i].said /\ ns[i].run = nodes[i].run
      /\ ns[i].status = settlement.status
  BY <1>3, CountIs
<1>5. todo \o rest = todo
  BY <1>1
<1>6. Claim("queue", ns, todo)
  BY <1>2, <1>5 DEF Proceed
<1>7. Takes(ns, todo, nodes', Waiting') /\ lists'["start"] = lists["start"]
  BY <1>6, QueueTakes
<1>8. Accepts(P, i, settlement)
  BY <1>2, <1>7 DEF Accepts, Proceed
<1> HIDE DEF ns, todo, state
<1>9. /\ DOMAIN ns \subseteq DOMAIN nodes'
      /\ \A j \in DOMAIN ns : nodes'[j] = ns[j]
      /\ \A j \in DOMAIN nodes' \ DOMAIN ns :
           nodes'[j].status = "running" /\ nodes'[j].said = {}
  BY <1>1, <1>4, <1>7, TakesFacts
<1> QED
  BY <1>4, <1>7, <1>8, <1>9

LEMMA SubmissionTaken ==
  ASSUME NEW W, NEW S, NEW P, NEW K, HooksTyped(W, S, P, K), Good(W, S, P), Linked(K),
         Orderly, PendingInv, TakeSubmission
  PROVE  Orderly' /\ PendingInv' /\ StepKinds(S, P)
<1> DEFINE i == Head(queue).node
           what == Head(queue).what
           settlement == Completed(what)
<1>1. /\ op = NoOp /\ queue # <<>> /\ Head(queue).kind = "submit" /\ queue' = Tail(queue)
      /\ UNCHANGED started
  BY DEF TakeSubmission, Take
<1>2. 1 \in DOMAIN queue /\ Head(queue) = queue[1] /\ IsSubmission(1)
  BY <1>1, TailFacts DEF IsSubmission
<1>3. i \in DOMAIN nodes /\ what \in P /\ nodes[i].said = {what}
  BY <1>2, QueueFacts DEF PendingInv, Says
<1>4. /\ settlement \in Settlements(P) /\ settlement.status = "completed"
      /\ settlement.payload = what
  BY <1>3 DEF Completed, Settlements, Settled
<1>5. MayEnd(nodes[i].spec, settlement)
  <2>1. what \in Payloads(nodes[i].spec)
    BY <1>1, <1>2 DEF Linked, QueueLinked
  <2> QED
    BY <1>4, <2>1 DEF MayEnd
<1>6. lists["queue"] = Idle /\ op.kind = "none" /\ Waiting = <<>>
  BY <1>1 DEF Orderly, NoOp, Waiting, Idle
<1>7. InterruptsWait'
  BY <1>1, InterruptsGo DEF Orderly
<1>8. started # "no"
  BY <1>1 DEF Orderly, Untouched
<1>9. CASE StillRunning(i) /\ Validates(wf, nodes[i].spec, settlement)
  <2>1. /\ ApplySettlement("queue", i, settlement, Count(i, settlement), <<>>)
        /\ op' = [kind |-> "submit", node |-> i, verdict |-> "accept", running |-> {}]
    BY <1>1, <1>9 DEF TakeSubmission, Begun
  <2>2. nodes[i].status = "running" /\ Validates(wf, nodes[i].spec, settlement)
    BY <1>9 DEF StillRunning
  <2> HIDE DEF i, what, settlement
  <2>3. /\ Accepts(P, i, settlement)
        /\ lists'["start"] = lists["start"]
        /\ DOMAIN nodes \subseteq DOMAIN nodes'
        /\ \A j \in DOMAIN nodes : nodes'[j].said = nodes[j].said /\ nodes'[j].run = nodes[j].run
        /\ \A j \in DOMAIN nodes \ {i} : nodes'[j].status = nodes[j].status
        /\ \A j \in DOMAIN nodes' \ DOMAIN nodes :
             nodes'[j].said = {} /\ nodes'[j].status = "running"
    BY <1>3, <1>4, <1>5, <1>6, <2>1, <2>2, AcceptanceIs
  <2>4. Orderly'
    <3>1. op'.kind = "submit" /\ op'.verdict # "stopping"
      BY <2>1
    <3> QED
      BY <1>1, <1>7, <1>8, <2>3, <3>1, OrderlyOn
  <2>5. PendingInv'
    <3>1. Answering(i, "accept")
      BY <1>1, <1>6, <2>1, <2>3 DEF Answering, i
    <3> QED
      BY <3>1, PendingAnswering
  <2> QED
    BY <2>3, <2>4, <2>5 DEF StepKinds
<1>10. CASE ~(StillRunning(i) /\ Validates(wf, nodes[i].spec, settlement))
  <2> DEFINE verdict == IF StillRunning(i) THEN "reject" ELSE "finished"
  <2>1. /\ op' = [kind |-> "submit", node |-> i, verdict |-> verdict, running |-> {}]
        /\ UNCHANGED <<wf, nodes, lists, outcome>>
    BY <1>1, <1>10 DEF TakeSubmission, Begun
  <2>2. verdict \in {"reject", "finished"}
    OBVIOUS
  <2> HIDE DEF verdict
  <2>3. Orderly'
    <3>1. op'.kind = "submit" /\ op'.verdict # "stopping"
      BY <2>1, <2>2
    <3> QED
      BY <1>1, <1>7, <1>8, <2>1, <3>1, OrderlyOn
  <2>4. PendingInv'
    <3>1. Answering(i, verdict)
      BY <1>1, <1>6, <2>1, <2>2 DEF Answering
    <3> QED
      BY <3>1, PendingAnswering
  <2>5. Continues(S, P)
    <3>1. nodes \in Seq(EntryType(S, P)) /\ SameEnds(nodes, nodes)
      BY GoodFacts DEF SameEnds
    <3>2. Takes(nodes, Waiting, nodes', Waiting')
      BY <2>1 DEF Takes, Waiting
    <3> QED
      BY <2>1, <3>1, <3>2 DEF Continues
  <2> QED
    BY <2>3, <2>4, <2>5 DEF StepKinds
<1> QED
  BY <1>9, <1>10

LEMMA SettlementTaken ==
  ASSUME NEW W, NEW S, NEW P, NEW K, HooksTyped(W, S, P, K), Good(W, S, P), Linked(K),
         Orderly, PendingInv, TakeSettlement
  PROVE  Orderly' /\ PendingInv' /\ StepKinds(S, P)
<1> DEFINE i == Head(queue).node
           settlement == Unfinished(Head(queue).what)
<1>1. /\ op = NoOp /\ queue # <<>> /\ Head(queue).kind = "settle" /\ queue' = Tail(queue)
      /\ UNCHANGED started
  BY DEF TakeSettlement, Take
<1>2. 1 \in DOMAIN queue /\ Head(queue) = queue[1]
  BY <1>1, TailFacts
<1>3. i \in DOMAIN nodes /\ Head(queue).what \in {"rejected", "failed", "cancelled"}
  BY <1>1, <1>2 DEF Good, WorkflowInv, WaitingInv
<1>4. settlement \in Settlements(P) /\ settlement.status # "completed"
  BY <1>3 DEF Unfinished, Settlements, Settled
<1>5. MayEnd(nodes[i].spec, settlement)
  BY <1>4 DEF MayEnd
<1>6. lists["queue"] = Idle /\ op.kind = "none" /\ Waiting = <<>>
  BY <1>1 DEF Orderly, NoOp, Waiting, Idle
<1>7. InterruptsWait'
  BY <1>1, InterruptsGo DEF Orderly
<1>8. started # "no"
  BY <1>1 DEF Orderly, Untouched
<1>9. CASE StillRunning(i) /\ Validates(wf, nodes[i].spec, settlement)
  <2>1. /\ ApplySettlement("queue", i, settlement, Count(i, settlement), <<>>)
        /\ op' = [kind |-> "settle", node |-> i, verdict |-> "settled", running |-> {}]
    BY <1>1, <1>9 DEF TakeSettlement, Begun
  <2>2. nodes[i].status = "running" /\ Validates(wf, nodes[i].spec, settlement)
    BY <1>9 DEF StillRunning
  <2> HIDE DEF i, settlement
  <2>3. /\ Accepts(P, i, settlement)
        /\ lists'["start"] = lists["start"]
        /\ DOMAIN nodes \subseteq DOMAIN nodes'
        /\ \A j \in DOMAIN nodes : nodes'[j].said = nodes[j].said /\ nodes'[j].run = nodes[j].run
        /\ \A j \in DOMAIN nodes \ {i} : nodes'[j].status = nodes[j].status
        /\ nodes'[i].status = settlement.status
        /\ \A j \in DOMAIN nodes' \ DOMAIN nodes :
             nodes'[j].said = {} /\ nodes'[j].status = "running"
    BY <1>3, <1>4, <1>5, <1>6, <2>1, <2>2, AcceptanceIs
  <2>4. Orderly'
    <3>1. op'.kind = "settle" /\ op'.verdict # "stopping"
      BY <2>1
    <3> QED
      BY <1>1, <1>7, <1>8, <2>3, <3>1, OrderlyOn
  <2>5. PendingInv'
    <3>1. Silent
      BY <1>1, <1>4, <1>6, <2>1, <2>3 DEF Silent
    <3> QED
      BY <3>1, PendingSilent
  <2> QED
    BY <2>3, <2>4, <2>5 DEF StepKinds
<1>10. CASE ~(StillRunning(i) /\ Validates(wf, nodes[i].spec, settlement))
  <2>1. /\ op' = [kind |-> "settle", node |-> i, verdict |-> "threw", running |-> {}]
        /\ UNCHANGED <<wf, nodes, lists, outcome>>
    BY <1>1, <1>10 DEF TakeSettlement, Begun
  <2>2. Orderly'
    <3>1. op'.kind = "settle" /\ op'.verdict # "stopping"
      BY <2>1
    <3> QED
      BY <1>1, <1>7, <1>8, <2>1, <3>1, OrderlyOn
  <2>3. PendingInv'
    <3>1. Silent
      BY <1>1, <1>6, <2>1 DEF Silent
    <3> QED
      BY <3>1, PendingSilent
  <2>4. Continues(S, P)
    <3>1. nodes \in Seq(EntryType(S, P)) /\ SameEnds(nodes, nodes)
      BY GoodFacts DEF SameEnds
    <3>2. Takes(nodes, Waiting, nodes', Waiting')
      BY <2>1 DEF Takes, Waiting
    <3> QED
      BY <2>1, <3>1, <3>2 DEF Continues
  <2> QED
    BY <2>2, <2>3, <2>4 DEF StepKinds
<1> QED
  BY <1>9, <1>10

LEMMA StepInOrder ==
  ASSUME NEW W, NEW S, NEW P, NEW K, HooksTyped(W, S, P, K), StartsWithOne, ~LaunchMayFail,
         Good(W, S, P), Linked(K), Good(W, S, P)', Orderly, PendingInv, [Next]_vars
  PROVE  Orderly' /\ PendingInv' /\ StepKinds(S, P)
<1>1. CASE RuntimeStep
  <2>1. CASE Start
    BY <2>1, StartInOrder
  <2>2. CASE HandOver
    BY <2>2, HandOverInOrder
  <2>3. ASSUME NEW x \in Executors, LaunchReturns(x) \/ LaunchFails(x)
        PROVE  Orderly' /\ PendingInv' /\ StepKinds(S, P)
    <3>1. LaunchReturns(x)
      BY <2>3 DEF LaunchFails
    <3> QED
      BY <3>1, LaunchInOrder
  <2>4. CASE TakeSubmission
    BY <2>4, SubmissionTaken
  <2>5. CASE TakeSettlement
    BY <2>5, SettlementTaken
  <2>6. CASE TakeInterrupt
    BY <2>6, InterruptTaken
  <2>7. CASE FinishInterrupt
    BY <2>7, StopInOrder
  <2>8. CASE EndOperation
    BY <2>8, AnswerInOrder
  <2> QED
    BY <1>1, <2>1, <2>2, <2>3, <2>4, <2>5, <2>6, <2>7, <2>8 DEF RuntimeStep
<1>2. ASSUME NEW i \in DOMAIN nodes, NodeStep(i)
      PROVE  Orderly' /\ PendingInv' /\ StepKinds(S, P)
  <2>1. ASSUME NEW payload \in Payloads(nodes[i].spec),
               AgentSubmits(i, payload) \/ WorkflowReports(i, payload)
        PROVE  Orderly' /\ PendingInv' /\ StepKinds(S, P)
    BY <2>1, SubmitInOrder
  <2>2. CASE AgentReports(i)
    BY <2>2, ReportInOrder
  <2>3. CASE Monitor(i) \/ \E how \in {"failed", "rejected", "cancelled"} : RunEnds(i, how)
    BY <2>3, RunEndsInOrder
  <2> QED
    BY <1>2, <2>1, <2>2, <2>3 DEF NodeStep
<1>3. CASE Interrupt
  BY <1>3, InterruptInOrder
<1>4. CASE UNCHANGED vars
  BY <1>4, HandOverInOrder
<1> QED
  BY <1>1, <1>2, <1>3, <1>4 DEF Next

=============================================================================
