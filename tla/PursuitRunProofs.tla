---------------------------- MODULE PursuitRunProofs ----------------------------
(***************************************************************************)
(* The theorems about any workflow, applied to pursuit, for any attempt    *)
(* budget, any number of legs and any plans.  Its hooks keep a state's     *)
(* types and the graph of its work items in order: no two items of a leg   *)
(* share name and goal version, every dependency is an item of the leg,    *)
(* and what has been judged stays.  When launches do not fail, each item   *)
(* has one node and the status that node earned, the outcome of the run    *)
(* follows from the legs, attempts and items it ended with, and until it   *)
(* has one the run is never stuck.                                         *)
(***************************************************************************)
EXTENDS PursuitRun, WorkflowRunProofs, SequenceLemmas, FiniteSetTheorems

(* The runtime runs pursuits. *)
PursuitHooks ==
  /\ InitialStates \subseteq {PursuitInitial(goals) : goals \in Nat}
  /\ \A state, running : Dispatches(state, running) = PursuitDispatches(state, running)
  /\ \A state, spec, settlement, running :
       Applied(state, spec, settlement, running)
         = PursuitApplied(state, spec, settlement, running)
  /\ \A state, spec, settlement :
       Validates(state, spec, settlement) <=> PursuitValidates(state, spec, settlement)
  /\ \A spec : Payloads(spec) = PursuitPayloads(spec)

ItemType == [id : STRING, version : Nat, deps : SUBSET STRING, status : ItemStatuses]
AttemptType ==
  [status : EntityTerminal \cup {"Running"}, consistent : BOOLEAN, plan : PlanStatuses,
   items : Seq(ItemType)]
LegType ==
  [status : EntityTerminal \cup {"Running"}, version : Nat, next : BOOLEAN,
   attempts : Seq(AttemptType)]

(* The places of a leg's items, and what is at them. *)
Place(leg, a, k) == a \in DOMAIN leg.attempts /\ k \in DOMAIN leg.attempts[a].items
At(leg, a, k) == leg.attempts[a].items[k]
SameKey(x, y) == x.id = y.id /\ x.version = y.version

(* The graph of a leg's items: names are unique within a goal version,      *)
(* dependencies are items of the same version, and the items of the version *)
(* in force are in attempts that are consistent with it.                    *)
KeysDiffer(leg) ==
  \A a, b, j, k : Place(leg, a, j) /\ Place(leg, b, k) /\ SameKey(At(leg, a, j), At(leg, b, k))
    => a = b /\ j = k
DepsResolve(leg) ==
  \A a, k : Place(leg, a, k) => \A id \in At(leg, a, k).deps :
    \E b, j : /\ Place(leg, b, j) /\ At(leg, b, j).id = id
              /\ At(leg, b, j).version = At(leg, a, k).version
VersionsFit(leg) ==
  /\ leg.version >= 1
  /\ \A a, k : Place(leg, a, k) =>
       /\ At(leg, a, k).version \in 1..leg.version
       /\ At(leg, a, k).version = leg.version => leg.attempts[a].consistent
GraphOK(leg) == KeysDiffer(leg) /\ DepsResolve(leg) /\ VersionsFit(leg)

(* An attempt that was judged has been planned and is done with its items.  *)
AttemptOK(attempt) ==
  /\ attempt.status # "Running" =>
       /\ attempt.plan # "NotStarted"
       /\ \A k \in DOMAIN attempt.items : attempt.items[k].status \in ItemTerminal
  /\ attempt.plan # "Success" => attempt.items = <<>>
  /\ attempt.plan = "NotStarted" => attempt.consistent

ShapeOK(leg) ==
  /\ Len(leg.attempts) \in 1..MaxAttempts
  /\ \A a \in DOMAIN leg.attempts :
       /\ AttemptOK(leg.attempts[a])
       /\ leg.attempts[a].status = "Running" =>
            a = Len(leg.attempts) /\ leg.status = "Running"

LegOK(leg) == leg \in LegType /\ GraphOK(leg) /\ ShapeOK(leg)

(* What a step may make of a leg: items are added and their statuses move   *)
(* on from "NotStarted"; a judged attempt stays.                            *)
ItemGrows(x, y) ==
  /\ SameKey(x, y) /\ x.deps = y.deps
  /\ x.status = y.status \/ x.status = "NotStarted"
Grows(leg, new) ==
  /\ DOMAIN leg.attempts \subseteq DOMAIN new.attempts
  /\ \A a, k : Place(leg, a, k) => Place(new, a, k) /\ ItemGrows(At(leg, a, k), At(new, a, k))
  /\ \A a \in DOMAIN leg.attempts : leg.attempts[a].status # "Running" =>
       /\ new.attempts[a].status = leg.attempts[a].status
       /\ new.attempts[a].items = leg.attempts[a].items

StateType ==
  [done : BOOLEAN, status : {"running", "success", "failure", "deadlocked"}, goals : Nat,
   legs : Seq(LegType)]
StateOK(state) ==
  /\ state.legs # <<>>
  /\ \A l \in DOMAIN state.legs :
       LegOK(state.legs[l]) /\ (state.legs[l].status = "Running" => l = Len(state.legs))
  /\ state.done => state.status # "running"
PursuitStates == {state \in StateType : StateOK(state)}

StateGrows(state, new) ==
  /\ DOMAIN state.legs \subseteq DOMAIN new.legs
  /\ \A l \in DOMAIN state.legs : Grows(state.legs[l], new.legs[l])

-----------------------------------------------------------------------------
LEMMA GrowsItself == ASSUME NEW leg PROVE Grows(leg, leg)
BY DEF Grows, ItemGrows, SameKey

LEMMA GrowsOn ==
  ASSUME NEW x, NEW y, NEW z, Grows(x, y), Grows(y, z)
  PROVE  Grows(x, z)
<1>1. DOMAIN x.attempts \subseteq DOMAIN z.attempts
  BY DEF Grows
<1>2. ASSUME NEW a, NEW k, Place(x, a, k)
      PROVE  Place(z, a, k) /\ ItemGrows(At(x, a, k), At(z, a, k))
  <2>1. Place(y, a, k) /\ ItemGrows(At(x, a, k), At(y, a, k))
    BY <1>2 DEF Grows
  <2>2. Place(z, a, k) /\ ItemGrows(At(y, a, k), At(z, a, k))
    BY <2>1 DEF Grows
  <2> QED
    BY <2>1, <2>2 DEF ItemGrows, SameKey
<1>3. ASSUME NEW a \in DOMAIN x.attempts, x.attempts[a].status # "Running"
      PROVE  /\ z.attempts[a].status = x.attempts[a].status
             /\ z.attempts[a].items = x.attempts[a].items
  <2>1. /\ y.attempts[a].status = x.attempts[a].status
        /\ y.attempts[a].items = x.attempts[a].items
        /\ a \in DOMAIN y.attempts
    BY <1>3 DEF Grows
  <2> QED
    BY <1>3, <2>1 DEF Grows
<1> QED
  BY <1>1, <1>2, <1>3 DEF Grows

(* A leg's types, part by part. *)
LEMMA LegFacts ==
  ASSUME NEW leg \in LegType
  PROVE  /\ leg.version \in Nat /\ leg.next \in BOOLEAN
         /\ leg.status \in EntityTerminal \cup {"Running"}
         /\ leg.attempts \in Seq(AttemptType)
         /\ Len(leg.attempts) \in Nat /\ DOMAIN leg.attempts = 1..Len(leg.attempts)
         /\ \A a \in DOMAIN leg.attempts :
              /\ leg.attempts[a] \in AttemptType
              /\ leg.attempts[a].items \in Seq(ItemType)
              /\ leg.attempts[a].status \in EntityTerminal \cup {"Running"}
              /\ leg.attempts[a].plan \in PlanStatuses
              /\ leg.attempts[a].consistent \in BOOLEAN
         /\ \A a, k : Place(leg, a, k) => At(leg, a, k) \in ItemType
<1>1. /\ leg.version \in Nat /\ leg.next \in BOOLEAN
      /\ leg.status \in EntityTerminal \cup {"Running"}
      /\ leg.attempts \in Seq(AttemptType)
  BY DEF LegType
<1>2. Len(leg.attempts) \in Nat /\ DOMAIN leg.attempts = 1..Len(leg.attempts)
  BY <1>1
<1>3. \A a \in DOMAIN leg.attempts : leg.attempts[a] \in AttemptType
  BY <1>1
<1>4. \A a \in DOMAIN leg.attempts :
              /\ leg.attempts[a].items \in Seq(ItemType)
              /\ leg.attempts[a].status \in EntityTerminal \cup {"Running"}
              /\ leg.attempts[a].plan \in PlanStatuses
              /\ leg.attempts[a].consistent \in BOOLEAN
  BY <1>3 DEF AttemptType
<1>5. \A a, k : Place(leg, a, k) => At(leg, a, k) \in ItemType
  BY <1>4 DEF Place, At
<1> QED
  BY <1>1, <1>2, <1>3, <1>4, <1>5

LEMMA ItemFacts ==
  ASSUME NEW item \in ItemType
  PROVE  /\ item.id \in STRING /\ item.version \in Nat /\ item.deps \in SUBSET STRING
         /\ item.status \in ItemStatuses
BY DEF ItemType

(* A leg with the same items keeps the graph in order. *)
SameGraph(leg, new) ==
  /\ new.version = leg.version
  /\ \A a, k : Place(new, a, k) <=> Place(leg, a, k)
  /\ \A a, k : Place(leg, a, k) =>
       /\ SameKey(At(leg, a, k), At(new, a, k))
       /\ At(new, a, k).deps = At(leg, a, k).deps
       /\ new.attempts[a].consistent = leg.attempts[a].consistent

LEMMA SameGraphOK ==
  ASSUME NEW leg, NEW new, GraphOK(leg), SameGraph(leg, new)
  PROVE  GraphOK(new)
<1>1. KeysDiffer(new)
  <2> SUFFICES ASSUME NEW a, NEW b, NEW j, NEW k, Place(new, a, j), Place(new, b, k),
                      SameKey(At(new, a, j), At(new, b, k))
               PROVE  a = b /\ j = k
    BY DEF KeysDiffer
  <2>1. Place(leg, a, j) /\ Place(leg, b, k)
    BY DEF SameGraph
  <2>2. SameKey(At(leg, a, j), At(leg, b, k))
    BY <2>1 DEF SameGraph, SameKey
  <2> QED
    BY <2>1, <2>2 DEF GraphOK, KeysDiffer
<1>2. DepsResolve(new)
  <2> SUFFICES ASSUME NEW a, NEW k, Place(new, a, k), NEW id \in At(new, a, k).deps
               PROVE  \E b, j : /\ Place(new, b, j) /\ At(new, b, j).id = id
                                /\ At(new, b, j).version = At(new, a, k).version
    BY DEF DepsResolve
  <2>1. Place(leg, a, k) /\ id \in At(leg, a, k).deps
        /\ At(new, a, k).version = At(leg, a, k).version
    BY DEF SameGraph, SameKey
  <2>2. PICK b, j : /\ Place(leg, b, j) /\ At(leg, b, j).id = id
                    /\ At(leg, b, j).version = At(leg, a, k).version
    BY <2>1 DEF GraphOK, DepsResolve
  <2> QED
    BY <2>1, <2>2 DEF SameGraph, SameKey
<1>3. VersionsFit(new)
  BY DEF SameGraph, SameKey, GraphOK, VersionsFit
<1> QED
  BY <1>1, <1>2, <1>3 DEF GraphOK

(* Items whose statuses move on from "NotStarted", and nothing else.        *)
ItemMoves(x, y) ==
  /\ SameKey(x, y) /\ x.deps = y.deps
  /\ x.status = y.status \/ (x.status = "NotStarted" /\ y.status \in ItemTerminal)
AttemptMoves(x, y) ==
  /\ y.status = x.status /\ y.consistent = x.consistent /\ y.plan = x.plan
  /\ DOMAIN y.items = DOMAIN x.items
  /\ \A k \in DOMAIN x.items : ItemMoves(x.items[k], y.items[k])
LegMoves(leg, new) ==
  /\ new.status = leg.status /\ new.version = leg.version /\ new.next = leg.next
  /\ DOMAIN new.attempts = DOMAIN leg.attempts
  /\ \A a \in DOMAIN leg.attempts : AttemptMoves(leg.attempts[a], new.attempts[a])

LEMMA LegMovesItself == ASSUME NEW leg PROVE LegMoves(leg, leg)
BY DEF LegMoves, AttemptMoves, ItemMoves, SameKey

LEMMA LegMovesOn ==
  ASSUME NEW x, NEW y, NEW z, LegMoves(x, y), LegMoves(y, z)
  PROVE  LegMoves(x, z)
<1>1. ASSUME NEW a \in DOMAIN x.attempts
      PROVE  AttemptMoves(x.attempts[a], z.attempts[a])
  <2>1. AttemptMoves(x.attempts[a], y.attempts[a]) /\ AttemptMoves(y.attempts[a], z.attempts[a])
    BY DEF LegMoves
  <2>2. ASSUME NEW u, NEW v, NEW w, ItemMoves(u, v), ItemMoves(v, w)
        PROVE  ItemMoves(u, w)
    BY <2>2 DEF ItemMoves, SameKey, ItemTerminal
  <2> QED
    BY <2>1, <2>2 DEF AttemptMoves
<1> QED
  BY <1>1 DEF LegMoves

(* Equal fields make equal items. *)
LEMMA ItemsEqual ==
  ASSUME NEW x \in ItemType, NEW y \in ItemType, ItemMoves(x, y), x.status # "NotStarted"
  PROVE  x = y
BY DEF ItemType, ItemMoves, SameKey

LEMMA EmptyDomain ==
  ASSUME NEW T, NEW s \in Seq(T), NEW t \in Seq(T), DOMAIN s = DOMAIN t, s = <<>>
  PROVE  t = <<>>
<1>1. DOMAIN t = 1..Len(t) /\ Len(t) \in Nat /\ DOMAIN s = {}
  OBVIOUS
<1>2. Len(t) = 0
  <2>1. CASE Len(t) # 0
    <3>1. 1 \in 1..Len(t)
      BY <1>1, <2>1
    <3> QED
      BY <1>1, <3>1
  <2> QED
    BY <2>1
<1> QED
  BY <1>2

LEMMA LegMovesOK ==
  ASSUME NEW leg, LegOK(leg), NEW new \in LegType, LegMoves(leg, new)
  PROVE  LegOK(new) /\ Grows(leg, new)
<1>0. leg \in LegType
  BY DEF LegOK
<1>1. \A a, k : Place(new, a, k) <=> Place(leg, a, k)
  BY DEF Place, LegMoves, AttemptMoves
<1>2. ASSUME NEW a, NEW k, Place(leg, a, k)
      PROVE  /\ ItemMoves(At(leg, a, k), At(new, a, k))
             /\ new.attempts[a].consistent = leg.attempts[a].consistent
  BY <1>2 DEF Place, At, LegMoves, AttemptMoves
<1>3. SameGraph(leg, new)
  BY <1>1, <1>2 DEF SameGraph, ItemMoves, LegMoves
<1>4. GraphOK(new)
  BY <1>3, SameGraphOK DEF LegOK
<1>5. ASSUME NEW a \in DOMAIN leg.attempts, leg.attempts[a].status # "Running"
      PROVE  new.attempts[a].items = leg.attempts[a].items
  <2> DEFINE x == leg.attempts[a].items
             y == new.attempts[a].items
  <2>1. a \in DOMAIN new.attempts
    BY DEF LegMoves
  <2>2. x \in Seq(ItemType) /\ y \in Seq(ItemType)
    BY <1>0, <2>1, LegFacts
  <2>3. AttemptOK(leg.attempts[a]) /\ AttemptMoves(leg.attempts[a], new.attempts[a])
    BY DEF LegOK, ShapeOK, LegMoves
  <2>4. DOMAIN y = DOMAIN x /\ \A k \in DOMAIN x : ItemMoves(x[k], y[k]) /\ x[k].status \in ItemTerminal
    BY <1>5, <2>3 DEF AttemptMoves, AttemptOK
  <2> HIDE DEF x, y
  <2>5. ASSUME NEW k \in DOMAIN x PROVE x[k] = y[k]
    <3>1. x[k] \in ItemType /\ y[k] \in ItemType
      BY <2>2, <2>4
    <3>2. x[k].status # "NotStarted" /\ ItemMoves(x[k], y[k])
      BY <2>4 DEF ItemTerminal
    <3> QED
      BY <3>1, <3>2, ItemsEqual
  <2>6. x = [k \in DOMAIN x |-> x[k]] /\ y = [k \in DOMAIN y |-> y[k]]
    BY <2>2
  <2>7. x = y
    BY <2>4, <2>5, <2>6
  <2> QED
    BY <2>7 DEF x, y
<1>6. Grows(leg, new)
  <2>1. DOMAIN leg.attempts \subseteq DOMAIN new.attempts
    BY DEF LegMoves
  <2>2. \A a \in DOMAIN leg.attempts : new.attempts[a].status = leg.attempts[a].status
    BY DEF LegMoves, AttemptMoves
  <2>3. \A a, k : Place(leg, a, k) => Place(new, a, k) /\ ItemGrows(At(leg, a, k), At(new, a, k))
    BY <1>1, <1>2 DEF ItemMoves, ItemGrows
  <2> QED
    BY <1>5, <2>1, <2>2, <2>3 DEF Grows
<1>7. Len(new.attempts) = Len(leg.attempts)
  BY <1>0, LegFacts DEF LegMoves
<1>8. ASSUME NEW a \in DOMAIN new.attempts
      PROVE  AttemptOK(new.attempts[a])
  <2>1. a \in DOMAIN leg.attempts
    BY DEF LegMoves
  <2>2. AttemptOK(leg.attempts[a]) /\ AttemptMoves(leg.attempts[a], new.attempts[a])
    BY <2>1 DEF LegOK, ShapeOK, LegMoves
  <2>3. leg.attempts[a].items \in Seq(ItemType) /\ new.attempts[a].items \in Seq(ItemType)
    BY <1>0, <2>1, LegFacts
  <2>4. leg.attempts[a].items = <<>> => new.attempts[a].items = <<>>
    <3>1. DOMAIN new.attempts[a].items = DOMAIN leg.attempts[a].items
      BY <2>2 DEF AttemptMoves
    <3> QED
      BY <2>3, <3>1, EmptyDomain
  <2>5. new.attempts[a].status # "Running" =>
          \A k \in DOMAIN new.attempts[a].items : new.attempts[a].items[k].status \in ItemTerminal
    BY <1>5, <2>1, <2>2 DEF AttemptMoves, AttemptOK
  <2> QED
    BY <2>2, <2>4, <2>5 DEF AttemptMoves, AttemptOK
<1>9. ShapeOK(new)
  BY <1>7, <1>8 DEF ShapeOK, LegOK, LegMoves, AttemptMoves
<1> QED
  BY <1>4, <1>6, <1>9 DEF LegOK

-----------------------------------------------------------------------------
(* Records of the pursuit, field by field. *)
LEMMA LegWith ==
  ASSUME NEW leg \in LegType, NEW attempts \in Seq(AttemptType), NEW new,
         new = [leg EXCEPT !.attempts = attempts]
  PROVE  /\ new \in LegType /\ new.attempts = attempts /\ new.status = leg.status
         /\ new.version = leg.version /\ new.next = leg.next
<1>1. new = [status |-> leg.status, version |-> leg.version, next |-> leg.next,
             attempts |-> attempts]
  BY DEF LegType
<1> QED
  BY <1>1 DEF LegType

LEMMA AttemptWith ==
  ASSUME NEW attempt \in AttemptType, NEW items \in Seq(ItemType), NEW new,
         new = [attempt EXCEPT !.items = items]
  PROVE  /\ new \in AttemptType /\ new.items = items /\ new.status = attempt.status
         /\ new.plan = attempt.plan /\ new.consistent = attempt.consistent
<1>1. new = [status |-> attempt.status, consistent |-> attempt.consistent,
             plan |-> attempt.plan, items |-> items]
  BY DEF AttemptType
<1> QED
  BY <1>1 DEF AttemptType

LEMMA ItemWith ==
  ASSUME NEW item \in ItemType, NEW status \in ItemStatuses, NEW new,
         new = [item EXCEPT !.status = status]
  PROVE  /\ new \in ItemType /\ new.status = status /\ new.id = item.id
         /\ new.version = item.version /\ new.deps = item.deps
<1>1. new = [id |-> item.id, version |-> item.version, deps |-> item.deps, status |-> status]
  BY DEF ItemType
<1> QED
  BY <1>1 DEF ItemType

(* One round of blocks. *)
LEMMA BlockOnceMoves ==
  ASSUME NEW leg \in LegType, NEW l, NEW running
  PROVE  BlockOnce(leg, l, running) \in LegType /\ LegMoves(leg, BlockOnce(leg, l, running))
<1> DEFINE blocks(item) == /\ item.status = "NotStarted"
                           /\ ~WorkerRuns(running, l, item)
                           /\ DependencyBlocks(leg, item)
           after(item) == Blocked(leg, l, item, running)
           items(a) == [k \in DOMAIN leg.attempts[a].items |-> after(leg.attempts[a].items[k])]
           attempt(a) == [leg.attempts[a] EXCEPT !.items = items(a)]
           attempts == [a \in DOMAIN leg.attempts |-> attempt(a)]
           new == BlockOnce(leg, l, running)
<1>1. new = [leg EXCEPT !.attempts = attempts]
  BY DEF BlockOnce
<1>2. ASSUME NEW item \in ItemType
      PROVE  after(item) \in ItemType /\ ItemMoves(item, after(item))
  <2>1. CASE blocks(item)
    <3> DEFINE y == [item EXCEPT !.status = "Blocked"]
    <3>1. after(item) = y /\ item.status = "NotStarted"
      BY <2>1 DEF Blocked
    <3>2. "Blocked" \in ItemStatuses /\ "Blocked" \in ItemTerminal
      BY DEF ItemStatuses, ItemTerminal
    <3>3. y = [item EXCEPT !.status = "Blocked"]
      OBVIOUS
    <3> HIDE DEF y, blocks
    <3>4. y \in ItemType /\ y.status = "Blocked" /\ y.id = item.id
          /\ y.version = item.version /\ y.deps = item.deps
      BY <3>2, <3>3, ItemWith
    <3> QED
      BY <3>1, <3>2, <3>4 DEF ItemMoves, SameKey
  <2>2. CASE ~blocks(item)
    BY <2>2 DEF Blocked, ItemMoves, SameKey
  <2> QED
    BY <2>1, <2>2
<1> HIDE DEF after, blocks, new
<1>3. ASSUME NEW a \in DOMAIN leg.attempts
      PROVE  attempt(a) \in AttemptType /\ AttemptMoves(leg.attempts[a], attempt(a))
  <2>1. leg.attempts[a] \in AttemptType /\ leg.attempts[a].items \in Seq(ItemType)
    BY LegFacts
  <2> DEFINE x == leg.attempts[a].items
             y == items(a)
             new2 == attempt(a)
  <2>2. x \in Seq(ItemType) /\ DOMAIN y = DOMAIN x /\ \A k \in DOMAIN x : y[k] = after(x[k])
    BY <2>1
  <2>3. DOMAIN x = 1..Len(x) /\ Len(x) \in Nat
    BY <2>2
  <2>4. new2 = [leg.attempts[a] EXCEPT !.items = y]
    OBVIOUS
  <2>9. y = [k \in DOMAIN x |-> y[k]]
    OBVIOUS
  <2> HIDE DEF x, y, new2, items
  <2>5. \A k \in DOMAIN x : y[k] \in ItemType /\ ItemMoves(x[k], y[k])
    BY <1>2, <2>2
  <2>6. y \in Seq(ItemType)
    BY <2>2, <2>3, <2>5, <2>9
  <2>7. /\ new2 \in AttemptType /\ new2.items = y /\ new2.status = leg.attempts[a].status
        /\ new2.plan = leg.attempts[a].plan /\ new2.consistent = leg.attempts[a].consistent
    BY <2>1, <2>4, <2>6, AttemptWith
  <2>8. AttemptMoves(leg.attempts[a], new2)
    BY <2>2, <2>5, <2>7 DEF AttemptMoves, x
  <2> QED
    BY <2>7, <2>8 DEF new2
<1>4. DOMAIN attempts = DOMAIN leg.attempts /\ \A a \in DOMAIN leg.attempts : attempts[a] = attempt(a)
  OBVIOUS
<1>8. attempts = [a \in DOMAIN leg.attempts |-> attempts[a]]
  OBVIOUS
<1> HIDE DEF attempt, attempts, items
<1>5. attempts \in Seq(AttemptType)
  <2>1. DOMAIN leg.attempts = 1..Len(leg.attempts) /\ Len(leg.attempts) \in Nat
    BY LegFacts
  <2> QED
    BY <1>3, <1>4, <1>8, <2>1
<1>6. /\ new \in LegType /\ new.attempts = attempts /\ new.status = leg.status
      /\ new.version = leg.version /\ new.next = leg.next
  BY <1>1, <1>5, LegWith
<1>7. LegMoves(leg, new)
  BY <1>3, <1>4, <1>6 DEF LegMoves
<1> QED
  BY <1>6, <1>7 DEF new

(* PropagatedBlocks is the last value of a recursive function: it exists,   *)
(* and what every round keeps, it keeps.                                    *)
Rounds(g, leg, l, running, n) ==
  g = [i \in 0..n |-> IF i = 0 THEN leg ELSE BlockOnce(g[i - 1], l, running)]

LEMMA RoundsExist ==
  ASSUME NEW leg, NEW l, NEW running
  PROVE  \A n \in Nat : \E g : Rounds(g, leg, l, running, n)
<1> DEFINE N == {n \in Nat : \E g : Rounds(g, leg, l, running, n)}
<1>1. 0 \in N
  <2> DEFINE g == [i \in 0..0 |-> leg]
  <2>1. g = [i \in 0..0 |-> IF i = 0 THEN leg ELSE BlockOnce(g[i - 1], l, running)]
    OBVIOUS
  <2> QED
    BY <2>1 DEF Rounds
<1>2. ASSUME NEW n \in Nat, n \in N PROVE n + 1 \in N
  <2>1. PICK g : Rounds(g, leg, l, running, n)
    BY <1>2
  <2>2. \A i \in 0..n : g[i] = IF i = 0 THEN leg ELSE BlockOnce(g[i - 1], l, running)
    BY <2>1 DEF Rounds
  <2> DEFINE h == [i \in 0..n + 1 |-> IF i <= n THEN g[i] ELSE BlockOnce(g[n], l, running)]
  <2>3. ASSUME NEW i \in 0..n + 1
        PROVE  h[i] = IF i = 0 THEN leg ELSE BlockOnce(h[i - 1], l, running)
    <3>1. CASE i <= n
      <4>1. i \in 0..n /\ h[i] = g[i]
        BY <3>1
      <4>2. i # 0 => i - 1 \in 0..n + 1 /\ i - 1 <= n
        BY <3>1
      <4>3. i # 0 => h[i - 1] = g[i - 1]
        BY <4>2
      <4> QED
        BY <2>2, <4>1, <4>3
    <3>2. CASE ~(i <= n)
      <4>1. i = n + 1 /\ i # 0 /\ i - 1 = n /\ n \in 0..n + 1 /\ n <= n
        BY <3>2
      <4>2. h[n] = g[n] /\ h[i] = BlockOnce(g[n], l, running)
        BY <3>2, <4>1
      <4> QED
        BY <4>1, <4>2
    <3> QED
      BY <3>1, <3>2
  <2>4. h = [i \in 0..n + 1 |-> h[i]]
    OBVIOUS
  <2> HIDE DEF h
  <2>5. Rounds(h, leg, l, running, n + 1)
    BY <2>3, <2>4 DEF Rounds
  <2> QED
    BY <2>5
<1> HIDE DEF N
<1>3. \A n \in Nat : n \in N
  BY <1>1, <1>2, UpFromZero
<1> QED
  BY <1>3 DEF N

LEMMA BlocksKeep ==
  ASSUME NEW leg, NEW l, NEW running, NEW U, leg \in U,
         \A x \in U : BlockOnce(x, l, running) \in U,
         Len(AllItems(leg)) \in Nat
  PROVE  PropagatedBlocks(leg, l, running) \in U
<1> DEFINE m == Len(AllItems(leg))
           f == CHOOSE g : Rounds(g, leg, l, running, m)
<1>1. Rounds(f, leg, l, running, m)
  BY RoundsExist
<1>2. PropagatedBlocks(leg, l, running) = f[m]
  BY DEF PropagatedBlocks, Rounds
<1> HIDE DEF f, m
<1>3. m \in Nat
  BY DEF m
<1>4. \A i \in 0..m : f[i] = IF i = 0 THEN leg ELSE BlockOnce(f[i - 1], l, running)
  BY <1>1 DEF Rounds
<1> DEFINE N == {n \in Nat : n <= m => f[n] \in U}
<1>5. 0 \in N
  BY <1>3, <1>4
<1>6. ASSUME NEW n \in Nat, n \in N PROVE n + 1 \in N
  <2> SUFFICES ASSUME n + 1 <= m PROVE f[n + 1] \in U
    OBVIOUS
  <2>1. n + 1 \in 0..m /\ n + 1 # 0 /\ (n + 1) - 1 = n /\ n <= m
    BY <1>3
  <2>2. f[n + 1] = BlockOnce(f[n], l, running)
    BY <1>4, <2>1
  <2> QED
    BY <1>6, <2>1, <2>2
<1> HIDE DEF N
<1>7. \A n \in Nat : n \in N
  BY <1>5, <1>6, UpFromZero
<1>8. m \in N /\ m <= m
  BY <1>3, <1>7
<1> QED
  BY <1>2, <1>8 DEF N

(* All items of a leg, as a sequence. *)
LEMMA AllItemsType ==
  ASSUME NEW leg \in LegType
  PROVE  /\ [a \in DOMAIN leg.attempts |-> leg.attempts[a].items] \in Seq(Seq(ItemType))
         /\ AllItems(leg) \in Seq(ItemType)
<1> DEFINE seqs == [a \in DOMAIN leg.attempts |-> leg.attempts[a].items]
<1>1. seqs \in Seq(Seq(ItemType))
  BY LegFacts
<1> HIDE DEF seqs
<1>2. FlattenSeq(seqs) \in Seq(ItemType)
  BY <1>1, FlattenType
<1> QED
  BY <1>1, <1>2 DEF seqs, AllItems

LEMMA BlocksMove ==
  ASSUME NEW leg \in LegType, NEW l, NEW running
  PROVE  /\ PropagatedBlocks(leg, l, running) \in LegType
         /\ LegMoves(leg, PropagatedBlocks(leg, l, running))
<1> DEFINE U == {x \in LegType : LegMoves(leg, x)}
<1>1. leg \in U
  BY LegMovesItself
<1>2. ASSUME NEW x \in U PROVE BlockOnce(x, l, running) \in U
  <2>1. BlockOnce(x, l, running) \in LegType /\ LegMoves(x, BlockOnce(x, l, running))
    BY BlockOnceMoves
  <2> QED
    BY <2>1, LegMovesOn
<1>3. Len(AllItems(leg)) \in Nat
  BY AllItemsType
<1> HIDE DEF U
<1>4. PropagatedBlocks(leg, l, running) \in U
  BY <1>1, <1>2, <1>3, BlocksKeep
<1> QED
  BY <1>4 DEF U

-----------------------------------------------------------------------------
(* Searching a sequence finds the first that fits. *)
LEMMA LeastOf ==
  ASSUME NEW I \in SUBSET Nat, I # {}
  PROVE  Min(I) \in I
<1>1. \E x \in I : \A y \in I : x <= y
  BY LeastNatural
<1> QED
  BY <1>1 DEF Min

LEMMA ItemFound ==
  ASSUME NEW attempt, attempt.items \in Seq(ItemType), NEW spec,
         NEW n \in DOMAIN attempt.items, attempt.items[n].id = spec.item,
         attempt.items[n].version = spec.version
  PROVE  /\ ItemAt(attempt, spec) \in DOMAIN attempt.items
         /\ attempt.items[ItemAt(attempt, spec)].id = spec.item
         /\ attempt.items[ItemAt(attempt, spec)].version = spec.version
<1> DEFINE items == attempt.items
           I == {k \in 1..Len(items) : items[k].id = spec.item /\ items[k].version = spec.version}
<1>1. DOMAIN items = 1..Len(items) /\ n \in I /\ I \in SUBSET Nat
  OBVIOUS
<1>2. ItemAt(attempt, spec) = Min(I)
  BY <1>1 DEF ItemAt, SelectInSeq
<1>3. Min(I) \in I
  BY <1>1, LeastOf
<1> QED
  BY <1>1, <1>2, <1>3

(* Where the items of a leg's list are in its attempts. *)
Places(leg, i, k) ==
  LET items == AllItems(leg) IN
  /\ \A n \in DOMAIN items : Place(leg, i[n], k[n]) /\ At(leg, i[n], k[n]) = items[n]
  /\ \A n, m \in DOMAIN items : i[n] = i[m] /\ k[n] = k[m] => n = m
  /\ \A a, b : Place(leg, a, b) => \E n \in DOMAIN items : i[n] = a /\ k[n] = b

LEMMA ItemsPlaced ==
  ASSUME NEW leg \in LegType
  PROVE  \E i, k : Places(leg, i, k)
<1> DEFINE seqs == [a \in DOMAIN leg.attempts |-> leg.attempts[a].items]
           items == AllItems(leg)
<1>1. seqs \in Seq(Seq(ItemType))
  BY AllItemsType
<1>2. items = FlattenSeq(seqs)
  BY DEF AllItems
<1>3. /\ DOMAIN seqs = DOMAIN leg.attempts
      /\ \A a \in DOMAIN leg.attempts : seqs[a] = leg.attempts[a].items
  OBVIOUS
<1> HIDE DEF seqs, items
<1>4. PICK i, k : IsPlacing(i, k, FlattenSeq(seqs), seqs)
  BY <1>1, FlattenPlaces
<1>5. ASSUME NEW n \in DOMAIN items
      PROVE  Place(leg, i[n], k[n]) /\ At(leg, i[n], k[n]) = items[n]
  BY <1>2, <1>3, <1>4 DEF IsPlacing, Place, At
<1>6. \A n, m \in DOMAIN items : i[n] = i[m] /\ k[n] = k[m] => n = m
  BY <1>2, <1>4 DEF IsPlacing
<1>7. ASSUME NEW a, NEW b, Place(leg, a, b)
      PROVE  \E n \in DOMAIN items : i[n] = a /\ k[n] = b
  <2>1. a \in DOMAIN seqs /\ b \in DOMAIN seqs[a]
    BY <1>3, <1>7 DEF Place
  <2> QED
    BY <1>2, <1>4, <2>1 DEF IsPlacing
<1> QED
  BY <1>5, <1>6, <1>7 DEF Places, items

(* A dependency's status is that of an item of its name and version, or     *)
(* "unknown" when there is none.                                            *)
LEMMA DependencyFinds ==
  ASSUME NEW leg \in LegType, NEW version, NEW id
  PROVE  \/ /\ DependencyStatus(leg, version, id) = "unknown"
            /\ \A a, k : Place(leg, a, k) =>
                 ~(At(leg, a, k).id = id /\ At(leg, a, k).version = version)
         \/ \E a, k : /\ Place(leg, a, k) /\ At(leg, a, k).id = id
                      /\ At(leg, a, k).version = version
                      /\ DependencyStatus(leg, version, id) = At(leg, a, k).status
<1> DEFINE items == AllItems(leg)
           I == {n \in 1..Len(items) : items[n].id = id /\ items[n].version = version}
<1>1. items \in Seq(ItemType)
  BY AllItemsType
<1>2. PICK i, k : Places(leg, i, k)
  BY ItemsPlaced
<1>3. DependencyStatus(leg, version, id)
        = IF (IF I # {} THEN Min(I) ELSE 0) = 0 THEN "unknown"
          ELSE items[IF I # {} THEN Min(I) ELSE 0].status
  BY DEF DependencyStatus, SelectInSeq
<1>4. /\ \A n \in DOMAIN items : Place(leg, i[n], k[n]) /\ At(leg, i[n], k[n]) = items[n]
      /\ \A a, b : Place(leg, a, b) => \E n \in DOMAIN items : i[n] = a /\ k[n] = b
  BY <1>2 DEF Places
<1> HIDE DEF items
<1>5. DOMAIN items = 1..Len(items) /\ I \in SUBSET Nat
  BY <1>1
<1>6. \A a, b : Place(leg, a, b) => \E n \in DOMAIN items : items[n] = At(leg, a, b)
  BY <1>4
<1>7. CASE I = {}
  BY <1>3, <1>5, <1>6, <1>7
<1>8. CASE I # {}
  <2>1. Min(I) \in I
    BY <1>5, <1>8, LeastOf
  <2>2. Min(I) # 0 /\ Min(I) \in DOMAIN items
    BY <1>5, <2>1
  <2>3. DependencyStatus(leg, version, id) = items[Min(I)].status
    BY <1>3, <1>8, <2>2
  <2>4. items[Min(I)].id = id /\ items[Min(I)].version = version
    BY <2>1
  <2> HIDE DEF I
  <2>5. Place(leg, i[Min(I)], k[Min(I)]) /\ At(leg, i[Min(I)], k[Min(I)]) = items[Min(I)]
    BY <1>4, <2>2
  <2> QED
    BY <2>3, <2>4, <2>5
<1> QED
  BY <1>7, <1>8

(* With unique names it is the status of the item at any place that fits.   *)
LEMMA DependencyIs ==
  ASSUME NEW leg \in LegType, KeysDiffer(leg), NEW a, NEW k, Place(leg, a, k)
  PROVE  DependencyStatus(leg, At(leg, a, k).version, At(leg, a, k).id) = At(leg, a, k).status
<1> DEFINE version == At(leg, a, k).version
           id == At(leg, a, k).id
<1>1. PICK b, j : /\ Place(leg, b, j) /\ At(leg, b, j).id = id
                  /\ At(leg, b, j).version = version
                  /\ DependencyStatus(leg, version, id) = At(leg, b, j).status
  BY DependencyFinds
<1>2. SameKey(At(leg, a, k), At(leg, b, j))
  BY <1>1 DEF SameKey
<1>3. a = b /\ k = j
  BY <1>1, <1>2 DEF KeysDiffer
<1> QED
  BY <1>1, <1>3

(* A dependency that has succeeded stays so. *)
LEMMA SuccessStays ==
  ASSUME NEW leg \in LegType, NEW new \in LegType, KeysDiffer(new), Grows(leg, new),
         NEW version, NEW id, DependencyStatus(leg, version, id) = "Success"
  PROVE  DependencyStatus(new, version, id) = "Success"
<1>1. PICK a, k : /\ Place(leg, a, k) /\ At(leg, a, k).id = id
                  /\ At(leg, a, k).version = version
                  /\ At(leg, a, k).status = "Success"
  BY DependencyFinds
<1>2. /\ Place(new, a, k) /\ At(new, a, k).id = id /\ At(new, a, k).version = version
      /\ At(new, a, k).status = "Success"
  BY <1>1 DEF Grows, ItemGrows, SameKey
<1>3. DependencyStatus(new, At(new, a, k).version, At(new, a, k).id) = At(new, a, k).status
  BY <1>2, DependencyIs
<1> QED
  BY <1>2, <1>3


-----------------------------------------------------------------------------
(* What a settlement makes of its leg. *)

(* The same items in the same places, and the attempts that were judged.    *)
KeepsItems(leg, new) ==
  /\ new.version = leg.version
  /\ DOMAIN leg.attempts \subseteq DOMAIN new.attempts
  /\ \A a \in DOMAIN leg.attempts :
       /\ new.attempts[a].items = leg.attempts[a].items
       /\ new.attempts[a].consistent = leg.attempts[a].consistent
       /\ leg.attempts[a].status # "Running" =>
            new.attempts[a].status = leg.attempts[a].status
  /\ \A a \in DOMAIN new.attempts \ DOMAIN leg.attempts : new.attempts[a].items = <<>>

LEMMA KeepsItemsOK ==
  ASSUME NEW leg, NEW new, GraphOK(leg), KeepsItems(leg, new)
  PROVE  GraphOK(new) /\ Grows(leg, new)
<1>1. DOMAIN <<>> = {}
  OBVIOUS
<1>2. \A a, k : Place(new, a, k) <=> Place(leg, a, k)
  BY <1>1 DEF Place, KeepsItems
<1>3. \A a, k : Place(leg, a, k) =>
         At(new, a, k) = At(leg, a, k) /\ new.attempts[a].consistent = leg.attempts[a].consistent
  BY DEF Place, At, KeepsItems
<1>4. SameGraph(leg, new)
  BY <1>2, <1>3 DEF SameGraph, SameKey, KeepsItems
<1>5. GraphOK(new)
  BY <1>4, SameGraphOK
<1>6. \A a, k : Place(leg, a, k) => Place(new, a, k) /\ ItemGrows(At(leg, a, k), At(new, a, k))
  BY <1>2, <1>3 DEF ItemGrows, SameKey
<1>7. Grows(leg, new)
  BY <1>6 DEF Grows, KeepsItems
<1> QED
  BY <1>5, <1>7

(* One item with another status. *)
Worked(leg, a, m, verdict, new) ==
  /\ LegMoves(leg, new)
  /\ At(new, a, m).status = verdict
  /\ \A b, k : Place(leg, b, k) /\ ~(b = a /\ k = m) => At(new, b, k) = At(leg, b, k)

(* An item that has not been started takes the verdict of its worker.       *)
LEMMA WorkedMoves ==
  ASSUME NEW leg \in LegType, NEW spec, spec.attempt \in DOMAIN leg.attempts,
         ItemAt(leg.attempts[spec.attempt], spec) \in DOMAIN leg.attempts[spec.attempt].items,
         leg.attempts[spec.attempt].items[ItemAt(leg.attempts[spec.attempt], spec)].status
           = "NotStarted",
         NEW verdict \in {"Success", "Failed"}
  PROVE  /\ WorkedLeg(leg, spec, verdict) \in LegType
         /\ LegMoves(leg, WorkedLeg(leg, spec, verdict))
         /\ Worked(leg, spec.attempt, ItemAt(leg.attempts[spec.attempt], spec), verdict,
                   WorkedLeg(leg, spec, verdict))
<1> DEFINE a == spec.attempt
           x == leg.attempts[a]
           m == ItemAt(x, spec)
           item == [x.items[m] EXCEPT !.status = verdict]
           items == [x.items EXCEPT ![m] = item]
           y == [x EXCEPT !.items = items]
           attempts == [leg.attempts EXCEPT ![a] = y]
           new == WorkedLeg(leg, spec, verdict)
<1>1. new = [leg EXCEPT !.attempts = attempts]
  BY DEF WorkedLeg
<1>2. /\ a \in DOMAIN leg.attempts /\ m \in DOMAIN x.items /\ x.items[m].status = "NotStarted"
      /\ leg.attempts \in Seq(AttemptType) /\ x \in AttemptType /\ x.items \in Seq(ItemType)
  BY LegFacts
<1>3. item = [x.items[m] EXCEPT !.status = verdict]
  OBVIOUS
<1> HIDE DEF m, item
<1>4. x.items[m] \in ItemType /\ verdict \in ItemStatuses /\ verdict \in ItemTerminal
  BY <1>2 DEF ItemStatuses, ItemTerminal
<1>5. /\ item \in ItemType /\ item.status = verdict /\ item.id = x.items[m].id
      /\ item.version = x.items[m].version /\ item.deps = x.items[m].deps
  BY <1>3, <1>4, ItemWith
<1>6. ItemMoves(x.items[m], item)
  BY <1>2, <1>4, <1>5 DEF ItemMoves, SameKey
<1>7. /\ items \in Seq(ItemType) /\ DOMAIN items = DOMAIN x.items
      /\ \A k \in DOMAIN x.items : items[k] = IF k = m THEN item ELSE x.items[k]
  BY <1>2, <1>5
<1>8. y = [x EXCEPT !.items = items]
  OBVIOUS
<1> HIDE DEF items, y
<1>9. /\ y \in AttemptType /\ y.items = items /\ y.status = x.status
      /\ y.plan = x.plan /\ y.consistent = x.consistent
  BY <1>2, <1>7, <1>8, AttemptWith
<1>10. AttemptMoves(x, y)
  BY <1>6, <1>7, <1>9 DEF AttemptMoves, ItemMoves, SameKey
<1> HIDE DEF x
<1>11. /\ attempts \in Seq(AttemptType) /\ DOMAIN attempts = DOMAIN leg.attempts
       /\ \A b \in DOMAIN leg.attempts : attempts[b] = IF b = a THEN y ELSE leg.attempts[b]
  BY <1>2, <1>9
<1> HIDE DEF attempts, new, a
<1>12. /\ new \in LegType /\ new.attempts = attempts /\ new.status = leg.status
       /\ new.version = leg.version /\ new.next = leg.next
  BY <1>1, <1>11, LegWith
<1>13. \A b \in DOMAIN leg.attempts : AttemptMoves(leg.attempts[b], attempts[b])
  BY <1>10, <1>11 DEF AttemptMoves, ItemMoves, SameKey, x
<1>14. LegMoves(leg, new)
  BY <1>11, <1>12, <1>13 DEF LegMoves
<1>15. At(new, a, m).status = verdict
  BY <1>2, <1>5, <1>7, <1>9, <1>11, <1>12 DEF At, a, x
<1>16. ASSUME NEW b, NEW k, Place(leg, b, k), ~(b = a /\ k = m)
       PROVE  At(new, b, k) = At(leg, b, k)
  <2>1. CASE b = a
    BY <1>7, <1>9, <1>11, <1>12, <1>16, <2>1 DEF Place, At, x
  <2>2. CASE b # a
    BY <1>11, <1>12, <1>16, <2>2 DEF Place, At
  <2> QED
    BY <2>1, <2>2
<1>17. Worked(leg, a, m, verdict, new)
  BY <1>14, <1>15, <1>16 DEF Worked
<1> QED
  BY <1>12, <1>14, <1>17 DEF new, a, m, x

(* The last attempt, still open, and what a leg with another in its place is.*)
Open(leg) == leg.status = "Running" /\ leg.attempts[Len(leg.attempts)].status = "Running"

Replaces(leg, a, y, new) == new = [leg EXCEPT !.attempts[a] = y]

LEMMA LastReplaced ==
  ASSUME NEW leg, LegOK(leg), Open(leg), NEW y \in AttemptType, NEW new, NEW a,
         a = Len(leg.attempts), Replaces(leg, a, y, new),
         y.items = leg.attempts[a].items, y.consistent = leg.attempts[a].consistent
  PROVE  /\ new \in LegType /\ GraphOK(new) /\ Grows(leg, new)
         /\ Len(new.attempts) = Len(leg.attempts) /\ new.attempts[a] = y
         /\ \A b \in DOMAIN leg.attempts \ {a} : new.attempts[b] = leg.attempts[b]
         /\ new.status = "Running" /\ new.version = leg.version /\ new.next = leg.next
<1> DEFINE attempts == [leg.attempts EXCEPT ![a] = y]
<1>1. new = [leg EXCEPT !.attempts = attempts]
  BY DEF Replaces
<1>2. leg \in LegType /\ leg.attempts \in Seq(AttemptType) /\ GraphOK(leg)
  BY LegFacts DEF LegOK
<1>5. a \in DOMAIN leg.attempts
  <2>1. DOMAIN leg.attempts = 1..Len(leg.attempts) /\ Len(leg.attempts) \in Nat
    BY <1>2
  <2>2. Len(leg.attempts) >= 1
    BY AttemptsAssumption DEF LegOK, ShapeOK
  <2> QED
    BY <2>1, <2>2
<1>3. /\ attempts \in Seq(AttemptType) /\ Len(attempts) = Len(leg.attempts)
      /\ DOMAIN attempts = DOMAIN leg.attempts
      /\ \A b \in DOMAIN leg.attempts : attempts[b] = IF b = a THEN y ELSE leg.attempts[b]
  <2> DEFINE s == leg.attempts
  <2>1. s \in Seq(AttemptType) /\ a \in DOMAIN s
    BY <1>2, <1>5
  <2> HIDE DEF s
  <2> DEFINE t == [s EXCEPT ![a] = y]
  <2>4. t \in Seq(AttemptType) /\ DOMAIN t = DOMAIN s
    BY <2>1
  <2>5. /\ DOMAIN t = 1..Len(t) /\ Len(t) \in Nat
        /\ DOMAIN s = 1..Len(s) /\ Len(s) \in Nat
    BY <2>1, <2>4
  <2>6. Len(t) = Len(s)
    BY <2>4, <2>5
  <2>2. t \in Seq(AttemptType) /\ Len(t) = Len(s) /\ DOMAIN t = DOMAIN s
    BY <2>4, <2>6
  <2>3. \A b \in DOMAIN s : t[b] = IF b = a THEN y ELSE s[b]
    OBVIOUS
  <2> QED
    BY <2>2, <2>3 DEF s
<1> HIDE DEF attempts
<1>4. /\ new \in LegType /\ new.attempts = attempts /\ new.status = leg.status
      /\ new.version = leg.version /\ new.next = leg.next
  BY <1>1, <1>2, <1>3, LegWith
<1>6. KeepsItems(leg, new)
  BY <1>3, <1>4, <1>5 DEF KeepsItems, Open
<1>7. GraphOK(new) /\ Grows(leg, new)
  BY <1>2, <1>6, KeepsItemsOK
<1>8. new.status = "Running"
  BY <1>4 DEF Open
<1> QED
  BY <1>3, <1>4, <1>5, <1>7, <1>8

(* What a planner without a plan makes of a leg. *)
PlanFailed(leg, a, new) ==
  /\ new.next = leg.next
  /\ DOMAIN new.attempts = DOMAIN leg.attempts
  /\ new.attempts[a].plan = "Failed"
  /\ \A b \in DOMAIN leg.attempts :
       /\ new.attempts[b].items = leg.attempts[b].items
       /\ new.attempts[b].status = leg.attempts[b].status
       /\ b # a => new.attempts[b].plan = leg.attempts[b].plan

(* A planner that ended without a plan fails its attempt. *)
LEMMA PlanFails ==
  ASSUME NEW leg, LegOK(leg), Open(leg), NEW a, a = Len(leg.attempts),
         leg.attempts[a].plan = "NotStarted"
  PROVE  LET new == [leg EXCEPT !.attempts[a].plan = "Failed"]
         IN LegOK(new) /\ Grows(leg, new) /\ Open(new) /\ PlanFailed(leg, a, new)
<1> DEFINE x == leg.attempts[a]
           y == [x EXCEPT !.plan = "Failed"]
           new == [leg EXCEPT !.attempts[a] = y]
<1>1. [leg EXCEPT !.attempts[a].plan = "Failed"] = new
  OBVIOUS
<1>2. /\ leg \in LegType /\ DOMAIN leg.attempts = 1..Len(leg.attempts)
      /\ Len(leg.attempts) \in 1..MaxAttempts
  BY LegFacts DEF LegOK, ShapeOK
<1>3. a \in DOMAIN leg.attempts /\ x \in AttemptType
  BY <1>2, AttemptsAssumption, LegFacts
<1>4. y = [status |-> x.status, consistent |-> x.consistent, plan |-> "Failed", items |-> x.items]
  BY <1>3 DEF AttemptType
<1>5. x.status = "Running" /\ AttemptOK(x)
  BY <1>3 DEF Open, LegOK, ShapeOK
<1>6. /\ y \in AttemptType /\ y.items = x.items /\ y.consistent = x.consistent
      /\ y.status = "Running" /\ y.plan = "Failed"
  BY <1>3, <1>4, <1>5 DEF AttemptType, PlanStatuses
<1>7. AttemptOK(y)
  BY <1>5, <1>6 DEF AttemptOK
<1>8. Replaces(leg, a, y, new)
  BY DEF Replaces
<1> HIDE DEF y, new
<1>9. /\ new \in LegType /\ GraphOK(new) /\ Grows(leg, new)
      /\ Len(new.attempts) = Len(leg.attempts) /\ new.attempts[a] = y
      /\ \A b \in DOMAIN leg.attempts \ {a} : new.attempts[b] = leg.attempts[b]
      /\ new.status = "Running" /\ new.next = leg.next
  <2>1. y.items = leg.attempts[a].items /\ y.consistent = leg.attempts[a].consistent
    BY <1>6
  <2> HIDE DEF x
  <2> QED
    BY <1>6, <1>8, <2>1, LastReplaced
<1>10. DOMAIN new.attempts = DOMAIN leg.attempts
  BY <1>2, <1>9, LegFacts
<1>11. ShapeOK(new)
  BY <1>7, <1>9, <1>10 DEF ShapeOK, LegOK
<1>12. Open(new)
  BY <1>6, <1>9 DEF Open
<1>13. PlanFailed(leg, a, new)
  BY <1>5, <1>6, <1>9, <1>10 DEF PlanFailed
<1> QED
  BY <1>1, <1>9, <1>11, <1>12, <1>13 DEF LegOK

(* A plan's fields. *)
LEMMA PlanFacts ==
  ASSUME NEW plan \in Plans
  PROVE  /\ plan.items \in Seq(PlanItems) /\ plan.items # <<>>
         /\ plan.legGoal \in BOOLEAN /\ plan.nextGoal \in BOOLEAN
         /\ \A k \in DOMAIN plan.items :
              plan.items[k].id \in STRING /\ plan.items[k].deps \in SUBSET STRING
<1>1. /\ plan.items \in Seq(PlanItems) /\ plan.items # <<>>
      /\ plan.legGoal \in BOOLEAN /\ plan.nextGoal \in BOOLEAN
  BY PlansAssumption
<1>2. \A k \in DOMAIN plan.items : plan.items[k] \in PlanItems
  BY <1>1
<1> QED
  BY <1>1, <1>2 DEF PlanItems

(* What an accepted plan makes of a leg: the last attempt gets its items,   *)
(* and a leg goal bumps the version and leaves the others inconsistent.     *)
Planned(leg, a, plan, new) ==
  LET version == leg.version + IF plan.legGoal THEN 1 ELSE 0 IN
  /\ new.version = version /\ new.status = leg.status
  /\ new.next = IF plan.legGoal THEN plan.nextGoal ELSE leg.next \/ plan.nextGoal
  /\ DOMAIN new.attempts = DOMAIN leg.attempts
  /\ \A b \in DOMAIN leg.attempts \ {a} :
       /\ new.attempts[b].items = leg.attempts[b].items
       /\ new.attempts[b].status = leg.attempts[b].status
       /\ new.attempts[b].plan = leg.attempts[b].plan
       /\ ~plan.legGoal => new.attempts[b].consistent = leg.attempts[b].consistent
  /\ new.attempts[a].consistent /\ new.attempts[a].plan = "Success"
  /\ new.attempts[a].status = leg.attempts[a].status
  /\ DOMAIN new.attempts[a].items = DOMAIN plan.items
  /\ \A k \in DOMAIN plan.items :
       /\ new.attempts[a].items[k].id = plan.items[k].id
       /\ new.attempts[a].items[k].version = version
       /\ new.attempts[a].items[k].deps = plan.items[k].deps
       /\ new.attempts[a].items[k].status = "NotStarted"

LEMMA PlannedIs ==
  ASSUME NEW leg \in LegType, NEW a \in DOMAIN leg.attempts, NEW plan \in Plans,
         leg.attempts[a].items = <<>>, leg.attempts[a].consistent
  PROVE  PlannedLeg(leg, a, plan) \in LegType /\ Planned(leg, a, plan, PlannedLeg(leg, a, plan))
<1> DEFINE version == leg.version + IF plan.legGoal THEN 1 ELSE 0
           item(k) == [id |-> plan.items[k].id, version |-> version,
                       deps |-> plan.items[k].deps, status |-> "NotStarted"]
           items == [k \in DOMAIN plan.items |-> item(k)]
           after(b) == [leg.attempts[b] EXCEPT
                          !.consistent = IF plan.legGoal THEN b = a ELSE @,
                          !.plan = IF b = a THEN "Success" ELSE @,
                          !.items = IF b = a THEN @ \o items ELSE @]
           attempts == [b \in DOMAIN leg.attempts |-> after(b)]
           next == IF plan.legGoal THEN plan.nextGoal ELSE leg.next \/ plan.nextGoal
           new == PlannedLeg(leg, a, plan)
<1>1. new = [leg EXCEPT !.version = version, !.next = next, !.attempts = attempts]
  BY DEF PlannedLeg
<1>2. version \in Nat /\ next \in BOOLEAN
  BY LegFacts, PlanFacts
<1>3. items \in Seq(ItemType) /\ DOMAIN items = DOMAIN plan.items
  <2>1. DOMAIN plan.items = 1..Len(plan.items) /\ Len(plan.items) \in Nat
    BY PlanFacts
  <2> HIDE DEF version
  <2>2. \A k \in DOMAIN plan.items : item(k) \in ItemType
    BY <1>2, PlanFacts DEF ItemType, ItemStatuses
  <2> HIDE DEF item
  <2> QED
    BY <2>1, <2>2
<1>4. \A k \in DOMAIN plan.items :
        /\ items[k].id = plan.items[k].id /\ items[k].version = version
        /\ items[k].deps = plan.items[k].deps /\ items[k].status = "NotStarted"
  OBVIOUS
<1> HIDE DEF items
<1>5. leg.attempts[a].items \o items = items
  <2>1. items = [k \in 1..Len(items) |-> items[k]]
    BY <1>3
  <2> QED
    BY <1>3
<1>6. ASSUME NEW b \in DOMAIN leg.attempts
      PROVE  after(b) = [status |-> leg.attempts[b].status,
                         consistent |-> IF plan.legGoal THEN b = a ELSE leg.attempts[b].consistent,
                         plan |-> IF b = a THEN "Success" ELSE leg.attempts[b].plan,
                         items |-> IF b = a THEN items ELSE leg.attempts[b].items]
  <2>1. leg.attempts[b] \in AttemptType
    BY LegFacts
  <2> DEFINE x == leg.attempts[b]
             c == IF plan.legGoal THEN b = a ELSE x.consistent
             p == IF b = a THEN "Success" ELSE x.plan
             s == IF b = a THEN x.items \o items ELSE x.items
  <2>3. after(b) = [x EXCEPT !.consistent = c, !.plan = p, !.items = s]
    OBVIOUS
  <2>4. s = IF b = a THEN items ELSE leg.attempts[b].items
    BY <1>5
  <2> HIDE DEF c, p, s, after
  <2>5. x \in AttemptType
    BY <2>1
  <2> HIDE DEF x
  <2>6. after(b) = [status |-> x.status, consistent |-> c, plan |-> p, items |-> s]
    BY <2>3, <2>5 DEF AttemptType
  <2> QED
    BY <2>4, <2>6 DEF c, p, x
<1> HIDE DEF after
<1>7. ASSUME NEW b \in DOMAIN leg.attempts
      PROVE  /\ after(b) \in AttemptType
             /\ after(b).status = leg.attempts[b].status
             /\ after(b).consistent = IF plan.legGoal THEN b = a ELSE leg.attempts[b].consistent
             /\ after(b).plan = IF b = a THEN "Success" ELSE leg.attempts[b].plan
             /\ after(b).items = IF b = a THEN items ELSE leg.attempts[b].items
  <2> DEFINE c == IF plan.legGoal THEN b = a ELSE leg.attempts[b].consistent
             p == IF b = a THEN "Success" ELSE leg.attempts[b].plan
             s == IF b = a THEN items ELSE leg.attempts[b].items
  <2>1. c \in BOOLEAN /\ p \in PlanStatuses /\ s \in Seq(ItemType)
        /\ leg.attempts[b].status \in EntityTerminal \cup {"Running"}
    BY <1>3, LegFacts, PlanFacts DEF PlanStatuses
  <2>2. after(b) = [status |-> leg.attempts[b].status, consistent |-> c, plan |-> p, items |-> s]
    BY <1>6
  <2> HIDE DEF c, p, s
  <2>3. /\ after(b) \in AttemptType /\ after(b).status = leg.attempts[b].status
        /\ after(b).consistent = c /\ after(b).plan = p /\ after(b).items = s
    BY <2>1, <2>2 DEF AttemptType
  <2> QED
    BY <2>3 DEF c, p, s
<1>8. /\ attempts \in Seq(AttemptType) /\ DOMAIN attempts = DOMAIN leg.attempts
      /\ \A b \in DOMAIN leg.attempts : attempts[b] = after(b)
  <2>1. DOMAIN leg.attempts = 1..Len(leg.attempts) /\ Len(leg.attempts) \in Nat
    BY LegFacts
  <2> QED
    BY <1>7, <2>1
<1> HIDE DEF attempts, version, next, new
<1>9. new = [status |-> leg.status, version |-> version, next |-> next, attempts |-> attempts]
  BY <1>1 DEF LegType
<1>10. /\ new \in LegType /\ new.version = version /\ new.status = leg.status
       /\ new.attempts = attempts /\ new.next = next
  BY <1>2, <1>8, <1>9 DEF LegType
<1>11. \A b \in DOMAIN leg.attempts \ {a} :
         /\ new.attempts[b].items = leg.attempts[b].items
         /\ new.attempts[b].status = leg.attempts[b].status
         /\ new.attempts[b].plan = leg.attempts[b].plan
         /\ ~plan.legGoal => new.attempts[b].consistent = leg.attempts[b].consistent
  BY <1>7, <1>8, <1>10
<1>12. /\ new.attempts[a].consistent /\ new.attempts[a].plan = "Success"
       /\ new.attempts[a].status = leg.attempts[a].status
       /\ new.attempts[a].items = items
  BY <1>7, <1>8, <1>10
<1> QED
  BY <1>3, <1>4, <1>8, <1>10, <1>11, <1>12 DEF Planned, version, next, new

(* The items in force are all in attempts that are consistent with the goal.*)
LEMMA InForce ==
  ASSUME NEW leg, leg \in LegType, GraphOK(leg), NEW a, NEW k, Place(leg, a, k),
         At(leg, a, k).version = leg.version
  PROVE  At(leg, a, k) \in Existing(leg)
<1>1. leg.attempts[a].consistent
  BY DEF GraphOK, VersionsFit
<1>2. a \in DOMAIN leg.attempts /\ k \in DOMAIN leg.attempts[a].items
  BY DEF Place
<1>3. leg.attempts[a].items \in Seq(ItemType)
  BY <1>2, LegFacts
<1>4. At(leg, a, k) \in ToSet(leg.attempts[a].items)
  BY <1>2, <1>3 DEF ToSet, At
<1> QED
  BY <1>1, <1>2, <1>4 DEF Existing

LEMMA ExistingIsPlaced ==
  ASSUME NEW leg \in LegType, NEW item \in Existing(leg)
  PROVE  \E a, k : Place(leg, a, k) /\ At(leg, a, k) = item /\ item.version = leg.version
<1>1. PICK a \in DOMAIN leg.attempts :
        item \in ToSet(leg.attempts[a].items) /\ item.version = leg.version
  BY DEF Existing
<1>2. leg.attempts[a].items \in Seq(ItemType)
  BY LegFacts
<1>3. PICK k \in DOMAIN leg.attempts[a].items : leg.attempts[a].items[k] = item
  BY <1>1, <1>2 DEF ToSet
<1> QED
  BY <1>1, <1>3 DEF Place, At

LEMMA PlannedGraph ==
  ASSUME NEW leg \in LegType, GraphOK(leg), NEW a \in DOMAIN leg.attempts, NEW plan \in Plans,
         NEW new \in LegType, Planned(leg, a, plan, new),
         leg.attempts[a].items = <<>>, leg.attempts[a].consistent,
         NEW state, PlanIsValid(state, leg, plan)
  PROVE  GraphOK(new)
<1> DEFINE version == leg.version + IF plan.legGoal THEN 1 ELSE 0
<1>1. /\ leg.version \in Nat /\ leg.version >= 1 /\ plan.legGoal \in BOOLEAN
      /\ version \in Nat /\ version >= leg.version
      /\ plan.legGoal => version > leg.version
      /\ ~plan.legGoal => version = leg.version
  BY LegFacts, PlanFacts DEF GraphOK, VersionsFit
<1>2. /\ new.version = version
      /\ DOMAIN new.attempts = DOMAIN leg.attempts
      /\ \A b \in DOMAIN leg.attempts \ {a} :
           /\ new.attempts[b].items = leg.attempts[b].items
           /\ ~plan.legGoal => new.attempts[b].consistent = leg.attempts[b].consistent
      /\ new.attempts[a].consistent
      /\ DOMAIN new.attempts[a].items = DOMAIN plan.items
      /\ \A k \in DOMAIN plan.items :
           /\ new.attempts[a].items[k].id = plan.items[k].id
           /\ new.attempts[a].items[k].version = version
           /\ new.attempts[a].items[k].deps = plan.items[k].deps
  BY DEF Planned
<1> HIDE DEF version
<1>3. ASSUME NEW b, NEW k, Place(new, b, k)
      PROVE  \/ b = a /\ k \in DOMAIN plan.items
             \/ b # a /\ Place(leg, b, k) /\ At(new, b, k) = At(leg, b, k)
  BY <1>2, <1>3 DEF Place, At
<1>4. ASSUME NEW b, NEW k, Place(leg, b, k)
      PROVE  b # a /\ Place(new, b, k) /\ At(new, b, k) = At(leg, b, k)
  <2>1. b # a
    <3>1. DOMAIN <<>> = {}
      OBVIOUS
    <3> QED
      BY <1>4, <3>1 DEF Place
  <2> QED
    BY <1>2, <1>4, <2>1 DEF Place, At
<1>5. \A k \in DOMAIN plan.items :
        /\ Place(new, a, k) /\ At(new, a, k).id = plan.items[k].id
        /\ At(new, a, k).version = version /\ At(new, a, k).deps = plan.items[k].deps
  BY <1>2 DEF Place, At
<1>6. ASSUME NEW b, NEW k, Place(leg, b, k), NEW n \in DOMAIN plan.items,
             SameKey(At(leg, b, k), At(new, a, n))
      PROVE  FALSE
  <2>1. At(leg, b, k).version = version /\ At(leg, b, k).id = plan.items[n].id
    BY <1>5, <1>6 DEF SameKey
  <2>2. At(leg, b, k).version \in 1..leg.version
    BY <1>6 DEF GraphOK, VersionsFit
  <2>3. ~plan.legGoal /\ At(leg, b, k).version = leg.version
    BY <1>1, <2>1, <2>2
  <2>4. At(leg, b, k) \in Existing(leg)
    BY <1>6, <2>3, InForce
  <2>5. \A item \in Existing(leg) : item.id \notin PlanIds(plan)
    BY <2>3 DEF PlanIsValid, IdsAreFresh
  <2> QED
    BY <2>1, <2>4, <2>5 DEF PlanIds
<1>7. KeysDiffer(new)
  <2> SUFFICES ASSUME NEW b, NEW c, NEW j, NEW k, Place(new, b, j), Place(new, c, k),
                      SameKey(At(new, b, j), At(new, c, k))
               PROVE  b = c /\ j = k
    BY DEF KeysDiffer
  <2>0. SameKey(At(new, c, k), At(new, b, j))
    BY DEF SameKey
  <2>1. CASE b = a /\ c = a
    <3>1. j \in DOMAIN plan.items /\ k \in DOMAIN plan.items
      BY <1>3, <2>1
    <3>2. plan.items[j].id = plan.items[k].id
      BY <1>5, <2>1, <3>1 DEF SameKey
    <3> QED
      BY <2>1, <3>1, <3>2 DEF PlanIsValid, IdsAreFresh
  <2>2. CASE b = a /\ c # a
    BY <1>3, <1>6, <2>0, <2>2
  <2>3. CASE b # a /\ c = a
    BY <1>3, <1>6, <2>3
  <2>4. CASE b # a /\ c # a
    BY <1>3, <2>4 DEF GraphOK, KeysDiffer
  <2> QED
    BY <2>1, <2>2, <2>3, <2>4
<1>8. DepsResolve(new)
  <2> SUFFICES ASSUME NEW b, NEW k, Place(new, b, k), NEW id \in At(new, b, k).deps
               PROVE  \E c, j : /\ Place(new, c, j) /\ At(new, c, j).id = id
                                /\ At(new, c, j).version = At(new, b, k).version
    BY DEF DepsResolve
  <2>1. CASE b # a
    <3>1. Place(leg, b, k) /\ At(new, b, k) = At(leg, b, k)
      BY <1>3, <2>1
    <3>2. PICK c, j : /\ Place(leg, c, j) /\ At(leg, c, j).id = id
                      /\ At(leg, c, j).version = At(leg, b, k).version
      BY <3>1 DEF GraphOK, DepsResolve
    <3> QED
      BY <1>4, <3>1, <3>2
  <2>2. CASE b = a
    <3>1. k \in DOMAIN plan.items /\ id \in plan.items[k].deps /\ At(new, b, k).version = version
      BY <1>3, <1>5, <2>2
    <3>2. CASE id \in PlanIds(plan)
      <4>1. PICK n \in DOMAIN plan.items : plan.items[n].id = id
        BY <3>2 DEF PlanIds
      <4> QED
        BY <1>5, <3>1, <4>1
    <3>3. CASE id \notin PlanIds(plan)
      <4>1. PICK item \in Existing(leg) : ~plan.legGoal /\ item.id = id
        BY <3>1, <3>3 DEF PlanIsValid
      <4>2. PICK c, j : Place(leg, c, j) /\ At(leg, c, j) = item /\ item.version = leg.version
        BY <4>1, ExistingIsPlaced
      <4> QED
        BY <1>1, <1>4, <3>1, <4>1, <4>2
    <3> QED
      BY <3>2, <3>3
  <2> QED
    BY <2>1, <2>2
<1>9. VersionsFit(new)
  <2> SUFFICES ASSUME NEW b, NEW k, Place(new, b, k)
               PROVE  /\ At(new, b, k).version \in 1..version
                      /\ At(new, b, k).version = version => new.attempts[b].consistent
    BY <1>1, <1>2 DEF VersionsFit
  <2>1. CASE b = a
    <3>1. At(new, b, k).version = version
      BY <1>3, <1>5, <2>1
    <3> QED
      BY <1>1, <1>2, <2>1, <3>1
  <2>2. CASE b # a
    <3>1. Place(leg, b, k) /\ At(new, b, k) = At(leg, b, k) /\ b \in DOMAIN leg.attempts \ {a}
      BY <1>3, <2>2 DEF Place
    <3>2. /\ At(leg, b, k).version \in 1..leg.version
          /\ At(leg, b, k).version = leg.version => leg.attempts[b].consistent
      BY <3>1 DEF GraphOK, VersionsFit
    <3>3. At(new, b, k).version \in 1..version
      BY <1>1, <3>1, <3>2
    <3>4. ASSUME At(new, b, k).version = version PROVE ~plan.legGoal /\ leg.attempts[b].consistent
      BY <1>1, <3>1, <3>2, <3>4
    <3> QED
      BY <1>2, <3>1, <3>3, <3>4
  <2> QED
    BY <2>1, <2>2
<1> QED
  BY <1>7, <1>8, <1>9 DEF GraphOK

(* An accepted plan keeps its leg in order and the attempt open. *)
LEMMA PlannedOK ==
  ASSUME NEW leg, LegOK(leg), Open(leg), NEW a, a = Len(leg.attempts),
         leg.attempts[a].plan = "NotStarted", NEW plan \in Plans,
         NEW state, PlanIsValid(state, leg, plan)
  PROVE  LET new == PlannedLeg(leg, a, plan)
         IN LegOK(new) /\ Grows(leg, new) /\ Open(new) /\ Planned(leg, a, plan, new)
<1> DEFINE new == PlannedLeg(leg, a, plan)
<1>1. /\ leg \in LegType /\ DOMAIN leg.attempts = 1..Len(leg.attempts)
      /\ Len(leg.attempts) \in 1..MaxAttempts /\ GraphOK(leg)
  BY LegFacts DEF LegOK, ShapeOK
<1>2. a \in DOMAIN leg.attempts
  BY <1>1, AttemptsAssumption
<1>3. leg.attempts[a].items = <<>> /\ leg.attempts[a].consistent
      /\ leg.attempts[a].status = "Running"
  BY <1>2 DEF LegOK, ShapeOK, AttemptOK, Open
<1>4. new \in LegType /\ Planned(leg, a, plan, new)
  BY <1>1, <1>2, <1>3, PlannedIs
<1> HIDE DEF new
<1>5. GraphOK(new)
  BY <1>1, <1>2, <1>3, <1>4, PlannedGraph
<1>6. /\ DOMAIN new.attempts = DOMAIN leg.attempts /\ new.status = leg.status
      /\ \A b \in DOMAIN leg.attempts \ {a} :
           /\ new.attempts[b].items = leg.attempts[b].items
           /\ new.attempts[b].status = leg.attempts[b].status
           /\ new.attempts[b].plan = leg.attempts[b].plan
      /\ new.attempts[a].consistent /\ new.attempts[a].plan = "Success"
      /\ new.attempts[a].status = leg.attempts[a].status
  BY <1>4 DEF Planned
<1>7. Len(new.attempts) = Len(leg.attempts)
  BY <1>1, <1>4, <1>6, LegFacts
<1>8. Grows(leg, new)
  <2>1. ASSUME NEW b, NEW k, Place(leg, b, k)
        PROVE  Place(new, b, k) /\ ItemGrows(At(leg, b, k), At(new, b, k))
    <3>1. b # a
      <4>1. DOMAIN <<>> = {}
        OBVIOUS
      <4> QED
        BY <1>3, <2>1, <4>1 DEF Place
    <3>2. Place(new, b, k) /\ At(new, b, k) = At(leg, b, k)
      BY <1>6, <2>1, <3>1 DEF Place, At
    <3> QED
      BY <3>2 DEF ItemGrows, SameKey
  <2> QED
    BY <1>3, <1>6, <2>1 DEF Grows
<1>9. ASSUME NEW b \in DOMAIN leg.attempts \ {a} PROVE AttemptOK(new.attempts[b])
  <2>1. AttemptOK(leg.attempts[b]) /\ leg.attempts[b].status # "Running"
    BY <1>1 DEF LegOK, ShapeOK
  <2>2. /\ new.attempts[b].items = leg.attempts[b].items
        /\ new.attempts[b].status = leg.attempts[b].status
        /\ new.attempts[b].plan = leg.attempts[b].plan
    BY <1>6
  <2> QED
    BY <2>1, <2>2 DEF AttemptOK
<1>10. AttemptOK(new.attempts[a])
  BY <1>3, <1>6 DEF AttemptOK
<1>11. ShapeOK(new)
  <2>1. \A b \in DOMAIN new.attempts : AttemptOK(new.attempts[b])
    BY <1>6, <1>9, <1>10
  <2>2. \A b \in DOMAIN new.attempts : new.attempts[b].status = leg.attempts[b].status
    BY <1>6
  <2> QED
    BY <1>6, <1>7, <2>1, <2>2 DEF ShapeOK, LegOK
<1>12. Open(new)
  BY <1>3, <1>6, <1>7 DEF Open
<1> QED
  BY <1>4, <1>5, <1>8, <1>11, <1>12 DEF LegOK, new

-----------------------------------------------------------------------------
(* Judging the last attempt. *)

LEMMA NewAttemptOK == NewAttempt \in AttemptType /\ AttemptOK(NewAttempt)
BY DEF NewAttempt, AttemptType, AttemptOK, PlanStatuses

LEMMA NewLegOK == LegOK(NewLeg) /\ NewLeg.status = "Running"
<1>1. /\ NewLeg.status = "Running" /\ NewLeg.version = 1 /\ NewLeg.next = FALSE
      /\ NewLeg.attempts = <<NewAttempt>>
  BY DEF NewLeg
<1>2. /\ NewLeg.attempts \in Seq(AttemptType) /\ Len(NewLeg.attempts) = 1
      /\ DOMAIN NewLeg.attempts = {1} /\ NewLeg.attempts[1] = NewAttempt
  BY <1>1, NewAttemptOK
<1>3. NewLeg \in LegType
  BY <1>2 DEF NewLeg, LegType
<1>4. \A a, k : ~Place(NewLeg, a, k)
  <2>1. NewAttempt.items = <<>> /\ DOMAIN <<>> = {}
    BY DEF NewAttempt
  <2> QED
    BY <1>2, <2>1 DEF Place
<1>5. GraphOK(NewLeg)
  BY <1>1, <1>4 DEF GraphOK, KeysDiffer, DepsResolve, VersionsFit
<1>6. ShapeOK(NewLeg)
  BY <1>1, <1>2, NewAttemptOK, AttemptsAssumption DEF ShapeOK
<1> QED
  BY <1>1, <1>3, <1>5, <1>6 DEF LegOK

(* A verdict falls only on a planned attempt that is done with its items.   *)
Done(attempt) ==
  /\ attempt.plan # "NotStarted"
  /\ \A k \in DOMAIN attempt.items : attempt.items[k].status \in ItemTerminal

LEMMA VerdictIsDue ==
  ASSUME NEW attempt \in AttemptType, AttemptOK(attempt), NEW l, NEW running
  PROVE  /\ AttemptVerdict(attempt, l, running) \in {"Running", "Failed", "Success"}
         /\ AttemptVerdict(attempt, l, running) # "Running" => Done(attempt)
<1> DEFINE items == ToSet(attempt.items)
           v == AttemptVerdict(attempt, l, running)
           won == /\ attempt.plan = "Success"
                  /\ items # {}
                  /\ \A item \in items : EffectiveStatus(l, item, running) = "Success"
           lost == /\ attempt.plan = "Success"
                   /\ \E item \in items : item.status \in {"Failed", "Blocked"}
                   /\ \A item \in items : EffectiveStatus(l, item, running) \in ItemTerminal
<1>1. v = CASE attempt.plan = "Failed" -> "Failed" [] won -> "Success" [] lost -> "Failed"
            [] OTHER -> "Running"
  BY DEF AttemptVerdict
<1>2. attempt.items \in Seq(ItemType) /\ DOMAIN attempt.items = 1..Len(attempt.items)
  BY DEF AttemptType
<1>3. \A k \in DOMAIN attempt.items : attempt.items[k] \in items
  BY <1>2 DEF ToSet
<1>4. ASSUME NEW item, EffectiveStatus(l, item, running) \in ItemTerminal
      PROVE  item.status \in ItemTerminal
  BY <1>4 DEF EffectiveStatus, ItemTerminal
<1>5. ASSUME attempt.plan = "Failed" PROVE Done(attempt)
  <2>1. attempt.items = <<>> /\ DOMAIN <<>> = {}
    BY <1>5 DEF AttemptOK
  <2> QED
    BY <1>5, <2>1 DEF Done
<1>6. ASSUME won \/ lost PROVE Done(attempt)
  <2>1. "Success" \in ItemTerminal
    BY DEF ItemTerminal
  <2>2. attempt.plan = "Success" /\ \A item \in items : item.status \in ItemTerminal
    BY <1>4, <1>6, <2>1
  <2> QED
    BY <1>3, <2>2 DEF Done
<1>7. v # "Running" => attempt.plan = "Failed" \/ won \/ lost
  <2> HIDE DEF v, won, lost
  <2> QED
    BY <1>1
<1>8. v \in {"Running", "Failed", "Success"}
  <2> HIDE DEF v, won, lost
  <2> QED
    BY <1>1
<1> QED
  BY <1>5, <1>6, <1>7, <1>8

JudgedLeg(leg, verdict) == [leg EXCEPT !.attempts[Len(leg.attempts)].status = verdict]

LEMMA Judged ==
  ASSUME NEW leg, LegOK(leg), Open(leg), NEW a, a = Len(leg.attempts),
         Done(leg.attempts[a]), NEW verdict \in {"Success", "Failed"}
  PROVE  LET new == JudgedLeg(leg, verdict) IN
         /\ LegOK(new) /\ Grows(leg, new) /\ Len(new.attempts) = Len(leg.attempts)
         /\ \A b \in DOMAIN new.attempts : new.attempts[b].status # "Running"
<1> DEFINE x == leg.attempts[a]
           y == [x EXCEPT !.status = verdict]
           new == [leg EXCEPT !.attempts[a] = y]
<1>1. JudgedLeg(leg, verdict) = new
  BY DEF JudgedLeg
<1>2. /\ leg \in LegType /\ DOMAIN leg.attempts = 1..Len(leg.attempts)
      /\ Len(leg.attempts) \in 1..MaxAttempts
  BY LegFacts DEF LegOK, ShapeOK
<1>3. a \in DOMAIN leg.attempts /\ x \in AttemptType
  BY <1>2, AttemptsAssumption, LegFacts
<1>4. y = [status |-> verdict, consistent |-> x.consistent, plan |-> x.plan, items |-> x.items]
  BY <1>3 DEF AttemptType
<1>5. x.status = "Running" /\ AttemptOK(x) /\ Done(x)
  BY <1>3 DEF Open, LegOK, ShapeOK
<1>6. /\ y \in AttemptType /\ y.items = x.items /\ y.consistent = x.consistent
      /\ y.status = verdict /\ y.plan = x.plan
  BY <1>3, <1>4, <1>5 DEF AttemptType, EntityTerminal
<1>7. AttemptOK(y)
  BY <1>5, <1>6 DEF AttemptOK, Done
<1>8. Replaces(leg, a, y, new)
  BY DEF Replaces
<1> HIDE DEF y, new
<1>9. /\ new \in LegType /\ GraphOK(new) /\ Grows(leg, new)
      /\ Len(new.attempts) = Len(leg.attempts) /\ new.attempts[a] = y
      /\ \A b \in DOMAIN leg.attempts \ {a} : new.attempts[b] = leg.attempts[b]
      /\ new.status = "Running"
  <2>1. y.items = leg.attempts[a].items /\ y.consistent = leg.attempts[a].consistent
    BY <1>6
  <2> HIDE DEF x
  <2> QED
    BY <1>6, <1>8, <2>1, LastReplaced
<1>10. DOMAIN new.attempts = DOMAIN leg.attempts
  BY <1>2, <1>9, LegFacts
<1>11. ASSUME NEW b \in DOMAIN new.attempts PROVE new.attempts[b].status # "Running"
  <2>1. CASE b = a
    BY <1>6, <1>9, <2>1
  <2>2. CASE b # a
    BY <1>2, <1>9, <1>10, <2>2 DEF LegOK, ShapeOK
  <2> QED
    BY <2>1, <2>2
<1>12. ShapeOK(new)
  BY <1>7, <1>9, <1>10, <1>11 DEF ShapeOK, LegOK
<1> QED
  BY <1>1, <1>9, <1>11, <1>12 DEF LegOK

(* A further attempt. *)
LEMMA Retried ==
  ASSUME NEW leg, LegOK(leg), leg.status = "Running", AttemptsLeft(leg),
         \A b \in DOMAIN leg.attempts : leg.attempts[b].status # "Running"
  PROVE  LET new == [leg EXCEPT !.attempts = Append(@, NewAttempt)]
         IN LegOK(new) /\ Grows(leg, new)
<1> DEFINE attempts == Append(leg.attempts, NewAttempt)
           new == [leg EXCEPT !.attempts = Append(@, NewAttempt)]
<1>1. new = [leg EXCEPT !.attempts = attempts]
  OBVIOUS
<1>2. /\ leg \in LegType /\ leg.attempts \in Seq(AttemptType)
      /\ DOMAIN leg.attempts = 1..Len(leg.attempts)
      /\ Len(leg.attempts) \in Nat /\ Len(leg.attempts) >= 1
  BY LegFacts, AttemptsAssumption DEF LegOK, ShapeOK
<1>3. /\ attempts \in Seq(AttemptType) /\ Len(attempts) = Len(leg.attempts) + 1
      /\ DOMAIN attempts = 1..Len(leg.attempts) + 1
      /\ \A b \in DOMAIN leg.attempts : attempts[b] = leg.attempts[b]
      /\ attempts[Len(leg.attempts) + 1] = NewAttempt
  BY <1>2, NewAttemptOK
<1> HIDE DEF attempts, new
<1>4. /\ new \in LegType /\ new.attempts = attempts /\ new.status = leg.status
      /\ new.version = leg.version /\ new.next = leg.next
  BY <1>1, <1>2, <1>3, LegWith
<1>5. DOMAIN leg.attempts \subseteq DOMAIN attempts
      /\ \A b \in DOMAIN attempts \ DOMAIN leg.attempts : b = Len(leg.attempts) + 1
  BY <1>2, <1>3
<1>6. KeepsItems(leg, new)
  BY <1>3, <1>4, <1>5 DEF KeepsItems, NewAttempt
<1>7. GraphOK(new) /\ Grows(leg, new)
  BY <1>6, KeepsItemsOK DEF LegOK
<1>8. Len(leg.attempts) + 1 \in 1..MaxAttempts
  BY <1>2, AttemptsAssumption DEF AttemptsLeft
<1>9. ASSUME NEW b \in DOMAIN attempts
      PROVE  /\ AttemptOK(attempts[b])
             /\ attempts[b].status = "Running" => b = Len(leg.attempts) + 1
  <2>1. CASE b \in DOMAIN leg.attempts
    BY <1>3, <2>1 DEF LegOK, ShapeOK
  <2>2. CASE b \notin DOMAIN leg.attempts
    BY <1>3, <1>5, <2>2, NewAttemptOK
  <2> QED
    BY <2>1, <2>2
<1>10. ShapeOK(new)
  BY <1>3, <1>4, <1>8, <1>9 DEF ShapeOK
<1> QED
  BY <1>4, <1>7, <1>10 DEF LegOK, new

(* A leg that ends. *)
LEMMA Closed ==
  ASSUME NEW leg, LegOK(leg), NEW verdict \in {"Success", "Failed"},
         \A b \in DOMAIN leg.attempts : leg.attempts[b].status # "Running"
  PROVE  LET new == [leg EXCEPT !.status = verdict]
         IN LegOK(new) /\ Grows(leg, new) /\ new.status = verdict
<1> DEFINE new == [leg EXCEPT !.status = verdict]
<1>1. leg \in LegType
  BY DEF LegOK
<1>2. new = [status |-> verdict, version |-> leg.version, next |-> leg.next,
             attempts |-> leg.attempts]
  BY <1>1 DEF LegType
<1>3. /\ new \in LegType /\ new.status = verdict /\ new.version = leg.version
      /\ new.attempts = leg.attempts
  BY <1>1, <1>2 DEF LegType, EntityTerminal
<1> HIDE DEF new
<1>4. KeepsItems(leg, new)
  BY <1>3 DEF KeepsItems
<1>5. GraphOK(new) /\ Grows(leg, new)
  BY <1>4, KeepsItemsOK DEF LegOK
<1>6. ShapeOK(new)
  BY <1>3 DEF LegOK, ShapeOK
<1> QED
  BY <1>3, <1>5, <1>6 DEF LegOK, new

-----------------------------------------------------------------------------
(* The pursuit's legs. *)
LegsOK(legs) ==
  /\ legs \in Seq(LegType) /\ legs # <<>>
  /\ \A l \in DOMAIN legs :
       LegOK(legs[l]) /\ (legs[l].status = "Running" => l = Len(legs))
LegsGrow(legs, new) ==
  /\ DOMAIN legs \subseteq DOMAIN new
  /\ \A l \in DOMAIN legs : Grows(legs[l], new[l])

LEMMA StateFacts ==
  ASSUME NEW state \in PursuitStates
  PROVE  /\ LegsOK(state.legs) /\ state.goals \in Nat /\ state.done \in BOOLEAN
         /\ state.status \in {"running", "success", "failure", "deadlocked"}
         /\ state.done => state.status # "running"
         /\ Len(state.legs) \in Nat /\ Len(state.legs) >= 1
         /\ DOMAIN state.legs = 1..Len(state.legs)
<1>1. state \in StateType /\ StateOK(state)
  BY DEF PursuitStates
<1>2. /\ LegsOK(state.legs) /\ state.goals \in Nat /\ state.done \in BOOLEAN
      /\ state.status \in {"running", "success", "failure", "deadlocked"}
      /\ state.done => state.status # "running"
  BY <1>1 DEF StateType, StateOK, LegsOK
<1>3. /\ Len(state.legs) \in Nat /\ Len(state.legs) >= 1
      /\ DOMAIN state.legs = 1..Len(state.legs)
  <2>1. state.legs \in Seq(LegType) /\ state.legs # <<>>
    BY <1>2 DEF LegsOK
  <2> QED
    BY <2>1
<1> QED
  BY <1>2, <1>3

(* Another last leg, and perhaps one more. *)
LEMMA LastLeg ==
  ASSUME NEW legs, LegsOK(legs), NEW y, LegOK(y), NEW l, l = Len(legs), Grows(legs[l], y),
         NEW new, new = [legs EXCEPT ![l] = y]
  PROVE  /\ LegsOK(new) /\ LegsGrow(legs, new) /\ Len(new) = Len(legs) /\ new[l] = y
         /\ y.status # "Running" =>
              LegsOK(Append(new, NewLeg)) /\ LegsGrow(legs, Append(new, NewLeg))
<1>1. /\ legs \in Seq(LegType) /\ DOMAIN legs = 1..Len(legs) /\ Len(legs) \in Nat
      /\ Len(legs) >= 1
  BY DEF LegsOK
<1>2. l \in DOMAIN legs /\ y \in LegType
  BY <1>1 DEF LegOK
<1>3. new \in Seq(LegType) /\ DOMAIN new = DOMAIN legs
      /\ \A k \in DOMAIN legs : new[k] = IF k = l THEN y ELSE legs[k]
  BY <1>1, <1>2
<1>4. DOMAIN new = 1..Len(new) /\ Len(new) \in Nat
  BY <1>3
<1>5. Len(new) = Len(legs)
  BY <1>1, <1>3, <1>4
<1>6. ASSUME NEW k \in DOMAIN new
      PROVE  /\ LegOK(new[k]) /\ (new[k].status = "Running" => k = Len(new) /\ new[k] = y)
             /\ Grows(legs[k], new[k])
  <2>1. CASE k = l
    BY <1>3, <1>5, <2>1
  <2>2. CASE k # l
    BY <1>1, <1>3, <2>2, GrowsItself DEF LegsOK
  <2> QED
    BY <2>1, <2>2
<1>7. LegsOK(new)
  BY <1>1, <1>3, <1>4, <1>5, <1>6 DEF LegsOK
<1>8. LegsGrow(legs, new)
  BY <1>3, <1>6 DEF LegsGrow
<1>9. ASSUME y.status # "Running"
      PROVE  LegsOK(Append(new, NewLeg)) /\ LegsGrow(legs, Append(new, NewLeg))
  <2> DEFINE longer == Append(new, NewLeg)
  <2>1. NewLeg \in LegType /\ LegOK(NewLeg)
    BY NewLegOK DEF LegOK
  <2>2. /\ longer \in Seq(LegType) /\ Len(longer) = Len(new) + 1
        /\ DOMAIN longer = 1..Len(new) + 1
        /\ \A k \in DOMAIN new : longer[k] = new[k]
        /\ longer[Len(new) + 1] = NewLeg
    BY <1>3, <2>1
  <2> HIDE DEF longer
  <2>3. DOMAIN new \subseteq DOMAIN longer
        /\ \A k \in DOMAIN longer \ DOMAIN new : k = Len(longer)
    BY <1>4, <2>2
  <2>4. ASSUME NEW k \in DOMAIN longer
        PROVE  LegOK(longer[k]) /\ (longer[k].status = "Running" => k = Len(longer))
    <3>1. CASE k \in DOMAIN new
      BY <1>6, <1>9, <2>2, <3>1
    <3>2. CASE k \notin DOMAIN new
      BY <2>1, <2>2, <2>3, <3>2
    <3> QED
      BY <3>1, <3>2
  <2>5. longer # <<>>
    BY <1>4, <2>2
  <2>6. LegsOK(longer)
    BY <2>2, <2>4, <2>5 DEF LegsOK
  <2>7. LegsGrow(legs, longer)
    BY <1>3, <1>6, <2>2, <2>3 DEF LegsGrow
  <2> QED
    BY <2>6, <2>7 DEF longer
<1> QED
  BY <1>2, <1>3, <1>5, <1>7, <1>8, <1>9

LEMMA StateRemade ==
  ASSUME NEW state \in PursuitStates, NEW legs, LegsOK(legs), LegsGrow(state.legs, legs),
         NEW done \in BOOLEAN, NEW status \in {"running", "success", "failure", "deadlocked"},
         done => status # "running", NEW new,
         new = [done |-> done, status |-> status, goals |-> state.goals, legs |-> legs]
  PROVE  new \in PursuitStates /\ StateGrows(state, new)
<1>1. new.done = done /\ new.status = status /\ new.legs = legs
  OBVIOUS
<1>2. legs \in Seq(LegType) /\ state.goals \in Nat
  BY StateFacts DEF LegsOK
<1>3. new \in StateType
  BY <1>2 DEF StateType
<1>4. StateOK(new)
  BY <1>1 DEF StateOK, LegsOK
<1>5. StateGrows(state, new)
  BY <1>1 DEF StateGrows, LegsGrow
<1> QED
  BY <1>3, <1>4, <1>5 DEF PursuitStates

(* A state with another last leg. *)
LastLegOf(state, y) ==
  [done |-> state.done, status |-> state.status, goals |-> state.goals,
   legs |-> [state.legs EXCEPT ![Len(state.legs)] = y]]

LEMMA LastLegIs ==
  ASSUME NEW state \in PursuitStates, NEW y
  PROVE  [state EXCEPT !.legs[Len(state.legs)] = y] = LastLegOf(state, y)
<1>1. state \in StateType
  BY DEF PursuitStates
<1> DEFINE legs == [state.legs EXCEPT ![Len(state.legs)] = y]
<1>2. [state EXCEPT !.legs[Len(state.legs)] = y] = [state EXCEPT !.legs = legs]
  OBVIOUS
<1> HIDE DEF legs
<1>3. [state EXCEPT !.legs = legs]
        = [done |-> state.done, status |-> state.status, goals |-> state.goals, legs |-> legs]
  BY <1>1 DEF StateType
<1> QED
  BY <1>2, <1>3 DEF LastLegOf, legs

LEMMA LastLegGrows ==
  ASSUME NEW state \in PursuitStates, NEW y, LegOK(y), Grows(Last(state.legs), y)
  PROVE  /\ LastLegOf(state, y) \in PursuitStates /\ StateGrows(state, LastLegOf(state, y))
         /\ LastLegOf(state, y).done = state.done
         /\ Len(LastLegOf(state, y).legs) = Len(state.legs)
         /\ LastLegOf(state, y).legs[Len(state.legs)] = y
<1> DEFINE l == Len(state.legs)
           legs == [state.legs EXCEPT ![l] = y]
           new == LastLegOf(state, y)
<1>1. Grows(state.legs[l], y)
  BY DEF Last
<1>2. LegsOK(legs) /\ LegsGrow(state.legs, legs) /\ Len(legs) = Len(state.legs) /\ legs[l] = y
  BY <1>1, LastLeg, StateFacts
<1>3. new = [done |-> state.done, status |-> state.status, goals |-> state.goals, legs |-> legs]
  BY DEF LastLegOf
<1> HIDE DEF legs, new
<1>4. new \in PursuitStates /\ StateGrows(state, new)
  BY <1>2, <1>3, StateFacts, StateRemade
<1> QED
  BY <1>2, <1>3, <1>4 DEF new

LEMMA StateGrowsOn ==
  ASSUME NEW x, NEW y, NEW z, StateGrows(x, y), StateGrows(y, z)
  PROVE  StateGrows(x, z)
<1>1. DOMAIN x.legs \subseteq DOMAIN z.legs
  BY DEF StateGrows
<1>2. ASSUME NEW l \in DOMAIN x.legs PROVE Grows(x.legs[l], z.legs[l])
  <2>1. Grows(x.legs[l], y.legs[l]) /\ Grows(y.legs[l], z.legs[l])
    BY DEF StateGrows
  <2> QED
    BY <2>1, GrowsOn
<1> QED
  BY <1>1, <1>2 DEF StateGrows

(* Reconciling the last leg. *)
LEMMA ReconciledOK ==
  ASSUME NEW state \in PursuitStates, ~state.done, NEW running
  PROVE  /\ Reconciled(state, running) \in PursuitStates
         /\ StateGrows(state, Reconciled(state, running))
<1> DEFINE l == Len(state.legs)
           old == state.legs[l]
           leg == IF old.status = "Running" THEN PropagatedBlocks(old, l, running) ELSE old
           a == Len(leg.attempts)
           due == AttemptVerdict(leg.attempts[a], l, running)
           verdict == IF leg.status # "Running" \/ leg.attempts[a].status \in EntityTerminal
                      THEN "Running" ELSE due
           judged == JudgedLeg(leg, verdict)
           again == [judged EXCEPT !.attempts = Append(@, NewAttempt)]
           lost == [judged EXCEPT !.status = "Failed"]
           won == [judged EXCEPT !.status = "Success"]
           With(y) == [state EXCEPT !.legs[l] = y]
           new == Reconciled(state, running)
<1> SUFFICES new \in PursuitStates /\ StateGrows(state, new)
  OBVIOUS
<1>1. new = CASE verdict = "Running" -> With(leg)
              [] verdict = "Failed" /\ AttemptsLeft(leg) -> With(again)
              [] verdict = "Failed" /\ ~AttemptsLeft(leg) ->
                   [With(lost) EXCEPT !.done = TRUE, !.status = "failure"]
              [] verdict = "Success" /\ HasNextLeg(state, leg, l) ->
                   [With(won) EXCEPT !.legs = Append(@, NewLeg)]
              [] verdict = "Success" /\ ~HasNextLeg(state, leg, l) ->
                   [With(won) EXCEPT !.done = TRUE, !.status = "success"]
  BY DEF Reconciled, JudgedLeg
<1>2. \A y : With(y) = LastLegOf(state, y)
  BY LastLegIs
<1> HIDE DEF new, With
<1>3. LegOK(old) /\ old = Last(state.legs)
  BY StateFacts DEF LegsOK, Last
<1>4. LegOK(leg) /\ Grows(old, leg)
  <2>1. CASE old.status = "Running"
    <3>1. old \in LegType
      BY <1>3 DEF LegOK
    <3> DEFINE y == PropagatedBlocks(old, l, running)
    <3>2. y \in LegType /\ LegMoves(old, y)
      BY <3>1, BlocksMove
    <3> HIDE DEF y, old
    <3>3. LegOK(y) /\ Grows(old, y)
      BY <1>3, <3>2, LegMovesOK
    <3> QED
      BY <2>1, <3>3 DEF y
  <2>2. CASE old.status # "Running"
    BY <1>3, <2>2, GrowsItself
  <2> QED
    BY <2>1, <2>2
<1> HIDE DEF old, leg
<1>5. a \in DOMAIN leg.attempts /\ leg.attempts[a] \in AttemptType /\ AttemptOK(leg.attempts[a])
  <2>1. /\ leg \in LegType /\ DOMAIN leg.attempts = 1..Len(leg.attempts)
        /\ Len(leg.attempts) \in 1..MaxAttempts
    BY <1>4, LegFacts DEF LegOK, ShapeOK
  <2>2. a \in DOMAIN leg.attempts
    BY <2>1, AttemptsAssumption
  <2> QED
    BY <1>4, <2>1, <2>2, LegFacts DEF LegOK, ShapeOK
<1>6. /\ due \in {"Running", "Failed", "Success"}
      /\ due # "Running" => Done(leg.attempts[a])
  BY <1>5, VerdictIsDue
<1> HIDE DEF due
<1>7. verdict \in {"Running", "Failed", "Success"}
  BY <1>6
<1>8. CASE verdict = "Running"
  <2>1. new = LastLegOf(state, leg)
    BY <1>1, <1>2, <1>8
  <2> QED
    BY <1>3, <1>4, <2>1, LastLegGrows
<1>9. CASE verdict # "Running"
  <2>1. Open(leg) /\ verdict = due /\ Done(leg.attempts[a]) /\ verdict \in {"Failed", "Success"}
    <3>1. leg.status = "Running" /\ leg.attempts[a].status \notin EntityTerminal /\ verdict = due
      BY <1>9
    <3>2. leg.attempts[a].status = "Running"
      BY <1>5, <3>1 DEF AttemptType
    <3> QED
      BY <1>6, <1>7, <1>9, <3>1, <3>2 DEF Open
  <2> HIDE DEF verdict
  <2>2. /\ LegOK(judged) /\ Grows(leg, judged) /\ Len(judged.attempts) = Len(leg.attempts)
        /\ \A b \in DOMAIN judged.attempts : judged.attempts[b].status # "Running"
    BY <1>4, <2>1, Judged
  <2>3. judged.status = "Running"
    <3>1. leg \in LegType
      BY <1>4 DEF LegOK
    <3> QED
      BY <2>1, <3>1 DEF Open, LegType, JudgedLeg
  <2> HIDE DEF judged
  <2>4. CASE verdict = "Failed" /\ AttemptsLeft(leg)
    <3>1. AttemptsLeft(judged)
      BY <2>2, <2>4 DEF AttemptsLeft
    <3>2. LegOK(again) /\ Grows(judged, again)
      BY <2>2, <2>3, <3>1, Retried
    <3> HIDE DEF again
    <3>3. Grows(old, again)
      BY <1>4, <2>2, <3>2, GrowsOn
    <3>4. new = LastLegOf(state, again)
      BY <1>1, <1>2, <2>4
    <3> QED
      BY <1>3, <3>2, <3>3, <3>4, LastLegGrows
  <2>5. CASE verdict = "Failed" /\ ~AttemptsLeft(leg)
    <3>1. LegOK(lost) /\ Grows(judged, lost)
      BY <2>2, Closed
    <3> HIDE DEF lost
    <3>2. Grows(old, lost)
      BY <1>4, <2>2, <3>1, GrowsOn
    <3> DEFINE w == LastLegOf(state, lost)
    <3>3. w \in PursuitStates /\ StateGrows(state, w)
      BY <1>3, <3>1, <3>2, LastLegGrows
    <3>4. new = [w EXCEPT !.done = TRUE, !.status = "failure"]
      BY <1>1, <1>2, <2>5
    <3>5. w.goals = state.goals
      BY DEF LastLegOf
    <3> HIDE DEF w
    <3>6. new = [done |-> TRUE, status |-> "failure", goals |-> state.goals, legs |-> w.legs]
      BY <3>3, <3>4, <3>5 DEF PursuitStates, StateType
    <3>7. LegsOK(w.legs) /\ LegsGrow(state.legs, w.legs)
      BY <3>3, StateFacts DEF StateGrows, LegsGrow
    <3> QED
      BY <3>6, <3>7, StateRemade
  <2>6. CASE verdict = "Success"
    <3>1. LegOK(won) /\ Grows(judged, won) /\ won.status = "Success"
      BY <2>2, Closed
    <3> HIDE DEF won
    <3>2. Grows(old, won)
      BY <1>4, <2>2, <3>1, GrowsOn
    <3> DEFINE w == LastLegOf(state, won)
    <3>3. w \in PursuitStates /\ StateGrows(state, w)
      BY <1>3, <3>1, <3>2, LastLegGrows
    <3>4. w.goals = state.goals /\ w.done = state.done /\ w.status = state.status
          /\ w.legs = [state.legs EXCEPT ![l] = won]
      BY DEF LastLegOf
    <3>5. CASE HasNextLeg(state, leg, l)
      <4> DEFINE legs == Append(w.legs, NewLeg)
      <4>1. new = [w EXCEPT !.legs = legs]
        BY <1>1, <1>2, <2>6, <3>5
      <4>2. LegsOK(legs) /\ LegsGrow(state.legs, legs)
        <5>1. won.status # "Running"
          BY <3>1
        <5>2. LegsOK(state.legs) /\ l = Len(state.legs) /\ Grows(state.legs[l], won)
          BY <3>2, StateFacts DEF old
        <5> QED
          BY <3>1, <3>4, <5>1, <5>2, LastLeg
      <4> HIDE DEF w, legs
      <4>3. new = [done |-> state.done, status |-> state.status, goals |-> state.goals,
                   legs |-> legs]
        BY <3>3, <3>4, <4>1 DEF PursuitStates, StateType
      <4> QED
        BY <4>2, <4>3, StateFacts, StateRemade
    <3>6. CASE ~HasNextLeg(state, leg, l)
      <4>1. new = [w EXCEPT !.done = TRUE, !.status = "success"]
        BY <1>1, <1>2, <2>6, <3>6
      <4> HIDE DEF w
      <4>2. new = [done |-> TRUE, status |-> "success", goals |-> state.goals, legs |-> w.legs]
        BY <3>3, <3>4, <4>1 DEF PursuitStates, StateType
      <4>3. LegsOK(w.legs) /\ LegsGrow(state.legs, w.legs)
        BY <3>3, StateFacts DEF StateGrows, LegsGrow
      <4> QED
        BY <4>2, <4>3, StateRemade
    <3> QED
      BY <3>5, <3>6
  <2> QED
    BY <2>1, <2>4, <2>5, <2>6
<1> QED
  BY <1>8, <1>9

-----------------------------------------------------------------------------
(* What belongs to a state: the spec of a node, when its attempt is there,  *)
(* and a worker's item too, with all it depends on succeeded; and how an    *)
(* attempt was judged.                                                      *)
PursuitSpecs ==
  [role : {"planner", "worker"}, leg : Nat, attempt : Nat,
   item : STRING \cup {"none"}, version : Nat]
Judgements ==
  [role : {"judged"}, leg : Nat, attempt : Nat, status : EntityTerminal,
   items : Seq(ItemType)]
Verdicts == {[pass |-> TRUE], [pass |-> FALSE]}
Submissions == Plans \cup Verdicts

Launchable(leg, spec, k) ==
  /\ Place(leg, spec.attempt, k)
  /\ At(leg, spec.attempt, k).id = spec.item
  /\ At(leg, spec.attempt, k).version = spec.version
  /\ DependenciesSucceeded(leg, At(leg, spec.attempt, k))
Belongs(state, fact) ==
  /\ fact.leg \in DOMAIN state.legs
  /\ fact.attempt \in DOMAIN state.legs[fact.leg].attempts
  /\ fact.role = "worker" => \E k : Launchable(state.legs[fact.leg], fact, k)
  /\ fact.role = "judged" =>
       /\ state.legs[fact.leg].attempts[fact.attempt].status = fact.status
       /\ state.legs[fact.leg].attempts[fact.attempt].items = fact.items
PursuitPairs ==
  {p \in PursuitStates \X (PursuitSpecs \cup Judgements) : Belongs(p[1], p[2])}

LEMMA BelongsOn ==
  ASSUME NEW state \in PursuitStates, NEW new \in PursuitStates, StateGrows(state, new)
  PROVE  Carries(PursuitPairs, state, new)
<1> SUFFICES ASSUME NEW spec, <<state, spec>> \in PursuitPairs
             PROVE  <<new, spec>> \in PursuitPairs
  BY DEF Carries
<1>1. spec \in PursuitSpecs \cup Judgements /\ Belongs(state, spec)
  BY DEF PursuitPairs
<1> DEFINE l == spec.leg
           a == spec.attempt
<1>2. l \in DOMAIN state.legs /\ l \in DOMAIN new.legs /\ Grows(state.legs[l], new.legs[l])
      /\ a \in DOMAIN state.legs[l].attempts
  BY <1>1 DEF Belongs, StateGrows
<1>3. a \in DOMAIN new.legs[l].attempts
  BY <1>2 DEF Grows
<1>4. LegOK(state.legs[l]) /\ LegOK(new.legs[l])
  BY <1>2, StateFacts DEF LegsOK
<1>5. ASSUME spec.role = "worker" PROVE \E k : Launchable(new.legs[l], spec, k)
  <2>1. PICK k : Launchable(state.legs[l], spec, k)
    BY <1>1, <1>5 DEF Belongs
  <2> DEFINE x == At(state.legs[l], a, k)
             y == At(new.legs[l], a, k)
  <2>2. Place(new.legs[l], a, k) /\ ItemGrows(x, y)
    BY <1>2, <2>1 DEF Grows, Launchable
  <2>3. \A id \in x.deps : DependencyStatus(state.legs[l], x.version, id) = "Success"
    BY <2>1 DEF Launchable, DependenciesSucceeded
  <2>4. state.legs[l] \in LegType /\ new.legs[l] \in LegType /\ KeysDiffer(new.legs[l])
    BY <1>4 DEF LegOK, GraphOK
  <2>5. \A id \in x.deps : DependencyStatus(new.legs[l], x.version, id) = "Success"
    BY <1>2, <2>3, <2>4, SuccessStays
  <2>6. y.deps = x.deps /\ y.version = x.version /\ y.id = x.id
    BY <2>2 DEF ItemGrows, SameKey
  <2>7. x.id = spec.item /\ x.version = spec.version
    BY <2>1 DEF Launchable
  <2>8. DependenciesSucceeded(new.legs[l], y)
    BY <2>5, <2>6 DEF DependenciesSucceeded
  <2> QED
    BY <2>2, <2>6, <2>7, <2>8 DEF Launchable
<1>6. ASSUME spec.role = "judged"
      PROVE  /\ new.legs[l].attempts[a].status = spec.status
             /\ new.legs[l].attempts[a].items = spec.items
  <2>1. /\ state.legs[l].attempts[a].status = spec.status
        /\ state.legs[l].attempts[a].items = spec.items
    BY <1>1, <1>6 DEF Belongs
  <2>2. spec.status # "Running"
    BY <1>1, <1>6 DEF PursuitSpecs, Judgements, EntityTerminal
  <2> QED
    BY <1>2, <2>1, <2>2 DEF Grows
<1>7. Belongs(new, spec)
  BY <1>2, <1>3, <1>5, <1>6 DEF Belongs
<1> QED
  BY <1>1, <1>7 DEF PursuitPairs

(* What an accepted settlement makes of its leg.                            *)
VerdictOf(settlement) ==
  IF settlement.status = "completed" /\ settlement.payload.pass THEN "Success" ELSE "Failed"
SettledAs(leg, spec, settlement, new) ==
  LET a == spec.attempt IN
  \/ /\ spec.role = "planner" /\ settlement.status = "completed"
     /\ leg.attempts[a].plan = "NotStarted" /\ settlement.payload \in Plans
     /\ \E state : PlanIsValid(state, leg, settlement.payload)
     /\ Planned(leg, a, settlement.payload, new)
  \/ /\ spec.role = "planner" /\ settlement.status # "completed"
     /\ leg.attempts[a].plan = "NotStarted" /\ PlanFailed(leg, a, new)
  \/ /\ spec.role = "worker"
     /\ \E m : /\ Place(leg, a, m) /\ At(leg, a, m).status = "NotStarted"
              /\ At(leg, a, m).id = spec.item /\ At(leg, a, m).version = spec.version
              /\ Worked(leg, a, m, VerdictOf(settlement), new)

LEMMA OpenMoves ==
  ASSUME NEW leg \in LegType, NEW new \in LegType, LegMoves(leg, new),
         Len(leg.attempts) \in DOMAIN leg.attempts
  PROVE  Len(new.attempts) = Len(leg.attempts) /\ (Open(leg) => Open(new))
<1>1. Len(new.attempts) = Len(leg.attempts)
  BY LegFacts DEF LegMoves
<1> QED
  BY <1>1 DEF LegMoves, AttemptMoves, Open

(* A settlement that is accepted is for the open attempt of the open leg.   *)
LEMMA SettledOK ==
  ASSUME NEW state \in PursuitStates, NEW spec \in PursuitSpecs, Belongs(state, spec),
         NEW settlement, PursuitValidates(state, spec, settlement),
         settlement.status = "completed" => settlement.payload \in PursuitPayloads(spec)
  PROVE  /\ spec.leg = Len(state.legs)
         /\ LegOK(SettledLeg(state.legs[spec.leg], spec, settlement))
         /\ Grows(state.legs[spec.leg], SettledLeg(state.legs[spec.leg], spec, settlement))
         /\ Open(state.legs[spec.leg])
         /\ spec.attempt = Len(state.legs[spec.leg].attempts)
         /\ Open(SettledLeg(state.legs[spec.leg], spec, settlement))
         /\ SettledAs(state.legs[spec.leg], spec, settlement,
                      SettledLeg(state.legs[spec.leg], spec, settlement))
<1> DEFINE l == spec.leg
           leg == state.legs[l]
           a == spec.attempt
           x == leg.attempts[a]
           new == SettledLeg(leg, spec, settlement)
<1>1. /\ l \in DOMAIN state.legs /\ LegOK(leg) /\ leg \in LegType
      /\ leg.status = "Running" => l = Len(state.legs)
  BY StateFacts DEF Belongs, LegsOK, LegOK
<1>2. /\ a \in DOMAIN leg.attempts /\ x \in AttemptType /\ x.items \in Seq(ItemType)
      /\ x.plan \in PlanStatuses /\ x.status \in EntityTerminal \cup {"Running"}
  BY <1>1, LegFacts DEF Belongs
<1>3. AttemptOK(x) /\ (x.status = "Running" => a = Len(leg.attempts) /\ leg.status = "Running")
  BY <1>1, <1>2 DEF LegOK, ShapeOK
<1>4. x.status = "Running" => l = Len(state.legs) /\ a = Len(leg.attempts) /\ Open(leg)
  BY <1>1, <1>3 DEF Open
<1>5. spec.role \in {"planner", "worker"}
  BY DEF PursuitSpecs
<1> SUFFICES /\ l = Len(state.legs) /\ LegOK(new) /\ Grows(leg, new)
             /\ Open(leg) /\ a = Len(leg.attempts) /\ Open(new)
             /\ SettledAs(leg, spec, settlement, new)
  OBVIOUS
<1>6. CASE spec.role = "planner"
  <2>1. /\ x.plan \notin EntityTerminal
        /\ settlement.status = "completed" => PlanIsValid(state, leg, settlement.payload)
    BY <1>6 DEF PursuitValidates
  <2>2. x.plan = "NotStarted"
    BY <1>2, <2>1 DEF PlanStatuses, EntityTerminal
  <2>3. x.status = "Running"
    BY <1>3, <2>2 DEF AttemptOK
  <2>4. CASE settlement.status = "completed"
    <3> DEFINE plan == settlement.payload
    <3>1. plan \in Plans
      BY <1>6, <2>4 DEF PursuitPayloads
    <3>2. new = PlannedLeg(leg, a, plan)
      BY <1>6, <2>4 DEF SettledLeg
    <3>3. PlanIsValid(state, leg, plan)
      BY <2>1, <2>4
    <3> HIDE DEF leg, new
    <3>4. /\ LegOK(new) /\ Grows(leg, new) /\ Open(new) /\ Planned(leg, a, plan, new)
          /\ Open(leg) /\ a = Len(leg.attempts) /\ l = Len(state.legs)
      <4> HIDE DEF plan
      <4> QED
        BY <1>1, <1>4, <2>2, <2>3, <3>1, <3>2, <3>3, PlannedOK
    <3>5. SettledAs(leg, spec, settlement, new)
      BY <1>6, <2>2, <2>4, <3>1, <3>3, <3>4 DEF SettledAs
    <3> QED
      BY <3>4, <3>5
  <2>5. CASE settlement.status # "completed"
    <3>1. new = [leg EXCEPT !.attempts[a].plan = "Failed"]
      BY <1>6, <2>5 DEF SettledLeg
    <3> HIDE DEF leg
    <3> DEFINE failed == [leg EXCEPT !.attempts[a].plan = "Failed"]
    <3>2. LegOK(failed) /\ Grows(leg, failed) /\ Open(failed) /\ PlanFailed(leg, a, failed)
      BY <1>1, <1>4, <2>2, <2>3, PlanFails
    <3> HIDE DEF new, failed
    <3>3. new = failed
      BY <3>1 DEF failed
    <3>4. SettledAs(leg, spec, settlement, new)
      BY <1>6, <2>2, <2>5, <3>2, <3>3 DEF SettledAs
    <3> QED
      BY <1>4, <2>3, <3>2, <3>3, <3>4
  <2> QED
    BY <2>4, <2>5
<1>7. CASE spec.role = "worker"
  <2> DEFINE m == ItemAt(x, spec)
             verdict == IF settlement.status = "completed" /\ settlement.payload.pass
                        THEN "Success" ELSE "Failed"
  <2>1. PICK k : Launchable(leg, spec, k)
    BY <1>7 DEF Belongs
  <2>2. k \in DOMAIN x.items /\ x.items[k].id = spec.item /\ x.items[k].version = spec.version
    BY <2>1 DEF Launchable, Place, At
  <2>3. m \in DOMAIN x.items
    BY <1>2, <2>2, ItemFound
  <2>4. x.items[m].status \notin ItemTerminal
    BY <1>5, <1>7 DEF PursuitValidates
  <2>5. x.items[m].status = "NotStarted"
    <3>1. x.items[m] \in ItemType
      BY <1>2, <2>3
    <3> QED
      BY <2>4, <3>1 DEF ItemType, ItemStatuses
  <2>6. x.status = "Running"
    BY <1>3, <2>3, <2>4 DEF AttemptOK
  <2>7. new = WorkedLeg(leg, spec, verdict)
    BY <1>7 DEF SettledLeg
  <2>8. verdict \in {"Success", "Failed"}
    OBVIOUS
  <2> HIDE DEF verdict, leg, new
  <2>9. new \in LegType /\ LegMoves(leg, new) /\ Worked(leg, a, m, verdict, new)
    BY <1>1, <1>2, <2>3, <2>5, <2>7, <2>8, WorkedMoves
  <2>10. /\ LegOK(new) /\ Grows(leg, new) /\ Open(leg) /\ a = Len(leg.attempts)
         /\ l = Len(state.legs)
    BY <1>1, <1>4, <2>6, <2>9, LegMovesOK
  <2>11. Open(new)
    BY <1>1, <1>2, <2>9, <2>10, OpenMoves
  <2>12. x.items[m].id = spec.item /\ x.items[m].version = spec.version
    BY <1>2, <2>2, ItemFound
  <2>13. verdict = VerdictOf(settlement)
    BY DEF verdict, VerdictOf
  <2> HIDE DEF m
  <2>14. /\ Place(leg, a, m) /\ At(leg, a, m).status = "NotStarted"
         /\ At(leg, a, m).id = spec.item /\ At(leg, a, m).version = spec.version
    BY <1>2, <2>3, <2>5, <2>12 DEF Place, At
  <2>15. SettledAs(leg, spec, settlement, new)
    BY <1>7, <2>9, <2>13, <2>14 DEF SettledAs
  <2> QED
    BY <2>9, <2>10, <2>11, <2>15
<1> QED
  BY <1>5, <1>6, <1>7

LEMMA AppliedOK ==
  ASSUME NEW state \in PursuitStates, NEW spec \in PursuitSpecs, Belongs(state, spec),
         NEW settlement, PursuitValidates(state, spec, settlement),
         settlement.status = "completed" => settlement.payload \in PursuitPayloads(spec),
         NEW running
  PROVE  /\ PursuitApplied(state, spec, settlement, running) \in PursuitStates
         /\ StateGrows(state, PursuitApplied(state, spec, settlement, running))
<1> DEFINE y == SettledLeg(state.legs[spec.leg], spec, settlement)
           applied == [state EXCEPT !.legs[spec.leg] = SettledLeg(@, spec, settlement)]
           new == PursuitApplied(state, spec, settlement, running)
<1>1. spec.leg = Len(state.legs) /\ LegOK(y) /\ Grows(state.legs[spec.leg], y)
  BY SettledOK
<1>2. applied = [state EXCEPT !.legs[Len(state.legs)] = y]
  BY <1>1
<1>3. new = IF applied.done THEN applied ELSE Reconciled(applied, running)
  BY DEF PursuitApplied
<1>4. ~state.done
  BY DEF PursuitValidates
<1> SUFFICES new \in PursuitStates /\ StateGrows(state, new)
  OBVIOUS
<1> HIDE DEF y, new
<1>5. applied = LastLegOf(state, y)
  BY <1>2, LastLegIs
<1> HIDE DEF applied
<1>6. Grows(Last(state.legs), y)
  BY <1>1 DEF Last
<1>7. applied \in PursuitStates /\ StateGrows(state, applied) /\ applied.done = state.done
  BY <1>1, <1>5, <1>6, LastLegGrows
<1>8. Reconciled(applied, running) \in PursuitStates
      /\ StateGrows(applied, Reconciled(applied, running))
  BY <1>4, <1>7, ReconciledOK
<1> QED
  BY <1>3, <1>4, <1>7, <1>8, StateGrowsOn

(* dispatch() orders only nodes that belong to the state. *)
LEMMA ReadyBelongs ==
  ASSUME NEW state \in PursuitStates, NEW l \in DOMAIN state.legs, NEW running, NEW leg,
         leg = state.legs[l], NEW a, a = Len(leg.attempts), NEW k,
         Place(leg, a, k), IsReady(leg, l, At(leg, a, k), running)
  PROVE  /\ WorkerSpec(l, a, At(leg, a, k)) \in PursuitSpecs
         /\ <<state, WorkerSpec(l, a, At(leg, a, k))>> \in PursuitPairs
<1> DEFINE item == At(leg, a, k)
           spec == WorkerSpec(l, a, item)
<1>1. /\ LegOK(leg) /\ leg \in LegType /\ l \in Nat
      /\ DOMAIN leg.attempts = 1..Len(leg.attempts) /\ Len(leg.attempts) \in Nat
  BY StateFacts, LegFacts DEF LegsOK, LegOK
<1>2. item \in ItemType /\ a \in DOMAIN leg.attempts
  BY <1>1, LegFacts DEF Place
<1>3. /\ spec.role = "worker" /\ spec.leg = l /\ spec.attempt = a /\ spec.item = item.id
      /\ spec.version = item.version
  BY DEF WorkerSpec
<1>4. spec \in PursuitSpecs
  BY <1>1, <1>2, ItemFacts DEF WorkerSpec, PursuitSpecs
<1> HIDE DEF spec, item
<1>5. DependenciesSucceeded(leg, item)
  BY DEF IsReady, item
<1>6. Launchable(leg, spec, k)
  BY <1>3, <1>5 DEF Launchable, item
<1>7. Belongs(state, spec)
  BY <1>2, <1>3, <1>6 DEF Belongs
<1> QED
  BY <1>4, <1>7 DEF PursuitPairs, spec, item

LEMMA PlannerBelongs ==
  ASSUME NEW state \in PursuitStates, NEW l \in DOMAIN state.legs, NEW a,
         a = Len(state.legs[l].attempts)
  PROVE  /\ PlannerSpec(l, a) \in PursuitSpecs
         /\ <<state, PlannerSpec(l, a)>> \in PursuitPairs
<1> DEFINE leg == state.legs[l]
           spec == PlannerSpec(l, a)
<1>1. /\ LegOK(leg) /\ leg \in LegType /\ l \in Nat
      /\ DOMAIN leg.attempts = 1..Len(leg.attempts) /\ Len(leg.attempts) \in 1..MaxAttempts
  BY StateFacts, LegFacts DEF LegsOK, LegOK, ShapeOK
<1>2. a \in DOMAIN leg.attempts /\ a \in Nat
  BY <1>1, AttemptsAssumption
<1>3. spec.role = "planner" /\ spec.leg = l /\ spec.attempt = a
  BY DEF PlannerSpec
<1>4. spec \in PursuitSpecs
  <2>1. spec = [role |-> "planner", leg |-> l, attempt |-> a, item |-> "none", version |-> 0]
    BY DEF PlannerSpec
  <2>2. "none" \in STRING \cup {"none"} /\ 0 \in Nat /\ "planner" \in {"planner", "worker"}
    OBVIOUS
  <2>3. l \in Nat /\ a \in Nat
    BY <1>1, <1>2
  <2> HIDE DEF spec
  <2> QED
    BY ONLY <2>1, <2>2, <2>3 DEF PursuitSpecs
<1> HIDE DEF spec
<1>5. Belongs(state, spec)
  BY <1>2, <1>3 DEF Belongs
<1> QED
  BY <1>4, <1>5 DEF PursuitPairs, spec

LEMMA DispatchesBelong ==
  ASSUME NEW state \in PursuitStates, NEW running
  PROVE  /\ PursuitDispatches(state, running) \in Seq(PursuitSpecs)
         /\ TodoLinked(PursuitPairs, state, PursuitDispatches(state, running))
<1> DEFINE U == {spec \in PursuitSpecs : <<state, spec>> \in PursuitPairs}
           new == PursuitDispatches(state, running)
<1>1. ASSUME NEW l \in DOMAIN state.legs
      PROVE  LegDispatches(state.legs[l], l, running) \in Seq(U)
  <2> DEFINE leg == state.legs[l]
             a == Len(leg.attempts)
             attempt == leg.attempts[a]
             one(k) == IF IsReady(leg, l, attempt.items[k], running)
                       THEN <<WorkerSpec(l, a, attempt.items[k])>> ELSE <<>>
             ready == [k \in DOMAIN attempt.items |-> one(k)]
             spec == PlannerSpec(l, a)
             order == LegDispatches(leg, l, running)
  <2>1. /\ LegOK(leg) /\ leg \in LegType
        /\ DOMAIN leg.attempts = 1..Len(leg.attempts) /\ Len(leg.attempts) \in 1..MaxAttempts
    BY StateFacts, LegFacts DEF LegsOK, LegOK, ShapeOK
  <2>2. a \in DOMAIN leg.attempts
    BY <2>1, AttemptsAssumption
  <2>3. attempt.items \in Seq(ItemType)
    BY <2>1, <2>2, LegFacts
  <2>4. ASSUME NEW k \in DOMAIN attempt.items PROVE one(k) \in Seq(U)
    <3>1. CASE IsReady(leg, l, attempt.items[k], running)
      <4>1. Place(leg, a, k) /\ At(leg, a, k) = attempt.items[k]
        BY <2>2 DEF Place, At
      <4> DEFINE worker == WorkerSpec(l, a, attempt.items[k])
      <4>2. worker \in PursuitSpecs /\ <<state, worker>> \in PursuitPairs
        <5>1. IsReady(leg, l, At(leg, a, k), running)
          BY <3>1, <4>1
        <5>2. /\ WorkerSpec(l, a, At(leg, a, k)) \in PursuitSpecs
              /\ <<state, WorkerSpec(l, a, At(leg, a, k))>> \in PursuitPairs
          BY <4>1, <5>1, ReadyBelongs
        <5> QED
          BY <4>1, <5>2
      <4>3. one(k) = <<worker>>
        BY <3>1
      <4> HIDE DEF worker, one
      <4>4. worker \in U
        BY <4>2
      <4> QED
        BY <4>3, <4>4
    <3>2. CASE ~IsReady(leg, l, attempt.items[k], running)
      BY <3>2
    <3> QED
      BY <3>1, <3>2
  <2>5. spec \in PursuitSpecs /\ <<state, spec>> \in PursuitPairs
    BY PlannerBelongs
  <2>6. order = IF leg.status # "Running" \/ attempt.status # "Running" THEN <<>>
                ELSE CASE attempt.plan = "NotStarted" ->
                            IF PlannerRuns(running, l, a) THEN <<>> ELSE <<spec>>
                       [] attempt.plan = "Success" -> FlattenSeq(ready)
                       [] OTHER -> <<>>
    BY DEF LegDispatches
  <2> HIDE DEF spec, one, order, attempt
  <2>7. ready \in Seq(Seq(U))
    <3>1. DOMAIN attempt.items = 1..Len(attempt.items) /\ Len(attempt.items) \in Nat
      BY <2>3
    <3> HIDE DEF U
    <3> QED
      BY <2>4, <3>1
  <2> HIDE DEF ready
  <2>8. spec \in U
    BY <2>5
  <2> HIDE DEF U, leg, a
  <2>9. FlattenSeq(ready) \in Seq(U)
    BY <2>7, FlattenType
  <2>10. order \in {<<>>, <<spec>>, FlattenSeq(ready)}
    BY <2>6
  <2>11. <<>> \in Seq(U) /\ <<spec>> \in Seq(U)
    BY <2>8
  <2>12. order \in Seq(U)
    BY <2>9, <2>10, <2>11
  <2> QED
    BY <2>12 DEF order, leg
<1>2. new \in Seq(U)
  <2> DEFINE seqs == [l \in DOMAIN state.legs |-> LegDispatches(state.legs[l], l, running)]
  <2>1. new = IF state.done THEN <<>> ELSE FlattenSeq(seqs)
    BY DEF PursuitDispatches
  <2>2. seqs \in Seq(Seq(U))
    <3>1. DOMAIN state.legs = 1..Len(state.legs) /\ Len(state.legs) \in Nat
      BY StateFacts
    <3> HIDE DEF U
    <3> QED
      BY <1>1, <3>1
  <2> HIDE DEF U, seqs, new
  <2>3. FlattenSeq(seqs) \in Seq(U)
    BY <2>2, FlattenType
  <2> QED
    BY <2>1, <2>3
<1> HIDE DEF new
<1>3. U \subseteq PursuitSpecs
  OBVIOUS
<1>4. \A spec \in U : <<state, spec>> \in PursuitPairs
  OBVIOUS
<1> HIDE DEF U
<1>5. \A n \in DOMAIN new : new[n] \in U
  BY <1>2
<1>6. new \in Seq(PursuitSpecs)
  BY <1>2, <1>3
<1> QED
  BY <1>4, <1>5, <1>6 DEF TodoLinked, new

LEMMA PursuitEnds ==
  ASSUME NEW state \in PursuitStates, NEW status \in {"failure", "deadlocked"}
  PROVE  /\ Ended(state, status) \in PursuitStates
         /\ StateGrows(state, Ended(state, status))
<1> DEFINE new == Ended(state, status)
<1>1. new = [done |-> TRUE, status |-> status, goals |-> state.goals, legs |-> state.legs]
  <2>1. state \in StateType
    BY DEF PursuitStates
  <2>2. new = [state EXCEPT !.done = TRUE, !.status = status]
    BY DEF Ended
  <2> HIDE DEF new
  <2> QED
    BY <2>1, <2>2 DEF StateType
<1> HIDE DEF new
<1>2. LegsGrow(state.legs, state.legs)
  BY GrowsItself DEF LegsGrow
<1>3. new \in PursuitStates /\ StateGrows(state, new)
  BY <1>1, <1>2, StateFacts, StateRemade
<1> QED
  BY <1>3 DEF new

LEMMA PursuitStarts ==
  ASSUME NEW goals \in Nat
  PROVE  PursuitInitial(goals) \in PursuitStates
<1> DEFINE new == PursuitInitial(goals)
<1>1. /\ new.done = FALSE /\ new.status = "running" /\ new.goals = goals /\ new.legs = <<NewLeg>>
      /\ new = [done |-> FALSE, status |-> "running", goals |-> goals, legs |-> <<NewLeg>>]
  BY DEF PursuitInitial
<1> HIDE DEF new
<1>2. NewLeg \in LegType
  BY NewLegOK DEF LegOK
<1>3. /\ new.legs \in Seq(LegType) /\ new.legs # <<>> /\ Len(new.legs) = 1
      /\ DOMAIN new.legs = {1} /\ new.legs[1] = NewLeg
  BY <1>1, <1>2
<1>4. new \in StateType
  BY <1>1, <1>2 DEF StateType
<1>5. StateOK(new)
  BY <1>1, <1>3, NewLegOK DEF StateOK
<1> QED
  BY <1>4, <1>5 DEF PursuitStates, new

(* Pursuit's hooks are well typed. *)
LEMMA PursuitHooksTyped ==
  ASSUME PursuitHooks
  PROVE  HooksTyped(PursuitStates, PursuitSpecs, Submissions, PursuitPairs)
<1>1. InitialStates \subseteq PursuitStates
  BY PursuitStarts DEF PursuitHooks
<1>2. ASSUME NEW state \in PursuitStates, NEW specs \in SUBSET PursuitSpecs
      PROVE  /\ Dispatches(state, specs) \in Seq(PursuitSpecs)
             /\ TodoLinked(PursuitPairs, state, Dispatches(state, specs))
  BY DispatchesBelong DEF PursuitHooks
<1>3. ASSUME NEW state \in PursuitStates, NEW specs \in SUBSET PursuitSpecs,
             NEW spec \in PursuitSpecs, NEW settlement \in Settlements(Submissions),
             <<state, spec>> \in PursuitPairs, MayEnd(spec, settlement),
             Validates(state, spec, settlement)
      PROVE  /\ Applied(state, spec, settlement, specs) \in PursuitStates
             /\ Carries(PursuitPairs, state, Applied(state, spec, settlement, specs))
  <2> DEFINE new == PursuitApplied(state, spec, settlement, specs)
  <2>1. Applied(state, spec, settlement, specs) = new
    BY DEF PursuitHooks
  <2>2. Belongs(state, spec)
    BY <1>3 DEF PursuitPairs
  <2>3. PursuitValidates(state, spec, settlement)
    BY <1>3 DEF PursuitHooks
  <2>4. settlement.status = "completed" => settlement.payload \in PursuitPayloads(spec)
    BY <1>3 DEF MayEnd, PursuitHooks
  <2>5. new \in PursuitStates /\ StateGrows(state, new)
    BY <2>2, <2>3, <2>4, AppliedOK
  <2> HIDE DEF new
  <2> QED
    BY <2>1, <2>5, BelongsOn
<1>4. \A state \in PursuitStates : \A status \in {"failure", "deadlocked"} :
        Ended(state, status) \in PursuitStates
          /\ Carries(PursuitPairs, state, Ended(state, status))
  BY PursuitEnds, BelongsOn
<1>5. \A spec \in PursuitSpecs : Payloads(spec) \subseteq Submissions
  BY DEF PursuitHooks, PursuitPayloads, Submissions, Verdicts
<1> QED
  BY <1>1, <1>2, <1>3, <1>4, <1>5 DEF HooksTyped

-----------------------------------------------------------------------------
(* What a run of pursuit rests on. *)
PursuitInv ==
  /\ Good(PursuitStates, PursuitSpecs, Submissions)
  /\ Linked(PursuitPairs)

(* In a run of pursuit, for any attempt budget, any goals and any plans,    *)
(* the graph of a leg's items stays in order and only nodes that belong to  *)
(* the state are launched (pursuit/workflow.mjs:110).                       *)
THEOREM PursuitInvariant ==
  ASSUME PursuitHooks
  PROVE  Safety => []PursuitInv
<1>1. HooksTyped(PursuitStates, PursuitSpecs, Submissions, PursuitPairs)
  BY PursuitHooksTyped
<1>2. Init => PursuitInv
  BY <1>1, InitGood, InitLinked DEF PursuitInv
<1>3. PursuitInv /\ [Next]_vars => PursuitInv'
  BY <1>1, StepGood, StepLinked DEF PursuitInv
<1> QED
  BY <1>2, <1>3, PTL DEF Safety

(* In a run of pursuit workflow and node runs agree on every end, and no    *)
(* plan or verdict is applied twice (workflow-runtime.ts:173,               *)
(* node-runner.ts:102).                                                     *)
THEOREM PursuitEndsAgree ==
  ASSUME PursuitHooks
  PROVE  Safety => []EndsAgree
BY PursuitHooksTyped, EndsAgreeHolds

LEMMA InvFacts ==
  ASSUME PursuitInv
  PROVE  /\ wf \in PursuitStates
         /\ \A l \in Legs : wf.legs[l] \in LegType /\ LegOK(wf.legs[l])
         /\ \A i \in DOMAIN nodes : nodes[i].spec \in PursuitSpecs /\ Belongs(wf, nodes[i].spec)
<1>1. wf \in PursuitStates /\ nodes \in Seq(EntryType(PursuitSpecs, Submissions))
  BY DEF PursuitInv, Good, Typed, ListsTyped
<1>2. \A l \in Legs : wf.legs[l] \in LegType /\ LegOK(wf.legs[l])
  BY <1>1, StateFacts DEF LegsOK, LegOK, Legs
<1>3. ASSUME NEW i \in DOMAIN nodes
      PROVE  nodes[i].spec \in PursuitSpecs /\ Belongs(wf, nodes[i].spec)
  <2>1. nodes[i] \in EntryType(PursuitSpecs, Submissions)
    BY <1>1
  <2>2. nodes[i].spec \in PursuitSpecs
    BY <2>1 DEF EntryType
  <2>3. <<wf, nodes[i].spec>> \in PursuitPairs
    BY DEF PursuitInv, Linked, EntriesLinked
  <2> QED
    BY <2>2, <2>3 DEF PursuitPairs
<1> QED
  BY <1>1, <1>2, <1>3

(* No two items of a leg share name and goal version: a dependency and a    *)
(* settlement find one item (pursuit/workflow.mjs:734).                     *)
THEOREM UniqueKeysHold ==
  ASSUME PursuitHooks
  PROVE  Safety => []UniqueKeys
<1>1. PursuitInv => UniqueKeys
  <2> SUFFICES ASSUME PursuitInv, NEW l \in Legs
               PROVE  LET items == AllItems(wf.legs[l]) IN
                      \A j, k \in DOMAIN items :
                        items[j].id = items[k].id /\ items[j].version = items[k].version => j = k
    BY DEF UniqueKeys
  <2> DEFINE leg == wf.legs[l]
             items == AllItems(leg)
  <2>1. leg \in LegType /\ KeysDiffer(leg)
    BY InvFacts DEF LegOK, GraphOK
  <2>2. PICK i, k : Places(leg, i, k)
    BY <2>1, ItemsPlaced
  <2> SUFFICES ASSUME NEW m \in DOMAIN items, NEW n \in DOMAIN items,
                      SameKey(items[m], items[n])
               PROVE  m = n
    BY DEF SameKey
  <2>3. /\ Place(leg, i[m], k[m]) /\ At(leg, i[m], k[m]) = items[m]
        /\ Place(leg, i[n], k[n]) /\ At(leg, i[n], k[n]) = items[n]
    BY <2>2 DEF Places
  <2>4. i[m] = i[n] /\ k[m] = k[n]
    BY <2>1, <2>3 DEF KeysDiffer
  <2> QED
    BY <2>2, <2>4 DEF Places
<1> QED
  BY <1>1, PursuitInvariant, PTL

(* A worker's node is launched only after everything its item depends on    *)
(* has succeeded, and nothing that happens later takes that back            *)
(* (pursuit/workflow.mjs:110): a success stays, and the item that a name    *)
(* and a version stand for stays the same.                                  *)
THEOREM DependenciesFirstHolds ==
  ASSUME PursuitHooks
  PROVE  Safety => []DependenciesFirst
<1>1. PursuitInv => DependenciesFirst
  <2> SUFFICES ASSUME PursuitInv, NEW i \in Workers
               PROVE  DependenciesSucceeded(wf.legs[nodes[i].spec.leg], ItemOf(i))
    BY DEF DependenciesFirst
  <2> DEFINE spec == nodes[i].spec
             leg == wf.legs[spec.leg]
             attempt == leg.attempts[spec.attempt]
             m == ItemAt(attempt, spec)
  <2>1. i \in DOMAIN nodes /\ spec.role = "worker" /\ Belongs(wf, spec)
    BY InvFacts DEF Workers
  <2>2. leg \in LegType /\ KeysDiffer(leg) /\ spec.attempt \in DOMAIN leg.attempts
    BY <2>1, InvFacts DEF Legs, Belongs, LegOK, GraphOK
  <2>3. PICK k : Launchable(leg, spec, k)
    BY <2>1 DEF Belongs
  <2>4. ItemOf(i) = attempt.items[m]
    BY DEF ItemOf
  <2> HIDE DEF spec, leg
  <2>5. /\ k \in DOMAIN attempt.items /\ attempt.items[k].id = spec.item
        /\ attempt.items[k].version = spec.version /\ attempt.items \in Seq(ItemType)
    BY <2>2, <2>3, LegFacts DEF Launchable, Place, At
  <2>6. /\ m \in DOMAIN attempt.items /\ attempt.items[m].id = spec.item
        /\ attempt.items[m].version = spec.version
    BY <2>5, ItemFound
  <2> HIDE DEF m
  <2>7. Place(leg, spec.attempt, m) /\ At(leg, spec.attempt, m) = attempt.items[m]
    BY <2>2, <2>6 DEF Place, At
  <2>8. Place(leg, spec.attempt, k) /\ At(leg, spec.attempt, k) = attempt.items[k]
    BY <2>2, <2>5 DEF Place, At
  <2>9. SameKey(At(leg, spec.attempt, m), At(leg, spec.attempt, k))
    BY <2>5, <2>6, <2>7, <2>8 DEF SameKey
  <2>10. m = k
    BY <2>2, <2>7, <2>8, <2>9 DEF KeysDiffer
  <2>11. DependenciesSucceeded(leg, attempt.items[m])
    BY <2>3, <2>8, <2>10 DEF Launchable
  <2> QED
    BY <2>4, <2>11 DEF leg, spec
<1> QED
  BY <1>1, PursuitInvariant, PTL

(* An attempt that was judged stays as it was judged: no late settlement    *)
(* and no block that spreads from a later attempt rewrites its items        *)
(* (pursuit/workflow.mjs, applyNodeSettlement and                           *)
(* evaluateWorkflowProgress).                                               *)
THEOREM AttemptsCloseHolds ==
  ASSUME PursuitHooks
  PROVE  Safety => AttemptsClose
<1> DEFINE Closes ==
      \A l \in Legs : \A a \in Attempts(l) :
        wf.legs[l].attempts[a].status # "Running" =>
          /\ wf'.legs[l].attempts[a].status = wf.legs[l].attempts[a].status
          /\ wf'.legs[l].attempts[a].items = wf.legs[l].attempts[a].items
<1>1. ASSUME PursuitInv, Carries(PursuitPairs, wf, wf')
      PROVE  Closes
  <2> SUFFICES ASSUME NEW l \in Legs, NEW a \in Attempts(l),
                      wf.legs[l].attempts[a].status # "Running"
               PROVE  /\ wf'.legs[l].attempts[a].status = wf.legs[l].attempts[a].status
                      /\ wf'.legs[l].attempts[a].items = wf.legs[l].attempts[a].items
    OBVIOUS
  <2> DEFINE x == wf.legs[l].attempts[a]
             fact == [role |-> "judged", leg |-> l, attempt |-> a, status |-> x.status,
                      items |-> x.items]
  <2>1. wf \in PursuitStates /\ l \in DOMAIN wf.legs /\ a \in DOMAIN wf.legs[l].attempts
        /\ wf.legs[l] \in LegType
    BY <1>1, InvFacts DEF Legs, Attempts
  <2>2. l \in Nat /\ a \in Nat
    BY <2>1, StateFacts, LegFacts
  <2>3. x.status \in EntityTerminal /\ x.items \in Seq(ItemType)
    BY <2>1, LegFacts
  <2>4. /\ fact.role = "judged" /\ fact.leg = l /\ fact.attempt = a
        /\ fact.status = x.status /\ fact.items = x.items
    OBVIOUS
  <2> HIDE DEF x
  <2>5. fact \in Judgements
    BY <2>2, <2>3 DEF Judgements
  <2> HIDE DEF fact
  <2>6. Belongs(wf, fact)
    BY <2>1, <2>4 DEF Belongs, x
  <2>7. <<wf, fact>> \in PursuitPairs
    BY <2>1, <2>5, <2>6 DEF PursuitPairs
  <2>8. <<wf', fact>> \in PursuitPairs
    BY <1>1, <2>7 DEF Carries
  <2>9. Belongs(wf', fact)
    BY <2>8 DEF PursuitPairs
  <2> QED
    BY <2>4, <2>9 DEF Belongs, x
<1>2. ASSUME PursuitInv, [Next]_vars PROVE Closes
  <2>1. HooksTyped(PursuitStates, PursuitSpecs, Submissions, PursuitPairs)
    BY PursuitHooksTyped
  <2>2. Carries(PursuitPairs, wf, wf')
    BY <1>2, <2>1, StepLaunches DEF PursuitInv
  <2> QED
    BY <1>1, <1>2, <2>2
<1>3. PursuitInv /\ [Next]_vars => [Closes]_vars
  BY <1>2
<1> QED
  BY <1>3, PursuitInvariant, PTL DEF Safety, AttemptsClose

(* The pursuit's state keeps its types, for any attempt budget, any goals   *)
(* and any plans: statuses and versions are in range, every dependency      *)
(* names an item of its leg, no leg has more attempts than its budget, and  *)
(* only the last leg and the last attempt of a leg can be open              *)
(* (pursuit/workflow.mjs).                                                  *)
THEOREM PursuitTypesHold ==
  ASSUME PursuitHooks
  PROVE  Safety => []PursuitTypeOK
<1>1. SaysHow(PursuitStates)
  BY StateFacts DEF SaysHow, Outcomes
<1>2. Safety => []RunTypeOK
  BY <1>1, PursuitHooksTyped, RunTypesHold
<1>3. ASSUME PursuitInv, NEW l \in Legs
      PROVE  /\ wf.legs[l].status \in EntityTerminal \cup {"Running"}
             /\ wf.legs[l].status = "Running" => l = Len(wf.legs)
             /\ Len(wf.legs[l].attempts) \in 1..MaxAttempts
             /\ \A k \in DOMAIN AllItems(wf.legs[l]) :
                  ItemTypeOK(AllItems(wf.legs[l])[k], wf.legs[l])
             /\ \A a \in Attempts(l) :
                  /\ wf.legs[l].attempts[a].plan \in PlanStatuses
                  /\ wf.legs[l].attempts[a].status = "Running"
                       => a = Len(wf.legs[l].attempts)
  <2> DEFINE leg == wf.legs[l]
             items == AllItems(leg)
  <2>1. leg \in LegType /\ LegOK(leg)
    BY <1>3, InvFacts
  <2>2. leg.status = "Running" => l = Len(wf.legs)
    BY <1>3, InvFacts, StateFacts DEF LegsOK, Legs
  <2>3. PICK i, n : Places(leg, i, n)
    BY <2>1, ItemsPlaced
  <2>4. items \in Seq(ItemType)
    BY <2>1, AllItemsType
  <2>5. ASSUME NEW k \in DOMAIN items PROVE ItemTypeOK(items[k], leg)
    <3>1. Place(leg, i[k], n[k]) /\ At(leg, i[k], n[k]) = items[k]
      BY <2>3 DEF Places
    <3>2. items[k] \in ItemType
      BY <2>4
    <3>3. items[k].version \in 1..leg.version
      BY <2>1, <3>1 DEF LegOK, GraphOK, VersionsFit
    <3>4. ASSUME NEW id \in items[k].deps
          PROVE  id \in {other.id : other \in ToSet(items)}
      <4>1. PICK b, j : Place(leg, b, j) /\ At(leg, b, j).id = id
        BY <2>1, <3>1 DEF LegOK, GraphOK, DepsResolve
      <4>2. PICK m \in DOMAIN items : i[m] = b /\ n[m] = j
        BY <2>3, <4>1 DEF Places
      <4>3. items[m].id = id
        BY <2>3, <4>1, <4>2 DEF Places
      <4>4. items[m] \in ToSet(items)
        BY <2>4 DEF ToSet
      <4> QED
        BY <4>3, <4>4
    <3> HIDE DEF items
    <3> QED
      BY <3>2, <3>3, <3>4 DEF ItemType, ItemTypeOK, items
  <2>6. \A a \in DOMAIN leg.attempts :
          /\ leg.attempts[a].plan \in PlanStatuses
          /\ leg.attempts[a].status = "Running" => a = Len(leg.attempts)
    BY <2>1, LegFacts DEF LegOK, ShapeOK
  <2>7. leg.status \in EntityTerminal \cup {"Running"} /\ Len(leg.attempts) \in 1..MaxAttempts
    BY <2>1, LegFacts DEF LegOK, ShapeOK
  <2> QED
    BY <2>2, <2>5, <2>6, <2>7 DEF Attempts
<1>4. PursuitInv /\ RunTypeOK => PursuitTypeOK
  BY <1>3 DEF PursuitTypeOK
<1> QED
  BY <1>2, <1>4, PursuitInvariant, PTL
-----------------------------------------------------------------------------
(* Every item is its own: when no launch fails, an item has at most one     *)
(* node, and its status is what that node did.                              *)

(* The plans and the items of a leg, each by the spec of its node.          *)
Stands(leg, l, spec, status) ==
  \/ \E a \in DOMAIN leg.attempts :
       spec = PlannerSpec(l, a) /\ leg.attempts[a].plan = status
  \/ \E a, k : /\ Place(leg, a, k) /\ spec = WorkerSpec(l, a, At(leg, a, k))
               /\ At(leg, a, k).status = status
IsIn(leg, l, spec) == \E status : Stands(leg, l, spec, status)

LEMMA SpecFacts ==
  ASSUME NEW l, NEW a, NEW item
  PROVE  /\ PlannerSpec(l, a).role = "planner" /\ PlannerSpec(l, a).leg = l
         /\ PlannerSpec(l, a).attempt = a
         /\ WorkerSpec(l, a, item).role = "worker" /\ WorkerSpec(l, a, item).leg = l
         /\ WorkerSpec(l, a, item).attempt = a /\ WorkerSpec(l, a, item).item = item.id
         /\ WorkerSpec(l, a, item).version = item.version
BY DEF PlannerSpec, WorkerSpec

(* The nodes of two items are told apart by their specs.                    *)
LEMMA SpecsDiffer ==
  ASSUME NEW leg, KeysDiffer(leg), NEW l, NEW a, NEW b, NEW j, NEW k,
         Place(leg, a, j), Place(leg, b, k),
         WorkerSpec(l, a, At(leg, a, j)) = WorkerSpec(l, b, At(leg, b, k))
  PROVE  a = b /\ j = k
<1>1. At(leg, a, j).id = At(leg, b, k).id /\ At(leg, a, j).version = At(leg, b, k).version
  BY SpecFacts
<1>2. SameKey(At(leg, a, j), At(leg, b, k))
  BY <1>1 DEF SameKey
<1> QED
  BY <1>2 DEF KeysDiffer

LEMMA SameSpec ==
  ASSUME NEW l, NEW a, NEW x, NEW y, SameKey(x, y)
  PROVE  WorkerSpec(l, a, x) = WorkerSpec(l, a, y)
BY DEF WorkerSpec, SameKey

LEMMA PlannerStands ==
  ASSUME NEW leg, NEW l, NEW a, NEW status
  PROVE  Stands(leg, l, PlannerSpec(l, a), status)
           <=> a \in DOMAIN leg.attempts /\ leg.attempts[a].plan = status
<1>1. ASSUME Stands(leg, l, PlannerSpec(l, a), status)
      PROVE  a \in DOMAIN leg.attempts /\ leg.attempts[a].plan = status
  <2>1. ASSUME NEW b, NEW k, PlannerSpec(l, a) = WorkerSpec(l, b, At(leg, b, k)) PROVE FALSE
    BY <2>1, SpecFacts
  <2>2. PICK b \in DOMAIN leg.attempts :
          PlannerSpec(l, a) = PlannerSpec(l, b) /\ leg.attempts[b].plan = status
    BY <1>1, <2>1 DEF Stands
  <2>3. a = b
    BY <2>2, SpecFacts
  <2> QED
    BY <2>2, <2>3
<1>2. ASSUME a \in DOMAIN leg.attempts, leg.attempts[a].plan = status
      PROVE  Stands(leg, l, PlannerSpec(l, a), status)
  BY <1>2 DEF Stands
<1> QED
  BY <1>1, <1>2

LEMMA WorkerStands ==
  ASSUME NEW leg, KeysDiffer(leg), NEW l, NEW a, NEW k, Place(leg, a, k), NEW status
  PROVE  Stands(leg, l, WorkerSpec(l, a, At(leg, a, k)), status) <=> At(leg, a, k).status = status
<1> DEFINE spec == WorkerSpec(l, a, At(leg, a, k))
<1>1. ASSUME Stands(leg, l, spec, status) PROVE At(leg, a, k).status = status
  <2>1. ASSUME NEW b, spec = PlannerSpec(l, b) PROVE FALSE
    BY <2>1, SpecFacts
  <2> HIDE DEF spec
  <2>2. PICK b, j : /\ Place(leg, b, j) /\ spec = WorkerSpec(l, b, At(leg, b, j))
                    /\ At(leg, b, j).status = status
    BY <1>1, <2>1 DEF Stands
  <2>3. a = b /\ k = j
    BY <2>2, SpecsDiffer DEF spec
  <2> QED
    BY <2>2, <2>3
<1>2. ASSUME At(leg, a, k).status = status PROVE Stands(leg, l, spec, status)
  BY <1>2 DEF Stands
<1> QED
  BY <1>1, <1>2

(* A spec stands for one thing.                                             *)
LEMMA StandsOnce ==
  ASSUME NEW leg, KeysDiffer(leg), NEW l, NEW spec, NEW x, NEW y,
         Stands(leg, l, spec, x), Stands(leg, l, spec, y)
  PROVE  x = y
<1>1. ASSUME NEW a \in DOMAIN leg.attempts, spec = PlannerSpec(l, a) PROVE x = y
  BY <1>1, PlannerStands
<1>2. ASSUME NEW a, NEW k, Place(leg, a, k), spec = WorkerSpec(l, a, At(leg, a, k)) PROVE x = y
  BY <1>2, WorkerStands
<1> QED
  BY <1>1, <1>2 DEF Stands

(* What blocks do to a leg: some that had not been started are blocked,     *)
(* none of them with a node that runs.                                      *)
LegShifts(leg, new, l, running) ==
  /\ \A spec : IsIn(leg, l, spec) => IsIn(new, l, spec)
  /\ \A spec, old, now : Stands(leg, l, spec, old) /\ Stands(new, l, spec, now) =>
       \/ now = old
       \/ old = "NotStarted" /\ now = "Blocked" /\ spec \notin running
  /\ \A spec, now : Stands(new, l, spec, now) /\ ~IsIn(leg, l, spec) =>
       now \in {"NotStarted", "Blocked"}

(* What a settlement does to it: what the node is for takes the verdict.    *)
Turns(leg, new, l, turned, verdict) ==
  /\ \A spec : IsIn(leg, l, spec) => IsIn(new, l, spec)
  /\ \A spec, old, now : Stands(leg, l, spec, old) /\ Stands(new, l, spec, now) =>
       now = IF spec = turned THEN verdict ELSE old
  /\ \A spec, now : Stands(new, l, spec, now) /\ ~IsIn(leg, l, spec) => now = "NotStarted"

LEMMA ShiftsOn ==
  ASSUME NEW x, NEW y, NEW z, NEW l, NEW running, LegShifts(x, y, l, running),
         LegShifts(y, z, l, running)
  PROVE  LegShifts(x, z, l, running)
<1>1. \A spec : IsIn(x, l, spec) => IsIn(z, l, spec)
  BY DEF LegShifts
<1>2. ASSUME NEW spec, NEW old, NEW now, Stands(x, l, spec, old), Stands(z, l, spec, now)
      PROVE  \/ now = old
             \/ old = "NotStarted" /\ now = "Blocked" /\ spec \notin running
  <2>1. IsIn(y, l, spec)
    BY <1>2 DEF LegShifts, IsIn
  <2>2. PICK mid : Stands(y, l, spec, mid)
    BY <2>1 DEF IsIn
  <2>3. mid = old \/ (old = "NotStarted" /\ mid = "Blocked" /\ spec \notin running)
    BY <1>2, <2>2 DEF LegShifts
  <2>4. now = mid \/ (mid = "NotStarted" /\ now = "Blocked" /\ spec \notin running)
    BY <1>2, <2>2 DEF LegShifts
  <2> QED
    BY <2>3, <2>4
<1>3. ASSUME NEW spec, NEW now, Stands(z, l, spec, now), ~IsIn(x, l, spec)
      PROVE  now \in {"NotStarted", "Blocked"}
  <2>1. CASE IsIn(y, l, spec)
    <3>1. PICK mid : Stands(y, l, spec, mid)
      BY <2>1 DEF IsIn
    <3>2. mid \in {"NotStarted", "Blocked"}
      BY <1>3, <3>1 DEF LegShifts
    <3>3. now = mid \/ now = "Blocked"
      BY <1>3, <3>1 DEF LegShifts
    <3> QED
      BY <3>2, <3>3
  <2>2. CASE ~IsIn(y, l, spec)
    BY <1>3, <2>2 DEF LegShifts
  <2> QED
    BY <2>1, <2>2
<1> QED
  BY <1>1, <1>2, <1>3 DEF LegShifts

(* A leg with the same plans and items, perhaps with one attempt more.      *)
MovesKeepItems(leg, new) ==
  /\ \A a \in DOMAIN leg.attempts :
       /\ a \in DOMAIN new.attempts
       /\ new.attempts[a].plan = leg.attempts[a].plan
       /\ new.attempts[a].items = leg.attempts[a].items
  /\ \A a \in DOMAIN new.attempts \ DOMAIN leg.attempts : new.attempts[a] = NewAttempt

LEMMA KeptShifts ==
  ASSUME NEW leg, NEW new, MovesKeepItems(leg, new), KeysDiffer(new), NEW l, NEW running
  PROVE  LegShifts(leg, new, l, running)
<1>1. NewAttempt.items = <<>> /\ NewAttempt.plan = "NotStarted" /\ DOMAIN <<>> = {}
  BY DEF NewAttempt
<1>2. ASSUME NEW spec, NEW old, Stands(leg, l, spec, old) PROVE Stands(new, l, spec, old)
  BY <1>2 DEF Stands, MovesKeepItems, Place, At
<1>3. ASSUME NEW spec, NEW now, Stands(new, l, spec, now)
      PROVE  Stands(leg, l, spec, now) \/ now = "NotStarted"
  <2>1. ASSUME NEW a \in DOMAIN new.attempts, spec = PlannerSpec(l, a),
               new.attempts[a].plan = now
        PROVE  Stands(leg, l, spec, now) \/ now = "NotStarted"
    <3>1. CASE a \in DOMAIN leg.attempts
      BY <2>1, <3>1 DEF Stands, MovesKeepItems
    <3>2. CASE a \notin DOMAIN leg.attempts
      BY <1>1, <2>1, <3>2 DEF MovesKeepItems
    <3> QED
      BY <3>1, <3>2
  <2>2. ASSUME NEW a, NEW k, Place(new, a, k), spec = WorkerSpec(l, a, At(new, a, k)),
               At(new, a, k).status = now
        PROVE  Stands(leg, l, spec, now)
    <3>1. a \in DOMAIN leg.attempts
      BY <1>1, <2>2 DEF MovesKeepItems, Place
    <3>2. Place(leg, a, k) /\ At(leg, a, k) = At(new, a, k)
      BY <2>2, <3>1 DEF MovesKeepItems, Place, At
    <3> QED
      BY <2>2, <3>2 DEF Stands
  <2> QED
    BY <1>3, <2>1, <2>2 DEF Stands
<1>4. ASSUME NEW spec, NEW old, NEW now, Stands(leg, l, spec, old), Stands(new, l, spec, now)
      PROVE  now = old
  BY <1>2, <1>4, StandsOnce
<1> QED
  BY <1>2, <1>3, <1>4 DEF LegShifts, IsIn

(* What rounds of blocks do, place by place.                                *)
BlocksOnly(leg, new, l, running) ==
  \A a, k : Place(leg, a, k) =>
    \/ At(new, a, k) = At(leg, a, k)
    \/ /\ At(leg, a, k).status = "NotStarted" /\ At(new, a, k).status = "Blocked"
       /\ WorkerSpec(l, a, At(leg, a, k)) \notin running
       /\ DependencyBlocks(leg, At(leg, a, k))

LEMMA BlockOnceAt ==
  ASSUME NEW leg \in LegType, NEW l, NEW running
  PROVE  BlocksOnly(leg, BlockOnce(leg, l, running), l, running)
<1> DEFINE items(a) == [k \in DOMAIN leg.attempts[a].items |->
                          Blocked(leg, l, leg.attempts[a].items[k], running)]
           attempt(a) == [leg.attempts[a] EXCEPT !.items = items(a)]
           attempts == [a \in DOMAIN leg.attempts |-> attempt(a)]
           new == BlockOnce(leg, l, running)
<1>1. new = [leg EXCEPT !.attempts = attempts]
  BY DEF BlockOnce
<1> SUFFICES ASSUME NEW a, NEW k, Place(leg, a, k)
             PROVE  \/ At(new, a, k) = At(leg, a, k)
                    \/ /\ At(leg, a, k).status = "NotStarted" /\ At(new, a, k).status = "Blocked"
                       /\ WorkerSpec(l, a, At(leg, a, k)) \notin running
                       /\ DependencyBlocks(leg, At(leg, a, k))
  BY DEF BlocksOnly
<1>2. a \in DOMAIN leg.attempts /\ k \in DOMAIN leg.attempts[a].items
      /\ leg.attempts[a] \in AttemptType /\ At(leg, a, k) \in ItemType
  BY LegFacts DEF Place
<1>3. attempts[a] = attempt(a)
  BY <1>2
<1>4. items(a)[k] = Blocked(leg, l, At(leg, a, k), running)
  BY <1>2 DEF At
<1> HIDE DEF items
<1>5. attempt(a).items = items(a)
  BY <1>2 DEF AttemptType
<1> HIDE DEF attempt
<1> HIDE DEF attempts, new
<1>6. new.attempts = attempts
  BY <1>1 DEF LegType
<1>7. At(new, a, k) = Blocked(leg, l, At(leg, a, k), running)
  BY <1>3, <1>4, <1>5, <1>6 DEF At
<1> DEFINE item == At(leg, a, k)
           blocks == /\ item.status = "NotStarted"
                     /\ ~WorkerRuns(running, l, item)
                     /\ DependencyBlocks(leg, item)
<1>8. CASE ~blocks
  BY <1>7, <1>8 DEF Blocked
<1>9. CASE blocks
  <2>1. At(new, a, k) = [item EXCEPT !.status = "Blocked"]
    BY <1>7, <1>9 DEF Blocked
  <2> HIDE DEF item
  <2>2. At(new, a, k).status = "Blocked"
    BY <1>2, <2>1 DEF item, ItemType
  <2>3. WorkerSpec(l, a, item) \notin running
    BY <1>9, SpecFacts DEF WorkerRuns
  <2> QED
    BY <1>9, <2>2, <2>3 DEF item
<1> QED
  BY <1>8, <1>9

LEMMA BlocksShift ==
  ASSUME NEW leg \in LegType, NEW new \in LegType, KeysDiffer(leg), KeysDiffer(new),
         LegMoves(leg, new), NEW l, NEW running, BlocksOnly(leg, new, l, running)
  PROVE  LegShifts(leg, new, l, running)
<1>1. /\ DOMAIN new.attempts = DOMAIN leg.attempts
      /\ \A a \in DOMAIN leg.attempts : new.attempts[a].plan = leg.attempts[a].plan
  BY DEF LegMoves, AttemptMoves
<1>2. \A a, k : Place(new, a, k) <=> Place(leg, a, k)
  BY DEF Place, LegMoves, AttemptMoves
<1>3. ASSUME NEW a, NEW k, Place(leg, a, k)
      PROVE  WorkerSpec(l, a, At(leg, a, k)) = WorkerSpec(l, a, At(new, a, k))
  <2>1. ItemMoves(At(leg, a, k), At(new, a, k))
    BY <1>3 DEF Place, At, LegMoves, AttemptMoves
  <2> QED
    BY <2>1, SameSpec DEF ItemMoves
<1>4. ASSUME NEW spec, NEW old, Stands(leg, l, spec, old)
      PROVE  \E now : /\ Stands(new, l, spec, now)
                      /\ \/ now = old
                         \/ old = "NotStarted" /\ now = "Blocked" /\ spec \notin running
  <2>1. ASSUME NEW a \in DOMAIN leg.attempts, spec = PlannerSpec(l, a),
               leg.attempts[a].plan = old
        PROVE  Stands(new, l, spec, old)
    BY <1>1, <2>1 DEF Stands
  <2>2. ASSUME NEW a, NEW k, Place(leg, a, k), spec = WorkerSpec(l, a, At(leg, a, k)),
               At(leg, a, k).status = old
        PROVE  \E now : /\ Stands(new, l, spec, now)
                        /\ \/ now = old
                           \/ old = "NotStarted" /\ now = "Blocked" /\ spec \notin running
    <3>1. Stands(new, l, spec, At(new, a, k).status)
      BY <1>2, <1>3, <2>2 DEF Stands
    <3>2. \/ At(new, a, k).status = old
          \/ old = "NotStarted" /\ At(new, a, k).status = "Blocked" /\ spec \notin running
      BY <2>2 DEF BlocksOnly
    <3> QED
      BY <3>1, <3>2
  <2> QED
    BY <1>4, <2>1, <2>2 DEF Stands
<1>5. ASSUME NEW spec, NEW now, Stands(new, l, spec, now) PROVE IsIn(leg, l, spec)
  <2>1. ASSUME NEW a \in DOMAIN new.attempts, spec = PlannerSpec(l, a)
        PROVE  Stands(leg, l, spec, leg.attempts[a].plan)
    BY <1>1, <2>1 DEF Stands
  <2>2. ASSUME NEW a, NEW k, Place(new, a, k), spec = WorkerSpec(l, a, At(new, a, k))
        PROVE  Stands(leg, l, spec, At(leg, a, k).status)
    <3>1. Place(leg, a, k) /\ spec = WorkerSpec(l, a, At(leg, a, k))
      BY <1>2, <1>3, <2>2
    <3> QED
      BY <3>1 DEF Stands
  <2> QED
    BY <1>5, <2>1, <2>2 DEF Stands, IsIn
<1>6. ASSUME NEW spec, NEW old, NEW now, Stands(leg, l, spec, old), Stands(new, l, spec, now)
      PROVE  \/ now = old
             \/ old = "NotStarted" /\ now = "Blocked" /\ spec \notin running
  BY <1>4, <1>6, StandsOnce
<1> QED
  BY <1>4, <1>5, <1>6 DEF LegShifts, IsIn

(* A step that keeps plans and items, but for the spec that is turned.      *)
LEMMA TurnsWhen ==
  ASSUME NEW leg, NEW new, NEW l, NEW turned, NEW verdict, KeysDiffer(new),
         \A spec, old : Stands(leg, l, spec, old) =>
           Stands(new, l, spec, IF spec = turned THEN verdict ELSE old),
         \A spec, now : Stands(new, l, spec, now) => IsIn(leg, l, spec) \/ now = "NotStarted"
  PROVE  Turns(leg, new, l, turned, verdict)
<1>1. ASSUME NEW spec, NEW old, NEW now, Stands(leg, l, spec, old), Stands(new, l, spec, now)
      PROVE  now = IF spec = turned THEN verdict ELSE old
  <2>1. Stands(new, l, spec, IF spec = turned THEN verdict ELSE old)
    BY <1>1
  <2> QED
    BY <1>1, <2>1, StandsOnce
<1> QED
  BY <1>1 DEF Turns, IsIn

(* A plan that is accepted: its planner succeeded, its items wait.          *)
LEMMA PlannedTurns ==
  ASSUME NEW leg, NEW new, KeysDiffer(new), NEW a \in DOMAIN leg.attempts,
         leg.attempts[a].items = <<>>, NEW plan, Planned(leg, a, plan, new), NEW l
  PROVE  Turns(leg, new, l, PlannerSpec(l, a), "Success")
<1> DEFINE turned == PlannerSpec(l, a)
<1>1. /\ DOMAIN new.attempts = DOMAIN leg.attempts /\ new.attempts[a].plan = "Success"
      /\ \A b \in DOMAIN leg.attempts \ {a} :
           /\ new.attempts[b].items = leg.attempts[b].items
           /\ new.attempts[b].plan = leg.attempts[b].plan
      /\ \A k \in DOMAIN new.attempts[a].items : new.attempts[a].items[k].status = "NotStarted"
  BY DEF Planned
<1>2. ASSUME NEW b, NEW k, Place(leg, b, k)
      PROVE  Place(new, b, k) /\ At(new, b, k) = At(leg, b, k)
  <2>1. DOMAIN <<>> = {}
    OBVIOUS
  <2>2. b # a
    BY <1>2, <2>1 DEF Place
  <2> QED
    BY <1>1, <1>2, <2>2 DEF Place, At
<1>3. ASSUME NEW spec, NEW old, Stands(leg, l, spec, old)
      PROVE  Stands(new, l, spec, IF spec = turned THEN "Success" ELSE old)
  <2>1. ASSUME NEW b \in DOMAIN leg.attempts, spec = PlannerSpec(l, b),
               leg.attempts[b].plan = old
        PROVE  Stands(new, l, spec, IF spec = turned THEN "Success" ELSE old)
    <3>1. CASE b = a
      BY <1>1, <2>1, <3>1 DEF Stands
    <3>2. CASE b # a
      <4>1. spec # turned
        BY <2>1, <3>2, SpecFacts
      <4>2. Stands(new, l, spec, old)
        BY <1>1, <2>1, <3>2 DEF Stands
      <4> QED
        BY <4>1, <4>2
    <3> QED
      BY <3>1, <3>2
  <2>2. ASSUME NEW b, NEW k, Place(leg, b, k), spec = WorkerSpec(l, b, At(leg, b, k)),
               At(leg, b, k).status = old
        PROVE  Stands(new, l, spec, IF spec = turned THEN "Success" ELSE old)
    <3>1. spec # turned
      BY <2>2, SpecFacts
    <3>2. Stands(new, l, spec, old)
      BY <1>2, <2>2 DEF Stands
    <3> QED
      BY <3>1, <3>2
  <2> QED
    BY <1>3, <2>1, <2>2 DEF Stands
<1>4. ASSUME NEW spec, NEW now, Stands(new, l, spec, now)
      PROVE  IsIn(leg, l, spec) \/ now = "NotStarted"
  <2>1. ASSUME NEW b \in DOMAIN new.attempts, spec = PlannerSpec(l, b)
        PROVE  Stands(leg, l, spec, leg.attempts[b].plan)
    BY <1>1, <2>1 DEF Stands
  <2>2. ASSUME NEW b, NEW k, Place(new, b, k), spec = WorkerSpec(l, b, At(new, b, k)),
               At(new, b, k).status = now
        PROVE  IsIn(leg, l, spec) \/ now = "NotStarted"
    <3>1. CASE b = a
      BY <1>1, <2>2, <3>1 DEF Place, At
    <3>2. CASE b # a
      <4>1. Place(leg, b, k) /\ At(leg, b, k) = At(new, b, k)
        BY <1>1, <2>2, <3>2 DEF Place, At
      <4>2. Stands(leg, l, spec, now)
        BY <2>2, <4>1 DEF Stands
      <4> QED
        BY <4>2 DEF IsIn
    <3> QED
      BY <3>1, <3>2
  <2> QED
    BY <1>4, <2>1, <2>2 DEF Stands, IsIn
<1> QED
  BY <1>3, <1>4, TurnsWhen

LEMMA PlanFailedTurns ==
  ASSUME NEW leg, NEW new, KeysDiffer(new), NEW a \in DOMAIN leg.attempts,
         PlanFailed(leg, a, new), NEW l
  PROVE  Turns(leg, new, l, PlannerSpec(l, a), "Failed")
<1> DEFINE turned == PlannerSpec(l, a)
<1>1. /\ DOMAIN new.attempts = DOMAIN leg.attempts /\ new.attempts[a].plan = "Failed"
      /\ \A b \in DOMAIN leg.attempts :
           /\ new.attempts[b].items = leg.attempts[b].items
           /\ b # a => new.attempts[b].plan = leg.attempts[b].plan
  BY DEF PlanFailed
<1>2. \A b, k : /\ Place(new, b, k) <=> Place(leg, b, k)
                /\ Place(leg, b, k) => At(new, b, k) = At(leg, b, k)
  BY <1>1 DEF Place, At
<1>3. ASSUME NEW spec, NEW old, Stands(leg, l, spec, old)
      PROVE  Stands(new, l, spec, IF spec = turned THEN "Failed" ELSE old)
  <2>1. ASSUME NEW b \in DOMAIN leg.attempts, spec = PlannerSpec(l, b),
               leg.attempts[b].plan = old
        PROVE  Stands(new, l, spec, IF spec = turned THEN "Failed" ELSE old)
    <3>1. CASE b = a
      BY <1>1, <2>1, <3>1 DEF Stands
    <3>2. CASE b # a
      <4>1. spec # turned
        BY <2>1, <3>2, SpecFacts
      <4>2. Stands(new, l, spec, old)
        BY <1>1, <2>1, <3>2 DEF Stands
      <4> QED
        BY <4>1, <4>2
    <3> QED
      BY <3>1, <3>2
  <2>2. ASSUME NEW b, NEW k, Place(leg, b, k), spec = WorkerSpec(l, b, At(leg, b, k)),
               At(leg, b, k).status = old
        PROVE  Stands(new, l, spec, IF spec = turned THEN "Failed" ELSE old)
    <3>1. spec # turned
      BY <2>2, SpecFacts
    <3>2. Stands(new, l, spec, old)
      BY <1>2, <2>2 DEF Stands
    <3> QED
      BY <3>1, <3>2
  <2> QED
    BY <1>3, <2>1, <2>2 DEF Stands
<1>4. ASSUME NEW spec, NEW now, Stands(new, l, spec, now) PROVE IsIn(leg, l, spec)
  <2>1. ASSUME NEW b \in DOMAIN new.attempts, spec = PlannerSpec(l, b)
        PROVE  Stands(leg, l, spec, leg.attempts[b].plan)
    BY <1>1, <2>1 DEF Stands
  <2>2. ASSUME NEW b, NEW k, Place(new, b, k), spec = WorkerSpec(l, b, At(new, b, k))
        PROVE  Stands(leg, l, spec, At(leg, b, k).status)
    BY <1>2, <2>2 DEF Stands
  <2> QED
    BY <1>4, <2>1, <2>2 DEF Stands, IsIn
<1> QED
  BY <1>3, <1>4, TurnsWhen

LEMMA WorkedTurns ==
  ASSUME NEW leg, NEW new, KeysDiffer(leg), KeysDiffer(new), NEW a, NEW m, Place(leg, a, m),
         NEW verdict, Worked(leg, a, m, verdict, new), NEW l
  PROVE  Turns(leg, new, l, WorkerSpec(l, a, At(leg, a, m)), verdict)
<1> DEFINE turned == WorkerSpec(l, a, At(leg, a, m))
<1>1. LegMoves(leg, new) /\ At(new, a, m).status = verdict
  BY DEF Worked
<1>2. /\ DOMAIN new.attempts = DOMAIN leg.attempts
      /\ \A b \in DOMAIN leg.attempts : new.attempts[b].plan = leg.attempts[b].plan
      /\ \A b, k : Place(new, b, k) <=> Place(leg, b, k)
  BY <1>1 DEF Place, LegMoves, AttemptMoves
<1>3. ASSUME NEW b, NEW k, Place(leg, b, k)
      PROVE  WorkerSpec(l, b, At(leg, b, k)) = WorkerSpec(l, b, At(new, b, k))
  <2>1. ItemMoves(At(leg, b, k), At(new, b, k))
    BY <1>1, <1>3 DEF Place, At, LegMoves, AttemptMoves
  <2> QED
    BY <2>1, SameSpec DEF ItemMoves
<1>4. ASSUME NEW spec, NEW old, Stands(leg, l, spec, old)
      PROVE  Stands(new, l, spec, IF spec = turned THEN verdict ELSE old)
  <2>1. ASSUME NEW b \in DOMAIN leg.attempts, spec = PlannerSpec(l, b),
               leg.attempts[b].plan = old
        PROVE  Stands(new, l, spec, IF spec = turned THEN verdict ELSE old)
    <3>1. spec # turned
      BY <2>1, SpecFacts
    <3>2. Stands(new, l, spec, old)
      BY <1>2, <2>1 DEF Stands
    <3> QED
      BY <3>1, <3>2
  <2>2. ASSUME NEW b, NEW k, Place(leg, b, k), spec = WorkerSpec(l, b, At(leg, b, k)),
               At(leg, b, k).status = old
        PROVE  Stands(new, l, spec, IF spec = turned THEN verdict ELSE old)
    <3>1. Stands(new, l, spec, At(new, b, k).status)
      BY <1>2, <1>3, <2>2 DEF Stands
    <3>2. CASE b = a /\ k = m
      BY <1>1, <2>2, <3>1, <3>2
    <3>3. CASE ~(b = a /\ k = m)
      <4>1. spec # turned
        BY <2>2, <3>3, SpecsDiffer
      <4>2. At(new, b, k) = At(leg, b, k)
        BY <2>2, <3>3 DEF Worked
      <4> QED
        BY <2>2, <3>1, <4>1, <4>2
    <3> QED
      BY <3>2, <3>3
  <2> QED
    BY <1>4, <2>1, <2>2 DEF Stands
<1>5. ASSUME NEW spec, NEW now, Stands(new, l, spec, now) PROVE IsIn(leg, l, spec)
  <2>1. ASSUME NEW b \in DOMAIN new.attempts, spec = PlannerSpec(l, b)
        PROVE  Stands(leg, l, spec, leg.attempts[b].plan)
    BY <1>2, <2>1 DEF Stands
  <2>2. ASSUME NEW b, NEW k, Place(new, b, k), spec = WorkerSpec(l, b, At(new, b, k))
        PROVE  Stands(leg, l, spec, At(leg, b, k).status)
    <3>1. Place(leg, b, k) /\ spec = WorkerSpec(l, b, At(leg, b, k))
      BY <1>2, <1>3, <2>2
    <3> QED
      BY <3>1 DEF Stands
  <2> QED
    BY <1>5, <2>1, <2>2 DEF Stands, IsIn
<1> QED
  BY <1>4, <1>5, TurnsWhen

(* How a settlement ends what its node is for.                              *)
EndVerdict(spec, settlement) ==
  IF settlement.status = "completed" /\ (spec.role = "planner" \/ settlement.payload.pass)
  THEN "Success" ELSE "Failed"

LEMMA SettledTurns ==
  ASSUME NEW leg, LegOK(leg), NEW new, LegOK(new), NEW spec,
         spec.attempt \in DOMAIN leg.attempts, IsIn(leg, spec.leg, spec), NEW settlement,
         SettledAs(leg, spec, settlement, new)
  PROVE  Turns(leg, new, spec.leg, spec, EndVerdict(spec, settlement))
<1> DEFINE l == spec.leg
           a == spec.attempt
<1>1. KeysDiffer(leg) /\ KeysDiffer(new)
  BY DEF LegOK, GraphOK
<1>2. \/ \E b : spec = PlannerSpec(l, b)
      \/ \E b, k : Place(leg, b, k) /\ spec = WorkerSpec(l, b, At(leg, b, k))
  BY DEF IsIn, Stands
<1>3. ASSUME spec.role = "planner" PROVE spec = PlannerSpec(l, a)
  <2>1. PICK b : spec = PlannerSpec(l, b)
    BY <1>2, <1>3, SpecFacts
  <2> QED
    BY <2>1, SpecFacts
<1>4. CASE /\ spec.role = "planner" /\ settlement.status = "completed"
           /\ leg.attempts[a].plan = "NotStarted"
           /\ Planned(leg, a, settlement.payload, new)
  <2>1. leg.attempts[a].items = <<>>
    BY <1>4 DEF LegOK, ShapeOK, AttemptOK
  <2>2. Turns(leg, new, l, PlannerSpec(l, a), "Success")
    BY <1>1, <1>4, <2>1, PlannedTurns
  <2> QED
    BY <1>3, <1>4, <2>2 DEF EndVerdict
<1>5. CASE /\ spec.role = "planner" /\ settlement.status # "completed"
           /\ PlanFailed(leg, a, new)
  <2>1. Turns(leg, new, l, PlannerSpec(l, a), "Failed")
    BY <1>1, <1>5, PlanFailedTurns
  <2> QED
    BY <1>3, <1>5, <2>1 DEF EndVerdict
<1>6. ASSUME spec.role = "worker",
             NEW m, Place(leg, a, m), At(leg, a, m).id = spec.item,
             At(leg, a, m).version = spec.version,
             Worked(leg, a, m, VerdictOf(settlement), new)
      PROVE  Turns(leg, new, l, spec, EndVerdict(spec, settlement))
  <2>1. PICK b, k : Place(leg, b, k) /\ spec = WorkerSpec(l, b, At(leg, b, k))
    BY <1>2, <1>6, SpecFacts
  <2>2. b = a /\ SameKey(At(leg, b, k), At(leg, a, m))
    BY <1>6, <2>1, SpecFacts DEF SameKey
  <2>3. k = m
    BY <1>1, <1>6, <2>1, <2>2 DEF KeysDiffer
  <2>4. Turns(leg, new, l, WorkerSpec(l, a, At(leg, a, m)), VerdictOf(settlement))
    BY <1>1, <1>6, WorkedTurns
  <2>5. spec.role # "planner"
    BY <1>6
  <2> QED
    BY <2>1, <2>2, <2>3, <2>4, <2>5 DEF EndVerdict, VerdictOf
<1> QED
  BY <1>4, <1>5, <1>6 DEF SettledAs

LEMMA PropagatedShifts ==
  ASSUME NEW leg, LegOK(leg), NEW l, NEW running, NEW new,
         new = PropagatedBlocks(leg, l, running)
  PROVE  LegOK(new) /\ Grows(leg, new) /\ LegMoves(leg, new) /\ LegShifts(leg, new, l, running)
<1> DEFINE U == {x \in LegType : LegOK(x) /\ LegMoves(leg, x) /\ LegShifts(leg, x, l, running)}
<1>0. leg \in LegType /\ KeysDiffer(leg)
  BY DEF LegOK, GraphOK
<1>1. leg \in U
  <2>1. BlocksOnly(leg, leg, l, running)
    BY DEF BlocksOnly
  <2>2. LegMoves(leg, leg)
    BY LegMovesItself
  <2>3. LegShifts(leg, leg, l, running)
    BY <1>0, <2>1, <2>2, BlocksShift
  <2> QED
    BY <1>0, <2>2, <2>3
<1>2. ASSUME NEW x \in U PROVE BlockOnce(x, l, running) \in U
  <2> DEFINE y == BlockOnce(x, l, running)
  <2>1. y \in LegType /\ LegMoves(x, y) /\ BlocksOnly(x, y, l, running)
    BY BlockOnceMoves, BlockOnceAt
  <2> HIDE DEF y
  <2>2. LegOK(y)
    BY <2>1, LegMovesOK
  <2>3. LegMoves(leg, y)
    BY <2>1, LegMovesOn
  <2>4. LegShifts(x, y, l, running)
    BY <2>1, <2>2, BlocksShift DEF LegOK, GraphOK
  <2>5. LegShifts(leg, y, l, running)
    BY <2>4, ShiftsOn
  <2> QED
    BY <2>1, <2>2, <2>3, <2>5 DEF y
<1>3. Len(AllItems(leg)) \in Nat
  BY <1>0, AllItemsType
<1> HIDE DEF U
<1>4. new \in U
  BY <1>1, <1>2, <1>3, BlocksKeep
<1>5. /\ new \in LegType /\ LegOK(new) /\ LegMoves(leg, new) /\ LegShifts(leg, new, l, running)
  BY <1>4 DEF U
<1> QED
  BY <1>5, LegMovesOK

(* A leg whose last attempt is judged, perhaps with one attempt more.       *)
Judges(leg, new, verdict, status, more) ==
  LET a == Len(leg.attempts) IN
  /\ new \in LegType /\ new.next = leg.next /\ new.status = status
  /\ Len(new.attempts) = IF more THEN a + 1 ELSE a
  /\ \A b \in 1..a :
       /\ new.attempts[b].items = leg.attempts[b].items
       /\ new.attempts[b].plan = leg.attempts[b].plan
       /\ b # a => new.attempts[b].status = leg.attempts[b].status
  /\ new.attempts[a].status = verdict
  /\ more => new.attempts[a + 1] = NewAttempt

LEMMA JudgesShifts ==
  ASSUME NEW leg \in LegType, KeysDiffer(leg), NEW new, NEW verdict, NEW status,
         NEW more \in BOOLEAN, Judges(leg, new, verdict, status, more), NEW l, NEW running
  PROVE  LegShifts(leg, new, l, running)
<1> DEFINE a == Len(leg.attempts)
<1>1. /\ DOMAIN leg.attempts = 1..a /\ a \in Nat
      /\ new \in LegType /\ DOMAIN new.attempts = 1..Len(new.attempts)
  BY LegFacts DEF Judges
<1>2. MovesKeepItems(leg, new)
  <2>1. \A b \in 1..a : /\ new.attempts[b].items = leg.attempts[b].items
                        /\ new.attempts[b].plan = leg.attempts[b].plan
    BY DEF Judges
  <2>2. CASE more
    <3>1. Len(new.attempts) = a + 1 /\ new.attempts[a + 1] = NewAttempt
      BY <2>2 DEF Judges
    <3>2. DOMAIN new.attempts = 1..a + 1 /\ 1..a \subseteq 1..a + 1
          /\ \A b \in (1..a + 1) \ (1..a) : b = a + 1
      BY <1>1, <3>1
    <3> HIDE DEF a
    <3> QED
      BY <1>1, <2>1, <3>1, <3>2 DEF MovesKeepItems
  <2>3. CASE ~more
    <3>1. Len(new.attempts) = a
      BY <2>3 DEF Judges
    <3> QED
      BY <1>1, <2>1, <3>1 DEF MovesKeepItems
  <2> QED
    BY <2>2, <2>3
<1>3. KeysDiffer(new)
  <2>1. NewAttempt.items = <<>> /\ DOMAIN <<>> = {}
    BY DEF NewAttempt
  <2>2. ASSUME NEW b, NEW k, Place(new, b, k)
        PROVE  Place(leg, b, k) /\ At(new, b, k) = At(leg, b, k)
    <3>1. b \in DOMAIN leg.attempts
      BY <1>2, <2>1, <2>2 DEF MovesKeepItems, Place
    <3> QED
      BY <1>2, <2>2, <3>1 DEF MovesKeepItems, Place, At
  <2> SUFFICES ASSUME NEW b, NEW c, NEW j, NEW k, Place(new, b, j), Place(new, c, k),
                      SameKey(At(new, b, j), At(new, c, k))
               PROVE  b = c /\ j = k
    BY DEF KeysDiffer
  <2> QED
    BY <2>2 DEF KeysDiffer
<1> QED
  BY <1>2, <1>3, KeptShifts

LEMMA JudgedIs ==
  ASSUME NEW leg \in LegType, Len(leg.attempts) >= 1, NEW verdict \in {"Success", "Failed"}
  PROVE  Judges(leg, JudgedLeg(leg, verdict), verdict, leg.status, FALSE)
<1> DEFINE a == Len(leg.attempts)
           x == leg.attempts[a]
           y == [x EXCEPT !.status = verdict]
           attempts == [leg.attempts EXCEPT ![a] = y]
           new == JudgedLeg(leg, verdict)
<1>1. /\ leg.attempts \in Seq(AttemptType) /\ DOMAIN leg.attempts = 1..a /\ a \in Nat
      /\ a \in 1..a
  BY LegFacts
<1>2. x \in AttemptType
  BY <1>1
<1>3. y = [status |-> verdict, consistent |-> x.consistent, plan |-> x.plan, items |-> x.items]
  BY <1>2 DEF AttemptType
<1>4. new = [leg EXCEPT !.attempts = attempts]
  BY DEF JudgedLeg
<1> HIDE DEF y
<1>5. /\ y \in AttemptType /\ y.items = x.items /\ y.status = verdict /\ y.plan = x.plan
  BY <1>2, <1>3 DEF AttemptType, EntityTerminal
<1> HIDE DEF x
<1>6. /\ attempts \in Seq(AttemptType) /\ Len(attempts) = a
      /\ \A b \in 1..a : attempts[b] = IF b = a THEN y ELSE leg.attempts[b]
  BY <1>1, <1>5
<1> HIDE DEF attempts, new
<1>7. /\ new \in LegType /\ new.attempts = attempts /\ new.status = leg.status
      /\ new.next = leg.next
  BY <1>4, <1>6, LegWith
<1> QED
  BY <1>1, <1>5, <1>6, <1>7 DEF Judges, new, x

LEMMA JudgedEnds ==
  ASSUME NEW leg, NEW judged, NEW verdict, NEW old, NEW status \in {"Success", "Failed"},
         Judges(leg, judged, verdict, old, FALSE), NEW new,
         new = [judged EXCEPT !.status = status]
  PROVE  Judges(leg, new, verdict, status, FALSE)
<1>1. judged \in LegType
  BY DEF Judges
<1>2. new = [status |-> status, version |-> judged.version, next |-> judged.next,
             attempts |-> judged.attempts]
  BY <1>1 DEF LegType
<1>3. /\ new \in LegType /\ new.status = status /\ new.next = judged.next
      /\ new.attempts = judged.attempts
  BY <1>1, <1>2 DEF LegType, EntityTerminal
<1> QED
  BY <1>3 DEF Judges

LEMMA JudgedRetries ==
  ASSUME NEW leg \in LegType, Len(leg.attempts) >= 1, NEW judged, NEW verdict, NEW status,
         Judges(leg, judged, verdict, status, FALSE), NEW new,
         new = [judged EXCEPT !.attempts = Append(@, NewAttempt)]
  PROVE  Judges(leg, new, verdict, status, TRUE)
<1> DEFINE a == Len(leg.attempts)
           attempts == Append(judged.attempts, NewAttempt)
<1>1. /\ judged \in LegType /\ judged.attempts \in Seq(AttemptType)
      /\ Len(judged.attempts) = a /\ a \in Nat /\ a \in 1..a
  BY LegFacts DEF Judges
<1>2. new = [judged EXCEPT !.attempts = attempts]
  OBVIOUS
<1>3. /\ attempts \in Seq(AttemptType) /\ Len(attempts) = a + 1
      /\ \A b \in 1..a : attempts[b] = judged.attempts[b]
      /\ attempts[a + 1] = NewAttempt
  <2>1. NewAttempt \in AttemptType
    BY ONLY NewAttemptOK
  <2> HIDE DEF a
  <2> QED
    BY ONLY <1>1, <2>1
<1> HIDE DEF attempts
<1>4. /\ new \in LegType /\ new.attempts = attempts /\ new.status = judged.status
      /\ new.next = judged.next
  <2>1. /\ judged \in LegType /\ attempts \in Seq(AttemptType)
        /\ new = [judged EXCEPT !.attempts = attempts]
    BY <1>1, <1>2, <1>3
  <2> QED
    BY ONLY <2>1 DEF LegType
<1>5. /\ new.next = leg.next /\ new.status = status
      /\ \A b \in 1..a : /\ judged.attempts[b].items = leg.attempts[b].items
                         /\ judged.attempts[b].plan = leg.attempts[b].plan
                         /\ b # a => judged.attempts[b].status = leg.attempts[b].status
      /\ judged.attempts[a].status = verdict
  BY <1>4 DEF Judges
<1>6. /\ \A b \in 1..a : /\ new.attempts[b].items = leg.attempts[b].items
                         /\ new.attempts[b].plan = leg.attempts[b].plan
                         /\ b # a => new.attempts[b].status = leg.attempts[b].status
      /\ new.attempts[a].status = verdict
  BY <1>1, <1>3, <1>4, <1>5
<1> HIDE DEF a
<1>7. Len(new.attempts) = a + 1 /\ new.attempts[a + 1] = NewAttempt
  BY <1>3, <1>4
<1> QED
  BY <1>4, <1>5, <1>6, <1>7 DEF Judges, a

(* What reconciling a state makes of it, by the verdict on the last attempt.*)
WithLast(state, y) == [state.legs EXCEPT ![Len(state.legs)] = y]
Concludes(state, leg, verdict, new) ==
  LET l == Len(state.legs) IN
  \/ verdict = "Running" /\ new.legs = WithLast(state, leg) /\ ~new.done
  \/ /\ verdict = "Failed" /\ AttemptsLeft(leg) /\ ~new.done
     /\ \E y : /\ Judges(leg, y, verdict, leg.status, TRUE)
               /\ new.legs = WithLast(state, y)
  \/ /\ verdict = "Failed" /\ ~AttemptsLeft(leg) /\ new.done /\ new.status = "failure"
     /\ \E y : /\ Judges(leg, y, verdict, verdict, FALSE)
               /\ new.legs = WithLast(state, y)
  \/ /\ verdict = "Success" /\ HasNextLeg(state, leg, l) /\ ~new.done
     /\ \E y : /\ Judges(leg, y, verdict, verdict, FALSE)
               /\ new.legs = Append(WithLast(state, y), NewLeg)
  \/ /\ verdict = "Success" /\ ~HasNextLeg(state, leg, l)
     /\ new.done /\ new.status = "success"
     /\ \E y : /\ Judges(leg, y, verdict, verdict, FALSE)
               /\ new.legs = WithLast(state, y)

LEMMA LastLegFacts ==
  ASSUME NEW state, NEW y
  PROVE  /\ LastLegOf(state, y).done = state.done
         /\ LastLegOf(state, y).goals = state.goals
         /\ LastLegOf(state, y).legs = WithLast(state, y)
BY DEF LastLegOf, WithLast

EndsWith(state, y, status) ==
  [LastLegOf(state, y) EXCEPT !.done = TRUE, !.status = status]
GoesOn(state, y) == [LastLegOf(state, y) EXCEPT !.legs = Append(@, NewLeg)]

LEMMA EndsWithIs ==
  ASSUME NEW state, NEW y, NEW status
  PROVE  /\ EndsWith(state, y, status).done
         /\ EndsWith(state, y, status).status = status
         /\ EndsWith(state, y, status).goals = state.goals
         /\ EndsWith(state, y, status).legs = WithLast(state, y)
BY DEF LastLegOf, WithLast, EndsWith

LEMMA GoesOnIs ==
  ASSUME NEW state, NEW y
  PROVE  /\ GoesOn(state, y).done = state.done /\ GoesOn(state, y).goals = state.goals
         /\ GoesOn(state, y).legs = Append(WithLast(state, y), NewLeg)
BY DEF LastLegOf, WithLast, GoesOn

LEMMA ReconciledIs ==
  ASSUME NEW state \in PursuitStates, ~state.done, NEW running, NEW l, l = Len(state.legs),
         Open(state.legs[l]), NEW leg, leg = PropagatedBlocks(state.legs[l], l, running),
         NEW verdict, verdict = AttemptVerdict(leg.attempts[Len(leg.attempts)], l, running),
         NEW new, new = Reconciled(state, running)
  PROVE  new.goals = state.goals /\ Concludes(state, leg, verdict, new)
<1> DEFINE old == state.legs[l]
           a == Len(leg.attempts)
           judged == JudgedLeg(leg, verdict)
           again == [judged EXCEPT !.attempts = Append(@, NewAttempt)]
           lost == [judged EXCEPT !.status = "Failed"]
           won == [judged EXCEPT !.status = "Success"]
           With(y) == [state EXCEPT !.legs[l] = y]
<1>1. LegOK(old) /\ old \in LegType /\ Len(old.attempts) \in DOMAIN old.attempts
  <2>1. LegOK(old)
    BY StateFacts DEF LegsOK
  <2>2. old \in LegType /\ Len(old.attempts) \in 1..MaxAttempts
    BY <2>1 DEF LegOK, ShapeOK
  <2> HIDE DEF old
  <2>3. DOMAIN old.attempts = 1..Len(old.attempts)
    BY <2>2, LegFacts
  <2> QED
    BY <2>1, <2>2, <2>3, AttemptsAssumption
<1> HIDE DEF old
<1>2. LegOK(leg) /\ LegMoves(old, leg)
  BY <1>1, PropagatedShifts DEF old
<1>3. leg \in LegType /\ Len(leg.attempts) \in 1..MaxAttempts
  BY <1>2 DEF LegOK, ShapeOK
<1>4. Open(leg) /\ a >= 1 /\ a \in DOMAIN leg.attempts
  <2>1. Open(leg) /\ Len(leg.attempts) = Len(old.attempts)
    BY <1>1, <1>2, <1>3, OpenMoves DEF old
  <2> QED
    BY <1>3, <2>1, LegFacts, AttemptsAssumption
<1>5. verdict \in {"Running", "Failed", "Success"}
  <2>1. leg.attempts[a] \in AttemptType /\ AttemptOK(leg.attempts[a])
    BY <1>2, <1>3, <1>4, LegFacts DEF LegOK, ShapeOK
  <2> QED
    BY <2>1, VerdictIsDue
<1>6. new = CASE verdict = "Running" -> With(leg)
              [] verdict = "Failed" /\ AttemptsLeft(leg) -> With(again)
              [] verdict = "Failed" /\ ~AttemptsLeft(leg) ->
                   [With(lost) EXCEPT !.done = TRUE, !.status = "failure"]
              [] verdict = "Success" /\ HasNextLeg(state, leg, l) ->
                   [With(won) EXCEPT !.legs = Append(@, NewLeg)]
              [] verdict = "Success" /\ ~HasNextLeg(state, leg, l) ->
                   [With(won) EXCEPT !.done = TRUE, !.status = "success"]
  <2> DEFINE made == IF old.status = "Running" THEN PropagatedBlocks(old, l, running) ELSE old
             b == Len(made.attempts)
             given == IF made.status # "Running" \/ made.attempts[b].status \in EntityTerminal
                      THEN "Running" ELSE AttemptVerdict(made.attempts[b], l, running)
             judged2 == JudgedLeg(made, given)
  <2>1. new = CASE given = "Running" -> With(made)
              [] given = "Failed" /\ AttemptsLeft(made) ->
                   With([judged2 EXCEPT !.attempts = Append(@, NewAttempt)])
              [] given = "Failed" /\ ~AttemptsLeft(made) ->
                   [With([judged2 EXCEPT !.status = "Failed"])
                      EXCEPT !.done = TRUE, !.status = "failure"]
              [] given = "Success" /\ HasNextLeg(state, made, l) ->
                   [With([judged2 EXCEPT !.status = "Success"]) EXCEPT !.legs = Append(@, NewLeg)]
              [] given = "Success" /\ ~HasNextLeg(state, made, l) ->
                   [With([judged2 EXCEPT !.status = "Success"])
                      EXCEPT !.done = TRUE, !.status = "success"]
    BY DEF Reconciled, JudgedLeg, old
  <2>2. made = leg
    BY DEF Open, old
  <2> HIDE DEF made, With
  <2>3. given = verdict
    BY <1>4, <2>2 DEF Open, EntityTerminal
  <2> HIDE DEF given
  <2> QED
    BY <2>1, <2>2, <2>3
<1>7. \A y : With(y) = LastLegOf(state, y)
  BY LastLegIs
<1> HIDE DEF With
<1>8. CASE verdict = "Running"
  <2>1. new = LastLegOf(state, leg)
    BY <1>6, <1>7, <1>8
  <2> QED
    BY <1>8, <2>1, LastLegFacts DEF Concludes
<1>9. CASE verdict # "Running"
  <2>1. verdict \in {"Failed", "Success"}
    BY <1>5, <1>9
  <2>2. Judges(leg, judged, verdict, leg.status, FALSE)
    BY <1>3, <1>4, <2>1, JudgedIs
  <2> HIDE DEF judged
  <2>3. CASE verdict = "Failed" /\ AttemptsLeft(leg)
    <3>1. Judges(leg, again, verdict, leg.status, TRUE)
      BY <1>3, <1>4, <2>2, JudgedRetries
    <3> HIDE DEF again
    <3>2. new = LastLegOf(state, again)
      BY <1>6, <1>7, <2>3
    <3>3. new.goals = state.goals /\ ~new.done /\ new.legs = WithLast(state, again)
      BY <3>2, LastLegFacts
    <3> QED
      BY <2>3, <3>1, <3>3 DEF Concludes
  <2>4. CASE verdict = "Failed" /\ ~AttemptsLeft(leg)
    <3>1. Judges(leg, lost, verdict, verdict, FALSE)
      BY <2>2, <2>4, JudgedEnds
    <3> HIDE DEF lost
    <3>2. new = EndsWith(state, lost, "failure")
      BY <1>6, <1>7, <2>4 DEF EndsWith
    <3>3. /\ new.goals = state.goals /\ new.done /\ new.status = "failure"
          /\ new.legs = WithLast(state, lost)
      BY <3>2, EndsWithIs
    <3> QED
      BY <2>4, <3>1, <3>3 DEF Concludes
  <2>5. CASE verdict = "Success"
    <3>1. Judges(leg, won, verdict, verdict, FALSE)
      BY <2>2, <2>5, JudgedEnds
    <3> HIDE DEF won
    <3>2. CASE HasNextLeg(state, leg, l)
      <4>1. new = GoesOn(state, won)
        BY <1>6, <1>7, <2>5, <3>2 DEF GoesOn
      <4>2. /\ new.goals = state.goals /\ ~new.done
            /\ new.legs = Append(WithLast(state, won), NewLeg)
        BY <4>1, GoesOnIs
      <4> QED
        BY <2>5, <3>1, <3>2, <4>2 DEF Concludes
    <3>3. CASE ~HasNextLeg(state, leg, l)
      <4>1. new = EndsWith(state, won, "success")
        BY <1>6, <1>7, <2>5, <3>3 DEF EndsWith
      <4>2. /\ new.goals = state.goals /\ new.done /\ new.status = "success"
            /\ new.legs = WithLast(state, won)
        BY <4>1, EndsWithIs
      <4> QED
        BY <2>5, <3>1, <3>3, <4>2 DEF Concludes
    <3> QED
      BY <3>2, <3>3
  <2> QED
    BY <2>1, <2>3, <2>4, <2>5
<1> QED
  BY <1>8, <1>9

-----------------------------------------------------------------------------
(* The legs of a state together.                                            *)
StandsAs(legs, spec, status) ==
  spec.leg \in DOMAIN legs /\ Stands(legs[spec.leg], spec.leg, spec, status)
Known(legs, spec) == \E status : StandsAs(legs, spec, status)

Settling(old, now, spec, turned, verdict, running) ==
  IF spec = turned THEN now = verdict
  ELSE now = old \/ (old = "NotStarted" /\ now = "Blocked" /\ spec \notin running)
LegAdvances(leg, new, l, turned, verdict, running) ==
  /\ \A spec : IsIn(leg, l, spec) => IsIn(new, l, spec)
  /\ \A spec, old, now : Stands(leg, l, spec, old) /\ Stands(new, l, spec, now) =>
       Settling(old, now, spec, turned, verdict, running)
  /\ \A spec, now : Stands(new, l, spec, now) /\ ~IsIn(leg, l, spec) =>
       now \in {"NotStarted", "Blocked"}
Advances(legs, new, turned, verdict, running) ==
  /\ \A spec : Known(legs, spec) => Known(new, spec)
  /\ \A spec, old, now : StandsAs(legs, spec, old) /\ StandsAs(new, spec, now) =>
       Settling(old, now, spec, turned, verdict, running)
  /\ \A spec, now : StandsAs(new, spec, now) /\ ~Known(legs, spec) =>
       now \in {"NotStarted", "Blocked"}

(* Only the last leg is another, and there may be one more.                 *)
LastDiffers(legs, new) ==
  LET l == Len(legs) IN
  /\ DOMAIN legs \subseteq DOMAIN new /\ DOMAIN new \subseteq DOMAIN legs \cup {l + 1}
  /\ \A k \in DOMAIN legs \ {l} : new[k] = legs[k]
  /\ l + 1 \in DOMAIN new => new[l + 1] = NewLeg

LEMMA TurnsThenShifts ==
  ASSUME NEW x, NEW y, NEW z, NEW l, NEW turned, NEW verdict \in {"Success", "Failed"},
         NEW running, Turns(x, y, l, turned, verdict), LegShifts(y, z, l, running)
  PROVE  LegAdvances(x, z, l, turned, verdict, running)
<1>1. \A spec : IsIn(x, l, spec) => IsIn(z, l, spec)
  BY DEF Turns, LegShifts
<1>2. ASSUME NEW spec, NEW old, NEW now, Stands(x, l, spec, old), Stands(z, l, spec, now)
      PROVE  Settling(old, now, spec, turned, verdict, running)
  <2>1. IsIn(y, l, spec)
    BY <1>2 DEF Turns, IsIn
  <2>2. PICK mid : Stands(y, l, spec, mid)
    BY <2>1 DEF IsIn
  <2>3. mid = IF spec = turned THEN verdict ELSE old
    BY <1>2, <2>2 DEF Turns
  <2>4. now = mid \/ (mid = "NotStarted" /\ now = "Blocked" /\ spec \notin running)
    BY <1>2, <2>2 DEF LegShifts
  <2>5. CASE spec = turned
    <3>1. mid = verdict /\ mid # "NotStarted"
      BY <2>3, <2>5
    <3> QED
      BY <2>4, <2>5, <3>1 DEF Settling
  <2>6. CASE spec # turned
    BY <2>3, <2>4, <2>6 DEF Settling
  <2> QED
    BY <2>5, <2>6
<1>3. ASSUME NEW spec, NEW now, Stands(z, l, spec, now), ~IsIn(x, l, spec)
      PROVE  now \in {"NotStarted", "Blocked"}
  <2>1. CASE IsIn(y, l, spec)
    <3>1. PICK mid : Stands(y, l, spec, mid)
      BY <2>1 DEF IsIn
    <3>2. mid = "NotStarted"
      BY <1>3, <3>1 DEF Turns
    <3>3. now = mid \/ now = "Blocked"
      BY <1>3, <3>1 DEF LegShifts
    <3> QED
      BY <3>2, <3>3
  <2>2. CASE ~IsIn(y, l, spec)
    BY <1>3, <2>2 DEF LegShifts
  <2> QED
    BY <2>1, <2>2
<1> QED
  BY <1>1, <1>2, <1>3 DEF LegAdvances

LEMMA StandsAsOnce ==
  ASSUME NEW state \in PursuitStates, NEW spec, NEW x, NEW y,
         StandsAs(state.legs, spec, x), StandsAs(state.legs, spec, y)
  PROVE  x = y
<1> DEFINE leg == state.legs[spec.leg]
<1>1. KeysDiffer(leg)
  BY StateFacts DEF StandsAs, LegsOK, LegOK, GraphOK
<1>2. Stands(leg, spec.leg, spec, x) /\ Stands(leg, spec.leg, spec, y)
  BY DEF StandsAs
<1> HIDE DEF leg
<1> QED
  BY <1>1, <1>2, StandsOnce

LEMMA NewLegStands ==
  ASSUME NEW l, NEW spec, NEW status, Stands(NewLeg, l, spec, status)
  PROVE  status = "NotStarted"
<1>1. NewLeg.attempts = <<NewAttempt>> /\ NewAttempt.items = <<>>
      /\ NewAttempt.plan = "NotStarted"
  BY DEF NewLeg, NewAttempt
<1>2. DOMAIN <<NewAttempt>> = {1} /\ <<NewAttempt>>[1] = NewAttempt /\ DOMAIN <<>> = {}
  OBVIOUS
<1>3. \A a \in DOMAIN NewLeg.attempts : NewLeg.attempts[a] = NewAttempt
  BY <1>1, <1>2
<1>4. \A a, k : ~Place(NewLeg, a, k)
  BY <1>1, <1>2, <1>3 DEF Place
<1> QED
  BY <1>1, <1>3, <1>4 DEF Stands

LEMMA LegsAdvance ==
  ASSUME NEW state \in PursuitStates, NEW legs, NEW new, legs = state.legs, NEW l,
         l = Len(legs), LastDiffers(legs, new), NEW turned, turned.leg = l, NEW verdict,
         NEW running, LegAdvances(legs[l], new[l], l, turned, verdict, running)
  PROVE  Advances(legs, new, turned, verdict, running)
<1>1. /\ DOMAIN legs = 1..l /\ l \in Nat /\ l >= 1 /\ l \in DOMAIN legs
      /\ l + 1 \notin DOMAIN legs
  BY StateFacts
<1>2. /\ DOMAIN legs \subseteq DOMAIN new /\ DOMAIN new \subseteq DOMAIN legs \cup {l + 1}
      /\ \A k \in DOMAIN legs \ {l} : new[k] = legs[k]
      /\ l + 1 \in DOMAIN new => new[l + 1] = NewLeg
  BY DEF LastDiffers
<1>3. ASSUME NEW spec, Known(legs, spec) PROVE Known(new, spec)
  <2>1. spec.leg \in DOMAIN legs /\ IsIn(legs[spec.leg], spec.leg, spec)
    BY <1>3 DEF Known, StandsAs, IsIn
  <2>2. IsIn(new[spec.leg], spec.leg, spec)
    <3>1. CASE spec.leg = l
      BY <2>1, <3>1 DEF LegAdvances
    <3>2. CASE spec.leg # l
      BY <1>2, <2>1, <3>2
    <3> QED
      BY <3>1, <3>2
  <2> QED
    BY <1>2, <2>1, <2>2 DEF Known, StandsAs, IsIn
<1>4. ASSUME NEW spec, NEW old, NEW now, StandsAs(legs, spec, old), StandsAs(new, spec, now)
      PROVE  Settling(old, now, spec, turned, verdict, running)
  <2>1. CASE spec.leg = l
    BY <1>4, <2>1 DEF LegAdvances, StandsAs
  <2>2. CASE spec.leg # l
    <3>1. spec.leg \in DOMAIN legs \ {l}
      BY <1>4, <2>2 DEF StandsAs
    <3>2. new[spec.leg] = legs[spec.leg]
      BY <1>2, <3>1
    <3>3. StandsAs(legs, spec, now)
      BY <1>4, <3>1, <3>2 DEF StandsAs
    <3>4. now = old
      BY <1>4, <3>3, StandsAsOnce
    <3>5. spec # turned
      BY <2>2
    <3> QED
      BY <3>4, <3>5 DEF Settling
  <2> QED
    BY <2>1, <2>2
<1>5. ASSUME NEW spec, NEW now, StandsAs(new, spec, now), ~Known(legs, spec)
      PROVE  now \in {"NotStarted", "Blocked"}
  <2>0. spec.leg \in DOMAIN new /\ Stands(new[spec.leg], spec.leg, spec, now)
    BY <1>5 DEF StandsAs
  <2>1. CASE spec.leg = l
    <3>1. ~IsIn(legs[l], l, spec)
      BY <1>1, <1>5, <2>1 DEF Known, StandsAs, IsIn
    <3> QED
      BY <2>0, <2>1, <3>1 DEF LegAdvances
  <2>2. CASE spec.leg \in DOMAIN legs \ {l}
    BY <1>2, <1>5, <2>0, <2>2 DEF Known, StandsAs
  <2>3. CASE spec.leg = l + 1
    <3>1. now = "NotStarted"
      BY <1>2, <2>0, <2>3, NewLegStands
    <3> QED
      BY <3>1
  <2> QED
    BY <1>2, <2>0, <2>1, <2>2, <2>3
<1> QED
  BY <1>3, <1>4, <1>5 DEF Advances

LEMMA WithLastIs ==
  ASSUME NEW state \in PursuitStates, NEW y \in LegType, NEW legs, NEW l, l = Len(state.legs),
         legs = WithLast(state, y) \/ legs = Append(WithLast(state, y), NewLeg)
  PROVE  LastDiffers(state.legs, legs) /\ legs[l] = y
<1> DEFINE new == WithLast(state, y)
<1>1. /\ state.legs \in Seq(LegType) /\ l \in Nat /\ l >= 1 /\ DOMAIN state.legs = 1..l
  BY StateFacts DEF LegsOK
<1>2. /\ new \in Seq(LegType) /\ DOMAIN new = 1..l /\ Len(new) = l /\ new[l] = y
      /\ \A k \in 1..l : k # l => new[k] = state.legs[k]
  BY <1>1 DEF WithLast
<1> HIDE DEF new
<1>3. l + 1 \notin 1..l
  BY <1>1
<1>4. CASE legs = new
  BY <1>1, <1>2, <1>3, <1>4 DEF LastDiffers
<1>5. CASE legs = Append(new, NewLeg)
  <2>1. NewLeg \in LegType
    BY NewLegOK DEF LegOK
  <2>2. /\ DOMAIN legs = 1..l + 1 /\ legs[l + 1] = NewLeg
        /\ \A k \in 1..l : legs[k] = new[k]
    BY <1>1, <1>2, <1>5, <2>1
  <2>3. 1..l + 1 = (1..l) \cup {l + 1} /\ l \in 1..l
    BY <1>1
  <2> QED
    BY <1>1, <1>2, <2>2, <2>3 DEF LastDiffers
<1> QED
  BY <1>4, <1>5 DEF new

(* From a settlement to the state that follows, step by step.               *)
AppliedFrom(state, spec, settlement, running, y, new) ==
  LET l == Len(state.legs)
      leg == PropagatedBlocks(y, l, running)
  IN /\ spec.leg = l /\ Open(state.legs[l]) /\ spec.attempt = Len(state.legs[l].attempts)
     /\ LegOK(y) /\ Open(y) /\ Grows(state.legs[l], y)
     /\ SettledAs(state.legs[l], spec, settlement, y)
     /\ new.goals = state.goals
     /\ Concludes(state, leg, AttemptVerdict(leg.attempts[Len(leg.attempts)], l, running), new)

LEMMA AppliedIs ==
  ASSUME NEW state \in PursuitStates, NEW spec \in PursuitSpecs, Belongs(state, spec),
         NEW settlement, PursuitValidates(state, spec, settlement),
         settlement.status = "completed" => settlement.payload \in PursuitPayloads(spec),
         NEW running, NEW new, new = PursuitApplied(state, spec, settlement, running)
  PROVE  ~state.done /\ \E y : AppliedFrom(state, spec, settlement, running, y, new)
<1> DEFINE l == Len(state.legs)
           y == SettledLeg(state.legs[spec.leg], spec, settlement)
           applied == [state EXCEPT !.legs[spec.leg] = SettledLeg(@, spec, settlement)]
<1>1. /\ spec.leg = l /\ LegOK(y) /\ Grows(state.legs[l], y) /\ Open(state.legs[l])
      /\ spec.attempt = Len(state.legs[l].attempts) /\ Open(y)
      /\ SettledAs(state.legs[l], spec, settlement, y)
  <2>1. /\ spec.leg = l /\ LegOK(y) /\ Grows(state.legs[spec.leg], y)
        /\ Open(state.legs[spec.leg]) /\ spec.attempt = Len(state.legs[spec.leg].attempts)
        /\ Open(y) /\ SettledAs(state.legs[spec.leg], spec, settlement, y)
    BY SettledOK
  <2> HIDE DEF y
  <2> QED
    BY <2>1
<1>2. applied = [state EXCEPT !.legs[Len(state.legs)] = y]
  BY <1>1
<1>3. new = IF applied.done THEN applied ELSE Reconciled(applied, running)
  BY DEF PursuitApplied
<1>4. ~state.done
  BY DEF PursuitValidates
<1> HIDE DEF y
<1>5. applied = LastLegOf(state, y)
  BY <1>2, LastLegIs
<1> HIDE DEF applied
<1>6. Grows(Last(state.legs), y)
  BY <1>1 DEF Last
<1>7. /\ applied \in PursuitStates /\ applied.done = state.done
      /\ Len(applied.legs) = l /\ applied.legs[l] = y
  BY <1>1, <1>5, <1>6, LastLegGrows
<1>8. applied.goals = state.goals /\ applied.legs = WithLast(state, y)
  BY <1>5, LastLegFacts
<1>9. new = Reconciled(applied, running)
  BY <1>3, <1>4, <1>7
<1> DEFINE leg == PropagatedBlocks(y, l, running)
           verdict == AttemptVerdict(leg.attempts[Len(leg.attempts)], l, running)
<1>10. new.goals = applied.goals /\ Concludes(applied, leg, verdict, new)
  <2>1. Open(applied.legs[l]) /\ leg = PropagatedBlocks(applied.legs[l], l, running)
    BY <1>1, <1>7
  <2>2. verdict = AttemptVerdict(leg.attempts[Len(leg.attempts)], l, running)
    OBVIOUS
  <2>3. l = Len(applied.legs) /\ ~applied.done
    BY <1>4, <1>7
  <2> HIDE DEF leg, verdict, l
  <2> QED
    BY <1>7, <1>9, <2>1, <2>2, <2>3, ReconciledIs
<1>11. \A z : WithLast(applied, z) = WithLast(state, z)
  <2> TAKE z
  <2>1. WithLast(applied, z) = [applied.legs EXCEPT ![l] = z]
    BY <1>7 DEF WithLast
  <2>2. applied.legs = [state.legs EXCEPT ![l] = y]
    BY <1>8 DEF WithLast
  <2> QED
    BY <2>1, <2>2 DEF WithLast
<1>12. HasNextLeg(applied, leg, l) <=> HasNextLeg(state, leg, l)
  BY <1>8 DEF HasNextLeg, Predefined
<1>13. Concludes(state, leg, verdict, new)
  <2> HIDE DEF leg, verdict
  <2> QED
    BY <1>7, <1>10, <1>11, <1>12 DEF Concludes
<1>14. AppliedFrom(state, spec, settlement, running, y, new)
  BY <1>1, <1>8, <1>10, <1>13 DEF AppliedFrom
<1> QED
  BY <1>4, <1>14

LEMMA ConcludedLast ==
  ASSUME NEW state \in PursuitStates, NEW leg \in LegType, KeysDiffer(leg), NEW verdict,
         NEW new, Concludes(state, leg, verdict, new), NEW l, l = Len(state.legs), NEW running
  PROVE  LastDiffers(state.legs, new.legs) /\ LegShifts(leg, new.legs[l], l, running)
<1>1. ASSUME NEW y, NEW more \in BOOLEAN, NEW status, Judges(leg, y, verdict, status, more),
             new.legs = WithLast(state, y) \/ new.legs = Append(WithLast(state, y), NewLeg)
      PROVE  LastDiffers(state.legs, new.legs) /\ LegShifts(leg, new.legs[l], l, running)
  <2>1. y \in LegType
    BY <1>1 DEF Judges
  <2> DEFINE legs == new.legs
  <2>2. legs = WithLast(state, y) \/ legs = Append(WithLast(state, y), NewLeg)
    BY ONLY <1>1
  <2> HIDE DEF legs
  <2>3. LastDiffers(state.legs, legs) /\ legs[l] = y
    BY <2>1, <2>2, WithLastIs
  <2>4. LastDiffers(state.legs, new.legs) /\ new.legs[l] = y
    BY ONLY <2>3 DEF legs
  <2>5. LegShifts(leg, y, l, running)
    BY <1>1, JudgesShifts
  <2> QED
    BY <2>4, <2>5
<1>2. CASE new.legs = WithLast(state, leg)
  <2>1. LastDiffers(state.legs, new.legs) /\ new.legs[l] = leg
    BY <1>2, WithLastIs
  <2>2. MovesKeepItems(leg, leg)
    BY DEF MovesKeepItems
  <2>3. LegShifts(leg, leg, l, running)
    BY <2>2, KeptShifts
  <2> QED
    BY <2>1, <2>3
<1>3. CASE new.legs # WithLast(state, leg)
  <2>1. \E y, status : \E more \in BOOLEAN :
          /\ Judges(leg, y, verdict, status, more)
          /\ new.legs = WithLast(state, y) \/ new.legs = Append(WithLast(state, y), NewLeg)
    BY <1>3 DEF Concludes
  <2> QED
    BY <1>1, <2>1
<1> QED
  BY <1>2, <1>3

(* Accepting a settlement turns what its node is for, and blocks some items.*)
LEMMA AppliedAdvances ==
  ASSUME NEW state \in PursuitStates, NEW spec \in PursuitSpecs, Belongs(state, spec),
         NEW settlement, PursuitValidates(state, spec, settlement),
         settlement.status = "completed" => settlement.payload \in PursuitPayloads(spec),
         NEW running, NEW new, new = PursuitApplied(state, spec, settlement, running),
         Known(state.legs, spec)
  PROVE  Advances(state.legs, new.legs, spec, EndVerdict(spec, settlement), running)
<1> DEFINE l == Len(state.legs)
           old == state.legs[l]
<1>1. PICK y : AppliedFrom(state, spec, settlement, running, y, new)
  BY AppliedIs
<1> DEFINE leg == PropagatedBlocks(y, l, running)
           verdict == AttemptVerdict(leg.attempts[Len(leg.attempts)], l, running)
<1>2. /\ spec.leg = l /\ spec.attempt = Len(old.attempts) /\ LegOK(y)
      /\ SettledAs(old, spec, settlement, y) /\ Concludes(state, leg, verdict, new)
  BY <1>1 DEF AppliedFrom
<1>3. LegOK(old) /\ IsIn(old, l, spec) /\ spec.attempt \in DOMAIN old.attempts
  <2>1. LegOK(old)
    BY StateFacts DEF LegsOK
  <2>2. IsIn(old, l, spec)
    BY <1>2 DEF Known, StandsAs, IsIn
  <2>3. spec.attempt \in DOMAIN old.attempts
    BY <1>2 DEF Belongs
  <2> QED
    BY <2>1, <2>2, <2>3
<1> HIDE DEF leg, verdict, old
<1>4. Turns(old, y, l, spec, EndVerdict(spec, settlement))
  <2>1. IsIn(old, spec.leg, spec)
    BY <1>2, <1>3
  <2>2. Turns(old, y, spec.leg, spec, EndVerdict(spec, settlement))
    BY <1>2, <1>3, <2>1, SettledTurns
  <2> QED
    BY <1>2, <2>2
<1>5. LegOK(leg) /\ LegShifts(y, leg, l, running)
  BY <1>2, PropagatedShifts DEF leg
<1>6. LastDiffers(state.legs, new.legs) /\ LegShifts(leg, new.legs[l], l, running)
  BY <1>2, <1>5, ConcludedLast DEF LegOK, GraphOK
<1>7. LegShifts(y, new.legs[l], l, running)
  BY <1>5, <1>6, ShiftsOn
<1>8. EndVerdict(spec, settlement) \in {"Success", "Failed"}
  BY DEF EndVerdict
<1>9. LegAdvances(old, new.legs[l], l, spec, EndVerdict(spec, settlement), running)
  BY <1>4, <1>7, <1>8, TurnsThenShifts
<1> QED
  BY <1>2, <1>6, <1>9, LegsAdvance DEF old

-----------------------------------------------------------------------------
(* What dispatch orders: each thing that waits, once.                       *)
Distinct(seq) == \A n, m \in DOMAIN seq : seq[n] = seq[m] => n = m

LEMMA FlattenDistinct ==
  ASSUME NEW T, NEW seqs \in Seq(Seq(T)),
         \A a \in DOMAIN seqs : Distinct(seqs[a]),
         \A a, b \in DOMAIN seqs : \A j \in DOMAIN seqs[a] : \A k \in DOMAIN seqs[b] :
           seqs[a][j] = seqs[b][k] => a = b
  PROVE  Distinct(FlattenSeq(seqs))
<1> DEFINE flat == FlattenSeq(seqs)
<1>1. PICK i, k : IsPlacing(i, k, flat, seqs)
  BY FlattenPlaces
<1> HIDE DEF flat
<1>2. ASSUME NEW n \in DOMAIN flat, NEW m \in DOMAIN flat, flat[n] = flat[m] PROVE n = m
  <2>1. /\ i[n] \in DOMAIN seqs /\ k[n] \in DOMAIN seqs[i[n]] /\ flat[n] = seqs[i[n]][k[n]]
        /\ i[m] \in DOMAIN seqs /\ k[m] \in DOMAIN seqs[i[m]] /\ flat[m] = seqs[i[m]][k[m]]
    BY <1>1 DEF IsPlacing
  <2>2. i[n] = i[m]
    BY <1>2, <2>1
  <2>3. k[n] = k[m]
    BY <1>2, <2>1, <2>2 DEF Distinct
  <2> QED
    BY <1>1, <2>2, <2>3 DEF IsPlacing
<1> QED
  BY <1>2 DEF Distinct, flat

LEMMA ReadyWaits ==
  ASSUME NEW leg, NEW l, NEW a, NEW k, Place(leg, a, k), NEW running,
         IsReady(leg, l, At(leg, a, k), running)
  PROVE  /\ Stands(leg, l, WorkerSpec(l, a, At(leg, a, k)), "NotStarted")
         /\ WorkerSpec(l, a, At(leg, a, k)) \notin running
<1>1. At(leg, a, k).status = "NotStarted" /\ ~WorkerRuns(running, l, At(leg, a, k))
  BY DEF IsReady
<1>2. WorkerSpec(l, a, At(leg, a, k)) \notin running
  BY <1>1, SpecFacts DEF WorkerRuns
<1> QED
  BY <1>1, <1>2 DEF Stands

Waits(legs, spec, running) == StandsAs(legs, spec, "NotStarted") /\ spec \notin running
AllWaiting(legs, running) == {spec \in PursuitSpecs : Waits(legs, spec, running)}

WaitsOnce(state, l, running, order) ==
  /\ order \in Seq(AllWaiting(state.legs, running))
  /\ Distinct(order) /\ \A n \in DOMAIN order : order[n].leg = l

LEMMA LegDispatchesWait ==
  ASSUME NEW state \in PursuitStates, NEW l \in DOMAIN state.legs, NEW running,
         NEW order, order = LegDispatches(state.legs[l], l, running)
  PROVE  WaitsOnce(state, l, running, order)
<1> DEFINE U == {spec \in PursuitSpecs : Waits(state.legs, spec, running) /\ spec.leg = l}
           leg == state.legs[l]
           a == Len(leg.attempts)
           attempt == leg.attempts[a]
           one(k) == IF IsReady(leg, l, attempt.items[k], running)
                     THEN <<WorkerSpec(l, a, attempt.items[k])>> ELSE <<>>
           ready == [k \in DOMAIN attempt.items |-> one(k)]
           planner == PlannerSpec(l, a)
<1>1. /\ LegOK(leg) /\ leg \in LegType /\ KeysDiffer(leg)
      /\ DOMAIN leg.attempts = 1..Len(leg.attempts) /\ Len(leg.attempts) \in 1..MaxAttempts
  BY StateFacts, LegFacts DEF LegsOK, LegOK, ShapeOK, GraphOK
<1>2. a \in DOMAIN leg.attempts
  BY <1>1, AttemptsAssumption
<1>3. attempt.items \in Seq(ItemType)
  BY <1>1, <1>2, LegFacts
<1>4. ASSUME NEW k \in DOMAIN attempt.items
      PROVE  \/ one(k) = <<>>
             \/ /\ one(k) = <<WorkerSpec(l, a, At(leg, a, k))>> /\ Place(leg, a, k)
                /\ WorkerSpec(l, a, At(leg, a, k)) \in U
  <2>1. Place(leg, a, k) /\ At(leg, a, k) = attempt.items[k]
    BY <1>2 DEF Place, At
  <2>2. CASE IsReady(leg, l, attempt.items[k], running)
    <3> DEFINE worker == WorkerSpec(l, a, At(leg, a, k))
    <3>1. IsReady(leg, l, At(leg, a, k), running)
      BY <2>1, <2>2
    <3>2. worker \in PursuitSpecs
      BY <2>1, <3>1, ReadyBelongs
    <3>3. Stands(leg, l, worker, "NotStarted") /\ worker \notin running
      BY <2>1, <3>1, ReadyWaits
    <3>4. worker.leg = l
      BY SpecFacts
    <3>5. one(k) = <<worker>>
      BY <2>1, <2>2
    <3> HIDE DEF worker, one
    <3>6. worker \in U
      BY <3>2, <3>3, <3>4 DEF Waits, StandsAs
    <3> QED
      BY <2>1, <3>5, <3>6 DEF worker
  <2>3. CASE ~IsReady(leg, l, attempt.items[k], running)
    BY <2>3
  <2> QED
    BY <2>2, <2>3
<1>5. order = IF leg.status # "Running" \/ attempt.status # "Running" THEN <<>>
              ELSE CASE attempt.plan = "NotStarted" ->
                          IF PlannerRuns(running, l, a) THEN <<>> ELSE <<planner>>
                     [] attempt.plan = "Success" -> FlattenSeq(ready)
                     [] OTHER -> <<>>
  BY DEF LegDispatches
<1>6. ASSUME attempt.plan = "NotStarted", ~PlannerRuns(running, l, a) PROVE planner \in U
  <2>1. planner \in PursuitSpecs
    BY PlannerBelongs
  <2>2. Stands(leg, l, planner, "NotStarted")
    BY <1>2, <1>6, PlannerStands
  <2>3. planner \notin running /\ planner.leg = l
    BY <1>6, SpecFacts DEF PlannerRuns
  <2> HIDE DEF planner
  <2> QED
    BY <2>1, <2>2, <2>3 DEF Waits, StandsAs
<1>7. DOMAIN ready = DOMAIN attempt.items /\ \A k \in DOMAIN ready : ready[k] = one(k)
  OBVIOUS
<1> HIDE DEF one, planner, U, attempt
<1>8. ready \in Seq(Seq(U))
  <2>1. DOMAIN attempt.items = 1..Len(attempt.items) /\ Len(attempt.items) \in Nat
    BY <1>3
  <2>2. ASSUME NEW k \in DOMAIN attempt.items PROVE one(k) \in Seq(U)
    <3>1. CASE one(k) = <<>>
      BY <3>1
    <3>2. CASE one(k) # <<>>
      <4> DEFINE worker == WorkerSpec(l, a, At(leg, a, k))
      <4>1. one(k) = <<worker>> /\ worker \in U
        BY <1>4, <3>2
      <4> HIDE DEF worker
      <4> QED
        BY <4>1
    <3> QED
      BY <3>1, <3>2
  <2> QED
    BY <2>1, <2>2
<1> HIDE DEF ready, a, leg
<1>9. FlattenSeq(ready) \in Seq(U)
  BY <1>8, FlattenType
<1>10. Distinct(FlattenSeq(ready))
  <2>1. \A k \in DOMAIN ready : Distinct(ready[k])
    BY <1>4, <1>7 DEF Distinct
  <2>2. ASSUME NEW x \in DOMAIN ready, NEW y \in DOMAIN ready, NEW j \in DOMAIN ready[x],
               NEW k \in DOMAIN ready[y], ready[x][j] = ready[y][k]
        PROVE  x = y
    <3>1. /\ Place(leg, a, x) /\ ready[x][j] = WorkerSpec(l, a, At(leg, a, x))
          /\ Place(leg, a, y) /\ ready[y][k] = WorkerSpec(l, a, At(leg, a, y))
      BY <1>4, <1>7, <2>2
    <3>2. WorkerSpec(l, a, At(leg, a, x)) = WorkerSpec(l, a, At(leg, a, y))
      BY <2>2, <3>1
    <3> QED
      BY <1>1, <3>1, <3>2, SpecsDiffer
  <2> QED
    BY <1>8, <2>1, <2>2, FlattenDistinct
<1>11. \/ order = <<>> \/ order = FlattenSeq(ready)
       \/ order = <<planner>> /\ planner \in U
  BY <1>5, <1>6
<1>12. order \in Seq(U) /\ Distinct(order)
  <2>1. CASE order = <<>> \/ (order = <<planner>> /\ planner \in U)
    <3>1. <<>> \in Seq(U) /\ (planner \in U => <<planner>> \in Seq(U))
      OBVIOUS
    <3>2. DOMAIN <<>> = {} /\ DOMAIN <<planner>> = {1}
      OBVIOUS
    <3>3. \A n, m \in DOMAIN order : n = m
      BY <2>1, <3>2
    <3> QED
      BY <2>1, <3>1, <3>3 DEF Distinct
  <2>2. CASE order = FlattenSeq(ready)
    BY <1>9, <1>10, <2>2
  <2> QED
    BY ONLY <1>11, <2>1, <2>2
<1>13. \A n \in DOMAIN order : order[n] \in U
  BY <1>12
<1>14. U \subseteq AllWaiting(state.legs, running)
  BY DEF U, AllWaiting
<1>15. order \in Seq(AllWaiting(state.legs, running))
  BY <1>12, <1>14
<1> QED
  BY <1>12, <1>13, <1>15 DEF U, WaitsOnce

(* dispatch() orders what waits, each thing once, and nothing when done.    *)
LEMMA DispatchWaits ==
  ASSUME NEW state \in PursuitStates, NEW running, NEW order,
         order = PursuitDispatches(state, running)
  PROVE  /\ Distinct(order) /\ (state.done => order = <<>>)
         /\ \A n \in DOMAIN order :
              StandsAs(state.legs, order[n], "NotStarted") /\ order[n] \notin running
<1> DEFINE U == AllWaiting(state.legs, running)
           part(l) == LegDispatches(state.legs[l], l, running)
           parts == [l \in DOMAIN state.legs |-> part(l)]
<1>1. order = IF state.done THEN <<>> ELSE FlattenSeq(parts)
  BY DEF PursuitDispatches
<1>2. ASSUME NEW l \in DOMAIN state.legs
      PROVE  part(l) \in Seq(U) /\ Distinct(part(l)) /\ \A n \in DOMAIN part(l) : part(l)[n].leg = l
  <2>1. PICK some : some = LegDispatches(state.legs[l], l, running)
    OBVIOUS
  <2>2. WaitsOnce(state, l, running, some)
    BY <2>1, LegDispatchesWait
  <2> QED
    BY <2>1, <2>2 DEF WaitsOnce
<1>3. DOMAIN parts = DOMAIN state.legs /\ \A l \in DOMAIN parts : parts[l] = part(l)
  OBVIOUS
<1> HIDE DEF part, U
<1>4. parts \in Seq(Seq(U))
  <2>1. DOMAIN state.legs = 1..Len(state.legs) /\ Len(state.legs) \in Nat
    BY StateFacts
  <2> QED
    BY <1>2, <2>1
<1> HIDE DEF parts
<1>5. Distinct(FlattenSeq(parts))
  <2>1. \A l \in DOMAIN parts : Distinct(parts[l])
    BY <1>2, <1>3
  <2>2. \A a, b \in DOMAIN parts : \A j \in DOMAIN parts[a] : \A k \in DOMAIN parts[b] :
          parts[a][j] = parts[b][k] => a = b
    BY <1>2, <1>3
  <2> QED
    BY <1>4, <2>1, <2>2, FlattenDistinct
<1>6. FlattenSeq(parts) \in Seq(U)
  BY <1>4, FlattenType
<1>7. order \in Seq(U) /\ Distinct(order) /\ (state.done => order = <<>>)
  <2>1. <<>> \in Seq(U) /\ DOMAIN <<>> = {}
    OBVIOUS
  <2>2. Distinct(<<>>)
    BY <2>1 DEF Distinct
  <2> QED
    BY <1>1, <1>5, <1>6, <2>1, <2>2
<1>8. \A n \in DOMAIN order : order[n] \in U
  BY <1>7
<1> QED
  BY <1>7, <1>8 DEF U, AllWaiting, Waits

-----------------------------------------------------------------------------
(***************************************************************************)
(* The nodes and the items, side by side: what the pursuit records of an   *)
(* item is what its one node did, and what waits to be launched has no     *)
(* node yet.                                                               *)
(***************************************************************************)
Verdict(entry) ==
  IF /\ entry.status = "completed"
     /\ entry.spec.role = "planner" \/ entry.said = {[pass |-> TRUE]}
  THEN "Success" ELSE "Failed"
OwnStatus(entry) == IF entry.counted = 0 THEN "NotStarted" ELSE Verdict(entry)

NodesFit(legs, ns, todo) ==
  /\ \A i, j \in DOMAIN ns : ns[i].spec = ns[j].spec => i = j
  /\ Distinct(todo)
  /\ \A n \in DOMAIN todo :
       /\ StandsAs(legs, todo[n], "NotStarted")
       /\ \A i \in DOMAIN ns : todo[n] # ns[i].spec
  /\ \A i \in DOMAIN ns : StandsAs(legs, ns[i].spec, OwnStatus(ns[i]))
  /\ \A spec : \A status \in {"Success", "Failed"} :
       StandsAs(legs, spec, status) =>
         \E i \in DOMAIN ns : ns[i].spec = spec /\ ns[i].counted # 0

(* The run beside them: a node that ended was counted, the run has an       *)
(* outcome exactly when the pursuit is done, and then nothing waits.        *)
RunFit ==
  /\ ~wf.done => \A i \in DOMAIN nodes : nodes[i].counted = 0 => nodes[i].status = "running"
  /\ outcome # "none" <=> wf.done
  /\ wf.done => Waiting = <<>>

OwnInv ==
  /\ Orderly
  /\ PendingInv
  /\ NodesFit(wf.legs, nodes, Waiting)
  /\ RunFit

(* What is kept of an entry is enough.                                      *)
LEMMA SameFit ==
  ASSUME NEW legs, NEW todo, NEW ns, NEW ms, SameEnds(ns, ms), NodesFit(legs, ns, todo)
  PROVE  NodesFit(legs, ms, todo)
<1>1. /\ DOMAIN ms = DOMAIN ns
      /\ \A i \in DOMAIN ns : ms[i].spec = ns[i].spec /\ ms[i].counted = ns[i].counted
  BY DEF SameEnds
<1>2. \A i \in DOMAIN ns : OwnStatus(ms[i]) = OwnStatus(ns[i])
  BY DEF SameEnds, OwnStatus, Verdict
<1> QED
  BY <1>1, <1>2 DEF NodesFit

(* The node that starts is the first of those that wait.                    *)
LEMMA TakenFit ==
  ASSUME NEW S, NEW P, NEW ns \in Seq(EntryType(S, P)), NEW todo \in Seq(S),
         NEW after, NEW left, Takes(ns, todo, after, left),
         NEW legs, NodesFit(legs, ns, todo)
  PROVE  NodesFit(legs, after, left)
<1>1. CASE after = ns /\ left = todo
  BY <1>1
<1>2. CASE todo # <<>> /\ after = Append(ns, Entry(Head(todo))) /\ left = Tail(todo)
  <2>1. /\ Len(ns) \in Nat /\ DOMAIN ns = 1..Len(ns)
        /\ Len(todo) \in Nat /\ Len(todo) > 0 /\ DOMAIN todo = 1..Len(todo)
    BY <1>2
  <2> DEFINE new == Len(ns) + 1
  <2>2. /\ DOMAIN after = DOMAIN ns \cup {new} /\ new \notin DOMAIN ns
        /\ \A i \in DOMAIN ns : after[i] = ns[i]
        /\ after[new] = Entry(todo[1])
    BY <1>2, <2>1
  <2>3. /\ DOMAIN left = 1..(Len(todo) - 1)
        /\ \A n \in DOMAIN left : left[n] = todo[n + 1] /\ n + 1 \in DOMAIN todo /\ n + 1 # 1
        /\ 1 \in DOMAIN todo
    BY <1>2, <2>1
  <2>4. after[new].spec = todo[1] /\ after[new].counted = 0 /\ OwnStatus(after[new]) = "NotStarted"
    BY <2>2 DEF Entry, OwnStatus
  <2> HIDE DEF new
  <2>5. \A i \in DOMAIN ns : todo[1] # ns[i].spec
    BY <2>3 DEF NodesFit
  <2>6. \A i, j \in DOMAIN after : after[i].spec = after[j].spec => i = j
    BY <2>2, <2>4, <2>5 DEF NodesFit
  <2>7. Distinct(left)
    <3>1. \A n, m \in DOMAIN left : n + 1 = m + 1 => n = m
      BY <2>1, <2>3
    <3> QED
      BY <2>3, <3>1 DEF NodesFit, Distinct
  <2>8. ASSUME NEW n \in DOMAIN left
        PROVE  StandsAs(legs, left[n], "NotStarted") /\ \A i \in DOMAIN after : left[n] # after[i].spec
    BY <2>2, <2>3, <2>4 DEF NodesFit, Distinct
  <2>9. \A i \in DOMAIN after : StandsAs(legs, after[i].spec, OwnStatus(after[i]))
    BY <2>2, <2>3, <2>4 DEF NodesFit
  <2>10. ASSUME NEW spec, NEW status \in {"Success", "Failed"}, StandsAs(legs, spec, status)
         PROVE  \E i \in DOMAIN after : after[i].spec = spec /\ after[i].counted # 0
    <3>1. PICK i \in DOMAIN ns : ns[i].spec = spec /\ ns[i].counted # 0
      BY <2>10 DEF NodesFit
    <3> QED
      BY <2>2, <3>1
  <2> QED
    BY <2>6, <2>7, <2>8, <2>9, <2>10 DEF NodesFit
<1> QED
  BY <1>1, <1>2 DEF Takes

(* The settlement of one node judges its item and no other, and what is     *)
(* ordered then has no node.                                                *)
LEMMA AdvancedFit ==
  ASSUME NEW state \in PursuitStates, NEW legs, NEW ms, NEW ns, NEW i \in DOMAIN ms, NEW order,
         NodesFit(legs, ms, <<>>),
         DOMAIN ns = DOMAIN ms, \A j \in DOMAIN ms : ns[j].spec = ms[j].spec,
         \A j \in DOMAIN ms \ {i} : ns[j] = ms[j],
         \A j \in DOMAIN ms \ {i} : ms[j].counted = 0 => ns[j].status = "running",
         ns[i].counted # 0, ms[i].counted = 0,
         Advances(legs, state.legs, ns[i].spec, Verdict(ns[i]), RunningSpecs(ns)),
         Distinct(order),
         \A n \in DOMAIN order : /\ StandsAs(state.legs, order[n], "NotStarted")
                                 /\ order[n] \notin RunningSpecs(ns)
  PROVE  NodesFit(state.legs, ns, order)
<1>1. \A j \in DOMAIN ns : Verdict(ns[j]) \in {"Success", "Failed"}
  BY DEF Verdict
<1>2. \A j \in DOMAIN ns : ns[j].status = "running" => ns[j].spec \in RunningSpecs(ns)
  BY DEF RunningSpecs, Running
<1>3. \A j, k \in DOMAIN ns : ns[j].spec = ns[k].spec => j = k
  BY DEF NodesFit
<1>4. ASSUME NEW j \in DOMAIN ns
      PROVE  StandsAs(state.legs, ns[j].spec, OwnStatus(ns[j]))
  <2>1. StandsAs(legs, ns[j].spec, OwnStatus(ms[j]))
    BY DEF NodesFit
  <2>2. PICK now : StandsAs(state.legs, ns[j].spec, now)
    BY <2>1 DEF Advances, Known
  <2>3. Settling(OwnStatus(ms[j]), now, ns[j].spec, ns[i].spec, Verdict(ns[i]), RunningSpecs(ns))
    BY <2>1, <2>2 DEF Advances
  <2>4. CASE j = i
    BY <2>2, <2>3, <2>4 DEF Settling, OwnStatus
  <2>5. CASE j # i
    <3>1. now = OwnStatus(ms[j]) \/ (OwnStatus(ms[j]) = "NotStarted" /\ ns[j].spec \notin RunningSpecs(ns))
      BY <1>3, <2>3, <2>5 DEF Settling
    <3>2. OwnStatus(ms[j]) = "NotStarted" => ms[j].counted = 0
      BY <1>1, <2>5 DEF OwnStatus
    <3>3. ms[j].counted = 0 => ns[j].spec \in RunningSpecs(ns)
      BY <1>2, <2>5
    <3> QED
      BY <2>2, <2>5, <3>1, <3>2, <3>3
  <2> QED
    BY <2>4, <2>5
<1>5. ASSUME NEW n \in DOMAIN order, NEW j \in DOMAIN ns
      PROVE  order[n] # ns[j].spec
  <2>1. CASE ns[j].counted = 0
    <3>1. ns[j].status = "running"
      BY <2>1
    <3> QED
      BY <1>2, <3>1
  <2>2. CASE ns[j].counted # 0
    <3>1. StandsAs(state.legs, ns[j].spec, Verdict(ns[j]))
      BY <1>4, <2>2 DEF OwnStatus
    <3> QED
      BY <1>1, <3>1, StandsAsOnce
  <2> QED
    BY <2>1, <2>2
<1>6. ASSUME NEW spec, NEW status \in {"Success", "Failed"}, StandsAs(state.legs, spec, status)
      PROVE  \E j \in DOMAIN ns : ns[j].spec = spec /\ ns[j].counted # 0
  <2>1. CASE spec = ns[i].spec
    BY <2>1
  <2>2. CASE spec # ns[i].spec
    <3>1. PICK old : StandsAs(legs, spec, old)
      BY <1>6 DEF Advances, Known
    <3>2. Settling(old, status, spec, ns[i].spec, Verdict(ns[i]), RunningSpecs(ns))
      BY <1>6, <3>1 DEF Advances
    <3>3. old = status
      BY <2>2, <3>2 DEF Settling
    <3>4. PICK j \in DOMAIN ms : ms[j].spec = spec /\ ms[j].counted # 0
      BY <3>1, <3>3 DEF NodesFit
    <3> QED
      BY <3>4
  <2> QED
    BY <2>1, <2>2
<1> QED
  BY <1>3, <1>4, <1>5, <1>6 DEF NodesFit

LEMMA FlattenOne ==
  ASSUME NEW T, NEW x \in Seq(T)
  PROVE  FlattenSeq(<<x>>) = x
<1>1. <<>> \in Seq(Seq(T)) /\ <<x>> = Append(<<>>, x) /\ <<>> \o x = x
  OBVIOUS
<1> QED
  BY <1>1, FlattenAppend, FlattenEmpty

(* A pursuit starts with its one planner, and nothing in it has begun.      *)
LEMMA InitialIs ==
  ASSUME NEW goals \in Nat, NEW state, state = PursuitInitial(goals)
  PROVE  /\ state \in PursuitStates /\ state.done = FALSE
         /\ state.legs = <<NewLeg>> /\ DOMAIN state.legs = {1} /\ state.legs[1] = NewLeg
<1>1. state.done = FALSE /\ state.legs = <<NewLeg>>
  BY DEF PursuitInitial
<1>2. DOMAIN <<NewLeg>> = {1} /\ <<NewLeg>>[1] = NewLeg
  OBVIOUS
<1> QED
  BY <1>1, <1>2, PursuitStarts

LEMMA PursuitStartsWithOne ==
  ASSUME PursuitHooks
  PROVE  StartsWithOne
<1>1. ASSUME NEW w \in InitialStates PROVE \E spec : Order(w, <<>>) = <<spec>>
  <2>1. PICK goals \in Nat : w = PursuitInitial(goals)
    BY DEF PursuitHooks
  <2> DEFINE spec == PlannerSpec(1, 1)
             running == RunningSpecs(<<>>)
             order == LegDispatches(NewLeg, 1, running)
             parts == [l \in DOMAIN w.legs |-> LegDispatches(w.legs[l], l, running)]
  <2>2. w.done = FALSE /\ DOMAIN w.legs = {1} /\ w.legs[1] = NewLeg
    BY <2>1, InitialIs
  <2>3. running = {}
    <3>1. DOMAIN <<>> = {}
      OBVIOUS
    <3> QED
      BY <3>1 DEF RunningSpecs, Running
  <2>4. /\ NewLeg.status = "Running" /\ NewLeg.attempts = <<NewAttempt>>
        /\ NewAttempt.status = "Running" /\ NewAttempt.plan = "NotStarted"
    BY DEF NewLeg, NewAttempt
  <2>5. Len(<<NewAttempt>>) = 1 /\ <<NewAttempt>>[1] = NewAttempt
    OBVIOUS
  <2>6. order = <<spec>>
    BY <2>3, <2>4, <2>5 DEF LegDispatches, PlannerRuns
  <2>7. Order(w, <<>>) = FlattenSeq(parts)
    BY <2>2 DEF Order, PursuitHooks, PursuitDispatches
  <2>8. parts = [l \in {1} |-> order]
    BY <2>2
  <2> HIDE DEF spec, parts, order
  <2>9. parts = <<order>>
    BY <2>8
  <2>10. order \in Seq({spec})
    BY <2>6
  <2>11. FlattenSeq(parts) = <<spec>>
    BY <2>6, <2>9, <2>10, FlattenOne
  <2> QED
    BY <2>7, <2>11
<1> QED
  BY <1>1 DEF StartsWithOne

(* Nothing is recorded before anything runs.                                *)
LEMMA OwnInit ==
  ASSUME PursuitHooks, Init
  PROVE  OwnInv
<1>1. Orderly /\ PendingInv /\ Waiting = <<>>
  BY OrderlyInit
<1>2. nodes = <<>> /\ outcome = "none" /\ wf \in InitialStates
  BY DEF Init
<1>3. PICK goals \in Nat : wf = PursuitInitial(goals)
  BY <1>2 DEF PursuitHooks
<1>4. wf.done = FALSE /\ DOMAIN wf.legs = {1} /\ wf.legs[1] = NewLeg
  BY <1>3, InitialIs
<1>5. DOMAIN <<>> = {}
  OBVIOUS
<1>6. \A spec, status : StandsAs(wf.legs, spec, status) => status = "NotStarted"
  BY <1>4, NewLegStands DEF StandsAs
<1>7. NodesFit(wf.legs, <<>>, <<>>)
  BY <1>5, <1>6 DEF NodesFit, Distinct
<1>8. RunFit
  BY <1>1, <1>2, <1>4, <1>5 DEF RunFit
<1> QED
  BY <1>1, <1>2, <1>7, <1>8 DEF OwnInv

(***************************************************************************)
(* Each kind of step keeps nodes and items side by side.                   *)
(***************************************************************************)
NowFits == NodesFit(wf.legs, nodes, Waiting) /\ RunFit

LEMMA WaitingTyped ==
  ASSUME PursuitInv
  PROVE  /\ nodes \in Seq(EntryType(PursuitSpecs, Submissions))
         /\ Waiting \in Seq(PursuitSpecs)
         /\ wf \in PursuitStates
<1>1. /\ nodes \in Seq(EntryType(PursuitSpecs, Submissions)) /\ wf \in PursuitStates
      /\ lists \in [Executors -> ListType(PursuitSpecs)]
  BY GoodFacts DEF PursuitInv
<1>2. lists["queue"] \in ListType(PursuitSpecs)
  BY <1>1 DEF Executors
<1> QED
  BY <1>1, <1>2 DEF ListType, Waiting

LEMMA ContinuesOwn ==
  ASSUME PursuitInv, NowFits, Continues(PursuitSpecs, Submissions)
  PROVE  NowFits'
<1>1. wf' = wf /\ outcome' = outcome
  BY DEF Continues
<1>2. PICK ns \in Seq(EntryType(PursuitSpecs, Submissions)) :
        SameEnds(nodes, ns) /\ Takes(ns, Waiting, nodes', Waiting')
  BY DEF Continues
<1>3. NodesFit(wf.legs, ns, Waiting)
  BY <1>2, SameFit DEF NowFits
<1> DEFINE todo == Waiting
           after == nodes'
           left == Waiting'
<1>4. todo \in Seq(PursuitSpecs) /\ Takes(ns, todo, after, left)
  BY <1>2, WaitingTyped
<1>5. NodesFit(wf.legs, ns, todo)
  BY <1>3
<1>6. wf.done => todo = <<>>
  BY DEF NowFits, RunFit
<1> HIDE DEF todo, after, left
<1>7. NodesFit(wf.legs, after, left)
  BY ONLY <1>2, <1>4, <1>5, TakenFit
<1>8. /\ \A i \in DOMAIN ns : after[i] = ns[i]
      /\ \A i \in DOMAIN after \ DOMAIN ns : after[i].status = "running"
  BY ONLY <1>2, <1>4, TakesFacts
<1>9. todo = <<>> => left = <<>>
  BY <1>4 DEF Takes
<1>10. ASSUME ~wf.done, NEW i \in DOMAIN after, after[i].counted = 0
       PROVE  after[i].status = "running"
  <2>1. CASE i \in DOMAIN ns
    BY <1>2, <1>8, <1>10, <2>1 DEF SameEnds, NowFits, RunFit
  <2>2. CASE i \notin DOMAIN ns
    BY <1>8, <2>2
  <2> QED
    BY <2>1, <2>2
<1>11. wf.done => left = <<>>
  BY <1>6, <1>9
<1>12. outcome # "none" <=> wf.done
  BY DEF NowFits, RunFit
<1>13. RunFit'
  BY <1>1, <1>10, <1>11, <1>12 DEF RunFit, after, left
<1>14. NodesFit(wf.legs, nodes, Waiting)'
  BY <1>1, <1>7 DEF after, left
<1> QED
  BY <1>13, <1>14 DEF NowFits

LEMMA BeginsOwn ==
  ASSUME PursuitHooks, PursuitInv, NowFits, Begins
  PROVE  NowFits'
<1>1. /\ wf' = wf /\ outcome' = outcome /\ wf \in InitialStates /\ Waiting' = <<>>
      /\ nodes = <<>> /\ Waiting = <<>> /\ outcome = "none"
  BY DEF Begins
<1>2. PICK spec : Order(wf, <<>>) = <<spec>> /\ nodes' = <<Entry(spec)>>
  BY DEF Begins
<1>3. PICK goals \in Nat : wf = PursuitInitial(goals)
  BY <1>1 DEF PursuitHooks
<1>4. wf.done = FALSE /\ DOMAIN wf.legs = {1} /\ wf.legs[1] = NewLeg /\ wf \in PursuitStates
  BY <1>3, InitialIs
<1> DEFINE running == RunningSpecs(<<>>)
           order == <<spec>>
<1>5. order = PursuitDispatches(wf, running)
  BY <1>2, <1>4 DEF Order, PursuitHooks
<1>6. DOMAIN order = {1} /\ order[1] = spec /\ Head(order) = spec /\ Tail(order) = <<>>
  OBVIOUS
<1>7. Append(<<>>, Entry(spec)) = <<Entry(spec)>> /\ order # <<>>
  OBVIOUS
<1>8. DOMAIN <<>> = {} /\ DOMAIN <<Entry(spec)>> = {1} /\ <<Entry(spec)>>[1] = Entry(spec)
  OBVIOUS
<1> HIDE DEF order, running
<1>9. Distinct(order) /\ StandsAs(wf.legs, spec, "NotStarted")
  BY <1>4, <1>5, <1>6, DispatchWaits
<1>10. \A other, status : StandsAs(wf.legs, other, status) => status = "NotStarted"
  BY <1>4, NewLegStands DEF StandsAs
<1>11. NodesFit(wf.legs, <<>>, order)
  BY <1>6, <1>8, <1>9, <1>10 DEF NodesFit
<1>12. Takes(<<>>, order, nodes', Waiting')
  BY <1>1, <1>2, <1>6, <1>7 DEF Takes
<1>13. order \in Seq({spec}) /\ <<>> \in Seq(EntryType({spec}, Submissions))
  BY <1>2 DEF order
<1> DEFINE after == nodes'
           left == Waiting'
           none == <<>>
<1>14. /\ Takes(none, order, after, left) /\ NodesFit(wf.legs, none, order)
       /\ none \in Seq(EntryType({spec}, Submissions))
  BY <1>11, <1>12, <1>13
<1> HIDE DEF after, left, none
<1>15. NodesFit(wf.legs, after, left)
  BY ONLY <1>13, <1>14, TakenFit
<1>16. NodesFit(wf.legs, nodes, Waiting)'
  BY <1>1, <1>15 DEF after, left
<1>17. \A i \in DOMAIN nodes' : nodes'[i].status = "running"
  BY <1>2, <1>8 DEF Entry
<1>18. RunFit'
  BY <1>1, <1>4, <1>17 DEF RunFit
<1> QED
  BY <1>16, <1>18 DEF NowFits

LEMMA StopsOwn ==
  ASSUME PursuitInv, NowFits, Stops
  PROVE  NowFits'
<1>1. /\ op.running = Running(nodes) /\ Waiting' = <<>> /\ Waiting = <<>>
      /\ wf' = Ended(wf, "failure") /\ outcome' = "cancelled"
      /\ nodes' = [i \in DOMAIN nodes |->
                     IF i \in op.running THEN [nodes[i] EXCEPT !.status = "cancelled"]
                                         ELSE nodes[i]]
  BY DEF Stops, FinishInterrupt
<1>2. wf \in StateType
  BY WaitingTyped DEF PursuitStates
<1>3. wf'.legs = wf.legs /\ wf'.done = TRUE
  BY <1>1, <1>2 DEF Ended, StateType
<1>4. DOMAIN nodes' = DOMAIN nodes
  BY <1>1
<1>5. ASSUME NEW i \in DOMAIN nodes
      PROVE  /\ nodes'[i].spec = nodes[i].spec /\ nodes'[i].counted = nodes[i].counted
             /\ OwnStatus(nodes'[i]) = OwnStatus(nodes[i])
  <2>1. nodes[i] \in EntryType(PursuitSpecs, Submissions) /\ EntryInv(nodes[i])
    BY GoodEntry DEF PursuitInv
  <2>2. CASE i \in op.running
    <3>1. nodes[i].counted = 0
      BY <1>1, <2>1, <2>2 DEF EntryInv, Running
    <3>2. nodes'[i].spec = nodes[i].spec /\ nodes'[i].counted = nodes[i].counted
      BY <1>1, <2>1, <2>2 DEF EntryType
    <3> QED
      BY <3>1, <3>2 DEF OwnStatus
  <2>3. CASE i \notin op.running
    BY <1>1, <2>3
  <2> QED
    BY <2>2, <2>3
<1>6. NodesFit(wf.legs, nodes', <<>>)
  BY <1>1, <1>4, <1>5 DEF NodesFit, NowFits
<1>7. NodesFit(wf.legs, nodes, Waiting)'
  BY <1>1, <1>3, <1>6
<1>8. RunFit'
  BY <1>1, <1>3 DEF RunFit
<1> QED
  BY <1>7, <1>8 DEF NowFits

(* What an accepted settlement hands to the hooks of the pursuit.           *)
LEMMA AcceptFacts ==
  ASSUME PursuitHooks, PursuitInv, NEW i, NEW settlement, Accepts(Submissions, i, settlement),
         NEW ns, ns = Count(i, settlement), NEW state, state = After(i, settlement)
  PROVE  /\ wf \in PursuitStates /\ state \in PursuitStates
         /\ i \in DOMAIN nodes /\ ns[i].spec = nodes[i].spec
         /\ ns[i].spec \in PursuitSpecs /\ Belongs(wf, ns[i].spec)
         /\ PursuitValidates(wf, ns[i].spec, settlement)
         /\ settlement.status = "completed" => settlement.payload \in PursuitPayloads(ns[i].spec)
         /\ state = PursuitApplied(wf, ns[i].spec, settlement, RunningSpecs(ns))
         /\ Order(state, ns) = PursuitDispatches(state, RunningSpecs(ns))
         /\ Order(state, ns) \in Seq(PursuitSpecs)
         /\ ns \in Seq(EntryType(PursuitSpecs, Submissions)) /\ DOMAIN ns = DOMAIN nodes
         /\ \A j \in DOMAIN nodes : ns[j].spec = nodes[j].spec
         /\ \A j \in DOMAIN nodes \ {i} : ns[j] = nodes[j]
         /\ ns[i].said = nodes[i].said /\ ns[i].status = settlement.status
         /\ settlement.status = "completed" => ns[i].said = {settlement.payload}
         /\ nodes[i].counted = 0 /\ ns[i].counted = 1
<1>1. /\ i \in DOMAIN nodes /\ nodes[i].status = "running"
      /\ settlement \in Settlements(Submissions) /\ MayEnd(nodes[i].spec, settlement)
      /\ Validates(wf, nodes[i].spec, settlement)
      /\ settlement.status = "completed" => nodes[i].said = {settlement.payload}
  BY DEF Accepts
<1>2. /\ Good(PursuitStates, PursuitSpecs, Submissions) /\ Linked(PursuitPairs)
      /\ HooksTyped(PursuitStates, PursuitSpecs, Submissions, PursuitPairs)
  BY PursuitHooksTyped DEF PursuitInv
<1>3. /\ state \in PursuitStates /\ Order(state, ns) \in Seq(PursuitSpecs)
      /\ RunningSpecs(ns) \in SUBSET PursuitSpecs
  BY <1>1, <1>2, AfterIsTyped
<1>4. settlement.status \in Settled
  BY <1>1 DEF Settlements
<1>5. /\ ns \in Seq(EntryType(PursuitSpecs, Submissions)) /\ DOMAIN ns = DOMAIN nodes
      /\ \A j \in DOMAIN nodes \ {i} : ns[j] = nodes[j]
      /\ ns[i].spec = nodes[i].spec /\ ns[i].said = nodes[i].said
      /\ ns[i].status = settlement.status /\ ns[i].counted = nodes[i].counted + 1
  BY <1>1, <1>2, <1>4, CountIs
<1>6. nodes[i].counted = 0
  BY <1>1, <1>2, GoodEntry DEF EntryInv
<1>7. wf \in PursuitStates /\ nodes[i].spec \in PursuitSpecs /\ Belongs(wf, nodes[i].spec)
  BY <1>1, InvFacts
<1>8. PursuitValidates(wf, ns[i].spec, settlement)
  BY <1>1, <1>5 DEF PursuitHooks
<1>9. settlement.status = "completed" => settlement.payload \in PursuitPayloads(ns[i].spec)
  BY <1>1, <1>5 DEF MayEnd, PursuitHooks
<1>10. state = PursuitApplied(wf, ns[i].spec, settlement, RunningSpecs(ns))
  BY <1>5 DEF After, PursuitHooks
<1>11. Order(state, ns) = PursuitDispatches(state, RunningSpecs(ns))
  BY DEF Order, PursuitHooks, PursuitDispatches
<1> QED
  BY <1>1, <1>3, <1>5, <1>6, <1>7, <1>8, <1>9, <1>10, <1>11

LEMMA VerdictsAgree ==
  ASSUME NEW entry, NEW settlement, entry.status = settlement.status,
         settlement.status = "completed" => /\ settlement.payload \in PursuitPayloads(entry.spec)
                                            /\ entry.said = {settlement.payload}
  PROVE  EndVerdict(entry.spec, settlement) = Verdict(entry)
<1>1. CASE entry.status = "completed" /\ entry.spec.role # "planner"
  <2>1. settlement.payload \in {[pass |-> TRUE], [pass |-> FALSE]}
    BY <1>1 DEF PursuitPayloads
  <2>2. settlement.payload.pass <=> settlement.payload = [pass |-> TRUE]
    <3>1. [pass |-> TRUE].pass = TRUE /\ [pass |-> FALSE].pass = FALSE
      OBVIOUS
    <3> QED
      BY <2>1, <3>1
  <2>3. settlement.payload.pass <=> entry.said = {[pass |-> TRUE]}
    BY <1>1, <2>2
  <2> QED
    BY <1>1, <2>3 DEF EndVerdict, Verdict
<1>2. CASE entry.status # "completed" \/ entry.spec.role = "planner"
  BY <1>2 DEF EndVerdict, Verdict
<1> QED
  BY <1>1, <1>2

LEMMA AcceptsOwn ==
  ASSUME PursuitHooks, PursuitInv, NowFits,
         NEW i, NEW settlement, Accepts(Submissions, i, settlement)
  PROVE  NowFits'
<1> DEFINE ns == Count(i, settlement)
           state == After(i, settlement)
           running == RunningSpecs(ns)
           order == Order(state, ns)
           after == nodes'
           left == Waiting'
<1>1. /\ Waiting = <<>>
      /\ wf' = IF IsStuck(state, ns) THEN Ended(state, "deadlocked") ELSE state
      /\ outcome' = OutcomeAfter(state, ns)
      /\ Takes(ns, order, after, left)
  BY DEF Accepts
<1>2. /\ wf \in PursuitStates /\ state \in PursuitStates /\ i \in DOMAIN nodes
      /\ ns[i].spec \in PursuitSpecs /\ Belongs(wf, ns[i].spec) /\ ns[i].spec = nodes[i].spec
      /\ PursuitValidates(wf, ns[i].spec, settlement)
      /\ settlement.status = "completed" => settlement.payload \in PursuitPayloads(ns[i].spec)
      /\ state = PursuitApplied(wf, ns[i].spec, settlement, running)
      /\ order = PursuitDispatches(state, running) /\ order \in Seq(PursuitSpecs)
      /\ ns \in Seq(EntryType(PursuitSpecs, Submissions)) /\ DOMAIN ns = DOMAIN nodes
      /\ \A j \in DOMAIN nodes : ns[j].spec = nodes[j].spec
      /\ \A j \in DOMAIN nodes \ {i} : ns[j] = nodes[j]
      /\ ns[i].status = settlement.status /\ nodes[i].counted = 0 /\ ns[i].counted = 1
      /\ settlement.status = "completed" => ns[i].said = {settlement.payload}
  BY AcceptFacts
<1>3. /\ IsStuck(state, ns) <=> ~state.done /\ order = <<>> /\ Running(ns) = {}
      /\ state.done => order = <<>>
      /\ outcome' = IF outcome # "none" THEN outcome
                    ELSE IF state.done THEN state.status
                    ELSE IF IsStuck(state, ns) THEN "deadlocked" ELSE "none"
  BY <1>1 DEF IsStuck, OutcomeAfter, Order
<1>4. /\ wf'.legs = state.legs
      /\ wf'.done <=> state.done \/ IsStuck(state, ns)
  <2> DEFINE ended == Ended(state, "deadlocked")
  <2>1. ended = [state EXCEPT !.done = TRUE, !.status = "deadlocked"]
    BY DEF Ended
  <2>2. wf' = IF IsStuck(state, ns) THEN ended ELSE state
    BY <1>1
  <2>3. state \in StateType
    BY <1>2 DEF PursuitStates
  <2> HIDE DEF state, ns, ended
  <2>4. ended.legs = state.legs /\ ended.done = TRUE
    BY <2>1, <2>3 DEF StateType
  <2> QED
    BY <2>2, <2>4
<1> HIDE DEF ns, state, running, order, after, left
<1>5. ~wf.done /\ outcome = "none"
  BY <1>2 DEF PursuitValidates, NowFits, RunFit
<1>6. NodesFit(wf.legs, nodes, <<>>)
  BY <1>1 DEF NowFits
<1>7. Known(wf.legs, ns[i].spec)
  BY <1>2, <1>6 DEF NodesFit, Known
<1>8. Advances(wf.legs, state.legs, ns[i].spec, Verdict(ns[i]), running)
  <2>1. Advances(wf.legs, state.legs, ns[i].spec, EndVerdict(ns[i].spec, settlement), running)
    BY <1>2, <1>7, AppliedAdvances
  <2>2. EndVerdict(ns[i].spec, settlement) = Verdict(ns[i])
    BY <1>2, VerdictsAgree
  <2> QED
    BY <2>1, <2>2
<1>9. /\ Distinct(order)
      /\ \A n \in DOMAIN order :
           StandsAs(state.legs, order[n], "NotStarted") /\ order[n] \notin running
  BY <1>2, DispatchWaits
<1>10. \A j \in DOMAIN nodes \ {i} : nodes[j].counted = 0 => ns[j].status = "running"
  BY <1>2, <1>5 DEF NowFits, RunFit
<1>11. NodesFit(state.legs, ns, order)
  <2>1. running = RunningSpecs(ns)
    BY DEF running
  <2>2. ns[i].counted # 0
    BY <1>2
  <2> QED
    BY <1>2, <1>6, <1>8, <1>9, <1>10, <2>1, <2>2, AdvancedFit
<1>12. NodesFit(state.legs, after, left)
  BY ONLY <1>1, <1>2, <1>11, TakenFit
<1>13. /\ \A j \in DOMAIN ns : after[j] = ns[j]
       /\ \A j \in DOMAIN after \ DOMAIN ns : after[j].status = "running"
  BY ONLY <1>1, <1>2, TakesFacts
<1>14. ASSUME NEW j \in DOMAIN after, after[j].counted = 0
       PROVE  after[j].status = "running"
  <2>1. CASE j \in DOMAIN ns
    BY <1>2, <1>10, <1>13, <1>14, <2>1
  <2>2. CASE j \notin DOMAIN ns
    BY <1>13, <2>2
  <2> QED
    BY <2>1, <2>2
<1>15. order = <<>> => left = <<>>
  BY <1>1 DEF Takes
<1>16. outcome' # "none" <=> wf'.done
  <2>1. state.done => state.status # "none"
    BY <1>2, StateFacts
  <2> QED
    BY <1>3, <1>4, <1>5, <2>1
<1>17. RunFit'
  BY <1>3, <1>4, <1>14, <1>15, <1>16 DEF RunFit, after, left
<1>18. NodesFit(wf.legs, nodes, Waiting)'
  BY <1>4, <1>12 DEF after, left
<1> QED
  BY <1>17, <1>18 DEF NowFits

LEMMA PursuitKinds ==
  ASSUME PursuitHooks, ~LaunchMayFail, PursuitInv, PursuitInv', Orderly, PendingInv, [Next]_vars
  PROVE  Orderly' /\ PendingInv' /\ StepKinds(PursuitSpecs, Submissions)
<1>1. /\ Good(PursuitStates, PursuitSpecs, Submissions) /\ Linked(PursuitPairs)
      /\ Good(PursuitStates, PursuitSpecs, Submissions)'
  BY DEF PursuitInv
<1>2. HooksTyped(PursuitStates, PursuitSpecs, Submissions, PursuitPairs)
  BY PursuitHooksTyped
<1>3. StartsWithOne
  BY PursuitStartsWithOne
<1> QED
  BY <1>1, <1>2, <1>3, StepInOrder

LEMMA OwnStep ==
  ASSUME PursuitHooks, ~LaunchMayFail, PursuitInv, PursuitInv', OwnInv, [Next]_vars
  PROVE  OwnInv'
<1>1. Orderly' /\ PendingInv' /\ StepKinds(PursuitSpecs, Submissions)
  BY PursuitKinds DEF OwnInv
<1>2. NowFits
  BY DEF OwnInv, NowFits
<1>3. NowFits'
  <2>1. CASE Continues(PursuitSpecs, Submissions)
    BY <1>2, <2>1, ContinuesOwn
  <2>2. CASE Begins
    BY <1>2, <2>2, BeginsOwn
  <2>3. CASE Stops
    BY <1>2, <2>3, StopsOwn
  <2>4. CASE \E i, settlement : Accepts(Submissions, i, settlement)
    BY <1>2, <2>4, AcceptsOwn
  <2> QED
    BY <1>1, <2>1, <2>2, <2>3, <2>4 DEF StepKinds
<1> QED
  BY <1>1, <1>3 DEF OwnInv, NowFits

(* When launches do not fail, the nodes of a run and the items of its       *)
(* pursuit stay side by side: dispatch() orders only what has no node       *)
(* (pursuit/workflow.mjs:110), what it ordered waits until it is launched   *)
(* before anything else is applied (workflow-runtime.ts:288), and each      *)
(* settlement is written to the item of the node that settled.              *)
THEOREM OwnInvariant ==
  ASSUME PursuitHooks, ~LaunchMayFail
  PROVE  Safety => [](PursuitInv /\ OwnInv)
<1>1. Init => OwnInv
  BY OwnInit
<1>2. PursuitInv /\ PursuitInv' /\ OwnInv /\ [Next]_vars => OwnInv'
  BY OwnStep
<1>3. Safety => []PursuitInv
  BY PursuitInvariant
<1> QED
  BY <1>1, <1>2, <1>3, PTL DEF Safety

LEMMA ItemsRecorded ==
  ASSUME PursuitInv, NodesFit(wf.legs, nodes, Waiting)
  PROVE  ItemsMatchNodes
<1> SUFFICES ASSUME NEW l \in Legs, NEW a \in Attempts(l),
                    NEW item \in ToSet(wf.legs[l].attempts[a].items)
             PROVE  /\ item.status = "Success" <=> \E i \in WorkersOf(l, a, item) : Passed(i)
                    /\ item.status = "Blocked" => WorkersOf(l, a, item) = {}
                    /\ item.status = "Failed" =>
                         \E i \in WorkersOf(l, a, item) : nodes[i].status # "running" /\ ~Passed(i)
  BY DEF ItemsMatchNodes
<1> DEFINE leg == wf.legs[l]
           spec == WorkerSpec(l, a, item)
<1>1. PICK k : Place(leg, a, k) /\ At(leg, a, k) = item
  BY DEF ToSet, Place, At, Attempts
<1>2. spec.role = "worker" /\ spec.leg = l
  BY SpecFacts
<1>3. StandsAs(wf.legs, spec, item.status)
  <2>1. Stands(leg, l, spec, item.status)
    BY <1>1 DEF Stands
  <2> QED
    BY <1>2, <2>1 DEF StandsAs, Legs
<1>4. \A i \in WorkersOf(l, a, item) : i \in DOMAIN nodes /\ nodes[i].spec = spec
  BY DEF WorkersOf, Workers
<1>5. \A i \in DOMAIN nodes : nodes[i].spec = spec => i \in WorkersOf(l, a, item)
  BY <1>2 DEF WorkersOf, Workers
<1> HIDE DEF spec
<1>6. ASSUME NEW i \in DOMAIN nodes, nodes[i].spec = spec
      PROVE  /\ item.status = OwnStatus(nodes[i])
             /\ Passed(i) => nodes[i].counted # 0
             /\ Verdict(nodes[i]) = "Success" <=> Passed(i)
             /\ nodes[i].counted # 0 => nodes[i].status # "running"
  <2>1. StandsAs(wf.legs, spec, OwnStatus(nodes[i]))
    BY <1>6 DEF NodesFit
  <2>2. EntryInv(nodes[i])
    BY GoodEntry DEF PursuitInv
  <2>3. wf \in PursuitStates
    BY InvFacts
  <2>4. item.status = OwnStatus(nodes[i])
    BY <1>3, <2>1, <2>3, StandsAsOnce
  <2>5. Verdict(nodes[i]) = "Success" <=> Passed(i)
    BY <1>2, <1>6 DEF Verdict, Passed
  <2>6. Passed(i) => nodes[i].counted # 0
    BY <2>2 DEF EntryInv, Passed
  <2>7. nodes[i].counted # 0 => nodes[i].status # "running"
    BY <2>2 DEF EntryInv
  <2> QED
    BY <2>4, <2>5, <2>6, <2>7
<1>7. item.status \in {"Success", "Failed"} =>
        \E i \in DOMAIN nodes : nodes[i].spec = spec /\ nodes[i].counted # 0
  BY <1>3 DEF NodesFit
<1>8. \A i \in DOMAIN nodes : Verdict(nodes[i]) \in {"Success", "Failed"}
  BY DEF Verdict
<1>9. item.status = "Success" <=> \E i \in WorkersOf(l, a, item) : Passed(i)
  BY <1>4, <1>5, <1>6, <1>7 DEF OwnStatus
<1>10. item.status = "Blocked" => WorkersOf(l, a, item) = {}
  BY <1>4, <1>6, <1>8 DEF OwnStatus
<1>11. item.status = "Failed" =>
         \E i \in WorkersOf(l, a, item) : nodes[i].status # "running" /\ ~Passed(i)
  BY <1>5, <1>6, <1>7 DEF OwnStatus
<1> QED
  BY <1>9, <1>10, <1>11

(* In every pursuit whose launches do not fail a work item is its own:      *)
(* found by name and goal version it is the only one                        *)
(* (pursuit/workflow.mjs:734), the run claims at most one node for it       *)
(* (workflow-runtime.ts:288), and its recorded status is what that node     *)
(* did.                                                                     *)
THEOREM ItemsAreTheirOwnHolds ==
  ASSUME PursuitHooks, ~LaunchMayFail
  PROVE  Safety => []ItemsAreTheirOwn
<1>1. ASSUME PursuitInv, OwnInv, UniqueKeys
      PROVE  ItemsAreTheirOwn
  <2>1. NodesFit(wf.legs, nodes, Waiting)
    BY <1>1 DEF OwnInv
  <2>2. OneNodePerItem
    BY <2>1 DEF NodesFit, OneNodePerItem
  <2>3. ItemsMatchNodes
    BY <1>1, <2>1, ItemsRecorded
  <2> QED
    BY <1>1, <2>2, <2>3 DEF ItemsAreTheirOwn
<1>2. Safety => [](PursuitInv /\ OwnInv)
  BY OwnInvariant
<1>3. Safety => []UniqueKeys
  BY UniqueKeysHold
<1> QED
  BY <1>1, <1>2, <1>3, PTL

-----------------------------------------------------------------------------
(***************************************************************************)
(* What was judged had its reasons, and keeps them: a leg's and an         *)
(* attempt's status follow from the plan and the items, a block from a     *)
(* failed dependency, an outcome from the last leg.                        *)
(***************************************************************************)
AttemptSound(attempt) ==
  /\ attempt.status = "Failed" =>
       \/ attempt.plan = "Failed"
       \/ \E k \in DOMAIN attempt.items : attempt.items[k].status \in {"Failed", "Blocked"}
  /\ attempt.status = "Success" =>
       /\ attempt.plan = "Success" /\ attempt.items # <<>>
       /\ \A k \in DOMAIN attempt.items : attempt.items[k].status = "Success"

BlocksFounded(leg) ==
  \A a, k : Place(leg, a, k) /\ At(leg, a, k).status = "Blocked" =>
    DependencyBlocks(leg, At(leg, a, k))

LegSound(leg) ==
  LET last == Len(leg.attempts) IN
  /\ BlocksFounded(leg)
  /\ \A a \in DOMAIN leg.attempts : AttemptSound(leg.attempts[a])
  /\ \A a \in DOMAIN leg.attempts \ {last} : leg.attempts[a].status = "Failed"
  /\ leg.status = leg.attempts[last].status
  /\ leg.status = "Failed" => last = MaxAttempts

(* What failed or was blocked stays so, and blocks as before.               *)
LEMMA BlockStays ==
  ASSUME NEW leg \in LegType, NEW new \in LegType, KeysDiffer(new), Grows(leg, new),
         NEW x, NEW y, y.deps = x.deps, y.version = x.version, DependencyBlocks(leg, x)
  PROVE  DependencyBlocks(new, y)
<1>1. PICK id \in x.deps : DependencyStatus(leg, x.version, id) \in {"Failed", "Blocked"}
  BY DEF DependencyBlocks
<1>2. PICK a, k : /\ Place(leg, a, k) /\ At(leg, a, k).id = id
                  /\ At(leg, a, k).version = x.version
                  /\ At(leg, a, k).status \in {"Failed", "Blocked"}
  BY <1>1, DependencyFinds
<1>3. /\ Place(new, a, k) /\ At(new, a, k).id = id /\ At(new, a, k).version = x.version
      /\ At(new, a, k).status \in {"Failed", "Blocked"}
  BY <1>2 DEF Grows, ItemGrows, SameKey
<1>4. DependencyStatus(new, At(new, a, k).version, At(new, a, k).id) = At(new, a, k).status
  BY <1>3, DependencyIs
<1> QED
  BY <1>1, <1>3, <1>4 DEF DependencyBlocks

(* A block is founded as long as each new one is.                           *)
LEMMA StaysFounded ==
  ASSUME NEW leg \in LegType, NEW new \in LegType, KeysDiffer(new), Grows(leg, new),
         BlocksFounded(leg),
         \A a, k : Place(new, a, k) /\ At(new, a, k).status = "Blocked" =>
           /\ Place(leg, a, k)
           /\ \/ At(leg, a, k).status = "Blocked"
              \/ DependencyBlocks(leg, At(leg, a, k))
  PROVE  BlocksFounded(new)
<1> SUFFICES ASSUME NEW a, NEW k, Place(new, a, k), At(new, a, k).status = "Blocked"
             PROVE  DependencyBlocks(new, At(new, a, k))
  BY DEF BlocksFounded
<1>1. Place(leg, a, k) /\ DependencyBlocks(leg, At(leg, a, k))
  BY DEF BlocksFounded
<1>2. At(new, a, k).deps = At(leg, a, k).deps /\ At(new, a, k).version = At(leg, a, k).version
  BY <1>1 DEF Grows, ItemGrows, SameKey
<1> QED
  BY <1>1, <1>2, BlockStays

LEMMA SettledFounded ==
  ASSUME NEW leg, LegOK(leg), NEW new, LegOK(new), Grows(leg, new), BlocksFounded(leg),
         NEW spec, NEW settlement, SettledAs(leg, spec, settlement, new)
  PROVE  BlocksFounded(new)
<1>1. leg \in LegType /\ new \in LegType /\ KeysDiffer(new)
  BY DEF LegOK, GraphOK
<1>2. ASSUME NEW a, NEW k, Place(new, a, k), At(new, a, k).status = "Blocked"
      PROVE  Place(leg, a, k) /\ At(leg, a, k).status = "Blocked"
  <2>1. CASE \E plan : Planned(leg, spec.attempt, plan, new)
    BY <1>2, <2>1 DEF Planned, Place, At
  <2>2. CASE PlanFailed(leg, spec.attempt, new)
    BY <1>2, <2>2 DEF PlanFailed, Place, At
  <2>3. CASE \E m : Worked(leg, spec.attempt, m, VerdictOf(settlement), new)
    <3>1. PICK m : Worked(leg, spec.attempt, m, VerdictOf(settlement), new)
      BY <2>3
    <3>2. Place(leg, a, k)
      BY <1>2, <3>1 DEF Worked, LegMoves, AttemptMoves, Place
    <3>3. VerdictOf(settlement) # "Blocked"
      BY DEF VerdictOf
    <3> QED
      BY <1>2, <3>1, <3>2, <3>3 DEF Worked
  <2> QED
    BY <2>1, <2>2, <2>3 DEF SettledAs
<1> QED
  BY <1>1, <1>2, StaysFounded

LEMMA PropagatedFounded ==
  ASSUME NEW leg, LegOK(leg), BlocksFounded(leg), NEW l, NEW running, NEW new,
         new = PropagatedBlocks(leg, l, running)
  PROVE  BlocksFounded(new)
<1> DEFINE U == {x \in LegType : LegOK(x) /\ BlocksFounded(x)}
<1>1. leg \in U
  BY DEF LegOK
<1>2. ASSUME NEW x \in U PROVE BlockOnce(x, l, running) \in U
  <2> DEFINE y == BlockOnce(x, l, running)
  <2>1. y \in LegType /\ LegMoves(x, y) /\ BlocksOnly(x, y, l, running)
    BY BlockOnceMoves, BlockOnceAt
  <2> HIDE DEF y
  <2>2. LegOK(y) /\ Grows(x, y)
    BY <2>1, LegMovesOK
  <2>3. ASSUME NEW a, NEW k, Place(y, a, k), At(y, a, k).status = "Blocked"
        PROVE  /\ Place(x, a, k)
               /\ \/ At(x, a, k).status = "Blocked"
                  \/ DependencyBlocks(x, At(x, a, k))
    <3>1. Place(x, a, k)
      BY <2>1, <2>3 DEF LegMoves, AttemptMoves, Place
    <3> QED
      BY <2>1, <2>3, <3>1 DEF BlocksOnly
  <2>4. BlocksFounded(y)
    BY <2>1, <2>2, <2>3, StaysFounded DEF LegOK, GraphOK
  <2> QED
    BY <2>1, <2>2, <2>4 DEF y
<1>3. Len(AllItems(leg)) \in Nat
  BY AllItemsType DEF LegOK
<1> HIDE DEF U
<1>4. new \in U
  BY <1>1, <1>2, <1>3, BlocksKeep
<1> QED
  BY <1>4 DEF U

(* A leg whose last attempt goes on.                                        *)
OpenSound(leg) ==
  /\ Open(leg) /\ BlocksFounded(leg)
  /\ \A a \in DOMAIN leg.attempts \ {Len(leg.attempts)} :
       leg.attempts[a].status = "Failed" /\ AttemptSound(leg.attempts[a])

KeepsJudged(leg, new) ==
  /\ DOMAIN new.attempts = DOMAIN leg.attempts
  /\ \A a \in DOMAIN leg.attempts \ {Len(leg.attempts)} :
       /\ new.attempts[a].plan = leg.attempts[a].plan
       /\ new.attempts[a].status = leg.attempts[a].status
       /\ new.attempts[a].items = leg.attempts[a].items

LEMMA OpenIsSound ==
  ASSUME NEW leg, LegOK(leg)
  PROVE  /\ Open(leg) /\ LegSound(leg) => OpenSound(leg)
         /\ OpenSound(leg) => LegSound(leg)
<1> DEFINE last == Len(leg.attempts)
<1>1. Open(leg) => AttemptSound(leg.attempts[last]) /\ leg.status = leg.attempts[last].status
                   /\ leg.status # "Failed"
  BY DEF Open, AttemptSound
<1> QED
  BY <1>1 DEF OpenSound, LegSound

LEMMA KeepsSound ==
  ASSUME NEW leg, LegOK(leg), OpenSound(leg), NEW new, LegOK(new), Open(new),
         KeepsJudged(leg, new), BlocksFounded(new)
  PROVE  OpenSound(new)
<1>1. /\ Len(leg.attempts) \in Nat /\ DOMAIN leg.attempts = 1..Len(leg.attempts)
      /\ Len(new.attempts) \in Nat /\ DOMAIN new.attempts = 1..Len(new.attempts)
      /\ Len(leg.attempts) >= 1 /\ Len(new.attempts) >= 1
  BY LegFacts DEF LegOK, ShapeOK
<1>2. DOMAIN new.attempts = DOMAIN leg.attempts
  BY DEF KeepsJudged
<1>3. Len(new.attempts) = Len(leg.attempts)
  BY <1>1, <1>2
<1>4. ASSUME NEW a \in DOMAIN leg.attempts \ {Len(leg.attempts)}
      PROVE  new.attempts[a].status = "Failed" /\ AttemptSound(new.attempts[a])
  BY DEF KeepsJudged, OpenSound, AttemptSound
<1> QED
  BY <1>2, <1>3, <1>4 DEF OpenSound

LEMMA SettledKeeps ==
  ASSUME NEW leg, LegOK(leg), NEW new, Grows(leg, new), NEW spec,
         spec.attempt = Len(leg.attempts), NEW settlement,
         SettledAs(leg, spec, settlement, new)
  PROVE  KeepsJudged(leg, new)
<1>1. \A a \in DOMAIN leg.attempts \ {Len(leg.attempts)} : leg.attempts[a].status # "Running"
  BY DEF LegOK, ShapeOK
<1>2. \A a \in DOMAIN leg.attempts \ {Len(leg.attempts)} :
        /\ new.attempts[a].status = leg.attempts[a].status
        /\ new.attempts[a].items = leg.attempts[a].items
  BY <1>1 DEF Grows
<1>3. CASE \E plan : Planned(leg, spec.attempt, plan, new)
  BY <1>2, <1>3 DEF Planned, KeepsJudged
<1>4. CASE PlanFailed(leg, spec.attempt, new)
  BY <1>2, <1>4 DEF PlanFailed, KeepsJudged
<1>5. CASE \E m : Worked(leg, spec.attempt, m, VerdictOf(settlement), new)
  <2>1. LegMoves(leg, new)
    BY <1>5 DEF Worked
  <2> QED
    BY <1>2, <2>1 DEF LegMoves, AttemptMoves, KeepsJudged
<1> QED
  BY <1>3, <1>4, <1>5 DEF SettledAs

LEMMA PropagatedKeeps ==
  ASSUME NEW leg, LegOK(leg), NEW new, Grows(leg, new), LegMoves(leg, new)
  PROVE  KeepsJudged(leg, new)
<1>1. \A a \in DOMAIN leg.attempts \ {Len(leg.attempts)} : leg.attempts[a].status # "Running"
  BY DEF LegOK, ShapeOK
<1> QED
  BY <1>1 DEF Grows, LegMoves, AttemptMoves, KeepsJudged

(* The settlement and the blocks that spread from it leave an open leg      *)
(* sound.                                                                   *)
LEMMA PropagatedSound ==
  ASSUME NEW old, LegOK(old), OpenSound(old), NEW y, LegOK(y), Open(y), Grows(old, y),
         NEW spec, spec.attempt = Len(old.attempts), NEW settlement,
         SettledAs(old, spec, settlement, y), NEW l, NEW running, NEW leg,
         leg = PropagatedBlocks(y, l, running)
  PROVE  /\ LegOK(leg) /\ OpenSound(leg) /\ leg.next = y.next
         /\ Len(leg.attempts) = Len(old.attempts) /\ Len(y.attempts) = Len(old.attempts)
<1>1. BlocksFounded(y)
  BY SettledFounded DEF OpenSound
<1>2. KeepsJudged(old, y)
  BY SettledKeeps
<1>3. OpenSound(y)
  BY <1>1, <1>2, KeepsSound
<1>4. LegOK(leg) /\ Grows(y, leg) /\ LegMoves(y, leg)
  BY PropagatedShifts
<1>5. BlocksFounded(leg)
  BY <1>1, PropagatedFounded
<1>6. /\ Len(y.attempts) \in Nat /\ DOMAIN y.attempts = 1..Len(y.attempts)
      /\ Len(y.attempts) >= 1 /\ y \in LegType /\ leg \in LegType
      /\ Len(old.attempts) \in Nat /\ DOMAIN old.attempts = 1..Len(old.attempts)
      /\ Len(old.attempts) >= 1
  BY <1>4, LegFacts DEF LegOK, ShapeOK
<1>7. Len(leg.attempts) = Len(y.attempts) /\ Open(leg)
  BY <1>4, <1>6, OpenMoves
<1>8. OpenSound(leg)
  BY <1>3, <1>4, <1>5, <1>7, PropagatedKeeps, KeepsSound
<1>9. Len(y.attempts) = Len(old.attempts)
  <2>1. DOMAIN y.attempts = DOMAIN old.attempts
    BY <1>2 DEF KeepsJudged
  <2> QED
    BY <1>6, <2>1
<1> QED
  BY <1>4, <1>7, <1>8, <1>9 DEF LegMoves

(* What each verdict says of the attempt it is about.                       *)
LEMMA VerdictSays ==
  ASSUME NEW attempt \in AttemptType, NEW l, NEW running, NEW verdict,
         verdict = AttemptVerdict(attempt, l, running)
  PROVE  /\ verdict \in {"Running", "Failed", "Success"}
         /\ verdict = "Failed" =>
              \/ attempt.plan = "Failed"
              \/ \E k \in DOMAIN attempt.items : attempt.items[k].status \in {"Failed", "Blocked"}
         /\ verdict = "Success" =>
              /\ attempt.plan = "Success" /\ attempt.items # <<>>
              /\ \A k \in DOMAIN attempt.items : attempt.items[k].status = "Success"
<1> DEFINE items == ToSet(attempt.items)
           won == /\ attempt.plan = "Success"
                  /\ items # {}
                  /\ \A item \in items : EffectiveStatus(l, item, running) = "Success"
           lost == /\ attempt.plan = "Success"
                   /\ \E item \in items : item.status \in {"Failed", "Blocked"}
                   /\ \A item \in items : EffectiveStatus(l, item, running) \in ItemTerminal
           fails == attempt.plan = "Failed"
<1>1. verdict = CASE fails -> "Failed" [] won -> "Success" [] lost -> "Failed"
                  [] OTHER -> "Running"
  BY DEF AttemptVerdict
<1>2. items = {attempt.items[k] : k \in DOMAIN attempt.items}
  BY DEF ToSet
<1>3. won => /\ attempt.plan = "Success" /\ attempt.items # <<>>
             /\ \A k \in DOMAIN attempt.items : attempt.items[k].status = "Success"
  <2>1. DOMAIN <<>> = {}
    OBVIOUS
  <2>2. \A item : EffectiveStatus(l, item, running) = "Success" => item.status = "Success"
    BY DEF EffectiveStatus
  <2>3. ASSUME won PROVE attempt.items # <<>>
    <3>1. PICK item : item \in items
      BY <2>3
    <3> HIDE DEF items
    <3>2. PICK k \in DOMAIN attempt.items : item = attempt.items[k]
      BY <1>2, <3>1
    <3> QED
      BY <2>1, <3>2
  <2>4. ASSUME won, NEW k \in DOMAIN attempt.items PROVE attempt.items[k].status = "Success"
    <3>1. attempt.items[k] \in items
      BY <1>2
    <3> QED
      BY <2>2, <2>4, <3>1
  <2> QED
    BY <2>3, <2>4
<1>4. lost => \E k \in DOMAIN attempt.items : attempt.items[k].status \in {"Failed", "Blocked"}
  BY <1>2
<1> HIDE DEF won, lost, fails
<1>5. /\ verdict = "Failed" => fails \/ lost
      /\ verdict = "Success" => won
      /\ verdict \in {"Running", "Failed", "Success"}
  <2>1. won = TRUE \/ won = FALSE
    BY DEF won
  <2> QED
    BY <1>1
<1> QED
  BY <1>3, <1>4, <1>5 DEF fails

LEMMA JudgedFounded ==
  ASSUME NEW leg, LegOK(leg), Open(leg), BlocksFounded(leg), NEW y, LegOK(y),
         NEW verdict, NEW status, NEW more \in BOOLEAN, Judges(leg, y, verdict, status, more)
  PROVE  BlocksFounded(y)
<1> DEFINE last == Len(leg.attempts)
<1>1. /\ leg \in LegType /\ y \in LegType /\ KeysDiffer(y)
      /\ last \in Nat /\ DOMAIN leg.attempts = 1..last /\ last >= 1
      /\ Len(y.attempts) \in Nat /\ DOMAIN y.attempts = 1..Len(y.attempts)
  BY LegFacts DEF LegOK, ShapeOK, GraphOK
<1>2. /\ Len(y.attempts) = IF more THEN last + 1 ELSE last
      /\ \A b \in 1..last : /\ y.attempts[b].items = leg.attempts[b].items
                            /\ b # last => y.attempts[b].status = leg.attempts[b].status
      /\ more => y.attempts[last + 1] = NewAttempt
  BY DEF Judges
<1>3. leg.attempts[last].status = "Running"
  BY DEF Open
<1> HIDE DEF last
<1>4. DOMAIN leg.attempts \subseteq DOMAIN y.attempts
      /\ \A b \in DOMAIN y.attempts \ DOMAIN leg.attempts : more /\ b = last + 1
  BY <1>1, <1>2
<1>5. \A a, k : Place(leg, a, k) => Place(y, a, k) /\ At(y, a, k) = At(leg, a, k)
  BY <1>1, <1>2, <1>4 DEF Place, At
<1>6. Grows(leg, y)
  BY <1>1, <1>2, <1>3, <1>4, <1>5 DEF Grows, ItemGrows, SameKey
<1>7. ASSUME NEW a, NEW k, Place(y, a, k)
      PROVE  Place(leg, a, k) /\ At(leg, a, k) = At(y, a, k)
  <2>1. CASE a \in DOMAIN leg.attempts
    BY <1>1, <1>2, <1>7, <2>1 DEF Place, At
  <2>2. CASE a \notin DOMAIN leg.attempts
    <3>1. y.attempts[a] = NewAttempt
      BY <1>2, <1>4, <1>7, <2>2 DEF Place
    <3>2. NewAttempt.items = <<>> /\ DOMAIN <<>> = {}
      BY DEF NewAttempt
    <3> QED
      BY <1>7, <3>1, <3>2 DEF Place
  <2> QED
    BY <2>1, <2>2
<1> QED
  BY <1>1, <1>6, <1>7, StaysFounded

LEMMA JudgedSound ==
  ASSUME NEW leg, LegOK(leg), OpenSound(leg), NEW y, LegOK(y),
         NEW verdict \in {"Failed", "Success"}, NEW l, NEW running,
         verdict = AttemptVerdict(leg.attempts[Len(leg.attempts)], l, running),
         NEW status, NEW more \in BOOLEAN, Judges(leg, y, verdict, status, more),
         IF more THEN status = leg.status /\ verdict = "Failed"
                 ELSE status = verdict /\ (verdict = "Failed" => ~AttemptsLeft(leg))
  PROVE  LegSound(y)
<1> DEFINE last == Len(leg.attempts)
<1>1. /\ leg \in LegType /\ y \in LegType
      /\ last \in Nat /\ DOMAIN leg.attempts = 1..last /\ last >= 1 /\ last <= MaxAttempts
      /\ Len(y.attempts) \in Nat /\ DOMAIN y.attempts = 1..Len(y.attempts)
      /\ leg.attempts[last] \in AttemptType
  BY LegFacts, AttemptsAssumption DEF LegOK, ShapeOK
<1>2. /\ Len(y.attempts) = IF more THEN last + 1 ELSE last
      /\ y.status = status /\ y.attempts[last].status = verdict
      /\ \A b \in 1..last : /\ y.attempts[b].items = leg.attempts[b].items
                            /\ y.attempts[b].plan = leg.attempts[b].plan
                            /\ b # last => y.attempts[b].status = leg.attempts[b].status
      /\ more => y.attempts[last + 1] = NewAttempt
  BY DEF Judges
<1>3. BlocksFounded(y)
  BY JudgedFounded DEF OpenSound
<1>4. leg.status = "Running" /\ \A a \in DOMAIN leg.attempts \ {last} :
        leg.attempts[a].status = "Failed" /\ AttemptSound(leg.attempts[a])
  BY DEF OpenSound, Open
<1>5. AttemptSound(y.attempts[last])
  <2> DEFINE attempt == leg.attempts[last]
  <2>1. /\ verdict = "Failed" =>
             \/ attempt.plan = "Failed"
             \/ \E k \in DOMAIN attempt.items : attempt.items[k].status \in {"Failed", "Blocked"}
        /\ verdict = "Success" =>
             /\ attempt.plan = "Success" /\ attempt.items # <<>>
             /\ \A k \in DOMAIN attempt.items : attempt.items[k].status = "Success"
    <3>1. attempt \in AttemptType /\ verdict = AttemptVerdict(attempt, l, running)
      BY <1>1
    <3> HIDE DEF attempt
    <3> QED
      BY <3>1, VerdictSays
  <2>2. y.attempts[last].items = attempt.items /\ y.attempts[last].plan = attempt.plan
    BY <1>1, <1>2
  <2> QED
    BY <1>2, <2>1, <2>2 DEF AttemptSound
<1>6. NewAttempt.status = "Running"
  BY DEF NewAttempt
<1>7. AttemptsLeft(leg) <=> last < MaxAttempts
  BY DEF AttemptsLeft
<1> HIDE DEF last
<1>8. ASSUME NEW b \in DOMAIN y.attempts
      PROVE  AttemptSound(y.attempts[b]) /\ (b # Len(y.attempts) => y.attempts[b].status = "Failed")
  <2>1. CASE b \in 1..last /\ b # last
    BY <1>1, <1>2, <1>4, <2>1 DEF AttemptSound
  <2>2. CASE b = last
    <3>1. b # Len(y.attempts) => more
      BY <1>2, <2>2
    <3>2. b # Len(y.attempts) => y.attempts[b].status = "Failed"
      BY <1>2, <2>2, <3>1
    <3> QED
      BY <1>5, <2>2, <3>2
  <2>3. CASE b \notin 1..last
    <3>1. more /\ b = last + 1
      BY <1>1, <1>2, <1>8, <2>3
    <3> QED
      BY <1>2, <1>6, <3>1 DEF AttemptSound
  <2> QED
    BY <2>1, <2>2, <2>3
<1>9. y.status = y.attempts[Len(y.attempts)].status
  BY <1>2, <1>4, <1>6
<1>10. y.status = "Failed" => Len(y.attempts) = MaxAttempts
  BY <1>1, <1>2, <1>4, <1>7, AttemptsAssumption
<1> QED
  BY <1>3, <1>8, <1>9, <1>10 DEF LegSound

LegsSound(legs) ==
  \A m \in DOMAIN legs : LegSound(legs[m]) /\ (m # Len(legs) => legs[m].status = "Success")
StateSound(state) ==
  /\ LegsSound(state.legs)
  /\ ~state.done => state.legs[Len(state.legs)].status = "Running"
  /\ Predefined(state) => Len(state.legs) <= state.goals
Won(state) ==
  LET l == Len(state.legs) IN
  state.legs[l].status = "Success" /\ ~HasNextLeg(state, state.legs[l], l)
Lost(state) == state.legs[Len(state.legs)].status = "Failed"
Fair(state) ==
  state.done => \/ state.status = "success" /\ Won(state)
                \/ state.status = "failure" /\ Lost(state)

LEMMA NewLegSound == LegSound(NewLeg) /\ NewLeg.status = "Running"
<1>1. /\ NewLeg.attempts = <<NewAttempt>> /\ NewLeg.status = "Running"
      /\ NewAttempt.status = "Running" /\ NewAttempt.items = <<>>
  BY DEF NewLeg, NewAttempt
<1>2. Len(<<NewAttempt>>) = 1 /\ DOMAIN <<NewAttempt>> = {1}
      /\ <<NewAttempt>>[1] = NewAttempt /\ DOMAIN <<>> = {}
  OBVIOUS
<1>3. \A a \in DOMAIN NewLeg.attempts : NewLeg.attempts[a] = NewAttempt
  BY <1>1, <1>2
<1>4. \A a, k : ~Place(NewLeg, a, k)
  BY <1>1, <1>2, <1>3 DEF Place
<1> QED
  BY <1>1, <1>2, <1>4 DEF LegSound, BlocksFounded, AttemptSound

LEMMA LegsSoundOn ==
  ASSUME NEW state \in PursuitStates, LegsSound(state.legs), NEW y \in LegType, LegSound(y),
         NEW l, l = Len(state.legs), NEW legs, legs = WithLast(state, y)
  PROVE  LegsSound(legs) /\ Len(legs) = l /\ legs[l] = y /\ legs \in Seq(LegType)
<1>1. l \in Nat /\ l >= 1 /\ DOMAIN state.legs = 1..l /\ state.legs \in Seq(LegType)
  BY StateFacts DEF PursuitStates, StateType
<1>2. legs = [state.legs EXCEPT ![l] = y]
  BY DEF WithLast
<1>3. /\ legs \in Seq(LegType) /\ Len(legs) = l /\ DOMAIN legs = 1..l /\ legs[l] = y
      /\ \A m \in 1..l : m # l => legs[m] = state.legs[m]
  BY <1>1, <1>2
<1> QED
  BY <1>1, <1>3 DEF LegsSound

LEMMA LegsSoundMore ==
  ASSUME NEW with \in Seq(LegType), LegsSound(with), NEW l, l = Len(with),
         with[l].status = "Success", NEW legs, legs = Append(with, NewLeg)
  PROVE  LegsSound(legs) /\ Len(legs) = l + 1 /\ legs[l + 1] = NewLeg
<1>1. /\ l \in Nat /\ DOMAIN with = 1..l
      /\ Len(legs) = l + 1 /\ DOMAIN legs = 1..(l + 1) /\ legs[l + 1] = NewLeg
      /\ \A m \in 1..l : legs[m] = with[m]
  OBVIOUS
<1>2. ASSUME NEW m \in 1..(l + 1)
      PROVE  LegSound(legs[m]) /\ (m # l + 1 => legs[m].status = "Success")
  <2>1. CASE m = l + 1
    BY <1>1, <2>1, NewLegSound
  <2>2. CASE m = l
    BY <1>1, <2>2 DEF LegsSound
  <2>3. CASE m # l /\ m # l + 1
    BY <1>1, <2>3 DEF LegsSound
  <2> QED
    BY <2>1, <2>2, <2>3
<1> QED
  BY <1>1, <1>2 DEF LegsSound

(* What reconcile makes of a sound state is sound, and an end is earned.    *)
LEMMA ConcludedSound ==
  ASSUME NEW state \in PursuitStates, StateSound(state), ~state.done, NEW l, l = Len(state.legs),
         NEW leg, LegOK(leg), OpenSound(leg), NEW running, NEW verdict,
         verdict = AttemptVerdict(leg.attempts[Len(leg.attempts)], l, running),
         NEW new \in PursuitStates, new.goals = state.goals, Concludes(state, leg, verdict, new)
  PROVE  StateSound(new) /\ Fair(new)
<1>1. /\ l \in Nat /\ DOMAIN state.legs = 1..l /\ l >= 1 /\ l \in DOMAIN new.legs
      /\ LegsSound(state.legs) /\ leg \in LegType
      /\ Predefined(state) => l <= state.goals
      /\ state.goals \in Nat
  <2>1. l \in Nat /\ DOMAIN state.legs = 1..l /\ l >= 1 /\ leg \in LegType /\ state.goals \in Nat
    BY StateFacts DEF LegOK
  <2>2. KeysDiffer(leg)
    BY DEF LegOK, GraphOK
  <2>3. LastDiffers(state.legs, new.legs)
    BY <2>1, <2>2, ConcludedLast
  <2> QED
    BY <2>1, <2>3 DEF LastDiffers, StateSound
<1>2. leg.status = "Running" /\ LegSound(leg)
  BY OpenIsSound DEF OpenSound, Open
<1>3. \A y \in LegType : new.legs = WithLast(state, y) \/ new.legs = Append(WithLast(state, y), NewLeg)
        => new.legs[l] = y /\ LegOK(y)
  <2>1. \A m \in DOMAIN new.legs : LegOK(new.legs[m])
    BY StateFacts DEF LegsOK
  <2> QED
    BY <1>1, <2>1, WithLastIs
<1>4. Predefined(new) <=> Predefined(state)
  BY DEF Predefined
<1>5. CASE verdict = "Running" /\ new.legs = WithLast(state, leg) /\ ~new.done
  <2>1. LegsSound(new.legs) /\ Len(new.legs) = l /\ new.legs[l] = leg
    BY <1>1, <1>2, <1>5, LegsSoundOn
  <2> QED
    BY <1>1, <1>2, <1>4, <1>5, <2>1 DEF StateSound, Fair
<1>6. CASE /\ verdict = "Failed" /\ ~new.done
           /\ \E y : /\ Judges(leg, y, verdict, leg.status, TRUE)
                     /\ new.legs = WithLast(state, y)
  <2>1. PICK y : Judges(leg, y, verdict, leg.status, TRUE) /\ new.legs = WithLast(state, y)
    BY <1>6
  <2>2. y \in LegType /\ y.status = "Running"
    BY <1>2, <2>1 DEF Judges
  <2>3. LegOK(y)
    BY <1>3, <2>1, <2>2
  <2>4. LegSound(y)
    BY <1>6, <2>1, <2>3, JudgedSound
  <2>5. LegsSound(new.legs) /\ Len(new.legs) = l /\ new.legs[l] = y
    BY <1>1, <2>1, <2>2, <2>4, LegsSoundOn
  <2> QED
    BY <1>1, <1>4, <1>6, <2>2, <2>5 DEF StateSound, Fair
<1>7. CASE /\ verdict = "Failed" /\ ~AttemptsLeft(leg) /\ new.done /\ new.status = "failure"
           /\ \E y : /\ Judges(leg, y, verdict, verdict, FALSE)
                     /\ new.legs = WithLast(state, y)
  <2>1. PICK y : Judges(leg, y, verdict, verdict, FALSE) /\ new.legs = WithLast(state, y)
    BY <1>7
  <2>2. y \in LegType /\ y.status = "Failed"
    BY <1>7, <2>1 DEF Judges
  <2>3. LegOK(y)
    BY <1>3, <2>1, <2>2
  <2>4. LegSound(y)
    BY <1>7, <2>1, <2>3, JudgedSound
  <2>5. LegsSound(new.legs) /\ Len(new.legs) = l /\ new.legs[l] = y
    BY <1>1, <2>1, <2>2, <2>4, LegsSoundOn
  <2> QED
    BY <1>1, <1>4, <1>7, <2>2, <2>5 DEF StateSound, Fair, Lost
<1>8. CASE /\ verdict = "Success" /\ HasNextLeg(state, leg, l) /\ ~new.done
           /\ \E y : /\ Judges(leg, y, verdict, verdict, FALSE)
                     /\ new.legs = Append(WithLast(state, y), NewLeg)
  <2>1. PICK y : /\ Judges(leg, y, verdict, verdict, FALSE)
                 /\ new.legs = Append(WithLast(state, y), NewLeg)
    BY <1>8
  <2>2. y \in LegType /\ y.status = "Success"
    BY <1>8, <2>1 DEF Judges
  <2>3. LegOK(y)
    BY <1>3, <2>1, <2>2
  <2>4. LegSound(y)
    BY <1>8, <2>1, <2>3, JudgedSound
  <2>5. LegsSound(new.legs) /\ Len(new.legs) = l + 1 /\ new.legs[l + 1] = NewLeg
    <3>1. PICK with : with = WithLast(state, y)
      OBVIOUS
    <3>2. LegsSound(with) /\ Len(with) = l /\ with[l] = y /\ with \in Seq(LegType)
      BY <1>1, <2>2, <2>4, <3>1, LegsSoundOn
    <3> QED
      BY <2>1, <2>2, <3>1, <3>2, LegsSoundMore
  <2>6. Predefined(state) => l + 1 <= state.goals
    BY <1>1, <1>8 DEF HasNextLeg
  <2> QED
    BY <1>4, <1>8, <2>5, <2>6, NewLegSound DEF StateSound, Fair
<1>9. CASE /\ verdict = "Success" /\ ~HasNextLeg(state, leg, l)
           /\ new.done /\ new.status = "success"
           /\ \E y : /\ Judges(leg, y, verdict, verdict, FALSE)
                     /\ new.legs = WithLast(state, y)
  <2>1. PICK y : Judges(leg, y, verdict, verdict, FALSE) /\ new.legs = WithLast(state, y)
    BY <1>9
  <2>2. y \in LegType /\ y.status = "Success" /\ y.next = leg.next
    BY <1>9, <2>1 DEF Judges
  <2>3. LegOK(y)
    BY <1>3, <2>1, <2>2
  <2>4. LegSound(y)
    BY <1>9, <2>1, <2>3, JudgedSound
  <2>5. LegsSound(new.legs) /\ Len(new.legs) = l /\ new.legs[l] = y
    BY <1>1, <2>1, <2>2, <2>4, LegsSoundOn
  <2>6. ~HasNextLeg(new, y, l)
    BY <1>4, <1>9, <2>2 DEF HasNextLeg
  <2> QED
    BY <1>1, <1>4, <1>9, <2>2, <2>5, <2>6 DEF StateSound, Fair, Won
<1> QED
  BY <1>5, <1>6, <1>7, <1>8, <1>9 DEF Concludes

LEMMA ConcludedKeeps ==
  ASSUME NEW state \in PursuitStates, NEW leg \in LegType, NEW verdict, NEW new,
         Concludes(state, leg, verdict, new), NEW l, l = Len(state.legs)
  PROVE  /\ LastDiffers(state.legs, new.legs) /\ new.legs[l].next = leg.next
         /\ Len(new.legs[l].attempts) \in {Len(leg.attempts), Len(leg.attempts) + 1}
<1>1. \E y \in LegType :
        /\ y.next = leg.next /\ Len(y.attempts) \in {Len(leg.attempts), Len(leg.attempts) + 1}
        /\ new.legs = WithLast(state, y) \/ new.legs = Append(WithLast(state, y), NewLeg)
  <2>1. CASE new.legs = WithLast(state, leg)
    BY <2>1
  <2>2. CASE \E y, status : \E more \in BOOLEAN :
               /\ Judges(leg, y, verdict, status, more)
               /\ new.legs = WithLast(state, y) \/ new.legs = Append(WithLast(state, y), NewLeg)
    <3>1. PICK y, status : \E more \in BOOLEAN :
            /\ Judges(leg, y, verdict, status, more)
            /\ new.legs = WithLast(state, y) \/ new.legs = Append(WithLast(state, y), NewLeg)
      BY <2>2
    <3>2. y \in LegType /\ y.next = leg.next
          /\ Len(y.attempts) \in {Len(leg.attempts), Len(leg.attempts) + 1}
      BY <3>1 DEF Judges
    <3> QED
      BY <3>1, <3>2
  <2> QED
    BY <2>1, <2>2 DEF Concludes
<1>2. PICK y \in LegType :
        /\ y.next = leg.next /\ Len(y.attempts) \in {Len(leg.attempts), Len(leg.attempts) + 1}
        /\ new.legs = WithLast(state, y) \/ new.legs = Append(WithLast(state, y), NewLeg)
  BY <1>1
<1>3. LastDiffers(state.legs, new.legs) /\ new.legs[l] = y
  BY <1>2, WithLastIs
<1> QED
  BY <1>2, <1>3

LEMMA NextIs ==
  ASSUME NEW leg, NEW new, NEW spec, NEW settlement, SettledAs(leg, spec, settlement, new)
  PROVE  /\ leg.attempts[spec.attempt].plan # "NotStarted" => new.next = leg.next
         /\ spec.role = "planner" /\ settlement.status = "completed"
              => (settlement.payload.nextGoal => new.next)
<1>1. CASE spec.role = "planner" /\ settlement.status = "completed"
  <2>1. /\ leg.attempts[spec.attempt].plan = "NotStarted"
        /\ settlement.payload \in Plans
        /\ Planned(leg, spec.attempt, settlement.payload, new)
    BY <1>1 DEF SettledAs
  <2>2. new.next = IF settlement.payload.legGoal THEN settlement.payload.nextGoal
                   ELSE leg.next \/ settlement.payload.nextGoal
    BY <2>1 DEF Planned
  <2> QED
    BY <2>1, <2>2
<1>2. CASE spec.role = "planner" /\ settlement.status # "completed"
  BY <1>2 DEF SettledAs
<1>3. CASE spec.role = "worker"
  BY <1>3 DEF SettledAs, Worked, LegMoves
<1> QED
  BY <1>1, <1>2, <1>3 DEF SettledAs

(* What a settlement leaves of the legs, and of the wish for a further one. *)
NextFits(state, spec, settlement, new) ==
  LET l == Len(state.legs)
      a == Len(state.legs[l].attempts)
  IN /\ spec.leg = l /\ spec.attempt = a
     /\ LastDiffers(state.legs, new.legs)
     /\ Len(new.legs[l].attempts) \in {a, a + 1}
     /\ state.legs[l].attempts[a].plan # "NotStarted" => new.legs[l].next = state.legs[l].next
     /\ spec.role = "planner" /\ settlement.status = "completed"
          => (settlement.payload.nextGoal => new.legs[l].next)

LEMMA AppliedSound ==
  ASSUME NEW state \in PursuitStates, StateSound(state), NEW spec \in PursuitSpecs,
         Belongs(state, spec), NEW settlement, PursuitValidates(state, spec, settlement),
         settlement.status = "completed" => settlement.payload \in PursuitPayloads(spec),
         NEW running, NEW new \in PursuitStates,
         new = PursuitApplied(state, spec, settlement, running)
  PROVE  StateSound(new) /\ Fair(new) /\ NextFits(state, spec, settlement, new)
<1>1. PICK y : AppliedFrom(state, spec, settlement, running, y, new)
  BY AppliedIs
<1> DEFINE l == Len(state.legs)
           old == state.legs[l]
           leg == PropagatedBlocks(y, l, running)
           verdict == AttemptVerdict(leg.attempts[Len(leg.attempts)], l, running)
<1>2. /\ spec.leg = l /\ Open(old) /\ spec.attempt = Len(old.attempts)
      /\ LegOK(y) /\ Open(y) /\ Grows(old, y) /\ SettledAs(old, spec, settlement, y)
      /\ new.goals = state.goals /\ Concludes(state, leg, verdict, new)
  BY <1>1 DEF AppliedFrom
<1>3. ~state.done
  BY DEF PursuitValidates
<1>4. LegOK(old) /\ LegSound(old)
  <2>1. l \in DOMAIN state.legs
    BY StateFacts
  <2> QED
    BY <2>1, StateFacts DEF LegsOK, StateSound, LegsSound
<1> HIDE DEF old
<1>5. OpenSound(old)
  BY <1>2, <1>4, OpenIsSound
<1>6. PICK some : some = leg
  OBVIOUS
<1>7. /\ LegOK(some) /\ OpenSound(some) /\ some.next = y.next
      /\ Len(some.attempts) = Len(old.attempts)
  BY <1>2, <1>4, <1>5, <1>6, PropagatedSound
<1>8. Concludes(state, some, AttemptVerdict(some.attempts[Len(some.attempts)], l, running), new)
  BY <1>2, <1>6
<1> HIDE DEF leg, verdict
<1>9. StateSound(new) /\ Fair(new)
  BY <1>2, <1>3, <1>7, <1>8, ConcludedSound
<1>10. /\ LastDiffers(state.legs, new.legs) /\ new.legs[l].next = some.next
       /\ Len(new.legs[l].attempts) \in {Len(some.attempts), Len(some.attempts) + 1}
  <2>1. some \in LegType
    BY <1>7 DEF LegOK
  <2>2. PICK due : Concludes(state, some, due, new)
    BY <1>8
  <2> QED
    BY <2>1, <2>2, ConcludedKeeps
<1>11. /\ old.attempts[spec.attempt].plan # "NotStarted" => y.next = old.next
       /\ spec.role = "planner" /\ settlement.status = "completed"
            => (settlement.payload.nextGoal => y.next)
  BY <1>2, NextIs
<1>12. NextFits(state, spec, settlement, new)
  BY <1>2, <1>7, <1>10, <1>11 DEF NextFits, old
<1> QED
  BY <1>9, <1>12

(* A planner of a leg's last attempt that wished for a further leg is       *)
(* heard.                                                                   *)
Declares(legs, entry) ==
  /\ entry.spec.role = "planner" /\ entry.status = "completed"
  /\ entry.spec.attempt = Len(legs[entry.spec.leg].attempts)
  => \A plan \in entry.said : plan.nextGoal => legs[entry.spec.leg].next
Declared(legs, ns) == \A i \in DOMAIN ns : Declares(legs, ns[i])

EarnedInv ==
  /\ StateSound(wf)
  /\ Declared(wf.legs, nodes)
  /\ outcome = "success" => Won(wf)
  /\ outcome = "failure" => Lost(wf)

LEMMA SettledDeclares ==
  ASSUME NEW state, NEW new, NEW spec, NEW settlement, NextFits(state, spec, settlement, new),
         NEW entry, entry.spec = spec, entry.status = settlement.status,
         settlement.status = "completed" => entry.said = {settlement.payload}
  PROVE  Declares(new.legs, entry)
BY DEF Declares, NextFits

LEMMA OthersDeclare ==
  ASSUME NEW state \in PursuitStates, NEW new, NEW spec, NEW settlement,
         NextFits(state, spec, settlement, new), NEW entry,
         entry.spec.leg \in DOMAIN state.legs,
         entry.spec.attempt \in DOMAIN state.legs[entry.spec.leg].attempts,
         Declares(state.legs, entry),
         entry.status = "completed" /\ entry.spec.role = "planner" =>
           StandsAs(state.legs, entry.spec, "Success")
  PROVE  Declares(new.legs, entry)
<1> DEFINE l == Len(state.legs)
           m == entry.spec.leg
           b == entry.spec.attempt
           a == Len(state.legs[l].attempts)
<1> SUFFICES ASSUME entry.spec.role = "planner", entry.status = "completed",
                    b = Len(new.legs[m].attempts), NEW plan \in entry.said, plan.nextGoal
             PROVE  new.legs[m].next
  BY DEF Declares
<1>1. CASE m # l
  <2>1. new.legs[m] = state.legs[m]
    BY <1>1 DEF NextFits, LastDiffers
  <2> QED
    BY <2>1 DEF Declares
<1>2. CASE m = l
  <2>1. a \in Nat /\ b \in 1..a /\ b \in {a, a + 1}
    <3>1. \A k \in DOMAIN state.legs : state.legs[k] \in LegType
      BY StateFacts DEF LegsOK, LegOK
    <3>2. a \in Nat /\ DOMAIN state.legs[l].attempts = 1..a
      BY <1>2, <3>1, LegFacts
    <3> QED
      BY <1>2, <3>2 DEF NextFits
  <2>2. b = a
    <3> HIDE DEF a, b
    <3> QED
      BY ONLY <2>1
  <2>3. state.legs[l].next
    BY <1>2, <2>2 DEF Declares
  <2>4. Stands(state.legs[l], l, entry.spec, "Success")
    BY <1>2 DEF StandsAs
  <2>5. state.legs[l].attempts[a].plan = "Success"
    BY <2>2, <2>4, SpecFacts DEF Stands
  <2> QED
    BY <1>2, <2>3, <2>5 DEF NextFits
<1> QED
  BY <1>1, <1>2

LEMMA SameDeclared ==
  ASSUME NEW legs, NEW ns, NEW ms, Declared(legs, ns), DOMAIN ns \subseteq DOMAIN ms,
         \A i \in DOMAIN ms : ms[i].status = "completed" =>
           /\ i \in DOMAIN ns /\ ns[i].status = "completed"
           /\ ms[i].spec = ns[i].spec /\ ms[i].said = ns[i].said
  PROVE  Declared(legs, ms)
BY DEF Declared, Declares

LEMMA EndedSound ==
  ASSUME NEW state \in PursuitStates, StateSound(state), NEW status, NEW new,
         new = Ended(state, status)
  PROVE  StateSound(new) /\ new.legs = state.legs
<1>1. state \in StateType /\ new = [state EXCEPT !.done = TRUE, !.status = status]
  BY DEF Ended, PursuitStates
<1>2. new.legs = state.legs /\ new.goals = state.goals /\ new.done = TRUE
  BY <1>1 DEF StateType
<1> QED
  BY <1>2 DEF StateSound, Predefined

LEMMA EarnedInit ==
  ASSUME PursuitHooks, Init
  PROVE  EarnedInv
<1>1. nodes = <<>> /\ outcome = "none" /\ wf \in InitialStates
  BY DEF Init
<1>2. PICK goals \in Nat : wf = PursuitInitial(goals)
  BY <1>1 DEF PursuitHooks
<1>3. /\ DOMAIN wf.legs = {1} /\ wf.legs[1] = NewLeg /\ wf.legs = <<NewLeg>>
  BY <1>2, InitialIs
<1>4. Len(<<NewLeg>>) = 1 /\ DOMAIN <<>> = {}
  OBVIOUS
<1>5. Predefined(wf) => 1 <= wf.goals
  <2>1. wf.goals = goals
    BY <1>2 DEF PursuitInitial
  <2> QED
    BY <2>1 DEF Predefined
<1>6. StateSound(wf)
  BY <1>3, <1>4, <1>5, NewLegSound DEF StateSound, LegsSound
<1> QED
  BY <1>1, <1>4, <1>6 DEF EarnedInv, Declared

LEMMA ContinuesEarned ==
  ASSUME PursuitInv, EarnedInv, Continues(PursuitSpecs, Submissions)
  PROVE  EarnedInv'
<1>1. wf' = wf /\ outcome' = outcome
  BY DEF Continues
<1>2. PICK ns \in Seq(EntryType(PursuitSpecs, Submissions)) :
        SameEnds(nodes, ns) /\ Takes(ns, Waiting, nodes', Waiting')
  BY DEF Continues
<1> DEFINE todo == Waiting
           after == nodes'
           left == Waiting'
<1>3. todo \in Seq(PursuitSpecs) /\ Takes(ns, todo, after, left)
  BY <1>2, WaitingTyped
<1>4. Declared(wf.legs, nodes)
  BY DEF EarnedInv
<1> HIDE DEF todo, after, left
<1>5. /\ DOMAIN ns \subseteq DOMAIN after
      /\ \A i \in DOMAIN ns : after[i] = ns[i]
      /\ \A i \in DOMAIN after \ DOMAIN ns : after[i].status = "running"
  BY ONLY <1>2, <1>3, TakesFacts
<1>6. ASSUME NEW i \in DOMAIN after, after[i].status = "completed"
      PROVE  /\ i \in DOMAIN nodes /\ nodes[i].status = "completed"
             /\ after[i].spec = nodes[i].spec /\ after[i].said = nodes[i].said
  <2>1. i \in DOMAIN ns /\ after[i] = ns[i]
    BY <1>5, <1>6
  <2> QED
    BY <1>2, <1>6, <2>1 DEF SameEnds
<1>7. DOMAIN nodes \subseteq DOMAIN after
  BY <1>2, <1>5 DEF SameEnds
<1>8. Declared(wf.legs, after)
  BY <1>4, <1>6, <1>7, SameDeclared
<1>9. Declared(wf.legs, nodes)'
  BY <1>1, <1>8 DEF after
<1> QED
  BY <1>1, <1>9 DEF EarnedInv

LEMMA BeginsEarned ==
  ASSUME EarnedInv, Begins
  PROVE  EarnedInv'
<1>1. wf' = wf /\ outcome' = outcome
  BY DEF Begins
<1>2. PICK spec : nodes' = <<Entry(spec)>>
  BY DEF Begins
<1>3. DOMAIN <<Entry(spec)>> = {1} /\ <<Entry(spec)>>[1] = Entry(spec)
  OBVIOUS
<1>4. \A i \in DOMAIN nodes' : nodes'[i].status = "running"
  BY <1>2, <1>3 DEF Entry
<1>5. Declared(wf.legs, nodes)'
  BY <1>4 DEF Declared, Declares
<1> QED
  BY <1>1, <1>5 DEF EarnedInv

LEMMA StopsEarned ==
  ASSUME PursuitInv, EarnedInv, Stops
  PROVE  EarnedInv'
<1>1. /\ wf' = Ended(wf, "failure") /\ outcome' = "cancelled"
      /\ nodes' = [i \in DOMAIN nodes |->
                     IF i \in op.running THEN [nodes[i] EXCEPT !.status = "cancelled"]
                                         ELSE nodes[i]]
  BY DEF Stops, FinishInterrupt
<1>2. wf \in PursuitStates /\ StateSound(wf) /\ Declared(wf.legs, nodes)
  BY WaitingTyped DEF EarnedInv
<1>3. PICK new : new = wf'
  OBVIOUS
<1>4. StateSound(new) /\ new.legs = wf.legs
  BY <1>1, <1>2, <1>3, EndedSound
<1>5. DOMAIN nodes' = DOMAIN nodes
  BY <1>1
<1>6. ASSUME NEW i \in DOMAIN nodes, nodes'[i].status = "completed"
      PROVE  nodes'[i] = nodes[i]
  <2>1. CASE i \in op.running
    <3>1. nodes'[i] = [nodes[i] EXCEPT !.status = "cancelled"]
      BY <1>1, <2>1
    <3>2. nodes[i] \in EntryType(PursuitSpecs, Submissions)
      BY GoodEntry DEF PursuitInv
    <3>3. nodes'[i].status = "cancelled"
      BY <3>1, <3>2 DEF EntryType
    <3> QED
      BY <1>6, <3>3
  <2>2. CASE i \notin op.running
    BY <1>1, <2>2
  <2> QED
    BY <2>1, <2>2
<1>7. PICK after : after = nodes'
  OBVIOUS
<1>8. Declared(wf.legs, after)
  <2>1. ASSUME NEW i \in DOMAIN after, after[i].status = "completed"
        PROVE  /\ i \in DOMAIN nodes /\ nodes[i].status = "completed"
               /\ after[i].spec = nodes[i].spec /\ after[i].said = nodes[i].said
    BY <1>5, <1>6, <1>7, <2>1
  <2> QED
    BY <1>2, <1>5, <1>7, <2>1, SameDeclared
<1>9. Declared(wf.legs, nodes)' /\ StateSound(wf)'
  BY <1>3, <1>4, <1>7, <1>8
<1> QED
  BY <1>1, <1>9 DEF EarnedInv

LEMMA AcceptsEarned ==
  ASSUME PursuitHooks, PursuitInv, NowFits, EarnedInv,
         NEW i, NEW settlement, Accepts(Submissions, i, settlement)
  PROVE  EarnedInv'
<1> DEFINE ns == Count(i, settlement)
           state == After(i, settlement)
           running == RunningSpecs(ns)
           order == Order(state, ns)
           after == nodes'
           left == Waiting'
           stuck == IsStuck(state, ns)
           ended == Ended(state, "deadlocked")
<1>1. /\ wf' = IF stuck THEN ended ELSE state
      /\ outcome' = OutcomeAfter(state, ns)
      /\ Takes(ns, order, after, left)
  BY DEF Accepts
<1>2. /\ wf \in PursuitStates /\ state \in PursuitStates /\ i \in DOMAIN nodes
      /\ ns[i].spec \in PursuitSpecs /\ Belongs(wf, ns[i].spec)
      /\ PursuitValidates(wf, ns[i].spec, settlement)
      /\ settlement.status = "completed" => settlement.payload \in PursuitPayloads(ns[i].spec)
      /\ state = PursuitApplied(wf, ns[i].spec, settlement, running)
      /\ order \in Seq(PursuitSpecs)
      /\ ns \in Seq(EntryType(PursuitSpecs, Submissions)) /\ DOMAIN ns = DOMAIN nodes
      /\ \A j \in DOMAIN nodes \ {i} : ns[j] = nodes[j]
      /\ ns[i].status = settlement.status
      /\ settlement.status = "completed" => ns[i].said = {settlement.payload}
  BY AcceptFacts
<1>3. outcome' = IF outcome # "none" THEN outcome
                 ELSE IF state.done THEN state.status
                 ELSE IF stuck THEN "deadlocked" ELSE "none"
  BY <1>1 DEF OutcomeAfter
<1>4. stuck => ~state.done
  BY DEF IsStuck
<1>5. outcome = "none"
  BY <1>2 DEF PursuitValidates, NowFits, RunFit
<1>6. ended = Ended(state, "deadlocked")
  OBVIOUS
<1> HIDE DEF ns, state, running, order, after, left, stuck, ended
<1>7. StateSound(wf) /\ Declared(wf.legs, nodes)
  BY DEF EarnedInv
<1>8. StateSound(state) /\ Fair(state) /\ NextFits(wf, ns[i].spec, settlement, state)
  BY <1>2, <1>7, AppliedSound
<1>9. StateSound(ended) /\ ended.legs = state.legs
  BY <1>2, <1>6, <1>8, EndedSound
<1>10. ASSUME NEW j \in DOMAIN nodes
       PROVE  Declares(state.legs, ns[j])
  <2>1. CASE j = i
    <3>1. Declares(state.legs, ns[i])
      BY <1>2, <1>8, SettledDeclares
    <3> QED
      BY <2>1, <3>1
  <2>2. CASE j # i
    <3>1. PICK entry : entry = nodes[j]
      OBVIOUS
    <3>2. entry.spec.leg \in DOMAIN wf.legs
          /\ entry.spec.attempt \in DOMAIN wf.legs[entry.spec.leg].attempts
      BY <3>1, InvFacts DEF Belongs
    <3>3. Declares(wf.legs, entry)
      BY <1>7, <3>1 DEF Declared
    <3>4. entry.status = "completed" /\ entry.spec.role = "planner" =>
            StandsAs(wf.legs, entry.spec, "Success")
      <4>1. StandsAs(wf.legs, entry.spec, OwnStatus(entry))
        BY <3>1 DEF NowFits, NodesFit
      <4>2. EntryInv(entry)
        BY <3>1, GoodEntry DEF PursuitInv
      <4> QED
        BY <4>1, <4>2 DEF EntryInv, OwnStatus, Verdict
    <3>5. Declares(state.legs, entry)
      BY <1>2, <1>8, <3>2, <3>3, <3>4, OthersDeclare
    <3> QED
      BY <1>2, <2>2, <3>1, <3>5
  <2> QED
    BY <2>1, <2>2
<1>11. /\ DOMAIN ns \subseteq DOMAIN after
       /\ \A j \in DOMAIN ns : after[j] = ns[j]
       /\ \A j \in DOMAIN after \ DOMAIN ns : after[j].status = "running"
  BY ONLY <1>1, <1>2, TakesFacts
<1>12. Declared(state.legs, after)
  <2>1. Declared(state.legs, ns)
    BY <1>2, <1>10 DEF Declared
  <2>2. \A j \in DOMAIN after : after[j].status = "completed" =>
          /\ j \in DOMAIN ns /\ ns[j].status = "completed"
          /\ after[j].spec = ns[j].spec /\ after[j].said = ns[j].said
    BY <1>11
  <2> QED
    BY <1>11, <2>1, <2>2, SameDeclared
<1>13. wf'.legs = state.legs
  BY <1>1, <1>9
<1>14. StateSound(wf)'
  BY <1>1, <1>8, <1>9
<1>15. Declared(wf.legs, nodes)'
  BY <1>12, <1>13 DEF after
<1>16. (outcome = "success" => Won(wf))' /\ (outcome = "failure" => Lost(wf))'
  <2>1. outcome' \in {"success", "failure"} => state.done /\ outcome' = state.status
    BY <1>3, <1>5
  <2>2. state.done => wf' = state
    BY <1>1, <1>4
  <2>3. outcome' = "success" => Won(state)
    BY <1>8, <2>1 DEF Fair
  <2>4. outcome' = "failure" => Lost(state)
    BY <1>8, <2>1 DEF Fair
  <2> QED
    BY <2>1, <2>2, <2>3, <2>4
<1> QED
  BY <1>14, <1>15, <1>16 DEF EarnedInv

LEMMA EarnedStep ==
  ASSUME PursuitHooks, ~LaunchMayFail, PursuitInv, PursuitInv', OwnInv, EarnedInv,
         [Next]_vars
  PROVE  EarnedInv'
<1>1. StepKinds(PursuitSpecs, Submissions)
  BY PursuitKinds DEF OwnInv
<1>2. NowFits
  BY DEF OwnInv, NowFits
<1>3. CASE Continues(PursuitSpecs, Submissions)
  BY <1>3, ContinuesEarned
<1>4. CASE Begins
  BY <1>4, BeginsEarned
<1>5. CASE Stops
  BY <1>5, StopsEarned
<1>6. CASE \E i, settlement : Accepts(Submissions, i, settlement)
  BY <1>2, <1>6, AcceptsEarned
<1> QED
  BY <1>1, <1>3, <1>4, <1>5, <1>6 DEF StepKinds

LEMMA LastAttemptIs ==
  ASSUME PursuitInv, NEW l \in Legs
  PROVE  /\ Len(wf.legs[l].attempts) \in Attempts(l)
         /\ LastAttempt(l) = wf.legs[l].attempts[Len(wf.legs[l].attempts)]
         /\ Len(wf.legs) \in Nat /\ Len(wf.legs) \in Legs /\ wf.goals \in Nat
<1>1. wf.legs[l] \in LegType /\ LegOK(wf.legs[l]) /\ wf \in PursuitStates
  BY InvFacts
<1>2. /\ Len(wf.legs[l].attempts) \in Nat /\ DOMAIN wf.legs[l].attempts = 1..Len(wf.legs[l].attempts)
      /\ Len(wf.legs[l].attempts) >= 1
  BY <1>1, LegFacts DEF LegOK, ShapeOK
<1>3. Len(wf.legs) \in Nat /\ Len(wf.legs) \in Legs /\ wf.goals \in Nat
  BY <1>1, StateFacts DEF Legs
<1> QED
  BY <1>2, <1>3 DEF Attempts, LastAttempt, Last

(* A planner's node and its plan.                                           *)
LEMMA PlanIsOwn ==
  ASSUME NodesFit(wf.legs, nodes, Waiting), NEW i \in Planners
  PROVE  wf.legs[nodes[i].spec.leg].attempts[nodes[i].spec.attempt].plan = OwnStatus(nodes[i])
<1>1. i \in DOMAIN nodes /\ nodes[i].spec.role = "planner"
  BY DEF Planners
<1>2. StandsAs(wf.legs, nodes[i].spec, OwnStatus(nodes[i]))
  BY <1>1 DEF NodesFit
<1> DEFINE spec == nodes[i].spec
           leg == wf.legs[spec.leg]
           status == OwnStatus(nodes[i])
<1>3. Stands(leg, spec.leg, spec, status) /\ spec.role = "planner"
  BY <1>1, <1>2 DEF StandsAs
<1> HIDE DEF spec, leg, status
<1>4. ASSUME NEW a, NEW k, spec = WorkerSpec(spec.leg, a, At(leg, a, k)) PROVE FALSE
  <2>1. WorkerSpec(spec.leg, a, At(leg, a, k)).role = "worker"
    BY ONLY SpecFacts
  <2> QED
    BY ONLY <1>3, <1>4, <2>1
<1>5. PICK a \in DOMAIN leg.attempts :
        spec = PlannerSpec(spec.leg, a) /\ leg.attempts[a].plan = status
  BY ONLY <1>3, <1>4 DEF Stands
<1>6. PlannerSpec(spec.leg, a).attempt = a
  BY ONLY SpecFacts
<1>7. leg.attempts[spec.attempt].plan = status
  BY ONLY <1>5, <1>6
<1> QED
  BY <1>7 DEF spec, leg, status

LEMMA SuccessEarned ==
  ASSUME PursuitInv, OwnInv, EarnedInv
  PROVE  SuccessIsEarned
<1> SUFFICES ASSUME outcome = "success"
             PROVE  /\ \A l \in Legs :
                         /\ wf.legs[l].status = "Success"
                         /\ LastAttempt(l).items # <<>>
                         /\ \A item \in ToSet(LastAttempt(l).items) :
                              \E i \in WorkersOf(l, Len(wf.legs[l].attempts), item) : Passed(i)
                    /\ IF Predefined(wf)
                       THEN Len(wf.legs) = wf.goals
                       ELSE \A i \in Planners :
                              nodes[i].spec.leg = Len(wf.legs)
                                /\ nodes[i].spec.attempt = Len(wf.legs[Len(wf.legs)].attempts)
                              => \A plan \in nodes[i].said : ~plan.nextGoal
  BY DEF SuccessIsEarned
<1>1. Won(wf) /\ StateSound(wf) /\ Declared(wf.legs, nodes)
  BY DEF EarnedInv
<1>2. NodesFit(wf.legs, nodes, Waiting)
  BY DEF OwnInv
<1>3. ItemsMatchNodes
  BY <1>2, ItemsRecorded
<1>4. ASSUME NEW l \in Legs
      PROVE  /\ wf.legs[l].status = "Success"
             /\ LastAttempt(l).plan = "Success" /\ LastAttempt(l).items # <<>>
             /\ \A k \in DOMAIN LastAttempt(l).items : LastAttempt(l).items[k].status = "Success"
  <2>1. LegSound(wf.legs[l]) /\ wf.legs[l].status = "Success"
    BY <1>1 DEF StateSound, LegsSound, Won, Legs
  <2>2. LastAttempt(l).status = "Success" /\ AttemptSound(LastAttempt(l))
    BY <2>1, LastAttemptIs DEF LegSound, Attempts
  <2> QED
    BY <2>1, <2>2 DEF AttemptSound
<1>5. ASSUME NEW l \in Legs, NEW item \in ToSet(LastAttempt(l).items)
      PROVE  \E i \in WorkersOf(l, Len(wf.legs[l].attempts), item) : Passed(i)
  <2>1. item.status = "Success"
    BY <1>4 DEF ToSet
  <2>2. /\ Len(wf.legs[l].attempts) \in Attempts(l)
        /\ LastAttempt(l) = wf.legs[l].attempts[Len(wf.legs[l].attempts)]
    BY LastAttemptIs
  <2>3. item \in ToSet(wf.legs[l].attempts[Len(wf.legs[l].attempts)].items)
    BY <2>2
  <2> QED
    BY <1>3, <2>1, <2>2, <2>3 DEF ItemsMatchNodes
<1> DEFINE last == Len(wf.legs)
<1>6. last \in Nat /\ last \in Legs /\ wf.goals \in Nat
  <2>1. wf \in PursuitStates
    BY InvFacts
  <2> QED
    BY <2>1, StateFacts DEF Legs
<1>7. ~HasNextLeg(wf, wf.legs[last], last)
  BY <1>1 DEF Won
<1>8. Predefined(wf) => last = wf.goals
  <2>1. Predefined(wf) => last <= wf.goals
    BY <1>1 DEF StateSound
  <2>2. Predefined(wf) => ~(last < wf.goals)
    BY <1>7 DEF HasNextLeg
  <2> HIDE DEF last
  <2> QED
    BY ONLY <1>6, <2>1, <2>2
<1>9. ASSUME ~Predefined(wf), NEW i \in Planners, nodes[i].spec.leg = last,
             nodes[i].spec.attempt = Len(wf.legs[last].attempts), NEW plan \in nodes[i].said
      PROVE  ~plan.nextGoal
  <2>1. ~wf.legs[last].next
    BY <1>7, <1>9 DEF HasNextLeg
  <2>2. OwnStatus(nodes[i]) = "Success"
    <3>1. LastAttempt(last) = wf.legs[last].attempts[Len(wf.legs[last].attempts)]
      BY <1>6, LastAttemptIs
    <3> QED
      BY <1>2, <1>4, <1>6, <1>9, <3>1, PlanIsOwn
  <2>3. nodes[i].status = "completed"
    BY <2>2 DEF OwnStatus, Verdict
  <2>4. Declares(wf.legs, nodes[i]) /\ nodes[i].spec.role = "planner"
    BY <1>1 DEF Declared, Planners
  <2> QED
    BY <1>9, <2>1, <2>3, <2>4 DEF Declares
<1> QED
  BY <1>4, <1>5, <1>8, <1>9

LEMMA FailureEarned ==
  ASSUME PursuitInv, OwnInv, EarnedInv
  PROVE  FailureSpendsBudget
<1> DEFINE l == Len(wf.legs)
           leg == wf.legs[l]
<1> SUFFICES ASSUME outcome = "failure"
             PROVE  /\ Len(leg.attempts) = MaxAttempts
                    /\ \A a \in Attempts(l) :
                         \/ \E i \in Planners : /\ nodes[i].spec = PlannerSpec(l, a)
                                                /\ nodes[i].status \in Settled \ {"completed"}
                         \/ \E i \in Workers : /\ nodes[i].spec.leg = l
                                               /\ nodes[i].spec.attempt = a
                                               /\ ~Passed(i)
                         \/ \E item \in ToSet(leg.attempts[a].items) : DependencyBlocks(leg, item)
  BY DEF FailureSpendsBudget
<1>1. Lost(wf) /\ StateSound(wf)
  BY DEF EarnedInv
<1>2. NodesFit(wf.legs, nodes, Waiting)
  BY DEF OwnInv
<1>3. ItemsMatchNodes
  BY <1>2, ItemsRecorded
<1>4. l \in Legs /\ wf \in PursuitStates
  <2>1. wf \in PursuitStates
    BY InvFacts
  <2> QED
    BY <2>1, StateFacts DEF Legs
<1>5. LegSound(leg) /\ leg.status = "Failed"
  BY <1>1, <1>4 DEF StateSound, LegsSound, Lost, Legs
<1>6. \A a \in Attempts(l) : AttemptSound(leg.attempts[a]) /\ leg.attempts[a].status = "Failed"
  BY <1>5 DEF LegSound, Attempts
<1>7. Len(leg.attempts) = MaxAttempts /\ BlocksFounded(leg)
  BY <1>5 DEF LegSound
<1>8. ASSUME NEW a \in Attempts(l), leg.attempts[a].plan = "Failed"
      PROVE  \E i \in Planners : /\ nodes[i].spec = PlannerSpec(l, a)
                                 /\ nodes[i].status \in Settled \ {"completed"}
  <2> DEFINE spec == PlannerSpec(l, a)
  <2>1. spec.leg = l /\ spec.role = "planner"
    BY SpecFacts
  <2>2. Stands(leg, l, spec, "Failed")
    BY <1>8 DEF Stands, Attempts
  <2> HIDE DEF spec
  <2>3. StandsAs(wf.legs, spec, "Failed")
    BY <1>4, <2>1, <2>2 DEF StandsAs, Legs
  <2>4. PICK i \in DOMAIN nodes : nodes[i].spec = spec /\ nodes[i].counted # 0
    BY <1>2, <2>3 DEF NodesFit
  <2>5. StandsAs(wf.legs, spec, OwnStatus(nodes[i]))
    BY <1>2, <2>4 DEF NodesFit
  <2>6. OwnStatus(nodes[i]) = "Failed"
    BY <1>4, <2>3, <2>5, StandsAsOnce
  <2>7. nodes[i].status # "completed"
    BY <2>1, <2>4, <2>6 DEF OwnStatus, Verdict
  <2>8. nodes[i].status \in NodeStatuses /\ nodes[i].status # "running"
    <3>1. nodes[i] \in EntryType(PursuitSpecs, Submissions) /\ EntryInv(nodes[i])
      BY GoodEntry DEF PursuitInv
    <3> QED
      BY <2>4, <3>1 DEF EntryType, EntryInv
  <2>9. i \in Planners
    BY <2>1, <2>4 DEF Planners
  <2> QED
    BY <2>4, <2>7, <2>8, <2>9 DEF NodeStatuses, spec
<1>9. ASSUME NEW a \in Attempts(l), NEW k \in DOMAIN leg.attempts[a].items,
             leg.attempts[a].items[k].status = "Failed"
      PROVE  \E i \in Workers : nodes[i].spec.leg = l /\ nodes[i].spec.attempt = a /\ ~Passed(i)
  <2>1. PICK item \in ToSet(leg.attempts[a].items) : item.status = "Failed"
    BY <1>9 DEF ToSet
  <2>2. PICK i \in WorkersOf(l, a, item) : ~Passed(i)
    BY <1>3, <1>4, <2>1 DEF ItemsMatchNodes
  <2>3. i \in Workers /\ nodes[i].spec = WorkerSpec(l, a, item)
    BY <2>2 DEF WorkersOf
  <2> QED
    BY <2>2, <2>3, SpecFacts
<1>10. ASSUME NEW a \in Attempts(l), NEW k \in DOMAIN leg.attempts[a].items,
              leg.attempts[a].items[k].status = "Blocked"
       PROVE  \E item \in ToSet(leg.attempts[a].items) : DependencyBlocks(leg, item)
  <2>1. DependencyBlocks(leg, leg.attempts[a].items[k])
    BY <1>7, <1>10 DEF BlocksFounded, Place, At, Attempts
  <2> QED
    BY <2>1 DEF ToSet
<1>11. \A a \in Attempts(l) :
         \/ leg.attempts[a].plan = "Failed"
         \/ \E k \in DOMAIN leg.attempts[a].items :
              leg.attempts[a].items[k].status \in {"Failed", "Blocked"}
  BY <1>6 DEF AttemptSound
<1> HIDE DEF leg
<1> QED
  BY <1>7, <1>8, <1>9, <1>10, <1>11

(* In every pursuit whose launches do not fail an outcome is earned.        *)
(* Success ends the run only when each leg's last attempt has items, each   *)
(* passed by its own worker, and no further leg was declared or predefined; *)
(* failure only when the last leg spent every attempt, each with a node     *)
(* that did not deliver or an item blocked by one that failed               *)
(* (pursuit/workflow.mjs:516, :553).                                        *)
THEOREM OutcomeIsEarnedHolds ==
  ASSUME PursuitHooks, ~LaunchMayFail
  PROVE  Safety => []OutcomeIsEarned
<1>1. Init => EarnedInv
  BY EarnedInit
<1>2. PursuitInv /\ PursuitInv' /\ OwnInv /\ EarnedInv /\ [Next]_vars => EarnedInv'
  BY EarnedStep
<1>3. Safety => [](PursuitInv /\ OwnInv)
  BY OwnInvariant
<1>4. PursuitInv /\ OwnInv /\ EarnedInv => OutcomeIsEarned
  BY SuccessEarned, FailureEarned DEF OutcomeIsEarned
<1> QED
  BY <1>1, <1>2, <1>3, <1>4, PTL DEF Safety

-----------------------------------------------------------------------------
(***************************************************************************)
(* A pursuit is never stuck: until it is done a planner or a worker runs   *)
(* or can be launched.  Blocks spread until every item that is held up is  *)
(* blocked, a plan has no cycle, so of the items left one is ready.        *)
(***************************************************************************)

(* Every item that a failed dependency holds up is blocked.                 *)
Stable(leg, l, running) ==
  \A a, k : /\ Place(leg, a, k) /\ At(leg, a, k).status = "NotStarted"
            /\ ~WorkerRuns(running, l, At(leg, a, k))
            => ~DependencyBlocks(leg, At(leg, a, k))

LEMMA BlockOnceIs ==
  ASSUME NEW leg \in LegType, NEW l, NEW running, NEW new, new = BlockOnce(leg, l, running)
  PROVE  \A a, k : Place(leg, a, k) => At(new, a, k) = Blocked(leg, l, At(leg, a, k), running)
<1> DEFINE items(a) == [k \in DOMAIN leg.attempts[a].items |->
                          Blocked(leg, l, leg.attempts[a].items[k], running)]
           attempt(a) == [leg.attempts[a] EXCEPT !.items = items(a)]
           attempts == [a \in DOMAIN leg.attempts |-> attempt(a)]
<1>1. new = [leg EXCEPT !.attempts = attempts]
  BY DEF BlockOnce
<1> SUFFICES ASSUME NEW a, NEW k, Place(leg, a, k)
             PROVE  At(new, a, k) = Blocked(leg, l, At(leg, a, k), running)
  OBVIOUS
<1>2. a \in DOMAIN leg.attempts /\ k \in DOMAIN leg.attempts[a].items
      /\ leg.attempts[a] \in AttemptType
  BY LegFacts DEF Place
<1>3. attempts[a] = attempt(a)
  BY <1>2
<1>4. items(a)[k] = Blocked(leg, l, At(leg, a, k), running)
  BY <1>2 DEF At
<1> HIDE DEF items
<1>5. attempt(a).items = items(a)
  BY <1>2 DEF AttemptType
<1> HIDE DEF attempt
<1> HIDE DEF attempts
<1>6. new.attempts = attempts
  BY <1>1 DEF LegType
<1> QED
  BY <1>3, <1>4, <1>5, <1>6 DEF At

(* A round changes nothing of a stable leg.                                 *)
LEMMA StableStays ==
  ASSUME NEW leg \in LegType, NEW l, NEW running, Stable(leg, l, running)
  PROVE  BlockOnce(leg, l, running) = leg
<1> DEFINE items(a) == [k \in DOMAIN leg.attempts[a].items |->
                          Blocked(leg, l, leg.attempts[a].items[k], running)]
           attempt(a) == [leg.attempts[a] EXCEPT !.items = items(a)]
           attempts == [a \in DOMAIN leg.attempts |-> attempt(a)]
<1>1. BlockOnce(leg, l, running) = [leg EXCEPT !.attempts = attempts]
  BY DEF BlockOnce
<1>2. ASSUME NEW a \in DOMAIN leg.attempts PROVE attempt(a) = leg.attempts[a]
  <2>1. leg.attempts[a] \in AttemptType /\ leg.attempts[a].items \in Seq(ItemType)
    BY LegFacts
  <2>2. ASSUME NEW k \in DOMAIN leg.attempts[a].items
        PROVE  Blocked(leg, l, leg.attempts[a].items[k], running) = leg.attempts[a].items[k]
    BY <1>2, <2>2 DEF Stable, Place, At, Blocked
  <2>3. items(a) = leg.attempts[a].items
    BY <2>1, <2>2
  <2> HIDE DEF items
  <2> QED
    BY <2>1, <2>3 DEF AttemptType
<1> HIDE DEF attempt
<1>3. attempts = leg.attempts
  <2>1. leg.attempts \in Seq(AttemptType)
    BY LegFacts
  <2> QED
    BY <1>2, <2>1
<1> HIDE DEF attempts
<1> QED
  BY <1>1, <1>3 DEF LegType

(* In a round of any other a place is blocked that was not.                 *)
LEMMA RoundBlocks ==
  ASSUME NEW leg \in LegType, NEW l, NEW running, ~Stable(leg, l, running), NEW new,
         new = BlockOnce(leg, l, running)
  PROVE  \E a, k : /\ Place(leg, a, k) /\ At(leg, a, k).status = "NotStarted"
                   /\ At(new, a, k).status # "NotStarted"
<1>1. PICK a, k : /\ Place(leg, a, k) /\ At(leg, a, k).status = "NotStarted"
                  /\ ~WorkerRuns(running, l, At(leg, a, k))
                  /\ DependencyBlocks(leg, At(leg, a, k))
  BY DEF Stable
<1>2. At(new, a, k) = [At(leg, a, k) EXCEPT !.status = "Blocked"]
  BY <1>1, BlockOnceIs DEF Blocked
<1>3. At(leg, a, k) \in ItemType
  BY <1>1, LegFacts
<1>4. At(new, a, k).status = "Blocked"
  BY <1>2, <1>3 DEF ItemType
<1> QED
  BY <1>1, <1>4


(* The listed places of a leg that are still to be started.                 *)
Unstarted(x, m, i, k) == {n \in 1..m : At(x, i[n], k[n]).status = "NotStarted"}

LEMMA FewerUnstarted ==
  ASSUME NEW leg \in LegType, NEW m \in Nat, m = Len(AllItems(leg)), NEW i, NEW k,
         Places(leg, i, k), NEW x \in LegType, LegMoves(leg, x), NEW y, LegMoves(x, y),
         NEW a, NEW b, Place(x, a, b), At(x, a, b).status = "NotStarted",
         At(y, a, b).status # "NotStarted"
  PROVE  Cardinality(Unstarted(y, m, i, k)) + 1 <= Cardinality(Unstarted(x, m, i, k))
<1> DEFINE X == Unstarted(x, m, i, k)
           Y == Unstarted(y, m, i, k)
<1>1. DOMAIN AllItems(leg) = 1..m
  <2>1. AllItems(leg) \in Seq(ItemType)
    BY AllItemsType
  <2> QED
    BY <2>1
<1>2. \A n \in 1..m : Place(x, i[n], k[n])
  <2>1. \A n \in 1..m : Place(leg, i[n], k[n])
    BY <1>1 DEF Places
  <2> QED
    BY <2>1 DEF Place, LegMoves, AttemptMoves
<1>3. PICK n \in 1..m : i[n] = a /\ k[n] = b
  <2>1. Place(leg, a, b)
    BY DEF Place, LegMoves, AttemptMoves
  <2> QED
    BY <1>1, <2>1 DEF Places
<1>4. n \in X /\ n \notin Y
  BY <1>3 DEF Unstarted
<1>5. Y \subseteq X
  <2> SUFFICES ASSUME NEW p \in 1..m, At(y, i[p], k[p]).status = "NotStarted"
               PROVE  At(x, i[p], k[p]).status = "NotStarted"
    BY DEF Unstarted
  <2>1. ItemMoves(At(x, i[p], k[p]), At(y, i[p], k[p]))
    BY <1>2 DEF Place, At, LegMoves, AttemptMoves
  <2> QED
    BY <2>1 DEF ItemMoves
<1>6. IsFiniteSet(X)
  <2>1. IsFiniteSet(1..m) /\ X \subseteq 1..m
    BY FS_Interval DEF Unstarted
  <2> QED
    BY <2>1, FS_Subset
<1> HIDE DEF X, Y
<1>7. IsFiniteSet(Y) /\ Cardinality(Y) <= Cardinality(X) /\ Cardinality(Y) # Cardinality(X)
  BY <1>4, <1>5, <1>6, FS_Subset
<1>8. Cardinality(X) \in Nat /\ Cardinality(Y) \in Nat
  BY <1>6, <1>7, FS_CardinalityType
<1> QED
  BY <1>7, <1>8 DEF X, Y

(* As many rounds as there are items are enough for all blocks to spread.   *)
LEMMA BlocksSettle ==
  ASSUME NEW leg \in LegType, NEW l, NEW running
  PROVE  Stable(PropagatedBlocks(leg, l, running), l, running)
<1> DEFINE m == Len(AllItems(leg))
           f == CHOOSE g : Rounds(g, leg, l, running, m)
<1>1. m \in Nat
  BY AllItemsType
<1>2. Rounds(f, leg, l, running, m)
  BY <1>1, RoundsExist
<1>3. PropagatedBlocks(leg, l, running) = f[m]
  BY DEF PropagatedBlocks, Rounds
<1>4. PICK i, k : Places(leg, i, k)
  BY ItemsPlaced
<1>5. PICK rounds \in Nat : rounds = m
  BY <1>1
<1>6. PICK h : h = f
  OBVIOUS
<1>7. \A n \in 0..rounds : h[n] = IF n = 0 THEN leg ELSE BlockOnce(h[n - 1], l, running)
  BY <1>2, <1>5, <1>6 DEF Rounds
<1>8. rounds = Len(AllItems(leg)) /\ PropagatedBlocks(leg, l, running) = h[rounds]
  BY <1>3, <1>5, <1>6
<1> HIDE DEF m, f
<1> DEFINE Left(x) == Cardinality(Unstarted(x, rounds, i, k))
<1>9. ASSUME NEW x
      PROVE  Left(x) \in Nat /\ Left(x) <= rounds /\ (Left(x) = 0 => Unstarted(x, rounds, i, k) = {})
  <2>1. IsFiniteSet(1..rounds) /\ Cardinality(1..rounds) = rounds
    BY FS_Interval
  <2>2. Unstarted(x, rounds, i, k) \in SUBSET (1..rounds)
    BY DEF Unstarted
  <2>3. IsFiniteSet(Unstarted(x, rounds, i, k)) /\ Left(x) <= rounds
    BY <2>1, <2>2, FS_Subset
  <2> QED
    BY <2>3, FS_CardinalityType, FS_EmptySet
<1> DEFINE Fine(n) == /\ h[n] \in LegType /\ LegMoves(leg, h[n])
                      /\ Stable(h[n], l, running) \/ Left(h[n]) + n <= rounds
           N == {n \in Nat : n <= rounds => Fine(n)}
<1>10. 0 \in N
  <2>1. h[0] = leg /\ LegMoves(leg, leg)
    BY <1>7, LegMovesItself
  <2>2. Left(h[0]) + 0 <= rounds
    BY <1>9
  <2> QED
    BY <2>1, <2>2
<1>11. ASSUME NEW n \in Nat, n \in N PROVE n + 1 \in N
  <2> SUFFICES ASSUME n + 1 <= rounds PROVE Fine(n + 1)
    OBVIOUS
  <2>1. n + 1 \in 0..rounds /\ n + 1 # 0 /\ (n + 1) - 1 = n /\ n <= rounds
    OBVIOUS
  <2>2. PICK x, y : x = h[n] /\ y = h[n + 1]
    OBVIOUS
  <2>3. y = BlockOnce(x, l, running)
    BY <1>7, <2>1, <2>2
  <2>4. /\ x \in LegType /\ LegMoves(leg, x)
        /\ Stable(x, l, running) \/ Left(x) + n <= rounds
    BY <1>11, <2>1, <2>2
  <2> HIDE DEF Left, Fine
  <2>5. y \in LegType /\ LegMoves(x, y)
    BY <2>3, <2>4, BlockOnceMoves
  <2>6. LegMoves(leg, y)
    BY <2>4, <2>5, LegMovesOn
  <2>7. CASE Stable(x, l, running)
    BY <2>2, <2>3, <2>4, <2>7, StableStays DEF Fine
  <2>8. CASE ~Stable(x, l, running)
    <3>1. PICK a, b : /\ Place(x, a, b) /\ At(x, a, b).status = "NotStarted"
                      /\ At(y, a, b).status # "NotStarted"
      BY <2>3, <2>4, <2>8, RoundBlocks
    <3>2. Left(y) + 1 <= Left(x)
      BY <1>4, <1>8, <2>4, <2>5, <3>1, FewerUnstarted DEF Left
    <3>3. Left(x) + n <= rounds /\ Left(x) \in Nat /\ Left(y) \in Nat
      BY <1>9, <2>4, <2>8
    <3>4. Left(y) + (n + 1) <= rounds
      BY <3>2, <3>3
    <3> QED
      BY <2>2, <2>5, <2>6, <3>4 DEF Fine
  <2> QED
    BY <2>7, <2>8
<1> HIDE DEF Fine
<1>12. \A n \in Nat : n \in N
  <2> HIDE DEF N
  <2> QED
    BY <1>10, <1>11, UpFromZero
<1>13. Fine(rounds)
  BY <1>12
<1>14. CASE Left(h[rounds]) + rounds <= rounds
  <2>1. Left(h[rounds]) = 0
    BY <1>9, <1>14
  <2>2. Unstarted(h[rounds], rounds, i, k) = {} /\ LegMoves(leg, h[rounds])
    BY <1>9, <1>13, <2>1 DEF Fine
  <2>3. ASSUME NEW a, NEW b, Place(h[rounds], a, b), At(h[rounds], a, b).status = "NotStarted"
        PROVE  FALSE
    <3>1. Place(leg, a, b)
      BY <2>2, <2>3 DEF Place, LegMoves, AttemptMoves
    <3>2. DOMAIN AllItems(leg) = 1..rounds
      BY <1>8, AllItemsType
    <3>3. PICK n \in 1..rounds : i[n] = a /\ k[n] = b
      BY <1>4, <3>1, <3>2 DEF Places
    <3> QED
      BY <2>2, <2>3, <3>3 DEF Unstarted
  <2> QED
    BY <1>8, <2>3 DEF Stable
<1> QED
  BY <1>8, <1>13, <1>14 DEF Fine


(* An attempt can be worked off: a plan has items, and of any of them one   *)
(* waits for none of them.                                                  *)
NoCycle(items) ==
  \A K \in (SUBSET DOMAIN items) \ {{}} :
    \E k \in K : \A j \in K : items[j].id \notin items[k].deps
Workable(attempt) ==
  /\ attempt.plan = "Success" => DOMAIN attempt.items # {}
  /\ NoCycle(attempt.items)
LegWorkable(leg) == \A a \in DOMAIN leg.attempts : Workable(leg.attempts[a])
Sane(state) ==
  /\ \A l \in DOMAIN state.legs : LegWorkable(state.legs[l])
  /\ \A spec : ~StandsAs(state.legs, spec, "Cancelled")

(* It depends on the plan, the names and the dependencies only.             *)
LEMMA WorkableOn ==
  ASSUME NEW x, NEW y, Workable(x), y.plan = "Success" => x.plan = "Success",
         DOMAIN y.items = DOMAIN x.items,
         \A k \in DOMAIN x.items :
           y.items[k].id = x.items[k].id /\ y.items[k].deps = x.items[k].deps
  PROVE  Workable(y)
<1>1. NoCycle(y.items)
  <2> SUFFICES ASSUME NEW K \in (SUBSET DOMAIN y.items) \ {{}}
               PROVE  \E k \in K : \A j \in K : y.items[j].id \notin y.items[k].deps
    BY DEF NoCycle
  <2>1. PICK k \in K : \A j \in K : x.items[j].id \notin x.items[k].deps
    BY DEF Workable, NoCycle
  <2> QED
    BY <2>1
<1> QED
  BY <1>1 DEF Workable

LEMMA MovesWorkable ==
  ASSUME NEW leg, NEW new, LegWorkable(leg), LegMoves(leg, new)
  PROVE  LegWorkable(new)
<1> SUFFICES ASSUME NEW a \in DOMAIN new.attempts PROVE Workable(new.attempts[a])
  BY DEF LegWorkable
<1>1. a \in DOMAIN leg.attempts /\ AttemptMoves(leg.attempts[a], new.attempts[a])
  BY DEF LegMoves
<1>2. Workable(leg.attempts[a])
  BY <1>1 DEF LegWorkable
<1>3. \A k \in DOMAIN leg.attempts[a].items :
        ItemMoves(leg.attempts[a].items[k], new.attempts[a].items[k])
  BY <1>1 DEF AttemptMoves
<1> QED
  BY <1>1, <1>2, <1>3, WorkableOn DEF AttemptMoves, ItemMoves, SameKey

LEMMA NewWorkable == Workable(NewAttempt) /\ LegWorkable(NewLeg)
<1>1. DOMAIN <<>> = {}
  OBVIOUS
<1>2. Workable(NewAttempt)
  BY <1>1 DEF Workable, NoCycle, NewAttempt
<1>3. NewLeg.attempts = <<NewAttempt>>
  BY DEF NewLeg
<1>4. DOMAIN <<NewAttempt>> = {1} /\ <<NewAttempt>>[1] = NewAttempt
  OBVIOUS
<1> QED
  BY <1>2, <1>3, <1>4 DEF LegWorkable

(* A plan that was accepted has no cycle, and its names differ.             *)
LEMMA PlanWorkable ==
  ASSUME NEW leg, NEW plan \in Plans, NEW state, PlanIsValid(state, leg, plan),
         NEW a, NEW new, Planned(leg, a, plan, new)
  PROVE  Workable(new.attempts[a])
<1> DEFINE items == new.attempts[a].items
<1>1. /\ DOMAIN items = DOMAIN plan.items
      /\ \A k \in DOMAIN plan.items :
           items[k].id = plan.items[k].id /\ items[k].deps = plan.items[k].deps
  BY DEF Planned
<1>2. DOMAIN plan.items # {}
  <2>1. plan.items \in Seq(PlanItems) /\ plan.items # <<>>
    BY PlanFacts
  <2> QED
    BY <2>1
<1> HIDE DEF items
<1>3. ASSUME NEW K \in (SUBSET DOMAIN items) \ {{}}
      PROVE  \E k \in K : \A j \in K : items[j].id \notin items[k].deps
  <2> DEFINE ids == {plan.items[k].id : k \in K}
  <2>1. ids \in (SUBSET PlanIds(plan)) \ {{}}
    BY <1>1 DEF PlanIds
  <2>2. PICK k \in DOMAIN plan.items : plan.items[k].id \in ids /\ plan.items[k].deps \cap ids = {}
    BY <2>1 DEF PlanIsValid, PlanHasNoCycle
  <2>3. PICK n \in K : plan.items[n].id = plan.items[k].id
    BY <2>2
  <2>4. n = k
    BY <1>1, <2>3 DEF PlanIsValid, IdsAreFresh
  <2>5. \A j \in K : plan.items[j].id \in ids
    OBVIOUS
  <2> HIDE DEF ids
  <2>6. \A j \in K : plan.items[j].id \notin plan.items[k].deps
    BY <2>2, <2>5
  <2> QED
    BY <1>1, <2>3, <2>4, <2>6
<1> QED
  BY <1>1, <1>2, <1>3 DEF Workable, NoCycle, items


LEMMA SettledWorkable ==
  ASSUME NEW leg, LegWorkable(leg), NEW spec, NEW settlement, NEW new,
         SettledAs(leg, spec, settlement, new)
  PROVE  LegWorkable(new)
<1> DEFINE a == spec.attempt
<1>1. ASSUME NEW plan \in Plans, NEW state, PlanIsValid(state, leg, plan),
             Planned(leg, a, plan, new)
      PROVE  LegWorkable(new)
  <2> SUFFICES ASSUME NEW b \in DOMAIN new.attempts PROVE Workable(new.attempts[b])
    BY DEF LegWorkable
  <2>1. CASE b = a
    BY <1>1, <2>1, PlanWorkable
  <2>2. CASE b # a
    <3>1. /\ b \in DOMAIN leg.attempts /\ new.attempts[b].items = leg.attempts[b].items
          /\ new.attempts[b].plan = leg.attempts[b].plan
      BY <1>1, <2>2 DEF Planned
    <3>2. Workable(leg.attempts[b])
      BY <3>1 DEF LegWorkable
    <3> QED
      BY <3>1, <3>2 DEF Workable
  <2> QED
    BY <2>1, <2>2
<1>2. CASE PlanFailed(leg, a, new)
  <2> SUFFICES ASSUME NEW b \in DOMAIN new.attempts PROVE Workable(new.attempts[b])
    BY DEF LegWorkable
  <2>1. /\ b \in DOMAIN leg.attempts /\ new.attempts[b].items = leg.attempts[b].items
        /\ new.attempts[b].plan = "Success" => new.attempts[b].plan = leg.attempts[b].plan
    BY <1>2 DEF PlanFailed
  <2>2. Workable(leg.attempts[b])
    BY <2>1 DEF LegWorkable
  <2> QED
    BY <2>1, <2>2 DEF Workable
<1>3. ASSUME NEW m, NEW verdict, Worked(leg, a, m, verdict, new)
      PROVE  LegWorkable(new)
  BY <1>3, MovesWorkable DEF Worked
<1> QED
  BY <1>1, <1>2, <1>3 DEF SettledAs

LEMMA JudgedWorkable ==
  ASSUME NEW leg \in LegType, LegWorkable(leg), NEW y, NEW verdict, NEW status,
         NEW more \in BOOLEAN, Judges(leg, y, verdict, status, more)
  PROVE  LegWorkable(y)
<1> DEFINE a == Len(leg.attempts)
<1>1. a \in Nat /\ DOMAIN leg.attempts = 1..a
  BY LegFacts
<1>2. y \in LegType /\ Len(y.attempts) = IF more THEN a + 1 ELSE a
  BY DEF Judges
<1>3. DOMAIN y.attempts = 1..Len(y.attempts)
  BY <1>2, LegFacts
<1> SUFFICES ASSUME NEW b \in DOMAIN y.attempts PROVE Workable(y.attempts[b])
  BY DEF LegWorkable
<1>4. CASE b \in 1..a
  <2>1. y.attempts[b].items = leg.attempts[b].items /\ y.attempts[b].plan = leg.attempts[b].plan
    BY <1>4 DEF Judges
  <2>2. Workable(leg.attempts[b])
    BY <1>1, <1>4 DEF LegWorkable
  <2> QED
    BY <2>1, <2>2 DEF Workable
<1>5. CASE b \notin 1..a
  <2> HIDE DEF a
  <2>1. more /\ b = a + 1
    BY <1>1, <1>2, <1>3, <1>5
  <2>2. y.attempts[b] = NewAttempt
    BY <2>1 DEF Judges, a
  <2> QED
    BY <2>2, NewWorkable
<1> QED
  BY <1>4, <1>5

LEMMA ConcludedWorkable ==
  ASSUME NEW state \in PursuitStates, \A l \in DOMAIN state.legs : LegWorkable(state.legs[l]),
         NEW leg \in LegType, LegWorkable(leg), NEW verdict, NEW new,
         Concludes(state, leg, verdict, new)
  PROVE  \A l \in DOMAIN new.legs : LegWorkable(new.legs[l])
<1> DEFINE l == Len(state.legs)
<1>1. DOMAIN state.legs = 1..l /\ l \in Nat /\ l >= 1
  BY StateFacts
<1>2. PICK y \in LegType : /\ LegWorkable(y)
                           /\ \/ new.legs = WithLast(state, y)
                              \/ new.legs = Append(WithLast(state, y), NewLeg)
  <2>1. CASE new.legs = WithLast(state, leg)
    BY <2>1
  <2>2. CASE new.legs # WithLast(state, leg)
    <3>1. PICK y, status : \E more \in BOOLEAN :
            /\ Judges(leg, y, verdict, status, more)
            /\ new.legs = WithLast(state, y) \/ new.legs = Append(WithLast(state, y), NewLeg)
      BY <2>2 DEF Concludes
    <3>2. y \in LegType
      BY <3>1 DEF Judges
    <3>3. LegWorkable(y)
      BY <3>1, JudgedWorkable
    <3> QED
      BY <3>1, <3>2, <3>3
  <2> QED
    BY <2>1, <2>2
<1>3. LastDiffers(state.legs, new.legs) /\ new.legs[l] = y
  <2>1. l = Len(state.legs)
    OBVIOUS
  <2>2. PICK legs : legs = new.legs
    OBVIOUS
  <2>3. legs = WithLast(state, y) \/ legs = Append(WithLast(state, y), NewLeg)
    BY <1>2, <2>2
  <2> HIDE DEF l
  <2>4. LastDiffers(state.legs, legs) /\ legs[l] = y
    BY ONLY state \in PursuitStates, y \in LegType, <2>1, <2>3, WithLastIs
  <2> QED
    BY <2>2, <2>4
<1> SUFFICES ASSUME NEW m \in DOMAIN new.legs PROVE LegWorkable(new.legs[m])
  OBVIOUS
<1>4. CASE m = l
  BY <1>2, <1>3, <1>4
<1>5. CASE m = l + 1 /\ m # l
  BY <1>3, <1>5, NewWorkable DEF LastDiffers
<1>6. CASE m # l /\ m # l + 1
  BY <1>3, <1>6 DEF LastDiffers
<1> QED
  BY <1>4, <1>5, <1>6

(* No item is ever cancelled: a settlement turns one, blocks block others.  *)
LEMMA AppliedSane ==
  ASSUME NEW state \in PursuitStates, Sane(state), NEW spec \in PursuitSpecs,
         Belongs(state, spec), Known(state.legs, spec), NEW settlement,
         PursuitValidates(state, spec, settlement),
         settlement.status = "completed" => settlement.payload \in PursuitPayloads(spec),
         NEW running, NEW new, new = PursuitApplied(state, spec, settlement, running)
  PROVE  Sane(new)
<1>1. PICK y : AppliedFrom(state, spec, settlement, running, y, new)
  BY AppliedIs
<1> DEFINE l == Len(state.legs)
<1>2. PICK leg : leg = PropagatedBlocks(y, l, running)
  OBVIOUS
<1>3. /\ LegOK(y) /\ SettledAs(state.legs[l], spec, settlement, y)
      /\ Concludes(state, leg, AttemptVerdict(leg.attempts[Len(leg.attempts)], l, running), new)
  BY <1>1, <1>2 DEF AppliedFrom
<1>4. l \in DOMAIN state.legs
  BY StateFacts
<1>5. LegWorkable(y)
  BY <1>3, <1>4, SettledWorkable DEF Sane
<1>6. leg \in LegType /\ LegMoves(y, leg)
  BY <1>2, <1>3, BlocksMove DEF LegOK
<1>7. LegWorkable(leg)
  BY <1>5, <1>6, MovesWorkable
<1>8. \A m \in DOMAIN new.legs : LegWorkable(new.legs[m])
  <2>1. PICK verdict : Concludes(state, leg, verdict, new)
    BY <1>3
  <2> QED
    BY <1>6, <1>7, <2>1, ConcludedWorkable DEF Sane
<1>9. Advances(state.legs, new.legs, spec, EndVerdict(spec, settlement), running)
  BY AppliedAdvances
<1>10. ASSUME NEW other, StandsAs(new.legs, other, "Cancelled") PROVE FALSE
  <2>1. Known(state.legs, other)
    BY <1>9, <1>10 DEF Advances
  <2>2. PICK old : StandsAs(state.legs, other, old)
    BY <2>1 DEF Known
  <2>3. Settling(old, "Cancelled", other, spec, EndVerdict(spec, settlement), running)
    BY <1>9, <1>10, <2>2 DEF Advances
  <2>4. EndVerdict(spec, settlement) # "Cancelled"
    BY DEF EndVerdict
  <2>5. old = "Cancelled"
    BY <2>3, <2>4 DEF Settling
  <2> QED
    BY <2>2, <2>5 DEF Sane
<1> QED
  BY <1>8, <1>10 DEF Sane


(* A part that is not empty makes a list that is not.                       *)
LEMMA FlattenSome ==
  ASSUME NEW T, NEW seqs \in Seq(Seq(T)), NEW a \in DOMAIN seqs, seqs[a] # <<>>
  PROVE  FlattenSeq(seqs) # <<>>
<1>1. PICK i, k : IsPlacing(i, k, FlattenSeq(seqs), seqs)
  BY FlattenPlaces
<1>2. 1 \in DOMAIN seqs[a]
  <2>1. seqs[a] \in Seq(T)
    OBVIOUS
  <2> QED
    BY <2>1
<1>3. \E n \in DOMAIN FlattenSeq(seqs) : i[n] = a /\ k[n] = 1
  BY <1>1, <1>2 DEF IsPlacing
<1>4. DOMAIN <<>> = {}
  OBVIOUS
<1> QED
  BY <1>3, <1>4

LEMMA ReadyGoes ==
  ASSUME NEW leg, LegOK(leg), Open(leg), NEW a, a = Len(leg.attempts),
         leg.attempts[a].plan = "Success", NEW k \in DOMAIN leg.attempts[a].items,
         NEW l, NEW running, IsReady(leg, l, leg.attempts[a].items[k], running)
  PROVE  LegDispatches(leg, l, running) # <<>>
<1> DEFINE items == leg.attempts[a].items
           T == {WorkerSpec(l, a, items[n]) : n \in DOMAIN items}
           one(n) == IF IsReady(leg, l, items[n], running)
                     THEN <<WorkerSpec(l, a, items[n])>> ELSE <<>>
           ready == [n \in DOMAIN items |-> one(n)]
<1>1. LegDispatches(leg, l, running) = FlattenSeq(ready)
  BY DEF LegDispatches, Open
<1>2. items \in Seq(ItemType)
  <2>1. leg \in LegType /\ Len(leg.attempts) \in 1..MaxAttempts
    BY DEF LegOK, ShapeOK
  <2>2. a \in DOMAIN leg.attempts
    BY <2>1, LegFacts, AttemptsAssumption
  <2> QED
    BY <2>1, <2>2, LegFacts
<1>3. ASSUME NEW n \in DOMAIN items PROVE one(n) \in Seq(T)
  <2>1. WorkerSpec(l, a, items[n]) \in T
    OBVIOUS
  <2> HIDE DEF T
  <2> QED
    BY <2>1
<1>4. one(k) # <<>>
  OBVIOUS
<1> HIDE DEF one, T, items
<1>5. DOMAIN items = 1..Len(items) /\ Len(items) \in Nat
  BY <1>2
<1>6. ready \in Seq(Seq(T)) /\ k \in DOMAIN ready /\ ready[k] # <<>>
  <2>1. k \in DOMAIN items
    BY DEF items
  <2> QED
    BY <1>3, <1>4, <1>5, <2>1
<1> HIDE DEF ready
<1>7. FlattenSeq(ready) # <<>>
  BY <1>6, FlattenSome
<1> QED
  BY <1>1, <1>7

LEMMA PlannerGoes ==
  ASSUME NEW leg, Open(leg), leg.attempts[Len(leg.attempts)].plan = "NotStarted", NEW l
  PROVE  LegDispatches(leg, l, {}) # <<>>
BY DEF LegDispatches, Open, PlannerRuns

LEMMA LegGoes ==
  ASSUME NEW state \in PursuitStates, ~state.done, NEW running, NEW l \in DOMAIN state.legs,
         LegDispatches(state.legs[l], l, running) # <<>>
  PROVE  PursuitDispatches(state, running) # <<>>
<1> DEFINE one(m) == LegDispatches(state.legs[m], m, running)
           parts == [m \in DOMAIN state.legs |-> one(m)]
           T == AllWaiting(state.legs, running)
<1>1. PursuitDispatches(state, running) = FlattenSeq(parts)
  BY DEF PursuitDispatches
<1>2. ASSUME NEW m \in DOMAIN state.legs PROVE one(m) \in Seq(T)
  <2>1. PICK some : some = LegDispatches(state.legs[m], m, running)
    OBVIOUS
  <2>2. WaitsOnce(state, m, running, some)
    BY <2>1, LegDispatchesWait
  <2> QED
    BY <2>1, <2>2 DEF WaitsOnce
<1>3. one(l) # <<>>
  OBVIOUS
<1>4. DOMAIN state.legs = 1..Len(state.legs) /\ Len(state.legs) \in Nat
  BY StateFacts
<1> HIDE DEF one, T
<1>5. parts \in Seq(Seq(T)) /\ l \in DOMAIN parts /\ parts[l] # <<>>
  BY <1>2, <1>3, <1>4
<1> HIDE DEF parts
<1>6. FlattenSeq(parts) # <<>>
  BY <1>5, FlattenSome
<1> QED
  BY <1>1, <1>6


(* Of the items of an open attempt that has no verdict, with no node        *)
(* running, one has not been started, and none is more than judged.         *)
LEMMA VerdictWaits ==
  ASSUME NEW attempt \in AttemptType, NEW l, AttemptVerdict(attempt, l, {}) = "Running",
         attempt.plan # "NotStarted", Workable(attempt),
         \A k \in DOMAIN attempt.items : attempt.items[k].status # "Cancelled"
  PROVE  /\ attempt.plan = "Success"
         /\ \E k \in DOMAIN attempt.items : attempt.items[k].status = "NotStarted"
<1> DEFINE items == ToSet(attempt.items)
           won == /\ attempt.plan = "Success"
                  /\ items # {}
                  /\ \A item \in items : EffectiveStatus(l, item, {}) = "Success"
           lost == /\ attempt.plan = "Success"
                   /\ \E item \in items : item.status \in {"Failed", "Blocked"}
                   /\ \A item \in items : EffectiveStatus(l, item, {}) \in ItemTerminal
           fails == attempt.plan = "Failed"
           verdict == AttemptVerdict(attempt, l, {})
<1>1. verdict = CASE fails -> "Failed" [] won -> "Success" [] lost -> "Failed"
                  [] OTHER -> "Running"
  BY DEF AttemptVerdict
<1>2. items = {attempt.items[k] : k \in DOMAIN attempt.items}
  BY DEF ToSet
<1>3. ~fails /\ ~won /\ ~lost
  <2>1. verdict = "Running" /\ won \in BOOLEAN /\ lost \in BOOLEAN /\ fails \in BOOLEAN
    OBVIOUS
  <2> HIDE DEF verdict, won, lost, fails
  <2> QED
    BY <1>1, <2>1
<1>4. attempt.plan = "Success"
  BY <1>3 DEF AttemptType, PlanStatuses
<1>5. \A item : EffectiveStatus(l, item, {}) = item.status
  BY DEF EffectiveStatus, WorkerRuns
<1>6. items # {}
  BY <1>2, <1>4 DEF Workable
<1> HIDE DEF items
<1>7. SUFFICES ASSUME \A k \in DOMAIN attempt.items : attempt.items[k].status # "NotStarted"
               PROVE  FALSE
  BY <1>4
<1>8. \A item \in items : item.status \in {"Success", "Failed", "Blocked"}
  <2>1. \A k \in DOMAIN attempt.items : attempt.items[k] \in ItemType
    BY DEF AttemptType
  <2> QED
    BY <1>2, <1>7, <2>1 DEF ItemType, ItemStatuses, ItemTerminal
<1>9. \A item \in items : EffectiveStatus(l, item, {}) \in ItemTerminal
  BY <1>5, <1>8 DEF ItemTerminal
<1>10. \A item \in items : item.status = "Success"
  BY <1>3, <1>4, <1>8, <1>9
<1> QED
  BY <1>3, <1>4, <1>5, <1>6, <1>10

(* A leg in its last attempt, whose blocks have spread, goes on.            *)
LEMMA OpenGoes ==
  ASSUME NEW leg, LegOK(leg), Open(leg), LegWorkable(leg), NEW l, Stable(leg, l, {}),
         \A spec : ~Stands(leg, l, spec, "Cancelled"),
         AttemptVerdict(leg.attempts[Len(leg.attempts)], l, {}) = "Running"
  PROVE  LegDispatches(leg, l, {}) # <<>>
<1> DEFINE a == Len(leg.attempts)
           attempt == leg.attempts[a]
<1>1. /\ leg \in LegType /\ KeysDiffer(leg) /\ DepsResolve(leg) /\ ShapeOK(leg)
      /\ a \in DOMAIN leg.attempts /\ attempt \in AttemptType
  <2>1. leg \in LegType /\ KeysDiffer(leg) /\ DepsResolve(leg) /\ ShapeOK(leg)
    BY DEF LegOK, GraphOK
  <2>2. a \in DOMAIN leg.attempts
    BY <2>1, LegFacts, AttemptsAssumption DEF ShapeOK
  <2> QED
    BY <2>1, <2>2, LegFacts
<1>2. ASSUME NEW b, NEW k, Place(leg, b, k)
      PROVE  At(leg, b, k).status \in {"NotStarted", "Success", "Failed", "Blocked"}
  <2>1. At(leg, b, k).status # "Cancelled"
    BY <1>2 DEF Stands
  <2>2. At(leg, b, k) \in ItemType
    BY <1>1, <1>2, LegFacts
  <2> QED
    BY <2>1, <2>2 DEF ItemType, ItemStatuses, ItemTerminal
<1>3. CASE attempt.plan = "NotStarted"
  BY <1>3, PlannerGoes
<1>4. CASE attempt.plan # "NotStarted"
  <2>1. Workable(attempt)
    BY <1>1 DEF LegWorkable
  <2>2. \A k \in DOMAIN attempt.items : Place(leg, a, k) /\ At(leg, a, k) = attempt.items[k]
    BY <1>1 DEF Place, At
  <2>3. \A k \in DOMAIN attempt.items : attempt.items[k].status # "Cancelled"
    BY <1>2, <2>2
  <2>4. PICK some : some = attempt
    OBVIOUS
  <2>5. some.plan = "Success" /\ \E k \in DOMAIN some.items : some.items[k].status = "NotStarted"
    <3>1. /\ some \in AttemptType /\ some.plan # "NotStarted" /\ Workable(some)
          /\ \A k \in DOMAIN some.items : some.items[k].status # "Cancelled"
      BY <1>1, <1>4, <2>1, <2>3, <2>4
    <3>2. AttemptVerdict(some, l, {}) = "Running"
      BY <2>4
    <3> QED
      BY ONLY <3>1, <3>2, VerdictWaits
  <2> DEFINE K == {k \in DOMAIN some.items : some.items[k].status = "NotStarted"}
  <2>6. PICK k \in K : \A j \in K : some.items[j].id \notin some.items[k].deps
    <3>1. K \in (SUBSET DOMAIN some.items) \ {{}}
      BY <2>5
    <3>2. NoCycle(some.items)
      BY <2>1, <2>4 DEF Workable
    <3> HIDE DEF K
    <3> QED
      BY ONLY <3>1, <3>2 DEF NoCycle
  <2>7. /\ Place(leg, a, k) /\ At(leg, a, k) = some.items[k] /\ some.items[k].status = "NotStarted"
        /\ k \in DOMAIN some.items
    BY <2>2, <2>4, <2>6
  <2> DEFINE item == some.items[k]
  <2>8. ~WorkerRuns({}, l, item)
    BY DEF WorkerRuns
  <2>9. ~DependencyBlocks(leg, item)
    BY <2>7, <2>8 DEF Stable
  <2>10. ASSUME NEW id \in item.deps
         PROVE  DependencyStatus(leg, item.version, id) = "Success"
    <3>1. PICK b, j : /\ Place(leg, b, j) /\ At(leg, b, j).id = id
                      /\ At(leg, b, j).version = item.version
      BY <1>1, <2>7, <2>10 DEF DepsResolve
    <3>2. DependencyStatus(leg, item.version, id) = At(leg, b, j).status
      <4>1. DependencyStatus(leg, At(leg, b, j).version, At(leg, b, j).id) = At(leg, b, j).status
        BY <1>1, <3>1, DependencyIs
      <4> QED
        BY <3>1, <4>1
    <3>3. At(leg, b, j).status \notin {"Failed", "Blocked"}
      BY <2>9, <2>10, <3>2 DEF DependencyBlocks
    <3>4. At(leg, b, j).status # "NotStarted"
      <4>1. CASE b = a
        <5>1. j \in DOMAIN some.items /\ At(leg, b, j) = some.items[j]
          BY <2>4, <3>1, <4>1 DEF Place, At
        <5> QED
          BY <2>6, <2>10, <3>1, <5>1
      <4>2. CASE b # a
        <5>1. b \in DOMAIN leg.attempts /\ j \in DOMAIN leg.attempts[b].items
          BY <3>1 DEF Place
        <5>2. leg.attempts[b].status # "Running" /\ AttemptOK(leg.attempts[b])
          BY <1>1, <4>2, <5>1 DEF ShapeOK
        <5>3. leg.attempts[b].items[j].status \in ItemTerminal
          BY <5>1, <5>2 DEF AttemptOK
        <5> QED
          BY <5>3 DEF At, ItemTerminal
      <4> QED
        BY <4>1, <4>2
    <3> QED
      BY <1>2, <3>1, <3>2, <3>3, <3>4
  <2>11. IsReady(leg, l, item, {})
    BY <2>7, <2>8, <2>10 DEF IsReady, DependenciesSucceeded
  <2> HIDE DEF K
  <2> QED
    BY <2>4, <2>5, <2>7, <2>11, ReadyGoes
<1> QED
  BY <1>3, <1>4


LEMMA NewLegGoes == ASSUME NEW l PROVE LegDispatches(NewLeg, l, {}) # <<>>
<1>1. NewLeg.attempts = <<NewAttempt>> /\ NewLeg.status = "Running"
      /\ NewAttempt.status = "Running" /\ NewAttempt.plan = "NotStarted"
  BY DEF NewLeg, NewAttempt
<1>2. Len(<<NewAttempt>>) = 1 /\ <<NewAttempt>>[1] = NewAttempt
  OBVIOUS
<1>3. Open(NewLeg) /\ NewLeg.attempts[Len(NewLeg.attempts)].plan = "NotStarted"
  BY <1>1, <1>2 DEF Open
<1> QED
  BY <1>3, PlannerGoes

LEMMA RetryGoes ==
  ASSUME NEW leg \in LegType, Open(leg), NEW y, NEW verdict, Judges(leg, y, verdict, leg.status, TRUE),
         NEW l
  PROVE  LegDispatches(y, l, {}) # <<>>
<1>1. /\ Len(y.attempts) = Len(leg.attempts) + 1 /\ y.status = "Running"
      /\ y.attempts[Len(leg.attempts) + 1] = NewAttempt
  BY DEF Judges, Open
<1>2. NewAttempt.status = "Running" /\ NewAttempt.plan = "NotStarted"
  BY DEF NewAttempt
<1>3. Open(y) /\ y.attempts[Len(y.attempts)].plan = "NotStarted"
  BY <1>1, <1>2 DEF Open
<1> QED
  BY <1>3, PlannerGoes

(* What follows a settlement after which no node runs, and does not end     *)
(* the pursuit, orders something.                                           *)
LEMMA ConcludedGoes ==
  ASSUME NEW state \in PursuitStates, NEW l, l = Len(state.legs),
         NEW leg, LegOK(leg), Open(leg), Stable(leg, l, {}), NEW verdict,
         verdict = AttemptVerdict(leg.attempts[Len(leg.attempts)], l, {}),
         NEW new \in PursuitStates, Concludes(state, leg, verdict, new), Sane(new), ~new.done
  PROVE  PursuitDispatches(new, {}) # <<>>
<1>1. /\ l \in Nat /\ DOMAIN state.legs = 1..l /\ l >= 1 /\ leg \in LegType
      /\ DOMAIN new.legs = 1..Len(new.legs) /\ Len(new.legs) \in Nat
  BY StateFacts DEF LegOK
<1>2. ASSUME NEW y \in LegType,
             new.legs = WithLast(state, y) \/ new.legs = Append(WithLast(state, y), NewLeg)
      PROVE  l \in DOMAIN new.legs /\ new.legs[l] = y
  <2>1. PICK legs : legs = new.legs
    OBVIOUS
  <2>2. legs = WithLast(state, y) \/ legs = Append(WithLast(state, y), NewLeg)
    BY <1>2, <2>1
  <2>3. LastDiffers(state.legs, legs) /\ legs[l] = y
    BY ONLY state \in PursuitStates, l = Len(state.legs), y \in LegType, <2>2, WithLastIs
  <2> QED
    BY <1>1, <2>1, <2>3 DEF LastDiffers
<1>3. CASE verdict = "Running" /\ new.legs = WithLast(state, leg)
  <2>1. l \in DOMAIN new.legs /\ new.legs[l] = leg
    BY <1>1, <1>2, <1>3
  <2>2. LegWorkable(leg)
    BY <2>1 DEF Sane
  <2>3. ASSUME NEW spec, Stands(leg, l, spec, "Cancelled") PROVE FALSE
    <3>1. spec.leg = l
      BY <2>3, SpecFacts DEF Stands
    <3> QED
      BY <2>1, <2>3, <3>1 DEF Sane, StandsAs
  <2>4. AttemptVerdict(leg.attempts[Len(leg.attempts)], l, {}) = "Running"
    BY <1>3
  <2>5. LegDispatches(leg, l, {}) # <<>>
    BY <2>2, <2>3, <2>4, OpenGoes
  <2> QED
    BY <2>1, <2>5, LegGoes
<1>4. ASSUME NEW y, Judges(leg, y, verdict, leg.status, TRUE), new.legs = WithLast(state, y)
      PROVE  PursuitDispatches(new, {}) # <<>>
  <2>1. y \in LegType
    BY <1>4 DEF Judges
  <2>2. l \in DOMAIN new.legs /\ new.legs[l] = y
    BY <1>2, <1>4, <2>1
  <2>3. LegDispatches(y, l, {}) # <<>>
    BY <1>1, <1>4, RetryGoes
  <2> QED
    BY <2>2, <2>3, LegGoes
<1>5. ASSUME NEW y, Judges(leg, y, verdict, verdict, FALSE),
             new.legs = Append(WithLast(state, y), NewLeg)
      PROVE  PursuitDispatches(new, {}) # <<>>
  <2>1. y \in LegType
    BY <1>5 DEF Judges
  <2> DEFINE with == WithLast(state, y)
  <2>2. with \in Seq(LegType) /\ Len(with) = l
    <3>1. state.legs \in Seq(LegType)
      BY StateFacts DEF LegsOK
    <3> QED
      BY <1>1, <2>1, <3>1 DEF WithLast
  <2> HIDE DEF with
  <2>3. NewLeg \in LegType
    BY NewLegOK DEF LegOK
  <2>4. new.legs = Append(with, NewLeg)
    BY <1>5 DEF with
  <2>5. l + 1 \in DOMAIN new.legs /\ new.legs[l + 1] = NewLeg
    BY <1>1, <2>2, <2>3, <2>4
  <2>6. LegDispatches(new.legs[l + 1], l + 1, {}) # <<>>
    BY <2>5, NewLegGoes
  <2> QED
    BY <2>5, <2>6, LegGoes
<1> QED
  BY <1>3, <1>4, <1>5 DEF Concludes

LEMMA AppliedGoes ==
  ASSUME NEW state \in PursuitStates, NEW spec \in PursuitSpecs,
         Belongs(state, spec), NEW settlement, PursuitValidates(state, spec, settlement),
         settlement.status = "completed" => settlement.payload \in PursuitPayloads(spec),
         NEW new \in PursuitStates, new = PursuitApplied(state, spec, settlement, {}),
         Sane(new), ~new.done
  PROVE  PursuitDispatches(new, {}) # <<>>
<1>1. PICK y : AppliedFrom(state, spec, settlement, {}, y, new)
  BY AppliedIs
<1> DEFINE l == Len(state.legs)
<1>2. PICK leg : leg = PropagatedBlocks(y, l, {})
  OBVIOUS
<1>3. /\ LegOK(y) /\ Open(y)
      /\ Concludes(state, leg, AttemptVerdict(leg.attempts[Len(leg.attempts)], l, {}), new)
  BY <1>1, <1>2 DEF AppliedFrom
<1>4. LegOK(leg) /\ LegMoves(y, leg)
  BY <1>2, <1>3, PropagatedShifts
<1>5. Stable(leg, l, {})
  BY <1>2, <1>3, BlocksSettle DEF LegOK
<1>6. Open(leg)
  <2>1. y \in LegType /\ leg \in LegType /\ Len(y.attempts) \in 1..MaxAttempts
    BY <1>3, <1>4 DEF LegOK, ShapeOK
  <2>2. Len(y.attempts) \in DOMAIN y.attempts
    BY <2>1, LegFacts, AttemptsAssumption
  <2> QED
    BY <1>3, <1>4, <2>1, <2>2, OpenMoves
<1>7. PICK verdict : verdict = AttemptVerdict(leg.attempts[Len(leg.attempts)], l, {})
  OBVIOUS
<1>8. Concludes(state, leg, verdict, new)
  BY <1>3, <1>7
<1> QED
  BY <1>4, <1>5, <1>6, <1>7, <1>8, ConcludedGoes


-----------------------------------------------------------------------------
(* The run is quiet: it goes on until the pursuit is done, and what took it *)
(* down otherwise took its nodes with it.                                   *)
QuietInv ==
  /\ Sane(wf)
  /\ outcome # "deadlocked"
  /\ outcome \notin {"none", "success", "failure"} => Running(nodes) = {}

LEMMA QuietInit ==
  ASSUME PursuitHooks, Init
  PROVE  QuietInv
<1>1. outcome = "none" /\ wf \in InitialStates
  BY DEF Init
<1>2. PICK goals \in Nat : wf = PursuitInitial(goals)
  BY <1>1 DEF PursuitHooks
<1>3. DOMAIN wf.legs = {1} /\ wf.legs[1] = NewLeg
  BY <1>2, InitialIs
<1>4. \A spec : ~StandsAs(wf.legs, spec, "Cancelled")
  BY <1>3, NewLegStands DEF StandsAs
<1> QED
  BY <1>1, <1>3, <1>4, NewWorkable DEF QuietInv, Sane

LEMMA ContinuesQuiet ==
  ASSUME PursuitInv, NowFits, QuietInv, Continues(PursuitSpecs, Submissions)
  PROVE  QuietInv'
<1>1. wf' = wf /\ outcome' = outcome
  BY DEF Continues
<1>2. ASSUME outcome \notin {"none", "success", "failure"} PROVE Running(nodes)' = {}
  <2>1. Running(nodes) = {} /\ Waiting = <<>>
    BY <1>2 DEF QuietInv, NowFits, RunFit
  <2>2. PICK ns \in Seq(EntryType(PursuitSpecs, Submissions)) :
          SameEnds(nodes, ns) /\ Takes(ns, Waiting, nodes', Waiting')
    BY DEF Continues
  <2>3. nodes' = ns
    BY <2>1, <2>2 DEF Takes
  <2> QED
    BY <2>1, <2>2, <2>3 DEF SameEnds, Running
<1> QED
  BY <1>1, <1>2 DEF QuietInv

LEMMA StopsQuiet ==
  ASSUME PursuitInv, QuietInv, Stops
  PROVE  QuietInv'
<1>1. /\ wf' = Ended(wf, "failure") /\ outcome' = "cancelled" /\ op.running = Running(nodes)
      /\ nodes' = [i \in DOMAIN nodes |->
                     IF i \in op.running THEN [nodes[i] EXCEPT !.status = "cancelled"]
                                         ELSE nodes[i]]
  BY DEF Stops, FinishInterrupt
<1>2. wf'.legs = wf.legs
  <2>1. wf \in StateType /\ wf' = [wf EXCEPT !.done = TRUE, !.status = "failure"]
    BY <1>1, WaitingTyped DEF Ended, PursuitStates
  <2> QED
    BY <2>1 DEF StateType
<1>3. Sane(wf)'
  BY <1>2 DEF QuietInv, Sane
<1>4. \A i \in DOMAIN nodes : nodes'[i].status # "running"
  <2> SUFFICES ASSUME NEW i \in DOMAIN nodes PROVE nodes'[i].status # "running"
    OBVIOUS
  <2>1. nodes[i] \in EntryType(PursuitSpecs, Submissions)
    BY GoodEntry DEF PursuitInv
  <2>2. CASE i \in op.running
    BY <1>1, <2>1, <2>2 DEF EntryType
  <2>3. CASE i \notin op.running
    BY <1>1, <2>3 DEF Running
  <2> QED
    BY <2>2, <2>3
<1>5. DOMAIN nodes' = DOMAIN nodes
  BY <1>1
<1>6. Running(nodes)' = {}
  BY <1>4, <1>5 DEF Running
<1> QED
  BY <1>1, <1>3, <1>6 DEF QuietInv

LEMMA BeginsQuiet ==
  ASSUME QuietInv, Begins
  PROVE  QuietInv'
<1>1. wf' = wf /\ outcome' = outcome /\ outcome = "none"
  BY DEF Begins
<1> QED
  BY <1>1 DEF QuietInv

LEMMA AcceptsQuiet ==
  ASSUME PursuitHooks, PursuitInv, NowFits, EarnedInv, QuietInv,
         NEW i, NEW settlement, Accepts(Submissions, i, settlement)
  PROVE  QuietInv'
<1> DEFINE ns == Count(i, settlement)
           state == After(i, settlement)
           running == RunningSpecs(ns)
           stuck == IsStuck(state, ns)
<1>1. /\ wf' = IF stuck THEN Ended(state, "deadlocked") ELSE state
      /\ outcome' = OutcomeAfter(state, ns)
  BY DEF Accepts
<1>2. /\ wf \in PursuitStates /\ state \in PursuitStates /\ i \in DOMAIN nodes
      /\ ns[i].spec = nodes[i].spec
      /\ ns[i].spec \in PursuitSpecs /\ Belongs(wf, ns[i].spec)
      /\ PursuitValidates(wf, ns[i].spec, settlement)
      /\ settlement.status = "completed" => settlement.payload \in PursuitPayloads(ns[i].spec)
      /\ state = PursuitApplied(wf, ns[i].spec, settlement, running)
      /\ Order(state, ns) = PursuitDispatches(state, running)
  BY AcceptFacts
<1>3. outcome = "none" /\ StateSound(wf) /\ Sane(wf)
  BY <1>2 DEF PursuitValidates, NowFits, RunFit, EarnedInv, QuietInv
<1>4. stuck => /\ ~state.done /\ Order(state, ns) = <<>>
               /\ Running(ns) = {}
  BY DEF IsStuck
<1>5. Running(ns) = {} => running = {}
  BY DEF RunningSpecs
<1>6. outcome' = IF state.done THEN state.status
                 ELSE IF stuck THEN "deadlocked" ELSE "none"
  BY <1>1, <1>3 DEF OutcomeAfter
<1>7. PICK spec : spec = ns[i].spec
  OBVIOUS
<1>8. Known(wf.legs, spec)
  BY <1>2, <1>7 DEF NowFits, NodesFit, Known
<1> HIDE DEF ns, state, running, stuck
<1>9. Sane(state)
  BY <1>2, <1>3, <1>7, <1>8, AppliedSane
<1>10. StateSound(state) /\ Fair(state)
  BY <1>2, <1>3, <1>7, AppliedSound
<1>11. ~stuck
  <2> SUFFICES ASSUME stuck PROVE FALSE
    OBVIOUS
  <2>1. state = PursuitApplied(wf, spec, settlement, {}) /\ ~state.done
        /\ PursuitDispatches(state, {}) = <<>>
    BY <1>2, <1>4, <1>5, <1>7
  <2> QED
    BY <1>2, <1>7, <1>9, <2>1, AppliedGoes
<1>12. outcome' \in {"none", "success", "failure"}
  BY <1>6, <1>10, <1>11 DEF Fair
<1>13. Sane(wf)'
  BY <1>1, <1>9, <1>11
<1> QED
  BY <1>12, <1>13 DEF QuietInv


(* A pursuit that was won or lost has judged every attempt, so all its      *)
(* plans and items are settled, and with them their nodes.                  *)
LEMMA EndsSettled ==
  ASSUME PursuitInv, OwnInv, EarnedInv, outcome \in {"success", "failure"}
  PROVE  Running(nodes) = {}
<1>1. wf.legs[Len(wf.legs)].status # "Running"
  <2>1. Won(wf) \/ Lost(wf)
    BY DEF EarnedInv
  <2> QED
    BY <2>1 DEF Won, Lost
<1>2. ASSUME NEW l \in Legs, NEW a \in Attempts(l)
      PROVE  wf.legs[l].attempts[a].status # "Running"
  <2>1. LegOK(wf.legs[l])
    BY InvFacts
  <2>2. wf.legs[l].status = "Running" => l = Len(wf.legs)
    BY WaitingTyped, StateFacts DEF LegsOK, Legs
  <2>3. wf.legs[l].status # "Running"
    BY <1>1, <2>2
  <2> QED
    BY <2>1, <2>3 DEF LegOK, ShapeOK, Attempts
<1>3. ASSUME NEW spec, StandsAs(wf.legs, spec, "NotStarted") PROVE FALSE
  <2>1. PICK l : l = spec.leg
    OBVIOUS
  <2>2. l \in Legs /\ Stands(wf.legs[l], l, spec, "NotStarted")
    BY <1>3, <2>1 DEF StandsAs, Legs
  <2>3. \A a \in DOMAIN wf.legs[l].attempts : AttemptOK(wf.legs[l].attempts[a])
    BY <2>2, InvFacts DEF LegOK, ShapeOK
  <2>4. \A a \in DOMAIN wf.legs[l].attempts : wf.legs[l].attempts[a].status # "Running"
    BY <1>2, <2>2 DEF Attempts
  <2> QED
    BY <2>2, <2>3, <2>4 DEF Stands, Place, At, AttemptOK, ItemTerminal
<1> SUFFICES ASSUME NEW i \in DOMAIN nodes, nodes[i].status = "running" PROVE FALSE
  BY DEF Running
<1>4. StandsAs(wf.legs, nodes[i].spec, OwnStatus(nodes[i]))
  BY DEF OwnInv, NodesFit
<1>5. nodes[i].counted = 0
  BY GoodEntry DEF PursuitInv, EntryInv
<1> QED
  BY <1>3, <1>4, <1>5 DEF OwnStatus

LEMMA QuietStep ==
  ASSUME PursuitHooks, ~LaunchMayFail, PursuitInv, PursuitInv', OwnInv, EarnedInv, QuietInv,
         [Next]_vars
  PROVE  QuietInv'
<1>1. StepKinds(PursuitSpecs, Submissions)
  BY PursuitKinds DEF OwnInv
<1>2. NowFits
  BY DEF OwnInv, NowFits
<1>3. CASE Continues(PursuitSpecs, Submissions)
  BY <1>2, <1>3, ContinuesQuiet
<1>4. CASE Begins
  BY <1>4, BeginsQuiet
<1>5. CASE Stops
  BY <1>5, StopsQuiet
<1>6. CASE \E i, settlement : Accepts(Submissions, i, settlement)
  BY <1>2, <1>6, AcceptsQuiet
<1> QED
  BY <1>1, <1>3, <1>4, <1>5, <1>6 DEF StepKinds

(* In every pursuit whose launches do not fail the run never deadlocks, and *)
(* when it has an outcome none of its nodes runs.  The runtime would report *)
(* a deadlock if nothing ran and nothing was ordered                        *)
(* (workflow-runtime.ts:350); the cycle check of a plan                     *)
(* (pursuit/workflow.mjs:632) and the spreading of blocks until nothing     *)
(* changes (:492) keep a pursuit from it.                                   *)
THEOREM PursuitEndsQuietly ==
  ASSUME PursuitHooks, ~LaunchMayFail
  PROVE  Safety => []EndsQuietly
<1>1. Init => EarnedInv /\ QuietInv
  BY EarnedInit, QuietInit
<1>2. PursuitInv /\ PursuitInv' /\ OwnInv /\ EarnedInv /\ QuietInv /\ [Next]_vars
        => EarnedInv' /\ QuietInv'
  BY EarnedStep, QuietStep
<1>3. Safety => [](PursuitInv /\ OwnInv)
  BY OwnInvariant
<1>4. PursuitInv /\ OwnInv /\ EarnedInv /\ QuietInv => EndsQuietly
  BY EndsSettled DEF QuietInv, EndsQuietly, QuietFinish, NeverDeadlocked
<1> QED
  BY <1>1, <1>2, <1>3, <1>4, PTL DEF Safety

=============================================================================
