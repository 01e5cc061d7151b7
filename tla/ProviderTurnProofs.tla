-------------------------- MODULE ProviderTurnProofs --------------------------
(***************************************************************************)
(* Proofs about the provider calls of a run (ProviderTurn), for both wires *)
(* and for any number of retries, frames and turns: what the host is shown *)
(* is what the turn commits, and a request asks with every call answered.  *)
(*                                                                         *)
(* TurnInv is the inductive invariant: the types, what the decoder has     *)
(* assembled against what was shown (Assembled), the message committed     *)
(* last, and the pairs of calls and results in the request (Paired).       *)
(***************************************************************************)
EXTENDS ProviderTurn, SequenceLemmas

-----------------------------------------------------------------------------
(* Blocks, their kinds and their data.                                      *)
Marks == (Nat \X Nat \X Nat) \cup {"task", "steer"}
Data == Seq(Marks)
KindsOfBlock == BlockKinds \cup {"none", "result"}
Blocks == [kind : KindsOfBlock, data : Data]

(* What Said and Keep make of one more block.                               *)
LEMMA SaidAppend ==
  ASSUME NEW blocks \in Seq(Blocks), NEW b \in Blocks, NEW kind
  PROVE  /\ Said(blocks, kind) \in Data
         /\ Said(Append(blocks, b), kind)
              = Said(blocks, kind) \o IF b.kind = kind THEN b.data ELSE <<>>
<1> DEFINE parts(s) == [k \in DOMAIN s |-> IF s[k].kind = kind THEN s[k].data ELSE <<>>]
           part == IF b.kind = kind THEN b.data ELSE <<>>
<1>1. <<>> \in Data /\ \A c \in Blocks : c.data \in Data
  BY DEF Blocks, Data
<1>2. /\ DOMAIN blocks = 1..Len(blocks) /\ Len(blocks) \in Nat
      /\ \A k \in DOMAIN blocks : blocks[k] \in Blocks
  OBVIOUS
<1>3. parts(blocks) \in Seq(Data)
  BY <1>1, <1>2
<1>4. part \in Data
  BY <1>1
<1>5. parts(Append(blocks, b)) = Append(parts(blocks), part)
  <2> DEFINE grown == Append(blocks, b)
  <2>1. /\ DOMAIN grown = 1..Len(blocks) + 1
        /\ \A k \in 1..Len(blocks) : grown[k] = blocks[k]
        /\ grown[Len(blocks) + 1] = b
    BY <1>2
  <2> HIDE DEF grown
  <2>2. parts(grown) = [k \in 1..Len(blocks) + 1 |->
                          IF k <= Len(blocks) THEN parts(blocks)[k] ELSE part]
    BY <1>2, <2>1
  <2> DEFINE old == parts(blocks)
  <2>3. old \in Seq(Data) /\ Len(old) = Len(blocks)
    BY <1>2, <1>3
  <2> HIDE DEF old
  <2>4. Append(old, part) = [k \in 1..Len(blocks) + 1 |->
                               IF k <= Len(blocks) THEN old[k] ELSE part]
    BY <1>2, <2>3
  <2> QED
    BY <2>2, <2>4 DEF old, grown
<1>6. Said(blocks, kind) = FlattenSeq(parts(blocks))
      /\ Said(Append(blocks, b), kind) = FlattenSeq(parts(Append(blocks, b)))
  BY DEF Said
<1> HIDE DEF parts, part
<1>7. FlattenSeq(parts(blocks)) \in Data
  BY <1>3, FlattenType DEF Data
<1>8. FlattenSeq(Append(parts(blocks), part)) = FlattenSeq(parts(blocks)) \o part
  BY <1>3, <1>4, FlattenAppend DEF Data
<1> QED
  BY <1>5, <1>6, <1>7, <1>8 DEF part

LEMMA KeepAppend ==
  ASSUME NEW blocks \in Seq(Blocks), NEW b \in Blocks, NEW kinds
  PROVE  /\ Keep(blocks, kinds) \in Seq(Blocks)
         /\ Keep(Append(blocks, b), kinds)
              = Keep(blocks, kinds) \o IF b.kind \in kinds THEN <<b>> ELSE <<>>
<1> DEFINE parts(s) == [k \in DOMAIN s |-> IF s[k].kind \in kinds THEN <<s[k]>> ELSE <<>>]
           part == IF b.kind \in kinds THEN <<b>> ELSE <<>>
           Parts == Seq(Blocks)
<1>1. <<>> \in Parts /\ \A c \in Blocks : <<c>> \in Parts
  OBVIOUS
<1>2. /\ DOMAIN blocks = 1..Len(blocks) /\ Len(blocks) \in Nat
      /\ \A k \in DOMAIN blocks : blocks[k] \in Blocks
  OBVIOUS
<1> HIDE DEF Parts
<1>3. parts(blocks) \in Seq(Parts)
  BY <1>1, <1>2
<1>4. part \in Parts
  BY <1>1
<1>5. parts(Append(blocks, b)) = Append(parts(blocks), part)
  <2> DEFINE grown == Append(blocks, b)
  <2>1. /\ DOMAIN grown = 1..Len(blocks) + 1
        /\ \A k \in 1..Len(blocks) : grown[k] = blocks[k]
        /\ grown[Len(blocks) + 1] = b
    BY <1>2
  <2> HIDE DEF grown
  <2>2. parts(grown) = [k \in 1..Len(blocks) + 1 |->
                          IF k <= Len(blocks) THEN parts(blocks)[k] ELSE part]
    BY <1>2, <2>1
  <2> DEFINE old == parts(blocks)
  <2>3. old \in Seq(Parts) /\ Len(old) = Len(blocks)
    BY <1>2, <1>3
  <2> HIDE DEF old
  <2>4. Append(old, part) = [k \in 1..Len(blocks) + 1 |->
                               IF k <= Len(blocks) THEN old[k] ELSE part]
    BY <1>2, <2>3
  <2> QED
    BY <2>2, <2>4 DEF old, grown
<1>6. Keep(blocks, kinds) = FlattenSeq(parts(blocks))
      /\ Keep(Append(blocks, b), kinds) = FlattenSeq(parts(Append(blocks, b)))
  BY DEF Keep
<1> HIDE DEF parts, part
<1>7. FlattenSeq(parts(blocks)) \in Parts
  BY <1>3, FlattenType DEF Parts
<1>8. FlattenSeq(Append(parts(blocks), part)) = FlattenSeq(parts(blocks)) \o part
  BY <1>3, <1>4, FlattenAppend DEF Parts
<1> QED
  BY <1>5, <1>6, <1>7, <1>8 DEF part, Parts

LEMMA OfNoBlocks ==
  ASSUME NEW kind, NEW kinds
  PROVE  Said(<<>>, kind) = <<>> /\ Keep(<<>>, kinds) = <<>>
<1>1. [k \in DOMAIN <<>> |-> IF <<>>[k].kind = kind THEN <<>>[k].data ELSE <<>>] = <<>>
      /\ [k \in DOMAIN <<>> |-> IF <<>>[k].kind \in kinds THEN <<<<>>[k]>> ELSE <<>>] = <<>>
  OBVIOUS
<1> QED
  BY <1>1, FlattenEmpty DEF Said, Keep

LEMMA SaidIsData ==
  ASSUME NEW blocks \in Seq(Blocks), NEW kind
  PROVE  Said(blocks, kind) \in Data
<1>1. NoBlock \in Blocks
  BY DEF NoBlock, Block, Blocks, KindsOfBlock, Data
<1> QED
  BY <1>1, SaidAppend

(* Keep takes the blocks of its kinds and no others, in their order.        *)
IsKept(kept, blocks, kinds) ==
  /\ kept \in Seq(Blocks)
  /\ \A k \in DOMAIN kept : kept[k].kind \in kinds
                            /\ \E j \in DOMAIN blocks : kept[k] = blocks[j]
  /\ \A j \in DOMAIN blocks : blocks[j].kind \in kinds =>
       \E k \in DOMAIN kept : kept[k] = blocks[j]

LEMMA KeepKeeps ==
  ASSUME NEW blocks \in Seq(Blocks), NEW kinds
  PROVE  IsKept(Keep(blocks, kinds), blocks, kinds)
<1> DEFINE P == {s \in Seq(Blocks) : IsKept(Keep(s, kinds), s, kinds)}
<1>1. <<>> \in P
  <2>1. Keep(<<>>, kinds) = <<>>
    BY OfNoBlocks
  <2>2. <<>> \in Seq(Blocks) /\ IsKept(<<>>, <<>>, kinds)
    BY DEF IsKept
  <2> QED
    BY <2>1, <2>2
<1>2. ASSUME NEW s \in Seq(Blocks), NEW b \in Blocks, s \in P
      PROVE  Append(s, b) \in P
  <2> DEFINE t == Append(s, b)
             old == Keep(s, kinds)
             new == Keep(t, kinds)
  <2>1. /\ t \in Seq(Blocks) /\ Len(s) \in Nat
        /\ DOMAIN s = 1..Len(s) /\ DOMAIN t = 1..Len(s) + 1
        /\ \A j \in DOMAIN s : t[j] = s[j]
        /\ t[Len(s) + 1] = b
    OBVIOUS
  <2>2. IsKept(old, s, kinds)
    BY <1>2
  <2>3. new = old \o IF b.kind \in kinds THEN <<b>> ELSE <<>>
    BY KeepAppend
  <2>0. old \in Seq(Blocks)
    BY KeepAppend
  <2> HIDE DEF t, old, new
  <2>4. CASE b.kind \notin kinds
    <3>1. new = old
      BY <2>0, <2>3, <2>4
    <3>2. ASSUME NEW k \in DOMAIN old
          PROVE  old[k].kind \in kinds /\ \E j \in DOMAIN t : old[k] = t[j]
      BY <2>1, <2>2 DEF IsKept
    <3>3. ASSUME NEW j \in DOMAIN t, t[j].kind \in kinds
          PROVE  \E k \in DOMAIN old : old[k] = t[j]
      <4>1. j \in DOMAIN s /\ t[j] = s[j]
        BY <2>1, <2>4, <3>3
      <4> QED
        BY <2>2, <3>3, <4>1 DEF IsKept
    <3>4. IsKept(old, t, kinds)
      BY <2>0, <3>2, <3>3 DEF IsKept
    <3> QED
      BY <2>1, <3>1, <3>4 DEF t, new
  <2>5. CASE b.kind \in kinds
    <3>1. new = Append(old, b)
      BY <2>0, <2>3, <2>5
    <3>2. /\ new \in Seq(Blocks) /\ Len(old) \in Nat
          /\ DOMAIN old = 1..Len(old) /\ DOMAIN new = 1..Len(old) + 1
          /\ \A k \in DOMAIN old : new[k] = old[k]
          /\ new[Len(old) + 1] = b
      BY <2>0, <3>1
    <3>3. ASSUME NEW k \in DOMAIN new
          PROVE  new[k].kind \in kinds /\ \E j \in DOMAIN t : new[k] = t[j]
      <4>1. CASE k \in DOMAIN old
        BY <2>1, <2>2, <3>2, <4>1 DEF IsKept
      <4>2. CASE k = Len(old) + 1
        BY <2>1, <2>5, <3>2, <4>2
      <4> QED
        BY <3>2, <4>1, <4>2
    <3>4. ASSUME NEW j \in DOMAIN t, t[j].kind \in kinds
          PROVE  \E k \in DOMAIN new : new[k] = t[j]
      <4>1. CASE j \in DOMAIN s
        <5>1. PICK k \in DOMAIN old : old[k] = s[j]
          BY <2>1, <2>2, <3>4, <4>1 DEF IsKept
        <5> QED
          BY <2>1, <3>2, <4>1, <5>1
      <4>2. CASE j = Len(s) + 1
        BY <2>1, <3>2, <4>2
      <4> QED
        BY <2>1, <4>1, <4>2
    <3>5. IsKept(new, t, kinds)
      BY <3>2, <3>3, <3>4 DEF IsKept
    <3> QED
      BY <2>1, <3>5 DEF t, new
  <2> QED
    BY <2>4, <2>5
<1> HIDE DEF P
<1>3. \A s \in Seq(Blocks) : s \in P
  BY <1>1, <1>2, SequenceInduction
<1> QED
  BY <1>3 DEF P

(* Blocks of some kinds that differ in their data.                          *)
Distinct(blocks, kinds) ==
  \A i, j \in DOMAIN blocks :
    blocks[i].kind \in kinds /\ blocks[j].kind \in kinds /\ blocks[i].data = blocks[j].data
      => i = j

LEMMA KeepDistinct ==
  ASSUME NEW blocks \in Seq(Blocks), NEW kinds, Distinct(blocks, kinds)
  PROVE  Distinct(Keep(blocks, kinds), kinds)
<1> DEFINE P == {s \in Seq(Blocks) : Distinct(s, kinds) => Distinct(Keep(s, kinds), kinds)}
<1>1. <<>> \in P
  BY OfNoBlocks DEF Distinct
<1>2. ASSUME NEW s \in Seq(Blocks), NEW b \in Blocks, s \in P
      PROVE  Append(s, b) \in P
  <2> DEFINE t == Append(s, b)
             old == Keep(s, kinds)
             new == Keep(t, kinds)
  <2> SUFFICES ASSUME Distinct(t, kinds) PROVE Distinct(new, kinds)
    OBVIOUS
  <2>1. /\ t \in Seq(Blocks) /\ Len(s) \in Nat
        /\ DOMAIN s = 1..Len(s) /\ DOMAIN t = 1..Len(s) + 1
        /\ \A j \in DOMAIN s : t[j] = s[j]
        /\ t[Len(s) + 1] = b
    OBVIOUS
  <2>2. Distinct(s, kinds)
    BY <2>1 DEF Distinct
  <2>3. Distinct(old, kinds) /\ IsKept(old, s, kinds)
    BY <1>2, <2>2, KeepKeeps
  <2>4. new = old \o IF b.kind \in kinds THEN <<b>> ELSE <<>>
    BY KeepAppend
  <2>0. old \in Seq(Blocks)
    BY KeepAppend
  <2>5. CASE b.kind \notin kinds
    <3> HIDE DEF old, new
    <3>1. new = old
      BY <2>0, <2>4, <2>5
    <3> QED
      BY <2>3, <3>1
  <2>6. CASE b.kind \in kinds
    <3>1. \A j \in DOMAIN s : s[j].kind \in kinds => s[j].data # b.data
      BY <2>1, <2>6 DEF Distinct
    <3> HIDE DEF old, new, t
    <3>2. new = Append(old, b)
      BY <2>0, <2>4, <2>6
    <3>3. /\ Len(old) \in Nat
          /\ DOMAIN old = 1..Len(old) /\ DOMAIN new = 1..Len(old) + 1
          /\ \A k \in DOMAIN old : new[k] = old[k]
          /\ new[Len(old) + 1] = b
      BY <2>0, <3>2
    <3>4. \A k \in DOMAIN old : old[k].data # b.data
      BY <2>3, <3>1 DEF IsKept
    <3> QED
      BY <2>3, <3>3, <3>4 DEF Distinct
  <2> QED
    BY <2>5, <2>6
<1> HIDE DEF P
<1>3. \A s \in Seq(Blocks) : s \in P
  BY <1>1, <1>2, SequenceInduction
<1> QED
  BY <1>3 DEF P

(* All of the blocks, or none of them.                                      *)
LEMMA KeepAllOrNone ==
  ASSUME NEW blocks \in Seq(Blocks), NEW kinds
  PROVE  /\ (\A j \in DOMAIN blocks : blocks[j].kind \in kinds) => Keep(blocks, kinds) = blocks
         /\ (\A j \in DOMAIN blocks : blocks[j].kind \notin kinds) => Keep(blocks, kinds) = <<>>
<1> DEFINE All(s) == \A j \in DOMAIN s : s[j].kind \in kinds
           None(s) == \A j \in DOMAIN s : s[j].kind \notin kinds
           P == {s \in Seq(Blocks) : /\ All(s) => Keep(s, kinds) = s
                                     /\ None(s) => Keep(s, kinds) = <<>>}
<1>1. <<>> \in P
  BY OfNoBlocks
<1>2. ASSUME NEW s \in Seq(Blocks), NEW b \in Blocks, s \in P
      PROVE  Append(s, b) \in P
  <2> DEFINE t == Append(s, b)
  <2>1. /\ t \in Seq(Blocks) /\ Len(s) \in Nat
        /\ DOMAIN s = 1..Len(s) /\ DOMAIN t = 1..Len(s) + 1
        /\ \A j \in DOMAIN s : t[j] = s[j]
        /\ t[Len(s) + 1] = b
    OBVIOUS
  <2>2. Keep(t, kinds) = Keep(s, kinds) \o IF b.kind \in kinds THEN <<b>> ELSE <<>>
    BY KeepAppend
  <2>3. s \o <<b>> = t /\ <<>> \o <<>> = <<>>
    OBVIOUS
  <2> HIDE DEF t
  <2>4. All(t) => All(s) /\ b.kind \in kinds
    BY <2>1
  <2>5. None(t) => None(s) /\ b.kind \notin kinds
    BY <2>1
  <2>6. (All(s) => Keep(s, kinds) = s) /\ (None(s) => Keep(s, kinds) = <<>>)
    BY <1>2
  <2>7. All(t) => Keep(t, kinds) = t
    BY <2>2, <2>3, <2>4, <2>6
  <2>8. None(t) => Keep(t, kinds) = <<>>
    BY <2>2, <2>3, <2>5, <2>6
  <2>9. t \in P
    BY <2>1, <2>7, <2>8
  <2> QED
    BY <2>9 DEF t
<1> HIDE DEF P
<1>3. \A s \in Seq(Blocks) : s \in P
  BY <1>1, <1>2, SequenceInduction
<1> QED
  BY <1>3 DEF P

(* Keeping a kind keeps what was said in it, and drops the others.          *)
LEMMA KeepSaid ==
  ASSUME NEW blocks \in Seq(Blocks), NEW kinds, NEW kind
  PROVE  Said(Keep(blocks, kinds), kind)
           = IF kind \in kinds THEN Said(blocks, kind) ELSE <<>>
<1> DEFINE P == {s \in Seq(Blocks) : Said(Keep(s, kinds), kind)
                                       = IF kind \in kinds THEN Said(s, kind) ELSE <<>>}
<1>1. <<>> \in P
  BY OfNoBlocks
<1>2. ASSUME NEW s \in Seq(Blocks), NEW b \in Blocks, s \in P
      PROVE  Append(s, b) \in P
  <2> DEFINE t == Append(s, b)
             old == Keep(s, kinds)
             new == Keep(t, kinds)
             part == IF b.kind = kind THEN b.data ELSE <<>>
  <2>0. t \in Seq(Blocks)
    OBVIOUS
  <2>1. t \in Seq(Blocks) /\ old \in Seq(Blocks)
    BY <2>0, KeepAppend
  <2>2. new = old \o IF b.kind \in kinds THEN <<b>> ELSE <<>>
    BY KeepAppend
  <2>3. Said(t, kind) = Said(s, kind) \o part /\ Said(s, kind) \in Data
    BY SaidAppend
  <2>4. Said(Append(old, b), kind) = Said(old, kind) \o part /\ Said(old, kind) \in Data
    BY <2>1, SaidAppend
  <2>5. Said(old, kind) = IF kind \in kinds THEN Said(s, kind) ELSE <<>>
    BY <1>2
  <2> HIDE DEF old, new, t
  <2>6. CASE b.kind \in kinds
    <3>1. new = Append(old, b)
      BY <2>1, <2>2, <2>6
    <3>2. kind \notin kinds => part = <<>> /\ <<>> \o <<>> = <<>>
      BY <2>6
    <3> HIDE DEF part
    <3>3. Said(new, kind) = IF kind \in kinds THEN Said(t, kind) ELSE <<>>
      BY <2>3, <2>4, <2>5, <3>1, <3>2
    <3> QED
      BY <2>1, <3>3 DEF t, new
  <2>7. CASE b.kind \notin kinds
    <3>1. new = old
      BY <2>1, <2>2, <2>7
    <3>2. kind \in kinds => part = <<>>
      BY <2>7
    <3> HIDE DEF part
    <3>3. kind \in kinds => Said(t, kind) = Said(s, kind)
      BY <2>3, <3>2 DEF Data
    <3>4. Said(new, kind) = IF kind \in kinds THEN Said(t, kind) ELSE <<>>
      BY <2>5, <3>1, <3>3
    <3> QED
      BY <2>1, <3>4 DEF t, new
  <2> QED
    BY <2>6, <2>7
<1> HIDE DEF P
<1>3. \A s \in Seq(Blocks) : s \in P
  BY <1>1, <1>2, SequenceInduction
<1> QED
  BY <1>3 DEF P

(* What two lists of blocks say together.                                   *)
LEMMA SaidConcat ==
  ASSUME NEW a \in Seq(Blocks), NEW blocks \in Seq(Blocks), NEW kind
  PROVE  Said(a \o blocks, kind) = Said(a, kind) \o Said(blocks, kind)
<1> DEFINE P == {s \in Seq(Blocks) : Said(a \o s, kind) = Said(a, kind) \o Said(s, kind)}
<1>0. Said(a, kind) \in Data
  BY SaidIsData
<1>1. <<>> \in P
  <2>1. a \o <<>> = a /\ Said(a, kind) \o <<>> = Said(a, kind)
    BY <1>0 DEF Data
  <2>2. Said(<<>>, kind) = <<>> /\ <<>> \in Seq(Blocks)
    BY OfNoBlocks
  <2> QED
    BY <2>1, <2>2
<1>2. ASSUME NEW s \in Seq(Blocks), NEW b \in Blocks, s \in P
      PROVE  Append(s, b) \in P
  <2> DEFINE part == IF b.kind = kind THEN b.data ELSE <<>>
  <2>1. Append(s, b) \in Seq(Blocks) /\ a \o s \in Seq(Blocks)
        /\ a \o Append(s, b) = Append(a \o s, b)
    OBVIOUS
  <2>2. Said(Append(s, b), kind) = Said(s, kind) \o part /\ Said(s, kind) \in Data
    BY SaidAppend
  <2>3. Said(Append(a \o s, b), kind) = Said(a \o s, kind) \o part
    BY <2>1, SaidAppend
  <2>4. part \in Data
    BY DEF Blocks, Data
  <2>5. (Said(a, kind) \o Said(s, kind)) \o part = Said(a, kind) \o (Said(s, kind) \o part)
    <3> DEFINE x == Said(a, kind)
               y == Said(s, kind)
    <3>1. x \in Seq(Marks) /\ y \in Seq(Marks) /\ part \in Seq(Marks)
      BY <1>0, <2>2, <2>4 DEF Data
    <3> HIDE DEF x, y, part
    <3>2. (x \o y) \o part = x \o (y \o part)
      BY <3>1, ConcatAssociative
    <3> QED
      BY <3>2 DEF x, y
  <2> HIDE DEF part
  <2>6. Said(a \o s, kind) = Said(a, kind) \o Said(s, kind)
    BY <1>2
  <2> QED
    BY <2>1, <2>2, <2>3, <2>5, <2>6
<1> HIDE DEF P
<1>3. \A s \in Seq(Blocks) : s \in P
  BY <1>1, <1>2, SequenceInduction
<1> QED
  BY <1>3 DEF P

-----------------------------------------------------------------------------
(* Requests, message by message.                                            *)
EntryRecords == [type : KindsOfBlock, data : Data, message : Nat]
Messages == [role : {"user", "assistant"}, content : Seq(Blocks)]

OneRequest(w, message, m) ==
  IF w = "anthropic" THEN Entries(Encodable(message.content), m) ELSE OpenAiItems(message, m)
RequestOf(w, messages) ==
  IF w = "anthropic" THEN AnthropicEntries(messages) ELSE OpenAiEntries(messages)

LEMMA EntriesAre ==
  ASSUME NEW blocks \in Seq(Blocks), NEW m \in Nat
  PROVE  /\ Entries(blocks, m) \in Seq(EntryRecords)
         /\ Len(Entries(blocks, m)) = Len(blocks)
         /\ DOMAIN Entries(blocks, m) = DOMAIN blocks
         /\ \A k \in DOMAIN blocks : /\ Entries(blocks, m)[k].type = blocks[k].kind
                                     /\ Entries(blocks, m)[k].data = blocks[k].data
                                     /\ Entries(blocks, m)[k].message = m
<1>1. \A b \in Blocks : /\ Entry(b, m) \in EntryRecords
                        /\ Entry(b, m).type = b.kind
                        /\ Entry(b, m).data = b.data
                        /\ Entry(b, m).message = m
  BY DEF Entry, EntryRecords, Blocks
<1>2. Entries(blocks, m) = [k \in 1..Len(blocks) |-> Entry(blocks[k], m)]
  BY DEF Entries
<1>3. \A k \in 1..Len(blocks) : blocks[k] \in Blocks
  OBVIOUS
<1> QED
  BY <1>1, <1>2, <1>3

(* The text of a message, ahead of its other items.                         *)
TextItem(message, m) ==
  IF Keep(message.content, {"text"}) = <<>> THEN <<>>
  ELSE <<Entry(Block("text", Said(Keep(message.content, {"text"}), "text")), m)>>

LEMMA TextItemIs ==
  ASSUME NEW message \in Messages, NEW m \in Nat
  PROVE  /\ TextItem(message, m) \in Seq(EntryRecords)
         /\ Len(TextItem(message, m)) \in {0, 1}
         /\ \A k \in DOMAIN TextItem(message, m) : /\ TextItem(message, m)[k].type = "text"
                                                   /\ TextItem(message, m)[k].message = m
<1> DEFINE parts == Keep(message.content, {"text"})
           entry == Entry(Block("text", Said(parts, "text")), m)
<1>1. message.content \in Seq(Blocks)
  BY DEF Messages
<1>2. parts \in Seq(Blocks)
  BY <1>1, KeepKeeps DEF IsKept
<1>3. Said(parts, "text") \in Data
  BY <1>2, SaidIsData
<1>4. entry \in EntryRecords /\ entry.type = "text" /\ entry.message = m
  BY <1>3 DEF Entry, Block, EntryRecords, KindsOfBlock, BlockKinds
<1> HIDE DEF entry, parts
<1>5. TextItem(message, m) = IF parts = <<>> THEN <<>> ELSE <<entry>>
  BY DEF TextItem, entry, parts
<1> QED
  BY <1>4, <1>5

LEMMA OpenAiItemsAre ==
  ASSUME NEW message \in Messages, NEW m \in Nat
  PROVE  OpenAiItems(message, m)
           = TextItem(message, m) \o Entries(Keep(message.content, {"tool", "result"}), m)
BY DEF OpenAiItems, TextItem

LEMMA OneRequestTyped ==
  ASSUME NEW w, NEW message \in Messages, NEW m \in Nat
  PROVE  OneRequest(w, message, m) \in Seq(EntryRecords)
<1>1. message.content \in Seq(Blocks)
  BY DEF Messages
<1>2. \A kinds : Keep(message.content, kinds) \in Seq(Blocks)
  BY <1>1, KeepKeeps DEF IsKept
<1>3. CASE w = "anthropic"
  BY <1>2, <1>3, EntriesAre DEF OneRequest, Encodable
<1>4. CASE w # "anthropic"
  <2> DEFINE text == TextItem(message, m)
             others == Entries(Keep(message.content, {"tool", "result"}), m)
  <2>1. text \in Seq(EntryRecords)
    BY TextItemIs
  <2>2. others \in Seq(EntryRecords)
    BY <1>2, EntriesAre
  <2>3. OneRequest(w, message, m) = text \o others
    BY <1>4, OpenAiItemsAre DEF OneRequest
  <2> HIDE DEF text, others
  <2> QED
    BY <2>1, <2>2, <2>3
<1> QED
  BY <1>3, <1>4

(* A request grows by the entries of the message that is appended.          *)
LEMMA RequestAppend ==
  ASSUME NEW w, NEW messages \in Seq(Messages), NEW message \in Messages
  PROVE  /\ RequestOf(w, messages) \in Seq(EntryRecords)
         /\ RequestOf(w, Append(messages, message))
              = RequestOf(w, messages) \o OneRequest(w, message, Len(messages) + 1)
<1> DEFINE parts(s) == [m \in DOMAIN s |-> OneRequest(w, s[m], m)]
           part == OneRequest(w, message, Len(messages) + 1)
           Parts == Seq(EntryRecords)
           n == Len(messages)
<1>1. /\ n \in Nat /\ DOMAIN messages = 1..n
      /\ \A m \in 1..n : messages[m] \in Messages
  OBVIOUS
<1>2. part \in Parts
  BY <1>1, OneRequestTyped
<1>3. \A m \in 1..n : OneRequest(w, messages[m], m) \in Parts
  BY <1>1, OneRequestTyped
<1> HIDE DEF Parts
<1>4. parts(messages) \in Seq(Parts) /\ Len(parts(messages)) = n
  BY <1>1, <1>3
<1>5. parts(Append(messages, message)) = Append(parts(messages), part)
  <2> DEFINE grown == Append(messages, message)
             old == parts(messages)
  <2>1. /\ DOMAIN grown = 1..n + 1
        /\ \A m \in 1..n : grown[m] = messages[m]
        /\ grown[n + 1] = message
    BY <1>1
  <2> HIDE DEF grown
  <2>2. parts(grown) = [m \in 1..n + 1 |-> IF m <= n THEN old[m] ELSE part]
    BY <1>1, <2>1
  <2>3. old \in Seq(Parts) /\ Len(old) = n
    BY <1>4
  <2> HIDE DEF old, part, n
  <2>4. Append(old, part) = [m \in 1..n + 1 |-> IF m <= n THEN old[m] ELSE part]
    BY <1>2, <2>3, AppendIs
  <2> QED
    BY <2>2, <2>4 DEF old, grown
<1>6. \A s : RequestOf(w, s) = FlattenSeq(parts(s))
  BY DEF RequestOf, OneRequest, AnthropicEntries, OpenAiEntries
<1> HIDE DEF parts, part
<1>7. FlattenSeq(parts(messages)) \in Parts
  BY <1>4, FlattenType DEF Parts
<1>8. FlattenSeq(Append(parts(messages), part)) = FlattenSeq(parts(messages)) \o part
  BY <1>2, <1>4, FlattenAppend DEF Parts
<1> QED
  BY <1>5, <1>6, <1>7, <1>8 DEF part, Parts

LEMMA RequestOfNone == \A w : RequestOf(w, <<>>) = <<>>
<1>1. [m \in DOMAIN <<>> |-> Entries(Encodable(<<>>[m].content), m)] = <<>>
      /\ [m \in DOMAIN <<>> |-> OpenAiItems(<<>>[m], m)] = <<>>
  OBVIOUS
<1> QED
  BY <1>1, FlattenEmpty DEF RequestOf, AnthropicEntries, OpenAiEntries

-----------------------------------------------------------------------------
(* Calls and results in a request.                                          *)
Answered(w, sent, k, r) ==
  /\ sent[r].type = "result" /\ sent[r].data = sent[k].data
  /\ \A s \in DOMAIN sent : sent[s].type = "result" /\ sent[s].data = sent[k].data => s = r
  /\ k < r
  /\ sent[r].message = sent[k].message + 1
  /\ w = "openai" => \A j \in k..r : sent[j].type \in {"tool", "result"}

Paired(w, sent) ==
  /\ \A k \in DOMAIN sent : sent[k].type = "tool" =>
       \E r \in DOMAIN sent : Answered(w, sent, k, r)
  /\ \A r \in DOMAIN sent : sent[r].type = "result" =>
       \E k \in 1..(r - 1) : sent[k].type = "tool" /\ sent[k].data = sent[r].data

(* The entries of an assistant message with the calls "uses", and of the    *)
(* message of their results.                                                *)
Asks(w, asked, uses, m) ==
  /\ asked \in Seq(EntryRecords)
  /\ \A k \in DOMAIN asked : asked[k].type \in {"text", "tool"} /\ asked[k].message = m
  /\ \A k \in DOMAIN asked : asked[k].type = "tool" =>
       \E j \in DOMAIN uses : asked[k].data = uses[j].data
  /\ \A j \in DOMAIN uses :
       \E k \in DOMAIN asked : asked[k].type = "tool" /\ asked[k].data = uses[j].data
  /\ w = "openai" =>
       \A i, j \in DOMAIN asked : i < j /\ asked[i].type = "tool" => asked[j].type = "tool"

Answers(answers, uses, m) ==
  /\ answers \in Seq(EntryRecords) /\ Len(answers) = Len(uses)
  /\ \A j \in DOMAIN uses : /\ answers[j].type = "result"
                            /\ answers[j].data = uses[j].data
                            /\ answers[j].message = m

LEMMA PairedGrows ==
  ASSUME NEW w, NEW sent \in Seq(EntryRecords), NEW asked, NEW answers,
         NEW uses \in Seq(Blocks), NEW m \in Nat,
         Paired(w, sent), Asks(w, asked, uses, m), Answers(answers, uses, m + 1),
         \A i, j \in DOMAIN uses : uses[i].data = uses[j].data => i = j,
         \A k \in DOMAIN sent : \A j \in DOMAIN uses :
           sent[k].type \in {"tool", "result"} => sent[k].data # uses[j].data
  PROVE  Paired(w, (sent \o asked) \o answers)
<1> DEFINE all == (sent \o asked) \o answers
           p == Len(sent)
           q == Len(asked)
           n == Len(uses)
<1>1. /\ p \in Nat /\ q \in Nat /\ n \in Nat
      /\ DOMAIN sent = 1..p /\ DOMAIN asked = 1..q /\ DOMAIN uses = 1..n
  BY DEF Asks
<1>2. /\ DOMAIN all = 1..(p + q) + n
      /\ \A k \in 1..p : all[k] = sent[k]
      /\ \A k \in 1..q : all[p + k] = asked[k]
      /\ \A k \in 1..n : all[(p + q) + k] = answers[k]
  <2> DEFINE front == sent \o asked
  <2>1. asked \in Seq(EntryRecords) /\ answers \in Seq(EntryRecords) /\ Len(answers) = n
    BY DEF Asks, Answers
  <2>2. /\ front \in Seq(EntryRecords) /\ Len(front) = p + q
        /\ \A k \in 1..p : front[k] = sent[k]
        /\ \A k \in 1..q : front[p + k] = asked[k]
    BY <2>1
  <2> HIDE DEF front, p, q, n
  <2>3. /\ DOMAIN (front \o answers) = 1..(p + q) + n
        /\ \A k \in 1..p + q : (front \o answers)[k] = front[k]
        /\ \A k \in 1..n : (front \o answers)[(p + q) + k] = answers[k]
    <3> DEFINE x == front \o answers
               a == Len(front)
               b == Len(answers)
    <3>0. front \in Seq(EntryRecords) /\ answers \in Seq(EntryRecords)
      BY <2>1, <2>2
    <3>1. /\ DOMAIN x = 1..a + b
          /\ \A k \in 1..a : x[k] = front[k]
          /\ \A k \in 1..b : x[a + k] = answers[k]
      BY ONLY <3>0, ConcatIs
    <3>2. a = p + q /\ b = n
      BY <2>1, <2>2
    <3> HIDE DEF x, a, b
    <3>3. /\ DOMAIN x = 1..(p + q) + n
          /\ \A k \in 1..p + q : x[k] = front[k]
          /\ \A k \in 1..n : x[(p + q) + k] = answers[k]
      BY <3>1, <3>2
    <3> QED
      BY <3>3 DEF x
  <2>4. (\A k \in 1..p : k \in 1..p + q) /\ (\A k \in 1..q : p + k \in 1..p + q)
    BY <1>1
  <2>5. all = front \o answers
    BY DEF front
  <2> HIDE DEF all
  <2> QED
    BY <2>2, <2>3, <2>4, <2>5
<1> HIDE DEF all, p, q, n
<1>3. ASSUME NEW k \in DOMAIN all
      PROVE  \/ k \in 1..p
             \/ \E j \in 1..q : k = p + j
             \/ \E j \in 1..n : k = (p + q) + j
  <2>1. CASE k <= p
    BY <1>1, <1>2, <2>1
  <2>2. CASE p < k /\ k <= p + q
    <3>1. k - p \in 1..q /\ k = p + (k - p)
      BY <1>1, <1>2, <2>2
    <3> QED
      BY <3>1
  <2>3. CASE p + q < k
    <3>1. k - (p + q) \in 1..n /\ k = (p + q) + (k - (p + q))
      BY <1>1, <1>2, <2>3
    <3> QED
      BY <3>1
  <2> QED
    BY <1>1, <1>2, <2>1, <2>2, <2>3
<1>4. /\ \A k \in 1..q : asked[k].type # "result"
      /\ \A k \in 1..n : answers[k].type # "tool"
  BY <1>1 DEF Asks, Answers
<1>5. ASSUME NEW k \in 1..p, all[k].type = "tool"
      PROVE  \E r \in DOMAIN all : Answered(w, all, k, r)
  <2>1. PICK r \in 1..p : Answered(w, sent, k, r)
    BY <1>1, <1>2, <1>5 DEF Paired
  <2>2. r \in DOMAIN all /\ all[r] = sent[r] /\ all[k] = sent[k]
    BY <1>1, <1>2
  <2>3. ASSUME NEW s \in DOMAIN all, all[s].type = "result", all[s].data = all[k].data
        PROVE  s = r
    <3>1. CASE s \in 1..p
      BY <1>1, <1>2, <2>1, <2>3, <3>1 DEF Answered
    <3>2. ASSUME NEW j \in 1..q, s = p + j
          PROVE  FALSE
      BY <1>2, <1>4, <2>3, <3>2
    <3>3. ASSUME NEW j \in 1..n, s = (p + q) + j
          PROVE  FALSE
      <4>1. sent[k].data = uses[j].data
        BY <1>1, <1>2, <2>3, <3>3 DEF Answers
      <4>2. sent[k].type = "tool" /\ k \in DOMAIN sent /\ j \in DOMAIN uses
        BY <1>1, <1>2, <1>5
      <4> QED
        BY <4>1, <4>2
    <3> QED
      BY <1>3, <3>1, <3>2, <3>3
  <2>4. w = "openai" => \A j \in k..r : all[j].type \in {"tool", "result"}
    <3>1. \A j \in k..r : j \in 1..p
      BY <1>1
    <3> QED
      BY <1>2, <2>1, <3>1 DEF Answered
  <2> QED
    BY <2>1, <2>2, <2>3, <2>4 DEF Answered
<1>6. ASSUME NEW i \in 1..q, all[p + i].type = "tool"
      PROVE  \E r \in DOMAIN all : Answered(w, all, p + i, r)
  <2>0. asked[i].type = "tool" /\ i \in DOMAIN asked
    BY <1>1, <1>2, <1>6
  <2>1. PICK j \in 1..n : asked[i].data = uses[j].data
    BY <1>1, <2>0 DEF Asks
  <2> DEFINE k == p + i
             r == (p + q) + j
  <2>2. /\ r \in DOMAIN all /\ all[r] = answers[j] /\ all[k] = asked[i]
        /\ k < r /\ k \in Nat /\ r \in Nat
    BY <1>1, <1>2
  <2>3. /\ all[r].type = "result" /\ all[r].data = all[k].data
        /\ all[r].message = all[k].message + 1
    BY <1>1, <2>1, <2>2 DEF Asks, Answers
  <2>4. ASSUME NEW s \in DOMAIN all, all[s].type = "result", all[s].data = all[k].data
        PROVE  s = r
    <3>0. all[s].data = uses[j].data
      BY <2>1, <2>2, <2>4
    <3>1. CASE s \in 1..p
      <4>1. sent[s].type = "result" /\ sent[s].data = uses[j].data
            /\ s \in DOMAIN sent /\ j \in DOMAIN uses
        BY <1>1, <1>2, <2>4, <3>0, <3>1
      <4> QED
        BY <4>1
    <3>2. ASSUME NEW l \in 1..q, s = p + l
          PROVE  FALSE
      BY <1>2, <1>4, <2>4, <3>2
    <3>3. ASSUME NEW l \in 1..n, s = (p + q) + l
          PROVE  s = r
      <4>1. uses[l].data = uses[j].data
        BY <1>1, <1>2, <3>0, <3>3 DEF Answers
      <4> QED
        BY <1>1, <3>3, <4>1
    <3> QED
      BY <1>3, <3>1, <3>2, <3>3
  <2>5. ASSUME w = "openai", NEW l \in k..r
        PROVE  all[l].type \in {"tool", "result"}
    <3>1. l \in Nat /\ k <= l /\ l <= r
      BY <2>2
    <3>2. CASE l <= p + q
      <4>1. l - p \in 1..q /\ l = p + (l - p) /\ i <= l - p
        BY <1>1, <3>1, <3>2
      <4>2. asked[l - p].type = "tool"
        <5>1. l - p \in DOMAIN asked /\ (i = l - p \/ i < l - p)
          BY <1>1, <4>1
        <5> QED
          BY <2>0, <2>5, <5>1 DEF Asks
      <4> QED
        BY <1>2, <4>1, <4>2
    <3>3. CASE p + q < l
      <4>1. l - (p + q) \in 1..n /\ l = (p + q) + (l - (p + q))
        BY <1>1, <3>1, <3>3
      <4>2. answers[l - (p + q)].type = "result"
        BY <1>1, <4>1 DEF Answers
      <4>3. all[l] = answers[l - (p + q)]
        BY <1>2, <4>1
      <4> QED
        BY <4>2, <4>3
    <3> QED
      BY <1>1, <3>1, <3>2, <3>3
  <2> QED
    BY <2>2, <2>3, <2>4, <2>5 DEF Answered
<1>7. ASSUME NEW r \in DOMAIN all, all[r].type = "result"
      PROVE  \E k \in 1..(r - 1) : all[k].type = "tool" /\ all[k].data = all[r].data
  <2>1. CASE r \in 1..p
    <3>1. PICK k \in 1..(r - 1) : sent[k].type = "tool" /\ sent[k].data = sent[r].data
      BY <1>1, <1>2, <1>7, <2>1 DEF Paired
    <3>2. k \in 1..p
      BY <1>1, <2>1
    <3> QED
      BY <1>2, <2>1, <3>1, <3>2
  <2>2. ASSUME NEW j \in 1..n, r = (p + q) + j
        PROVE  \E k \in 1..(r - 1) : all[k].type = "tool" /\ all[k].data = all[r].data
    <3>1. PICK i \in 1..q : asked[i].type = "tool" /\ asked[i].data = uses[j].data
      BY <1>1 DEF Asks
    <3>2. p + i \in 1..(r - 1)
      BY <1>1, <2>2
    <3>3. all[p + i] = asked[i] /\ all[r] = answers[j]
      BY <1>2, <2>2
    <3>4. answers[j].data = uses[j].data
      BY <1>1 DEF Answers
    <3> QED
      BY <3>1, <3>2, <3>3, <3>4
  <2>3. ASSUME NEW j \in 1..q, r = p + j
        PROVE  FALSE
    BY <1>2, <1>4, <1>7, <2>3
  <2> QED
    BY <1>3, <2>1, <2>2, <2>3
<1>8. ASSUME NEW k \in DOMAIN all, all[k].type = "tool"
      PROVE  \E r \in DOMAIN all : Answered(w, all, k, r)
  <2>1. ASSUME NEW j \in 1..n, k = (p + q) + j
        PROVE  FALSE
    BY <1>2, <1>4, <1>8, <2>1
  <2> QED
    BY <1>3, <1>5, <1>6, <1>8, <2>1
<1>9. Paired(w, all)
  BY <1>7, <1>8 DEF Paired
<1> QED
  BY <1>9 DEF all

(* What a message contributes, by its role: text of the user; text and      *)
(* calls of the assistant; results.                                         *)
LEMMA UserRequests ==
  ASSUME NEW w, NEW message \in Messages, NEW m \in Nat,
         \A k \in DOMAIN message.content : message.content[k].kind = "text"
  PROVE  \A k \in DOMAIN OneRequest(w, message, m) : OneRequest(w, message, m)[k].type = "text"
<1> DEFINE content == message.content
<1>1. content \in Seq(Blocks)
  BY DEF Messages
<1>2. CASE w = "anthropic"
  <2> DEFINE kept == Encodable(content)
  <2>1. kept = Keep(content, {"text", "tool", "result"})
    BY DEF Encodable
  <2>2. IsKept(kept, content, {"text", "tool", "result"})
    BY <1>1, <2>1, KeepKeeps
  <2>3. OneRequest(w, message, m) = Entries(kept, m)
    BY <1>2 DEF OneRequest
  <2> HIDE DEF kept
  <2>4. kept \in Seq(Blocks) /\ \A k \in DOMAIN kept : kept[k].kind = "text"
    BY <2>2 DEF IsKept
  <2> QED
    BY <2>3, <2>4, EntriesAre
<1>3. CASE w # "anthropic"
  <2> DEFINE text == TextItem(message, m)
             others == Keep(content, {"tool", "result"})
  <2>1. others = <<>>
    BY <1>1, KeepAllOrNone
  <2>2. /\ text \in Seq(EntryRecords)
        /\ \A k \in DOMAIN text : text[k].type = "text"
    BY TextItemIs
  <2>3. OneRequest(w, message, m) = text \o Entries(others, m)
    BY <1>3, OpenAiItemsAre DEF OneRequest
  <2> HIDE DEF text, others
  <2>4. Entries(others, m) = <<>>
    BY <2>1 DEF Entries
  <2>5. text \o <<>> = text
    BY <2>2
  <2> QED
    BY <2>2, <2>3, <2>4, <2>5
<1> QED
  BY <1>2, <1>3

LEMMA ResultRequests ==
  ASSUME NEW w, NEW message \in Messages, NEW m \in Nat,
         \A k \in DOMAIN message.content : message.content[k].kind = "result"
  PROVE  OneRequest(w, message, m) = Entries(message.content, m)
<1> DEFINE content == message.content
<1>1. content \in Seq(Blocks)
  BY DEF Messages
<1>2. CASE w = "anthropic"
  <2>1. Keep(content, {"text", "tool", "result"}) = content
    BY <1>1, KeepAllOrNone
  <2> QED
    BY <1>2, <2>1 DEF OneRequest, Encodable
<1>3. CASE w # "anthropic"
  <2>1. Keep(content, {"tool", "result"}) = content /\ Keep(content, {"text"}) = <<>>
    BY <1>1, KeepAllOrNone
  <2>2. TextItem(message, m) = <<>>
    BY <2>1 DEF TextItem
  <2>3. OneRequest(w, message, m) = <<>> \o Entries(content, m)
    BY <1>3, <2>1, <2>2, OpenAiItemsAre DEF OneRequest
  <2>4. Entries(content, m) \in Seq(EntryRecords)
    BY <1>1, EntriesAre
  <2> HIDE DEF content
  <2>5. <<>> \o Entries(content, m) = Entries(content, m)
    BY <2>4
  <2> QED
    BY <2>3, <2>5 DEF content
<1> QED
  BY <1>2, <1>3

LEMMA AssistantRequests ==
  ASSUME NEW w, NEW message \in Messages, NEW m \in Nat,
         \A k \in DOMAIN message.content :
           message.content[k].kind \in {"text", "reasoning", "tool"}
  PROVE  Asks(w, OneRequest(w, message, m), Keep(message.content, {"tool"}), m)
<1> DEFINE content == message.content
           uses == Keep(content, {"tool"})
           asked == OneRequest(w, message, m)
<1>1. content \in Seq(Blocks)
  BY DEF Messages
<1>2. IsKept(uses, content, {"tool"})
  BY <1>1, KeepKeeps
<1>3. asked \in Seq(EntryRecords)
  BY OneRequestTyped
<1>4. \A k \in DOMAIN content : content[k].kind \in {"text", "reasoning", "tool"}
  OBVIOUS
<1>5. CASE w = "anthropic"
  <2> DEFINE kept == Encodable(content)
             kinds == {"text", "tool", "result"}
  <2>1. kept = Keep(content, kinds)
    BY DEF Encodable
  <2>2. IsKept(kept, content, kinds)
    BY <1>1, <2>1, KeepKeeps
  <2>3. asked = Entries(kept, m)
    BY <1>5 DEF OneRequest
  <2> HIDE DEF kept, content, uses, asked
  <2>4. /\ DOMAIN asked = DOMAIN kept
        /\ \A k \in DOMAIN kept : /\ asked[k].type = kept[k].kind
                                  /\ asked[k].data = kept[k].data
                                  /\ asked[k].message = m
    BY <2>2, <2>3, EntriesAre DEF IsKept
  <2>5. \A k \in DOMAIN asked : asked[k].type \in {"text", "tool"} /\ asked[k].message = m
    BY <1>4, <2>2, <2>4 DEF IsKept
  <2>6. ASSUME NEW k \in DOMAIN asked, asked[k].type = "tool"
        PROVE  \E j \in DOMAIN uses : asked[k].data = uses[j].data
    <3>1. PICK i \in DOMAIN content : kept[k] = content[i]
      BY <2>2, <2>4 DEF IsKept
    <3>2. content[i].kind = "tool"
      BY <2>4, <2>6, <3>1
    <3>3. PICK j \in DOMAIN uses : uses[j] = content[i]
      BY <1>2, <3>2 DEF IsKept
    <3> QED
      BY <2>4, <3>1, <3>3
  <2>7. ASSUME NEW j \in DOMAIN uses
        PROVE  \E k \in DOMAIN asked : asked[k].type = "tool" /\ asked[k].data = uses[j].data
    <3>1. PICK i \in DOMAIN content : uses[j] = content[i] /\ content[i].kind = "tool"
      BY <1>2 DEF IsKept
    <3>2. PICK k \in DOMAIN kept : kept[k] = content[i]
      BY <2>2, <3>1 DEF IsKept
    <3> QED
      BY <2>4, <3>1, <3>2
  <2>8. Asks(w, asked, uses, m)
    BY <1>3, <1>5, <2>5, <2>6, <2>7 DEF Asks
  <2> QED
    BY <2>8 DEF asked, uses, content
<1>6. CASE w # "anthropic"
  <2> DEFINE text == TextItem(message, m)
             kinds == {"tool", "result"}
             kept == Keep(content, kinds)
             others == Entries(kept, m)
             n == Len(text)
  <2>1. /\ text \in Seq(EntryRecords) /\ n \in Nat /\ n \in {0, 1}
        /\ \A k \in DOMAIN text : text[k].type = "text" /\ text[k].message = m
    BY TextItemIs
  <2>2. IsKept(kept, content, kinds)
    BY <1>1, KeepKeeps
  <2>3. asked = text \o others
    BY <1>6, OpenAiItemsAre DEF OneRequest
  <2>4. /\ others \in Seq(EntryRecords)
        /\ DOMAIN others = DOMAIN kept
        /\ \A k \in DOMAIN kept : /\ others[k].type = kept[k].kind
                                  /\ others[k].data = kept[k].data
                                  /\ others[k].message = m
    BY <2>2, EntriesAre DEF IsKept
  <2> DEFINE q == Len(others)
  <2> HIDE DEF text, others, kept, content, uses, asked
  <2>5. /\ DOMAIN asked = 1..n + q
        /\ \A k \in 1..n : asked[k] = text[k]
        /\ \A k \in 1..q : asked[n + k] = others[k]
    <3>1. text \in Seq(EntryRecords) /\ others \in Seq(EntryRecords)
      BY <2>1, <2>4
    <3>2. /\ DOMAIN (text \o others) = 1..n + q
          /\ \A k \in 1..n : (text \o others)[k] = text[k]
          /\ \A k \in 1..q : (text \o others)[n + k] = others[k]
      BY ONLY <3>1, ConcatIs
    <3> QED
      BY <2>3, <3>2
  <2>6. DOMAIN others = 1..q /\ q \in Nat /\ DOMAIN text = 1..n
    BY <2>1, <2>4
  <2> HIDE DEF n, q
  <2>7. ASSUME NEW k \in DOMAIN asked
        PROVE  k \in 1..n \/ \E j \in 1..q : k = n + j
    <3>1. CASE n < k
      <4>1. k - n \in 1..q /\ k = n + (k - n)
        BY <2>1, <2>5, <2>6, <3>1
      <4> QED
        BY <4>1
    <3> QED
      BY <2>1, <2>5, <2>6, <3>1
  <2>8. \A j \in 1..q : others[j].type = "tool" /\ others[j].message = m
    BY <1>4, <2>2, <2>4, <2>6 DEF IsKept
  <2>9. ASSUME NEW k \in DOMAIN asked
        PROVE  /\ asked[k].type \in {"text", "tool"} /\ asked[k].message = m
               /\ asked[k].type = "tool" => \E j \in DOMAIN uses : asked[k].data = uses[j].data
    <3>1. CASE k \in 1..n
      BY <2>1, <2>5, <2>6, <3>1
    <3>2. ASSUME NEW l \in 1..q, k = n + l
          PROVE  \E j \in DOMAIN uses : asked[k].data = uses[j].data
      <4>1. PICK i \in DOMAIN content : kept[l] = content[i]
        BY <2>2, <2>4, <2>6 DEF IsKept
      <4>2. content[i].kind = "tool"
        BY <2>4, <2>6, <2>8, <4>1
      <4>3. PICK j \in DOMAIN uses : uses[j] = content[i]
        BY <1>2, <4>2 DEF IsKept
      <4> QED
        BY <2>4, <2>5, <2>6, <3>2, <4>1, <4>3
    <3>3. (\E l \in 1..q : k = n + l) => asked[k].type = "tool" /\ asked[k].message = m
      BY <2>5, <2>8
    <3> QED
      BY <2>7, <3>1, <3>2, <3>3
  <2>10. ASSUME NEW j \in DOMAIN uses
         PROVE  \E k \in DOMAIN asked : asked[k].type = "tool" /\ asked[k].data = uses[j].data
    <3>1. PICK i \in DOMAIN content : uses[j] = content[i] /\ content[i].kind = "tool"
      BY <1>2 DEF IsKept
    <3>2. PICK l \in DOMAIN kept : kept[l] = content[i]
      BY <2>2, <3>1 DEF IsKept
    <3>3. n + l \in DOMAIN asked /\ asked[n + l] = others[l]
      <4>1. l \in 1..q
        BY <2>4, <2>6
      <4>2. n + l \in 1..n + q
        BY <2>1, <2>6, <4>1
      <4> QED
        BY <2>5, <4>1, <4>2
    <3> QED
      BY <2>4, <3>1, <3>2, <3>3
  <2>11. ASSUME NEW i \in DOMAIN asked, NEW j \in DOMAIN asked, i < j, asked[i].type = "tool"
         PROVE  asked[j].type = "tool"
    <3>1. CASE j \in 1..n
      <4>1. i \in 1..n
        BY <2>1, <2>5, <2>6, <2>11, <3>1
      <4> QED
        BY <2>1, <2>5, <2>6, <2>11, <4>1
    <3> QED
      BY <2>5, <2>7, <2>8, <3>1
  <2>12. Asks(w, asked, uses, m)
    BY <1>3, <2>9, <2>10, <2>11 DEF Asks
  <2> QED
    BY <2>12 DEF asked, uses, content
<1> QED
  BY <1>5, <1>6

-----------------------------------------------------------------------------
(* The decoders.                                                            *)
Visible == {"text", "reasoning", "tool"}
Decoders == [open : Blocks, content : Seq(Blocks), completed : BOOLEAN]

(* What the frame numbered k of an attempt stamps a delta or a call with.   *)
Stamped(t, a, k) == <<<<t, a, k>>>>
IsStamped(data, t, a, n) == \E k \in Nat : k < n /\ data = Stamped(t, a, k)

(* A message whose calls are told apart, which says what was shown.         *)
CallsDiffer(blocks, t, a, n) ==
  /\ blocks \in Seq(Blocks)
  /\ \A k \in DOMAIN blocks : blocks[k].kind \in Visible
  /\ \A k \in DOMAIN blocks : blocks[k].kind = "tool" => IsStamped(blocks[k].data, t, a, n)
  /\ Distinct(blocks, {"tool"})

Tells(message, said) == \A kind \in Visible : Said(said, kind) = Said(message, kind)

(* The open block has been shown up to here, unless it is a call.           *)
Pending(open, kind) == IF open.kind = kind /\ kind # "tool" THEN open.data ELSE <<>>

Assembled(w, d, said, t, a, n) ==
  /\ d.open \in Blocks /\ d.open.kind # "result"
  /\ d.open.kind = "none" => d.open = NoBlock
  /\ w = "openai" => d.open.kind \in {"none", "tool", "unnamed"}
  /\ CallsDiffer(d.content, t, a, n)
  /\ d.open.kind = "tool" =>
       /\ IsStamped(d.open.data, t, a, n)
       /\ \A k \in DOMAIN d.content :
            d.content[k].kind = "tool" => d.content[k].data # d.open.data
  /\ \A kind \in Visible : Said(said, kind) = Said(d.content, kind) \o Pending(d.open, kind)

LEMMA StampedFacts ==
  ASSUME NEW t \in Nat, NEW a \in Nat, NEW k \in Nat
  PROVE  /\ Stamped(t, a, k) \in Data /\ Stamped(t, a, k) # <<>>
         /\ \A u, b, l : Stamped(u, b, l) = Stamped(t, a, k) => u = t /\ b = a /\ l = k
         /\ \A n \in Nat : IsStamped(Stamped(t, a, k), t, a, n) => k < n
<1>1. <<t, a, k>> \in Marks
  BY DEF Marks
<1>2. \A u, b, l : <<<<u, b, l>>>> = <<<<t, a, k>>>> => u = t /\ b = a /\ l = k
  OBVIOUS
<1>3. <<<<t, a, k>>>> \in Seq(Marks) /\ <<<<t, a, k>>>> # <<>>
  BY <1>1
<1> QED
  BY <1>2, <1>3 DEF Stamped, Data, IsStamped

(* One more block of a message.                                             *)
LEMMA CallsStillDiffer ==
  ASSUME NEW blocks, NEW t \in Nat, NEW a \in Nat, NEW n \in Nat, CallsDiffer(blocks, t, a, n),
         NEW b \in Blocks, b.kind \in Visible,
         b.kind = "tool" =>
           /\ IsStamped(b.data, t, a, n + 1)
           /\ \A k \in DOMAIN blocks : blocks[k].kind = "tool" => blocks[k].data # b.data
  PROVE  CallsDiffer(Append(blocks, b), t, a, n + 1)
<1> DEFINE grown == Append(blocks, b)
<1>1. blocks \in Seq(Blocks)
  BY DEF CallsDiffer
<1>2. /\ grown \in Seq(Blocks) /\ Len(blocks) \in Nat
      /\ DOMAIN blocks = 1..Len(blocks) /\ DOMAIN grown = 1..Len(blocks) + 1
      /\ \A k \in DOMAIN blocks : grown[k] = blocks[k]
      /\ grown[Len(blocks) + 1] = b
  BY <1>1
<1> HIDE DEF grown
<1>3. \A k \in DOMAIN grown : grown[k].kind \in Visible
  BY <1>2 DEF CallsDiffer
<1>4. ASSUME NEW k \in DOMAIN grown, grown[k].kind = "tool"
      PROVE  IsStamped(grown[k].data, t, a, n + 1)
  <2>1. CASE k \in DOMAIN blocks
    <3>1. IsStamped(blocks[k].data, t, a, n)
      BY <1>2, <1>4, <2>1 DEF CallsDiffer
    <3> QED
      BY <1>2, <2>1, <3>1 DEF IsStamped
  <2> QED
    BY <1>2, <1>4, <2>1
<1>5. Distinct(grown, {"tool"})
  <2>1. Distinct(blocks, {"tool"})
    BY DEF CallsDiffer
  <2> QED
    BY <1>2, <2>1 DEF Distinct
<1>6. CallsDiffer(grown, t, a, n + 1)
  BY <1>2, <1>3, <1>4, <1>5 DEF CallsDiffer
<1> QED
  BY <1>6 DEF grown

LEMMA CallsLater ==
  ASSUME NEW blocks, NEW t, NEW a, NEW n \in Nat, CallsDiffer(blocks, t, a, n)
  PROVE  CallsDiffer(blocks, t, a, n + 1)
<1>1. \A data : IsStamped(data, t, a, n) => IsStamped(data, t, a, n + 1)
  BY DEF IsStamped
<1> QED
  BY <1>1 DEF CallsDiffer

(* A block is opened: of a call its stamp is known, of the others nothing.  *)
LEMMA OpensBlock ==
  ASSUME NEW w, NEW d, NEW next, NEW said, NEW t \in Nat, NEW a \in Nat, NEW n \in Nat,
         Assembled(w, d, said, t, a, n), d.open.kind = "none",
         next.content = d.content, next.open \in Blocks, next.open.kind \in BlockKinds,
         w = "openai" => next.open.kind \in {"tool", "unnamed"},
         next.open.kind = "tool" => next.open.data = Stamped(t, a, n),
         next.open.kind \in {"text", "reasoning"} => next.open.data = <<>>
  PROVE  Assembled(w, next, said, t, a, n + 1)
<1>1. CallsDiffer(next.content, t, a, n + 1)
  BY CallsLater DEF Assembled
<1>2. next.open.kind # "none" /\ next.open.kind # "result"
  BY DEF BlockKinds
<1>3. ASSUME next.open.kind = "tool"
      PROVE  /\ IsStamped(next.open.data, t, a, n + 1)
             /\ \A k \in DOMAIN next.content :
                  next.content[k].kind = "tool" => next.content[k].data # next.open.data
  <2>1. next.open.data = Stamped(t, a, n)
    BY <1>3
  <2>2. IsStamped(next.open.data, t, a, n + 1)
    BY <2>1 DEF IsStamped
  <2>3. ~IsStamped(next.open.data, t, a, n)
    <3>1. IsStamped(Stamped(t, a, n), t, a, n) => n < n
      BY StampedFacts
    <3>2. ~(n < n)
      OBVIOUS
    <3> QED
      BY <2>1, <3>1, <3>2
  <2> QED
    BY <2>2, <2>3 DEF Assembled, CallsDiffer
<1>4. ASSUME NEW kind \in Visible
      PROVE  Said(said, kind) = Said(next.content, kind) \o Pending(next.open, kind)
  <2>1. Pending(next.open, kind) = <<>> /\ Pending(d.open, kind) = <<>>
    BY <1>4 DEF Pending, Visible
  <2> QED
    BY <2>1 DEF Assembled
<1> QED
  BY <1>1, <1>2, <1>3, <1>4 DEF Assembled

(* A block is closed: kept in the content, unless its type is unknown.      *)
LEMMA ClosesBlock ==
  ASSUME NEW w, NEW d, NEW next, NEW said \in Seq(Blocks),
         NEW t \in Nat, NEW a \in Nat, NEW n \in Nat,
         Assembled(w, d, said, t, a, n), next.open = NoBlock,
         \/ d.open.kind \in Visible /\ next.content = Append(d.content, d.open)
         \/ d.open.kind = "other" /\ next.content = d.content,
         NEW shows,
         shows = IF d.open.kind = "tool" THEN Append(said, Block("tool", d.open.data)) ELSE said
  PROVE  Assembled(w, next, shows, t, a, n + 1)
<1>1. d.open \in Blocks /\ d.content \in Seq(Blocks) /\ CallsDiffer(d.content, t, a, n)
  BY DEF Assembled, CallsDiffer
<1>2. \A data : IsStamped(data, t, a, n) => IsStamped(data, t, a, n + 1)
  BY DEF IsStamped
<1>3. CallsDiffer(next.content, t, a, n + 1)
  <2>1. d.open.kind = "tool" =>
          /\ IsStamped(d.open.data, t, a, n + 1)
          /\ \A k \in DOMAIN d.content :
               d.content[k].kind = "tool" => d.content[k].data # d.open.data
    BY <1>2 DEF Assembled
  <2>2. CASE d.open.kind \in Visible /\ next.content = Append(d.content, d.open)
    BY <1>1, <2>1, <2>2, CallsStillDiffer
  <2>3. CASE d.open.kind = "other" /\ next.content = d.content
    BY <1>1, <2>3, CallsLater
  <2> QED
    BY <2>2, <2>3
<1>4. NoBlock \in Blocks /\ NoBlock.kind = "none"
  BY DEF NoBlock, Block, Blocks, KindsOfBlock, Data
<1>5. ASSUME NEW kind \in Visible
      PROVE  Said(shows, kind) = Said(next.content, kind) \o Pending(next.open, kind)
  <2> DEFINE before == Said(d.content, kind)
             part == IF d.open.kind = kind THEN d.open.data ELSE <<>>
             after == Said(next.content, kind)
  <2>1. Pending(next.open, kind) = <<>>
    BY <1>4 DEF Pending, Visible
  <2>2. after = before \o IF d.open.kind \in Visible THEN part ELSE <<>>
    <3>1. before \in Data
      BY <1>1, SaidIsData
    <3>2. before \o <<>> = before
      BY <3>1 DEF Data
    <3>3. Said(Append(d.content, d.open), kind) = before \o part
      BY <1>1, SaidAppend
    <3>4. CASE d.open.kind \in Visible
      <4>1. next.content = Append(d.content, d.open)
        BY <3>4 DEF Visible
      <4>2. after = before \o part
        BY <3>3, <4>1
      <4> HIDE DEF after, before, part
      <4> QED
        BY <3>4, <4>2
    <3>5. CASE d.open.kind \notin Visible
      <4>1. next.content = d.content
        BY <3>5
      <4>2. after = before \o <<>>
        BY <3>2, <4>1
      <4> HIDE DEF after, before, part
      <4> QED
        BY <3>5, <4>2
    <3> QED
      BY <3>4, <3>5
  <2>3. after \in Data /\ before \in Data
    <3>1. next.content \in Seq(Blocks)
      BY <1>3 DEF CallsDiffer
    <3> QED
      BY <1>1, <3>1, SaidIsData
  <2>4. after \o <<>> = after /\ before \o <<>> = before
    BY <2>3 DEF Data
  <2>5. Said(said, kind) = before \o Pending(d.open, kind)
    BY DEF Assembled
  <2>6. CASE d.open.kind = "tool"
    <3> DEFINE shown0 == Block("tool", d.open.data)
    <3>1. shown0 \in Blocks /\ shown0.kind = "tool" /\ shown0.data = d.open.data
      BY <1>1, <2>6 DEF Block, Blocks
    <3> HIDE DEF shown0
    <3>2. Said(shows, kind) = Said(said, kind) \o IF shown0.kind = kind THEN shown0.data ELSE <<>>
      BY <2>6, <3>1, SaidAppend DEF shown0
    <3>3. Pending(d.open, kind) = <<>>
      BY <2>6 DEF Pending
    <3>4. Said(said, kind) = before
      BY <2>4, <2>5, <3>3
    <3>5. d.open.kind \in Visible
      BY <2>6 DEF Visible
    <3>6. after = before \o part
      BY <2>2, <3>5
    <3>7. Said(shows, kind) = before \o part
      BY <2>6, <3>1, <3>2, <3>4
    <3> HIDE DEF before, part, after
    <3>8. Said(shows, kind) = after \o <<>>
      BY <2>4, <3>6, <3>7
    <3> QED
      BY <2>1, <3>8 DEF after
  <2>7. CASE d.open.kind # "tool"
    <3>1. Pending(d.open, kind) = IF d.open.kind \in Visible THEN part ELSE <<>>
      BY <2>7, <1>5 DEF Pending
    <3>2. shows = said
      BY <2>7
    <3> HIDE DEF before, part, after
    <3>3. Said(shows, kind) = after \o <<>>
      BY <2>2, <2>4, <2>5, <3>1, <3>2
    <3> QED
      BY <2>1, <3>3 DEF after
  <2> QED
    BY <2>6, <2>7
<1> QED
  BY <1>3, <1>4, <1>5 DEF Assembled

(* A delta is shown, and joins the open block (messages) or the content     *)
(* (responses).                                                             *)
LEMMA DeltaShown ==
  ASSUME NEW said \in Seq(Blocks), NEW kind \in {"text", "reasoning"},
         NEW data \in Data, NEW other
  PROVE  Said(Append(said, Block(kind, data)), other)
           = Said(said, other) \o IF kind = other THEN data ELSE <<>>
<1> DEFINE b == Block(kind, data)
<1>1. b \in Blocks /\ b.kind = kind /\ b.data = data
  BY DEF Block, Blocks, KindsOfBlock, BlockKinds
<1> HIDE DEF b
<1>2. Said(Append(said, b), other) = Said(said, other) \o IF b.kind = other THEN b.data ELSE <<>>
  BY <1>1, SaidAppend
<1> QED
  BY <1>1, <1>2 DEF b

LEMMA DeltaOpen ==
  ASSUME NEW w, NEW d, NEW next, NEW said \in Seq(Blocks),
         NEW t \in Nat, NEW a \in Nat, NEW n \in Nat,
         Assembled(w, d, said, t, a, n), d.open.kind \in {"text", "reasoning"},
         next.content = d.content, next.open.kind = d.open.kind,
         next.open = Block(d.open.kind, Append(d.open.data, <<t, a, n>>))
  PROVE  Assembled(w, next, Append(said, Block(d.open.kind, Stamped(t, a, n))), t, a, n + 1)
<1> DEFINE kind == d.open.kind
           mark == Stamped(t, a, n)
           shows == Append(said, Block(kind, mark))
<1>1. d.open \in Blocks /\ d.open.data \in Data /\ mark \in Data
  BY StampedFacts DEF Assembled, Blocks
<1>2. Append(d.open.data, <<t, a, n>>) = d.open.data \o mark
      /\ Append(d.open.data, <<t, a, n>>) \in Data
  <2>1. d.open.data \in Seq(Marks) /\ <<t, a, n>> \in Marks
    BY <1>1 DEF Data, Marks
  <2> DEFINE x == d.open.data
             y == <<t, a, n>>
  <2> HIDE DEF x, y
  <2>2. x \in Seq(Marks) /\ y \in Marks
    BY <2>1 DEF x, y
  <2>3. Append(x, y) = x \o <<y>> /\ Append(x, y) \in Seq(Marks)
    BY <2>2, AppendIsConcat, AppendProperties
  <2> QED
    BY <2>3 DEF x, y, Data, Stamped
<1>3. next.open \in Blocks /\ next.open.kind = kind /\ next.open.data = d.open.data \o mark
  <2> DEFINE data == Append(d.open.data, <<t, a, n>>)
  <2>1. next.open = [kind |-> kind, data |-> data]
    BY DEF Block
  <2>2. kind \in KindsOfBlock /\ data \in Data /\ data = d.open.data \o mark
    BY <1>1, <1>2 DEF Blocks
  <2> HIDE DEF data, kind, mark
  <2>3. next.open.kind = kind /\ next.open.data = data
    BY <2>1
  <2> QED
    BY <2>1, <2>2, <2>3 DEF Blocks
<1>4. CallsDiffer(next.content, t, a, n + 1)
  BY CallsLater DEF Assembled
<1>5. ASSUME NEW other \in Visible
      PROVE  Said(shows, other) = Said(next.content, other) \o Pending(next.open, other)
  <2> DEFINE before == Said(d.content, other)
  <2>1. Said(shows, other) = Said(said, other) \o IF kind = other THEN mark ELSE <<>>
    BY <1>1, DeltaShown
  <2>2. Said(said, other) = before \o Pending(d.open, other)
    BY DEF Assembled
  <2>3. before \in Data
    BY SaidIsData DEF Assembled, CallsDiffer
  <2> HIDE DEF shows, before, mark
  <2>4. CASE kind = other
    <3>1. Pending(d.open, other) = d.open.data /\ Pending(next.open, other) = d.open.data \o mark
      BY <1>3, <2>4 DEF Pending
    <3>2. (before \o d.open.data) \o mark = before \o (d.open.data \o mark)
      <4> DEFINE x == d.open.data
      <4>1. before \in Seq(Marks) /\ x \in Seq(Marks) /\ mark \in Seq(Marks)
        BY <1>1, <2>3 DEF Data
      <4> HIDE DEF x
      <4>2. (before \o x) \o mark = before \o (x \o mark)
        BY <4>1, ConcatAssociative
      <4> QED
        BY <4>2 DEF x
    <3>3. Said(shows, other) = before \o Pending(next.open, other)
      BY <2>1, <2>2, <2>4, <3>1, <3>2
    <3> QED
      BY <3>3 DEF before
  <2>5. CASE kind # other
    <3>1. Pending(d.open, other) = <<>> /\ Pending(next.open, other) = <<>>
      BY <1>3, <2>5 DEF Pending
    <3>2. before \o <<>> = before
      BY <2>3 DEF Data
    <3>3. Said(shows, other) = before \o Pending(next.open, other)
      BY <2>1, <2>2, <2>5, <3>1, <3>2
    <3> QED
      BY <3>3 DEF before
  <2> QED
    BY <2>4, <2>5
<1> QED
  BY <1>3, <1>4, <1>5 DEF Assembled

LEMMA DeltaContent ==
  ASSUME NEW w, NEW d, NEW next, NEW said \in Seq(Blocks),
         NEW t \in Nat, NEW a \in Nat, NEW n \in Nat, NEW kind \in {"text", "reasoning"},
         Assembled(w, d, said, t, a, n), d.open = NoBlock, next.open = d.open,
         next.content = Append(d.content, Block(kind, Stamped(t, a, n)))
  PROVE  Assembled(w, next, Append(said, Block(kind, Stamped(t, a, n))), t, a, n + 1)
<1> DEFINE mark == Stamped(t, a, n)
           b == Block(kind, mark)
           shows == Append(said, b)
<1>1. mark \in Data /\ d.content \in Seq(Blocks)
  BY StampedFacts DEF Assembled, CallsDiffer
<1>2. b \in Blocks /\ b.kind = kind /\ kind \in Visible /\ kind # "tool"
  BY <1>1 DEF Block, Blocks, KindsOfBlock, BlockKinds, Visible
<1>3. CallsDiffer(next.content, t, a, n + 1)
  <2>1. CallsDiffer(d.content, t, a, n)
    BY DEF Assembled
  <2> HIDE DEF b
  <2>2. CallsDiffer(Append(d.content, b), t, a, n + 1)
    BY <1>2, <2>1, CallsStillDiffer
  <2> QED
    BY <2>2 DEF b
<1>4. NoBlock \in Blocks /\ NoBlock.kind = "none"
  BY DEF NoBlock, Block, Blocks, KindsOfBlock, Data
<1>5. ASSUME NEW other \in Visible
      PROVE  Said(shows, other) = Said(next.content, other) \o Pending(next.open, other)
  <2> DEFINE before == Said(d.content, other)
             part == IF kind = other THEN mark ELSE <<>>
             after == Said(next.content, other)
  <2>1. Said(shows, other) = Said(said, other) \o part
    <3>1. mark \in Data /\ kind \in {"text", "reasoning"}
      BY <1>1
    <3> HIDE DEF mark
    <3>2. Said(Append(said, Block(kind, mark)), other)
            = Said(said, other) \o IF kind = other THEN mark ELSE <<>>
      BY ONLY <3>1, said \in Seq(Blocks), DeltaShown
    <3> QED
      BY <3>2
  <2>2. after = before \o part
    <3>1. Said(Append(d.content, b), other) = before \o part
      <4> DEFINE content == d.content
      <4>1. content \in Seq(Blocks)
        BY <1>1
      <4>2. mark \in Data /\ kind \in {"text", "reasoning"}
        BY <1>1
      <4> HIDE DEF content, mark
      <4>3. Said(Append(content, Block(kind, mark)), other)
              = Said(content, other) \o IF kind = other THEN mark ELSE <<>>
        BY ONLY <4>1, <4>2, DeltaShown
      <4> QED
        BY <4>3 DEF content
    <3>2. next.content = Append(d.content, b)
      OBVIOUS
    <3> HIDE DEF b, part
    <3> QED
      BY <3>1, <3>2
  <2>3. Pending(d.open, other) = <<>> /\ Pending(next.open, other) = <<>>
    BY <1>4, <1>5 DEF Pending, Visible
  <2>4. Said(said, other) = before \o Pending(d.open, other)
    BY DEF Assembled
  <2>5. before \in Data /\ after \in Data
    <3>1. next.content \in Seq(Blocks)
      BY <1>3 DEF CallsDiffer
    <3> QED
      BY <1>1, <3>1, SaidIsData
  <2>6. before \o <<>> = before /\ after \o <<>> = after
    BY <2>5 DEF Data
  <2> HIDE DEF before, after, part, shows
  <2>7. Said(shows, other) = after \o Pending(next.open, other)
    BY <2>1, <2>2, <2>3, <2>4, <2>6
  <2> QED
    BY <2>7 DEF after
<1> QED
  BY <1>3, <1>4, <1>5 DEF Assembled

(* What a decoder makes of a frame it accepts: nothing to show, a delta or a *)
(* call that is shown, or the message that was assembled.                   *)
Decodes(w, step, said, t, a, n) ==
  /\ step.decoder \in Decoders
  /\ \/ /\ step.events = <<>>
        /\ Assembled(w, step.decoder, said, t, a, n + 1)
     \/ \E kind \in Visible, data \in Data :
          /\ step.events = <<Delta(kind, data)>>
          /\ IsStamped(data, t, a, n + 1)
          /\ Assembled(w, step.decoder, Append(said, Block(kind, data)), t, a, n + 1)
     \/ \E message :
          /\ step.events = <<Complete(message)>>
          /\ CallsDiffer(message, t, a, n + 1)
          /\ Tells(message, said)

LEMMA NoBlockIs ==
  /\ NoBlock \in Blocks /\ NoBlock.kind = "none"
  /\ \A kind : \A data \in Data : kind \in BlockKinds =>
       /\ Block(kind, data) \in Blocks
       /\ Block(kind, data).kind = kind /\ Block(kind, data).data = data
BY DEF NoBlock, Block, Blocks, KindsOfBlock, Data

LEMMA AnthropicDecodes ==
  ASSUME NEW d \in Decoders, NEW said \in Seq(Blocks),
         NEW t \in Nat, NEW a \in Nat, NEW n \in Nat,
         Assembled("anthropic", d, said, t, a, n),
         NEW f \in AnthropicSends(d, <<t, a, n>>), ~AnthropicHandles(d, f).throws
  PROVE  Decodes("anthropic", AnthropicHandles(d, f), said, t, a, n)
<1> DEFINE step == AnthropicHandles(d, f)
           mark == Stamped(t, a, n)
<1>1. /\ d.open \in Blocks /\ d.content \in Seq(Blocks) /\ d.completed \in BOOLEAN
      /\ d = [open |-> d.open, content |-> d.content, completed |-> d.completed]
      /\ mark \in Data /\ <<>> \in Data
  BY StampedFacts DEF Decoders, Data
<1>2. /\ f.type \in {"start", "delta", "stop", "end", "fail"} /\ f.stamp = <<t, a, n>>
      /\ f.type = "start" => d.open = NoBlock /\ f.kind \in BlockKinds
      /\ f.type = "delta" => f.kind = d.open.kind /\ d.open.kind \in {"text", "reasoning"}
      /\ f.type = "stop" => f.kind = d.open.kind /\ d.open # NoBlock
      /\ f.type = "end" => d.open = NoBlock
  BY DEF AnthropicSends, Frame
<1>3. d.open # NoBlock => d.open.kind \in BlockKinds
  BY <1>1 DEF Assembled, Blocks, KindsOfBlock
<1>4. CASE f.type = "start"
  <2> DEFINE open == Block(f.kind, IF f.kind = "tool" THEN <<f.stamp>> ELSE <<>>)
             next == [d EXCEPT !.open = open]
  <2>1. step = Yields(next, <<>>)
    BY <1>4 DEF AnthropicHandles, Ignores
  <2>2. /\ open \in Blocks /\ open.kind = f.kind
        /\ f.kind = "tool" => open.data = mark
        /\ f.kind # "tool" => open.data = <<>>
    <3>1. (IF f.kind = "tool" THEN <<f.stamp>> ELSE <<>>) \in Data
          /\ (f.kind = "tool" => <<f.stamp>> = mark)
      BY <1>1, <1>2 DEF Stamped
    <3> QED
      BY <1>2, <1>4, <3>1, NoBlockIs
  <2> HIDE DEF open
  <2>3. next.open = open /\ next.content = d.content /\ next \in Decoders
    BY <1>1, <2>2 DEF Decoders
  <2> HIDE DEF next
  <2>4. Assembled("anthropic", next, said, t, a, n + 1)
    BY <1>2, <1>4, <2>2, <2>3, NoBlockIs, OpensBlock
  <2> QED
    BY <2>1, <2>3, <2>4 DEF Decodes, Yields
<1>5. CASE f.type = "delta"
  <2> DEFINE next == [d EXCEPT !.open.data = Append(@, f.stamp)]
             kind == d.open.kind
             open == Block(kind, Append(d.open.data, <<t, a, n>>))
  <2>1. step = Yields(next, <<Delta(kind, mark)>>)
    BY <1>2, <1>5 DEF AnthropicHandles, Stamped
  <2>2. Append(d.open.data, <<t, a, n>>) \in Data
    <3>1. <<t, a, n>> \in Marks /\ d.open.data \in Data
      BY <1>1 DEF Marks, Blocks
    <3> HIDE DEF mark
    <3> QED
      BY <3>1 DEF Data
  <2>3. next.open = open /\ next.content = d.content
    BY <1>1, <1>2 DEF Block, Blocks
  <2>4. open \in Blocks /\ open.kind = kind
    BY <1>1, <2>2 DEF Block, Blocks
  <2>5. next \in Decoders
    BY <1>1, <2>3, <2>4 DEF Decoders
  <2> HIDE DEF next
  <2>6. Assembled("anthropic", next, Append(said, Block(kind, mark)), t, a, n + 1)
    BY <1>2, <1>5, <2>3, <2>4, DeltaOpen
  <2>7. IsStamped(mark, t, a, n + 1) /\ kind \in Visible
    BY <1>2, <1>5 DEF IsStamped, Visible
  <2> QED
    BY <1>1, <2>1, <2>5, <2>6, <2>7 DEF Decodes, Yields
<1>6. CASE f.type = "stop"
  <2> DEFINE content == IF d.open.kind = "other" THEN d.content ELSE Append(d.content, d.open)
             next == [d EXCEPT !.open = NoBlock, !.content = content]
             events == IF d.open.kind = "tool" THEN <<Delta("tool", d.open.data)>> ELSE <<>>
  <2>1. d.open.kind # "unnamed"
    BY <1>2, <1>6 DEF AnthropicHandles, Throws
  <2>2. step = Yields(next, events)
    BY <1>2, <1>6, <2>1 DEF AnthropicHandles
  <2>3. content \in Seq(Blocks)
    BY <1>1
  <2>4. next.open = NoBlock /\ next.content = content /\ next \in Decoders
    BY <1>1, <2>3, NoBlockIs DEF Decoders
  <2>5. d.open.kind \in Visible \/ d.open.kind = "other"
    BY <1>2, <1>3, <1>6, <2>1 DEF BlockKinds, Visible
  <2>6. \/ d.open.kind \in Visible /\ next.content = Append(d.content, d.open)
        \/ d.open.kind = "other" /\ next.content = d.content
    BY <2>4, <2>5 DEF Visible
  <2> HIDE DEF next
  <2>7. CASE d.open.kind = "tool"
    <3>1. Assembled("anthropic", next, Append(said, Block("tool", d.open.data)), t, a, n + 1)
      BY <2>4, <2>6, <2>7, ClosesBlock
    <3>2. d.open.data \in Data /\ IsStamped(d.open.data, t, a, n + 1)
      BY <1>1, <2>7 DEF Assembled, IsStamped, Blocks
    <3>3. "tool" \in Visible
      BY DEF Visible
    <3> QED
      BY <2>2, <2>4, <2>7, <3>1, <3>2, <3>3 DEF Decodes, Yields
  <2>8. CASE d.open.kind # "tool"
    <3>1. Assembled("anthropic", next, said, t, a, n + 1)
      BY <2>4, <2>6, <2>8, ClosesBlock
    <3> QED
      BY <2>2, <2>4, <2>8, <3>1 DEF Decodes, Yields
  <2> QED
    BY <2>7, <2>8
<1>7. CASE f.type = "end"
  <2> DEFINE next == [d EXCEPT !.completed = TRUE]
  <2>1. step = Yields(next, <<Complete(d.content)>>)
    BY <1>7 DEF AnthropicHandles
  <2>2. next \in Decoders
    BY <1>1 DEF Decoders
  <2>3. CallsDiffer(d.content, t, a, n + 1)
    BY CallsLater DEF Assembled
  <2>4. ASSUME NEW kind \in Visible
        PROVE  Said(said, kind) = Said(d.content, kind)
    <3>1. Pending(d.open, kind) = <<>>
      BY <1>2, <1>7, <2>4, NoBlockIs DEF Pending, Visible
    <3>2. Said(d.content, kind) \in Data
      BY <1>1, SaidIsData
    <3>3. Said(d.content, kind) \o <<>> = Said(d.content, kind)
      BY <3>2 DEF Data
    <3> QED
      BY <3>1, <3>3 DEF Assembled
  <2> QED
    BY <2>1, <2>2, <2>3, <2>4 DEF Decodes, Yields, Tells
<1>8. CASE f.type = "fail"
  BY <1>8 DEF AnthropicHandles, Throws
<1> QED
  BY <1>2, <1>4, <1>5, <1>6, <1>7, <1>8

(* The message of the responses wire: its reasoning, its text, its calls.   *)
OnePart(content, kind) ==
  IF Said(content, kind) = <<>> THEN <<>> ELSE <<Block(kind, Said(content, kind))>>

LEMMA OnePartSays ==
  ASSUME NEW content \in Seq(Blocks), NEW kind \in {"text", "reasoning"}
  PROVE  /\ OnePart(content, kind) \in Seq(Blocks)
         /\ \A k \in DOMAIN OnePart(content, kind) : OnePart(content, kind)[k].kind = kind
         /\ \A other : Said(OnePart(content, kind), other)
                         = IF other = kind THEN Said(content, kind) ELSE <<>>
<1> DEFINE data == Said(content, kind)
           b == Block(kind, data)
<1>1. data \in Data
  BY SaidIsData
<1>2. b \in Blocks /\ b.kind = kind /\ b.data = data
  BY <1>1, NoBlockIs DEF BlockKinds
<1>3. OnePart(content, kind) = IF data = <<>> THEN <<>> ELSE <<b>>
  BY DEF OnePart
<1> HIDE DEF data, b
<1>4. CASE data = <<>>
  BY <1>3, <1>4, OfNoBlocks DEF data
<1>5. CASE data # <<>>
  <2>1. <<b>> = Append(<<>>, b) /\ <<>> \in Seq(Blocks) /\ <<b>> \in Seq(Blocks)
    BY <1>2
  <2>2. DOMAIN <<b>> = {1} /\ <<b>>[1] = b
    OBVIOUS
  <2>3. ASSUME NEW other
        PROVE  Said(<<b>>, other) = IF other = kind THEN data ELSE <<>>
    <3> DEFINE part == IF b.kind = other THEN b.data ELSE <<>>
    <3>1. Said(<<b>>, other) = Said(<<>>, other) \o part
      <4> DEFINE none == <<>>
      <4>1. none \in Seq(Blocks)
        OBVIOUS
      <4> HIDE DEF none
      <4>2. Said(Append(none, b), other) = Said(none, other) \o part
        BY <1>2, <4>1, SaidAppend
      <4> QED
        BY <2>1, <4>2 DEF none
    <3>2. Said(<<>>, other) = <<>>
      BY OfNoBlocks
    <3>3. part \in Seq(Marks) /\ part = IF other = kind THEN data ELSE <<>>
      BY <1>1, <1>2 DEF Data
    <3> HIDE DEF part
    <3>4. <<>> \o part = part
      BY <3>3
    <3> QED
      BY <3>1, <3>2, <3>3, <3>4
  <2> QED
    BY <1>2, <1>3, <1>5, <2>1, <2>2, <2>3 DEF data
<1> QED
  BY <1>4, <1>5

LEMMA MessageSays ==
  ASSUME NEW d, NEW t, NEW a, NEW n, CallsDiffer(d.content, t, a, n)
  PROVE  /\ CallsDiffer(OpenAiMessage(d), t, a, n)
         /\ \A kind \in Visible : Said(OpenAiMessage(d), kind) = Said(d.content, kind)
<1> DEFINE content == d.content
           thoughts == OnePart(content, "reasoning")
           words == OnePart(content, "text")
           calls == Keep(content, {"tool"})
           front == thoughts \o words
           message == front \o calls
<1>1. content \in Seq(Blocks)
  BY DEF CallsDiffer
<1>2. OpenAiMessage(d) = message
  BY DEF OpenAiMessage, OnePart
<1>3. thoughts \in Seq(Blocks) /\ words \in Seq(Blocks)
      /\ (\A k \in DOMAIN thoughts : thoughts[k].kind = "reasoning")
      /\ (\A k \in DOMAIN words : words[k].kind = "text")
  BY <1>1, OnePartSays
<1>4. IsKept(calls, content, {"tool"}) /\ Distinct(calls, {"tool"})
  <2>1. Distinct(content, {"tool"})
    BY DEF CallsDiffer
  <2> QED
    BY <1>1, <2>1, KeepKeeps, KeepDistinct
<1>5. \A k \in DOMAIN calls : calls[k].kind = "tool" /\ IsStamped(calls[k].data, t, a, n)
  BY <1>4 DEF IsKept, CallsDiffer
<1>6. calls \in Seq(Blocks)
  BY <1>4 DEF IsKept
<1>7. ASSUME NEW kind \in Visible
      PROVE  Said(message, kind) = Said(content, kind)
  <2> DEFINE said == Said(content, kind)
  <2>1. Said(message, kind) = Said(front, kind) \o Said(calls, kind)
    <3>1. front \in Seq(Blocks)
      BY <1>3, ConcatIs
    <3> HIDE DEF front, calls
    <3> QED
      BY <1>6, <3>1, SaidConcat
  <2>2. Said(front, kind) = Said(thoughts, kind) \o Said(words, kind)
    <3> HIDE DEF thoughts, words
    <3> QED
      BY <1>3, SaidConcat
  <2>3. /\ Said(thoughts, kind) = IF kind = "reasoning" THEN said ELSE <<>>
        /\ Said(words, kind) = IF kind = "text" THEN said ELSE <<>>
        /\ Said(calls, kind) = IF kind = "tool" THEN said ELSE <<>>
    <3>1. Said(thoughts, kind) = IF kind = "reasoning" THEN Said(content, "reasoning") ELSE <<>>
      BY <1>1, OnePartSays
    <3>2. Said(words, kind) = IF kind = "text" THEN Said(content, "text") ELSE <<>>
      BY <1>1, OnePartSays
    <3>3. Said(calls, kind) = IF kind \in {"tool"} THEN Said(content, kind) ELSE <<>>
      BY <1>1, KeepSaid
    <3> HIDE DEF thoughts, words, calls
    <3> QED
      BY <3>1, <3>2, <3>3
  <2>4. said \in Seq(Marks)
    BY <1>1, SaidIsData DEF Data
  <2> HIDE DEF said, message, front, thoughts, words, calls
  <2>5. (said \o <<>>) \o <<>> = said /\ (<<>> \o said) \o <<>> = said
        /\ (<<>> \o <<>>) \o said = said
    BY <2>4
  <2>6. kind = "reasoning" \/ kind = "text" \/ kind = "tool"
    BY <1>7 DEF Visible
  <2>7. Said(message, kind) = said
    BY <2>1, <2>2, <2>3, <2>5, <2>6
  <2> QED
    BY <2>7 DEF said
<1>8. CallsDiffer(message, t, a, n)
  <2> HIDE DEF thoughts, words, calls
  <2> DEFINE p == Len(thoughts)
             q == Len(front)
             s == Len(calls)
  <2>1. /\ front \in Seq(Blocks) /\ p \in Nat /\ Len(words) \in Nat /\ q = p + Len(words)
        /\ \A k \in 1..p : front[k] = thoughts[k]
        /\ \A k \in 1..Len(words) : front[p + k] = words[k]
    BY ONLY <1>3, ConcatIs
  <2>2. \A k \in 1..q : front[k].kind \in {"text", "reasoning"}
    <3> SUFFICES ASSUME NEW k \in 1..q PROVE front[k].kind \in {"text", "reasoning"}
      OBVIOUS
    <3>1. k \in 1..p \/ (k - p \in 1..Len(words) /\ p + (k - p) = k)
      BY <2>1
    <3>2. DOMAIN thoughts = 1..p /\ DOMAIN words = 1..Len(words)
      BY <1>3
    <3> HIDE DEF front, p
    <3>3. CASE k \in 1..p
      BY <1>3, <2>1, <3>2, <3>3
    <3>4. CASE k - p \in 1..Len(words) /\ p + (k - p) = k
      <4>1. front[p + (k - p)] = words[k - p]
        BY <2>1, <3>4
      <4> QED
        BY <1>3, <3>2, <3>4, <4>1
    <3> QED
      BY <3>1, <3>3, <3>4
  <2> HIDE DEF front
  <2>3. /\ message \in Seq(Blocks) /\ q \in Nat /\ s \in Nat /\ DOMAIN message = 1..q + s
        /\ \A k \in 1..q : message[k] = front[k]
        /\ \A k \in 1..s : message[q + k] = calls[k]
    <3>1. front \in Seq(Blocks) /\ calls \in Seq(Blocks)
      BY <1>6, <2>1
    <3>2. q \in Nat /\ s \in Nat /\ DOMAIN front = 1..q
      BY <3>1
    <3> QED
      BY ONLY <3>1, <3>2, ConcatIs
  <2>4. DOMAIN calls = 1..s
    BY <1>6
  <2> HIDE DEF message, q, s
  <2>5. \A k \in DOMAIN message : \/ k \in 1..q
                                  \/ k - q \in 1..s /\ q + (k - q) = k
    BY <2>3
  <2>6. \A k \in DOMAIN message : \/ message[k].kind \in {"text", "reasoning"}
                                  \/ k - q \in DOMAIN calls /\ message[k] = calls[k - q]
    BY <2>2, <2>3, <2>4, <2>5
  <2>7. \A k \in DOMAIN message : message[k].kind \in Visible
    BY <1>5, <2>6 DEF Visible
  <2>8. \A k \in DOMAIN message : message[k].kind = "tool" => IsStamped(message[k].data, t, a, n)
    BY <1>5, <2>6
  <2>9. Distinct(message, {"tool"})
    <3> SUFFICES ASSUME NEW i \in DOMAIN message, NEW j \in DOMAIN message,
                        message[i].kind = "tool", message[j].kind = "tool",
                        message[i].data = message[j].data
                 PROVE  i = j
      BY DEF Distinct
    <3>1. /\ i - q \in DOMAIN calls /\ message[i] = calls[i - q]
          /\ j - q \in DOMAIN calls /\ message[j] = calls[j - q]
      BY <2>6
    <3>2. i - q = j - q
      BY <1>4, <1>5, <3>1 DEF Distinct
    <3>3. i \in Nat /\ j \in Nat /\ q \in Nat
      BY <2>3
    <3> QED
      BY <3>2, <3>3
  <2> QED
    BY <2>3, <2>7, <2>8, <2>9 DEF CallsDiffer
<1> QED
  BY <1>2, <1>7, <1>8

LEMMA OpenAiDecodes ==
  ASSUME NEW d \in Decoders, NEW said \in Seq(Blocks),
         NEW t \in Nat, NEW a \in Nat, NEW n \in Nat,
         Assembled("openai", d, said, t, a, n),
         NEW f \in OpenAiSends(d, <<t, a, n>>), ~OpenAiHandles(d, f).throws
  PROVE  Decodes("openai", OpenAiHandles(d, f), said, t, a, n)
<1> DEFINE step == OpenAiHandles(d, f)
           mark == Stamped(t, a, n)
<1>1. /\ d.open \in Blocks /\ d.content \in Seq(Blocks) /\ d.completed \in BOOLEAN
      /\ d = [open |-> d.open, content |-> d.content, completed |-> d.completed]
      /\ mark \in Data
  BY StampedFacts DEF Decoders
<1>2. /\ f.type \in {"start", "delta", "stop", "end", "fail"} /\ f.stamp = <<t, a, n>>
      /\ f.type = "start" => d.open = NoBlock /\ f.kind \in {"tool", "unnamed", "other"}
      /\ f.type = "delta" => d.open = NoBlock /\ f.kind \in {"text", "reasoning"}
      /\ f.type = "stop" => f.kind = d.open.kind /\ d.open # NoBlock
      /\ f.type = "end" => d.open = NoBlock
  BY DEF OpenAiSends, Frame
<1>3. CASE f.type = "start" /\ f.kind # "other"
  <2> DEFINE open == Block(f.kind, <<f.stamp>>)
             next == [d EXCEPT !.open = open]
  <2>1. step = Yields(next, <<>>)
    BY <1>2, <1>3 DEF OpenAiHandles, Ignores
  <2>2. open \in Blocks /\ open.kind = f.kind /\ open.data = mark
    <3>1. <<f.stamp>> = mark /\ f.kind \in BlockKinds
      BY <1>2, <1>3 DEF Stamped, BlockKinds
    <3> QED
      BY <1>1, <3>1, NoBlockIs
  <2> HIDE DEF open
  <2>3. next.open = open /\ next.content = d.content /\ next \in Decoders
    BY <1>1, <2>2 DEF Decoders
  <2>4. f.kind \in {"tool", "unnamed"} /\ f.kind \in BlockKinds
    BY <1>2, <1>3 DEF BlockKinds
  <2> HIDE DEF next
  <2>5. Assembled("openai", next, said, t, a, n + 1)
    BY <1>2, <1>3, <2>2, <2>3, <2>4, NoBlockIs, OpensBlock
  <2> QED
    BY <2>1, <2>3, <2>5 DEF Decodes, Yields
<1>4. CASE f.type = "start" /\ f.kind = "other"
  <2>1. step = Yields(d, <<>>)
    BY <1>4 DEF OpenAiHandles, Ignores
  <2>2. Assembled("openai", d, said, t, a, n + 1)
    <3>1. CallsDiffer(d.content, t, a, n + 1)
      BY CallsLater DEF Assembled
    <3>2. \A data : IsStamped(data, t, a, n) => IsStamped(data, t, a, n + 1)
      BY DEF IsStamped
    <3> QED
      BY <3>1, <3>2 DEF Assembled
  <2> QED
    BY <2>1, <2>2 DEF Decodes, Yields
<1>5. CASE f.type = "delta"
  <2> DEFINE kind == f.kind
             next == [d EXCEPT !.content = Append(@, Block(kind, <<f.stamp>>))]
  <2>1. step = Yields(next, <<Delta(kind, mark)>>)
    BY <1>2, <1>5 DEF OpenAiHandles, Stamped
  <2>2. Block(kind, mark) \in Blocks /\ <<f.stamp>> = mark
    BY <1>1, <1>2, <1>5, NoBlockIs DEF Stamped, BlockKinds
  <2>3. next.open = d.open /\ next.content = Append(d.content, Block(kind, mark))
    BY <1>1, <2>2
  <2>4. next \in Decoders
    <3> DEFINE b == Block(kind, mark)
               content == Append(d.content, b)
    <3> HIDE DEF b
    <3>1. content \in Seq(Blocks)
      BY <1>1, <2>2 DEF b
    <3>2. next.content = content /\ next = [open |-> d.open, content |-> content,
                                            completed |-> d.completed]
      <4>1. Block(kind, <<f.stamp>>) = b
        BY <2>2 DEF b
      <4>2. next = [d EXCEPT !.content = content]
        BY <4>1
      <4> HIDE DEF content, next
      <4> QED
        BY <1>1, <4>2
    <3> QED
      BY <1>1, <3>1, <3>2 DEF Decoders
  <2> HIDE DEF next
  <2>5. Assembled("openai", next, Append(said, Block(kind, mark)), t, a, n + 1)
    BY <1>2, <1>5, <2>3, DeltaContent
  <2>6. IsStamped(mark, t, a, n + 1) /\ kind \in Visible
    BY <1>2, <1>5 DEF IsStamped, Visible
  <2> QED
    BY <1>1, <2>1, <2>4, <2>5, <2>6 DEF Decodes, Yields
<1>6. CASE f.type = "stop"
  <2> DEFINE content == Append(d.content, d.open)
             next == [d EXCEPT !.open = NoBlock, !.content = content]
  <2>1. d.open.kind = "tool"
    <3>1. d.open.kind # "unnamed"
      BY <1>2, <1>6 DEF OpenAiHandles, Throws
    <3> QED
      BY <1>2, <1>6, <3>1 DEF Assembled
  <2>2. step = Yields(next, <<Delta("tool", d.open.data)>>)
    BY <1>2, <1>6, <2>1 DEF OpenAiHandles
  <2>3. content \in Seq(Blocks)
    BY <1>1
  <2>4. next.open = NoBlock /\ next.content = content /\ next \in Decoders
    BY <1>1, <2>3, NoBlockIs DEF Decoders
  <2> HIDE DEF next
  <2>5. d.open.kind \in Visible /\ "tool" \in Visible
    BY <2>1 DEF Visible
  <2>6. Assembled("openai", next, Append(said, Block("tool", d.open.data)), t, a, n + 1)
    BY <2>1, <2>4, <2>5, ClosesBlock
  <2>7. d.open.data \in Data /\ IsStamped(d.open.data, t, a, n + 1)
    BY <1>1, <2>1 DEF Assembled, IsStamped, Blocks
  <2> QED
    BY <2>2, <2>4, <2>5, <2>6, <2>7 DEF Decodes, Yields
<1>7. CASE f.type = "end"
  <2> DEFINE next == [d EXCEPT !.completed = TRUE]
             message == OpenAiMessage(d)
  <2>1. step = Yields(next, <<Complete(message)>>)
    BY <1>7 DEF OpenAiHandles
  <2>2. next \in Decoders
    BY <1>1 DEF Decoders
  <2>3. CallsDiffer(d.content, t, a, n + 1)
    BY CallsLater DEF Assembled
  <2>4. CallsDiffer(message, t, a, n + 1)
        /\ \A kind \in Visible : Said(message, kind) = Said(d.content, kind)
    BY <2>3, MessageSays
  <2> HIDE DEF message
  <2>5. ASSUME NEW kind \in Visible
        PROVE  Said(said, kind) = Said(message, kind)
    <3>1. Pending(d.open, kind) = <<>>
      BY <1>2, <1>7, <2>5, NoBlockIs DEF Pending, Visible
    <3>2. Said(d.content, kind) \in Data
      BY <1>1, SaidIsData
    <3>3. Said(d.content, kind) \o <<>> = Said(d.content, kind)
      BY <3>2 DEF Data
    <3> QED
      BY <2>4, <2>5, <3>1, <3>3 DEF Assembled
  <2> QED
    BY <2>1, <2>2, <2>4, <2>5 DEF Decodes, Yields, Tells
<1>8. CASE f.type = "fail"
  BY <1>8 DEF OpenAiHandles, Throws
<1> QED
  BY <1>2, <1>3, <1>4, <1>5, <1>6, <1>7, <1>8

-----------------------------------------------------------------------------
(* The conversation grows by what a user says, or by a committed turn.      *)
(* The calls of a request are of earlier turns.                             *)
Dated(sent, t) ==
  \A k \in DOMAIN sent : sent[k].type \in {"tool", "result"} =>
    \E u, a, l \in Nat : u < t /\ sent[k].data = Stamped(u, a, l)

LEMMA DatedGrows ==
  ASSUME NEW sent \in Seq(EntryRecords), NEW more \in Seq(EntryRecords), NEW t \in Nat,
         NEW next \in Nat, t <= next, Dated(sent, t), Dated(more, next)
  PROVE  Dated(sent \o more, next)
<1> DEFINE both == sent \o more
           p == Len(sent)
           q == Len(more)
<1>1. /\ p \in Nat /\ q \in Nat /\ DOMAIN both = 1..p + q
      /\ DOMAIN sent = 1..p /\ DOMAIN more = 1..q
      /\ \A k \in 1..p : both[k] = sent[k]
      /\ \A k \in 1..q : both[p + k] = more[k]
  <2>1. /\ DOMAIN both = 1..p + q
        /\ \A k \in 1..p : both[k] = sent[k]
        /\ \A k \in 1..q : both[p + k] = more[k]
    BY ONLY ConcatIs, sent \in Seq(EntryRecords), more \in Seq(EntryRecords)
  <2> QED
    BY <2>1
<1> HIDE DEF both, p, q
<1> SUFFICES ASSUME NEW k \in DOMAIN both, both[k].type \in {"tool", "result"}
             PROVE  \E u, a, l \in Nat : u < next /\ both[k].data = Stamped(u, a, l)
  BY DEF Dated, both
<1>2. k \in 1..p \/ (k - p \in 1..q /\ p + (k - p) = k)
  BY <1>1
<1>3. CASE k \in 1..p
  <2>1. both[k] = sent[k] /\ k \in DOMAIN sent
    BY <1>1, <1>3
  <2>2. PICK u \in Nat, a \in Nat, l \in Nat : u < t /\ sent[k].data = Stamped(u, a, l)
    BY <2>1 DEF Dated
  <2>3. u < next
    BY <2>2
  <2> QED
    BY <2>1, <2>2, <2>3
<1>4. CASE k - p \in 1..q /\ p + (k - p) = k
  <2>1. both[k] = more[k - p] /\ k - p \in DOMAIN more
    BY <1>1, <1>4
  <2> QED
    BY <2>1 DEF Dated
<1> QED
  BY <1>2, <1>3, <1>4

LEMMA UserGrows ==
  ASSUME NEW w, NEW messages \in Seq(Messages), NEW message \in Messages, NEW t \in Nat,
         \A k \in DOMAIN message.content : message.content[k].kind = "text",
         Paired(w, RequestOf(w, messages)), Dated(RequestOf(w, messages), t)
  PROVE  /\ Paired(w, RequestOf(w, Append(messages, message)))
         /\ Dated(RequestOf(w, Append(messages, message)), t)
<1> DEFINE m == Len(messages) + 1
           sent == RequestOf(w, messages)
           asked == OneRequest(w, message, m)
           uses == Keep(message.content, {"tool"})
<1>1. m \in Nat /\ message.content \in Seq(Blocks)
  BY DEF Messages
<1>2. sent \in Seq(EntryRecords) /\ RequestOf(w, Append(messages, message)) = sent \o asked
  BY RequestAppend
<1>3. uses = <<>>
  BY <1>1, KeepAllOrNone
<1>4. Asks(w, asked, uses, m)
  BY <1>1, AssistantRequests
<1> HIDE DEF m, sent, asked, uses
<1>5. asked \in Seq(EntryRecords)
  BY <1>4 DEF Asks
<1>6. Paired(w, sent \o asked)
  <2> DEFINE none == <<>>
             both == sent \o asked
  <2>1. none \in Seq(EntryRecords) /\ Len(none) = 0 /\ DOMAIN none = {} /\ none \in Seq(Blocks)
    OBVIOUS
  <2>2. both \in Seq(EntryRecords)
    BY <1>2, <1>5, ConcatIs DEF sent
  <2>3. both \o none = both
    <3> HIDE DEF both
    <3> QED
      BY <2>2
  <2>4. uses = none
    BY <1>3
  <2> HIDE DEF none
  <2>5. Answers(none, none, m + 1)
    BY <2>1 DEF Answers
  <2>6. Paired(w, (sent \o asked) \o none)
    BY <1>1, <1>2, <1>4, <2>1, <2>4, <2>5, PairedGrows DEF sent, m
  <2> QED
    BY <2>3, <2>6
<1>7. Dated(asked, t)
  <2>1. \A k \in DOMAIN asked : asked[k].type \in {"text", "tool"}
    BY <1>4 DEF Asks
  <2>2. \A k \in DOMAIN asked : asked[k].type # "tool"
    <3>1. DOMAIN uses = {}
      BY <1>3
    <3> QED
      BY <1>4, <3>1 DEF Asks
  <2> QED
    BY <2>1, <2>2 DEF Dated
<1>8. Dated(sent \o asked, t)
  BY <1>2, <1>5, <1>7, DatedGrows DEF sent
<1> QED
  BY <1>2, <1>6, <1>8

(* The last message of the assistant.                                       *)
IsLast(messages, m) ==
  /\ m \in DOMAIN messages /\ messages[m].role = "assistant"
  /\ \A n \in DOMAIN messages : messages[n].role = "assistant" => n <= m

(* A conversation whose last assistant message is the one committed by the  *)
(* turn t.                                                                  *)
AfterCommit(w, messages, content, t) ==
  /\ messages \in Seq(Messages)
  /\ Paired(w, RequestOf(w, messages)) /\ Dated(RequestOf(w, messages), t + 1)
  /\ \E m \in Nat : IsLast(messages, m) /\ messages[m].content = content

LEMMA CommittedGrows ==
  ASSUME NEW w, NEW messages \in Seq(Messages), NEW content,
         NEW t \in Nat, NEW a \in Nat, NEW l \in Nat, CallsDiffer(content, t, a, l),
         Paired(w, RequestOf(w, messages)), Dated(RequestOf(w, messages), t)
  PROVE  AfterCommit(w, messages \o Committed(content), content, t)
<1> DEFINE n == Len(messages)
           m == n + 1
           says == Message("assistant", content)
           uses == Keep(content, {"tool"})
           results == [k \in DOMAIN uses |-> Block("result", uses[k].data)]
           answer == Message("user", results)
           sent == RequestOf(w, messages)
           asked == OneRequest(w, says, m)
           answers == OneRequest(w, answer, m + 1)
           told == Append(messages, says)
           grown == messages \o Committed(content)
<1>1. /\ n \in Nat /\ m \in Nat /\ content \in Seq(Blocks)
      /\ \A k \in DOMAIN content : content[k].kind \in {"text", "reasoning", "tool"}
      /\ \A k \in DOMAIN content :
           content[k].kind = "tool" => IsStamped(content[k].data, t, a, l)
  BY DEF CallsDiffer, Visible
<1>2. IsKept(uses, content, {"tool"}) /\ Distinct(uses, {"tool"})
  BY <1>1, KeepKeeps, KeepDistinct DEF CallsDiffer
<1> HIDE DEF uses
<1>3. /\ uses \in Seq(Blocks)
      /\ \A k \in DOMAIN uses : /\ uses[k] \in Blocks /\ uses[k].kind = "tool"
                                /\ IsStamped(uses[k].data, t, a, l)
      /\ \A i, j \in DOMAIN uses : uses[i].data = uses[j].data => i = j
  <2>1. uses \in Seq(Blocks) /\ \A k \in DOMAIN uses : uses[k] \in Blocks
    BY <1>2 DEF IsKept
  <2>2. \A k \in DOMAIN uses : uses[k].kind = "tool" /\ IsStamped(uses[k].data, t, a, l)
    BY <1>1, <1>2 DEF IsKept
  <2>3. \A i, j \in DOMAIN uses : uses[i].data = uses[j].data => i = j
    BY <1>2, <2>2 DEF Distinct
  <2> QED
    BY <2>1, <2>2, <2>3
<1>4. /\ says \in Messages /\ says.content = content /\ says.role = "assistant"
  BY <1>1 DEF Message, Messages
<1>5. /\ results \in Seq(Blocks) /\ DOMAIN results = DOMAIN uses /\ Len(results) = Len(uses)
      /\ \A k \in DOMAIN uses : results[k].kind = "result" /\ results[k].data = uses[k].data
  <2>1. DOMAIN uses = 1..Len(uses) /\ Len(uses) \in Nat
    BY <1>3
  <2>2. \A k \in DOMAIN uses : /\ Block("result", uses[k].data) \in Blocks
                               /\ Block("result", uses[k].data).kind = "result"
                               /\ Block("result", uses[k].data).data = uses[k].data
    BY <1>3 DEF Block, Blocks, KindsOfBlock
  <2>3. /\ DOMAIN results = DOMAIN uses
        /\ \A k \in DOMAIN uses : results[k] = Block("result", uses[k].data)
    OBVIOUS
  <2>4. results \in [1..Len(uses) -> Blocks]
    BY <2>1, <2>2, <2>3
  <2> HIDE DEF results
  <2>5. results \in Seq(Blocks) /\ Len(results) = Len(uses)
    BY <2>1, <2>4
  <2> QED
    BY <2>2, <2>3, <2>5
<1> HIDE DEF results
<1>6. answer \in Messages /\ answer.content = results /\ answer.role = "user"
  BY <1>5 DEF Message, Messages
<1>7. Committed(content) = <<says>> \o (IF uses = <<>> THEN <<>> ELSE <<answer>>)
  BY DEF Committed, uses, results
<1> HIDE DEF says, answer, sent, asked, answers, n
<1>8. /\ sent \in Seq(EntryRecords) /\ Paired(w, sent) /\ Dated(sent, t)
      /\ RequestOf(w, told) = sent \o asked
  BY <1>4, RequestAppend DEF sent, asked, n
<1>9. Asks(w, asked, uses, m)
  BY <1>1, <1>4, AssistantRequests DEF asked, uses
<1>10. /\ told \in Seq(Messages) /\ Len(told) = m /\ DOMAIN told = 1..m /\ told[m] = says
       /\ \A k \in 1..n : told[k] = messages[k]
       /\ DOMAIN messages = 1..n
  BY <1>1, <1>4 DEF n
<1>11. IsLast(told, m) /\ told[m].content = content
  BY <1>1, <1>4, <1>10 DEF IsLast
<1>12. asked \in Seq(EntryRecords) /\ Dated(asked, t + 1)
  <2>1. asked \in Seq(EntryRecords)
    BY <1>9 DEF Asks
  <2>2. ASSUME NEW k \in DOMAIN asked, asked[k].type \in {"tool", "result"}
        PROVE  \E u, b, c \in Nat : u < t + 1 /\ asked[k].data = Stamped(u, b, c)
    <3>1. asked[k].type \in {"text", "tool"}
      BY <1>9, <2>2 DEF Asks
    <3>2. PICK j \in DOMAIN uses : asked[k].data = uses[j].data
      BY <1>9, <2>2, <3>1 DEF Asks
    <3>3. PICK c \in Nat : uses[j].data = Stamped(t, a, c)
      BY <1>3 DEF IsStamped
    <3>4. t < t + 1
      OBVIOUS
    <3> QED
      BY <3>2, <3>3, <3>4
  <2> QED
    BY <2>1, <2>2 DEF Dated
<1>13. \A k \in DOMAIN sent : \A j \in DOMAIN uses :
         sent[k].type \in {"tool", "result"} => sent[k].data # uses[j].data
  <2> SUFFICES ASSUME NEW k \in DOMAIN sent, NEW j \in DOMAIN uses,
                      sent[k].type \in {"tool", "result"}, sent[k].data = uses[j].data
               PROVE  FALSE
    OBVIOUS
  <2>1. PICK u \in Nat, b \in Nat, c \in Nat : u < t /\ sent[k].data = Stamped(u, b, c)
    BY <1>8 DEF Dated
  <2>2. PICK e \in Nat : uses[j].data = Stamped(t, a, e)
    BY <1>3 DEF IsStamped
  <2>3. u = t
    <3>1. Stamped(u, b, c) = Stamped(t, a, e)
      BY <2>1, <2>2
    <3> QED
      BY ONLY <3>1, t \in Nat, a \in Nat, e \in Nat, StampedFacts
  <2> QED
    BY <2>1, <2>3
<1> HIDE DEF told
<1>14. CASE uses = <<>>
  <2>1. grown = told
    <3>1. <<says>> \o <<>> = <<says>> /\ Append(messages, says) = messages \o <<says>>
      BY <1>4, AppendIsConcat
    <3> QED
      BY <1>7, <1>14, <3>1 DEF told
  <2>2. Paired(w, sent \o asked)
    <3> DEFINE none == <<>>
               both == sent \o asked
    <3>1. none \in Seq(EntryRecords) /\ Len(none) = 0 /\ DOMAIN none = {}
      OBVIOUS
    <3>2. both \in Seq(EntryRecords)
      BY <1>8, <1>12, ConcatIs
    <3>3. both \o none = both
      <4> HIDE DEF both
      <4> QED
        BY <3>2
    <3>4. Len(uses) = 0 /\ DOMAIN uses = {}
      BY <1>14
    <3> HIDE DEF none
    <3>5. Answers(none, uses, m + 1)
      BY <3>1, <3>4 DEF Answers
    <3>6. Paired(w, (sent \o asked) \o none)
      BY <1>1, <1>3, <1>8, <1>9, <1>13, <3>5, PairedGrows
    <3> QED
      BY <3>3, <3>6
  <2>3. Dated(sent \o asked, t + 1)
    BY <1>8, <1>12, DatedGrows
  <2> HIDE DEF grown
  <2>4. /\ grown \in Seq(Messages) /\ Paired(w, RequestOf(w, grown))
        /\ Dated(RequestOf(w, grown), t + 1)
        /\ IsLast(grown, m) /\ grown[m].content = content
    BY <1>8, <1>10, <1>11, <2>1, <2>2, <2>3
  <2> QED
    BY <1>1, <2>4 DEF grown, AfterCommit
<1>15. CASE uses # <<>>
  <2>1. grown = Append(told, answer)
    <3>1. Append(messages, says) = messages \o <<says>>
          /\ Append(told, answer) = told \o <<answer>>
      BY <1>4, <1>6, <1>10, AppendIsConcat
    <3>2. (messages \o <<says>>) \o <<answer>> = messages \o (<<says>> \o <<answer>>)
      <4> DEFINE x == <<says>>
                 y == <<answer>>
      <4>1. x \in Seq(Messages) /\ y \in Seq(Messages)
        BY <1>4, <1>6
      <4> HIDE DEF x, y
      <4>2. (messages \o x) \o y = messages \o (x \o y)
        BY <4>1, ConcatAssociative, SMTT(30)
      <4> QED
        BY <4>2 DEF x, y
    <3>3. Committed(content) = <<says>> \o <<answer>>
      BY <1>7, <1>15
    <3> QED
      BY <3>1, <3>2, <3>3 DEF told
  <2>2. answers = Entries(results, m + 1)
    <3> DEFINE next == m + 1
    <3>1. next \in Nat
      BY <1>1
    <3>2. \A k \in DOMAIN answer.content : answer.content[k].kind = "result"
      BY <1>5, <1>6
    <3> HIDE DEF next, m
    <3>3. OneRequest(w, answer, next) = Entries(answer.content, next)
      BY <1>6, <3>1, <3>2, ResultRequests
    <3> QED
      BY <1>6, <3>3 DEF answers, next
  <2>3. /\ answers \in Seq(EntryRecords) /\ Len(answers) = Len(uses)
        /\ DOMAIN answers = DOMAIN uses
        /\ \A j \in DOMAIN uses : /\ answers[j].type = "result"
                                  /\ answers[j].data = uses[j].data
                                  /\ answers[j].message = m + 1
    <3> DEFINE next == m + 1
    <3>1. next \in Nat
      BY <1>1
    <3> HIDE DEF next, m
    <3>2. /\ Entries(results, next) \in Seq(EntryRecords)
          /\ Len(Entries(results, next)) = Len(results)
          /\ DOMAIN Entries(results, next) = DOMAIN results
          /\ \A j \in DOMAIN results : /\ Entries(results, next)[j].type = results[j].kind
                                       /\ Entries(results, next)[j].data = results[j].data
                                       /\ Entries(results, next)[j].message = next
      BY <1>5, <3>1, EntriesAre
    <3>3. answers = Entries(results, next)
      BY <2>2 DEF next
    <3> QED
      BY <1>5, <3>2, <3>3 DEF next
  <2>4. Answers(answers, uses, m + 1)
    BY <2>3 DEF Answers
  <2>5. Paired(w, (sent \o asked) \o answers)
    BY <1>1, <1>3, <1>8, <1>9, <1>13, <2>4, PairedGrows
  <2>6. RequestOf(w, Append(told, answer)) = (sent \o asked) \o answers
    BY <1>6, <1>8, <1>10, RequestAppend DEF answers
  <2>7. Dated(answers, t + 1)
    <3> SUFFICES ASSUME NEW k \in DOMAIN answers
                 PROVE  \E u, b, c \in Nat : u < t + 1 /\ answers[k].data = Stamped(u, b, c)
      BY DEF Dated
    <3>1. k \in DOMAIN uses /\ answers[k].data = uses[k].data
      BY <2>3
    <3>2. PICK c \in Nat : uses[k].data = Stamped(t, a, c)
      BY <1>3, <3>1 DEF IsStamped
    <3>3. t < t + 1
      OBVIOUS
    <3> QED
      BY <3>1, <3>2, <3>3
  <2>8. Dated((sent \o asked) \o answers, t + 1)
    <3>1. Dated(sent \o asked, t + 1) /\ sent \o asked \in Seq(EntryRecords)
      <4>1. Dated(sent \o asked, t + 1)
        BY <1>8, <1>12, DatedGrows
      <4>2. sent \o asked \in Seq(EntryRecords)
        BY <1>8, <1>12, ConcatIs
      <4> QED
        BY <4>1, <4>2
    <3> DEFINE both == sent \o asked
    <3>2. both \in Seq(EntryRecords) /\ Dated(both, t + 1) /\ t + 1 \in Nat /\ t + 1 <= t + 1
      BY <3>1
    <3> HIDE DEF both
    <3>3. Dated(both \o answers, t + 1)
      BY <2>3, <2>7, <3>2, DatedGrows
    <3> QED
      BY <3>3 DEF both
  <2> HIDE DEF grown
  <2>9. /\ grown \in Seq(Messages) /\ DOMAIN grown = 1..m + 1
        /\ \A k \in 1..m : grown[k] = told[k]
        /\ grown[m + 1] = answer
    BY <1>1, <1>6, <1>10, <2>1
  <2>10. IsLast(grown, m) /\ grown[m].content = content
    <3>1. m \in DOMAIN grown /\ grown[m] = told[m]
      BY <1>1, <2>9
    <3>2. \A k \in DOMAIN grown : (k \in DOMAIN told /\ grown[k] = told[k]) \/ grown[k] = answer
      BY <1>1, <1>10, <2>9
    <3> QED
      BY <1>6, <1>11, <3>1, <3>2 DEF IsLast
  <2>11. Paired(w, RequestOf(w, grown)) /\ Dated(RequestOf(w, grown), t + 1)
    BY <2>1, <2>5, <2>6, <2>8
  <2> QED
    BY <1>1, <2>9, <2>10, <2>11 DEF grown, AfterCommit
<1> QED
  BY <1>14, <1>15

-----------------------------------------------------------------------------
(* The invariant.                                                           *)
TurnTypes ==
  /\ TurnTypeOK
  /\ shown \in Seq(Blocks)
  /\ decoder \in Decoders
  /\ conversation \in Seq(Messages)

(* A turn that is asked for is within the bounds.                           *)
TurnBounds ==
  /\ at \in {"opening", "streaming", "backoff"} => turn < MaxTurns
  /\ at = "backoff" => attemptIndex < MaxRetries

(* What is shown is of the current attempt, and forbids another one.        *)
OneAttempt ==
  /\ at # "boundary" =>
       \A k \in DOMAIN shown : IsStamped(shown[k].data, turn, attemptIndex, frames)
  /\ at \in {"opening", "backoff"} => shown = <<>>
  /\ at = "streaming" /\ shown # <<>> => emittedVisible

(* What was shown is what the decoder holds, and what is committed.         *)
TurnTold ==
  /\ at = "streaming" => Assembled(wire, decoder, shown, turn, attemptIndex, frames)
  /\ at = "boundary" /\ turn > 0 =>
       \E m \in Nat : IsLast(conversation, m) /\ Tells(conversation[m].content, shown)

(* The calls of the request are answered, and of earlier turns.             *)
TurnAsked ==
  /\ Paired(wire, RequestOf(wire, conversation))
  /\ Dated(RequestOf(wire, conversation), turn)

TurnInv == TurnTypes /\ TurnBounds /\ OneAttempt /\ TurnTold /\ TurnAsked

LEMMA StampedLater ==
  ASSUME NEW data, NEW t, NEW a, NEW n \in Nat, IsStamped(data, t, a, n)
  PROVE  IsStamped(data, t, a, n + 1)
BY DEF IsStamped

LEMMA TurnNumbers ==
  ASSUME TurnTypeOK
  PROVE  /\ turn \in Nat /\ attemptIndex \in Nat /\ frames \in Nat
         /\ MaxTurns \in Nat /\ MaxRetries \in Nat /\ MaxFrames \in Nat
         /\ wire \in {"anthropic", "openai"}
BY ProviderAssumption DEF TurnTypeOK

(* What a user says is text.                                                *)
LEMMA Speech ==
  ASSUME NEW words \in {"task", "steer"}
  PROVE  LET message == Message("user", <<Block("text", <<words>>)>>)
         IN /\ message \in Messages /\ message.role = "user"
            /\ \A k \in DOMAIN message.content : message.content[k].kind = "text"
<1> DEFINE b == Block("text", <<words>>)
           content == <<b>>
<1>1. <<words>> \in Data
  BY DEF Data, Marks
<1>2. b \in Blocks /\ b.kind = "text"
  BY <1>1, NoBlockIs DEF BlockKinds
<1> HIDE DEF b
<1>3. content \in Seq(Blocks) /\ \A k \in DOMAIN content : content[k].kind = "text"
  BY <1>2
<1> HIDE DEF content
<1> QED
  BY <1>3 DEF Message, Messages, content, b

LEMMA TurnInitially == Init => TurnInv
<1> SUFFICES ASSUME Init PROVE TurnInv
  OBVIOUS
<1> DEFINE task == Message("user", <<Block("text", <<"task">>)>>)
<1>1. task \in Messages /\ \A k \in DOMAIN task.content : task.content[k].kind = "text"
  BY Speech
<1>2. conversation = <<task>> /\ turn = 0 /\ shown = <<>> /\ at = "boundary"
  BY DEF Init
<1> HIDE DEF task
<1>3. conversation = Append(<<>>, task) /\ conversation \in Seq(Messages)
  BY <1>1, <1>2
<1>4. TurnTypes
  <2>1. TurnTypeOK
    <3>1. 0 \in 0..MaxTurns /\ 0 \in 0..MaxRetries /\ 0 \in 0..MaxFrames
      BY ProviderAssumption
    <3>2. DOMAIN shown = {}
      BY <1>2
    <3> QED
      BY <3>1, <3>2 DEF Init, TurnTypeOK, NoPartial
  <2>2. decoder \in Decoders
    BY NoBlockIs DEF Init, NewDecoder, Decoders
  <2> QED
    BY <1>2, <1>3, <2>1, <2>2 DEF TurnTypes
<1>5. TurnBounds /\ OneAttempt /\ TurnTold
  BY <1>2 DEF TurnBounds, OneAttempt, TurnTold
<1>6. TurnAsked
  <2> DEFINE none == <<>>
  <2>1. none \in Seq(Messages) /\ RequestOf(wire, none) = <<>>
    BY RequestOfNone
  <2>2. Paired(wire, <<>>) /\ Dated(<<>>, 0)
    BY DEF Paired, Dated
  <2>3. conversation = Append(none, task)
    BY <1>3
  <2> HIDE DEF none
  <2>4. Paired(wire, RequestOf(wire, conversation)) /\ Dated(RequestOf(wire, conversation), 0)
    BY <1>1, <2>1, <2>2, <2>3, UserGrows
  <2> QED
    BY <1>2, <2>4 DEF TurnAsked
<1> QED
  BY <1>4, <1>5, <1>6 DEF TurnInv

(* An attempt that failed is retried only when nothing of it was shown.     *)
LEMMA AttemptFails ==
  ASSUME TurnInv, NEW f, Fails(f), at \in {"opening", "streaming"}, decoder' = decoder,
         frames' \in 0..MaxFrames, frames' = frames \/ frames' = frames + 1
  PROVE  TurnInv'
<1>1. /\ UNCHANGED <<wire, turn, attemptIndex, emittedVisible, shown, conversation, aborted,
                     decoder>>
      /\ \/ at' = "backoff" /\ Retries(f) /\ partial' = partial
         \/ Dies
  BY DEF Fails
<1>2. turn \in Nat /\ attemptIndex \in Nat /\ frames \in Nat
      /\ MaxRetries \in Nat /\ attemptIndex \in 0..MaxRetries
  BY TurnNumbers DEF TurnInv, TurnTypes, TurnTypeOK
<1>3. partial'.reason \in {"none", "interrupted", "provider_error"}
  BY <1>1 DEF Dies, NoPartial, TurnInv, TurnTypes, TurnTypeOK
<1>4. at' \in {"backoff", "dead"}
  BY <1>1 DEF Dies
<1>5. TurnTypes'
  <2>1. TurnTypeOK'
    BY <1>1, <1>3, <1>4 DEF TurnInv, TurnTypes, TurnTypeOK
  <2> QED
    BY <1>1, <2>1 DEF TurnInv, TurnTypes
<1>6. TurnBounds'
  <2>1. at' = "backoff" => attemptIndex < MaxRetries
    BY <1>1 DEF Retries, Dies
  <2> QED
    BY <1>1, <1>4, <2>1 DEF TurnInv, TurnBounds
<1>7. OneAttempt'
  <2>1. \A k \in DOMAIN shown : IsStamped(shown[k].data, turn, attemptIndex, frames)
    BY DEF TurnInv, OneAttempt
  <2>2. \A k \in DOMAIN shown : IsStamped(shown[k].data, turn, attemptIndex, frames')
    BY <1>2, <2>1, StampedLater
  <2>3. at' = "backoff" => shown = <<>>
    BY <1>1 DEF TurnInv, OneAttempt, Retries, Dies
  <2> QED
    BY <1>1, <1>4, <2>2, <2>3 DEF OneAttempt
<1>8. TurnTold'
  BY <1>4 DEF TurnTold
<1>9. TurnAsked'
  BY <1>1 DEF TurnInv, TurnAsked
<1> QED
  BY <1>5, <1>6, <1>7, <1>8, <1>9 DEF TurnInv

LEMMA FrameDecodes ==
  ASSUME TurnInv, at = "streaming", frames < MaxFrames, frames' = frames + 1,
         NEW f \in Sends, ~Handles(f).throws, decoder' = Handles(f).decoder,
         Passes(Handles(f).events),
         UNCHANGED <<wire, attemptIndex, failure, partial, aborted>>
  PROVE  TurnInv'
<1> DEFINE step == Handles(f)
           t == turn
           a == attemptIndex
           n == frames
<1>1. /\ turn \in Nat /\ attemptIndex \in Nat /\ frames \in Nat
      /\ turn < MaxTurns /\ MaxTurns \in Nat /\ MaxFrames \in Nat
      /\ wire \in {"anthropic", "openai"}
      /\ decoder \in Decoders /\ shown \in Seq(Blocks) /\ conversation \in Seq(Messages)
      /\ TurnTypeOK
  BY TurnNumbers DEF TurnInv, TurnTypes, TurnBounds
<1>2. Assembled(wire, decoder, shown, turn, attemptIndex, frames)
  BY DEF TurnInv, TurnTold
<1>3. Decodes(wire, step, shown, turn, attemptIndex, frames)
  <2>1. CASE wire = "anthropic"
    <3>1. f \in AnthropicSends(decoder, <<turn, attemptIndex, frames>>)
          /\ step = AnthropicHandles(decoder, f)
      BY <2>1 DEF Sends, Handles, Stamp
    <3>2. ~AnthropicHandles(decoder, f).throws
      BY <3>1
    <3>3. Decodes("anthropic", AnthropicHandles(decoder, f), shown, turn, attemptIndex, frames)
      BY <1>1, <1>2, <2>1, <3>1, <3>2, AnthropicDecodes
    <3> QED
      BY <2>1, <3>1, <3>3
  <2>2. CASE wire = "openai"
    <3>1. f \in OpenAiSends(decoder, <<turn, attemptIndex, frames>>)
          /\ step = OpenAiHandles(decoder, f)
      BY <2>2 DEF Sends, Handles, Stamp
    <3>2. ~OpenAiHandles(decoder, f).throws
      BY <3>1
    <3>3. Decodes("openai", OpenAiHandles(decoder, f), shown, turn, attemptIndex, frames)
      BY <1>1, <1>2, <2>2, <3>1, <3>2, OpenAiDecodes
    <3> QED
      BY <2>2, <3>1, <3>3
  <2> QED
    BY <1>1, <2>1, <2>2
<1> HIDE DEF step
<1>4. decoder' \in Decoders /\ decoder' = step.decoder /\ Passes(step.events)
  BY <1>3 DEF Decodes, step
<1>5. /\ \A k \in DOMAIN shown : IsStamped(shown[k].data, turn, attemptIndex, frames)
      /\ shown # <<>> => emittedVisible
      /\ \A k \in DOMAIN shown : shown[k].kind \in {"text", "reasoning", "tool"}
  BY DEF TurnInv, OneAttempt, TurnTypes, TurnTypeOK
<1>6. \A k \in DOMAIN shown : IsStamped(shown[k].data, turn, attemptIndex, frames')
  BY <1>1, <1>5, StampedLater
<1>7. frames' \in 0..MaxFrames
  BY <1>1
<1>8. CASE step.events = <<>> /\ Assembled(wire, step.decoder, shown, t, a, n + 1)
  <2>1. UNCHANGED <<at, turn, emittedVisible, shown, conversation>>
    BY <1>4, <1>8 DEF Passes
  <2>2. TurnTypes'
    <3>1. TurnTypeOK'
      BY <1>1, <1>7, <2>1 DEF TurnTypeOK
    <3> QED
      BY <1>1, <1>4, <2>1, <3>1 DEF TurnTypes
  <2>3. TurnBounds'
    BY <2>1 DEF TurnInv, TurnBounds
  <2>4. OneAttempt'
    BY <1>5, <1>6, <2>1 DEF OneAttempt
  <2>5. TurnTold'
    BY <1>4, <1>8, <2>1 DEF TurnTold
  <2>6. TurnAsked'
    BY <2>1 DEF TurnInv, TurnAsked
  <2> QED
    BY <2>2, <2>3, <2>4, <2>5, <2>6 DEF TurnInv
<1>9. ASSUME NEW kind \in Visible, NEW data \in Data,
             step.events = <<Delta(kind, data)>>, IsStamped(data, t, a, n + 1),
             Assembled(wire, step.decoder, Append(shown, Block(kind, data)), t, a, n + 1)
      PROVE  TurnInv'
  <2> DEFINE b == Block(kind, data)
  <2>1. b \in Blocks /\ b.kind = kind /\ b.data = data
    BY NoBlockIs DEF Visible, BlockKinds
  <2>2. step.events # <<>> /\ Head(step.events) = Delta(kind, data)
    BY <1>9
  <2>3. Delta(kind, data).kind = kind /\ Delta(kind, data).data = data
        /\ kind \in {"text", "reasoning", "tool"} /\ kind # "complete"
    BY DEF Delta, Visible
  <2>4. emittedVisible' = TRUE /\ shown' = Append(shown, b)
        /\ UNCHANGED <<at, turn, conversation>>
    BY <1>4, <2>2, <2>3 DEF Passes, IsVisible
  <2> HIDE DEF b
  <2>5. /\ shown' \in Seq(Blocks) /\ DOMAIN shown' = 1..Len(shown) + 1
        /\ DOMAIN shown = 1..Len(shown) /\ Len(shown) \in Nat
        /\ \A k \in DOMAIN shown : shown'[k] = shown[k]
        /\ shown'[Len(shown) + 1] = b
    BY <1>1, <2>1, <2>4
  <2>6. \A k \in DOMAIN shown' : (k \in DOMAIN shown /\ shown'[k] = shown[k]) \/ shown'[k] = b
    BY <2>5
  <2>7. TurnTypes'
    <3>1. \A k \in DOMAIN shown' : shown'[k].kind \in {"text", "reasoning", "tool"}
      BY <1>5, <2>1, <2>3, <2>6
    <3>2. TurnTypeOK'
      BY <1>1, <1>7, <2>4, <3>1 DEF TurnTypeOK
    <3> QED
      BY <1>1, <1>4, <2>4, <2>5, <3>2 DEF TurnTypes
  <2>8. TurnBounds'
    BY <2>4 DEF TurnInv, TurnBounds
  <2>9. OneAttempt'
    <3>1. \A k \in DOMAIN shown' : IsStamped(shown'[k].data, turn, attemptIndex, frames')
      BY <1>6, <1>9, <2>1, <2>6
    <3> QED
      BY <2>4, <3>1 DEF OneAttempt
  <2>10. TurnTold'
    BY <1>4, <1>9, <2>4 DEF TurnTold, b
  <2>11. TurnAsked'
    BY <2>4 DEF TurnInv, TurnAsked
  <2> QED
    BY <2>7, <2>8, <2>9, <2>10, <2>11 DEF TurnInv
<1>10. ASSUME NEW message, step.events = <<Complete(message)>>,
              CallsDiffer(message, t, a, n + 1), Tells(message, shown)
       PROVE  TurnInv'
  <2>1. step.events # <<>> /\ Head(step.events) = Complete(message)
    BY <1>10
  <2>2. Complete(message).kind = "complete" /\ Complete(message).message = message
    BY DEF Complete
  <2>3. /\ at' = "boundary" /\ turn' = turn + 1 /\ UNCHANGED <<emittedVisible, shown>>
        /\ conversation' = conversation \o Committed(message)
    BY <1>4, <2>1, <2>2 DEF Passes
  <2>4. Paired(wire, RequestOf(wire, conversation)) /\ Dated(RequestOf(wire, conversation), turn)
    BY DEF TurnInv, TurnAsked
  <2> DEFINE l == n + 1
  <2>5. l \in Nat /\ CallsDiffer(message, turn, attemptIndex, l)
    BY <1>1, <1>10
  <2> HIDE DEF l
  <2>6. /\ conversation' \in Seq(Messages)
        /\ Paired(wire, RequestOf(wire, conversation'))
        /\ Dated(RequestOf(wire, conversation'), turn + 1)
        /\ \E m \in Nat : IsLast(conversation', m) /\ conversation'[m].content = message
    <3>1. conversation \in Seq(Messages) /\ turn \in Nat /\ attemptIndex \in Nat
      BY <1>1
    <3>2. AfterCommit(wire, conversation \o Committed(message), message, turn)
      BY ONLY <2>4, <2>5, <3>1, CommittedGrows
    <3>3. AfterCommit(wire, conversation', message, turn)
      BY <2>3, <3>2
    <3> QED
      BY <3>3 DEF AfterCommit
  <2>7. turn' \in 0..MaxTurns
    BY <1>1, <2>3
  <2>8. TurnTypes'
    <3>1. TurnTypeOK'
      BY <1>1, <1>7, <2>3, <2>7 DEF TurnTypeOK
    <3> QED
      BY <1>1, <1>4, <2>3, <2>6, <3>1 DEF TurnTypes
  <2>9. TurnBounds' /\ OneAttempt'
    BY <2>3 DEF TurnBounds, OneAttempt
  <2>10. TurnTold'
    BY <1>10, <2>3, <2>6 DEF TurnTold
  <2>11. TurnAsked'
    BY <2>3, <2>6 DEF TurnAsked
  <2> QED
    BY <2>8, <2>9, <2>10, <2>11 DEF TurnInv
<1> QED
  BY <1>3, <1>8, <1>9, <1>10 DEF Decodes

LEMMA TurnFrame ==
  ASSUME TurnInv, FrameArrives
  PROVE  TurnInv'
<1>1. at = "streaming" /\ frames < MaxFrames /\ frames' = frames + 1
  BY DEF FrameArrives
<1>2. PICK f \in Sends :
        IF Handles(f).throws THEN Fails(DecodeError) /\ UNCHANGED decoder
        ELSE /\ decoder' = Handles(f).decoder /\ Passes(Handles(f).events)
             /\ UNCHANGED <<wire, attemptIndex, failure, partial, aborted>>
  BY DEF FrameArrives
<1>3. frames' \in 0..MaxFrames
  BY <1>1, TurnNumbers DEF TurnInv, TurnTypes
<1>4. CASE Handles(f).throws
  BY <1>1, <1>2, <1>3, <1>4, AttemptFails
<1>5. CASE ~Handles(f).throws
  BY <1>1, <1>2, <1>5, FrameDecodes
<1> QED
  BY <1>4, <1>5

LEMMA TurnFails ==
  ASSUME TurnInv, OpenFails \/ StreamFails \/ StreamEnds \/ GoesIdle
  PROVE  TurnInv'
<1>1. frames \in 0..MaxFrames
  BY DEF TurnInv, TurnTypes, TurnTypeOK
<1>2. CASE OpenFails
  BY <1>1, <1>2, AttemptFails DEF OpenFails
<1>3. CASE StreamFails
  BY <1>1, <1>3, AttemptFails DEF StreamFails
<1>4. CASE StreamEnds
  BY <1>1, <1>4, AttemptFails DEF StreamEnds
<1>5. CASE GoesIdle
  BY <1>1, <1>5, AttemptFails DEF GoesIdle, Guarded
<1> QED
  BY <1>2, <1>3, <1>4, <1>5

LEMMA TurnStarts ==
  ASSUME TurnInv, StartTurn
  PROVE  TurnInv'
<1>1. /\ at' = "opening" /\ attemptIndex' = 0 /\ emittedVisible' = FALSE /\ shown' = <<>>
      /\ turn < MaxTurns
      /\ UNCHANGED <<wire, turn, decoder, frames, conversation, partial, aborted>>
  BY DEF StartTurn
<1>2. TurnTypes'
  <2>1. TurnTypeOK'
    <3>1. 0 \in 0..MaxRetries
      BY ProviderAssumption
    <3>2. DOMAIN shown' = {}
      BY <1>1
    <3> QED
      BY <1>1, <3>1, <3>2 DEF TurnInv, TurnTypes, TurnTypeOK
  <2> QED
    BY <1>1, <2>1 DEF TurnInv, TurnTypes
<1>3. TurnBounds' /\ OneAttempt' /\ TurnTold'
  BY <1>1 DEF TurnBounds, OneAttempt, TurnTold
<1>4. TurnAsked'
  BY <1>1 DEF TurnInv, TurnAsked
<1> QED
  BY <1>2, <1>3, <1>4 DEF TurnInv

LEMMA TurnRetries ==
  ASSUME TurnInv, BackoffEnds
  PROVE  TurnInv'
<1>1. /\ at = "backoff" /\ shown = <<>> /\ attemptIndex < MaxRetries /\ turn < MaxTurns
      /\ UNCHANGED <<wire, turn, emittedVisible, decoder, frames, shown, conversation, aborted>>
      /\ \/ Dies /\ attemptIndex' = attemptIndex
         \/ at' = "opening" /\ attemptIndex' = attemptIndex + 1 /\ partial' = partial
  BY DEF BackoffEnds, TurnInv, OneAttempt, TurnBounds
<1>2. at' \in {"opening", "dead"}
      /\ partial'.reason \in {"none", "interrupted", "provider_error"}
  BY <1>1 DEF Dies, NoPartial, TurnInv, TurnTypes, TurnTypeOK
<1>3. attemptIndex' \in 0..MaxRetries
  <2>1. attemptIndex \in 0..MaxRetries /\ MaxRetries \in Nat
    BY TurnNumbers DEF TurnInv, TurnTypes, TurnTypeOK
  <2>2. attemptIndex' = attemptIndex \/ attemptIndex' = attemptIndex + 1
    BY <1>1
  <2> QED
    BY <1>1, <2>1, <2>2
<1>4. TurnTypes'
  <2>1. TurnTypeOK'
    BY <1>1, <1>2, <1>3 DEF TurnInv, TurnTypes, TurnTypeOK
  <2> QED
    BY <1>1, <2>1 DEF TurnInv, TurnTypes
<1>5. TurnBounds' /\ OneAttempt' /\ TurnTold'
  BY <1>1, <1>2 DEF TurnBounds, OneAttempt, TurnTold
<1>6. TurnAsked'
  BY <1>1 DEF TurnInv, TurnAsked
<1> QED
  BY <1>4, <1>5, <1>6 DEF TurnInv

LEMMA TurnOpens ==
  ASSUME TurnInv, Opens
  PROVE  TurnInv'
<1>1. /\ at = "opening" /\ at' = "streaming" /\ decoder' = NewDecoder /\ shown = <<>>
      /\ UNCHANGED <<wire, turn, attemptIndex, emittedVisible, frames, shown, conversation,
                     partial, aborted>>
  BY DEF Opens, TurnInv, OneAttempt
<1>2. /\ NewDecoder \in Decoders /\ NewDecoder.open = NoBlock /\ NewDecoder.content = <<>>
  BY NoBlockIs DEF NewDecoder, Decoders
<1>3. TurnTypes'
  <2>1. TurnTypeOK'
    BY <1>1 DEF TurnInv, TurnTypes, TurnTypeOK
  <2> QED
    BY <1>1, <1>2, <2>1 DEF TurnInv, TurnTypes
<1>4. TurnBounds' /\ OneAttempt'
  BY <1>1 DEF TurnInv, TurnBounds, OneAttempt
<1>5. Assembled(wire, NewDecoder, <<>>, turn, attemptIndex, frames)
  <2>1. CallsDiffer(<<>>, turn, attemptIndex, frames)
    BY DEF CallsDiffer, Distinct
  <2>2. ASSUME NEW kind \in Visible
        PROVE  Said(<<>>, kind) = Said(<<>>, kind) \o Pending(NoBlock, kind)
    <3>1. Said(<<>>, kind) = <<>>
      BY OfNoBlocks
    <3>2. Pending(NoBlock, kind) = <<>>
      BY <2>2, NoBlockIs DEF Pending, Visible
    <3>3. <<>> \o <<>> = <<>>
      OBVIOUS
    <3> QED
      BY <3>1, <3>2, <3>3
  <2>3. NewDecoder.open.kind = "none" /\ NewDecoder.open \in Blocks
    BY <1>2, NoBlockIs
  <2> QED
    BY <1>2, <2>1, <2>2, <2>3 DEF Assembled
<1>6. TurnTold'
  BY <1>1, <1>5 DEF TurnTold
<1>7. TurnAsked'
  BY <1>1 DEF TurnInv, TurnAsked
<1> QED
  BY <1>3, <1>4, <1>6, <1>7 DEF TurnInv

LEMMA TurnSteered ==
  ASSUME TurnInv, UserSpeaks
  PROVE  TurnInv'
<1> DEFINE steer == Message("user", <<Block("text", <<"steer">>)>>)
<1>1. /\ at = "boundary" /\ turn > 0 /\ conversation' = Append(conversation, steer)
      /\ UNCHANGED <<wire, at, turn, attemptIndex, emittedVisible, decoder, frames, shown,
                     partial, aborted>>
  <2>1. turn \in Nat
    BY TurnNumbers DEF TurnInv, TurnTypes
  <2> QED
    BY <2>1 DEF UserSpeaks
<1>2. /\ steer \in Messages /\ steer.role = "user"
      /\ \A k \in DOMAIN steer.content : steer.content[k].kind = "text"
  BY Speech
<1> HIDE DEF steer
<1>3. conversation \in Seq(Messages) /\ turn \in Nat
  BY TurnNumbers DEF TurnInv, TurnTypes
<1>4. /\ conversation' \in Seq(Messages) /\ DOMAIN conversation' = 1..Len(conversation) + 1
      /\ DOMAIN conversation = 1..Len(conversation) /\ Len(conversation) \in Nat
      /\ \A k \in DOMAIN conversation : conversation'[k] = conversation[k]
      /\ conversation'[Len(conversation) + 1] = steer
  BY <1>1, <1>2, <1>3
<1>5. \A k \in DOMAIN conversation' :
        (k \in DOMAIN conversation /\ conversation'[k] = conversation[k]) \/ conversation'[k] = steer
  BY <1>4
<1>6. TurnTypes'
  <2>1. TurnTypeOK'
    BY <1>1 DEF TurnInv, TurnTypes, TurnTypeOK
  <2> QED
    BY <1>1, <1>4, <2>1 DEF TurnInv, TurnTypes
<1>7. TurnBounds' /\ OneAttempt'
  BY <1>1 DEF TurnBounds, OneAttempt
<1>8. TurnTold'
  <2>1. PICK m \in Nat : IsLast(conversation, m) /\ Tells(conversation[m].content, shown)
    BY <1>1 DEF TurnInv, TurnTold
  <2>2. m \in DOMAIN conversation /\ conversation'[m] = conversation[m] /\ m \in DOMAIN conversation'
    BY <1>4, <2>1 DEF IsLast
  <2>3. IsLast(conversation', m)
    BY <1>2, <1>5, <2>1, <2>2 DEF IsLast
  <2> QED
    BY <1>1, <2>1, <2>2, <2>3 DEF TurnTold
<1>9. TurnAsked'
  <2>1. Paired(wire, RequestOf(wire, conversation)) /\ Dated(RequestOf(wire, conversation), turn)
    BY DEF TurnInv, TurnAsked
  <2>2. /\ Paired(wire, RequestOf(wire, Append(conversation, steer)))
        /\ Dated(RequestOf(wire, Append(conversation, steer)), turn)
    BY <1>2, <1>3, <2>1, UserGrows
  <2> QED
    BY <1>1, <2>2 DEF TurnAsked
<1> QED
  BY <1>6, <1>7, <1>8, <1>9 DEF TurnInv

LEMMA TurnQuiet ==
  ASSUME TurnInv, Interrupt \/ UNCHANGED vars
  PROVE  TurnInv'
<1>1. /\ aborted' \in BOOLEAN
      /\ UNCHANGED <<wire, at, turn, attemptIndex, emittedVisible, decoder, frames, shown,
                     conversation, partial>>
  BY DEF Interrupt, vars, TurnInv, TurnTypes, TurnTypeOK
<1>2. TurnTypes'
  <2>1. TurnTypeOK'
    BY <1>1 DEF TurnInv, TurnTypes, TurnTypeOK
  <2> QED
    BY <1>1, <2>1 DEF TurnInv, TurnTypes
<1>3. TurnBounds' /\ OneAttempt'
  BY <1>1 DEF TurnInv, TurnBounds, OneAttempt
<1>4. TurnTold' /\ TurnAsked'
  BY <1>1 DEF TurnInv, TurnTold, TurnAsked
<1> QED
  BY <1>2, <1>3, <1>4 DEF TurnInv

LEMMA TurnStep == TurnInv /\ [Next]_vars => TurnInv'
<1> SUFFICES ASSUME TurnInv, [Next]_vars PROVE TurnInv'
  OBVIOUS
<1>1. CASE StartTurn
  BY <1>1, TurnStarts
<1>2. CASE BackoffEnds
  BY <1>2, TurnRetries
<1>3. CASE OpenEnds
  BY <1>3, TurnOpens, TurnFails DEF OpenEnds
<1>4. CASE StreamGoesOn
  BY <1>4, TurnFrame, TurnFails DEF StreamGoesOn
<1>5. CASE GoesIdle
  BY <1>5, TurnFails
<1>6. CASE UserSpeaks
  BY <1>6, TurnSteered
<1>7. CASE Interrupt \/ UNCHANGED vars
  BY <1>7, TurnQuiet
<1> QED
  BY <1>1, <1>2, <1>3, <1>4, <1>5, <1>6, <1>7 DEF Next

(* In every state of a run's provider calls, over every wire, the turn is   *)
(* within its budget, what was shown is of one attempt and is what the      *)
(* decoder holds or the turn committed, and the request has its calls       *)
(* answered.                                                                *)
THEOREM TurnInvariant == Spec => []TurnInv
<1>1. Init => TurnInv
  BY TurnInitially
<1>2. TurnInv /\ [Next]_vars => TurnInv'
  BY TurnStep
<1> QED
  BY <1>1, <1>2, PTL DEF Spec

(* runAssistantTurn, retryStream and runAttempt keep their fields within    *)
(* their types: at most MaxRetries retries, and nothing but text, reasoning *)
(* and tool calls is shown.                                                 *)
THEOREM TurnTypeCorrect == Spec => []TurnTypeOK
<1>1. TurnInv => TurnTypeOK
  BY DEF TurnInv, TurnTypes
<1> QED
  BY <1>1, TurnInvariant, PTL

(* retryStream never re-runs a request of which something was shown, and    *)
(* what the host was shown in a turn is, text by text and call by call, the *)
(* message appendAssistant commits, for any number of retries and frames.   *)
THEOREM ShownOnceHolds == Spec => []ShownOnce
<1>1. ASSUME TurnInv PROVE ShownOnce
  <2>1. ASSUME at # "boundary", NEW k \in DOMAIN shown
        PROVE  shown[k].data[1][1] = turn /\ shown[k].data[1][2] = attemptIndex
    <3>1. PICK n \in Nat : shown[k].data = Stamped(turn, attemptIndex, n)
      BY <1>1, <2>1 DEF TurnInv, OneAttempt, IsStamped
    <3> QED
      BY <3>1 DEF Stamped
  <2>2. ASSUME Committing, NEW kind \in {"text", "reasoning", "tool"}
        PROVE  Said(shown, kind) = Said(conversation[LastAssistant].content, kind)
    <3>1. PICK m \in Nat : IsLast(conversation, m) /\ Tells(conversation[m].content, shown)
      BY <1>1, <2>2 DEF TurnInv, TurnTold, Committing
    <3>2. /\ LastAssistant \in DOMAIN conversation
          /\ conversation[LastAssistant].role = "assistant"
          /\ \A n \in DOMAIN conversation :
               conversation[n].role = "assistant" => n <= LastAssistant
      BY <3>1 DEF LastAssistant, IsLast
    <3>3. m <= LastAssistant /\ LastAssistant <= m
      BY <3>1, <3>2 DEF IsLast
    <3>4. LastAssistant \in Nat
      <4>1. conversation \in Seq(Messages)
        BY <1>1 DEF TurnInv, TurnTypes
      <4>2. DOMAIN conversation = 1..Len(conversation) /\ Len(conversation) \in Nat
        BY <4>1
      <4> QED
        BY <3>2, <4>2
    <3>5. m = LastAssistant
      BY <3>3, <3>4
    <3> QED
      BY <2>2, <3>1, <3>5 DEF Tells, Visible
  <2>3. at = "backoff" => shown = <<>>
    BY <1>1 DEF TurnInv, OneAttempt
  <2> QED
    BY <2>1, <2>2, <2>3 DEF ShownOnce
<1> QED
  BY <1>1, TurnInvariant, PTL

(* The request that either encoder builds from the conversation has, for    *)
(* every call, one result in the message after it (on the responses wire    *)
(* with nothing but calls and results between), and no result without its   *)
(* call, whatever the turns said and the user interposed.                   *)
THEOREM RequestsArePairedHolds == Spec => []RequestsArePaired
<1>1. ASSUME TurnInv PROVE RequestsArePaired
  <2> DEFINE sent == Request
             results(k) == {r \in DOMAIN sent : sent[r].type = "result"
                                                  /\ sent[r].data = sent[k].data}
  <2>1. Request = RequestOf(wire, conversation)
    BY DEF Request, RequestOf
  <2>2. Paired(wire, sent)
    BY <1>1, <2>1 DEF TurnInv, TurnAsked
  <2> HIDE DEF sent
  <2>3. ASSUME NEW k \in DOMAIN sent, sent[k].type = "tool"
        PROVE  \E r \in DOMAIN sent :
                 /\ results(k) = {r}
                 /\ k < r
                 /\ sent[r].message = sent[k].message + 1
                 /\ wire = "openai" => \A j \in k..r : sent[j].type \in {"tool", "result"}
    <3>1. PICK r \in DOMAIN sent : Answered(wire, sent, k, r)
      BY <2>2, <2>3 DEF Paired
    <3>2. results(k) = {r}
      BY <3>1 DEF Answered
    <3> HIDE DEF results
    <3> QED
      BY <3>1, <3>2 DEF Answered
  <2>4. \A r \in DOMAIN sent : sent[r].type = "result" =>
          \E k \in 1..(r - 1) : sent[k].type = "tool" /\ sent[k].data = sent[r].data
    BY <2>2 DEF Paired
  <2> QED
    BY <2>3, <2>4 DEF RequestsArePaired, sent
<1> QED
  BY <1>1, TurnInvariant, PTL
=============================================================================
