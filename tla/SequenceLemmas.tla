---------------------------- MODULE SequenceLemmas ----------------------------
(***************************************************************************)
(* Facts about sequences for every length: the least element of a set of   *)
(* naturals, induction over sets instead of operators, and what FlattenSeq *)
(* of the community modules does when a sequence is appended.              *)
(***************************************************************************)
EXTENDS Naturals, Sequences, SequencesExt, NaturalsInduction, WellFoundedInduction,
        SequenceTheorems, TLAPS

(* A set of naturals that is not empty has a least one. *)
LEMMA LeastNatural ==
  ASSUME NEW T \in SUBSET Nat, T # {}
  PROVE  \E x \in T : \A y \in T : x <= y
<1> DEFINE R == OpToRel(<, Nat)
<1>1. IsWellFoundedOn(R, Nat)
  BY NatLessThanWellFounded
<1>2. \A x, y \in Nat : x < y => <<x, y>> \in R
  BY DEF OpToRel
<1> HIDE DEF R
<1>3. PICK x \in T : \A y \in T : ~ (<<y, x>> \in R)
  BY <1>1, WFMin
<1>4. ASSUME NEW y \in T PROVE x <= y
  <2>1. x \in Nat /\ y \in Nat
    OBVIOUS
  <2>2. ~ (y < x)
    BY <1>2, <1>3, <2>1
  <2> QED
    BY <2>1, <2>2
<1> QED
  BY <1>4

(* What is true of zero and of every successor: induction over a set, not  *)
(* over an operator.                                                        *)
LEMMA UpFromZero ==
  ASSUME NEW N, 0 \in N, \A n \in Nat : n \in N => n + 1 \in N
  PROVE  \A n \in Nat : n \in N
<1> DEFINE T == Nat \ N
<1> SUFFICES ASSUME T # {} PROVE FALSE
  OBVIOUS
<1>1. PICK x \in T : \A y \in T : x <= y
  BY LeastNatural
<1>2. x # 0 /\ x \in Nat
  OBVIOUS
<1>3. x - 1 \in Nat /\ (x - 1) + 1 = x /\ ~(x <= x - 1)
  BY <1>2
<1>4. x - 1 \in N
  BY <1>1, <1>3
<1> QED
  BY <1>3, <1>4

(* Sequences grow from the empty one by appending. *)
LEMMA SequenceInduction ==
  ASSUME NEW T, NEW P, <<>> \in P,
         \A s \in Seq(T) : \A x \in T : s \in P => Append(s, x) \in P
  PROVE  \A s \in Seq(T) : s \in P
<1> DEFINE N == {n \in Nat : \A s \in Seq(T) : Len(s) = n => s \in P}
<1>1. 0 \in N
  OBVIOUS
<1>2. ASSUME NEW n \in Nat, n \in N PROVE n + 1 \in N
  <2> SUFFICES ASSUME NEW s \in Seq(T), Len(s) = n + 1 PROVE s \in P
    OBVIOUS
  <2> DEFINE front == [i \in 1..n |-> s[i]]
  <2>1. front \in Seq(T) /\ Len(front) = n
    OBVIOUS
  <2>2. s[n + 1] \in T /\ s = Append(front, s[n + 1])
    OBVIOUS
  <2> QED
    BY <1>2, <2>1, <2>2
<1> HIDE DEF N
<1>3. \A n \in Nat : n \in N
  BY <1>1, <1>2, UpFromZero
<1> QED
  BY <1>3 DEF N

-----------------------------------------------------------------------------
(* FlattenSeq is the last value of a recursive function: the function       *)
(* exists, its values are determined, and appending adds one of them.       *)
IsFlat(g, seqs) ==
  g = [i \in 1..Len(seqs) |-> IF i = 1 THEN seqs[i] ELSE g[i - 1] \o seqs[i]]

(* The flattening of a sequence over U, a set closed under \o. *)
LEMMA FlatExists ==
  ASSUME NEW U, \A u, v \in U : u \o v \in U, NEW seqs \in Seq(U)
  PROVE  \E g \in [1..Len(seqs) -> U] : IsFlat(g, seqs)
<1> DEFINE P == {s \in Seq(U) : \E g \in [1..Len(s) -> U] : IsFlat(g, s)}
<1>1. <<>> \in P
  <2> DEFINE e == [i \in 1..0 |-> {}]
  <2>1. e \in [1..Len(<<>>) -> U] /\ IsFlat(e, <<>>)
    BY DEF IsFlat
  <2> HIDE DEF e
  <2>2. <<>> \in Seq(U)
    OBVIOUS
  <2> QED
    BY <2>1, <2>2
<1>2. ASSUME NEW s \in Seq(U), NEW x \in U, s \in P
      PROVE  Append(s, x) \in P
  <2>1. PICK g \in [1..Len(s) -> U] : IsFlat(g, s)
    BY <1>2
  <2> DEFINE n == Len(s)
             t == Append(s, x)
             h == [i \in 1..n + 1 |->
                     IF i <= n THEN g[i] ELSE IF n = 0 THEN x ELSE g[n] \o x]
  <2>2. n \in Nat /\ t \in Seq(U) /\ Len(t) = n + 1 /\ t[n + 1] = x
        /\ \A i \in 1..n : t[i] = s[i]
    OBVIOUS
  <2>3. \A i \in 1..n : g[i] \in U
    OBVIOUS
  <2>4. \A i \in 1..n : g[i] = IF i = 1 THEN s[i] ELSE g[i - 1] \o s[i]
    BY <2>1 DEF IsFlat
  <2> HIDE DEF n, t
  <2>5. h \in [1..n + 1 -> U]
    <3> SUFFICES ASSUME NEW i \in 1..n + 1
                 PROVE  (IF i <= n THEN g[i] ELSE IF n = 0 THEN x ELSE g[n] \o x) \in U
      OBVIOUS
    <3>1. CASE i <= n
      BY <2>2, <2>3, <3>1
    <3>2. CASE ~(i <= n) /\ n # 0
      <4>1. n \in 1..n
        BY <2>2, <3>2
      <4> QED
        BY <2>3, <3>2, <4>1
    <3> QED
      BY <3>1, <3>2
  <2>6. ASSUME NEW i \in 1..n + 1
        PROVE  h[i] = IF i = 1 THEN t[i] ELSE h[i - 1] \o t[i]
    <3>1. CASE i \in 1..n
      <4>1. h[i] = g[i] /\ t[i] = s[i]
        BY <2>2, <3>1
      <4>2. i # 1 => h[i - 1] = g[i - 1]
        BY <2>2, <3>1
      <4> QED
        BY <2>4, <3>1, <4>1, <4>2
    <3>2. CASE i = n + 1 /\ n = 0
      BY <2>2, <3>2
    <3>3. CASE i = n + 1 /\ n # 0
      <4>2. n \in 1..n + 1 /\ n <= n /\ ~(n + 1 <= n) /\ n + 1 \in 1..n + 1
        BY <2>2, <3>3
      <4>3. h[i] = g[n] \o x
        BY <3>3, <4>2
      <4>4. h[n] = g[n]
        BY <4>2
      <4>1. h[i] = g[n] \o x /\ h[n] = g[n] /\ i - 1 = n /\ i # 1
        BY <2>2, <3>3, <4>3, <4>4
      <4> QED
        BY <2>2, <3>3, <4>1
    <3> QED
      BY <2>2, <3>1, <3>2, <3>3
  <2> HIDE DEF h
  <2>7. DOMAIN h = 1..n + 1
    BY <2>5
  <2>8. IsFlat(h, t)
    <3>1. h = [i \in 1..n + 1 |-> h[i]]
      BY <2>5
    <3>2. h = [i \in 1..n + 1 |-> IF i = 1 THEN t[i] ELSE h[i - 1] \o t[i]]
      BY <3>1, <2>6
    <3> QED
      BY <3>2, <2>2 DEF IsFlat
  <2>9. h \in [1..Len(t) -> U]
    BY <2>2, <2>5
  <2> QED
    BY <2>2, <2>8, <2>9 DEF t
<1> HIDE DEF P
<1>3. \A s \in Seq(U) : s \in P
  BY <1>1, <1>2, SequenceInduction
<1> QED
  BY <1>3 DEF P

Flattens(g, seqs, m) ==
  \A i \in 1..m : g[i] = IF i = 1 THEN seqs[i] ELSE g[i - 1] \o seqs[i]

(* Two functions that flatten the same sequences agree. *)
LEMMA FlatUnique ==
  ASSUME NEW seqs, NEW g, NEW h, NEW m \in Nat \ {0},
         Flattens(g, seqs, m), Flattens(h, seqs, m)
  PROVE  g[m] = h[m]
<1> DEFINE N == {n \in Nat : n \in 1..m => g[n] = h[n]}
<1>1. 0 \in N
  OBVIOUS
<1>2. ASSUME NEW n \in Nat, n \in N PROVE n + 1 \in N
  <2> SUFFICES ASSUME n + 1 \in 1..m PROVE g[n + 1] = h[n + 1]
    OBVIOUS
  <2>1. CASE n = 0
    BY <2>1 DEF Flattens
  <2>2. CASE n # 0
    <3>1. n \in 1..m /\ (n + 1) - 1 = n /\ n + 1 # 1
      BY <2>2
    <3> QED
      BY <1>2, <3>1 DEF Flattens
  <2> QED
    BY <2>1, <2>2
<1> HIDE DEF N
<1>3. \A n \in Nat : n \in N
  BY <1>1, <1>2, UpFromZero
<1>4. m \in N /\ m \in 1..m
  BY <1>3
<1> QED
  BY <1>4 DEF N

(* FlattenSeq is such a function's last value. *)
LEMMA FlattenIs ==
  ASSUME NEW U, \A u, v \in U : u \o v \in U, NEW seqs \in Seq(U), seqs # <<>>
  PROVE  \E g \in [1..Len(seqs) -> U] :
           Flattens(g, seqs, Len(seqs)) /\ FlattenSeq(seqs) = g[Len(seqs)]
<1> DEFINE f == CHOOSE g : IsFlat(g, seqs)
<1>1. PICK g \in [1..Len(seqs) -> U] : IsFlat(g, seqs)
  BY FlatExists
<1>2. IsFlat(f, seqs)
  BY <1>1
<1>3. Len(seqs) # 0 /\ Len(seqs) \in Nat \ {0}
  OBVIOUS
<1>4. FlattenSeq(seqs) = f[Len(seqs)]
  BY <1>3 DEF FlattenSeq, IsFlat
<1> HIDE DEF f
<1>5. Flattens(f, seqs, Len(seqs))
  BY <1>2 DEF IsFlat, Flattens
<1>6. Flattens(g, seqs, Len(seqs))
  BY <1>1 DEF IsFlat, Flattens
<1>7. f[Len(seqs)] = g[Len(seqs)]
  BY <1>3, <1>5, <1>6, FlatUnique
<1> QED
  BY <1>1, <1>4, <1>6, <1>7

(* Appending, element by element. *)
LEMMA AppendIs ==
  ASSUME NEW T, NEW s \in Seq(T), NEW x \in T, NEW n, n = Len(s)
  PROVE  Append(s, x) = [k \in 1..n + 1 |-> IF k <= n THEN s[k] ELSE x]
<1> DEFINE t == Append(s, x)
<1>1. /\ t \in Seq(T) /\ n \in Nat /\ Len(t) = n + 1
      /\ \A k \in 1..n : t[k] = s[k]
      /\ t[n + 1] = x
  BY AppendProperties
<1> HIDE DEF t
<1>2. t = [k \in 1..n + 1 |-> t[k]]
  BY <1>1
<1>3. \A k \in 1..n + 1 : t[k] = IF k <= n THEN s[k] ELSE x
  BY <1>1
<1> QED
  BY <1>2, <1>3 DEF t

(* Concatenating, element by element. *)
LEMMA ConcatIs ==
  ASSUME NEW T, NEW s \in Seq(T), NEW t \in Seq(T)
  PROVE  /\ s \o t \in Seq(T) /\ Len(s \o t) = Len(s) + Len(t)
         /\ DOMAIN (s \o t) = 1..Len(s) + Len(t)
         /\ \A k \in 1..Len(s) : (s \o t)[k] = s[k]
         /\ \A k \in 1..Len(t) : (s \o t)[Len(s) + k] = t[k]
<1> DEFINE n == Len(s)
           m == Len(t)
<1>1. n \in Nat /\ m \in Nat
  OBVIOUS
<1>2. /\ s \o t \in Seq(T) /\ Len(s \o t) = n + m
      /\ \A k \in 1..n + m : (s \o t)[k] = IF k <= n THEN s[k] ELSE t[k - n]
  BY ConcatProperties
<1>3. ASSUME NEW k \in 1..m PROVE (s \o t)[n + k] = t[k]
  <2>1. n + k \in 1..n + m /\ ~(n + k <= n) /\ (n + k) - n = k
    BY <1>1
  <2> QED
    BY <1>2, <2>1
<1>4. \A k \in 1..n : k \in 1..n + m /\ k <= n
  BY <1>1
<1> QED
  BY <1>2, <1>3, <1>4

(* What FlattenSeq makes of no sequence, of which type it is, and what one   *)
(* more sequence adds to it.                                                *)
LEMMA FlattenEmpty == FlattenSeq(<<>>) = <<>>
BY DEF FlattenSeq

LEMMA FlattenType ==
  ASSUME NEW T, NEW seqs \in Seq(Seq(T))
  PROVE  FlattenSeq(seqs) \in Seq(T)
<1> DEFINE U == Seq(T)
<1>1. \A u, v \in U : u \o v \in U
  OBVIOUS
<1>2. <<>> \in U
  OBVIOUS
<1> HIDE DEF U
<1>3. seqs \in Seq(U)
  BY DEF U
<1>4. CASE seqs # <<>>
  <2>1. PICK g \in [1..Len(seqs) -> U] : FlattenSeq(seqs) = g[Len(seqs)]
    BY <1>1, <1>3, <1>4, FlattenIs
  <2>2. Len(seqs) \in 1..Len(seqs)
    BY <1>3, <1>4
  <2> QED
    BY <2>1, <2>2 DEF U
<1> QED
  BY <1>2, <1>4, FlattenEmpty DEF U

LEMMA FlattenAppend ==
  ASSUME NEW T, NEW s \in Seq(Seq(T)), NEW x \in Seq(T)
  PROVE  FlattenSeq(Append(s, x)) = FlattenSeq(s) \o x
<1> DEFINE U == Seq(T)
<1>1. \A u, v \in U : u \o v \in U
  OBVIOUS
<1>2. <<>> \o x = x
  OBVIOUS
<1> HIDE DEF U
<1>3. s \in Seq(U) /\ x \in U
  BY DEF U
<1> DEFINE t == Append(s, x)
           n == Len(s)
<1>4. /\ t \in Seq(U) /\ t # <<>> /\ n \in Nat
      /\ Len(t) = n + 1 /\ t[n + 1] = x
      /\ \A i \in 1..n : t[i] = s[i]
      /\ n = 0 <=> s = <<>>
  BY <1>3
<1> HIDE DEF t, n
<1>5. PICK h \in [1..n + 1 -> U] :
        Flattens(h, t, n + 1) /\ FlattenSeq(t) = h[n + 1]
  <2>1. t \in Seq(U) /\ t # <<>>
    BY <1>4
  <2>2. \E g \in [1..Len(t) -> U] : Flattens(g, t, Len(t)) /\ FlattenSeq(t) = g[Len(t)]
    BY <1>1, <2>1, FlattenIs
  <2> QED
    BY <1>4, <2>2
<1>6. CASE n = 0
  <2>1. FlattenSeq(s) = <<>>
    BY <1>4, <1>6, FlattenEmpty
  <2>2. FlattenSeq(t) = x
    BY <1>4, <1>5, <1>6 DEF Flattens
  <2> QED
    BY <2>1, <2>2, <1>2 DEF t
<1>7. CASE n # 0
  <2>1. PICK g \in [1..Len(s) -> U] : Flattens(g, s, n) /\ FlattenSeq(s) = g[n]
    BY <1>1, <1>3, <1>4, <1>7, FlattenIs DEF n
  <2>2. Flattens(h, s, n)
    <3> SUFFICES ASSUME NEW i \in 1..n
                 PROVE  h[i] = IF i = 1 THEN s[i] ELSE h[i - 1] \o s[i]
      BY DEF Flattens
    <3>1. i \in 1..n + 1
      BY <1>4
    <3> QED
      BY <1>4, <1>5, <3>1 DEF Flattens
  <2>3. h[n] = g[n]
    BY <1>4, <1>7, <2>1, <2>2, FlatUnique
  <2>4. n + 1 \in 1..n + 1 /\ (n + 1) - 1 = n /\ n + 1 # 1
    BY <1>4, <1>7
  <2>5. h[n + 1] = h[n] \o x
    BY <1>4, <1>5, <2>4 DEF Flattens
  <2> QED
    BY <1>5, <2>1, <2>3, <2>5 DEF t
<1> QED
  BY <1>6, <1>7

(* Where an element of a flattening comes from: the n-th from place k[n] of *)
(* the i[n]-th sequence, every place once.                                  *)
IsPlacing(i, k, flat, seqs) ==
  /\ i \in [DOMAIN flat -> Nat] /\ k \in [DOMAIN flat -> Nat]
  /\ \A n \in DOMAIN flat : /\ i[n] \in DOMAIN seqs /\ k[n] \in DOMAIN seqs[i[n]]
                            /\ flat[n] = seqs[i[n]][k[n]]
  /\ \A m, n \in DOMAIN flat : i[m] = i[n] /\ k[m] = k[n] => m = n
  /\ \A a \in DOMAIN seqs : \A b \in DOMAIN seqs[a] :
       \E n \in DOMAIN flat : i[n] = a /\ k[n] = b

LEMMA FlattenPlaces ==
  ASSUME NEW T, NEW seqs \in Seq(Seq(T))
  PROVE  \E i, k : IsPlacing(i, k, FlattenSeq(seqs), seqs)
<1> DEFINE U == Seq(T)
           P == {s \in Seq(U) : \E i, k : IsPlacing(i, k, FlattenSeq(s), s)}
<1>1. <<>> \in P
  <2> DEFINE e == [n \in {} |-> 0]
  <2>1. <<>> \in Seq(U) /\ FlattenSeq(<<>>) = <<>> /\ DOMAIN <<>> = {}
    BY FlattenEmpty
  <2>2. e \in [{} -> Nat]
    OBVIOUS
  <2> HIDE DEF e, U
  <2>3. IsPlacing(e, e, <<>>, <<>>)
    BY <2>1, <2>2 DEF IsPlacing
  <2> QED
    BY <2>1, <2>3
<1>2. ASSUME NEW s \in Seq(U), NEW x \in U, s \in P
      PROVE  Append(s, x) \in P
  <2> DEFINE flat == FlattenSeq(s)
             t == Append(s, x)
             more == FlattenSeq(t)
             f == Len(flat)
             m == Len(x)
             n == Len(s)
  <2>1. PICK i, k : IsPlacing(i, k, flat, s)
    BY <1>2
  <2>2. flat \in Seq(T) /\ x \in Seq(T) /\ s \in Seq(Seq(T))
    BY FlattenType
  <2>3. more = flat \o x
    BY <2>2, FlattenAppend
  <2>4. /\ f \in Nat /\ m \in Nat /\ n \in Nat
        /\ DOMAIN flat = 1..f /\ DOMAIN x = 1..m /\ DOMAIN s = 1..n
        /\ t \in Seq(U) /\ DOMAIN t = 1..n + 1 /\ t[n + 1] = x
        /\ \A a \in 1..n : t[a] = s[a]
    BY <2>2
  <2>5. /\ DOMAIN more = 1..f + m
        /\ \A c \in 1..f : more[c] = flat[c]
        /\ \A c \in 1..m : more[f + c] = x[c]
    BY <2>2, <2>3, ConcatIs
  <2> HIDE DEF flat, t, more, f, m, n, U
  <2>16. /\ i \in [1..f -> Nat] /\ k \in [1..f -> Nat]
         /\ \A c \in 1..f : /\ i[c] \in 1..n /\ k[c] \in DOMAIN s[i[c]]
                            /\ flat[c] = s[i[c]][k[c]]
         /\ \A c, d \in 1..f : i[c] = i[d] /\ k[c] = k[d] => c = d
         /\ \A a \in 1..n : \A b \in DOMAIN s[a] :
              \E c \in 1..f : i[c] = a /\ k[c] = b
    <3>0. 1..f = DOMAIN flat /\ 1..n = DOMAIN s
      BY <2>4
    <3>1. i \in [1..f -> Nat] /\ k \in [1..f -> Nat]
      BY <2>1, <3>0 DEF IsPlacing
    <3>2. ASSUME NEW c \in 1..f
          PROVE  /\ i[c] \in 1..n /\ k[c] \in DOMAIN s[i[c]]
                 /\ flat[c] = s[i[c]][k[c]]
      BY <2>1, <3>0 DEF IsPlacing
    <3>3. ASSUME NEW c \in 1..f, NEW d \in 1..f, i[c] = i[d], k[c] = k[d]
          PROVE  c = d
      BY <2>1, <3>0, <3>3 DEF IsPlacing
    <3>4. ASSUME NEW a \in 1..n, NEW b \in DOMAIN s[a]
          PROVE  \E c \in 1..f : i[c] = a /\ k[c] = b
      <4>1. a \in DOMAIN s
        BY <3>0
      <4>2. \E c \in DOMAIN flat : i[c] = a /\ k[c] = b
        BY <2>1, <4>1 DEF IsPlacing
      <4> QED
        BY <3>0, <4>2
    <3> QED
      BY <3>1, <3>2, <3>3, <3>4
  <2> DEFINE ii == [c \in 1..f + m |-> IF c <= f THEN i[c] ELSE n + 1]
             kk == [c \in 1..f + m |-> IF c <= f THEN k[c] ELSE c - f]
  <2>6. /\ \A c \in 1..f : /\ c \in 1..f + m /\ ii[c] = i[c] /\ kk[c] = k[c]
                           /\ i[c] \in 1..n /\ k[c] \in DOMAIN s[i[c]]
                           /\ flat[c] = s[i[c]][k[c]]
        /\ \A c \in 1..m : f + c \in 1..f + m /\ ii[f + c] = n + 1 /\ kk[f + c] = c
    <3>1. ASSUME NEW c \in 1..f
          PROVE  /\ c \in 1..f + m /\ ii[c] = i[c] /\ kk[c] = k[c]
                 /\ i[c] \in 1..n /\ k[c] \in DOMAIN s[i[c]]
                 /\ flat[c] = s[i[c]][k[c]]
      <4>1. c \in 1..f + m /\ c <= f
        BY <2>4
      <4> QED
        BY <2>16, <4>1
    <3>2. ASSUME NEW c \in 1..m
          PROVE  f + c \in 1..f + m /\ ii[f + c] = n + 1 /\ kk[f + c] = c
      <4>1. f + c \in 1..f + m /\ ~(f + c <= f) /\ (f + c) - f = c
        BY <2>4
      <4> QED
        BY <4>1
    <3> QED
      BY <3>1, <3>2
  <2>7. \A c \in 1..f + m : c \in 1..f \/ \E b \in 1..m : c = f + b
    <3> SUFFICES ASSUME NEW c \in 1..f + m, ~(c <= f)
                 PROVE  \E b \in 1..m : c = f + b
      BY <2>4
    <3>1. c - f \in 1..m /\ c = f + (c - f)
      BY <2>4
    <3> QED
      BY <3>1
  <2>8. \A c \in 1..n : c \in 1..n + 1 /\ c # n + 1
    BY <2>4
  <2>9. n + 1 \in 1..n + 1 /\ n + 1 \in Nat
    BY <2>4
  <2>10. ii \in [1..f + m -> Nat] /\ kk \in [1..f + m -> Nat]
    <3>1. \A c \in 1..f : i[c] \in Nat /\ k[c] \in Nat
      BY <2>16
    <3>2. \A c \in 1..m : c \in Nat
      OBVIOUS
    <3>3. \A c \in 1..f + m : ii[c] \in Nat /\ kk[c] \in Nat
      <4> SUFFICES ASSUME NEW c \in 1..f + m PROVE ii[c] \in Nat /\ kk[c] \in Nat
        OBVIOUS
      <4> HIDE DEF ii, kk
      <4>1. CASE c \in 1..f
        BY <2>6, <3>1, <4>1
      <4>2. CASE \E b \in 1..m : c = f + b
        <5>1. PICK b \in 1..m : c = f + b
          BY <4>2
        <5>2. ii[c] = n + 1 /\ kk[c] = b
          BY <2>6, <5>1
        <5> QED
          BY <2>9, <3>2, <5>2
      <4> QED
        BY <2>7, <4>1, <4>2
    <3>4. /\ ii = [c \in 1..f + m |-> ii[c]]
          /\ kk = [c \in 1..f + m |-> kk[c]]
      OBVIOUS
    <3> HIDE DEF ii, kk
    <3> QED
      BY <3>3, <3>4
  <2> HIDE DEF ii, kk
  <2>11. \A c \in 1..f + m : /\ ii[c] \in 1..n + 1 /\ kk[c] \in DOMAIN t[ii[c]]
                             /\ more[c] = t[ii[c]][kk[c]]
    <3> SUFFICES ASSUME NEW c \in 1..f + m
                 PROVE  ii[c] \in 1..n + 1 /\ kk[c] \in DOMAIN t[ii[c]] /\ more[c] = t[ii[c]][kk[c]]
      OBVIOUS
    <3>1. CASE c \in 1..f
      <4>1. ii[c] \in 1..n /\ t[ii[c]] = s[ii[c]] /\ kk[c] = k[c] /\ ii[c] = i[c]
        BY <2>4, <2>6, <3>1
      <4> QED
        BY <2>5, <2>6, <2>8, <3>1, <4>1
    <3>2. CASE c \notin 1..f
      <4>1. PICK b \in 1..m : c = f + b
        BY <2>7, <3>2
      <4>2. ii[c] = n + 1 /\ kk[c] = b /\ more[c] = x[b]
        BY <2>5, <2>6, <4>1
      <4> QED
        BY <2>4, <2>9, <4>2
    <3> QED
      BY <3>1, <3>2
  <2>12. ASSUME NEW c \in 1..f + m, NEW d \in 1..f + m, ii[c] = ii[d], kk[c] = kk[d]
         PROVE  c = d
    <3>1. CASE c \in 1..f /\ d \in 1..f
      BY <2>6, <2>12, <2>16, <3>1
    <3>2. CASE c \in 1..f /\ d \notin 1..f
      BY <2>6, <2>7, <2>8, <2>12, <3>2
    <3>3. CASE c \notin 1..f /\ d \in 1..f
      BY <2>6, <2>7, <2>8, <2>12, <3>3
    <3>4. CASE c \notin 1..f /\ d \notin 1..f
      <4>1. PICK b \in 1..m, e \in 1..m : c = f + b /\ d = f + e
        BY <2>7, <3>4
      <4>2. kk[c] = b /\ kk[d] = e
        BY <2>6, <4>1
      <4> QED
        BY <2>12, <4>1, <4>2
    <3> QED
      BY <3>1, <3>2, <3>3, <3>4
  <2>13. ASSUME NEW a \in 1..n + 1, NEW b \in DOMAIN t[a]
         PROVE  \E c \in 1..f + m : ii[c] = a /\ kk[c] = b
    <3>1. CASE a \in 1..n
      <4>1. b \in DOMAIN s[a]
        BY <2>4, <3>1
      <4>2. PICK c \in 1..f : i[c] = a /\ k[c] = b
        BY <2>16, <3>1, <4>1
      <4> QED
        BY <2>6, <4>2
    <3>2. CASE a = n + 1
      <4>1. b \in 1..m
        BY <2>4, <3>2
      <4> QED
        BY <2>6, <3>2, <4>1
    <3> QED
      BY <2>4, <3>1, <3>2
  <2>14. IsPlacing(ii, kk, more, t)
    <3>1. DOMAIN more = 1..f + m /\ DOMAIN t = 1..n + 1
      BY <2>4, <2>5
    <3>2. ii \in [DOMAIN more -> Nat] /\ kk \in [DOMAIN more -> Nat]
      BY <2>10, <3>1
    <3>3. \A c \in DOMAIN more : /\ ii[c] \in DOMAIN t /\ kk[c] \in DOMAIN t[ii[c]]
                                 /\ more[c] = t[ii[c]][kk[c]]
      BY <2>11, <3>1
    <3>4. \A c, d \in DOMAIN more : ii[c] = ii[d] /\ kk[c] = kk[d] => c = d
      BY <2>12, <3>1
    <3>5. \A a \in DOMAIN t : \A b \in DOMAIN t[a] :
            \E c \in DOMAIN more : ii[c] = a /\ kk[c] = b
      BY <2>13, <3>1
    <3> QED
      BY <3>2, <3>3, <3>4, <3>5 DEF IsPlacing
  <2>15. t \in Seq(U)
    BY <2>4
  <2> QED
    BY <2>14, <2>15 DEF t, more
<1> HIDE DEF P
<1>3. \A s \in Seq(U) : s \in P
  BY <1>1, <1>2, SequenceInduction
<1> QED
  BY <1>3 DEF P
=============================================================================
