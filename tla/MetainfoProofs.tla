--------------------------- MODULE MetainfoProofs ---------------------------
(***************************************************************************)
(* Proofs about Bencode and Metainfo, for all trees of any depth.           *)
(*                                                                         *)
(* In front are facts about the data: that Encode and HasEmpty are what     *)
(* their definitions say (Recursion, by the depth of the trees), and where  *)
(* the text of an item stands in that of its list or dictionary.            *)
(*                                                                         *)
(* DecodeInv says where the decoder is: each open list or dictionary is a   *)
(* node of a path from the document down (Trail), its frame holds the items *)
(* that are done (Holds), and the next byte read is the one where the rest  *)
(* of the document begins (Pending, Filling, Returned); or all that came    *)
(* has been read, and there are zeros (Past).  What is decoded is therefore *)
(* the document, and where that did not come whole nothing is decoded.      *)
(*                                                                         *)
(* FieldInv says what the loops over the entries have done at each of them: *)
(* each field is that of the entry with its key if there was one, and       *)
(* filled counts the necessary ones (FileRead, ResponseRead).               *)
(***************************************************************************)
EXTENDS Metainfo, SequenceTheorems, FiniteSetTheorems, TLAPS

\* Induction up to n, as a fact about sets of numbers.
LEMMA Climb ==
  ASSUME NEW n \in Nat, NEW G, 0 \in G, \A k \in 0 .. n - 1 : k \in G => k + 1 \in G
  PROVE  n \in G
<1> SUFFICES ASSUME n \notin G PROVE FALSE  OBVIOUS
<1> DEFINE B == (0 .. n) \ G
<1>1. IsFiniteSet(B) /\ n \in B
  <2>1. IsFiniteSet(0 .. n) /\ B \subseteq 0 .. n  BY FS_Interval
  <2> QED  BY <2>1, FS_Subset
<1>2. /\ IsFiniteSet(B \ {n}) /\ Cardinality(B) \in Nat
      /\ Cardinality(B \ {n}) = Cardinality(B) - 1
  BY <1>1, FS_RemoveElement, FS_CardinalityType
<1> DEFINE f == [b \in B |-> b - 1]
<1>3. f \in [B -> B \ {n}]
  <2>1. ASSUME NEW b \in B PROVE b - 1 \in B \ {n}
    <3>1. b \in 1 .. n  OBVIOUS
    <3>2. b - 1 \in 0 .. n - 1 /\ (b - 1) + 1 = b  BY <3>1
    <3> QED  BY <3>2
  <2> QED  BY <2>1
<1>4. PICK x, y \in B : x # y /\ f[x] = f[y]
  <2> HIDE DEF f, B
  <2>1. Cardinality(B \ {n}) < Cardinality(B)  BY <1>2
  <2> QED  BY <1>1, <1>2, <1>3, <2>1, FS_PigeonHole
<1> QED  BY <1>4
-----------------------------------------------------------------------------
(***************************************************************************)
(* Recursion over the trees.                                               *)
(***************************************************************************)

\* f is what B says of every tree less deep than k.
Obeys(f, B, k) == \A n \in Nodes : Depth[n] < k => f[n] = B[n][f]

\* B says of a tree what follows from less deep ones.
Local(V, B) ==
  \A n \in Nodes : \A f, g \in [Nodes -> V] :
    (\A m \in Nodes : Depth[m] < Depth[n] => f[m] = g[m]) => B[n][f] = B[n][g]

Agree(f, g, k) == \A n \in Nodes : Depth[n] < k => f[n] = g[n]

\* It says one thing only.
LEMMA Unique ==
  ASSUME NEW V, NEW B, Local(V, B), NEW k \in Nat,
         NEW f \in [Nodes -> V], NEW g \in [Nodes -> V], Obeys(f, B, k), Obeys(g, B, k)
  PROVE  Agree(f, g, k)
<1> DEFINE G == {l \in 0 .. k : \A n \in Nodes : Depth[n] < l => f[n] = g[n]}
<1>1. 0 \in G  BY BencodeAssumption
<1>2. ASSUME NEW l \in 0 .. k - 1, l \in G PROVE l + 1 \in G
  <2>1. ASSUME NEW n \in Nodes, Depth[n] < l + 1 PROVE f[n] = g[n]
    <3>1. Depth[n] \in Nat /\ Depth[n] <= l /\ Depth[n] < k  BY <2>1, BencodeAssumption
    <3>2. \A m \in Nodes : Depth[m] < Depth[n] => f[m] = g[m]
      BY <1>2, <3>1, BencodeAssumption
    <3>3. B[n][f] = B[n][g]  BY <3>2 DEF Local
    <3> QED  BY <3>1, <3>3 DEF Obeys
  <2> QED  BY <2>1
<1>3. k \in G
  <2> HIDE DEF G
  <2> QED  BY <1>1, <1>2, Climb
<1> QED  BY <1>3 DEF Agree

\* There are trees of every depth for which it can be had.
LEMMA UpTo ==
  ASSUME NEW V, NEW v \in V, NEW B \in [Nodes -> [[Nodes -> V] -> V]], Local(V, B), NEW k \in Nat
  PROVE  \E f \in [Nodes -> V] : Obeys(f, B, k)
<1> DEFINE G == {l \in 0 .. k : \E f \in [Nodes -> V] : Obeys(f, B, l)}
<1>1. 0 \in G
  <2> DEFINE f == [n \in Nodes |-> v]
  <2>1. f \in [Nodes -> V]  OBVIOUS
  <2>2. Obeys(f, B, 0)  BY BencodeAssumption DEF Obeys
  <2> QED  BY <2>1, <2>2
<1>2. ASSUME NEW l \in 0 .. k - 1, l \in G PROVE l + 1 \in G
  <2>1. PICK f \in [Nodes -> V] : Obeys(f, B, l)  BY <1>2
  <2> DEFINE g == [n \in Nodes |-> B[n][f]]
  <2>2. g \in [Nodes -> V]  OBVIOUS
  <2>3. ASSUME NEW n \in Nodes, Depth[n] < l + 1 PROVE g[n] = B[n][g]
    <3>1. \A m \in Nodes : Depth[m] < Depth[n] => f[m] = g[m]
      BY <2>1, <2>3, BencodeAssumption DEF Obeys
    <3> HIDE DEF g
    <3>2. B[n][f] = B[n][g]  BY <2>2, <3>1 DEF Local
    <3>3. g[n] = B[n][f]  BY DEF g
    <3> QED  BY <3>2, <3>3
  <2> HIDE DEF g
  <2>4. Obeys(g, B, l + 1)  BY <2>3 DEF Obeys
  <2> QED  BY <2>2, <2>4
<1>3. k \in G
  <2> HIDE DEF G
  <2> QED  BY <1>1, <1>2, Climb
<1> QED  BY <1>3

Solves(f, V, B) == f \in [Nodes -> V] /\ \A n \in Nodes : f[n] = B[n][f]

\* A definition by recursion over the trees defines something.
LEMMA Recursion ==
  ASSUME NEW V, NEW v \in V, NEW B \in [Nodes -> [[Nodes -> V] -> V]], Local(V, B)
  PROVE  \E f : Solves(f, V, B)
<1> DEFINE F == [k \in Nat |-> CHOOSE f \in [Nodes -> V] : Obeys(f, B, k)]
<1>1. ASSUME NEW k \in Nat PROVE F[k] \in [Nodes -> V] /\ Obeys(F[k], B, k)
  BY UpTo
<1> HIDE DEF F
<1> DEFINE f == [n \in Nodes |-> F[Depth[n] + 1][n]]
<1>2. ASSUME NEW n \in Nodes PROVE Depth[n] \in Nat /\ Depth[n] + 1 \in Nat
  BY BencodeAssumption
<1>3. f \in [Nodes -> V]
  <2>1. ASSUME NEW n \in Nodes PROVE F[Depth[n] + 1][n] \in V  BY <1>1, <1>2
  <2> QED  BY <2>1
<1>4. ASSUME NEW n \in Nodes PROVE f[n] = B[n][f]
  <2> DEFINE g == F[Depth[n] + 1]
  <2>1. g \in [Nodes -> V] /\ Obeys(g, B, Depth[n] + 1)  BY <1>1, <1>2
  <2>2. ASSUME NEW m \in Nodes, Depth[m] < Depth[n] PROVE g[m] = f[m]
    <3> DEFINE h == F[Depth[m] + 1]
    <3>1. h \in [Nodes -> V] /\ Obeys(h, B, Depth[m] + 1)  BY <1>1, <1>2
    <3>2. Obeys(g, B, Depth[m] + 1)
      <4> HIDE DEF g
      <4> QED  BY <1>2, <2>1, <2>2 DEF Obeys
    <3>3. f[m] = h[m]  OBVIOUS
    <3> HIDE DEF g, h, f
    <3>4. \A x \in Nodes : Depth[x] < Depth[m] + 1 => g[x] = h[x]
      <4> DEFINE k == Depth[m] + 1
      <4>1. k \in Nat /\ Obeys(g, B, k) /\ Obeys(h, B, k)  BY <1>2, <3>1, <3>2
      <4> HIDE DEF k
      <4>2. Agree(g, h, k)  BY <2>1, <3>1, <4>1, Unique
      <4> QED  BY <4>2 DEF k, Agree
    <3> QED  BY <1>2, <3>3, <3>4
  <2>3. f[n] = g[n]  OBVIOUS
  <2> HIDE DEF f, g
  <2>4. B[n][g] = B[n][f]  BY <1>3, <2>1, <2>2 DEF Local
  <2>5. g[n] = B[n][g]  BY <1>2, <2>1 DEF Obeys
  <2> QED  BY <2>3, <2>4, <2>5
<1> HIDE DEF f
<1> QED  BY <1>3, <1>4 DEF Solves
-----------------------------------------------------------------------------
(***************************************************************************)
(* Concatenation.                                                          *)
(***************************************************************************)

\* What a byte can be; that each of the strings is in STRING is not known to the
\* provers.
Letter == STRING \cup {"i", "l", "d", "e", ":", "zero"} \cup DOMAIN Value

Bytes == Seq(Letter)

LEMMA LenNat == \A s \in Bytes : Len(s) \in Nat
  BY DEF Bytes

LEMMA SeqWider ==
  ASSUME NEW S, NEW T, S \subseteq T, NEW s \in Seq(S)
  PROVE  s \in Seq(T)
  OBVIOUS

LEMMA PartOf ==
  ASSUME NEW s \in Bytes, NEW m \in Nat \ {0}, NEW n \in Nat, m <= n + 1, n <= Len(s)
  PROVE  /\ SubSeq(s, m, n) \in Bytes /\ Len(SubSeq(s, m, n)) = n - m + 1
         /\ \A x \in 1 .. n - m + 1 : SubSeq(s, m, n)[x] = s[m + x - 1]
<1>1. \A x \in m .. n : s[x] \in Letter  BY LenNat DEF Bytes
<1>2. /\ SubSeq(s, m, n) \in Seq(Letter)
      /\ Len(SubSeq(s, m, n)) = IF m <= n THEN n - m + 1 ELSE 0
      /\ \A x \in 1 .. n - m + 1 : SubSeq(s, m, n)[x] = s[m + x - 1]
  BY <1>1, SubSeqProperties
<1>3. Len(SubSeq(s, m, n)) = n - m + 1  BY <1>2
<1> QED  BY <1>2, <1>3 DEF Bytes

\* s stands in t after the first p bytes.
Stands(s, t, p) == /\ p + Len(s) <= Len(t)
                   /\ \A x \in 1 .. Len(s) : t[p + x] = s[x]

LEMMA StandsFirst ==
  ASSUME NEW s \in Bytes, NEW t \in Bytes
  PROVE  s \o t \in Bytes /\ Len(s \o t) = Len(s) + Len(t) /\ Stands(s, s \o t, 0)
  BY DEF Bytes, Stands

LEMMA StandsLast ==
  ASSUME NEW s \in Bytes, NEW t \in Bytes
  PROVE  Stands(t, s \o t, Len(s))
  BY DEF Bytes, Stands

LEMMA StandsWithin ==
  ASSUME NEW r \in Bytes, NEW s \in Bytes, NEW t \in Bytes, NEW p \in Nat, NEW q \in Nat,
         Stands(r, s, p), Stands(s, t, q)
  PROVE  Stands(r, t, q + p)
<1>1. Len(r) \in Nat /\ Len(s) \in Nat /\ Len(t) \in Nat  BY DEF Bytes
<1>2. (q + p) + Len(r) <= Len(t)  BY <1>1 DEF Stands
<1>3. ASSUME NEW x \in 1 .. Len(r) PROVE t[(q + p) + x] = r[x]
  <2>1. p + x \in 1 .. Len(s) /\ s[p + x] = r[x]  BY <1>1 DEF Stands
  <2>2. t[q + (p + x)] = s[p + x]  BY <2>1 DEF Stands
  <2>3. q + (p + x) = (q + p) + x  BY <1>1
  <2> QED  BY <2>1, <2>2, <2>3
<1> QED  BY <1>2, <1>3 DEF Stands

\* f gives the concatenation of the first members of q.
Joins(f, q, n) == /\ f \in [0 .. n -> Bytes] /\ f[0] = <<>>
                  /\ \A k \in 1 .. n : f[k] = f[k - 1] \o q[k]

LEMMA JoinsExist ==
  ASSUME NEW n \in Nat, NEW q \in [1 .. n -> Bytes]
  PROVE  \E f : Joins(f, q, n)
<1> DEFINE G == {k \in 0 .. n : \E f : Joins(f, q, k)}
<1>1. 0 \in G
  <2> DEFINE f == [k \in 0 .. 0 |-> <<>>]
  <2>1. <<>> \in Bytes  BY DEF Bytes
  <2>2. Joins(f, q, 0)  BY <2>1 DEF Joins
  <2> QED  BY <2>2
<1>2. ASSUME NEW k \in 0 .. n - 1, k \in G PROVE k + 1 \in G
  <2>1. PICK f : Joins(f, q, k)  BY <1>2
  <2>2. f \in [0 .. k -> Bytes] /\ f[0] = <<>> /\ \A l \in 1 .. k : f[l] = f[l - 1] \o q[l]
    BY <2>1 DEF Joins
  <2> DEFINE g == [l \in 0 .. k + 1 |-> IF l = k + 1 THEN f[k] \o q[k + 1] ELSE f[l]]
  <2>3. f[k] \o q[k + 1] \in Bytes
    <3>1. f[k] \in Bytes /\ q[k + 1] \in Bytes  BY <2>2
    <3> QED  BY <3>1, StandsFirst
  <2>4. g \in [0 .. k + 1 -> Bytes]
    <3>1. ASSUME NEW l \in 0 .. k + 1 PROVE g[l] \in Bytes
      <4>1. l = k + 1 \/ l \in 0 .. k  OBVIOUS
      <4> QED  BY <2>2, <2>3, <4>1
    <3> QED  BY <3>1
  <2>5. g[k + 1] = f[k] \o q[k + 1] /\ \A l \in 0 .. k : g[l] = f[l]  OBVIOUS
  <2> HIDE DEF g
  <2>6. ASSUME NEW l \in 1 .. k + 1 PROVE g[l] = g[l - 1] \o q[l]
    <3>1. CASE l = k + 1
      <4>1. l - 1 = k /\ g[k] = f[k]  BY <2>5, <3>1
      <4> QED  BY <2>5, <3>1, <4>1
    <3>2. CASE l # k + 1
      <4>1. l \in 1 .. k /\ l \in 0 .. k /\ l - 1 \in 0 .. k  BY <3>2
      <4> QED  BY <2>2, <2>5, <4>1
    <3> QED  BY <3>1, <3>2
  <2>7. g[0] = <<>>  BY <2>2, <2>5
  <2>8. Joins(g, q, k + 1)  BY <2>4, <2>6, <2>7 DEF Joins
  <2> QED  BY <2>8
<1>3. n \in G
  <2> HIDE DEF G
  <2> QED  BY <1>1, <1>2, Climb
<1> QED  BY <1>3

\* That is what FlattenSeq computes.
LEMMA FlattenJoins ==
  ASSUME NEW n \in Nat, NEW q \in [1 .. n -> Bytes], NEW f, Joins(f, q, n)
  PROVE  FlattenSeq(q) = f[n]
<1>1. Len(q) = n  BY DEF Bytes
<1>2. CASE n = 0
  <2>1. q = <<>>  BY <1>1, <1>2
  <2>2. FlattenSeq(q) = q  BY <1>1, <1>2 DEF FlattenSeq
  <2> QED  BY <1>2, <2>1, <2>2 DEF Joins
<1>3. CASE n # 0
  <2> DEFINE Step(g) == [k \in 1 .. n |-> IF k = 1 THEN q[k] ELSE g[k - 1] \o q[k]]
             flatten == CHOOSE g : g = Step(g)
  <2>1. FlattenSeq(q) = flatten[n]  BY <1>1, <1>3 DEF FlattenSeq
  <2>2. f[0] = <<>> /\ \A k \in 1 .. n : f[k] = f[k - 1] \o q[k] /\ f[k] \in Bytes
    BY DEF Joins
  <2>3. f[1] = q[1]
    <3>1. f[1] = <<>> \o q[1] /\ q[1] \in Bytes
      <4>1. 1 \in 1 .. n /\ 1 - 1 = 0  BY <1>3
      <4> QED  BY <2>2, <4>1
    <3> QED  BY <3>1 DEF Bytes
  <2>4. \E g : g = Step(g)
    <3> DEFINE g == [k \in 1 .. n |-> f[k]]
    <3>1. ASSUME NEW k \in 1 .. n PROVE g[k] = Step(g)[k]
      <4>1. CASE k = 1  BY <2>3, <4>1
      <4>2. CASE k # 1
        <5>1. k - 1 \in 1 .. n  BY <4>2
        <5>2. g[k] = f[k] /\ g[k - 1] = f[k - 1]  BY <5>1
        <5> QED  BY <2>2, <4>2, <5>2
      <4> QED  BY <4>1, <4>2
    <3>2. Step(g) = [k \in 1 .. n |-> Step(g)[k]]  OBVIOUS
    <3>3. g = [k \in 1 .. n |-> g[k]]  OBVIOUS
    <3> HIDE DEF g, Step
    <3>4. g = Step(g)  BY <3>1, <3>2, <3>3
    <3> QED  BY <3>4
  <2>5. flatten = Step(flatten)
    <3> HIDE DEF Step
    <3> QED  BY <2>4
  <2> HIDE DEF flatten
  <2>6. \A k \in 1 .. n : flatten[k] = IF k = 1 THEN q[k] ELSE flatten[k - 1] \o q[k]
    BY <2>5
  <2> DEFINE G == {k \in 0 .. n : k = 0 \/ flatten[k] = f[k]}
  <2>7. 0 \in G  OBVIOUS
  <2>8. ASSUME NEW k \in 0 .. n - 1, k \in G PROVE k + 1 \in G
    <3>1. k + 1 \in 1 .. n /\ (k + 1) - 1 = k  OBVIOUS
    <3>2. CASE k = 0
      <4>1. flatten[1] = q[1]  BY <2>6, <3>1, <3>2
      <4> QED  BY <2>3, <3>1, <3>2, <4>1
    <3>3. CASE k # 0
      <4>1. flatten[k] = f[k] /\ k + 1 # 1  BY <2>8, <3>3
      <4>2. flatten[k + 1] = flatten[k] \o q[k + 1]  BY <2>6, <3>1, <4>1
      <4>3. f[k + 1] = f[k] \o q[k + 1]  BY <2>2, <3>1
      <4>4. flatten[k + 1] = f[k + 1]
        <5> HIDE DEF G
        <5> QED  BY <4>1, <4>2, <4>3
      <4> QED  BY <3>1, <4>4
    <3> QED  BY <3>2, <3>3
  <2>9. n \in G
    <3> HIDE DEF G
    <3> QED  BY <2>7, <2>8, Climb
  <2> QED  BY <1>3, <2>1, <2>9
<1> QED  BY <1>2, <1>3

\* What is joined first stays first.
LEMMA JoinsGrow ==
  ASSUME NEW n \in Nat, NEW q \in [1 .. n -> Bytes], NEW f, Joins(f, q, n), NEW k \in 0 .. n
  PROVE  Stands(f[k], f[n], 0)
<1> DEFINE G == {l \in 0 .. n - k : Stands(f[k], f[k + l], 0)}
<1>0. \A l \in 0 .. n : f[l] \in Bytes  BY DEF Joins
<1>1. 0 \in G
  <2>1. Len(f[k]) \in Nat /\ k + 0 = k  BY <1>0 DEF Bytes
  <2>2. Stands(f[k], f[k], 0)  BY <2>1 DEF Stands
  <2> QED  BY <2>1, <2>2
<1>2. ASSUME NEW l \in 0 .. (n - k) - 1, l \in G PROVE l + 1 \in G
  <2>1. k + l \in 0 .. n /\ k + (l + 1) \in 1 .. n /\ (k + (l + 1)) - 1 = k + l /\ k + (l + 1) \in 0 .. n
    OBVIOUS
  <2>2. f[k + (l + 1)] = f[k + l] \o q[k + (l + 1)]  BY <2>1 DEF Joins
  <2>3. f[k] \in Bytes /\ f[k + l] \in Bytes /\ f[k + (l + 1)] \in Bytes /\ q[k + (l + 1)] \in Bytes
    BY <1>0, <2>1
  <2>4. Stands(f[k + l], f[k + (l + 1)], 0)  BY <2>2, <2>3, StandsFirst
  <2>5. Stands(f[k], f[k + l], 0)  BY <1>2
  <2>6. Stands(f[k], f[k + (l + 1)], 0)
    <3> DEFINE r == f[k]
               s == f[k + l]
               t == f[k + (l + 1)]
    <3>1. r \in Bytes /\ s \in Bytes /\ t \in Bytes /\ Stands(r, s, 0) /\ Stands(s, t, 0)
      BY <2>3, <2>4, <2>5
    <3> HIDE DEF r, s, t
    <3>2. Stands(r, t, 0 + 0)  BY <3>1, StandsWithin
    <3> QED  BY <3>2 DEF r, t
  <2> QED  BY <2>6
<1>3. n - k \in G
  <2>1. n - k \in Nat  OBVIOUS
  <2> HIDE DEF G
  <2> QED  BY <1>1, <1>2, <2>1, Climb
<1>4. k + (n - k) = n  OBVIOUS
<1> QED  BY <1>3, <1>4

\* Each of the parts stands behind those before it.
LEMMA PartStands ==
  ASSUME NEW n \in Nat, NEW q \in [1 .. n -> Bytes], NEW f, Joins(f, q, n), NEW k \in 1 .. n
  PROVE  /\ Len(f[k]) = Len(f[k - 1]) + Len(q[k])
         /\ Stands(q[k], f[n], Len(f[k - 1]))
<1>1. k \in 0 .. n /\ k - 1 \in 0 .. n /\ n \in 0 .. n  OBVIOUS
<1>2. f[k] \in Bytes /\ f[k - 1] \in Bytes /\ f[n] \in Bytes /\ q[k] \in Bytes  BY <1>1 DEF Joins
<1>3. f[k] = f[k - 1] \o q[k]  BY DEF Joins
<1>4. Stands(f[k], f[n], 0)  BY <1>1, JoinsGrow
<1> DEFINE r == q[k]
           p == f[k - 1]
           s == f[k]
           t == f[n]
<1>5. /\ r \in Bytes /\ p \in Bytes /\ s \in Bytes /\ t \in Bytes
      /\ s = p \o r /\ Stands(s, t, 0)
  BY <1>2, <1>3, <1>4
<1> HIDE DEF r, p, s, t
<1>6. Len(s) = Len(p) + Len(r) /\ Stands(r, s, Len(p))  BY <1>5, StandsFirst, StandsLast
<1>7. Len(p) \in Nat /\ 0 + Len(p) = Len(p)  BY <1>5 DEF Bytes
<1>8. Stands(r, t, 0 + Len(p))  BY <1>5, <1>6, <1>7, StandsWithin
<1>9. Stands(r, t, Len(p))  BY <1>7, <1>8
<1> QED  BY <1>6, <1>9 DEF r, p, s, t
-----------------------------------------------------------------------------
(***************************************************************************)
(* The encoding of a tree.                                                 *)
(***************************************************************************)

\* A node is of one kind.
LEMMA Kinds ==
  ASSUME NEW n \in Nodes
  PROVE  \/ /\ IsStr(n) /\ ~IsInt(n) /\ ~IsList(n) /\ ~IsDict(n)
            /\ n = [str |-> n.str] /\ n.str \in Bytes
            /\ Numeral(Len(n.str)) \in Digits /\ Value[Numeral(Len(n.str))] = Len(n.str)
         \/ /\ ~IsStr(n) /\ IsInt(n) /\ ~IsList(n) /\ ~IsDict(n)
            /\ n = [int |-> n.int] /\ n.int \in DOMAIN Value
         \/ /\ ~IsStr(n) /\ ~IsInt(n) /\ IsList(n) /\ ~IsDict(n)
            /\ n = [list |-> n.list] /\ n.list \in Seq(Nodes) /\ Len(n.list) <= MaxItems
            /\ \A k \in 1 .. Len(n.list) : n.list[k] \in Nodes /\ Depth[n.list[k]] < Depth[n]
         \/ /\ ~IsStr(n) /\ ~IsInt(n) /\ ~IsList(n) /\ IsDict(n)
            /\ n = [dict |-> n.dict] /\ n.dict \in Seq([key : Nodes, val : Nodes])
            /\ Len(n.dict) <= MaxItems
            /\ \A k \in 1 .. Len(n.dict) :
                 /\ n.dict[k] = [key |-> n.dict[k].key, val |-> n.dict[k].val]
                 /\ n.dict[k].key \in Nodes /\ IsStr(n.dict[k].key)
                 /\ Depth[n.dict[k].key] < Depth[n]
                 /\ n.dict[k].val \in Nodes /\ Depth[n.dict[k].val] < Depth[n]
<1>1. WellFormed(n)  BY BencodeAssumption
<1> USE DEF IsStr, IsInt, IsList, IsDict, Bytes
<1>2. CASE n \in [str : Seq(STRING)] /\ \E t \in Digits : Value[t] = Len(n.str)
  <2>1. Value[Numeral(Len(n.str))] = Len(n.str) /\ Numeral(Len(n.str)) \in DOMAIN Value
    BY <1>2 DEF Numeral, Digits
  <2>2. Numeral(Len(n.str)) # "-1"
    <3>1. Value["-1"] = -1  BY DEF Value
    <3>2. Len(n.str) \in Nat  BY <1>2
    <3> QED  BY <2>1, <3>1, <3>2
  <2>3. n.str \in Seq(Letter)
    <3>1. n.str \in Seq(STRING) /\ STRING \subseteq Letter  BY <1>2 DEF Letter
    <3> QED  BY <3>1, SeqWider
  <2> QED  BY <1>2, <2>1, <2>2, <2>3 DEF Digits
<1>3. CASE n \in [int : DOMAIN Value]
  BY <1>3
<1>4. CASE /\ n \in [list : Seq(Nodes)] /\ Len(n.list) <= MaxItems
           /\ \A k \in 1 .. Len(n.list) : Depth[n.list[k]] < Depth[n]
  BY <1>4
<1>5. CASE /\ n \in [dict : Seq([key : Nodes, val : Nodes])] /\ Len(n.dict) <= MaxItems
           /\ \A k \in 1 .. Len(n.dict) :
                 /\ IsStr(n.dict[k].key) /\ Depth[n.dict[k].key] < Depth[n]
                 /\ Depth[n.dict[k].val] < Depth[n]
  <2>1. ASSUME NEW k \in 1 .. Len(n.dict) PROVE n.dict[k] \in [key : Nodes, val : Nodes]
    <3> DEFINE R == [key : Nodes, val : Nodes]
    <3>1. n.dict \in Seq(R)  BY <1>5
    <3> HIDE DEF R
    <3>2. n.dict[k] \in R  BY <3>1
    <3> QED  BY <3>2 DEF R
  <2> QED  BY <1>5, <2>1
<1> QED  BY <1>1, <1>2, <1>3, <1>4, <1>5 DEF WellFormed

\* How many items are in a list or a dictionary.
Width(n) == Len(ItemsOf(n))

\* The text of one, if f gives those of its nodes.
TextBy(f, n, k) == IF IsList(n) THEN f[n.list[k]] ELSE f[n.dict[k].key] \o f[n.dict[k].val]

TextsBy(f, n) == [k \in 1 .. Width(n) |-> TextBy(f, n, k)]

\* The items of a node are joined.
LEMMA EncodingForm ==
  ASSUME NEW f, NEW n \in Nodes, IsList(n) \/ IsDict(n)
  PROVE  /\ Width(n) \in Nat
         /\ Encoding(n, f) = (<<IF IsList(n) THEN "l" ELSE "d">> \o FlattenSeq(TextsBy(f, n))) \o <<"e">>
<1>1. CASE IsList(n)
  <2>1. ~IsStr(n) /\ ~IsInt(n) /\ ~IsDict(n)  BY <1>1, Kinds
  <2>2. n.list \in Seq(Nodes) /\ \A k \in 1 .. Len(n.list) : n.list[k] \in Nodes  BY <1>1, Kinds
  <2>3. Width(n) = Len(n.list) /\ Width(n) \in Nat  BY <1>1, <2>2 DEF Width, ItemsOf
  <2>4. TextsBy(f, n) = [k \in 1 .. Len(n.list) |-> f[n.list[k]]]
    BY <1>1, <2>3 DEF TextsBy, TextBy
  <2>5. Encoding(n, f) = <<"l">> \o FlattenSeq([k \in 1 .. Len(n.list) |-> f[n.list[k]]]) \o <<"e">>
    BY <1>1, <2>1 DEF Encoding
  <2> QED  BY <1>1, <2>3, <2>4, <2>5
<1>2. CASE IsDict(n)
  <2>1. ~IsStr(n) /\ ~IsInt(n) /\ ~IsList(n)  BY <1>2, Kinds
  <2>2. /\ n.dict \in Seq([key : Nodes, val : Nodes])
        /\ \A k \in 1 .. Len(n.dict) : n.dict[k].key \in Nodes /\ n.dict[k].val \in Nodes
    BY <1>2, Kinds
  <2>3. Width(n) = Len(n.dict) /\ Width(n) \in Nat
    <3>1. ItemsOf(n) = n.dict  BY <2>1 DEF ItemsOf
    <3> QED  BY <2>2, <3>1, LenProperties DEF Width
  <2>4. TextsBy(f, n) = [k \in 1 .. Len(n.dict) |-> f[n.dict[k].key] \o f[n.dict[k].val]]
    BY <2>1, <2>3 DEF TextsBy, TextBy
  <2>5. Encoding(n, f) = <<"d">> \o FlattenSeq([k \in 1 .. Len(n.dict) |->
                                       f[n.dict[k].key] \o f[n.dict[k].val]]) \o <<"e">>
    BY <1>2, <2>1 DEF Encoding
  <2> QED  BY <2>1, <2>3, <2>4, <2>5
<1> QED  BY <1>1, <1>2

LEMMA TextsType ==
  ASSUME NEW f \in [Nodes -> Bytes], NEW n \in Nodes, IsList(n) \/ IsDict(n)
  PROVE  TextsBy(f, n) \in [1 .. Width(n) -> Bytes]
<1>1. ASSUME NEW k \in 1 .. Width(n) PROVE TextBy(f, n, k) \in Bytes
  <2>1. CASE IsList(n)
    <3>1. n.list[k] \in Nodes  BY <2>1, Kinds DEF Width, ItemsOf
    <3> QED  BY <2>1, <3>1 DEF TextBy
  <2>2. CASE ~IsList(n)
    <3>1. n.dict[k].key \in Nodes /\ n.dict[k].val \in Nodes
      BY <2>2, Kinds DEF Width, ItemsOf
    <3> QED  BY <2>2, <3>1, StandsFirst DEF TextBy
  <2> QED  BY <2>1, <2>2
<1> QED  BY <1>1 DEF TextsBy

\* It depends on less deep nodes only.
LEMMA EncodingLocal ==
  ASSUME NEW n \in Nodes, NEW f, NEW g, \A m \in Nodes : Depth[m] < Depth[n] => f[m] = g[m]
  PROVE  Encoding(n, f) = Encoding(n, g)
<1>1. CASE IsStr(n) \/ IsInt(n)
  BY <1>1, Kinds DEF Encoding
<1>2. CASE IsList(n) \/ IsDict(n)
  <2>1. ASSUME NEW k \in 1 .. Width(n) PROVE TextBy(f, n, k) = TextBy(g, n, k)
    <3>1. CASE IsList(n)
      <4>1. n.list[k] \in Nodes /\ Depth[n.list[k]] < Depth[n]
        BY <3>1, Kinds DEF Width, ItemsOf
      <4> QED  BY <3>1, <4>1 DEF TextBy
    <3>2. CASE ~IsList(n)
      <4>1. /\ n.dict[k].key \in Nodes /\ Depth[n.dict[k].key] < Depth[n]
            /\ n.dict[k].val \in Nodes /\ Depth[n.dict[k].val] < Depth[n]
        BY <1>2, <3>2, Kinds DEF Width, ItemsOf
      <4> QED  BY <3>2, <4>1 DEF TextBy
    <3> QED  BY <3>1, <3>2
  <2>2. TextsBy(f, n) = TextsBy(g, n)  BY <2>1 DEF TextsBy
  <2> QED  BY <1>2, <2>2, EncodingForm
<1> QED  BY <1>1, <1>2, Kinds

LEMMA EncodingType ==
  ASSUME NEW f \in [Nodes -> Bytes], NEW n \in Nodes
  PROVE  Encoding(n, f) \in Bytes
<1>1. CASE IsStr(n)
  <2>1. n.str \in Bytes /\ Numeral(Len(n.str)) \in Digits  BY <1>1, Kinds
  <2>2. Numeral(Len(n.str)) \in Letter /\ ":" \in Letter  BY <2>1 DEF Digits, Letter
  <2>3. <<Numeral(Len(n.str)), ":">> \in Bytes  BY <2>2 DEF Bytes
  <2>4. Encoding(n, f) = <<Numeral(Len(n.str)), ":">> \o n.str
    <3>1. ~IsInt(n) /\ ~IsList(n) /\ ~IsDict(n)  BY <1>1, Kinds
    <3> QED  BY <1>1, <3>1 DEF Encoding
  <2> QED  BY <2>1, <2>3, <2>4, StandsFirst
<1>2. CASE IsInt(n)
  <2>1. n.int \in DOMAIN Value /\ ~IsStr(n) /\ ~IsList(n) /\ ~IsDict(n)  BY <1>2, Kinds
  <2>2. n.int \in Letter /\ "i" \in Letter /\ "e" \in Letter  BY <2>1 DEF Letter
  <2>3. <<"i", n.int, "e">> \in Bytes  BY <2>2 DEF Bytes
  <2>4. Encoding(n, f) = <<"i", n.int, "e">>  BY <1>2, <2>1 DEF Encoding
  <2> QED  BY <2>3, <2>4
<1>3. CASE IsList(n) \/ IsDict(n)
  <2>1. PICK g : Joins(g, TextsBy(f, n), Width(n))  BY <1>3, EncodingForm, TextsType, JoinsExist
  <2>2. FlattenSeq(TextsBy(f, n)) = g[Width(n)]  BY <1>3, <2>1, EncodingForm, TextsType, FlattenJoins
  <2>3. g[Width(n)] \in Bytes
    <3>1. Width(n) \in Nat  BY <1>3, EncodingForm
    <3>2. Width(n) \in 0 .. Width(n)  BY <3>1
    <3> QED  BY <2>1, <3>2 DEF Joins
  <2>4. <<IF IsList(n) THEN "l" ELSE "d">> \in Bytes /\ <<"e">> \in Bytes
    <3>1. (IF IsList(n) THEN "l" ELSE "d") \in Letter /\ "e" \in Letter  BY DEF Letter
    <3> QED  BY <3>1 DEF Bytes
  <2>5. <<IF IsList(n) THEN "l" ELSE "d">> \o FlattenSeq(TextsBy(f, n)) \in Bytes
    BY <2>2, <2>3, <2>4, StandsFirst
  <2>6. (<<IF IsList(n) THEN "l" ELSE "d">> \o FlattenSeq(TextsBy(f, n))) \o <<"e">> \in Bytes
    BY <2>4, <2>5, StandsFirst
  <2> QED  BY <1>3, <2>6, EncodingForm
<1> QED  BY <1>1, <1>2, <1>3, Kinds

\* Encode is what it says.
LEMMA EncodeEquation ==
  Encode \in [Nodes -> Bytes] /\ \A n \in Nodes : Encode[n] = Encoding(n, Encode)
<1> DEFINE B == [n \in Nodes |-> [f \in [Nodes -> Bytes] |-> Encoding(n, f)]]
<1>1. B \in [Nodes -> [[Nodes -> Bytes] -> Bytes]]  BY EncodingType
<1>2. Local(Bytes, B)
  <2>1. ASSUME NEW n \in Nodes, NEW f \in [Nodes -> Bytes], NEW g \in [Nodes -> Bytes],
               \A m \in Nodes : Depth[m] < Depth[n] => f[m] = g[m]
        PROVE  B[n][f] = B[n][g]
    <3>1. Encoding(n, f) = Encoding(n, g)  BY <2>1, EncodingLocal
    <3> QED  BY <3>1
  <2> HIDE DEF B
  <2> QED  BY <2>1 DEF Local
<1>3. <<>> \in Bytes  BY DEF Bytes
<1>4. PICK f \in [Nodes -> Bytes] : \A n \in Nodes : f[n] = Encoding(n, f)
  <2>1. \E f : Solves(f, Bytes, B)
    <3> HIDE DEF B
    <3> QED  BY <1>1, <1>2, <1>3, Recursion
  <2>2. PICK f : f \in [Nodes -> Bytes] /\ \A n \in Nodes : f[n] = B[n][f]
    BY <2>1 DEF Solves
  <2>3. \A n \in Nodes : B[n][f] = Encoding(n, f)  BY <2>2
  <2> HIDE DEF B
  <2> QED  BY <2>2, <2>3
<1> DEFINE Step(g) == [n \in Nodes |-> Encoding(n, g)]
<1>5. f = Step(f)  BY <1>4
<1>6. Encode = CHOOSE g : g = Step(g)  BY DEF Encode
<1>7. Encode = Step(Encode)
  <2> HIDE DEF Step
  <2> QED  BY <1>5, <1>6
<1>8. \A n \in Nodes : Encode[n] = Encoding(n, Encode)  BY <1>7
<1>9. ASSUME NEW n \in Nodes PROVE Encode[n] = f[n]
  <2> DEFINE G == {l \in 0 .. Depth[n] + 1 : \A m \in Nodes : Depth[m] < l => Encode[m] = f[m]}
  <2>1. Depth[n] \in Nat /\ Depth[n] + 1 \in Nat  BY BencodeAssumption
  <2>2. 0 \in G  BY <2>1, BencodeAssumption
  <2>3. ASSUME NEW l \in 0 .. (Depth[n] + 1) - 1, l \in G PROVE l + 1 \in G
    <3>1. ASSUME NEW m \in Nodes, Depth[m] < l + 1 PROVE Encode[m] = f[m]
      <4>1. \A x \in Nodes : Depth[x] < Depth[m] => Encode[x] = f[x]
        BY <2>1, <2>3, <3>1, BencodeAssumption
      <4>2. Encoding(m, Encode) = Encoding(m, f)  BY <4>1, EncodingLocal
      <4> QED  BY <1>4, <1>8, <4>2
    <3> QED  BY <2>1, <3>1
  <2>4. Depth[n] + 1 \in G
    <3> DEFINE k == Depth[n] + 1
    <3>1. k \in Nat /\ 0 \in G /\ \A l \in 0 .. k - 1 : l \in G => l + 1 \in G  BY <2>1, <2>2, <2>3
    <3> HIDE DEF G, k
    <3>2. k \in G  BY <3>1, Climb
    <3> QED  BY <3>2 DEF k
  <2> QED  BY <2>1, <2>4
<1>10. Encode \in [Nodes -> Bytes]
  <2>1. \A n \in Nodes : Encode[n] \in Bytes  BY <1>9
  <2>2. Encode = [n \in Nodes |-> Encode[n]]  BY <1>7
  <2> QED  BY <2>1, <2>2
<1> QED  BY <1>8, <1>10

\* HasEmpty is what it says.
LEMMA EmptyEquation == \A n \in Nodes : HasEmpty[n] = Empty(n, HasEmpty)
<1> DEFINE B == [n \in Nodes |-> [f \in [Nodes -> BOOLEAN] |-> Empty(n, f)]]
<1>1. B \in [Nodes -> [[Nodes -> BOOLEAN] -> BOOLEAN]]
  <2>1. ASSUME NEW n \in Nodes, NEW f \in [Nodes -> BOOLEAN] PROVE Empty(n, f) \in BOOLEAN
    BY DEF Empty
  <2> QED  BY <2>1
<1>2. Local(BOOLEAN, B)
  <2>1. ASSUME NEW n \in Nodes, NEW f \in [Nodes -> BOOLEAN], NEW g \in [Nodes -> BOOLEAN],
               \A m \in Nodes : Depth[m] < Depth[n] => f[m] = g[m]
        PROVE  B[n][f] = B[n][g]
    <3>1. CASE IsList(n)
      <4>1. \A k \in 1 .. Len(n.list) : f[n.list[k]] = g[n.list[k]]  BY <2>1, <3>1, Kinds
      <4>2. ~IsDict(n)  BY <3>1, Kinds
      <4>3. Empty(n, f) = Empty(n, g)  BY <3>1, <4>1, <4>2 DEF Empty
      <4> QED  BY <4>3
    <3>2. CASE IsDict(n)
      <4>1. \A k \in 1 .. Len(n.dict) : f[n.dict[k].val] = g[n.dict[k].val]  BY <2>1, <3>2, Kinds
      <4>2. ~IsList(n)  BY <3>2, Kinds
      <4>3. Empty(n, f) = Empty(n, g)  BY <3>2, <4>1, <4>2 DEF Empty
      <4> QED  BY <4>3
    <3>3. CASE ~IsList(n) /\ ~IsDict(n)
      <4>1. Empty(n, f) = FALSE /\ Empty(n, g) = FALSE  BY <3>3 DEF Empty
      <4> QED  BY <4>1
    <3> QED  BY <3>1, <3>2, <3>3
  <2> HIDE DEF B
  <2> QED  BY <2>1 DEF Local
<1>3. \E f : Solves(f, BOOLEAN, B)
  <2>1. TRUE \in BOOLEAN  OBVIOUS
  <2> HIDE DEF B
  <2> QED  BY <1>1, <1>2, <2>1, Recursion
<1>4. PICK f : f \in [Nodes -> BOOLEAN] /\ \A n \in Nodes : f[n] = B[n][f]
  BY <1>3 DEF Solves
<1>5. \A n \in Nodes : f[n] = Empty(n, f)  BY <1>4
<1> DEFINE Step(g) == [n \in Nodes |-> Empty(n, g)]
<1>6. f = Step(f)  BY <1>4, <1>5
<1>7. HasEmpty = CHOOSE g : g = Step(g)  BY DEF HasEmpty
<1>8. HasEmpty = Step(HasEmpty)
  <2> HIDE DEF Step
  <2> QED  BY <1>6, <1>7
<1> QED  BY <1>8

\* The bytes of a node before those of its item k + 1.
Lays(n, o) ==
  /\ o \in [0 .. Width(n) -> Nat] /\ o[0] = 1
  /\ Len(Encode[n]) = o[Width(n)] + 1
  /\ Encode[n][1] = IF IsList(n) THEN "l" ELSE "d"
  /\ Encode[n][Len(Encode[n])] = "e"
  /\ \A k \in 1 .. Width(n) : /\ o[k] = o[k - 1] + Len(TextBy(Encode, n, k))
                             /\ Stands(TextBy(Encode, n, k), Encode[n], o[k - 1])

LEMMA LayoutExists ==
  ASSUME NEW n \in Nodes, IsList(n) \/ IsDict(n)
  PROVE  \E o : Lays(n, o)
<1> DEFINE q == TextsBy(Encode, n)
           K == Width(n)
           lead == IF IsList(n) THEN "l" ELSE "d"
<1>1. K \in Nat /\ q \in [1 .. K -> Bytes] /\ Encode[n] \in Bytes
  BY EncodeEquation, EncodingForm, TextsType
<1>2. \A k \in 1 .. K : q[k] = TextBy(Encode, n, k)  BY DEF TextsBy
<1>3. Encode[n] = (<<lead>> \o FlattenSeq(q)) \o <<"e">>
  BY EncodeEquation, EncodingForm
<1>4. <<lead>> \in Bytes /\ Len(<<lead>>) = 1 /\ <<lead>>[1] = lead
  <2>1. lead \in Letter  BY DEF Letter
  <2> QED  BY <2>1 DEF Bytes
<1>5. <<"e">> \in Bytes /\ Len(<<"e">>) = 1 /\ <<"e">>[1] = "e"
  <2>1. "e" \in Letter  BY DEF Letter
  <2> QED  BY <2>1 DEF Bytes
<1> HIDE DEF q, K, lead
<1>6. PICK f : Joins(f, q, K)  BY <1>1, JoinsExist
<1>7. FlattenSeq(q) = f[K]  BY <1>1, <1>6, FlattenJoins
<1>8. f \in [0 .. K -> Bytes] /\ f[0] = <<>> /\ f[K] \in Bytes
  <2>1. K \in 0 .. K  BY <1>1
  <2> QED  BY <1>6, <2>1 DEF Joins
<1> DEFINE a == <<lead>>
           b == f[K]
           c == a \o b
           d == <<"e">>
           t == Encode[n]
<1>9. a \in Bytes /\ b \in Bytes /\ c = a \o b /\ d \in Bytes /\ t \in Bytes /\ t = c \o d /\ Len(a) = 1 /\ Len(d) = 1 /\ a[1] = lead /\ d[1] = "e"
  BY <1>1, <1>3, <1>4, <1>5, <1>7, <1>8
<1> DEFINE o == [k \in 0 .. K |-> 1 + Len(f[k])]
<1>10. o \in [0 .. K -> Nat] /\ \A k \in 0 .. K : o[k] = 1 + Len(f[k])
  <2>1. \A k \in 0 .. K : Len(f[k]) \in Nat  BY <1>8 DEF Bytes
  <2> QED  BY <2>1
<1> HIDE DEF a, b, c, d, t, o
<1>11. c \in Bytes /\ Len(c) = 1 + Len(b) /\ Stands(a, c, 0) /\ Stands(b, c, 1)
  <2>0. a \in Bytes /\ b \in Bytes  BY <1>9
  <2>1. c \in Bytes /\ Len(c) = 1 + Len(b) /\ Stands(a, c, 0)
    <3>1. a \o b \in Bytes /\ Len(a \o b) = Len(a) + Len(b) /\ Stands(a, a \o b, 0)
      BY <2>0, StandsFirst
    <3> QED  BY <1>9, <3>1
  <2>2. Stands(b, c, 1)  BY <1>9, StandsLast
  <2> QED  BY <2>1, <2>2
<1>12. Len(t) = Len(c) + 1 /\ Stands(c, t, 0) /\ Stands(d, t, Len(c))
  <2>1. Len(t) = Len(c) + 1 /\ Stands(c, t, 0)  BY <1>9, <1>11, StandsFirst
  <2>2. Stands(d, t, Len(c))  BY <1>9, <1>11, StandsLast
  <2> QED  BY <2>1, <2>2
<1>13. Len(b) \in Nat /\ Len(c) \in Nat /\ Len(t) \in Nat  BY <1>9, <1>11 DEF Bytes
<1>14. t[1] = lead
  <2>1. Stands(a, t, 0)
    <3>1. Stands(a, t, 0 + 0)  BY <1>9, <1>11, <1>12, StandsWithin
    <3> QED  BY <3>1
  <2>2. t[0 + 1] = a[1]  BY <1>9, <2>1 DEF Stands
  <2> QED  BY <1>9, <2>2
<1>15. t[Len(t)] = "e"
  <2>1. t[Len(c) + 1] = d[1]  BY <1>9, <1>12 DEF Stands
  <2> QED  BY <1>9, <1>12, <2>1
<1>16. Stands(b, t, 1)
  <2>1. Stands(b, t, 0 + 1)  BY <1>9, <1>11, <1>12, StandsWithin
  <2> QED  BY <2>1
<1>17. o[0] = 1 /\ Len(t) = o[K] + 1
  <2>1. 0 \in 0 .. K /\ K \in 0 .. K  BY <1>1
  <2>2. o[0] = 1  BY <1>8, <1>10, <2>1
  <2>3. o[K] = 1 + Len(b)  BY <1>10, <2>1 DEF b
  <2> QED  BY <1>11, <1>12, <1>13, <2>2, <2>3
<1>18. ASSUME NEW k \in 1 .. K
       PROVE  o[k] = o[k - 1] + Len(q[k]) /\ Stands(q[k], t, o[k - 1])
  <2>1. k \in 0 .. K /\ k - 1 \in 0 .. K  BY <1>1
  <2>2. Len(f[k]) = Len(f[k - 1]) + Len(q[k]) /\ Stands(q[k], f[K], Len(f[k - 1]))
    BY <1>1, <1>6, PartStands
  <2>3. q[k] \in Bytes /\ Len(q[k]) \in Nat /\ Len(f[k - 1]) \in Nat
    <3>1. q[k] \in Bytes  BY <1>1
    <3>2. f[k - 1] \in Bytes  BY <1>8, <2>1
    <3> QED  BY <3>1, <3>2, LenNat
  <2>4. o[k] = o[k - 1] + Len(q[k])
    <3>1. o[k] = 1 + Len(f[k]) /\ o[k - 1] = 1 + Len(f[k - 1])  BY <1>10, <2>1
    <3> DEFINE x == Len(f[k - 1])
               y == Len(q[k])
    <3>2. x \in Nat /\ y \in Nat /\ o[k] = 1 + (x + y) /\ o[k - 1] = 1 + x  BY <2>2, <2>3, <3>1
    <3> HIDE DEF x, y
    <3>3. o[k] = o[k - 1] + y  BY <3>2
    <3> QED  BY <3>3 DEF y
  <2>5. Stands(q[k], t, 1 + Len(f[k - 1]))
    <3> DEFINE r == q[k]
               p == Len(f[k - 1])
    <3>1. r \in Bytes /\ p \in Nat /\ Stands(r, b, p)  BY <2>2, <2>3 DEF b
    <3> HIDE DEF r, p
    <3>2. Stands(r, t, 1 + p)  BY <1>9, <1>16, <3>1, StandsWithin
    <3> QED  BY <3>2 DEF r, p
  <2> QED  BY <1>10, <2>1, <2>4, <2>5
<1>19. Lays(n, o)
  BY <1>2, <1>10, <1>14, <1>15, <1>17, <1>18 DEF Lays, t, K, lead
<1> QED  BY <1>19
-----------------------------------------------------------------------------
(***************************************************************************)
(* The buffer.                                                             *)
(***************************************************************************)

\* The decoder knows where the buffer ends: all came, or its length was announced.
Measured == InputWhole \/ input.announced

\* The buffer holds what came, and zeros.
Buffer ==
  /\ input \in Inputs /\ input.doc \in Nodes
  /\ Whole(input) \in Bytes /\ text \in Bytes /\ Len(text) = Len(Whole(input))
  /\ input.sent \in 0 .. Len(text)
  /\ \A p \in 1 .. input.sent : text[p] = Whole(input)[p]
  /\ \A p \in input.sent + 1 .. Len(text) : text[p] = "zero"
  /\ Stands(Encode[input.doc], Whole(input), 0)
  /\ Len(Whole(input)) = Len(Encode[input.doc]) + Len(input.tail) /\ Len(input.tail) \in Nat
  /\ input.sent < Len(text) => IsDict(input.doc) /\ input.tail = <<>>

LEMMA BufferKnown ==
  ASSUME input \in Inputs, text = Received(input), Measured
  PROVE  Buffer
<1> DEFINE w == Whole(input)
           n == input.sent
<1>1. /\ input.doc \in Nodes /\ input.tail \in Seq(STRING) /\ n \in 0 .. Len(w)
      /\ input.announced => IsDict(input.doc) /\ input.tail = <<>>
  BY BencodeAssumption DEF BencodeInput
<1>2. Encode[input.doc] \in Bytes /\ input.tail \in Bytes
  <2>1. STRING \subseteq Letter  BY DEF Letter
  <2> QED  BY <1>1, <2>1, EncodeEquation, SeqWider DEF Bytes
<1>3. /\ w \in Bytes /\ Len(w) = Len(Encode[input.doc]) + Len(input.tail)
      /\ Stands(Encode[input.doc], w, 0)
  BY <1>2, StandsFirst DEF Whole
<1> HIDE DEF w, n
<1>4. Len(w) \in Nat /\ Len(input.tail) \in Nat  BY <1>2, <1>3, LenNat
<1> DEFINE came == SubSeq(w, 1, n)
           zeros == [k \in 1 .. Len(w) - n |-> "zero"]
<1>5. text = IF input.announced THEN came \o zeros ELSE came  BY DEF Received, w, n
<1>6. came \in Bytes /\ Len(came) = n /\ \A p \in 1 .. n : came[p] = w[p]
  <2>1. n \in Nat /\ n <= Len(w) /\ 1 <= n + 1 /\ (n - 1) + 1 = n /\ \A p \in 1 .. n : (1 + p) - 1 = p
    BY <1>1, <1>4, BencodeAssumption DEF n, w
  <2>2. 1 \in Nat \ {0} /\ n - 1 + 1 = n  BY <2>1
  <2>3. /\ came \in Bytes /\ Len(came) = n - 1 + 1
        /\ \A x \in 1 .. n - 1 + 1 : came[x] = w[1 + x - 1]
    BY <1>3, <2>1, <2>2, PartOf
  <2> HIDE DEF came
  <2> QED  BY <2>1, <2>2, <2>3
<1>7. zeros \in Bytes /\ Len(zeros) = Len(w) - n /\ \A p \in 1 .. Len(w) - n : zeros[p] = "zero"
  <2>1. "zero" \in Letter /\ Len(w) - n \in Nat  BY <1>1, <1>4 DEF Letter
  <2> QED  BY <2>1 DEF Bytes
<1>8. CASE input.announced
  <2> DEFINE a == came
             z == zeros
             t == a \o z
  <2>1. text = t  BY <1>5, <1>8
  <2>2. a \in Bytes /\ z \in Bytes /\ Len(a) = n /\ Len(z) = Len(w) - n  BY <1>6, <1>7
  <2>3. (\A p \in 1 .. n : a[p] = w[p]) /\ \A p \in 1 .. Len(w) - n : z[p] = "zero"  BY <1>6, <1>7
  <2> HIDE DEF a, z
  <2>4. t \in Bytes /\ Len(t) = Len(w)  BY <1>1, <1>4, <2>2 DEF Bytes
  <2>5. \A p \in 1 .. n : t[p] = a[p]  BY <2>2 DEF Bytes
  <2>6. ASSUME NEW p \in n + 1 .. Len(w) PROVE t[p] = "zero"
    <3>1. p - n \in 1 .. Len(w) - n  BY <1>1, <1>4
    <3>2. t[p] = z[p - n]  BY <1>1, <1>4, <2>2 DEF Bytes
    <3> QED  BY <2>3, <3>1, <3>2
  <2>7. n < Len(w) => IsDict(input.doc) /\ input.tail = <<>>  BY <1>1, <1>8
  <2> HIDE DEF t
  <2> QED  BY <1>1, <1>3, <1>4, <2>1, <2>3, <2>4, <2>5, <2>6, <2>7 DEF Buffer, w, n
<1>9. CASE ~input.announced
  <2>1. n = Len(w)  BY <1>9 DEF Measured, InputWhole, w, n
  <2>2. text = came  BY <1>5, <1>9
  <2>3. text \in Bytes /\ Len(text) = n /\ \A p \in 1 .. n : text[p] = w[p]  BY <1>6, <2>2
  <2>4. n + 1 .. Len(w) = {} /\ ~(n < Len(w))  BY <1>1, <1>4, <2>1
  <2> QED  BY <1>1, <1>3, <1>4, <2>1, <2>3, <2>4 DEF Buffer, w, n
<1> QED  BY <1>8, <1>9

LEMMA BufferLen ==
  ASSUME Buffer
  PROVE  /\ Len(text) \in Nat /\ Len(Whole(input)) = Len(text)
         /\ input.sent \in Nat /\ input.sent <= Len(text)
<1>1. text \in Bytes /\ Len(text) = Len(Whole(input)) /\ input.sent \in 0 .. Len(text)  BY DEF Buffer
<1>2. Len(text) \in Nat  BY <1>1, LenNat
<1> QED  BY <1>1, <1>2

\* The encoding of n stands in what was sent, after the first p bytes.
Placed(n, p) == Stands(Encode[n], Whole(input), p)

\* A byte of it that came is read.
LEMMA PlacedByte ==
  ASSUME Buffer, NEW n \in Nodes, NEW p \in Nat, Placed(n, p),
         NEW x \in 1 .. Len(Encode[n]), p + x <= input.sent
  PROVE  p + x <= Len(text) /\ Byte(p + x) = Encode[n][x]
<1>1. Encode[n] \in Bytes  BY EncodeEquation
<1>2. Len(Encode[n]) \in Nat /\ Len(text) \in Nat /\ x \in Nat  BY <1>1, BufferLen, LenNat
<1>3. p + x \in 1 .. input.sent /\ p + x <= Len(text)  BY <1>2, BufferLen
<1>4. Whole(input)[p + x] = Encode[n][x]  BY DEF Placed, Stands
<1> QED  BY <1>3, <1>4 DEF Buffer, Byte

\* Past what came there are zeros.
LEMMA ZeroByte ==
  ASSUME Buffer, NEW p \in input.sent + 1 .. Len(text)
  PROVE  Byte(p) = "zero"
<1>1. p <= Len(text)  BY BufferLen
<1>2. text[p] = "zero"  BY DEF Buffer
<1> QED  BY <1>1, <1>2 DEF Byte

\* Numbers, and what is none.
LEMMA Values ==
  /\ DOMAIN Value = {"-1", "0", "1", "2", "5", "6", "12", "18"}
  /\ Value["0"] = 0
  /\ \A t \in DOMAIN Value : Value[t] \in Int
  BY DEF Value

\* At a zero there is no string.
LEMMA NoString ==
  ASSUME Buffer, NEW p \in input.sent + 1 .. Len(text), NEW left
  PROVE  LET s == DecodeStr(p, left) IN s.node = NULL /\ s.data = p /\ s.left = left - 0
<1>1. Byte(p) = "zero"  BY ZeroByte
<1>2. Number(p) = [int |-> "0", next |-> p]  BY <1>1, Values DEF Number
<1>3. p - p = 0  BY BufferLen
<1> QED  BY <1>1, <1>2, <1>3 DEF DecodeStr

\* What a string's encoding is made of.
LEMMA StringText ==
  ASSUME NEW n \in Nodes, IsStr(n)
  PROVE  /\ Len(n.str) \in Nat /\ Len(Encode[n]) = Len(n.str) + 2
         /\ Encode[n][1] = Numeral(Len(n.str)) /\ Encode[n][2] = ":"
         /\ \A x \in 1 .. Len(n.str) : Encode[n][x + 2] = n.str[x]
<1> DEFINE num == Numeral(Len(n.str))
           head == <<num, ":">>
           t == n.str
<1>1. num \in Digits /\ t \in Bytes /\ ~IsInt(n) /\ ~IsList(n) /\ ~IsDict(n)  BY Kinds
<1>2. Encode[n] = head \o t
  <2>1. Encoding(n, Encode) = head \o t  BY <1>1 DEF Encoding
  <2> QED  BY <2>1, EncodeEquation
<1>3. head \in Bytes /\ Len(head) = 2 /\ head[1] = num /\ head[2] = ":"
  <2>1. num \in Letter /\ ":" \in Letter  BY <1>1 DEF Digits, Letter
  <2> HIDE DEF num
  <2> QED  BY <2>1 DEF Bytes
<1> HIDE DEF num, head, t
<1>4. Len(head \o t) = 2 + Len(t) /\ Stands(head, head \o t, 0) /\ Stands(t, head \o t, 2)
  BY <1>1, <1>3, StandsFirst, StandsLast
<1>5. Len(t) \in Nat  BY <1>1, LenNat
<1>6. (head \o t)[1] = num /\ (head \o t)[2] = ":"
  <2> DEFINE c == head \o t
  <2>1. Stands(head, c, 0)  BY <1>4
  <2> HIDE DEF c
  <2>2. c[0 + 1] = head[1] /\ c[0 + 2] = head[2]  BY <1>3, <2>1 DEF Stands
  <2>3. c[1] = num /\ c[2] = ":"  BY <1>3, <2>2
  <2> QED  BY <2>3 DEF c
<1>7. ASSUME NEW x \in 1 .. Len(t) PROVE (head \o t)[x + 2] = t[x]
  <2>1. (head \o t)[2 + x] = t[x] /\ 2 + x = x + 2  BY <1>4, <1>5 DEF Stands
  <2> QED  BY <2>1
<1>8. Len(Encode[n]) = Len(t) + 2  BY <1>2, <1>4, <1>5
<1> QED  BY <1>2, <1>5, <1>6, <1>7, <1>8 DEF t, num

\* Reading a string of what was sent: it is read, or all that came is read.
LEMMA ReadString ==
  ASSUME Buffer, NEW n \in Nodes, IsStr(n), NEW p \in Nat, Placed(n, p), p + 1 <= input.sent
  PROVE  LET s == DecodeStr(p + 1, Len(text) - p)
         IN  /\ s.data \in Nat /\ s.left = Len(text) - s.data + 1
             /\ \/ s.node = n /\ s.data = p + Len(Encode[n]) + 1 /\ s.data <= input.sent + 1
                \/ /\ s.data \in input.sent + 1 .. p + Len(Encode[n]) + 1
                   /\ input.sent < p + Len(Encode[n])
<1> DEFINE len == Len(n.str)
           num == Numeral(len)
           size == Len(text)
           sent == input.sent
<1>1. /\ len \in Nat /\ Len(Encode[n]) = len + 2
      /\ Encode[n][1] = num /\ Encode[n][2] = ":"
      /\ \A x \in 1 .. len : Encode[n][x + 2] = n.str[x]
  BY StringText
<1>2. num \in Digits /\ Value[num] = len /\ n = [str |-> n.str] /\ n.str \in Bytes  BY Kinds
<1>3. size \in Nat /\ sent \in Nat /\ sent <= size /\ p + (len + 2) <= size
  BY <1>1, BufferLen DEF Placed, Stands
<1> HIDE DEF len, num, size, sent
<1>4. Byte(p + 1) = num
  <2>1. 1 \in 1 .. Len(Encode[n])  BY <1>1
  <2> QED  BY <1>1, <2>1, PlacedByte
<1>5. Number(p + 1) = [int |-> num, next |-> p + 2]
  <2>1. (p + 1) + 1 = p + 2  OBVIOUS
  <2> QED  BY <1>2, <1>4, <2>1 DEF Number, Digits
<1> DEFINE s == DecodeStr(p + 1, size - p)
           rest == (size - p) - ((p + 2) - (p + 1))
<1>6. s = IF len >= 0 /\ Fits(len, rest) /\ Byte(p + 2) = ":"
          THEN [node |-> [str |-> SubSeq(text, p + 3, p + 2 + len)],
                data |-> p + 3 + len, left |-> rest - len - 1]
          ELSE [node |-> NULL, data |-> p + 2, left |-> rest]
  <2> DEFINE N == Number(p + 1)
             left == (size - p) - (N.next - (p + 1))
  <2>1. s = IF Value[N.int] >= 0 /\ Fits(Value[N.int], left) /\ Byte(N.next) = ":"
            THEN [node |-> [str |-> SubSeq(text, N.next + 1, N.next + Value[N.int])],
                  data |-> N.next + 1 + Value[N.int], left |-> left - Value[N.int] - 1]
            ELSE [node |-> NULL, data |-> N.next, left |-> left]
    BY DEF DecodeStr
  <2>2. N.next = p + 2 /\ Value[N.int] = len /\ left = rest  BY <1>2, <1>5
  <2>3. (p + 2) + 1 = p + 3  OBVIOUS
  <2> HIDE DEF N, left, rest, s
  <2> QED  BY <2>1, <2>2, <2>3
<1>7. rest = size - p - 1 /\ Fits(len, rest)  BY <1>1, <1>3 DEF Fits
<1> HIDE DEF s, rest
<1>8. CASE p + 2 > sent
  <2>1. Byte(p + 2) = "zero"
    <3>1. p + 2 \in input.sent + 1 .. Len(text)  BY <1>1, <1>3, <1>8 DEF sent, size
    <3> QED  BY <3>1, ZeroByte
  <2>2. s.data = p + 2 /\ s.left = rest  BY <1>6, <2>1
  <2>3. s.data \in sent + 1 .. p + (len + 2) + 1 /\ s.data \in Nat /\ sent < p + (len + 2)
    <3>1. p + 2 \in Nat /\ p + 2 >= sent + 1 /\ p + 2 <= p + (len + 2) + 1
      BY <1>1, <1>3, <1>8
    <3>2. p + 2 \in sent + 1 .. p + (len + 2) + 1 /\ sent < p + (len + 2)
      BY <1>1, <1>3, <1>8, <3>1
    <3> QED  BY <2>2, <3>1, <3>2
  <2>4. s.left = size - s.data + 1  BY <1>3, <1>7, <2>2
  <2> QED  BY <1>1, <2>3, <2>4 DEF s, size, sent
<1>9. CASE p + 2 <= sent
  <2>1. Byte(p + 2) = ":"
    <3>1. 2 \in 1 .. Len(Encode[n])  BY <1>1
    <3> QED  BY <1>1, <1>9, <3>1, PlacedByte DEF sent
  <2>2. /\ s.node = [str |-> SubSeq(text, p + 3, p + 2 + len)]
        /\ s.data = p + 3 + len /\ s.left = rest - len - 1
    BY <1>1, <1>6, <1>7, <2>1
  <2>3. s.data \in Nat /\ s.left = size - s.data + 1 /\ s.data = p + (len + 2) + 1
    BY <1>1, <1>3, <1>7, <2>2
  <2>4. CASE p + 2 + len > sent
    <3>1. s.data \in sent + 1 .. p + (len + 2) + 1 /\ sent < p + (len + 2)
      BY <1>1, <1>3, <2>3, <2>4
    <3> QED  BY <1>1, <2>3, <3>1 DEF s, size, sent
  <2>5. CASE p + 2 + len <= sent
    <3> DEFINE r == SubSeq(text, p + 3, p + 2 + len)
    <3>1. r \in Bytes /\ Len(r) = len /\ \A x \in 1 .. len : r[x] = text[p + 2 + x]
      <4> DEFINE a == p + 3
                 b == p + 2 + len
      <4>1. a \in Nat \ {0} /\ b \in Nat /\ a <= b + 1 /\ b <= Len(text) /\ b - a + 1 = len
            /\ \A x \in 1 .. len : a + x - 1 = p + 2 + x
        BY <1>1, <1>3 DEF size
      <4>2. text \in Bytes  BY DEF Buffer
      <4> HIDE DEF a, b
      <4>3. /\ SubSeq(text, a, b) \in Bytes /\ Len(SubSeq(text, a, b)) = b - a + 1
            /\ \A x \in 1 .. b - a + 1 : SubSeq(text, a, b)[x] = text[a + x - 1]
        BY <4>1, <4>2, PartOf
      <4>4. r = SubSeq(text, a, b)  BY DEF a, b
      <4> HIDE DEF r
      <4> QED  BY <4>1, <4>3, <4>4
    <3> HIDE DEF r
    <3>2. ASSUME NEW x \in 1 .. len PROVE r[x] = n.str[x]
      <4>1. x + 2 \in 1 .. Len(Encode[n]) /\ p + (x + 2) <= input.sent /\ p + 2 + x = p + (x + 2)
        BY <1>1, <1>3, <2>5 DEF sent
      <4>2. p + (x + 2) <= Len(text) /\ Byte(p + (x + 2)) = Encode[n][x + 2]
        BY <4>1, PlacedByte
      <4>3. text[p + (x + 2)] = n.str[x]  BY <1>1, <4>2 DEF Byte
      <4> QED  BY <3>1, <4>1, <4>3
    <3>3. r = n.str
      <4>1. Len(n.str) = len /\ n.str \in Bytes  BY <1>2 DEF len
      <4> HIDE DEF len
      <4> QED  BY <3>1, <3>2, <4>1, SeqEqual DEF Bytes
    <3>4. s.node = n  BY <1>2, <2>2, <3>3 DEF r
    <3>5. s.data <= sent + 1  BY <1>1, <1>3, <2>2, <2>5
    <3> QED  BY <1>1, <2>3, <3>4, <3>5 DEF s, size, sent
  <2> QED  BY <1>1, <1>3, <2>4, <2>5
<1> QED  BY <1>1, <1>3, <1>8, <1>9

LEMMA NumberText ==
  ASSUME NEW n \in Nodes, IsInt(n)
  PROVE  /\ Len(Encode[n]) = 3 /\ n.int \in DOMAIN Value /\ n = [int |-> n.int]
         /\ Encode[n][1] = "i" /\ Encode[n][2] = n.int /\ Encode[n][3] = "e"
<1>1. n.int \in DOMAIN Value /\ n = [int |-> n.int] /\ ~IsStr(n) /\ ~IsList(n) /\ ~IsDict(n)  BY Kinds
<1>2. Encode[n] = <<"i", n.int, "e">>
  <2>1. Encoding(n, Encode) = <<"i", n.int, "e">>  BY <1>1 DEF Encoding
  <2> QED  BY <2>1, EncodeEquation
<1> QED  BY <1>1, <1>2

\* A choice of offsets.
Before(n) == CHOOSE o : Lays(n, o)

LEMMA Layout ==
  ASSUME NEW n \in Nodes, IsList(n) \/ IsDict(n)
  PROVE  Lays(n, Before(n)) /\ Width(n) \in Nat
<1>1. Lays(n, Before(n))  BY LayoutExists DEF Before
<1>2. Width(n) \in Nat  BY EncodingForm
<1> QED  BY <1>1, <1>2

LEMMA TextNat ==
  ASSUME NEW n \in Nodes, IsList(n) \/ IsDict(n), NEW k \in 1 .. Width(n)
  PROVE  Len(TextBy(Encode, n, k)) \in Nat
<1>1. TextsBy(Encode, n) \in [1 .. Width(n) -> Bytes]  BY EncodeEquation, TextsType
<1>2. TextsBy(Encode, n)[k] = TextBy(Encode, n, k)  BY DEF TextsBy
<1>3. TextBy(Encode, n, k) \in Bytes  BY <1>1, <1>2
<1> QED  BY <1>3, LenNat

\* The offsets grow to the last byte.
LEMMA BeforeGrows ==
  ASSUME NEW n \in Nodes, IsList(n) \/ IsDict(n), NEW k \in 0 .. Width(n)
  PROVE  Before(n)[k] \in Nat /\ Before(n)[k] + 1 <= Len(Encode[n])
<1> DEFINE o == Before(n)
           K == Width(n)
<1>1. o \in [0 .. K -> Nat] /\ Len(Encode[n]) = o[K] + 1 /\ K \in Nat
      /\ \A l \in 1 .. K : o[l] = o[l - 1] + Len(TextBy(Encode, n, l))
  BY Layout DEF Lays
<1>2. \A l \in 1 .. K : Len(TextBy(Encode, n, l)) \in Nat  BY TextNat
<1>3. k \in 0 .. K  OBVIOUS
<1> HIDE DEF o, K
<1> DEFINE G == {l \in 0 .. K - k : o[k] <= o[k + l]}
<1>4. 0 \in G
  <2>1. o[k] \in Nat /\ k + 0 = k /\ K - k \in Nat  BY <1>1, <1>3
  <2> QED  BY <2>1
<1>5. ASSUME NEW l \in 0 .. (K - k) - 1, l \in G PROVE l + 1 \in G
  <2>1. k + l \in 0 .. K /\ k + (l + 1) \in 1 .. K /\ (k + (l + 1)) - 1 = k + l
        /\ k + (l + 1) \in 0 .. K /\ l + 1 \in 0 .. K - k
    BY <1>1, <1>3
  <2>2. o[k + (l + 1)] = o[k + l] + Len(TextBy(Encode, n, k + (l + 1)))  BY <1>1, <2>1
  <2>3. Len(TextBy(Encode, n, k + (l + 1))) \in Nat  BY <1>2, <2>1
  <2>4. o[k] \in Nat /\ o[k + l] \in Nat /\ o[k] <= o[k + l]  BY <1>1, <1>3, <1>5, <2>1
  <2> HIDE DEF G
  <2>5. o[k] <= o[k + (l + 1)]  BY <2>2, <2>3, <2>4
  <2> QED  BY <2>1, <2>5 DEF G
<1>6. K - k \in G
  <2>1. K - k \in Nat  BY <1>1, <1>3
  <2> HIDE DEF G
  <2> QED  BY <1>4, <1>5, <2>1, Climb
<1>7. o[k] <= o[K]
  <2>1. k + (K - k) = K  BY <1>1, <1>3
  <2> QED  BY <1>6, <2>1
<1>8. o[k] \in Nat /\ o[K] \in Nat /\ K \in 0 .. K  BY <1>1, <1>3
<1>9. o[k] + 1 <= Len(Encode[n])  BY <1>1, <1>7, <1>8
<1> QED  BY <1>8, <1>9 DEF o

\* An encoding has a first byte, which is not the one that ends lists.
LEMMA FirstByte ==
  ASSUME NEW n \in Nodes
  PROVE  /\ Len(Encode[n]) \in Nat /\ Len(Encode[n]) >= 2 /\ Encode[n][1] # "e"
         /\ IsStr(n) => Encode[n][1] \in Digits
         /\ IsInt(n) => Encode[n][1] = "i"
         /\ IsList(n) => Encode[n][1] = "l"
         /\ IsDict(n) => Encode[n][1] = "d"
<1>1. CASE IsStr(n)
  <2>1. Encode[n][1] \in Digits /\ Len(Encode[n]) = Len(n.str) + 2 /\ Len(n.str) \in Nat
    BY <1>1, Kinds, StringText
  <2>2. "e" \notin Digits  BY Values DEF Digits
  <2>3. ~IsInt(n) /\ ~IsList(n) /\ ~IsDict(n)  BY <1>1, Kinds
  <2> QED  BY <1>1, <2>1, <2>2, <2>3
<1>2. CASE IsInt(n)  BY <1>2, Kinds, NumberText
<1>3. CASE IsList(n) \/ IsDict(n)
  <2>1. Lays(n, Before(n)) /\ Width(n) \in Nat  BY <1>3, Layout
  <2> DEFINE o == Before(n)
             K == Width(n)
  <2> HIDE DEF o, K
  <2>2. o \in [0 .. K -> Nat] /\ o[0] = 1 /\ Len(Encode[n]) = o[K] + 1 /\ K \in Nat
        /\ Encode[n][1] = (IF IsList(n) THEN "l" ELSE "d")
        /\ \A k \in 1 .. K : o[k] = o[k - 1] + Len(TextBy(Encode, n, k))
    BY <2>1 DEF Lays, o, K
  <2>3. \A k \in 1 .. K : Len(TextBy(Encode, n, k)) \in Nat  BY <1>3, TextNat DEF K
  <2> DEFINE G == {k \in 0 .. K : o[k] >= 1}
  <2>4. 0 \in G  BY <2>2
  <2>5. ASSUME NEW k \in 0 .. K - 1, k \in G PROVE k + 1 \in G
    <3>1. k + 1 \in 1 .. K /\ (k + 1) - 1 = k /\ k \in 0 .. K  BY <2>2
    <3>2. o[k + 1] = o[k] + Len(TextBy(Encode, n, k + 1))  BY <2>2, <3>1
    <3>3. Len(TextBy(Encode, n, k + 1)) \in Nat  BY <2>3, <3>1
    <3>4. o[k] \in Nat /\ o[k] >= 1  BY <2>2, <2>5, <3>1
    <3> HIDE DEF G
    <3>5. o[k + 1] >= 1  BY <3>2, <3>3, <3>4
    <3> QED  BY <3>1, <3>5 DEF G
  <2>6. K \in G
    <3> HIDE DEF G
    <3> QED  BY <2>2, <2>4, <2>5, Climb
  <2>7. ~IsStr(n) /\ ~IsInt(n) /\ ~(IsList(n) /\ IsDict(n))  BY <1>3, Kinds
  <2> QED  BY <1>3, <2>2, <2>6, <2>7
<1> QED  BY <1>1, <1>2, <1>3, Kinds

\* Where an item of a list stands, and what follows it.
LEMMA ItemPlaced ==
  ASSUME Buffer, NEW n \in Nodes, IsList(n), NEW p \in Nat, Placed(n, p), NEW k \in 0 .. Width(n) - 1
  PROVE  LET q    == p + Before(n)[k]
             item == n.list[k + 1]
         IN  /\ q \in Nat /\ item \in Nodes /\ Placed(item, q)
             /\ q + Len(Encode[item]) = p + Before(n)[k + 1]
             /\ q + Len(Encode[item]) <= Len(text)
<1> DEFINE o == Before(n)
           q == p + o[k]
           item == n.list[k + 1]
<1>1. Lays(n, o) /\ Width(n) \in Nat  BY Layout
<1>2. k \in 0 .. Width(n) /\ k + 1 \in 1 .. Width(n) /\ (k + 1) - 1 = k  BY <1>1
<1>3. /\ o \in [0 .. Width(n) -> Nat]
      /\ o[k + 1] = o[k] + Len(TextBy(Encode, n, k + 1))
      /\ Stands(TextBy(Encode, n, k + 1), Encode[n], o[k])
  BY <1>1, <1>2 DEF Lays
<1>4. item \in Nodes
  <2>1. k + 1 \in 1 .. Len(n.list)  BY <1>2 DEF Width, ItemsOf
  <2> QED  BY <2>1, Kinds
<1>5. TextBy(Encode, n, k + 1) = Encode[item]  BY DEF TextBy
<1>6. o[k] \in Nat /\ q \in Nat /\ Len(Encode[item]) \in Nat  BY <1>2, <1>3, <1>4, FirstByte
<1>7. Encode[item] \in Bytes /\ Encode[n] \in Bytes /\ Whole(input) \in Bytes
  BY <1>4, EncodeEquation DEF Buffer
<1>8. Stands(Encode[item], Whole(input), q)
  <2> DEFINE r == Encode[item]
             s == Encode[n]
             t == Whole(input)
             x == o[k]
  <2>1. r \in Bytes /\ s \in Bytes /\ t \in Bytes /\ x \in Nat /\ Stands(r, s, x) /\ Stands(s, t, p)
    BY <1>3, <1>5, <1>6, <1>7 DEF Placed
  <2> HIDE DEF r, s, t, x
  <2>2. Stands(r, t, p + x)  BY <2>1, StandsWithin
  <2> QED  BY <2>2 DEF r, t, x
<1>9. q + Len(Encode[item]) <= Len(text)  BY <1>8, BufferLen DEF Stands
<1>10. q + Len(Encode[item]) = p + o[k + 1]  BY <1>3, <1>5, <1>6
<1> HIDE DEF o
<1> QED  BY <1>4, <1>6, <1>8, <1>9, <1>10 DEF Placed, o

\* Where the key and the value of an entry of a dictionary stand.
LEMMA EntryPlaced ==
  ASSUME Buffer, NEW n \in Nodes, IsDict(n), NEW p \in Nat, Placed(n, p), NEW k \in 0 .. Width(n) - 1
  PROVE  LET q   == p + Before(n)[k]
             key == n.dict[k + 1].key
             val == n.dict[k + 1].val
             r   == q + Len(Encode[key])
         IN  /\ q \in Nat /\ key \in Nodes /\ IsStr(key) /\ Placed(key, q)
             /\ r \in Nat /\ val \in Nodes /\ Placed(val, r)
             /\ r + Len(Encode[val]) = p + Before(n)[k + 1]
             /\ r + Len(Encode[val]) <= Len(text)
<1> DEFINE o == Before(n)
           q == p + o[k]
           key == n.dict[k + 1].key
           val == n.dict[k + 1].val
<1>1. Lays(n, o) /\ Width(n) \in Nat /\ ~IsList(n)  BY Layout, Kinds
<1>2. k \in 0 .. Width(n) /\ k + 1 \in 1 .. Width(n) /\ (k + 1) - 1 = k  BY <1>1
<1>3. /\ o \in [0 .. Width(n) -> Nat]
      /\ o[k + 1] = o[k] + Len(TextBy(Encode, n, k + 1))
      /\ Stands(TextBy(Encode, n, k + 1), Encode[n], o[k])
  BY <1>1, <1>2 DEF Lays
<1>4. key \in Nodes /\ val \in Nodes /\ IsStr(key)
  <2>1. k + 1 \in 1 .. Len(n.dict)  BY <1>1, <1>2 DEF Width, ItemsOf
  <2> QED  BY <2>1, Kinds
<1> DEFINE a == Encode[key]
           b == Encode[val]
           c == TextBy(Encode, n, k + 1)
           s == Encode[n]
           t == Whole(input)
           x == o[k]
           y == o[k + 1]
<1>5. c = a \o b  BY <1>1 DEF TextBy
<1>6. /\ a \in Bytes /\ b \in Bytes /\ s \in Bytes /\ t \in Bytes /\ x \in Nat /\ y \in Nat
      /\ y = x + Len(c) /\ Stands(c, s, x) /\ Stands(s, t, p) /\ q = p + x
  BY <1>2, <1>3, <1>4, EncodeEquation DEF Buffer, Placed
<1> HIDE DEF a, b, c, s, t, x, y, q
<1>7. c \in Bytes /\ Len(c) = Len(a) + Len(b) /\ Stands(a, c, 0) /\ Stands(b, c, Len(a))
  BY <1>5, <1>6, StandsFirst, StandsLast
<1>8. Len(a) \in Nat /\ Len(b) \in Nat /\ q \in Nat  BY <1>6, LenNat
<1>9. Stands(c, t, q)  BY <1>6, <1>7, StandsWithin
<1>10. Stands(a, t, q)
  <2>1. Stands(a, t, q + 0)  BY <1>6, <1>7, <1>8, <1>9, StandsWithin
  <2> QED  BY <1>8, <2>1
<1>11. Stands(b, t, q + Len(a))  BY <1>6, <1>7, <1>8, <1>9, StandsWithin
<1>12. (q + Len(a)) + Len(b) <= Len(t)  BY <1>11 DEF Stands
<1>13. (q + Len(a)) + Len(b) = p + y  BY <1>6, <1>7, <1>8
<1>14. Len(t) = Len(text)  BY BufferLen DEF t
<1>15. Placed(key, q) /\ Placed(val, q + Len(Encode[key]))
  BY <1>10, <1>11 DEF Placed, a, b, t
<1>16. (q + Len(Encode[key])) + Len(Encode[val]) = p + o[k + 1]  BY <1>13 DEF a, b, y
<1>17. (q + Len(Encode[key])) + Len(Encode[val]) <= Len(text)
  <2>1. (q + Len(a)) + Len(b) <= Len(text)  BY <1>12, <1>14
  <2> QED  BY <2>1 DEF a, b
<1>18. q + Len(Encode[key]) \in Nat
  <2>1. q + Len(a) \in Nat  BY <1>8
  <2> QED  BY <2>1 DEF a
<1> QED  BY <1>4, <1>8, <1>15, <1>16, <1>17, <1>18 DEF q, x
-----------------------------------------------------------------------------
(***************************************************************************)
(* The stack, and the path from the document to what is being decoded.     *)
(***************************************************************************)

LEMMA PushStack ==
  ASSUME NEW S, NEW st \in Seq(S), NEW f
  PROVE  /\ Len(st) \in Nat
         /\ Append(st, f) \in Seq(S \cup {f}) /\ Len(Append(st, f)) = Len(st) + 1
         /\ Append(st, f)[Len(st) + 1] = f
         /\ \A d \in 1 .. Len(st) : Append(st, f)[d] = st[d]
<1>1. st \in Seq(S \cup {f}) /\ f \in S \cup {f}  BY SeqWider
<1> QED  BY <1>1

LEMMA PopStack ==
  ASSUME NEW S, NEW st \in Seq(S), st # <<>>
  PROVE  /\ Len(st) \in Nat /\ Len(st) >= 1 /\ Last(st) = st[Len(st)]
         /\ Front(st) \in Seq(S) /\ Len(Front(st)) = Len(st) - 1
         /\ \A d \in 1 .. Len(st) - 1 : Front(st)[d] = st[d]
<1>1. Len(st) \in Nat /\ Len(st) >= 1  OBVIOUS
<1>2. \A d \in 1 .. Len(st) - 1 : st[d] \in S  OBVIOUS
<1>3. /\ SubSeq(st, 1, Len(st) - 1) \in Seq(S)
      /\ Len(SubSeq(st, 1, Len(st) - 1)) = Len(st) - 1
      /\ \A d \in 1 .. Len(st) - 1 : SubSeq(st, 1, Len(st) - 1)[d] = st[d]
  <2> DEFINE n == Len(st) - 1
  <2>1. n \in Int /\ n >= 0 /\ 1 \in Int /\ n - 1 + 1 = n  BY <1>1
  <2> HIDE DEF n
  <2>2. /\ SubSeq(st, 1, n) \in Seq(S) /\ Len(SubSeq(st, 1, n)) = (IF 1 <= n THEN n - 1 + 1 ELSE 0)
        /\ \A d \in 1 .. n - 1 + 1 : SubSeq(st, 1, n)[d] = st[1 + d - 1]
    BY <1>2, <2>1, SubSeqProperties DEF n
  <2>3. \A d \in 1 .. n : 1 + d - 1 = d  BY <2>1
  <2>4. Len(SubSeq(st, 1, n)) = n  BY <2>1, <2>2
  <2>5. \A d \in 1 .. n : SubSeq(st, 1, n)[d] = st[d]  BY <2>1, <2>2, <2>3
  <2> QED  BY <2>2, <2>4, <2>5 DEF n
<1> QED  BY <1>1, <1>3 DEF Front, Last

\* su is st with another frame on top.
Topped(su, st, f) ==
  /\ \E S : su \in Seq(S)
  /\ Len(su) = Len(st) /\ su[Len(st)] = f /\ su # <<>>
  /\ \A d \in 1 .. Len(st) - 1 : su[d] = st[d]

LEMMA TopStack ==
  ASSUME NEW S, NEW st \in Seq(S), st # <<>>, NEW f
  PROVE  Topped(Front(st) \o <<f>>, st, f)
<1> DEFINE a == Front(st)
           n == Len(st)
<1>1. a \in Seq(S) /\ n \in Nat /\ n >= 1 /\ Len(a) = n - 1 /\ \A d \in 1 .. n - 1 : a[d] = st[d]
  BY PopStack
<1>2. a \in Seq(S \cup {f}) /\ <<f>> \in Seq(S \cup {f})  BY <1>1, SeqWider
<1> HIDE DEF a, n
<1>3. a \o <<f>> \in Seq(S \cup {f}) /\ Len(a \o <<f>>) = n  BY <1>1, <1>2
<1>4. (a \o <<f>>)[n] = f  BY <1>1, <1>2
<1>5. \A d \in 1 .. n - 1 : (a \o <<f>>)[d] = a[d]  BY <1>1, <1>2
<1>6. a \o <<f>> # <<>>
  <2> DEFINE c == a \o <<f>>
  <2>1. Len(c) = n  BY <1>3
  <2> HIDE DEF c
  <2>2. c # <<>>  BY <1>1, <2>1
  <2> QED  BY <2>2 DEF c
<1> QED  BY <1>1, <1>3, <1>4, <1>5, <1>6 DEF a, n, Topped

\* A node on the path: where it stands, and how many of its items are done.
Spot == [node : Nodes, before : Nat, done : Nat]

Child(n, k) == IF IsList(n) THEN n.list[k] ELSE n.dict[k].val

\* The frame holds the first k items of n.
Holds(frame, n, k) ==
  /\ k \in 0 .. Width(n)
  /\ \/ IsList(n) /\ frame = [list |-> SubSeq(n.list, 1, k)]
     \/ IsDict(n) /\ \E key : frame = [dict |-> SubSeq(n.dict, 1, k), key |-> key]

\* It stands where it should, what is done of it has nothing empty, and it has
\* nothing empty that the document has not.
Sound(a) ==
  /\ Placed(a.node, a.before)
  /\ HasEmpty[a.node] => HasEmpty[input.doc]
  /\ \A k \in 1 .. a.done : ~HasEmpty[Child(a.node, k)]

\* b is the item after those in the frame of a.
Link(a, frame, b) ==
  /\ Holds(frame, a.node, a.done) /\ a.done < Width(a.node)
  /\ b.node = Child(a.node, a.done + 1)
  /\ IsList(a.node) => b.before = a.before + Before(a.node)[a.done]
  /\ IsDict(a.node) =>
       /\ frame.key = a.node.dict[a.done + 1].key
       /\ b.before = a.before + Before(a.node)[a.done] + Len(Encode[frame.key])

\* The path of n nodes.
Trail(t, n, st) ==
  /\ n \in Nat \ {0} /\ t \in [1 .. n -> Spot]
  /\ t[1].node = input.doc /\ t[1].before = 0
  /\ \A d \in 1 .. n : Sound(t[d])
  /\ \A d \in 1 .. n - 1 : Link(t[d], st[d], t[d + 1])

LEMMA TrailSame ==
  ASSUME NEW t, NEW n, NEW st, NEW su, Trail(t, n, st), \A d \in 1 .. n - 1 : su[d] = st[d]
  PROVE  Trail(t, n, su)
  BY DEF Trail

\* The path goes on to an item.
LEMMA TrailPush ==
  ASSUME NEW t, NEW n, NEW st, Trail(t, n, st), NEW b \in Spot, Sound(b), Link(t[n], st[n], b)
  PROVE  \E u : Trail(u, n + 1, st) /\ u[n + 1] = b
<1> DEFINE u == [d \in 1 .. n + 1 |-> IF d = n + 1 THEN b ELSE t[d]]
<1>1. n \in Nat \ {0} /\ n + 1 \in Nat \ {0} /\ t \in [1 .. n -> Spot]  BY DEF Trail
<1>2. u[n + 1] = b /\ \A d \in 1 .. n : u[d] = t[d]  BY <1>1
<1>3. u \in [1 .. n + 1 -> Spot]
  <2>1. \A d \in 1 .. n + 1 : d = n + 1 \/ d \in 1 .. n  BY <1>1
  <2> QED  BY <1>1, <2>1
<1> HIDE DEF u
<1>4. ASSUME NEW d \in 1 .. n + 1 PROVE Sound(u[d])
  <2>1. d = n + 1 \/ d \in 1 .. n  BY <1>1
  <2> QED  BY <1>2, <2>1 DEF Trail
<1>5. ASSUME NEW d \in 1 .. (n + 1) - 1 PROVE Link(u[d], st[d], u[d + 1])
  <2>1. d = n \/ d \in 1 .. n - 1  BY <1>1
  <2>2. CASE d = n  BY <1>1, <1>2, <2>2
  <2>3. CASE d \in 1 .. n - 1
    <3>1. d \in 1 .. n /\ d + 1 \in 1 .. n  BY <1>1, <2>3
    <3>2. Link(t[d], st[d], t[d + 1])  BY <2>3 DEF Trail
    <3> QED  BY <1>2, <3>1, <3>2
  <2> QED  BY <2>1, <2>2, <2>3
<1>6. u[1] = t[1]  BY <1>1, <1>2
<1>7. Trail(u, n + 1, st)  BY <1>1, <1>3, <1>4, <1>5, <1>6 DEF Trail
<1> QED  BY <1>2, <1>7

\* The path ends one node earlier, which has got further.
LEMMA TrailPop ==
  ASSUME NEW t, NEW n, NEW st, Trail(t, n, st), n >= 2, NEW a \in Spot, Sound(a),
         a.node = t[n - 1].node, a.before = t[n - 1].before
  PROVE  \E u : Trail(u, n - 1, st) /\ u[n - 1] = a
<1> DEFINE u == [d \in 1 .. n - 1 |-> IF d = n - 1 THEN a ELSE t[d]]
<1>1. n \in Nat \ {0} /\ n - 1 \in Nat \ {0} /\ t \in [1 .. n -> Spot]  BY DEF Trail
<1>2. u[n - 1] = a /\ \A d \in 1 .. n - 2 : u[d] = t[d]  BY <1>1
<1>3. u \in [1 .. n - 1 -> Spot]
  <2>1. \A d \in 1 .. n - 1 : d \in 1 .. n  BY <1>1
  <2> QED  BY <1>1, <2>1
<1> HIDE DEF u
<1>4. ASSUME NEW d \in 1 .. n - 1 PROVE Sound(u[d])
  <2>1. d = n - 1 \/ (d \in 1 .. n - 2 /\ d \in 1 .. n)  BY <1>1
  <2> QED  BY <1>2, <2>1 DEF Trail
<1>5. ASSUME NEW d \in 1 .. (n - 1) - 1 PROVE Link(u[d], st[d], u[d + 1])
  <2>1. d \in 1 .. n - 2 /\ d \in 1 .. n - 1  BY <1>1
  <2>2. Link(t[d], st[d], t[d + 1]) /\ u[d] = t[d]  BY <1>2, <2>1 DEF Trail
  <2>3. u[d + 1].node = t[d + 1].node /\ u[d + 1].before = t[d + 1].before
    <3>1. CASE d + 1 = n - 1  BY <1>2, <3>1
    <3>2. CASE d + 1 # n - 1
      <4>1. d + 1 \in 1 .. n - 2  BY <1>1, <2>1, <3>2
      <4> QED  BY <1>2, <4>1
    <3> QED  BY <3>1, <3>2
  <2> QED  BY <2>2, <2>3 DEF Link
<1>6. u[1].node = input.doc /\ u[1].before = 0
  <2>1. t[1].node = input.doc /\ t[1].before = 0  BY DEF Trail
  <2>2. CASE n - 1 = 1  BY <1>2, <2>1, <2>2
  <2>3. CASE n - 1 # 1
    <3>1. 1 \in 1 .. n - 2  BY <1>1, <2>3
    <3> QED  BY <1>2, <2>1, <3>1
  <2> QED  BY <2>2, <2>3
<1>7. Trail(u, n - 1, st)  BY <1>1, <1>3, <1>4, <1>5, <1>6 DEF Trail
<1> QED  BY <1>2, <1>7

\* The first items of a node.
LEMMA Firsts ==
  ASSUME NEW S, NEW q \in Seq(S), NEW k \in 0 .. Len(q)
  PROVE  /\ SubSeq(q, 1, k) \in Seq(S) /\ Len(SubSeq(q, 1, k)) = k
         /\ SubSeq(q, 1, k) = <<>> <=> k = 0
         /\ k = Len(q) => SubSeq(q, 1, k) = q
         /\ k < Len(q) => Append(SubSeq(q, 1, k), q[k + 1]) = SubSeq(q, 1, k + 1)
<1>1. Len(q) \in Nat /\ k \in Nat /\ \A x \in 1 .. k : q[x] \in S /\ 1 + x - 1 = x  OBVIOUS
<1>2. /\ SubSeq(q, 1, k) \in Seq(S) /\ Len(SubSeq(q, 1, k)) = k
      /\ \A x \in 1 .. k : SubSeq(q, 1, k)[x] = q[x]
  <2>1. k - 1 + 1 = k /\ 1 \in Int /\ k \in Int  BY <1>1
  <2>2. /\ SubSeq(q, 1, k) \in Seq(S) /\ Len(SubSeq(q, 1, k)) = (IF 1 <= k THEN k - 1 + 1 ELSE 0)
        /\ \A x \in 1 .. k - 1 + 1 : SubSeq(q, 1, k)[x] = q[1 + x - 1]
    BY <1>1, <2>1, SubSeqProperties
  <2>3. Len(SubSeq(q, 1, k)) = k  BY <1>1, <2>1, <2>2
  <2>4. \A x \in 1 .. k : SubSeq(q, 1, k)[x] = q[x]  BY <1>1, <2>1, <2>2
  <2> QED  BY <2>2, <2>3, <2>4
<1>3. SubSeq(q, 1, k) = <<>> <=> k = 0
  <2> DEFINE r == SubSeq(q, 1, k)
  <2>1. r \in Seq(S) /\ Len(r) = k  BY <1>2
  <2> HIDE DEF r
  <2>2. r = <<>> <=> k = 0  BY <2>1
  <2> QED  BY <2>2 DEF r
<1>4. k = Len(q) => SubSeq(q, 1, k) = q
  <2> DEFINE r == SubSeq(q, 1, k)
  <2>1. r \in Seq(S) /\ Len(r) = k /\ \A x \in 1 .. k : r[x] = q[x]  BY <1>2
  <2> HIDE DEF r
  <2>2. k = Len(q) => r = q  BY <2>1, SeqEqual
  <2> QED  BY <2>2 DEF r
<1>5. ASSUME k < Len(q) PROVE Append(SubSeq(q, 1, k), q[k + 1]) = SubSeq(q, 1, k + 1)
  <2> DEFINE m == k + 1
  <2>1. 1 \in 1 .. Len(q) /\ m \in 1 .. Len(q) /\ m - 1 = k  BY <1>1, <1>5
  <2> DEFINE r == SubSeq(q, 1, k)
  <2>2. r \in Seq(S)  BY <1>2
  <2> HIDE DEF m, r
  <2>3. SubSeq(q, 1, m) = SubSeq(q, 1, m - 1) \o <<q[m]>>  BY <2>1, SubSeqRecursiveSecond
  <2>4. SubSeq(q, 1, m - 1) = r  BY <2>1 DEF r
  <2>5. Append(r, q[m]) = r \o <<q[m]>>
    <3>1. q[m] \in S  BY <2>1
    <3> QED  BY <2>2, <3>1, AppendIsConcat
  <2>6. Append(r, q[m]) = SubSeq(q, 1, m)  BY <2>3, <2>4, <2>5
  <2> QED  BY <2>6 DEF m, r
<1> QED  BY <1>2, <1>3, <1>4, <1>5

LEMMA FrameOf ==
  ASSUME NEW n \in Nodes, NEW frame, NEW k, Holds(frame, n, k)
  PROVE  /\ IsList(n) \/ IsDict(n)
         /\ k \in Nat /\ k <= Width(n) /\ Width(n) \in Nat /\ Width(n) <= MaxItems
         /\ (IsList(frame) <=> IsList(n)) /\ Len(ItemsOf(frame)) = k
         /\ ItemsOf(frame) = <<>> <=> k = 0
         /\ k = Width(n) => Finished(frame) = n
<1>1. CASE IsList(n) /\ frame = [list |-> SubSeq(n.list, 1, k)]
  <2>1. n = [list |-> n.list] /\ n.list \in Seq(Nodes) /\ ~IsDict(n) /\ Len(n.list) <= MaxItems
    BY <1>1, Kinds
  <2>2. Width(n) = Len(n.list)  BY <1>1 DEF Width, ItemsOf
  <2>3. k \in 0 .. Len(n.list) /\ Len(n.list) \in Nat  BY <2>1, <2>2 DEF Holds
  <2>4. IsList(frame) /\ frame.list = SubSeq(n.list, 1, k)  BY <1>1 DEF IsList
  <2>5. ItemsOf(frame) = SubSeq(n.list, 1, k)  BY <2>4 DEF ItemsOf
  <2>6. /\ Len(SubSeq(n.list, 1, k)) = k
        /\ SubSeq(n.list, 1, k) = <<>> <=> k = 0
        /\ k = Len(n.list) => SubSeq(n.list, 1, k) = n.list
    BY <2>1, <2>3, Firsts
  <2>7. k = Width(n) => Finished(frame) = n
    BY <1>1, <2>1, <2>2, <2>4, <2>6 DEF Finished
  <2>8. Len(ItemsOf(frame)) = k /\ (ItemsOf(frame) = <<>> <=> k = 0)  BY <2>5, <2>6
  <2>9. Width(n) \in Nat /\ Width(n) <= MaxItems /\ k \in Nat /\ k <= Width(n)
    BY <2>1, <2>2, <2>3
  <2> QED  BY <1>1, <2>1, <2>4, <2>7, <2>8, <2>9
<1>2. CASE IsDict(n) /\ \E key : frame = [dict |-> SubSeq(n.dict, 1, k), key |-> key]
  <2>1. /\ n = [dict |-> n.dict] /\ n.dict \in Seq([key : Nodes, val : Nodes]) /\ ~IsList(n)
        /\ Len(n.dict) <= MaxItems
    BY <1>2, Kinds
  <2>2. Width(n) = Len(n.dict)  BY <2>1 DEF Width, ItemsOf
  <2>3. k \in 0 .. Len(n.dict) /\ Len(n.dict) \in Nat  BY <2>1, <2>2, LenProperties DEF Holds
  <2>4. ~IsList(frame) /\ frame.dict = SubSeq(n.dict, 1, k)
    <3> DEFINE r == SubSeq(n.dict, 1, k)
    <3>1. PICK key : frame = [dict |-> r, key |-> key]  BY <1>2
    <3> HIDE DEF r
    <3>2. ~IsList(frame) /\ frame.dict = r  BY <3>1 DEF IsList
    <3> QED  BY <3>2 DEF r
  <2>5. ItemsOf(frame) = SubSeq(n.dict, 1, k)  BY <2>4 DEF ItemsOf
  <2>6. /\ Len(SubSeq(n.dict, 1, k)) = k
        /\ SubSeq(n.dict, 1, k) = <<>> <=> k = 0
        /\ k = Len(n.dict) => SubSeq(n.dict, 1, k) = n.dict
    BY <2>1, <2>3, Firsts
  <2>7. k = Width(n) => Finished(frame) = n
    BY <1>2, <2>1, <2>2, <2>4, <2>6 DEF Finished
  <2>8. Len(ItemsOf(frame)) = k /\ (ItemsOf(frame) = <<>> <=> k = 0)  BY <2>5, <2>6
  <2>9. Width(n) \in Nat /\ Width(n) <= MaxItems /\ k \in Nat /\ k <= Width(n)
    BY <2>1, <2>2, <2>3
  <2> QED  BY <1>2, <2>1, <2>4, <2>7, <2>8, <2>9
<1> QED  BY <1>1, <1>2 DEF Holds

\* The next item is put in the frame.
LEMMA PutNext ==
  ASSUME NEW n \in Nodes, NEW frame, NEW k, Holds(frame, n, k), k < Width(n),
         IsDict(n) => frame.key = n.dict[k + 1].key
  PROVE  Holds(Put(frame, Child(n, k + 1)), n, k + 1)
<1> DEFINE val == Child(n, k + 1)
<1>0. k \in Nat /\ Width(n) \in Nat /\ (IsList(frame) <=> IsList(n))  BY FrameOf
<1>1. k + 1 \in 0 .. Width(n)  BY <1>0
<1>2. CASE IsList(n) /\ frame = [list |-> SubSeq(n.list, 1, k)]
  <2>1. n.list \in Seq(Nodes) /\ Width(n) = Len(n.list) /\ val = n.list[k + 1]
    BY <1>2, Kinds DEF Width, ItemsOf, Child
  <2>2. Append(SubSeq(n.list, 1, k), val) = SubSeq(n.list, 1, k + 1)
    <3>1. k \in 0 .. Len(n.list) /\ k < Len(n.list)  BY <1>0, <2>1
    <3> QED  BY <2>1, <3>1, Firsts
  <2>3. Put(frame, val) = [frame EXCEPT !.list = Append(frame.list, val)]  BY <1>0, <1>2 DEF Put
  <2> HIDE DEF val
  <2>4. Put(frame, val) = [list |-> SubSeq(n.list, 1, k + 1)]
    <3> DEFINE r == SubSeq(n.list, 1, k)
               more == SubSeq(n.list, 1, k + 1)
    <3>1. frame = [list |-> r] /\ Append(r, val) = more  BY <1>2, <2>2
    <3> HIDE DEF r, more
    <3>2. frame.list = r  BY <3>1
    <3>3. [frame EXCEPT !.list = more] = [list |-> more]  BY <3>1
    <3>4. Put(frame, val) = [list |-> more]  BY <2>3, <3>1, <3>2, <3>3
    <3> QED  BY <3>4 DEF more
  <2> QED  BY <1>1, <1>2, <2>4 DEF Holds, val
<1>3. CASE IsDict(n) /\ \E key : frame = [dict |-> SubSeq(n.dict, 1, k), key |-> key]
  <2>1. n.dict \in Seq([key : Nodes, val : Nodes]) /\ ~IsList(n)  BY <1>3, Kinds
  <2>2. Width(n) = Len(n.dict) /\ val = n.dict[k + 1].val  BY <2>1 DEF Width, ItemsOf, Child
  <2>3. k \in 0 .. Len(n.dict) /\ k < Len(n.dict) /\ k + 1 \in 1 .. Len(n.dict)  BY <1>0, <2>2
  <2>4. n.dict[k + 1] = [key |-> n.dict[k + 1].key, val |-> n.dict[k + 1].val]  BY <1>3, <2>3, Kinds
  <2>5. Append(SubSeq(n.dict, 1, k), n.dict[k + 1]) = SubSeq(n.dict, 1, k + 1)  BY <2>1, <2>3, Firsts
  <2>6. frame = [dict |-> SubSeq(n.dict, 1, k), key |-> frame.key] /\ frame.key = n.dict[k + 1].key
    BY <1>3
  <2>7. Put(frame, val) = [frame EXCEPT !.dict = Append(frame.dict, [key |-> frame.key, val |-> val])]
    BY <1>0, <2>1 DEF Put
  <2> HIDE DEF val
  <2>8. Put(frame, val) = [dict |-> Append(SubSeq(n.dict, 1, k), n.dict[k + 1]), key |-> frame.key]
    <3> DEFINE r == SubSeq(n.dict, 1, k)
               e == n.dict[k + 1]
    <3>1. frame = [dict |-> r, key |-> frame.key] /\ e = [key |-> frame.key, val |-> val]
      BY <2>2, <2>4, <2>6
    <3> HIDE DEF r, e
    <3>2. frame.dict = r  BY <3>1
    <3>3. Put(frame, val) = [frame EXCEPT !.dict = Append(r, e)]  BY <2>7, <3>1, <3>2
    <3>4. [frame EXCEPT !.dict = Append(r, e)] = [dict |-> Append(r, e), key |-> frame.key]
      BY <3>1
    <3> QED  BY <3>3, <3>4 DEF r, e
  <2>9. Put(frame, val) = [dict |-> SubSeq(n.dict, 1, k + 1), key |-> frame.key]  BY <2>5, <2>8
  <2> QED  BY <1>1, <1>3, <2>9 DEF Holds, val
<1> QED  BY <1>2, <1>3 DEF Holds
-----------------------------------------------------------------------------
(***************************************************************************)
(* The decoder.  While what it reads came, it is at the place of the       *)
(* document that the stack and what it returns say; once it has come to    *)
(* the zeros, it stays there and returns NULL at the end.                  *)
(***************************************************************************)

\* A call for a node begins.
Pending(st, d) ==
  \E t : /\ Trail(t, Len(st) + 1, st)
         /\ t[Len(st) + 1].done = 0 /\ d = t[Len(st) + 1].before + 1

\* The loop over the items of a node.
Filling(st, d) ==
  \E t : /\ Trail(t, Len(st), st)
         /\ Holds(st[Len(st)], t[Len(st)].node, t[Len(st)].done)
         /\ d = t[Len(st)].before + Before(t[Len(st)].node)[t[Len(st)].done] + 1

\* A call returns its node.
Returned(st, d, r) ==
  \E t : /\ Trail(t, Len(st) + 1, st)
         /\ r = t[Len(st) + 1].node /\ ~HasEmpty[r]
         /\ d = t[Len(st) + 1].before + Len(Encode[r]) + 1

Ready(d, r) == r = input.doc /\ ~HasEmpty[r] /\ d = Len(Encode[r]) + 1

Within(st, d, r, a) ==
  \/ a = "decode" /\ d <= input.sent + 1 /\ Pending(st, d)
  \/ a = "loop" /\ d <= input.sent + 1 /\ Filling(st, d)
  \/ a = "return" /\ d <= input.sent + 1 /\ Returned(st, d, r)
  \/ a = "decoded" /\ d <= input.sent + 1 /\ Ready(d, r)
  \/ a = "fault" /\ HasEmpty[input.doc]

Past(st, d, r, a) ==
  /\ d \in input.sent + 1 .. Len(text)
  /\ \/ a \in {"decode", "fault"}
     \/ a = "loop" /\ st # <<>>
     \/ a = "return" /\ (st = <<>> => r = NULL)
     \/ a = "decoded" /\ r = NULL

Decoding(st, d, r, a) ==
  /\ d \in Nat /\ \E S : st \in Seq(S)
  /\ Within(st, d, r, a) \/ Past(st, d, r, a)

\* The decoder's own variables.
Reader == Decoding(stack, data, result, at) /\ data_len = Len(text) - data + 1

\* No kind of node begins with a zero.
LEMMA ZeroBegins ==
  /\ "zero" \notin {"l", "d", "i"} \cup Digits /\ "zero" # "e" /\ "zero" \notin DOMAIN Value
  /\ "l" \notin Digits /\ "d" \notin Digits /\ "i" \notin Digits
  BY Values DEF Digits

\* Past what came, a call returns NULL.
LEMMA PastDecode ==
  ASSUME Buffer, Past(stack, data, result, at), data \in Nat, data_len = Len(text) - data + 1, Decode
  PROVE  /\ Past(stack', data', result', at') /\ data' = data /\ stack' = stack
         /\ data_len' = data_len
<1>1. data \in input.sent + 1 .. Len(text) /\ Len(text) \in Nat /\ at = "decode"
  BY BufferLen DEF Past, Decode
<1>2. Byte(data) = "zero"  BY <1>1, ZeroByte
<1>3. data_len # 0  BY <1>1
<1>4. Invalid
  BY <1>2, <1>3, ZeroBegins DEF Decode, NothingLeft, OpenList, OpenDict, DecodeInt, DecodeString
<1>5. /\ data' = data /\ data_len' = data_len /\ stack' = stack /\ result' = NULL /\ at' = "return"
  BY <1>4 DEF Invalid, Returns
<1> QED  BY <1>1, <1>5 DEF Past

\* And the loop asks for items until memory ends.
LEMMA PastItem ==
  ASSUME Buffer, Past(stack, data, result, at), data \in Nat, data_len = Len(text) - data + 1, Item,
         \E S : stack \in Seq(S)
  PROVE  /\ Past(stack', data', result', at') /\ data' = data /\ data_len' = data_len
         /\ \E S : stack' \in Seq(S)
<1>1. data \in input.sent + 1 .. Len(text) /\ Len(text) \in Nat /\ at = "loop" /\ stack # <<>>
  BY BufferLen DEF Past, Item
<1>2. PICK S : stack \in Seq(S)  OBVIOUS
<1>3. CASE Fault
  BY <1>1, <1>2, <1>3 DEF Fault, Past
<1>4. CASE at' = "decode" /\ UNCHANGED <<data, data_len, stack>>
  BY <1>1, <1>2, <1>4 DEF Past
<1> DEFINE s == DecodeStr(data, data_len)
<1>5. CASE /\ at' = "decode" /\ data' = s.data /\ data_len' = s.left
           /\ stack' = Front(stack) \o <<[Last(stack) EXCEPT !.key = s.node]>>
  <2>1. s.data = data /\ s.left = data_len - 0  BY <1>1, NoString
  <2> DEFINE f == [Last(stack) EXCEPT !.key = s.node]
  <2>2. stack' = Front(stack) \o <<f>>  BY <1>5
  <2> HIDE DEF f, s
  <2>3. \E T : stack' \in Seq(T)  BY <1>1, <1>2, <2>2, TopStack DEF Topped
  <2> QED  BY <1>1, <1>5, <2>1, <2>3 DEF Past
<1> QED  BY <1>3, <1>4, <1>5 DEF Item, OutOfMemory

\* A node that is not whole is a dictionary's or a list's, which go on.
LEMMA NotLast ==
  ASSUME Buffer, NEW t, NEW n, NEW st, Trail(t, n, st), input.sent < Len(text), ~IsDict(t[n].node)
  PROVE  t[n].before + Len(Encode[t[n].node]) + 1 <= Len(text)
<1>1. /\ n \in Nat \ {0} /\ t \in [1 .. n -> Spot] /\ t[1].node = input.doc
      /\ \A d \in 1 .. n : Sound(t[d])
      /\ \A d \in 1 .. n - 1 : Link(t[d], st[d], t[d + 1])
  BY DEF Trail
<1>2. n # 1  BY <1>1 DEF Buffer
<1> DEFINE a == t[n - 1]
           b == t[n]
           k == a.done
<1>3. a \in Spot /\ b \in Spot /\ Sound(a) /\ Sound(b) /\ Link(a, st[n - 1], b)
  <2>1. n - 1 \in 1 .. n /\ n \in 1 .. n /\ n - 1 \in 1 .. n - 1 /\ (n - 1) + 1 = n  BY <1>1, <1>2
  <2> QED  BY <1>1, <2>1
<1> HIDE DEF a, b
<1>4. /\ a.node \in Nodes /\ a.before \in Nat /\ b.node \in Nodes /\ b.before \in Nat
      /\ Placed(a.node, a.before) /\ k \in 0 .. Width(a.node) - 1
      /\ k \in Nat /\ Width(a.node) \in Nat /\ (IsList(a.node) \/ IsDict(a.node))
      /\ k + 1 \in 0 .. Width(a.node)
  <2>1. Holds(st[n - 1], a.node, k) /\ k < Width(a.node) /\ Placed(a.node, a.before)
    BY <1>3 DEF Link, Sound
  <2>2. a.node \in Nodes /\ a.before \in Nat /\ b.node \in Nodes /\ b.before \in Nat /\ k \in Nat
    BY <1>3 DEF Spot
  <2>3. Width(a.node) \in Nat /\ (IsList(a.node) \/ IsDict(a.node))  BY <2>1, <2>2, FrameOf
  <2> QED  BY <2>1, <2>2, <2>3
<1>5. b.before + Len(Encode[b.node]) = a.before + Before(a.node)[k + 1]
  <2>1. CASE IsList(a.node)
    <3>1. b.node = a.node.list[k + 1] /\ b.before = a.before + Before(a.node)[k]
      BY <1>3, <2>1 DEF Link, Child
    <3> DEFINE item == a.node.list[k + 1]
               q    == a.before + Before(a.node)[k]
    <3>2. q + Len(Encode[item]) = a.before + Before(a.node)[k + 1]  BY <1>4, <2>1, ItemPlaced
    <3> QED  BY <3>1, <3>2
  <2>2. CASE IsDict(a.node)
    <3>1. ~IsList(a.node)  BY <1>4, <2>2, Kinds
    <3>2. /\ b.node = a.node.dict[k + 1].val
          /\ b.before = a.before + Before(a.node)[k] + Len(Encode[a.node.dict[k + 1].key])
      BY <1>3, <2>2, <3>1 DEF Link, Child
    <3> DEFINE key == a.node.dict[k + 1].key
               val == a.node.dict[k + 1].val
               q   == a.before + Before(a.node)[k]
               r   == q + Len(Encode[key])
    <3>3. r + Len(Encode[val]) = a.before + Before(a.node)[k + 1]  BY <1>4, <2>2, EntryPlaced
    <3> QED  BY <3>2, <3>3
  <2> QED  BY <1>4, <2>1, <2>2
<1>6. Before(a.node)[k + 1] \in Nat /\ Before(a.node)[k + 1] + 1 <= Len(Encode[a.node])
  BY <1>4, BeforeGrows
<1>7. a.before + Len(Encode[a.node]) <= Len(text) /\ Len(text) \in Nat /\ Len(Encode[a.node]) \in Nat
  BY <1>4, BufferLen, FirstByte DEF Placed, Stands
<1> DEFINE x == Before(a.node)[k + 1]
<1>8. x \in Nat /\ b.before + Len(Encode[b.node]) = a.before + x /\ x + 1 <= Len(Encode[a.node])
  BY <1>5, <1>6
<1> HIDE DEF x, k
<1>9. b.before + Len(Encode[b.node]) + 1 <= Len(text)
  <2>1. Len(Encode[b.node]) \in Nat  BY <1>4, FirstByte
  <2> DEFINE la == Len(Encode[a.node])
             lb == Len(Encode[b.node])
             pa == a.before
             pb == b.before
             lt == Len(text)
  <2>2. /\ la \in Nat /\ lb \in Nat /\ pa \in Nat /\ pb \in Nat /\ lt \in Nat /\ x \in Nat
        /\ pa + la <= lt /\ pb + lb = pa + x /\ x + 1 <= la
    BY <1>4, <1>7, <1>8, <2>1
  <2> HIDE DEF la, lb, pa, pb, lt
  <2>3. pb + lb + 1 <= lt  BY <2>2
  <2> QED  BY <2>3 DEF la, lb, pa, pb, lt
<1> QED  BY <1>9 DEF b

\* What the last node of a path has.
LEMMA TrailEnd ==
  ASSUME Buffer, NEW t, NEW n, NEW st, Trail(t, n, st)
  PROVE  /\ n \in Nat /\ n >= 1 /\ t[n] \in Spot /\ t[n].node \in Nodes /\ t[n].before \in Nat
         /\ t[n].done \in Nat /\ Sound(t[n]) /\ Placed(t[n].node, t[n].before)
         /\ Len(Encode[t[n].node]) \in Nat /\ Len(Encode[t[n].node]) >= 2
         /\ t[n].before + Len(Encode[t[n].node]) <= Len(text)
<1>1. n \in Nat /\ n >= 1 /\ n \in 1 .. n /\ t[n] \in Spot /\ Sound(t[n])  BY DEF Trail
<1>2. t[n].node \in Nodes /\ t[n].before \in Nat /\ t[n].done \in Nat  BY <1>1 DEF Spot
<1>3. Placed(t[n].node, t[n].before)  BY <1>1 DEF Sound
<1>4. t[n].before + Len(Encode[t[n].node]) <= Len(text)  BY <1>3, BufferLen DEF Placed, Stands
<1> QED  BY <1>1, <1>2, <1>3, <1>4, FirstByte

\* A list or a dictionary opens.
LEMMA Opening ==
  ASSUME Buffer, NEW st, \E S : st \in Seq(S), NEW t, Trail(t, Len(st) + 1, st),
         t[Len(st) + 1].done = 0, NEW frame, Holds(frame, t[Len(st) + 1].node, 0),
         t[Len(st) + 1].before + 2 <= input.sent + 1
  PROVE  /\ Filling(Append(st, frame), t[Len(st) + 1].before + 2)
         /\ \E S : Append(st, frame) \in Seq(S)
<1> DEFINE n == Len(st) + 1
           su == Append(st, frame)
           node == t[n].node
<1>1. PICK S : st \in Seq(S)  OBVIOUS
<1>2. /\ Len(st) \in Nat /\ su \in Seq(S \cup {frame}) /\ Len(su) = n /\ su[n] = frame
      /\ \A d \in 1 .. n - 1 : su[d] = st[d]
  <2>1. /\ Len(st) \in Nat
        /\ Append(st, frame) \in Seq(S \cup {frame}) /\ Len(Append(st, frame)) = Len(st) + 1
        /\ Append(st, frame)[Len(st) + 1] = frame
        /\ \A d \in 1 .. Len(st) : Append(st, frame)[d] = st[d]
    BY <1>1, PushStack
  <2>2. n - 1 = Len(st)  BY <2>1
  <2> HIDE DEF su
  <2> QED  BY <2>1, <2>2 DEF su
<1> HIDE DEF su, n
<1>3. Trail(t, n, st) /\ t[n].done = 0 /\ Holds(frame, node, 0)  BY DEF n
<1>4. Trail(t, n, su)  BY <1>2, <1>3, TrailSame
<1>5. node \in Nodes /\ t[n].before \in Nat  BY <1>3, TrailEnd
<1>6. Before(node)[0] = 1
  <2>1. IsList(node) \/ IsDict(node)  BY <1>3 DEF Holds
  <2> QED  BY <1>5, <2>1, Layout DEF Lays
<1>7. t[n].before + 2 = t[n].before + Before(node)[0] + 1  BY <1>5, <1>6
<1>8. Filling(su, t[n].before + 2)  BY <1>2, <1>3, <1>4, <1>7 DEF Filling
<1> QED  BY <1>2, <1>8 DEF su, n

\* The first frame.
LEMMA NoItems ==
  ASSUME NEW n \in Nodes
  PROVE  /\ IsList(n) => Holds([list |-> <<>>], n, 0)
         /\ IsDict(n) => Holds([dict |-> <<>>, key |-> NULL], n, 0)
<1>1. ASSUME IsList(n) PROVE Holds([list |-> <<>>], n, 0)
  <2>1. n.list \in Seq(Nodes) /\ Width(n) = Len(n.list)  BY <1>1, Kinds DEF Width, ItemsOf
  <2>2. SubSeq(n.list, 1, 0) = <<>> /\ 0 \in 0 .. Len(n.list)
    <3>1. 0 \in 0 .. Len(n.list)  BY <2>1
    <3> QED  BY <2>1, <3>1, Firsts
  <2> QED  BY <1>1, <2>1, <2>2 DEF Holds
<1>2. ASSUME IsDict(n) PROVE Holds([dict |-> <<>>, key |-> NULL], n, 0)
  <2>1. n.dict \in Seq([key : Nodes, val : Nodes]) /\ ~IsList(n)  BY <1>2, Kinds
  <2>2. Width(n) = Len(n.dict)  BY <2>1 DEF Width, ItemsOf
  <2>3. 0 \in 0 .. Len(n.dict)  BY <2>1, LenProperties
  <2>4. SubSeq(n.dict, 1, 0) = <<>>  BY <2>1, <2>3, Firsts
  <2>5. [dict |-> <<>>, key |-> NULL] = [dict |-> SubSeq(n.dict, 1, 0), key |-> NULL]  BY <2>4
  <2> QED  BY <1>2, <2>2, <2>3, <2>5 DEF Holds
<1> QED  BY <1>1, <1>2

\* A call for a node.
LEMMA DecodeWithin ==
  ASSUME Buffer, \E S : stack \in Seq(S), data \in Nat, data_len = Len(text) - data + 1,
         data <= input.sent + 1, Pending(stack, data), Decode
  PROVE  Decoding(stack', data', result', at') /\ data_len' = Len(text) - data' + 1
<1> DEFINE n == Len(stack) + 1
<1>1. PICK t : Trail(t, n, stack) /\ t[n].done = 0 /\ data = t[n].before + 1  BY DEF Pending
<1> HIDE DEF n
<1> DEFINE node == t[n].node
           p == t[n].before
           size == Len(text)
           sent == input.sent
           long == Len(Encode[node])
<1>2. /\ node \in Nodes /\ p \in Nat /\ Placed(node, p) /\ long \in Nat /\ long >= 2
      /\ p + long <= size /\ data = p + 1
  BY <1>1, TrailEnd
<1>3. size \in Nat /\ sent \in Nat /\ sent <= size /\ at = "decode"  BY BufferLen DEF Decode
<1> HIDE DEF node, p, size, sent, long
<1>4. CASE data > sent
  <2>1. data \in sent + 1 .. size  BY <1>2, <1>3, <1>4
  <2>2. Past(stack, data, result, at)  BY <1>3, <2>1 DEF Past, sent, size
  <2>3. /\ Past(stack', data', result', at') /\ data' = data /\ stack' = stack
        /\ data_len' = data_len
    BY <2>2, PastDecode
  <2> QED  BY <2>3 DEF Decoding
<1>5. CASE data <= sent
  <2>1. Byte(data) = Encode[node][1]
    <3>1. 1 \in 1 .. Len(Encode[node]) /\ p + 1 <= input.sent  BY <1>2, <1>5 DEF sent, long
    <3>2. Byte(p + 1) = Encode[node][1]  BY <1>2, <3>1, PlacedByte
    <3> QED  BY <1>2, <3>2
  <2>2. data_len = size - p /\ data_len # 0  BY <1>2, <1>3 DEF size
  <2>3. \/ OpenList \/ OpenDict \/ DecodeInt \/ DecodeString \/ Invalid
    BY <2>2 DEF Decode, NothingLeft
  <2>4. CASE IsList(node)
    <3>1. Byte(data) = "l"  BY <1>2, <2>1, <2>4, FirstByte
    <3>2. OpenList
      BY <2>3, <3>1, ZeroBegins DEF OpenDict, DecodeInt, DecodeString, Invalid
    <3> DEFINE frame == [list |-> <<>>]
    <3>3. stack' = Append(stack, frame) /\ at' = "loop" /\ data' = data + 1 /\ data_len' = data_len - 1
      BY <3>2 DEF OpenList, Opens, Takes
    <3>4. Holds(frame, node, 0)  BY <1>2, <2>4, NoItems
    <3> HIDE DEF frame
    <3>5. data' = p + 2 /\ p + 2 <= sent + 1 /\ data' \in Nat  BY <1>2, <1>3, <1>5, <3>3
    <3>6. Filling(stack', data') /\ \E S : stack' \in Seq(S)
      BY <1>1, <3>3, <3>4, <3>5, Opening DEF n, p, sent, node
    <3>7. data_len' = size - data' + 1  BY <1>2, <1>3, <2>2, <3>3, <3>5
    <3> QED  BY <3>3, <3>5, <3>6, <3>7 DEF Decoding, Within, size, sent
  <2>5. CASE IsDict(node)
    <3>1. Byte(data) = "d"  BY <1>2, <2>1, <2>5, FirstByte
    <3>2. OpenDict
      BY <2>3, <3>1, ZeroBegins DEF OpenList, DecodeInt, DecodeString, Invalid
    <3> DEFINE frame == [dict |-> <<>>, key |-> NULL]
    <3>3. stack' = Append(stack, frame) /\ at' = "loop" /\ data' = data + 1 /\ data_len' = data_len - 1
      BY <3>2 DEF OpenDict, Opens, Takes
    <3>4. Holds(frame, node, 0)  BY <1>2, <2>5, NoItems
    <3> HIDE DEF frame
    <3>5. data' = p + 2 /\ p + 2 <= sent + 1 /\ data' \in Nat  BY <1>2, <1>3, <1>5, <3>3
    <3>6. Filling(stack', data') /\ \E S : stack' \in Seq(S)
      BY <1>1, <3>3, <3>4, <3>5, Opening DEF n, p, sent, node
    <3>7. data_len' = size - data' + 1  BY <1>2, <1>3, <2>2, <3>3, <3>5
    <3> QED  BY <3>3, <3>5, <3>6, <3>7 DEF Decoding, Within, size, sent
  <2>6. CASE IsInt(node)
    <3>1. Byte(data) = "i"  BY <1>2, <2>1, <2>6, FirstByte
    <3>2. DecodeInt
      BY <2>3, <3>1, ZeroBegins DEF OpenList, OpenDict, DecodeString, Invalid
    <3>3. /\ long = 3 /\ node.int \in DOMAIN Value /\ node = [int |-> node.int]
          /\ Encode[node][2] = node.int /\ Encode[node][3] = "e"
          /\ 2 \in 1 .. Len(Encode[node]) /\ 3 \in 1 .. Len(Encode[node])
      <4>1. /\ Len(Encode[node]) = 3 /\ node.int \in DOMAIN Value /\ node = [int |-> node.int]
            /\ Encode[node][2] = node.int /\ Encode[node][3] = "e"
        BY <1>2, <2>6, NumberText
      <4>2. 2 \in 1 .. 3 /\ 3 \in 1 .. 3  OBVIOUS
      <4> QED  BY <4>1, <4>2 DEF long
    <3>a. long = 3  BY <3>3
    <3>4. ~HasEmpty[node]
      <4>1. ~IsList(node) /\ ~IsDict(node)  BY <1>2, <2>6, Kinds
      <4> QED  BY <1>2, <4>1, EmptyEquation DEF Empty
    <3> DEFINE N == Number(data + 1)
    <3>5. IF Byte(N.next) = "e"
          THEN Takes(N.next + 1 - data) /\ Returns([int |-> N.int])
          ELSE Takes(N.next - data) /\ Returns(NULL)
      BY <3>2 DEF DecodeInt, NumberTaken
    <3>6. CASE p + 2 > sent
      <4>1. data + 1 = p + 2 /\ p + 2 \in sent + 1 .. size  BY <1>2, <1>3, <1>5, <3>a, <3>6
      <4>2. Byte(data + 1) = "zero"  BY <4>1, ZeroByte DEF sent, size
      <4>3. N = [int |-> "0", next |-> data + 1]  BY <4>2, ZeroBegins DEF Number
      <4>4. N.next = data + 1 /\ Byte(N.next) # "e"  BY <4>2, <4>3, ZeroBegins
      <4> HIDE DEF N
      <4>5. Takes((data + 1) - data) /\ Returns(NULL)  BY <3>5, <4>4
      <4>6. (data + 1) - data = 1  OBVIOUS
      <4>7. /\ data' = data + 1 /\ data_len' = data_len - 1 /\ result' = NULL /\ at' = "return"
            /\ stack' = stack
        BY <4>5, <4>6 DEF Takes, Returns
      <4>8. data' \in sent + 1 .. size /\ data' \in Nat /\ data_len' = size - data' + 1
        BY <1>2, <1>3, <2>2, <4>1, <4>7
      <4> QED  BY <4>7, <4>8 DEF Decoding, Past, sent, size
    <3>7. CASE p + 2 <= sent
      <4>1. data + 1 = p + 2 /\ (data + 1) + 1 = p + 3  BY <1>2
      <4>2. Byte(p + 2) = node.int  BY <1>2, <3>3, <3>7, PlacedByte DEF sent
      <4>3. N = [int |-> node.int, next |-> p + 3]  BY <3>3, <4>1, <4>2 DEF Number
      <4>4. N.next = p + 3 /\ N.int = node.int  BY <4>3
      <4> HIDE DEF N
      <4>5. CASE p + 3 > sent
        <5>1. p + 3 \in sent + 1 .. size  BY <1>2, <1>3, <3>a, <3>7, <4>5
        <5>2. Byte(p + 3) = "zero"  BY <5>1, ZeroByte DEF sent, size
        <5>3. Takes((p + 3) - data) /\ Returns(NULL)  BY <3>5, <4>4, <5>2, ZeroBegins
        <5>4. (p + 3) - data = 2  BY <1>2
        <5>5. /\ data' = data + 2 /\ data_len' = data_len - 2 /\ result' = NULL /\ at' = "return"
              /\ stack' = stack
          BY <5>3, <5>4 DEF Takes, Returns
        <5>6. data' \in sent + 1 .. size /\ data' \in Nat /\ data_len' = size - data' + 1
          BY <1>2, <1>3, <2>2, <5>1, <5>5
        <5> QED  BY <5>5, <5>6 DEF Decoding, Past, sent, size
      <4>6. CASE p + 3 <= sent
        <5>1. Byte(p + 3) = "e"  BY <1>2, <3>3, <4>6, PlacedByte DEF sent
        <5>2. Takes((p + 3) + 1 - data) /\ Returns(node)  BY <3>3, <3>5, <4>4, <5>1
        <5>3. (p + 3) + 1 - data = 3  BY <1>2
        <5>4. /\ data' = data + 3 /\ data_len' = data_len - 3 /\ result' = node /\ at' = "return"
              /\ stack' = stack
          BY <5>2, <5>3 DEF Takes, Returns
        <5>5. data' = p + long + 1 /\ data' \in Nat /\ data' <= sent + 1 /\ data_len' = size - data' + 1
          <6>1. data' = p + 4  BY <1>2, <5>4
          <6>2. p + long + 1 = p + 4 /\ p + 4 \in Nat /\ p + 4 <= sent + 1
            BY <1>2, <1>3, <3>a, <4>6
          <6>3. data_len' = size - (p + 4) + 1  BY <1>2, <1>3, <2>2, <5>4
          <6> QED  BY <6>1, <6>2, <6>3
        <5>6. Returned(stack', data', result')
          BY <1>1, <3>4, <5>4, <5>5 DEF Returned, n, node, p, long
        <5> QED  BY <5>4, <5>5, <5>6 DEF Decoding, Within, sent, size
      <4> QED  BY <1>2, <1>3, <4>5, <4>6
    <3> QED  BY <1>2, <1>3, <3>6, <3>7
  <2>7. CASE IsStr(node)
    <3>1. Byte(data) \in Digits  BY <1>2, <2>1, <2>7, FirstByte
    <3>2. DecodeString
      BY <2>3, <3>1, ZeroBegins DEF OpenList, OpenDict, DecodeInt, Invalid
    <3> DEFINE s == DecodeStr(p + 1, Len(text) - p)
    <3>3. DecodeStr(data, data_len) = s  BY <1>2, <2>2 DEF size
    <3>4. /\ data' = s.data /\ data_len' = s.left /\ at' = "return" /\ stack' = stack
          /\ s.node # NULL => result' = s.node
      BY <3>2, <3>3 DEF DecodeString, Returns
    <3>5. /\ s.data \in Nat /\ s.left = size - s.data + 1
          /\ \/ s.node = node /\ s.data = p + long + 1 /\ s.data <= sent + 1
             \/ s.data \in sent + 1 .. p + long + 1 /\ sent < p + long
      <4>1. p + 1 <= input.sent  BY <1>2, <1>5 DEF sent
      <4> HIDE DEF s
      <4> QED  BY <1>2, <2>7, <4>1, ReadString DEF s, size, sent, long
    <3> HIDE DEF s
    <3>6. CASE s.node = node /\ s.data = p + long + 1 /\ s.data <= sent + 1
      <4>1. ~HasEmpty[node]
        <5>1. ~IsList(node) /\ ~IsDict(node)  BY <1>2, <2>7, Kinds
        <5> QED  BY <1>2, <5>1, EmptyEquation DEF Empty
      <4>2. node # NULL  BY <2>7 DEF IsStr, NULL
      <4>3. Returned(stack', data', result')
        BY <1>1, <3>4, <3>6, <4>1, <4>2 DEF Returned, n, node, p, long
      <4> QED  BY <3>4, <3>5, <3>6, <4>3 DEF Decoding, Within, sent, size
    <3>7. CASE s.data \in sent + 1 .. p + long + 1 /\ sent < p + long
      <4>1. p + long + 1 <= size
        <5>1. input.sent < Len(text)  BY <1>2, <1>3, <3>7 DEF sent, size
        <5>2. ~IsDict(t[n].node)  BY <1>2, <2>7, Kinds DEF node
        <5> QED  BY <1>1, <5>1, <5>2, NotLast DEF node, p, long, size
      <4>2. data' \in sent + 1 .. size  BY <1>2, <1>3, <3>4, <3>5, <3>7, <4>1
      <4>3. stack # <<>>
        <5> SUFFICES ASSUME stack = <<>> PROVE FALSE  OBVIOUS
        <5>1. n = 1  BY DEF n
        <5>2. input.sent < Len(text)  BY <1>2, <1>3, <3>7 DEF sent, size
        <5>3. IsDict(node)  BY <1>1, <5>1, <5>2 DEF Buffer, Trail, node
        <5> QED  BY <1>2, <2>7, <5>3, Kinds
      <4> QED  BY <3>4, <3>5, <4>2, <4>3 DEF Decoding, Past, sent, size
    <3> QED  BY <3>5, <3>6, <3>7
  <2> QED  BY <1>2, <2>4, <2>5, <2>6, <2>7, Kinds
<1> QED  BY <1>2, <1>3, <1>4, <1>5

\* Where the loop over a node's items is.
LEMMA AtItem ==
  ASSUME Buffer, NEW n \in Nodes, NEW p \in Nat, Placed(n, p), IsList(n) \/ IsDict(n),
         NEW k \in 0 .. Width(n), NEW d, d = p + Before(n)[k] + 1, d <= input.sent + 1
  PROVE  /\ d \in Nat /\ d >= 1 /\ d <= Len(text)
         /\ d <= input.sent => (Byte(d) = "e" <=> k = Width(n))
         /\ k = Width(n) => d = p + Len(Encode[n])
<1> DEFINE x == Before(n)[k]
           long == Len(Encode[n])
           size == Len(text)
           sent == input.sent
<1>1. /\ x \in Nat /\ x + 1 <= long /\ long \in Nat /\ p + long <= size /\ size \in Nat
      /\ sent \in Nat /\ sent <= size /\ d = p + x + 1
  BY BeforeGrows, FirstByte, BufferLen DEF Placed, Stands
<1> HIDE DEF x, long, size, sent
<1>2. d \in Nat /\ d >= 1 /\ d <= size  BY <1>1
<1>3. /\ k = Width(n) => long = x + 1
      /\ Encode[n][long] = "e"
      /\ Width(n) \in Nat
  <2>1. Lays(n, Before(n)) /\ Width(n) \in Nat  BY Layout
  <2> QED  BY <2>1 DEF Lays, x, long
<1>4. k = Width(n) => d = p + long  BY <1>1, <1>3
<1>5. ASSUME d <= sent, k = Width(n) PROVE Byte(d) = "e"
  <2>1. long \in 1 .. Len(Encode[n]) /\ p + long <= input.sent
    BY <1>1, <1>4, <1>5 DEF long, sent
  <2>2. Byte(p + long) = Encode[n][long]  BY <2>1, PlacedByte
  <2> QED  BY <1>3, <1>4, <1>5, <2>2
<1>6. ASSUME d <= sent, k # Width(n) PROVE Byte(d) # "e"
  <2>1. k \in 0 .. Width(n) - 1  BY <1>3, <1>6
  <2>2. PICK item \in Nodes : Placed(item, p + x)
    <3>1. CASE IsList(n)  BY <2>1, <3>1, ItemPlaced DEF x
    <3>2. CASE IsDict(n)  BY <2>1, <3>2, EntryPlaced DEF x
    <3> QED  BY <3>1, <3>2
  <2>3. Len(Encode[item]) \in Nat /\ Len(Encode[item]) >= 2 /\ Encode[item][1] # "e"
    BY FirstByte
  <2>4. 1 \in 1 .. Len(Encode[item]) /\ p + x \in Nat /\ (p + x) + 1 <= input.sent
    <3>1. 1 \in 1 .. Len(Encode[item])  BY <2>3
    <3>2. p + x \in Nat /\ (p + x) + 1 <= sent  BY <1>1, <1>6
    <3> QED  BY <3>1, <3>2 DEF sent
  <2>5. Byte((p + x) + 1) = Encode[item][1]  BY <2>2, <2>4, PlacedByte
  <2>6. (p + x) + 1 = d  BY <1>1
  <2> QED  BY <2>3, <2>5, <2>6
<1> QED  BY <1>2, <1>4, <1>5, <1>6 DEF long, size, sent

\* A node whose items have nothing empty, and are some, has nothing empty.
LEMMA EmptyItems ==
  ASSUME NEW n \in Nodes, IsList(n) \/ IsDict(n)
  PROVE  HasEmpty[n] <=> (Width(n) = 0 \/ \E k \in 1 .. Width(n) : HasEmpty[Child(n, k)])
<1>1. CASE IsList(n)
  <2>1. n.list \in Seq(Nodes) /\ ~IsDict(n) /\ Width(n) = Len(n.list)
    BY <1>1, Kinds DEF Width, ItemsOf
  <2>2. n.list = <<>> <=> Width(n) = 0  BY <2>1
  <2>3. \A k \in 1 .. Width(n) : Child(n, k) = n.list[k]  BY <1>1 DEF Child
  <2>4. HasEmpty[n] <=> n.list = <<>> \/ \E k \in 1 .. Len(n.list) : HasEmpty[n.list[k]]
    BY <1>1, <2>1, EmptyEquation DEF Empty
  <2> QED  BY <2>1, <2>2, <2>3, <2>4
<1>2. CASE IsDict(n)
  <2>1. n.dict \in Seq([key : Nodes, val : Nodes]) /\ ~IsList(n)  BY <1>2, Kinds
  <2>2. Width(n) = Len(n.dict)  BY <2>1 DEF Width, ItemsOf
  <2>3. n.dict = <<>> <=> Width(n) = 0
    <3> DEFINE R == [key : Nodes, val : Nodes]
    <3>1. n.dict \in Seq(R)  BY <2>1
    <3> HIDE DEF R
    <3> QED  BY <2>2, <3>1
  <2>4. \A k \in 1 .. Width(n) : Child(n, k) = n.dict[k].val  BY <2>1 DEF Child
  <2>5. HasEmpty[n] <=> n.dict = <<>> \/ \E k \in 1 .. Len(n.dict) : HasEmpty[n.dict[k].val]
    BY <1>2, <2>1, EmptyEquation DEF Empty
  <2> QED  BY <2>2, <2>3, <2>4, <2>5
<1> QED  BY <1>1, <1>2

\* What a loop knows.
LEMMA FillingIs ==
  ASSUME Buffer, NEW S, stack \in Seq(S), Filling(stack, data), data <= input.sent + 1
  PROVE  \E t : LET n    == Len(stack)
                    node == t[n].node
                    p    == t[n].before
                    k    == t[n].done
                IN  /\ Trail(t, n, stack) /\ Holds(Last(stack), node, k)
                    /\ n \in Nat /\ n >= 1 /\ stack # <<>> /\ Last(stack) = stack[n]
                    /\ node \in Nodes /\ p \in Nat /\ Placed(node, p) /\ Sound(t[n])
                    /\ k \in 0 .. Width(node) /\ Width(node) \in Nat /\ Width(node) <= MaxItems
                    /\ IsList(node) \/ IsDict(node)
                    /\ data = p + Before(node)[k] + 1
                    /\ data \in Nat /\ data >= 1 /\ data <= Len(text)
                    /\ data <= input.sent => (Byte(data) = "e" <=> k = Width(node))
                    /\ k = Width(node) => data = p + Len(Encode[node])
<1> DEFINE n == Len(stack)
<1>1. PICK t : /\ Trail(t, n, stack) /\ Holds(stack[n], t[n].node, t[n].done)
               /\ data = t[n].before + Before(t[n].node)[t[n].done] + 1
  BY DEF Filling
<1>2. /\ n \in Nat /\ n >= 1 /\ t[n].node \in Nodes /\ t[n].before \in Nat
      /\ Placed(t[n].node, t[n].before) /\ Sound(t[n])
  BY <1>1, TrailEnd
<1>3. stack # <<>>  BY <1>2
<1>4. Last(stack) = stack[n]  BY <1>3, PopStack
<1> HIDE DEF n
<1>5. /\ t[n].done \in 0 .. Width(t[n].node) /\ Width(t[n].node) \in Nat
      /\ Width(t[n].node) <= MaxItems /\ (IsList(t[n].node) \/ IsDict(t[n].node))
  <2>1. t[n].done \in 0 .. Width(t[n].node)  BY <1>1 DEF Holds
  <2> QED  BY <1>1, <1>2, <2>1, FrameOf
<1>6. /\ data \in Nat /\ data >= 1 /\ data <= Len(text)
      /\ data <= input.sent => (Byte(data) = "e" <=> t[n].done = Width(t[n].node))
      /\ t[n].done = Width(t[n].node) => data = t[n].before + Len(Encode[t[n].node])
  <2> DEFINE node == t[n].node
             p    == t[n].before
             k    == t[n].done
  <2>1. /\ node \in Nodes /\ p \in Nat /\ Placed(node, p) /\ (IsList(node) \/ IsDict(node))
        /\ k \in 0 .. Width(node) /\ data = p + Before(node)[k] + 1
    BY <1>1, <1>2, <1>5
  <2> HIDE DEF node, p, k
  <2>2. /\ data \in Nat /\ data >= 1 /\ data <= Len(text)
        /\ data <= input.sent => (Byte(data) = "e" <=> k = Width(node))
        /\ k = Width(node) => data = p + Len(Encode[node])
    BY <2>1, AtItem
  <2> QED  BY <2>2 DEF node, p, k
<1> WITNESS t
<1> QED  BY <1>1, <1>2, <1>3, <1>4, <1>5, <1>6 DEF n

\* A list or a dictionary ends.
LEMMA CloseWithin ==
  ASSUME Buffer, \E S : stack \in Seq(S), data_len = Len(text) - data + 1,
         data <= input.sent + 1, Filling(stack, data), Close
  PROVE  Decoding(stack', data', result', at') /\ data_len' = Len(text) - data' + 1
<1>1. PICK S : stack \in Seq(S)  OBVIOUS
<1> DEFINE n == Len(stack)
<1>2. PICK t : LET node == t[n].node
                   p    == t[n].before
                   k    == t[n].done
               IN  /\ Trail(t, n, stack) /\ Holds(Last(stack), node, k)
                   /\ n \in Nat /\ n >= 1 /\ stack # <<>> /\ Last(stack) = stack[n]
                   /\ node \in Nodes /\ p \in Nat /\ Placed(node, p) /\ Sound(t[n])
                   /\ k \in 0 .. Width(node) /\ Width(node) \in Nat /\ Width(node) <= MaxItems
                   /\ IsList(node) \/ IsDict(node)
                   /\ data = p + Before(node)[k] + 1
                   /\ data \in Nat /\ data >= 1 /\ data <= Len(text)
                   /\ data <= input.sent => (Byte(data) = "e" <=> k = Width(node))
                   /\ k = Width(node) => data = p + Len(Encode[node])
  BY <1>1, FillingIs
<1> DEFINE node == t[n].node
           p    == t[n].before
           k    == t[n].done
           frame == Last(stack)
           long == Len(Encode[node])
           size == Len(text)
           sent == input.sent
<1>3. /\ node \in Nodes /\ p \in Nat /\ Holds(frame, node, k) /\ Width(node) \in Nat
      /\ IsList(node) \/ IsDict(node)
      /\ data \in Nat /\ data >= 1 /\ data <= size /\ data <= sent + 1
      /\ size \in Nat /\ sent \in Nat /\ sent <= size /\ long \in Nat
  BY <1>2, BufferLen, FirstByte
<1>4. data <= sent => (Byte(data) = "e" <=> k = Width(node))  BY <1>2
<1>5. k = Width(node) => data = p + long  BY <1>2
<1> HIDE DEF n
<1>6. Trail(t, n, stack) /\ Sound(t[n]) /\ n \in Nat /\ n >= 1 /\ stack # <<>> /\ n = Len(stack)
  BY <1>2 DEF n
<1> HIDE DEF node, p, k, frame, long, size, sent
<1>7. Byte(data) = "e" /\ at = "loop"  BY DEF Close
<1>8. data <= sent
  <2> SUFFICES ASSUME ~(data <= sent) PROVE FALSE  OBVIOUS
  <2>1. data \in sent + 1 .. size  BY <1>3
  <2>2. Byte(data) = "zero"  BY <2>1, ZeroByte DEF sent, size
  <2> QED  BY <1>7, <2>2, ZeroBegins
<1>9. k = Width(node) /\ data = p + long  BY <1>4, <1>5, <1>7, <1>8
<1>10. Finished(frame) = node /\ (ItemsOf(frame) = <<>> <=> k = 0)
  BY <1>3, <1>9, FrameOf
<1>11. CASE ItemsOf(frame) = <<>>
  <2>1. at' = "fault" /\ UNCHANGED <<data, data_len, stack, result>>
    BY <1>11 DEF Close, Fault, frame
  <2>2. HasEmpty[node]  BY <1>3, <1>9, <1>10, <1>11, EmptyItems
  <2>3. HasEmpty[input.doc]  BY <1>6, <2>2 DEF Sound, node
  <2>4. Within(stack', data', result', at')  BY <2>1, <2>3 DEF Within
  <2>5. data' \in Nat /\ \E T : stack' \in Seq(T)  BY <1>1, <1>3, <2>1
  <2> QED  BY <2>1, <2>4, <2>5 DEF Decoding
<1>12. CASE ItemsOf(frame) # <<>>
  <2>1. /\ data' = data + 1 /\ data_len' = data_len - 1 /\ result' = Finished(frame)
        /\ stack' = Front(stack) /\ at' = "return"
    BY <1>12 DEF Close, Takes, frame
  <2>2. /\ Front(stack) \in Seq(S) /\ Len(Front(stack)) = n - 1
        /\ \A d \in 1 .. n - 1 : Front(stack)[d] = stack[d]
    BY <1>1, <1>6, PopStack
  <2> DEFINE su == Front(stack)
  <2> HIDE DEF su
  <2>3. Trail(t, n, su)  BY <1>6, <2>2, TrailSame DEF su
  <2>4. ~HasEmpty[node]
    <3>1. Width(node) # 0  BY <1>9, <1>10, <1>12
    <3>2. \A l \in 1 .. Width(node) : ~HasEmpty[Child(node, l)]
      BY <1>6, <1>9 DEF Sound, node, k
    <3> QED  BY <1>3, <3>1, <3>2, EmptyItems
  <2>5. Len(su) + 1 = n /\ \E T : su \in Seq(T)  BY <1>6, <2>2 DEF su
  <2>6. data + 1 = p + long + 1 /\ data + 1 <= sent + 1 /\ data + 1 \in Nat  BY <1>3, <1>8, <1>9
  <2>7. Returned(su, data + 1, node)
    BY <2>3, <2>4, <2>5, <2>6 DEF Returned, node, p, long
  <2>8. stack' = su /\ data' = data + 1 /\ result' = node  BY <1>10, <2>1 DEF su
  <2>9. data_len' = size - data' + 1  BY <1>3, <2>1 DEF size
  <2> QED  BY <2>1, <2>5, <2>6, <2>7, <2>8, <2>9 DEF Decoding, Within, sent, size
<1> QED  BY <1>11, <1>12

LEMMA Below ==
  ASSUME NEW W \in Nat, NEW k \in 0 .. W, k # W
  PROVE  k \in 0 .. W - 1 /\ k + 1 \in 1 .. W /\ k \in Nat /\ k < W
  OBVIOUS

\* A node of which nothing is done yet.
LEMMA SoundNew ==
  ASSUME NEW b, b.done = 0, Placed(b.node, b.before), HasEmpty[b.node] => HasEmpty[input.doc]
  PROVE  Sound(b)
<1>1. 1 .. b.done = {}  OBVIOUS
<1> QED  BY <1>1 DEF Sound

\* The item after those in the last frame is the next to be decoded.
LEMMA NewPending ==
  ASSUME NEW t, NEW n, NEW st, n = Len(st), Trail(t, n, st),
         NEW b \in Spot, b.done = 0, Sound(b), Link(t[n], st[n], b), NEW d, d = b.before + 1
  PROVE  Pending(st, d)
<1>1. PICK u : Trail(u, n + 1, st) /\ u[n + 1] = b  BY TrailPush
<1>2. u[Len(st) + 1].done = 0 /\ d = u[Len(st) + 1].before + 1  BY <1>1
<1> QED  BY <1>1, <1>2 DEF Pending

\* The next item of a list.
LEMMA ItemOfList ==
  ASSUME Buffer, NEW t, NEW n, NEW st, n = Len(st), Trail(t, n, st), IsList(t[n].node),
         Holds(st[n], t[n].node, t[n].done), t[n].done # Width(t[n].node),
         NEW d, d = t[n].before + Before(t[n].node)[t[n].done] + 1
  PROVE  Pending(st, d)
<1> DEFINE node == t[n].node
           p    == t[n].before
           k    == t[n].done
           q    == p + Before(node)[k]
           item == node.list[k + 1]
           b    == [node |-> item, before |-> q, done |-> 0]
<1>1. /\ n \in Nat /\ n >= 1 /\ node \in Nodes /\ p \in Nat /\ Placed(node, p)
      /\ Sound(t[n]) /\ Holds(st[n], node, k) /\ IsList(node)
  BY TrailEnd
<1> HIDE DEF node, p, k
<1>2. k \in 0 .. Width(node) - 1 /\ k + 1 \in 1 .. Width(node) /\ k \in Nat /\ k < Width(node)
      /\ Width(node) \in Nat
  <2>1. k \in 0 .. Width(node) /\ Width(node) \in Nat  BY <1>1, FrameOf DEF Holds
  <2>2. k # Width(node)  BY DEF k, node
  <2> DEFINE W == Width(node)
  <2> HIDE DEF W
  <2>3. k \in 0 .. W /\ W \in Nat /\ k # W  BY <2>1, <2>2 DEF W
  <2>4. k \in 0 .. W - 1 /\ k + 1 \in 1 .. W /\ k \in Nat /\ k < W  BY <2>3, Below
  <2> QED  BY <2>1, <2>4 DEF W
<1>3. q \in Nat /\ item \in Nodes /\ Placed(item, q)  BY <1>1, <1>2, ItemPlaced
<1>4. Child(node, k + 1) = item  BY <1>1 DEF Child
<1> HIDE DEF q, item
<1>5. b \in Spot /\ b.node = item /\ b.before = q /\ b.done = 0  BY <1>3 DEF Spot
<1> HIDE DEF b
<1>6. Sound(b)
  <2>1. HasEmpty[item] => HasEmpty[node]  BY <1>1, <1>2, <1>4, EmptyItems
  <2>2. HasEmpty[node] => HasEmpty[input.doc]  BY <1>1 DEF Sound, node
  <2>3. Placed(b.node, b.before)  BY <1>3, <1>5
  <2>4. HasEmpty[b.node] => HasEmpty[input.doc]  BY <1>5, <2>1, <2>2
  <2> QED  BY <1>5, <2>3, <2>4, SoundNew
<1>7. Link(t[n], st[n], b)
  <2>1. ~IsDict(node)  BY <1>1, Kinds
  <2> QED  BY <1>1, <1>2, <1>4, <1>5, <2>1 DEF Link, node, p, k, q
<1>8. d = b.before + 1
  <2>1. d = q + 1  BY DEF q, node, p, k
  <2> QED  BY <1>5, <2>1
<1> QED  BY <1>5, <1>6, <1>7, <1>8, NewPending

\* The value of the next entry of a dictionary, whose key is in the frame.
LEMMA ItemOfDict ==
  ASSUME Buffer, NEW t, NEW n, NEW st, n = Len(st), Trail(t, n, st), IsDict(t[n].node),
         Holds(st[n], t[n].node, t[n].done), t[n].done # Width(t[n].node),
         NEW key, key = t[n].node.dict[t[n].done + 1].key, st[n].key = key,
         NEW d, d = t[n].before + Before(t[n].node)[t[n].done] + Len(Encode[key]) + 1
  PROVE  Pending(st, d)
<1> DEFINE node == t[n].node
           p    == t[n].before
           k    == t[n].done
           q    == p + Before(node)[k]
           r    == q + Len(Encode[key])
           item == node.dict[k + 1].val
           b    == [node |-> item, before |-> r, done |-> 0]
<1>1. /\ n \in Nat /\ n >= 1 /\ node \in Nodes /\ p \in Nat /\ Placed(node, p)
      /\ Sound(t[n]) /\ Holds(st[n], node, k) /\ IsDict(node) /\ key = node.dict[k + 1].key
  BY TrailEnd
<1> HIDE DEF node, p, k
<1>2. k \in 0 .. Width(node) - 1 /\ k + 1 \in 1 .. Width(node) /\ k \in Nat /\ k < Width(node)
      /\ Width(node) \in Nat
  <2>1. k \in 0 .. Width(node) /\ Width(node) \in Nat  BY <1>1, FrameOf DEF Holds
  <2>2. k # Width(node)  BY DEF k, node
  <2> DEFINE W == Width(node)
  <2> HIDE DEF W
  <2>3. k \in 0 .. W /\ W \in Nat /\ k # W  BY <2>1, <2>2 DEF W
  <2>4. k \in 0 .. W - 1 /\ k + 1 \in 1 .. W /\ k \in Nat /\ k < W  BY <2>3, Below
  <2> QED  BY <2>1, <2>4 DEF W
<1>3. r \in Nat /\ item \in Nodes /\ Placed(item, r)
  <2> DEFINE kk == node.dict[k + 1].key
             rr == q + Len(Encode[kk])
  <2>1. rr \in Nat /\ item \in Nodes /\ Placed(item, rr)  BY <1>1, <1>2, EntryPlaced
  <2> QED  BY <1>1, <2>1
<1>4. ~IsList(node) /\ Child(node, k + 1) = item
  <2>1. ~IsList(node)  BY <1>1, Kinds
  <2> QED  BY <2>1 DEF Child
<1> HIDE DEF q, r, item
<1>5. b \in Spot /\ b.node = item /\ b.before = r /\ b.done = 0  BY <1>3 DEF Spot
<1> HIDE DEF b
<1>6. Sound(b)
  <2>1. HasEmpty[item] => HasEmpty[node]  BY <1>1, <1>2, <1>4, EmptyItems
  <2>2. HasEmpty[node] => HasEmpty[input.doc]  BY <1>1 DEF Sound, node
  <2>3. Placed(b.node, b.before)  BY <1>3, <1>5
  <2>4. HasEmpty[b.node] => HasEmpty[input.doc]  BY <1>5, <2>1, <2>2
  <2> QED  BY <1>5, <2>3, <2>4, SoundNew
<1>7. Link(t[n], st[n], b)
  <2>1. Holds(st[n], t[n].node, t[n].done) /\ t[n].done < Width(t[n].node)
    BY <1>1, <1>2 DEF node, k
  <2>2. b.node = Child(t[n].node, t[n].done + 1) /\ ~IsList(t[n].node)
    BY <1>4, <1>5 DEF node, k
  <2>3. b.before = t[n].before + Before(t[n].node)[t[n].done] + Len(Encode[st[n].key])
    <3>1. b.before = q + Len(Encode[key])  BY <1>5 DEF r
    <3> QED  BY <3>1 DEF q, node, p, k
  <2>4. st[n].key = t[n].node.dict[t[n].done + 1].key  OBVIOUS
  <2> QED  BY <2>1, <2>2, <2>3, <2>4 DEF Link
<1>8. d = b.before + 1
  <2>1. d = r + 1  BY DEF q, r, node, p, k
  <2> QED  BY <1>5, <2>1
<1> QED  BY <1>5, <1>6, <1>7, <1>8, NewPending

\* A frame with another key.
LEMMA NewKey ==
  ASSUME NEW n \in Nodes, IsDict(n), NEW frame, NEW k, Holds(frame, n, k), NEW key
  PROVE  /\ Holds([frame EXCEPT !.key = key], n, k) /\ [frame EXCEPT !.key = key].key = key
<1> DEFINE q == SubSeq(n.dict, 1, k)
<1>1. ~IsList(n)  BY Kinds
<1>2. PICK old : frame = [dict |-> q, key |-> old]  BY <1>1 DEF Holds
<1> HIDE DEF q
<1>3. [frame EXCEPT !.key = key] = [dict |-> q, key |-> key]  BY <1>2
<1>4. [frame EXCEPT !.key = key].key = key  BY <1>3
<1>5. k \in 0 .. Width(n)  BY DEF Holds
<1> QED  BY <1>3, <1>4, <1>5 DEF Holds, q

\* The loop goes on to an item.
LEMMA ItemWithin ==
  ASSUME Buffer, \E S : stack \in Seq(S), data_len = Len(text) - data + 1,
         data <= input.sent + 1, Filling(stack, data), Item
  PROVE  Decoding(stack', data', result', at') /\ data_len' = Len(text) - data' + 1
<1>1. PICK S : stack \in Seq(S)  OBVIOUS
<1> DEFINE n == Len(stack)
<1>2. PICK t : LET node == t[n].node
                   p    == t[n].before
                   k    == t[n].done
               IN  /\ Trail(t, n, stack) /\ Holds(Last(stack), node, k)
                   /\ n \in Nat /\ n >= 1 /\ stack # <<>> /\ Last(stack) = stack[n]
                   /\ node \in Nodes /\ p \in Nat /\ Placed(node, p) /\ Sound(t[n])
                   /\ k \in 0 .. Width(node) /\ Width(node) \in Nat /\ Width(node) <= MaxItems
                   /\ IsList(node) \/ IsDict(node)
                   /\ data = p + Before(node)[k] + 1
                   /\ data \in Nat /\ data >= 1 /\ data <= Len(text)
                   /\ data <= input.sent => (Byte(data) = "e" <=> k = Width(node))
                   /\ k = Width(node) => data = p + Len(Encode[node])
  BY <1>1, FillingIs
<1> DEFINE node == t[n].node
           p    == t[n].before
           k    == t[n].done
           frame == Last(stack)
           size == Len(text)
           sent == input.sent
<1>3. /\ node \in Nodes /\ p \in Nat /\ Holds(frame, node, k) /\ Placed(node, p)
      /\ Width(node) \in Nat /\ Width(node) <= MaxItems /\ k \in 0 .. Width(node)
      /\ IsList(node) \/ IsDict(node)
      /\ data \in Nat /\ data >= 1 /\ data <= size /\ data <= sent + 1
      /\ size \in Nat /\ sent \in Nat /\ sent <= size
      /\ data = p + Before(node)[k] + 1
  BY <1>2, BufferLen
<1>4. data <= sent => (Byte(data) = "e" <=> k = Width(node))  BY <1>2
<1> HIDE DEF n
<1>6. /\ Trail(t, n, stack) /\ n \in Nat /\ n >= 1 /\ stack # <<>> /\ n = Len(stack)
      /\ frame = stack[n]
  BY <1>2 DEF n
<1> HIDE DEF node, p, k, frame, size, sent
<1>7. Byte(data) # "e" /\ at = "loop"  BY DEF Item
<1>8. CASE data > sent
  <2>1. data \in sent + 1 .. size  BY <1>3, <1>8
  <2>2. Past(stack, data, result, at)  BY <1>6, <1>7, <2>1 DEF Past, sent, size
  <2>3. /\ Past(stack', data', result', at') /\ data' = data /\ data_len' = data_len
        /\ \E T : stack' \in Seq(T)
    BY <1>3, <2>2, PastItem
  <2> QED  BY <1>3, <2>3 DEF Decoding
<1>9. CASE data <= sent
  <2>1. k # Width(node)  BY <1>4, <1>7, <1>9
  <2>2. k < Width(node) /\ k \in 0 .. Width(node) - 1  BY <1>3, <2>1
  <2>3. Len(ItemsOf(frame)) = k /\ (IsList(frame) <=> IsList(node)) /\ k \in Nat
    BY <1>3, FrameOf
  <2>4. MaxItems \in Nat  BY BencodeAssumption
  <2>5. Len(ItemsOf(Last(stack))) # MaxItems  BY <1>3, <2>2, <2>3, <2>4 DEF frame
  <2>6. CASE IsList(node)
    <3>1. at' = "decode" /\ UNCHANGED <<data, data_len, stack, result>>
      BY <2>3, <2>5, <2>6 DEF Item, frame
    <3>2. Pending(stack, data)
      BY <1>3, <1>6, <2>1, <2>6, ItemOfList DEF node, p, k
    <3>3. Within(stack', data', result', at')  BY <1>3, <3>1, <3>2 DEF Within, sent
    <3> QED  BY <1>1, <1>3, <3>1, <3>3 DEF Decoding
  <2>7. CASE IsDict(node)
    <3> DEFINE s == DecodeStr(data, data_len)
               new == [frame EXCEPT !.key = s.node]
               su == Front(stack) \o <<new>>
               key == node.dict[k + 1].key
               q == p + Before(node)[k]
               long == Len(Encode[key])
    <3>1. ~IsList(node)  BY <1>3, <2>7, Kinds
    <3>2. /\ at' = "decode" /\ result' = result
          /\ data' = s.data /\ data_len' = s.left /\ stack' = su
      BY <2>3, <2>5, <3>1 DEF Item, frame
    <3>3. /\ q \in Nat /\ key \in Nodes /\ IsStr(key) /\ Placed(key, q)
          /\ q + long + 2 <= size
      <4> DEFINE val == node.dict[k + 1].val
                 r == q + Len(Encode[key])
      <4>1. /\ q \in Nat /\ key \in Nodes /\ IsStr(key) /\ Placed(key, q)
            /\ r \in Nat /\ val \in Nodes /\ r + Len(Encode[val]) <= Len(text)
        BY <1>3, <2>2, <2>7, EntryPlaced
      <4>2. Len(Encode[val]) \in Nat /\ Len(Encode[val]) >= 2  BY <4>1, FirstByte
      <4> HIDE DEF val, q, key
      <4>3. r + 2 <= size
        <5> DEFINE lv == Len(Encode[val])
        <5>1. lv \in Nat /\ lv >= 2 /\ r \in Nat /\ r + lv <= size  BY <4>1, <4>2 DEF size
        <5> HIDE DEF lv, r
        <5> QED  BY <1>3, <5>1
      <4> QED  BY <4>1, <4>3
    <3>4. DecodeStr(q + 1, Len(text) - q) = s
      <4>1. q + 1 = data  BY <1>3, <3>3
      <4>2. q \in Nat  BY <3>3
      <4> HIDE DEF s, q, key, long
      <4>3. size - (q + 1) + 1 = size - q  BY <1>3, <4>2
      <4>4. data_len = size - data + 1  BY DEF size
      <4>5. data_len = size - q  BY <4>1, <4>3, <4>4
      <4> QED  BY <4>1, <4>5 DEF s, size
    <3> HIDE DEF s, q, key, long
    <3>5. /\ s.data \in Nat /\ s.left = size - s.data + 1
          /\ \/ s.node = key /\ s.data = q + long + 1 /\ s.data <= sent + 1
             \/ s.data \in sent + 1 .. q + long + 1
      <4>1. q + 1 <= input.sent  BY <1>3, <1>9 DEF q, sent
      <4> DEFINE z == DecodeStr(q + 1, Len(text) - q)
      <4>2. /\ z.data \in Nat /\ z.left = Len(text) - z.data + 1
            /\ \/ z.node = key /\ z.data = q + Len(Encode[key]) + 1 /\ z.data <= input.sent + 1
               \/ /\ z.data \in input.sent + 1 .. q + Len(Encode[key]) + 1
                  /\ input.sent < q + Len(Encode[key])
        BY <3>3, <4>1, ReadString
      <4>3. z = s  BY <3>4
      <4> HIDE DEF z
      <4> QED  BY <4>2, <4>3 DEF size, sent, long
    <3> HIDE DEF new, su
    <3>6. /\ \E T : su \in Seq(T)
          /\ Len(su) = n /\ su[n] = new /\ \A d \in 1 .. n - 1 : su[d] = stack[d]
      <4>1. Topped(su, stack, new)  BY <1>1, <1>6, TopStack DEF su
      <4> QED  BY <1>6, <4>1 DEF Topped
    <3>7. CASE s.node = key /\ s.data = q + long + 1 /\ s.data <= sent + 1
      <4>1. Trail(t, n, su)  BY <1>6, <3>6, TrailSame
      <4>2. Holds(new, node, k) /\ new.key = key
        BY <1>3, <2>7, <3>7, NewKey DEF new
      <4>3. s.data = p + Before(node)[k] + Len(Encode[key]) + 1  BY <3>7 DEF q, long
      <4>4. Pending(su, s.data)
        <5> DEFINE d == s.data
        <5>1. d = p + Before(node)[k] + Len(Encode[key]) + 1  BY <4>3
        <5> HIDE DEF d
        <5>2. Pending(su, d)
          BY <2>1, <2>7, <3>6, <4>1, <4>2, <5>1, ItemOfDict DEF node, p, k, key
        <5> QED  BY <5>2 DEF d
      <4>5. Within(stack', data', result', at')  BY <3>2, <3>7, <4>4 DEF Within, sent
      <4> QED  BY <3>2, <3>5, <3>6, <4>5 DEF Decoding, size
    <3>8. CASE s.data \in sent + 1 .. q + long + 1
      <4>1. long \in Nat  BY <3>3, FirstByte DEF long
      <4>2. s.data \in sent + 1 .. size  BY <1>3, <3>3, <3>5, <3>8, <4>1
      <4>3. Past(stack', data', result', at')  BY <3>2, <4>2 DEF Past, sent, size
      <4> QED  BY <3>2, <3>5, <3>6, <4>3 DEF Decoding, size
    <3> QED  BY <3>5, <3>7, <3>8
  <2> QED  BY <1>3, <2>6, <2>7
<1> QED  BY <1>3, <1>8, <1>9

\* A call returns to the loop that wants its node, or is the first one.
LEMMA ReturnWithin ==
  ASSUME Buffer, \E S : stack \in Seq(S), data \in Nat, data_len = Len(text) - data + 1,
         data <= input.sent + 1, Returned(stack, data, result), Return
  PROVE  Decoding(stack', data', result', at') /\ data_len' = Len(text) - data' + 1
<1>1. PICK S : stack \in Seq(S)  OBVIOUS
<1>2. UNCHANGED <<data, data_len, result>>  BY DEF Return
<1> DEFINE n == Len(stack) + 1
<1>3. PICK t : /\ Trail(t, n, stack) /\ result = t[n].node /\ ~HasEmpty[result]
               /\ data = t[n].before + Len(Encode[result]) + 1
  BY DEF Returned
<1>4. Len(stack) \in Nat /\ n \in Nat /\ n >= 1 /\ n - 1 = Len(stack)
  BY <1>1
<1> HIDE DEF n
<1>5. CASE stack = <<>>
  <2>1. n = 1  BY <1>4, <1>5
  <2>2. result = input.doc /\ t[1].before = 0  BY <1>3, <2>1 DEF Trail
  <2>3. Len(Encode[result]) \in Nat
    BY <1>3, TrailEnd
  <2>4. data = Len(Encode[result]) + 1  BY <1>3, <2>1, <2>2, <2>3
  <2>5. at' = "decoded" /\ stack' = stack  BY <1>5 DEF Return
  <2>6. Within(stack', data', result', at')  BY <1>2, <1>3, <2>2, <2>4, <2>5 DEF Within, Ready
  <2> QED  BY <1>1, <1>2, <2>5, <2>6 DEF Decoding
<1>6. CASE stack # <<>>
  <2> DEFINE m == n - 1
             node == t[m].node
             p == t[m].before
             k == t[m].done
             frame == stack[m]
  <2>1. m \in Nat /\ m >= 1 /\ m \in 1 .. n /\ m \in 1 .. n - 1 /\ m + 1 = n /\ m = Len(stack) /\ n >= 2
    <3>1. Len(stack) >= 1  BY <1>1, <1>6
    <3> QED  BY <1>4, <3>1
  <2>2. Link(t[m], frame, t[n]) /\ Sound(t[m]) /\ t[m] \in Spot
    <3>1. /\ t \in [1 .. n -> Spot] /\ \A d \in 1 .. n : Sound(t[d])
          /\ \A d \in 1 .. n - 1 : Link(t[d], stack[d], t[d + 1])
      BY <1>3 DEF Trail
    <3> QED  BY <2>1, <3>1
  <2>3. node \in Nodes /\ p \in Nat /\ k \in Nat /\ Placed(node, p)  BY <2>2 DEF Spot, Sound
  <2>4. /\ Holds(frame, node, k) /\ k < Width(node)
        /\ result = Child(node, k + 1)
        /\ IsList(node) => t[n].before = p + Before(node)[k]
        /\ IsDict(node) => /\ frame.key = node.dict[k + 1].key
                           /\ t[n].before = p + Before(node)[k] + Len(Encode[frame.key])
    BY <1>3, <2>2 DEF Link
  <2>5. /\ Width(node) \in Nat /\ k \in 0 .. Width(node) - 1 /\ k + 1 \in 0 .. Width(node)
        /\ IsList(node) \/ IsDict(node)
    <3>1. Width(node) \in Nat /\ (IsList(node) \/ IsDict(node))  BY <2>3, <2>4, FrameOf
    <3> QED  BY <2>3, <2>4, <3>1
  <2> DEFINE a == [node |-> node, before |-> p, done |-> k + 1]
  <2>6. a \in Spot /\ a.node = node /\ a.before = p /\ a.done = k + 1
    <3>1. k + 1 \in Nat  BY <2>3
    <3> QED  BY <2>3, <3>1 DEF Spot
  <2>7. Sound(t[m]) /\ t[m].node = node /\ t[m].done = k  BY <2>2
  <2>8. Last(stack) = frame  BY <1>1, <1>6, <2>1, PopStack
  <2> HIDE DEF m, node, p, k, frame, a
  <2>9. Sound(a)
    <3>1. HasEmpty[node] => HasEmpty[input.doc]  BY <2>7 DEF Sound
    <3>2. \A l \in 1 .. k : ~HasEmpty[Child(node, l)]  BY <2>7 DEF Sound
    <3>3. ASSUME NEW l \in 1 .. k + 1 PROVE ~HasEmpty[Child(node, l)]
      <4>1. l = k + 1 \/ l \in 1 .. k  BY <2>3
      <4> QED  BY <1>3, <2>4, <3>2, <4>1
    <3> QED  BY <2>3, <2>6, <3>1, <3>3 DEF Sound
  <2> DEFINE new == Put(frame, result)
             su == Front(stack) \o <<new>>
  <2>10. at' = "loop" /\ stack' = su  BY <1>6, <2>8 DEF Return
  <2>11. Holds(new, node, k + 1)
    BY <2>3, <2>4, PutNext
  <2> HIDE DEF new
  <2>12. Topped(su, stack, new)  BY <1>1, <1>6, TopStack
  <2> HIDE DEF su
  <2>13. PICK u : Trail(u, n - 1, stack) /\ u[n - 1] = a
    <3>1. a.node = t[n - 1].node /\ a.before = t[n - 1].before  BY <2>6 DEF node, p, m
    <3> QED  BY <1>3, <2>1, <2>6, <2>9, <3>1, TrailPop
  <2>14. Trail(u, m, stack) /\ u[m] = a  BY <2>13 DEF m
  <2>15. Len(su) = m /\ su[m] = new /\ \A d \in 1 .. m - 1 : su[d] = stack[d]
    BY <2>1, <2>12 DEF Topped
  <2>16. Trail(u, m, su)  BY <2>14, <2>15, TrailSame
  <2>17. data = p + Before(node)[k + 1] + 1
    <3>1. t[n].before + Len(Encode[result]) = p + Before(node)[k + 1]
      <4>1. CASE IsList(node)
        <5>1. result = node.list[k + 1] /\ t[n].before = p + Before(node)[k]
          BY <2>4, <4>1 DEF Child
        <5>2. LET item == node.list[k + 1]
              IN  (p + Before(node)[k]) + Len(Encode[item]) = p + Before(node)[k + 1]
          BY <2>3, <2>5, <4>1, ItemPlaced
        <5> QED  BY <5>1, <5>2
      <4>2. CASE IsDict(node)
        <5> DEFINE key == node.dict[k + 1].key
                   val == node.dict[k + 1].val
                   q   == p + Before(node)[k]
                   r   == q + Len(Encode[key])
        <5>1. ~IsList(node)  BY <2>3, <4>2, Kinds
        <5>2. result = val /\ t[n].before = r  BY <2>4, <4>2, <5>1 DEF Child
        <5>3. r + Len(Encode[val]) = p + Before(node)[k + 1]
          BY <2>3, <2>5, <4>2, EntryPlaced
        <5> QED  BY <5>2, <5>3
      <4> QED  BY <2>5, <4>1, <4>2
    <3> QED  BY <1>3, <3>1
  <2>18. Filling(su, data)  BY <2>6, <2>11, <2>14, <2>15, <2>16, <2>17 DEF Filling
  <2>19. Within(stack', data', result', at')  BY <1>2, <2>10, <2>18 DEF Within
  <2>20. \E T : stack' \in Seq(T)  BY <2>10, <2>12 DEF Topped
  <2> QED  BY <1>2, <2>19, <2>20 DEF Decoding
<1> QED  BY <1>5, <1>6

\* Past what came, nothing is ended.
LEMMA PastClose ==
  ASSUME Buffer, Past(stack, data, result, at), Close
  PROVE  FALSE
<1>1. data \in input.sent + 1 .. Len(text)  BY DEF Past
<1>2. Byte(data) = "zero"  BY <1>1, ZeroByte
<1> QED  BY <1>2, ZeroBegins DEF Close

LEMMA PastReturn ==
  ASSUME Past(stack, data, result, at), \E S : stack \in Seq(S), Return
  PROVE  /\ Past(stack', data', result', at') /\ data' = data /\ data_len' = data_len
         /\ \E S : stack' \in Seq(S)
<1>1. PICK S : stack \in Seq(S)  OBVIOUS
<1>2. /\ data \in input.sent + 1 .. Len(text) /\ at = "return" /\ (stack = <<>> => result = NULL)
      /\ UNCHANGED <<data, data_len, result>>
  BY DEF Past, Return
<1>3. CASE stack = <<>>
  <2>1. at' = "decoded" /\ stack' = stack  BY <1>3 DEF Return
  <2> QED  BY <1>1, <1>2, <1>3, <2>1 DEF Past
<1>4. CASE stack # <<>>
  <2> DEFINE new == Put(Last(stack), result)
             su == Front(stack) \o <<new>>
  <2>1. at' = "loop" /\ stack' = su  BY <1>4 DEF Return
  <2> HIDE DEF new
  <2>2. Topped(su, stack, new)  BY <1>1, <1>4, TopStack
  <2> HIDE DEF su
  <2>3. su # <<>> /\ \E T : su \in Seq(T)  BY <2>2 DEF Topped
  <2> QED  BY <1>2, <2>1, <2>3 DEF Past
<1> QED  BY <1>3, <1>4

\* A step of the decoder.
LEMMA DecoderStep ==
  ASSUME Buffer, Reader, DecodeNext
  PROVE  Decoding(stack', data', result', at') /\ data_len' = Len(text) - data' + 1
<1>1. /\ data \in Nat /\ \E S : stack \in Seq(S) /\ data_len = Len(text) - data + 1
      /\ Within(stack, data, result, at) \/ Past(stack, data, result, at)
  BY DEF Reader, Decoding
<1>2. CASE Past(stack, data, result, at)
  <2>1. CASE Decode
    <3>1. /\ Past(stack', data', result', at') /\ data' = data /\ stack' = stack
          /\ data_len' = data_len
      BY <1>1, <1>2, <2>1, PastDecode
    <3> QED  BY <1>1, <3>1 DEF Decoding
  <2>2. CASE Close  BY <1>2, <2>2, PastClose
  <2>3. CASE Item
    <3>1. /\ Past(stack', data', result', at') /\ data' = data /\ data_len' = data_len
          /\ \E S : stack' \in Seq(S)
      BY <1>1, <1>2, <2>3, PastItem
    <3> QED  BY <1>1, <3>1 DEF Decoding
  <2>4. CASE Return
    <3>1. /\ Past(stack', data', result', at') /\ data' = data /\ data_len' = data_len
          /\ \E S : stack' \in Seq(S)
      BY <1>1, <1>2, <2>4, PastReturn
    <3> QED  BY <1>1, <3>1 DEF Decoding
  <2> QED  BY <2>1, <2>2, <2>3, <2>4 DEF DecodeNext
<1>3. CASE Within(stack, data, result, at)
  <2>1. CASE Decode
    <3>1. data <= input.sent + 1 /\ Pending(stack, data)  BY <1>3, <2>1 DEF Within, Decode
    <3> QED  BY <1>1, <2>1, <3>1, DecodeWithin
  <2>2. CASE Close
    <3>1. data <= input.sent + 1 /\ Filling(stack, data)  BY <1>3, <2>2 DEF Within, Close
    <3> QED  BY <1>1, <2>2, <3>1, CloseWithin
  <2>3. CASE Item
    <3>1. data <= input.sent + 1 /\ Filling(stack, data)  BY <1>3, <2>3 DEF Within, Item
    <3> QED  BY <1>1, <2>3, <3>1, ItemWithin
  <2>4. CASE Return
    <3>1. data <= input.sent + 1 /\ Returned(stack, data, result)  BY <1>3, <2>4 DEF Within, Return
    <3> QED  BY <1>1, <2>4, <3>1, ReturnWithin
  <2> QED  BY <2>1, <2>2, <2>3, <2>4 DEF DecodeNext
<1> QED  BY <1>1, <1>2, <1>3

\* The buffer is left as it is.
LEMMA SoundSame ==
  ASSUME input' = input, NEW CONSTANT a
  PROVE  Sound(a)' <=> Sound(a)
  BY DEF Sound, Placed, Whole

LEMMA TrailCarried ==
  ASSUME input' = input, NEW CONSTANT t, NEW CONSTANT n, NEW CONSTANT st
  PROVE  Trail(t, n, st)' <=> Trail(t, n, st)
<1>1. \A d \in 1 .. n : Sound(t[d])' <=> Sound(t[d])  BY SoundSame
<1> QED  BY <1>1 DEF Trail

LEMMA Carried ==
  ASSUME input' = input, text' = text, Decoding(stack', data', result', at')
  PROVE  Decoding(stack, data, result, at)'
<1>1. PICK st : st = stack'  OBVIOUS
<1>2. \A t, n : Trail(t, n, st)' <=> Trail(t, n, st)  BY TrailCarried
<1>3. Pending(st, data') => Pending(stack, data)'  BY <1>1, <1>2 DEF Pending
<1>4. Filling(st, data') => Filling(stack, data)'  BY <1>1, <1>2 DEF Filling
<1>5. Returned(st, data', result') => Returned(stack, data, result)'
  BY <1>1, <1>2 DEF Returned
<1>6. Within(stack', data', result', at') => Within(stack, data, result, at)'
  BY <1>1, <1>3, <1>4, <1>5 DEF Within, Ready
<1>7. Past(stack', data', result', at') => Past(stack, data, result, at)'
  BY DEF Past
<1> QED  BY <1>6, <1>7 DEF Decoding
-----------------------------------------------------------------------------
(***************************************************************************)
(* What is decoded.                                                        *)
(***************************************************************************)
DecodeStates == {"decode", "loop", "return", "decoded", "fault"}

Read == {"entries", "info"}

DecodeInv ==
  /\ input \in Inputs /\ text = Received(input)
  /\ Measured /\ at \in DecodeStates => Reader
  /\ Measured /\ at \notin DecodeStates \cup {"crash"} => InputWhole
  /\ Measured /\ at \in Read => result = input.doc

\* What has been decoded came whole.
LEMMA WholeAfter ==
  ASSUME Buffer, Reader, at = "decoded", result # NULL
  PROVE  InputWhole /\ result = input.doc
<1>1. data <= input.sent + 1 /\ Ready(data, result)
  BY DEF Reader, Decoding, Within, Past
<1>2. /\ result = input.doc /\ data = Len(Encode[input.doc]) + 1
  BY <1>1 DEF Ready
<1>3. /\ Len(Whole(input)) = Len(Encode[input.doc]) + Len(input.tail) /\ Len(input.tail) \in Nat
      /\ input.sent < Len(text) => input.tail = <<>>
      /\ input.doc \in Nodes
  BY DEF Buffer
<1>4. /\ Len(text) \in Nat /\ Len(Whole(input)) = Len(text)
      /\ input.sent \in Nat /\ input.sent <= Len(text)
  BY BufferLen
<1>5. Len(Encode[input.doc]) \in Nat  BY <1>3, FirstByte
<1> DEFINE long == Len(Encode[input.doc])
           size == Len(text)
           rest == Len(input.tail)
           sent == input.sent
<1>6. /\ size = long + rest /\ rest \in Nat /\ size \in Nat /\ sent \in Nat /\ sent <= size
      /\ long \in Nat /\ long + 1 <= sent + 1 /\ (sent < size => rest = 0)
  BY <1>1, <1>2, <1>3, <1>4, <1>5
<1> HIDE DEF long, size, rest, sent
<1>7. sent = size  BY <1>6
<1> QED  BY <1>2, <1>4, <1>7 DEF InputWhole, sent, size

\* The decoder starts at the document.
LEMMA DecodeInvInit == Init => DecodeInv
<1> SUFFICES ASSUME Init PROVE DecodeInv  OBVIOUS
<1>1. /\ input \in Inputs /\ text = Received(input) /\ data = 1 /\ data_len = Len(text)
      /\ stack = <<>> /\ result = NULL /\ at = "decode"
  BY DEF Init, DecodeInit
<1>2. ASSUME Measured PROVE Reader
  <2>1. Buffer  BY <1>1, <1>2, BufferKnown
  <2> DEFINE a == [node |-> input.doc, before |-> 0, done |-> 0]
             t == [d \in 1 .. 1 |-> a]
  <2>2. a \in Spot /\ a.node = input.doc /\ a.before = 0 /\ a.done = 0
    BY <2>1 DEF Buffer, Spot
  <2>3. Sound(a)  BY <2>1, <2>2 DEF Sound, Placed, Buffer
  <2> HIDE DEF a
  <2>4. t \in [1 .. 1 -> Spot] /\ t[1] = a  BY <2>2
  <2> HIDE DEF t
  <2>5. Trail(t, 1, stack)
    <3>1. 1 .. 1 - 1 = {}  OBVIOUS
    <3>2. \A d \in 1 .. 1 : d = 1  OBVIOUS
    <3> QED  BY <2>2, <2>3, <2>4, <3>1, <3>2 DEF Trail
  <2>6. Len(stack) + 1 = 1 /\ stack \in Seq({})  BY <1>1
  <2>7. Pending(stack, data)  BY <1>1, <2>2, <2>4, <2>5, <2>6 DEF Pending
  <2>8. data <= input.sent + 1 /\ data \in Nat /\ data_len = Len(text) - data + 1
    BY <1>1, <2>1, BufferLen
  <2> QED  BY <1>1, <2>6, <2>7, <2>8 DEF Reader, Decoding, Within
<1> QED  BY <1>1, <1>2 DEF DecodeInv, DecodeStates, Read

\* The caller begins with what was decoded.
LEMMA CallerBegins ==
  ASSUME DecodeInv, at = "decoded", UNCHANGED <<input, text, result>>,
         at' \in {"entries", "exit", "crash"}, at' # "crash" => result # NULL
  PROVE  DecodeInv'
<1>1. input' \in Inputs /\ text' = Received(input')  BY DEF DecodeInv
<1>2. Measured' <=> Measured  BY DEF Measured, InputWhole, Whole
<1>3. InputWhole' <=> InputWhole  BY DEF InputWhole, Whole
<1>4. ASSUME Measured, at' # "crash" PROVE InputWhole /\ result = input.doc
  <2>1. Buffer /\ Reader  BY <1>4, BufferKnown DEF DecodeInv, DecodeStates
  <2> QED  BY <1>4, <2>1, WholeAfter
<1> QED  BY <1>1, <1>2, <1>3, <1>4 DEF DecodeInv, DecodeStates, Read

\* And leaves it, once it is read.
LEMMA CallerGoesOn ==
  ASSUME DecodeInv, at \in Read, UNCHANGED <<input, text>>,
         (at' \in Read /\ result' = result) \/ at' \in {"torrent", "refused", "response", "exit", "crash"}
  PROVE  DecodeInv'
<1>1. input' \in Inputs /\ text' = Received(input')  BY DEF DecodeInv
<1>2. Measured' <=> Measured  BY DEF Measured, InputWhole, Whole
<1>3. InputWhole' <=> InputWhole  BY DEF InputWhole, Whole
<1>4. ASSUME Measured PROVE InputWhole /\ result = input.doc
  BY <1>4 DEF DecodeInv, DecodeStates, Read
<1>5. at' \notin DecodeStates  BY DEF DecodeStates, Read
<1>6. at' \in Read => result' = result  BY DEF Read
<1> QED  BY <1>1, <1>2, <1>3, <1>4, <1>5, <1>6 DEF DecodeInv

LEMMA NotNull ==
  ~IsDict(NULL) /\ ~IsList(NULL) /\ ~IsInt(NULL) /\ ~IsStr(NULL)
  BY DEF IsDict, IsList, IsInt, IsStr, NULL

LEMMA DecodeInvStep == DecodeInv /\ [Next]_vars => DecodeInv'
<1> SUFFICES ASSUME DecodeInv, [Next]_vars PROVE DecodeInv'  OBVIOUS
<1>1. CASE DecodeNext
  <2>1. UNCHANGED <<input, text>> /\ at \in {"decode", "loop", "return"}
    BY <1>1 DEF DecodeNext, Decode, Close, Item, Return
  <2>2. input' \in Inputs /\ text' = Received(input')  BY <2>1 DEF DecodeInv
  <2>3. Measured' <=> Measured  BY <2>1 DEF Measured, InputWhole, Whole
  <2>4. ASSUME Measured PROVE Reader' /\ at' \in DecodeStates
    <3>1. Buffer /\ Reader  BY <2>1, <2>4, BufferKnown DEF DecodeInv, DecodeStates
    <3>2. Decoding(stack', data', result', at') /\ data_len' = Len(text) - data' + 1
      BY <1>1, <3>1, DecoderStep
    <3>3. Decoding(stack, data, result, at)'  BY <2>1, <3>2, Carried
    <3>4. at' \in DecodeStates  BY <3>2 DEF Decoding, Within, Past, DecodeStates
    <3> QED  BY <2>1, <3>2, <3>3, <3>4 DEF Reader
  <2> QED  BY <2>2, <2>3, <2>4 DEF DecodeInv, DecodeStates, Read
<1>2. CASE HashInfo
  <2>1. /\ at = "decoded" /\ UNCHANGED <<input, text, result>>
        /\ at' \in {"entries", "exit", "crash"} /\ (at' # "crash" => result # NULL)
    BY <1>2, NotNull DEF HashInfo, Ends
  <2> QED  BY <2>1, CallerBegins
<1>3. CASE ReadResponse
  <2>1. /\ at = "decoded" /\ UNCHANGED <<input, text, result>>
        /\ at' = CASE result = NULL -> "crash" [] IsDict(result) -> "entries" [] OTHER -> "exit"
    BY <1>3 DEF ReadResponse, Ends, Reading
  <2>2. at' \in {"entries", "exit", "crash"} /\ (at' # "crash" => result # NULL)
    <3>1. CASE result = NULL  BY <2>1, <3>1, NotNull
    <3>2. CASE result # NULL  BY <2>1, <3>2
    <3> QED  BY <3>1, <3>2
  <2> QED  BY <2>1, <2>2, CallerBegins
<1>4. ASSUME \/ AnnounceEntry \/ InfoEntry \/ LengthEntry \/ NameEntry \/ PieceLengthEntry
             \/ PiecesEntry \/ OtherInfo \/ InfoDone \/ TorrentDone
             \/ FailureEntry \/ IntervalEntry \/ PeersEntry \/ ResponseDone \/ OtherEntry
      PROVE  DecodeInv'
  <2> USE DEF Read, EntryLeft, Reading, NextEntry, Ends, BeFree, InInfo, NextInfo
  <2>1. CASE AnnounceEntry
    <3>1. /\ at \in Read /\ UNCHANGED <<input, text, result>> /\ at' \in Read \cup {"crash"}
      BY <2>1 DEF AnnounceEntry
    <3> QED  BY <3>1, CallerGoesOn
  <2>2. CASE InfoEntry
    <3>1. /\ at \in Read /\ UNCHANGED <<input, text, result>> /\ at' \in Read \cup {"exit"}
      BY <2>2 DEF InfoEntry
    <3> QED  BY <3>1, CallerGoesOn
  <2>3. CASE LengthEntry
    <3>1. /\ at \in Read /\ UNCHANGED <<input, text, result>> /\ at' \in Read
      BY <2>3 DEF LengthEntry
    <3> QED  BY <3>1, CallerGoesOn
  <2>4. CASE NameEntry
    <3>1. /\ at \in Read /\ UNCHANGED <<input, text, result>> /\ at' \in Read \cup {"crash"}
      BY <2>4 DEF NameEntry
    <3> QED  BY <3>1, CallerGoesOn
  <2>5. CASE PieceLengthEntry
    <3>1. /\ at \in Read /\ UNCHANGED <<input, text, result>> /\ at' \in Read
      BY <2>5 DEF PieceLengthEntry
    <3> QED  BY <3>1, CallerGoesOn
  <2>6. CASE PiecesEntry
    <3>1. at \in Read /\ UNCHANGED <<input, text, result>>
      BY <2>6 DEF PiecesEntry
    <3>2. at' \in Read \cup {"crash"}
      <4>1. at = "info"  BY <2>6 DEF PiecesEntry
      <4>2. CASE NextInfo  BY <4>1, <4>2
      <4>3. CASE Ends("crash")  BY <4>3
      <4> QED  BY <2>6, <4>2, <4>3, Zenon DEF PiecesEntry
    <3> QED  BY <3>1, <3>2, CallerGoesOn
  <2>7. CASE OtherInfo
    <3>1. /\ at \in Read /\ UNCHANGED <<input, text, result>> /\ at' \in Read
      BY <2>7 DEF OtherInfo
    <3> QED  BY <3>1, CallerGoesOn
  <2>8. CASE InfoDone
    <3>1. /\ at \in Read /\ UNCHANGED <<input, text, result>> /\ at' \in Read \cup {"crash"}
      BY <2>8 DEF InfoDone
    <3> QED  BY <3>1, CallerGoesOn
  <2>9. CASE TorrentDone
    <3>1. /\ at \in Read /\ UNCHANGED <<input, text>> /\ at' \in {"torrent", "refused"}
      BY <2>9 DEF TorrentDone
    <3> QED  BY <3>1, CallerGoesOn
  <2>10. CASE FailureEntry
    <3>1. /\ at \in Read /\ UNCHANGED <<input, text>> /\ at' = "exit"
      BY <2>10 DEF FailureEntry
    <3> QED  BY <3>1, CallerGoesOn
  <2>11. CASE IntervalEntry
    <3>1. /\ at \in Read /\ UNCHANGED <<input, text, result>> /\ at' \in Read
      BY <2>11 DEF IntervalEntry
    <3> QED  BY <3>1, CallerGoesOn
  <2>12. CASE PeersEntry
    <3>1. /\ at \in Read /\ UNCHANGED <<input, text, result>> /\ at' \in Read \cup {"exit", "crash"}
      BY <2>12 DEF PeersEntry
    <3> QED  BY <3>1, CallerGoesOn
  <2>13. CASE ResponseDone
    <3>1. /\ at \in Read /\ UNCHANGED <<input, text>> /\ at' = "response"
      BY <2>13 DEF ResponseDone
    <3> QED  BY <3>1, CallerGoesOn
  <2>14. CASE OtherEntry
    <3>1. /\ at \in Read /\ UNCHANGED <<input, text, result>> /\ at' \in Read \cup {"crash"}
      BY <2>14 DEF OtherEntry
    <3> QED  BY <3>1, CallerGoesOn
  <2> QED  BY <1>4, <2>1, <2>2, <2>3, <2>4, <2>5, <2>6, <2>7, <2>8, <2>9, <2>10, <2>11, <2>12,
             <2>13, <2>14
<1>5. CASE UNCHANGED vars
  <2>1. UNCHANGED <<input, text, data, data_len, stack, result, at>>
    BY <1>5 DEF vars, decodeVars
  <2>2. InputWhole' <=> InputWhole  BY <2>1 DEF InputWhole, Whole
  <2>3. Measured' <=> Measured  BY <2>1, <2>2 DEF Measured
  <2>4. Reader => Reader'
    <3>1. Decoding(stack, data, result, at) => Decoding(stack', data', result', at')
      BY <2>1
    <3> QED  BY <2>1, <3>1, Carried DEF Reader
  <2> QED  BY <2>1, <2>2, <2>3, <2>4 DEF DecodeInv
<1> QED  BY <1>1, <1>2, <1>3, <1>4, <1>5 DEF Next, TorrentFile, Response

\* In every step the decoder stands where the rest of the document begins, and what
\* is open is what it has read of it (the recursion of _be_decode).
THEOREM DecodeInvariance == Spec => []DecodeInv
<1> QED  BY DecodeInvInit, DecodeInvStep, PTL DEF Spec

\* Decoding inverts the encoding, for every tree and every size of it.
LEMMA DecodeInvWhole == DecodeInv => DecodesWhole
<1> SUFFICES ASSUME DecodeInv, InputWhole, at \in {"decoded", "fault"} PROVE DecodesWhole
  BY DEF DecodesWhole
<1>1. Measured  BY DEF Measured
<1>2. Buffer /\ Reader  BY <1>1, BufferKnown DEF DecodeInv, DecodeStates
<1>3. /\ Len(text) \in Nat /\ input.sent = Len(text)  BY <1>2, BufferLen DEF InputWhole
<1>4. ~Past(stack, data, result, at)  BY <1>3 DEF Past
<1>5. Within(stack, data, result, at) /\ data_len = Len(text) - data + 1
  BY <1>2, <1>4 DEF Reader, Decoding
<1>6. CASE at = "fault"  BY <1>5, <1>6 DEF Within, DecodesWhole
<1>7. CASE at = "decoded"
  <2>1. result = input.doc /\ ~HasEmpty[input.doc] /\ data = Len(Encode[input.doc]) + 1
    BY <1>5, <1>7 DEF Within, Ready
  <2>2. /\ Len(Whole(input)) = Len(Encode[input.doc]) + Len(input.tail) /\ Len(input.tail) \in Nat
        /\ Len(text) = Len(Whole(input)) /\ input.doc \in Nodes
    BY <1>2 DEF Buffer
  <2>3. Len(Encode[input.doc]) \in Nat  BY <2>2, FirstByte
  <2>4. data_len = Len(input.tail)  BY <1>3, <1>5, <2>1, <2>2, <2>3
  <2> QED  BY <1>7, <2>1, <2>4 DEF DecodesWhole
<1> QED  BY <1>6, <1>7

\* Decoding inverts the encoding: what came whole is decoded to the tree that was
\* sent, and what follows it is left alone (_be_decode).
THEOREM WholeIsDecoded == Spec => []DecodesWhole
<1> QED  BY DecodeInvariance, DecodeInvWhole, PTL

\* A response that is cut short and has a Content-Length is never taken for a whole
\* one: none of its values is used (get_tracker_data).
THEOREM CutIsRefused == Spec => []CutIsNotParsed
<1>1. DecodeInv => CutIsNotParsed
  BY DEF DecodeInv, CutIsNotParsed, Measured, DecodeStates
<1> QED  BY <1>1, DecodeInvariance, PTL
-----------------------------------------------------------------------------
(***************************************************************************)
(* The entries of a dictionary.                                            *)
(***************************************************************************)

\* One of the entries before m has the key.
Seen(dict, m, name) == \E k \in 1 .. m - 1 : dict[k].key.str = <<name>>

Once(dict, m, name) == IF Seen(dict, m, name) THEN 1 ELSE 0

Dictionary(dict) ==
  /\ Len(dict) \in Nat /\ Keyed(dict)
  /\ \A k \in 1 .. Len(dict) :
       /\ dict[k].key.str = <<dict[k].key.str[1]>>
       /\ dict[k].key.str # <<>> /\ Head(dict[k].key.str) = dict[k].key.str[1]
       /\ dict[k].key \in Nodes /\ IsStr(dict[k].key)
       /\ dict[k].val \in Nodes /\ dict[k].val # NULL

LEMMA DictionaryKnown ==
  ASSUME NEW n \in Nodes, IsDict(n), Keyed(n.dict)
  PROVE  Dictionary(n.dict)
<1>1. /\ n.dict \in Seq([key : Nodes, val : Nodes])
      /\ \A k \in 1 .. Len(n.dict) : /\ n.dict[k].key \in Nodes /\ IsStr(n.dict[k].key)
                                     /\ n.dict[k].val \in Nodes
  BY Kinds
<1>2. Len(n.dict) \in Nat  BY <1>1, LenProperties
<1>3. ASSUME NEW k \in 1 .. Len(n.dict)
      PROVE  /\ n.dict[k].key.str = <<n.dict[k].key.str[1]>>
             /\ n.dict[k].key.str # <<>> /\ Head(n.dict[k].key.str) = n.dict[k].key.str[1]
  <2> DEFINE s == n.dict[k].key.str
  <2>1. s \in Seq(Letter)
    <3>1. n.dict[k].key \in Nodes /\ IsStr(n.dict[k].key)  BY <1>1
    <3> QED  BY <3>1, Kinds DEF Bytes
  <2>2. Len(s) = 1  BY DEF Keyed
  <2> HIDE DEF s
  <2>3. s = <<s[1]>>  BY <2>1, <2>2
  <2>4. s # <<>>
    <3>1. Len(<<>>) # 1  OBVIOUS
    <3> QED  BY <2>2, <3>1, Zenon
  <2>5. Head(s) = s[1]  BY <2>1, <2>4
  <2> QED  BY <2>3, <2>4, <2>5 DEF s
<1>4. ASSUME NEW k \in 1 .. Len(n.dict) PROVE n.dict[k].val # NULL
  BY <1>1, NotNull, Kinds
<1> QED  BY <1>1, <1>2, <1>3, <1>4 DEF Dictionary

\* What is found by its key.
LEMMA AtKey ==
  ASSUME NEW dict, Dictionary(dict), NEW k \in 1 .. Len(dict), NEW name,
         dict[k].key.str = <<name>>
  PROVE  At(dict, name) = dict[k].val
<1>1. \A l \in 1 .. Len(dict) : dict[l].key.str = <<name>> => l = k
  BY DEF Dictionary, Keyed
<1>2. (CHOOSE l \in 1 .. Len(dict) : dict[l].key.str = <<name>>) = k  BY <1>1
<1> QED  BY <1>2 DEF At

LEMMA SeenNext ==
  ASSUME NEW dict, Dictionary(dict), NEW m \in 1 .. Len(dict), NEW name
  PROVE  /\ Seen(dict, m + 1, name) <=> Seen(dict, m, name) \/ dict[m].key.str = <<name>>
         /\ dict[m].key.str = <<name>> => ~Seen(dict, m, name)
<1>1. m \in Nat /\ (m + 1) - 1 = m /\ Len(dict) \in Nat  BY DEF Dictionary
<1>2. \A k \in 1 .. m : k = m \/ k \in 1 .. m - 1  BY <1>1
<1>3. \A k \in 1 .. m - 1 : k \in 1 .. m /\ k # m /\ k \in 1 .. Len(dict)  BY <1>1
<1>4. m \in 1 .. m  BY <1>1
<1>5. Seen(dict, m + 1, name) <=> \E k \in 1 .. m : dict[k].key.str = <<name>>
  BY <1>1 DEF Seen
<1>6. \A k, l \in 1 .. Len(dict) : dict[k].key.str = dict[l].key.str => k = l
  BY DEF Dictionary, Keyed
<1> QED  BY <1>2, <1>3, <1>4, <1>5, <1>6 DEF Seen

LEMMA SeenFirst == \A dict, name : ~Seen(dict, 1, name)
  BY DEF Seen

\* In the end all keys have been seen.
LEMMA SeenAll ==
  ASSUME NEW dict, Dictionary(dict), NEW name
  PROVE  Seen(dict, Len(dict) + 1, name) <=> name \in KeysOf(dict)
<1>1. (Len(dict) + 1) - 1 = Len(dict)  BY DEF Dictionary
<1>2. \A k \in 1 .. Len(dict) : dict[k].key.str = <<name>> <=> dict[k].key.str[1] = name
  BY DEF Dictionary
<1> QED  BY <1>1, <1>2 DEF Seen, KeysOf

\* What the keys begin with.
LEMMA BeginsIs ==
  ASSUME NEW dict, Dictionary(dict), NEW k \in 1 .. Len(dict)
  PROVE  LET key == dict[k].key
             is(name) == key.str = <<name>>
         IN  /\ Begins(key, "announce") <=> is("announce") \/ is("announce-list")
             /\ Begins(key, "info") <=> is("info")
             /\ Begins(key, "length") <=> is("length")
             /\ Begins(key, "name") <=> is("name") \/ is("name.utf-8")
             /\ Begins(key, PieceLength) <=> is(PieceLength)
             /\ Begins(key, "pieces") <=> is("pieces")
             /\ Begins(key, FailureReason) <=> is(FailureReason)
             /\ Begins(key, "interval") <=> is("interval")
             /\ Begins(key, "peers") <=> is("peers") \/ is("peers6")
<1> DEFINE key == dict[k].key
           c == key.str[1]
<1>1. key.str = <<c>> /\ key.str # <<>> /\ Head(key.str) = c /\ IsStr(key)  BY DEF Dictionary
<1> HIDE DEF key, c
<1>2. \A name : key.str = <<name>> <=> c = name  BY <1>1
<1>3. \A name : Begins(key, name) <=> c = name \/ <<c, name>> \in Longer  BY <1>1, <1>2 DEF Begins
<1>4. \A name : <<c, name>> \in Longer <=>
        \/ c = "announce-list" /\ name = "announce"
        \/ c = "name.utf-8" /\ name = "name"
        \/ c = "peers6" /\ name = "peers"
  BY DEF Longer
<1>5. \A name : Begins(key, name) <=> \/ c = name
                                      \/ c = "announce-list" /\ name = "announce"
                                      \/ c = "name.utf-8" /\ name = "name"
                                      \/ c = "peers6" /\ name = "peers"
  BY <1>3, <1>4
<1>6. PieceLength \notin {"announce", "name", "peers"} /\ FailureReason \notin {"announce", "name", "peers"}
  BY Zenon DEF PieceLength, FailureReason
<1>7. /\ Begins(key, "announce") <=> c = "announce" \/ c = "announce-list"
      /\ Begins(key, "info") <=> c = "info"
      /\ Begins(key, "length") <=> c = "length"
      /\ Begins(key, "name") <=> c = "name" \/ c = "name.utf-8"
      /\ Begins(key, "pieces") <=> c = "pieces"
      /\ Begins(key, "interval") <=> c = "interval"
      /\ Begins(key, "peers") <=> c = "peers" \/ c = "peers6"
  BY <1>5
<1>8. /\ Begins(key, PieceLength) <=> c = PieceLength
      /\ Begins(key, FailureReason) <=> c = FailureReason
  BY <1>5, <1>6
<1> QED  BY <1>2, <1>7, <1>8 DEF key

LEMMA OneKey ==
  ASSUME NEW dict, NEW m, NEW a, NEW b, dict[m].key.str = <<a>>, dict[m].key.str = <<b>>
  PROVE  a = b
<1>1. <<a>> = <<b>>  OBVIOUS
<1>2. <<a>>[1] = a /\ <<b>>[1] = b  OBVIOUS
<1>3. <<a>>[1] = <<b>>[1]  BY <1>1, Zenon
<1> QED  BY <1>2, <1>3

LEMMA OnceNext ==
  ASSUME NEW dict, Dictionary(dict), NEW m \in 1 .. Len(dict), NEW name
  PROVE  /\ Once(dict, m, name) \in {0, 1}
         /\ dict[m].key.str = <<name>> => Once(dict, m, name) = 0 /\ Once(dict, m + 1, name) = 1
         /\ dict[m].key.str # <<name>> => Once(dict, m + 1, name) = Once(dict, m, name)
<1>1. /\ Seen(dict, m + 1, name) <=> Seen(dict, m, name) \/ dict[m].key.str = <<name>>
      /\ dict[m].key.str = <<name>> => ~Seen(dict, m, name)
  BY SeenNext
<1> QED  BY <1>1 DEF Once

-----------------------------------------------------------------------------
(***************************************************************************)
(* The torrent file.                                                       *)
(***************************************************************************)

\* The names parsetorrentfile looks for are not the same.
LEMMA NamesDiffer ==
  /\ "length" # "name" /\ "length" # "name.utf-8" /\ "length" # PieceLength /\ "length" # "pieces"
  /\ "name" # "name.utf-8" /\ "name" # PieceLength /\ "name" # "pieces"
  /\ "name.utf-8" # PieceLength /\ "name.utf-8" # "pieces" /\ PieceLength # "pieces"
  BY Zenon DEF PieceLength

\* Entry m is counted.
Counts(info, m) ==
  \/ info[m].key.str = <<"length">> \/ info[m].key.str = <<"name">>
  \/ info[m].key.str = <<"name.utf-8">> \/ info[m].key.str = <<PieceLength>>
  \/ info[m].key.str = <<"pieces">>

InfoCount(info, m) ==
  Once(info, m, "length") + Once(info, m, "name") + Once(info, m, "name.utf-8")
    + Once(info, m, PieceLength) + Once(info, m, "pieces")

LEMMA InfoCountNext ==
  ASSUME NEW info, Dictionary(info), NEW m \in 1 .. Len(info)
  PROVE  /\ Counts(info, m) => InfoCount(info, m + 1) = InfoCount(info, m) + 1
         /\ ~Counts(info, m) => InfoCount(info, m + 1) = InfoCount(info, m)
<1> DEFINE Is(name) == info[m].key.str = <<name>>
           a(k) == Once(info, k, "length")
           b(k) == Once(info, k, "name")
           c(k) == Once(info, k, "name.utf-8")
           d(k) == Once(info, k, PieceLength)
           e(k) == Once(info, k, "pieces")
<1>1. /\ a(m) \in {0, 1} /\ b(m) \in {0, 1} /\ c(m) \in {0, 1} /\ d(m) \in {0, 1} /\ e(m) \in {0, 1}
      /\ Is("length") => a(m) = 0 /\ a(m + 1) = 1
      /\ ~Is("length") => a(m + 1) = a(m)
      /\ Is("name") => b(m) = 0 /\ b(m + 1) = 1
      /\ ~Is("name") => b(m + 1) = b(m)
      /\ Is("name.utf-8") => c(m) = 0 /\ c(m + 1) = 1
      /\ ~Is("name.utf-8") => c(m + 1) = c(m)
      /\ Is(PieceLength) => d(m) = 0 /\ d(m + 1) = 1
      /\ ~Is(PieceLength) => d(m + 1) = d(m)
      /\ Is("pieces") => e(m) = 0 /\ e(m + 1) = 1
      /\ ~Is("pieces") => e(m + 1) = e(m)
  BY OnceNext
<1>2. \A x, y : Is(x) /\ Is(y) => x = y  BY OneKey
<1>3. Counts(info, m) <=> Is("length") \/ Is("name") \/ Is("name.utf-8") \/ Is(PieceLength) \/ Is("pieces")
  BY DEF Counts
<1>4. \A k : InfoCount(info, k) = a(k) + b(k) + c(k) + d(k) + e(k)  BY DEF InfoCount
<1> HIDE DEF Is, a, b, c, d, e
<1>5. CASE Is("length")
  <2>1. ~Is("name") /\ ~Is("name.utf-8") /\ ~Is(PieceLength) /\ ~Is("pieces")
    BY <1>2, <1>5, NamesDiffer
  <2> QED  BY <1>1, <1>3, <1>4, <1>5, <2>1
<1>6. CASE Is("name")
  <2>1. ~Is("length") /\ ~Is("name.utf-8") /\ ~Is(PieceLength) /\ ~Is("pieces")
    BY <1>2, <1>6, NamesDiffer
  <2> QED  BY <1>1, <1>3, <1>4, <1>6, <2>1
<1>7. CASE Is("name.utf-8")
  <2>1. ~Is("length") /\ ~Is("name") /\ ~Is(PieceLength) /\ ~Is("pieces")
    BY <1>2, <1>7, NamesDiffer
  <2> QED  BY <1>1, <1>3, <1>4, <1>7, <2>1
<1>8. CASE Is(PieceLength)
  <2>1. ~Is("length") /\ ~Is("name") /\ ~Is("name.utf-8") /\ ~Is("pieces")
    BY <1>2, <1>8, NamesDiffer
  <2> QED  BY <1>1, <1>3, <1>4, <1>8, <2>1
<1>9. CASE Is("pieces")
  <2>1. ~Is("length") /\ ~Is("name") /\ ~Is("name.utf-8") /\ ~Is(PieceLength)
    BY <1>2, <1>9, NamesDiffer
  <2> QED  BY <1>1, <1>3, <1>4, <1>9, <2>1
<1>10. CASE ~Counts(info, m)
  BY <1>1, <1>3, <1>4, <1>10
<1> QED  BY <1>3, <1>5, <1>6, <1>7, <1>8, <1>9, <1>10

\* The name of the file, and what the heap holds behind it.
NameOf(info, x) == \E heap \in Heap : x = Named(At(info, "name"), heap)

\* The fields of the entries of info before m.
InfoRead(info, m, f, n) ==
  /\ Seen(info, m, "name") /\ ~Seen(info, m, "name.utf-8") => NameOf(info, f["name"])
  /\ Seen(info, m, "length") => f["length"] = <<At(info, "length").int>>
  /\ Seen(info, m, PieceLength) => f["piece_len"] = <<At(info, PieceLength).int>>
  /\ Seen(info, m, "pieces") /\ Seen(info, m, "length") /\ Seen(info, m, PieceLength) =>
       n = PiecesOf(Value[At(info, "length").int], Value[At(info, PieceLength).int])

\* What a step of the loop over info does to the fields.
Sets(f, g, name, x) == g = [f EXCEPT ![name] = x]

InfoStep(info, m, f, g, n, p) ==
  LET Is(name) == info[m].key.str = <<name>>
  IN  \/ Is("length") /\ Sets(f, g, "length", IntOf(info[m].val)) /\ p = n
      \/ /\ Is("name") \/ Is("name.utf-8")
         /\ \E heap \in Heap : Sets(f, g, "name", Named(info[m].val, heap))
         /\ p = n
      \/ Is(PieceLength) /\ Sets(f, g, "piece_len", IntOf(info[m].val)) /\ p = n
      \/ /\ Is("pieces") /\ g = f
         /\ {f["length"], f["piece_len"]} \cap {Unset, Garbage} = {} =>
              p = PiecesOf(Value[f["length"][1]], Value[f["piece_len"][1]])
      \/ ~Counts(info, m) /\ g = f /\ p = n

\* A number found by its key.
LEMMA LengthIs ==
  ASSUME NEW info, Dictionary(info), InfoFormat(info), NEW k \in 1 .. Len(info)
  PROVE  /\ info[k].key.str = <<"length">> =>
              /\ At(info, "length") = info[k].val /\ IntOf(info[k].val) = <<At(info, "length").int>>
              /\ At(info, "length").int \in DOMAIN Value /\ Value[At(info, "length").int] >= 0
         /\ info[k].key.str = <<PieceLength>> =>
              /\ At(info, PieceLength) = info[k].val /\ IntOf(info[k].val) = <<At(info, PieceLength).int>>
              /\ At(info, PieceLength).int \in DOMAIN Value /\ Value[At(info, PieceLength).int] > 0
<1>1. info[k].val \in Nodes  BY DEF Dictionary
<1>2. ASSUME info[k].key.str = <<"length">>
      PROVE  /\ At(info, "length") = info[k].val /\ IntOf(info[k].val) = <<At(info, "length").int>>
             /\ At(info, "length").int \in DOMAIN Value /\ Value[At(info, "length").int] >= 0
  <2>1. At(info, "length") = info[k].val  BY <1>2, AtKey
  <2>2. IsInt(info[k].val) /\ Value[info[k].val.int] >= 0  BY <1>2 DEF InfoFormat
  <2>3. info[k].val.int \in DOMAIN Value  BY <1>1, <2>2, Kinds
  <2> QED  BY <2>1, <2>2, <2>3 DEF IntOf
<1>3. ASSUME info[k].key.str = <<PieceLength>>
      PROVE  /\ At(info, PieceLength) = info[k].val /\ IntOf(info[k].val) = <<At(info, PieceLength).int>>
             /\ At(info, PieceLength).int \in DOMAIN Value /\ Value[At(info, PieceLength).int] > 0
  <2>1. At(info, PieceLength) = info[k].val  BY <1>3, AtKey
  <2>2. IsInt(info[k].val) /\ Value[info[k].val.int] > 0  BY <1>3 DEF InfoFormat
  <2>3. info[k].val.int \in DOMAIN Value  BY <1>1, <2>2, Kinds
  <2> QED  BY <2>1, <2>2, <2>3 DEF IntOf
<1> QED  BY <1>2, <1>3

LEMMA SetsOne ==
  ASSUME NEW f, NEW g, NEW name, NEW x, Sets(f, g, name, x), DOMAIN f = Fields, name \in Fields
  PROVE  /\ DOMAIN g = Fields /\ g[name] = x
         /\ \A other \in Fields : other # name => g[other] = f[other]
  BY DEF Sets

\* The fields keep to the entries that have been read.
LEMMA InfoNext ==
  ASSUME NEW info, Dictionary(info), InfoFormat(info), NEW m \in 1 .. Len(info),
         NEW f, NEW g, NEW n, NEW p, DOMAIN f = Fields, InfoRead(info, m, f, n),
         InfoStep(info, m, f, g, n, p)
  PROVE  /\ InfoRead(info, m + 1, g, p) /\ DOMAIN g = Fields
         /\ g["announce"] = f["announce"] /\ g["info_hash"] = f["info_hash"]
<1> DEFINE Is(name) == info[m].key.str = <<name>>
           val == info[m].val
           S(name) == Seen(info, m, name)
           T(name) == Seen(info, m + 1, name)
<1>1. \A name : (T(name) <=> S(name) \/ Is(name)) /\ (Is(name) => ~S(name))  BY SeenNext
<1>2. \A x, y : Is(x) /\ Is(y) => x = y  BY OneKey
<1>3. /\ S("name") /\ ~S("name.utf-8") => NameOf(info, f["name"])
      /\ S("length") => f["length"] = <<At(info, "length").int>>
      /\ S(PieceLength) => f["piece_len"] = <<At(info, PieceLength).int>>
      /\ S("pieces") /\ S("length") /\ S(PieceLength) =>
           n = PiecesOf(Value[At(info, "length").int], Value[At(info, PieceLength).int])
  BY DEF InfoRead
<1>4. /\ Is("length") => At(info, "length") = val /\ IntOf(val) = <<At(info, "length").int>>
      /\ Is(PieceLength) => At(info, PieceLength) = val /\ IntOf(val) = <<At(info, PieceLength).int>>
  BY LengthIs
<1>5. Is("name") => val = At(info, "name")  BY AtKey
\* pieces is behind the lengths.
<1>6. Is("length") \/ Is(PieceLength) => ~S("pieces")
  <2> SUFFICES ASSUME Is("length") \/ Is(PieceLength), S("pieces") PROVE FALSE  OBVIOUS
  <2>1. PICK k \in 1 .. m - 1 : info[k].key.str = <<"pieces">>  BY DEF Seen
  <2>2. Len(info) \in Nat  BY DEF Dictionary
  <2>3. k \in 1 .. Len(info) /\ m \in k .. Len(info)  BY <2>2
  <2> QED  BY <2>1, <2>3 DEF InfoFormat
<1>7. {"announce", "info_hash", "name", "length", "piece_len"} \subseteq Fields  BY DEF Fields
<1>8. InfoRead(info, m + 1, g, p) <=>
        /\ T("name") /\ ~T("name.utf-8") => NameOf(info, g["name"])
        /\ T("length") => g["length"] = <<At(info, "length").int>>
        /\ T(PieceLength) => g["piece_len"] = <<At(info, PieceLength).int>>
        /\ T("pieces") /\ T("length") /\ T(PieceLength) =>
             p = PiecesOf(Value[At(info, "length").int], Value[At(info, PieceLength).int])
  BY DEF InfoRead
<1>a. /\ S("length") => At(info, "length").int \in DOMAIN Value
      /\ S(PieceLength) => At(info, PieceLength).int \in DOMAIN Value
  <2>1. Len(info) \in Nat  BY DEF Dictionary
  <2>2. \A k \in 1 .. m - 1 : k \in 1 .. Len(info)  BY <2>1
  <2> QED  BY <2>2, LengthIs DEF Seen
<1>b. Counts(info, m) <=> Is("length") \/ Is("name") \/ Is("name.utf-8") \/ Is(PieceLength) \/ Is("pieces")
  BY DEF Counts
<1>c. \/ Is("length") /\ Sets(f, g, "length", IntOf(val)) /\ p = n
      \/ /\ Is("name") \/ Is("name.utf-8")
         /\ \E heap \in Heap : Sets(f, g, "name", Named(val, heap))
         /\ p = n
      \/ Is(PieceLength) /\ Sets(f, g, "piece_len", IntOf(val)) /\ p = n
      \/ /\ Is("pieces") /\ g = f
         /\ {f["length"], f["piece_len"]} \cap {Unset, Garbage} = {} =>
              p = PiecesOf(Value[f["length"][1]], Value[f["piece_len"][1]])
      \/ ~Counts(info, m) /\ g = f /\ p = n
  BY DEF InfoStep
<1> HIDE DEF Is, val, S, T
<1>9. CASE Is("length") /\ Sets(f, g, "length", IntOf(val)) /\ p = n
  <2>1. ~Is("name") /\ ~Is("name.utf-8") /\ ~Is(PieceLength) /\ ~Is("pieces")
    BY <1>2, <1>9, NamesDiffer
  <2>2. /\ DOMAIN g = Fields /\ g["length"] = IntOf(val) /\ g["name"] = f["name"]
        /\ g["piece_len"] = f["piece_len"] /\ g["announce"] = f["announce"]
        /\ g["info_hash"] = f["info_hash"]
    BY <1>7, <1>9, SetsOne
  <2>3. InfoRead(info, m + 1, g, p)
    BY <1>1, <1>3, <1>4, <1>6, <1>8, <1>9, <2>1, <2>2
  <2> QED  BY <2>2, <2>3
<1>10. CASE /\ Is("name") \/ Is("name.utf-8")
            /\ \E heap \in Heap : Sets(f, g, "name", Named(val, heap))
            /\ p = n
  <2>h. PICK heap \in Heap : Sets(f, g, "name", Named(val, heap))  BY <1>10
  <2>1. ~Is("length") /\ ~Is(PieceLength) /\ ~Is("pieces")
    BY <1>2, <1>10, NamesDiffer
  <2>2. /\ DOMAIN g = Fields /\ g["name"] = Named(val, heap) /\ g["length"] = f["length"]
        /\ g["piece_len"] = f["piece_len"] /\ g["announce"] = f["announce"]
        /\ g["info_hash"] = f["info_hash"]
    BY <1>7, <2>h, SetsOne
  <2>3. Is("name") => NameOf(info, g["name"])  BY <1>5, <2>2 DEF NameOf
  <2>4. InfoRead(info, m + 1, g, p)
    BY <1>1, <1>3, <1>8, <1>10, <2>1, <2>2, <2>3
  <2> QED  BY <2>2, <2>4
<1>11. CASE Is(PieceLength) /\ Sets(f, g, "piece_len", IntOf(val)) /\ p = n
  <2>1. ~Is("name") /\ ~Is("name.utf-8") /\ ~Is("length") /\ ~Is("pieces")
    BY <1>2, <1>11, NamesDiffer
  <2>2. /\ DOMAIN g = Fields /\ g["piece_len"] = IntOf(val) /\ g["name"] = f["name"]
        /\ g["length"] = f["length"] /\ g["announce"] = f["announce"]
        /\ g["info_hash"] = f["info_hash"]
    BY <1>7, <1>11, SetsOne
  <2>3. InfoRead(info, m + 1, g, p)
    BY <1>1, <1>3, <1>4, <1>6, <1>8, <1>11, <2>1, <2>2
  <2> QED  BY <2>2, <2>3
<1>12. CASE /\ Is("pieces") /\ g = f
            /\ {f["length"], f["piece_len"]} \cap {Unset, Garbage} = {} =>
                 p = PiecesOf(Value[f["length"][1]], Value[f["piece_len"][1]])
  <2>1. ~Is("name") /\ ~Is("name.utf-8") /\ ~Is("length") /\ ~Is(PieceLength)
    BY <1>2, <1>12, NamesDiffer
  <2>2. ASSUME S("length"), S(PieceLength)
        PROVE  p = PiecesOf(Value[At(info, "length").int], Value[At(info, PieceLength).int])
    <3> DEFINE x == At(info, "length").int
               y == At(info, PieceLength).int
    <3>1. x \in DOMAIN Value /\ y \in DOMAIN Value  BY <1>a, <2>2
    <3>2. f["length"] = <<x>> /\ f["piece_len"] = <<y>>  BY <1>3, <2>2
    <3> HIDE DEF x, y
    <3>3. <<x>> \notin {Unset, Garbage} /\ <<y>> \notin {Unset, Garbage}
      <4>1. x \notin {"unset", "garbage"} /\ y \notin {"unset", "garbage"}  BY <3>1, Values
      <4> QED  BY <4>1 DEF Unset, Garbage
    <3>4. f["length"][1] = x /\ f["piece_len"][1] = y  BY <3>2
    <3>5. {f["length"], f["piece_len"]} \cap {Unset, Garbage} = {}  BY <3>2, <3>3
    <3> QED  BY <1>12, <3>4, <3>5 DEF x, y
  <2>3. InfoRead(info, m + 1, g, p)
    BY <1>1, <1>3, <1>8, <1>12, <2>1, <2>2
  <2> QED  BY <1>12, <2>3
<1>13. CASE ~Counts(info, m) /\ g = f /\ p = n
  <2>1. InfoRead(info, m + 1, g, p)  BY <1>1, <1>3, <1>8, <1>b, <1>13
  <2> QED  BY <1>13, <2>1
<1> QED  BY <1>c, <1>9, <1>10, <1>11, <1>12, <1>13

\* What the format says of a file, of its root's entries.
Torrent(root) ==
  /\ Dictionary(root)
  /\ \A k \in 1 .. Len(root) :
       /\ root[k].key.str = <<"announce">> => IsStr(root[k].val)
       /\ root[k].key.str = <<"info">> =>
            /\ IsDict(root[k].val) /\ At(root, "info") = root[k].val
            /\ Dictionary(root[k].val.dict) /\ InfoFormat(root[k].val.dict)

LEMMA TorrentKnown ==
  ASSUME input \in Inputs, input.kind = "file"
  PROVE  /\ InputWhole /\ input.doc \in Nodes
         /\ IsDict(input.doc) => Torrent(Root)
<1>1. TorrentFormat(input) /\ input.doc \in Nodes
  BY MetainfoAssumption, BencodeAssumption DEF BencodeInput
<1>2. InputWhole  BY <1>1 DEF TorrentFormat, InputWhole
<1>3. ASSUME IsDict(input.doc) PROVE Torrent(Root)
  <2>1. /\ Keyed(Root)
        /\ \A k \in 1 .. Len(Root) :
             /\ Root[k].key.str = <<"announce">> => IsStr(Root[k].val)
             /\ Root[k].key.str = <<"info">> => IsDict(Root[k].val) /\ InfoFormat(Root[k].val.dict)
    BY <1>1, <1>3 DEF TorrentFormat, Root
  <2>2. Dictionary(Root)  BY <1>1, <1>3, <2>1, DictionaryKnown DEF Root
  <2>3. ASSUME NEW k \in 1 .. Len(Root), Root[k].key.str = <<"info">>
        PROVE  At(Root, "info") = Root[k].val /\ Dictionary(Root[k].val.dict)
    <3>1. At(Root, "info") = Root[k].val  BY <2>2, <2>3, AtKey
    <3>2. Root[k].val \in Nodes  BY <2>2 DEF Dictionary
    <3>3. IsDict(Root[k].val) /\ Keyed(Root[k].val.dict)  BY <2>1, <2>3 DEF InfoFormat
    <3> QED  BY <3>1, <3>2, <3>3, DictionaryKnown
  <2> QED  BY <2>1, <2>2, <2>3 DEF Torrent
<1> QED  BY <1>1, <1>2, <1>3

RootRead(root, m, f) ==
  Seen(root, m, "announce") /\ ~Seen(root, m, "announce-list") =>
    f["announce"] = At(root, "announce").str

RootCount(root, m) == Once(root, m, "announce") + Once(root, m, "announce-list")

Announces(root, m) ==
  root[m].key.str = <<"announce">> \/ root[m].key.str = <<"announce-list">>

\* An announce entry.
LEMMA AnnounceNext ==
  ASSUME NEW root, Torrent(root), NEW m \in 1 .. Len(root), Announces(root, m),
         NEW f, NEW g, DOMAIN f = Fields, Sets(f, g, "announce", StrOf(root[m].val))
  PROVE  /\ RootRead(root, m + 1, g) /\ RootCount(root, m + 1) = RootCount(root, m) + 1
         /\ DOMAIN g = Fields /\ \A name \in Fields : name # "announce" => g[name] = f[name]
<1> DEFINE Is(name) == root[m].key.str = <<name>>
           val == root[m].val
<1>1. Dictionary(root)  BY DEF Torrent
<1>2. \A name : (Seen(root, m + 1, name) <=> Seen(root, m, name) \/ Is(name))
                /\ (Is(name) => ~Seen(root, m, name))
  BY <1>1, SeenNext
<1>3. "announce" \in Fields  BY DEF Fields
<1>4. /\ DOMAIN g = Fields /\ g["announce"] = StrOf(val)
      /\ \A name \in Fields : name # "announce" => g[name] = f[name]
  BY <1>3, SetsOne
<1>5. Is("announce") => StrOf(val) = At(root, "announce").str
  BY <1>1, AtKey DEF Torrent, StrOf
<1>6. RootRead(root, m + 1, g)
  <2> SUFFICES ASSUME Seen(root, m + 1, "announce"), ~Seen(root, m + 1, "announce-list")
               PROVE  g["announce"] = At(root, "announce").str
    BY DEF RootRead
  <2>1. ~Is("announce-list")  BY <1>2
  <2>2. Is("announce")  BY <2>1 DEF Announces
  <2> QED  BY <1>4, <1>5, <2>2
<1>7. RootCount(root, m + 1) = RootCount(root, m) + 1
  <2> DEFINE a(k) == Once(root, k, "announce")
             b(k) == Once(root, k, "announce-list")
  <2>1. /\ a(m) \in {0, 1} /\ b(m) \in {0, 1}
        /\ Is("announce") => a(m) = 0 /\ a(m + 1) = 1
        /\ ~Is("announce") => a(m + 1) = a(m)
        /\ Is("announce-list") => b(m) = 0 /\ b(m + 1) = 1
        /\ ~Is("announce-list") => b(m + 1) = b(m)
    BY <1>1, OnceNext
  <2>2. ~(Is("announce") /\ Is("announce-list"))
    <3>1. Is("announce") /\ Is("announce-list") => "announce" = "announce-list"  BY OneKey
    <3> QED  BY <3>1
  <2>3. Is("announce") \/ Is("announce-list")  BY DEF Announces
  <2>4. \A k : RootCount(root, k) = a(k) + b(k)  BY DEF RootCount
  <2> HIDE DEF Is, a, b
  <2> QED  BY <2>1, <2>2, <2>3, <2>4
<1> QED  BY <1>4, <1>6, <1>7

\* Any other.
LEMMA RootNext ==
  ASSUME NEW root, Dictionary(root), NEW m \in 1 .. Len(root), ~Announces(root, m),
         NEW f, RootRead(root, m, f)
  PROVE  RootRead(root, m + 1, f) /\ RootCount(root, m + 1) = RootCount(root, m)
<1>1. /\ Seen(root, m + 1, "announce") <=> Seen(root, m, "announce")
      /\ Seen(root, m + 1, "announce-list") <=> Seen(root, m, "announce-list")
  BY SeenNext DEF Announces
<1> QED  BY <1>1 DEF RootRead, RootCount, Once

LEMMA RootReadBy ==
  ASSUME NEW root, NEW m, NEW f, NEW g, g["announce"] = f["announce"], RootRead(root, m, f)
  PROVE  RootRead(root, m, g)
  BY DEF RootRead

InfoOf(root) == At(root, "info").dict

\* How far info has been read.
Behind(m, l, a) ==
  IF a = "info" THEN l ELSE IF Seen(Root, m, "info") THEN Len(InfoOf(Root)) + 1 ELSE 1

\* The loops of parsetorrentfile, at entry m of the root and l of info.
FileRead(m, l, f, n, c, a) ==
  /\ IsDict(input.doc) /\ m \in 1 .. Len(Root) + 1
  /\ a = "info" => /\ m \in 1 .. Len(Root) /\ Root[m].key.str = <<"info">>
                   /\ l \in 1 .. Len(InfoOf(Root)) + 1
  /\ f["info_hash"] = SubSeq(text, Min(InfoAt), InfoEnd)
  /\ RootRead(Root, m, f) /\ InfoRead(InfoOf(Root), Behind(m, l, a), f, n)
  /\ c = RootCount(Root, m) + InfoCount(InfoOf(Root), Behind(m, l, a))
  /\ a \in {"torrent", "refused"} => m = Len(Root) + 1 /\ (a = "torrent" <=> c >= 5)

LEMMA FileCarried ==
  ASSUME input' = input, text' = text, FileRead(i', j', field', num_pieces', filled', at')
  PROVE  FileRead(i, j, field, num_pieces, filled, at)'
  BY DEF FileRead, Behind, Root, InfoAt, InfoEnd

LEMMA CountsNat ==
  ASSUME NEW dict, NEW m
  PROVE  RootCount(dict, m) \in Nat /\ InfoCount(dict, m) \in Nat
<1>1. \A name : Once(dict, m, name) \in Nat  BY DEF Once
<1> QED  BY <1>1 DEF RootCount, InfoCount

LEMMA FileWhereAbout ==
  ASSUME input \in Inputs, input.kind = "file",
         NEW m, NEW l, NEW f, NEW n, NEW c, NEW a, FileRead(m, l, f, n, c, a)
  PROVE  /\ Torrent(Root) /\ Dictionary(Root)
         /\ a = "info" =>
              /\ Root[m].val.dict = InfoOf(Root) /\ At(Root, "info") = Root[m].val
              /\ Dictionary(InfoOf(Root)) /\ InfoFormat(InfoOf(Root))
              /\ l \in 1 .. Len(InfoOf(Root)) + 1 /\ Len(InfoOf(Root)) \in Nat
<1>1. Torrent(Root)  BY TorrentKnown DEF FileRead
<1>2. Dictionary(Root)  BY <1>1 DEF Torrent
<1>3. ASSUME a = "info"
      PROVE  /\ Root[m].val.dict = InfoOf(Root) /\ At(Root, "info") = Root[m].val
             /\ Dictionary(InfoOf(Root)) /\ InfoFormat(InfoOf(Root))
             /\ l \in 1 .. Len(InfoOf(Root)) + 1 /\ Len(InfoOf(Root)) \in Nat
  <2>1. /\ m \in 1 .. Len(Root) /\ Root[m].key.str = <<"info">>
        /\ l \in 1 .. Len(InfoOf(Root)) + 1
    BY <1>3 DEF FileRead
  <2>2. /\ IsDict(Root[m].val) /\ At(Root, "info") = Root[m].val
        /\ Dictionary(Root[m].val.dict) /\ InfoFormat(Root[m].val.dict)
    BY <1>1, <2>1 DEF Torrent
  <2>3. Root[m].val.dict = InfoOf(Root)  BY <2>2 DEF InfoOf
  <2>4. Len(InfoOf(Root)) \in Nat  BY <2>2, <2>3 DEF Dictionary
  <2> QED  BY <2>1, <2>2, <2>3, <2>4
<1> QED  BY <1>1, <1>2, <1>3

\* An entry of info.
LEMMA InfoEntryRead ==
  ASSUME input \in Inputs, input.kind = "file",
         NEW m, NEW l, NEW f, NEW n, NEW c, FileRead(m, l, f, n, c, "info"),
         l <= Len(InfoOf(Root)), DOMAIN f = Fields,
         NEW g, NEW p, NEW q, InfoStep(InfoOf(Root), l, f, g, n, p),
         q = IF Counts(InfoOf(Root), l) THEN c + 1 ELSE c
  PROVE  FileRead(m, l + 1, g, p, q, "info") /\ DOMAIN g = Fields
<1> DEFINE info == InfoOf(Root)
<1>1. /\ Dictionary(info) /\ InfoFormat(info)
      /\ l \in 1 .. Len(info) + 1 /\ Len(info) \in Nat
  BY FileWhereAbout
<1>2. l \in 1 .. Len(info) /\ l + 1 \in 1 .. Len(info) + 1  BY <1>1
<1>3. \A k : Behind(m, k, "info") = k  BY DEF Behind
<1>4. /\ IsDict(input.doc) /\ m \in 1 .. Len(Root) + 1
      /\ m \in 1 .. Len(Root) /\ Root[m].key.str = <<"info">>
      /\ f["info_hash"] = SubSeq(text, Min(InfoAt), InfoEnd)
      /\ RootRead(Root, m, f) /\ InfoRead(info, l, f, n)
      /\ c = RootCount(Root, m) + InfoCount(info, l)
  BY <1>3 DEF FileRead
<1> HIDE DEF info
<1>5. /\ InfoRead(info, l + 1, g, p) /\ DOMAIN g = Fields
      /\ g["announce"] = f["announce"] /\ g["info_hash"] = f["info_hash"]
  <2>1. InfoStep(info, l, f, g, n, p)  BY DEF info
  <2> QED  BY <1>1, <1>2, <1>4, <2>1, InfoNext
<1>6. RootRead(Root, m, g)  BY <1>4, <1>5, RootReadBy
<1>7. q = RootCount(Root, m) + InfoCount(info, l + 1)
  <2>1. /\ Counts(info, l) => InfoCount(info, l + 1) = InfoCount(info, l) + 1
        /\ ~Counts(info, l) => InfoCount(info, l + 1) = InfoCount(info, l)
    BY <1>1, <1>2, InfoCountNext
  <2>2. q = IF Counts(info, l) THEN c + 1 ELSE c  BY DEF info
  <2>3. RootCount(Root, m) \in Nat /\ InfoCount(info, l) \in Nat  BY CountsNat
  <2> QED  BY <1>4, <2>1, <2>2, <2>3
<1>8. g["info_hash"] = SubSeq(text, Min(InfoAt), InfoEnd)  BY <1>4, <1>5
<1>9. /\ m \in 1 .. Len(Root) + 1 /\ m \in 1 .. Len(Root) /\ Root[m].key.str = <<"info">>
      /\ l + 1 \in 1 .. Len(info) + 1 /\ InfoRead(info, Behind(m, l + 1, "info"), g, p)
      /\ q = RootCount(Root, m) + InfoCount(info, Behind(m, l + 1, "info"))
  BY <1>2, <1>3, <1>4, <1>5, <1>7
<1> QED  BY <1>4, <1>5, <1>6, <1>8, <1>9 DEF FileRead, info
FileNow ==
  /\ input \in Inputs /\ input.kind = "file" /\ result = input.doc /\ DOMAIN field = Fields
  /\ FileRead(i, j, field, num_pieces, filled, at)

FileThen == FileRead(i', j', field', num_pieces', filled', at') /\ DOMAIN field' = Fields

LEMMA InfoLoop ==
  ASSUME FileNow, at = "info", j <= Len(Entry.val.dict)
  PROVE  /\ Entry = Root[i] /\ Entry.val.dict = InfoOf(Root) /\ j \in 1 .. Len(InfoOf(Root))
         /\ Dictionary(InfoOf(Root))
         /\ InfoKey = InfoOf(Root)[j].key /\ InfoVal = InfoOf(Root)[j].val
<1>1. Entry = Root[i]  BY DEF Entry, FileNow, Root
<1>2. /\ Root[i].val.dict = InfoOf(Root) /\ Dictionary(InfoOf(Root))
      /\ j \in 1 .. Len(InfoOf(Root)) + 1 /\ Len(InfoOf(Root)) \in Nat
  BY FileWhereAbout DEF FileNow
<1>3. j \in 1 .. Len(InfoOf(Root))  BY <1>1, <1>2
<1> QED  BY <1>1, <1>2, <1>3 DEF InfoKey, InfoVal

LEMMA InfoStepRead ==
  ASSUME FileNow, at = "info", j <= Len(Entry.val.dict),
         InfoStep(InfoOf(Root), j, field, field', num_pieces, num_pieces'),
         filled' = IF Counts(InfoOf(Root), j) THEN filled + 1 ELSE filled,
         i' = i, j' = j + 1, at' = at
  PROVE  FileThen
<1>1. j <= Len(InfoOf(Root))  BY InfoLoop
<1>2. FileRead(i, j + 1, field', num_pieces', filled', "info") /\ DOMAIN field' = Fields
  BY <1>1, InfoEntryRead DEF FileNow
<1> QED  BY <1>2 DEF FileThen

LEMMA InfoEntries ==
  ASSUME FileNow, at' # "crash",
         LengthEntry \/ NameEntry \/ PieceLengthEntry \/ PiecesEntry \/ OtherInfo
  PROVE  FileThen
<1> DEFINE info == InfoOf(Root)
           Is(name) == info[j].key.str = <<name>>
<1>1. at = "info" /\ j <= Len(Entry.val.dict)
  BY DEF LengthEntry, NameEntry, PieceLengthEntry, PiecesEntry, OtherInfo, InInfo
<1>2. /\ InfoKey = info[j].key /\ InfoVal = info[j].val /\ j \in 1 .. Len(info) /\ Dictionary(info)
  BY <1>1, InfoLoop
<1>3. /\ Begins(InfoKey, "length") <=> Is("length")
      /\ Begins(InfoKey, "name") <=> Is("name") \/ Is("name.utf-8")
      /\ Begins(InfoKey, PieceLength) <=> Is(PieceLength)
      /\ Begins(InfoKey, "pieces") <=> Is("pieces")
  BY <1>2, BeginsIs
<1>4. Counts(info, j) <=> Is("length") \/ Is("name") \/ Is("name.utf-8") \/ Is(PieceLength) \/ Is("pieces")
  BY DEF Counts
<1>5. InfoStep(info, j, field, field', num_pieces, num_pieces') <=>
      \/ Is("length") /\ Sets(field, field', "length", IntOf(InfoVal)) /\ num_pieces' = num_pieces
      \/ /\ Is("name") \/ Is("name.utf-8")
         /\ \E heap \in Heap : Sets(field, field', "name", Named(InfoVal, heap))
         /\ num_pieces' = num_pieces
      \/ Is(PieceLength) /\ Sets(field, field', "piece_len", IntOf(InfoVal)) /\ num_pieces' = num_pieces
      \/ /\ Is("pieces") /\ field' = field
         /\ {field["length"], field["piece_len"]} \cap {Unset, Garbage} = {} =>
              num_pieces' = PiecesOf(Value[field["length"][1]], Value[field["piece_len"][1]])
      \/ ~Counts(info, j) /\ field' = field /\ num_pieces' = num_pieces
  BY <1>2 DEF InfoStep
<1>6. ASSUME i' = i, j' = j + 1, at' = at,
             InfoStep(info, j, field, field', num_pieces, num_pieces'),
             filled' = IF Counts(info, j) THEN filled + 1 ELSE filled
      PROVE  FileThen
  BY <1>1, <1>6, InfoStepRead
<1> HIDE DEF info, Is
<1>7. CASE LengthEntry
  <2>1. /\ Is("length") /\ NextInfo /\ Sets(field, field', "length", IntOf(InfoVal))
        /\ num_pieces' = num_pieces
    BY <1>3, <1>7 DEF LengthEntry, InInfo, Sets
  <2> QED  BY <1>4, <1>5, <1>6, <2>1 DEF NextInfo
<1>8. CASE NameEntry
  <2>1. /\ Is("name") \/ Is("name.utf-8")
        /\ NextInfo /\ num_pieces' = num_pieces
        /\ \E heap \in Heap : Sets(field, field', "name", Named(InfoVal, heap))
    BY <1>3, <1>8 DEF NameEntry, InInfo, Sets, Ends
  <2> QED  BY <1>4, <1>5, <1>6, <2>1 DEF NextInfo
<1>9. CASE PieceLengthEntry
  <2>1. /\ Is(PieceLength) /\ NextInfo /\ Sets(field, field', "piece_len", IntOf(InfoVal))
        /\ num_pieces' = num_pieces
    BY <1>3, <1>9 DEF PieceLengthEntry, InInfo, Sets
  <2> QED  BY <1>4, <1>5, <1>6, <2>1 DEF NextInfo
<1>10. CASE PiecesEntry
  <2>1. /\ Is("pieces") /\ NextInfo /\ field' = field
        /\ {field["length"], field["piece_len"]} \cap {Unset, Garbage} = {} =>
             num_pieces' = PiecesOf(Value[field["length"][1]], Value[field["piece_len"][1]])
    <3>1. Is("pieces")  BY <1>3, <1>10 DEF PiecesEntry, InInfo
    <3>2. CASE {field["length"], field["piece_len"]} \cap {Unset, Garbage} = {}
      BY <1>10, <3>1, <3>2 DEF PiecesEntry
    <3>3. CASE {field["length"], field["piece_len"]} \cap {Unset, Garbage} # {}
      BY <1>10, <3>1, <3>3 DEF PiecesEntry, Ends
    <3> QED  BY <3>2, <3>3
  <2> QED  BY <1>4, <1>5, <1>6, <2>1 DEF NextInfo
<1>11. CASE OtherInfo
  <2>1. /\ ~Begins(InfoKey, "length") /\ ~Begins(InfoKey, "name")
        /\ ~Begins(InfoKey, PieceLength) /\ ~Begins(InfoKey, "pieces")
    BY <1>11 DEF OtherInfo, InfoNames
  <2>2. ~Counts(info, j)  BY <1>3, <1>4, <2>1
  <2>3. /\ i' = i /\ j' = j + 1 /\ at' = at /\ filled' = filled
        /\ field' = field /\ num_pieces' = num_pieces
    BY <1>11 DEF OtherInfo
  <2> QED  BY <1>5, <1>6, <2>2, <2>3
<1> QED  BY <1>7, <1>8, <1>9, <1>10, <1>11
LEMMA InfoReadBy ==
  ASSUME NEW info, NEW m, NEW f, NEW g, NEW n, InfoRead(info, m, f, n),
         g["name"] = f["name"], g["length"] = f["length"], g["piece_len"] = f["piece_len"]
  PROVE  InfoRead(info, m, g, n)
  BY DEF InfoRead

LEMMA RootLoop ==
  ASSUME FileNow, EntryLeft
  PROVE  /\ Entry = Root[i] /\ i \in 1 .. Len(Root) /\ i + 1 \in 1 .. Len(Root) + 1
         /\ Torrent(Root) /\ Dictionary(Root)
<1>1. Entry = Root[i] /\ i <= Len(Root)  BY DEF Entry, FileNow, Root, EntryLeft
<1>2. Torrent(Root) /\ Dictionary(Root)  BY FileWhereAbout DEF FileNow
<1>3. i \in 1 .. Len(Root) + 1  BY DEF FileNow, FileRead
<1>4. Len(Root) \in Nat  BY <1>2 DEF Dictionary
<1> QED  BY <1>1, <1>2, <1>3, <1>4

\* Before the loops.
LEMMA FileBegins ==
  ASSUME input \in Inputs, input.kind = "file", result = input.doc, DOMAIN field = Fields,
         filled = 0, i = 1, j = 1, HashInfo, at' = "entries"
  PROVE  FileThen
<1>1. /\ IsDict(result) /\ field' = [field EXCEPT !["info_hash"] = SubSeq(text, Min(InfoAt), InfoEnd)]
      /\ num_pieces' = num_pieces /\ filled' = filled /\ i' = i /\ j' = j
  BY DEF HashInfo, Ends
<1>2. IsDict(input.doc) /\ Torrent(Root)  BY <1>1, TorrentKnown
<1>3. Len(Root) \in Nat  BY <1>2 DEF Torrent, Dictionary
<1>4. 1 \in 1 .. Len(Root) + 1  BY <1>3
<1>5. "info_hash" \in Fields  BY DEF Fields
<1>6. DOMAIN field' = Fields /\ field'["info_hash"] = SubSeq(text, Min(InfoAt), InfoEnd)
  BY <1>1, <1>5
<1>7. Behind(1, 1, "entries") = 1  BY SeenFirst DEF Behind
<1>8. RootRead(Root, 1, field') /\ RootCount(Root, 1) = 0
  BY SeenFirst DEF RootRead, RootCount, Once
<1>9. InfoRead(InfoOf(Root), 1, field', num_pieces) /\ InfoCount(InfoOf(Root), 1) = 0
  BY SeenFirst DEF InfoRead, InfoCount, Once
<1>10. 0 = RootCount(Root, 1) + InfoCount(InfoOf(Root), 1)  BY <1>8, <1>9
<1>11. FileRead(1, 1, field', num_pieces, 0, "entries")
  BY <1>2, <1>4, <1>6, <1>7, <1>8, <1>9, <1>10 DEF FileRead
<1>12. FileRead(i', j', field', num_pieces', filled', at')  BY <1>1, <1>9, <1>11
<1> QED  BY <1>6, <1>12 DEF FileThen

\* An entry of the root that is not info: what was read of info stays.
LEMMA RootEntryRead ==
  ASSUME input \in Inputs, input.kind = "file",
         NEW m, NEW l, NEW f, NEW n, NEW c, FileRead(m, l, f, n, c, "entries"),
         m \in 1 .. Len(Root), Root[m].key.str # <<"info">>, m + 1 \in 1 .. Len(Root) + 1,
         NEW g, NEW q, RootRead(Root, m + 1, g),
         \A name \in Fields : name # "announce" => g[name] = f[name],
         q = c + RootCount(Root, m + 1) - RootCount(Root, m)
  PROVE  FileRead(m + 1, l, g, n, q, "entries")
<1>1. /\ IsDict(input.doc) /\ f["info_hash"] = SubSeq(text, Min(InfoAt), InfoEnd)
      /\ InfoRead(InfoOf(Root), Behind(m, l, "entries"), f, n)
      /\ c = RootCount(Root, m) + InfoCount(InfoOf(Root), Behind(m, l, "entries"))
  BY DEF FileRead
<1>2. Dictionary(Root)  BY FileWhereAbout
<1>3. Seen(Root, m + 1, "info") <=> Seen(Root, m, "info")  BY <1>2, SeenNext
<1>4. Behind(m + 1, l, "entries") = Behind(m, l, "entries")  BY <1>3 DEF Behind
<1>5. /\ g["info_hash"] = f["info_hash"] /\ g["name"] = f["name"]
      /\ g["length"] = f["length"] /\ g["piece_len"] = f["piece_len"]
  BY DEF Fields
<1>6. InfoRead(InfoOf(Root), Behind(m + 1, l, "entries"), g, n)
  BY <1>1, <1>4, <1>5, InfoReadBy
<1> DEFINE b == Behind(m, l, "entries")
<1>7. RootCount(Root, m) \in Nat /\ RootCount(Root, m + 1) \in Nat /\ InfoCount(InfoOf(Root), b) \in Nat
  BY CountsNat
<1> HIDE DEF b
<1>8. c = RootCount(Root, m) + InfoCount(InfoOf(Root), b)  BY <1>1 DEF b
<1>9. q = RootCount(Root, m + 1) + InfoCount(InfoOf(Root), b)  BY <1>7, <1>8
<1>10. q = RootCount(Root, m + 1) + InfoCount(InfoOf(Root), Behind(m + 1, l, "entries"))
  BY <1>4, <1>9 DEF b
<1> QED  BY <1>1, <1>5, <1>6, <1>10 DEF FileRead

LEMMA AnnounceRead ==
  ASSUME FileNow, AnnounceEntry, at' # "crash"
  PROVE  FileThen
<1>1. /\ EntryLeft /\ at = "entries" /\ i' = i + 1 /\ j' = j /\ at' = at /\ num_pieces' = num_pieces
      /\ filled' = filled + 1 /\ Sets(field, field', "announce", StrOf(Entry.val))
      /\ Begins(Entry.key, "announce")
  BY DEF AnnounceEntry, NextEntry, Ends, EntryLeft, Sets
<1>2. /\ Entry = Root[i] /\ i \in 1 .. Len(Root) /\ i + 1 \in 1 .. Len(Root) + 1
      /\ Torrent(Root) /\ Dictionary(Root)
  BY <1>1, RootLoop
<1>3. Root[i].key.str = <<"announce">> \/ Root[i].key.str = <<"announce-list">>
  BY <1>1, <1>2, BeginsIs
<1>4. Announces(Root, i)  BY <1>3 DEF Announces
<1>5. Root[i].key.str # <<"info">>
  <2>1. ASSUME Root[i].key.str = <<"info">> PROVE "announce" = "info" \/ "announce-list" = "info"
    BY <1>3, <2>1, OneKey
  <2> QED  BY <2>1
<1>6. /\ RootRead(Root, i + 1, field') /\ RootCount(Root, i + 1) = RootCount(Root, i) + 1
      /\ DOMAIN field' = Fields /\ \A name \in Fields : name # "announce" => field'[name] = field[name]
  BY <1>1, <1>2, <1>4, AnnounceNext DEF FileNow
<1>7. RootCount(Root, i) \in Nat /\ RootCount(Root, i + 1) \in Nat  BY CountsNat
<1>8. filled \in Nat
  <2>1. filled = RootCount(Root, i) + InfoCount(InfoOf(Root), Behind(i, j, at))
    BY DEF FileNow, FileRead
  <2> QED  BY <2>1, CountsNat
<1>9. filled + 1 = filled + RootCount(Root, i + 1) - RootCount(Root, i)
  BY <1>6, <1>7, <1>8
<1>10. FileRead(i + 1, j, field', num_pieces, filled + 1, "entries")
  BY <1>1, <1>2, <1>5, <1>6, <1>9, RootEntryRead DEF FileNow
<1> QED  BY <1>1, <1>6, <1>10 DEF FileThen

LEMMA OtherRead ==
  ASSUME FileNow, OtherEntry, at' # "crash"
  PROVE  FileThen
<1>1. /\ EntryLeft /\ at = "entries" /\ i' = i + 1 /\ j' = j /\ at' = at /\ num_pieces' = num_pieces
      /\ filled' = filled /\ field' = field
      /\ ~Begins(Entry.key, "announce") /\ ~Begins(Entry.key, "info")
  BY DEF OtherEntry, NextEntry, EntryLeft, TorrentNames, FileNow, Ends
<1>2. /\ Entry = Root[i] /\ i \in 1 .. Len(Root) /\ i + 1 \in 1 .. Len(Root) + 1 /\ Dictionary(Root)
  BY <1>1, RootLoop
<1>3. ~Announces(Root, i) /\ Root[i].key.str # <<"info">>
  BY <1>1, <1>2, BeginsIs DEF Announces
<1>4. RootRead(Root, i, field)  BY DEF FileNow, FileRead
<1>5. RootRead(Root, i + 1, field) /\ RootCount(Root, i + 1) = RootCount(Root, i)
  BY <1>2, <1>3, <1>4, RootNext
<1>6. RootCount(Root, i) \in Nat  BY CountsNat
<1>8. filled \in Nat
  <2>1. filled = RootCount(Root, i) + InfoCount(InfoOf(Root), Behind(i, j, at))
    BY DEF FileNow, FileRead
  <2> QED  BY <2>1, CountsNat
<1>9. filled = filled + RootCount(Root, i + 1) - RootCount(Root, i)
  BY <1>5, <1>6, <1>8
<1>10. FileRead(i + 1, j, field, num_pieces, filled, "entries")
  BY <1>1, <1>2, <1>3, <1>5, <1>9, RootEntryRead DEF FileNow
<1> QED  BY <1>1, <1>10 DEF FileThen, FileNow

LEMMA InfoBegins ==
  ASSUME FileNow, InfoEntry, at' = "info"
  PROVE  FileThen
<1>1. /\ EntryLeft /\ at = "entries" /\ i' = i /\ j' = 1 /\ num_pieces' = num_pieces
      /\ filled' = filled /\ field' = field /\ Begins(Entry.key, "info")
  BY DEF InfoEntry, EntryLeft, Ends
<1>2. /\ Entry = Root[i] /\ i \in 1 .. Len(Root) /\ Torrent(Root) /\ Dictionary(Root)
  BY <1>1, RootLoop
<1>3. Root[i].key.str = <<"info">>  BY <1>1, <1>2, BeginsIs
<1>4. ~Seen(Root, i, "info")  BY <1>2, <1>3, SeenNext
<1>5. Behind(i, j, "entries") = 1 /\ Behind(i, 1, "info") = 1  BY <1>4 DEF Behind
<1>6. Len(InfoOf(Root)) \in Nat
  <2>1. At(Root, "info") = Root[i].val /\ Dictionary(Root[i].val.dict)  BY <1>2, <1>3 DEF Torrent
  <2> QED  BY <2>1 DEF InfoOf, Dictionary
<1>7. 1 \in 1 .. Len(InfoOf(Root)) + 1  BY <1>6
<1>8. FileRead(i, j, field, num_pieces, filled, "entries")  BY <1>1 DEF FileNow
<1>9. FileRead(i, 1, field, num_pieces, filled, "info")
  BY <1>2, <1>3, <1>5, <1>7, <1>8 DEF FileRead
<1> QED  BY <1>1, <1>9 DEF FileThen, FileNow

LEMMA InfoEnds ==
  ASSUME FileNow, InfoDone, at' = "entries"
  PROVE  FileThen
<1>1. /\ at = "info" /\ j > Len(Entry.val.dict) /\ i' = i + 1 /\ j' = j /\ num_pieces' = num_pieces
      /\ filled' = filled /\ field' = field
  BY DEF InfoDone, Ends
<1>2. /\ Root[i].val.dict = InfoOf(Root) /\ Dictionary(Root)
      /\ j \in 1 .. Len(InfoOf(Root)) + 1 /\ Len(InfoOf(Root)) \in Nat
  BY <1>1, FileWhereAbout DEF FileNow
<1>3. Entry = Root[i]  BY DEF Entry, FileNow, Root
<1>4. j = Len(InfoOf(Root)) + 1  BY <1>1, <1>2, <1>3
<1>5. FileRead(i, j, field, num_pieces, filled, "info")  BY <1>1 DEF FileNow
<1>6. i \in 1 .. Len(Root) /\ Root[i].key.str = <<"info">>  BY <1>5 DEF FileRead
<1>7. Seen(Root, i + 1, "info")  BY <1>2, <1>6, SeenNext
<1>8. Behind(i + 1, j, "entries") = j /\ Behind(i, j, "info") = j
  BY <1>4, <1>7 DEF Behind
<1>9. i + 1 \in 1 .. Len(Root) + 1
  <2>1. Len(Root) \in Nat  BY <1>2 DEF Dictionary
  <2> QED  BY <1>6, <2>1
<1>10. ~Announces(Root, i)
  <2>1. ASSUME Announces(Root, i) PROVE "announce" = "info" \/ "announce-list" = "info"
    BY <1>6, <2>1, OneKey DEF Announces
  <2> QED  BY <2>1
<1>11. RootRead(Root, i + 1, field) /\ RootCount(Root, i + 1) = RootCount(Root, i)
  BY <1>2, <1>5, <1>6, <1>10, RootNext DEF FileRead
<1>12. FileRead(i + 1, j, field, num_pieces, filled, "entries")
  BY <1>5, <1>8, <1>9, <1>11 DEF FileRead
<1> QED  BY <1>1, <1>12 DEF FileThen, FileNow

LEMMA FileEnds ==
  ASSUME FileNow, TorrentDone
  PROVE  FileThen /\ at' \in {"torrent", "refused"}
<1>1. /\ at = "entries" /\ ~EntryLeft /\ i' = i /\ j' = j /\ num_pieces' = num_pieces
      /\ filled' = filled /\ field' = field /\ at' = IF Complete THEN "torrent" ELSE "refused"
  BY DEF TorrentDone, Ends
<1>2. Dictionary(Root)  BY FileWhereAbout DEF FileNow
<1>3. i \in 1 .. Len(Root) + 1  BY DEF FileNow, FileRead
<1>4. Entry = Root[i] /\ Len(result.dict) = Len(Root)  BY DEF Entry, FileNow, Root
<1>5. i = Len(Root) + 1
  <2>1. Len(Root) \in Nat  BY <1>2 DEF Dictionary
  <2>2. CASE i <= Len(Root)
    <3>1. i \in 1 .. Len(Root)  BY <1>3, <2>1, <2>2
    <3>2. Entry.val # NULL  BY <1>2, <1>4, <3>1 DEF Dictionary
    <3> QED  BY <1>1, <1>4, <2>2, <3>2 DEF EntryLeft
  <2>3. CASE i > Len(Root)  BY <1>3, <2>1, <2>3
  <2> QED  BY <1>3, <2>1, <2>2, <2>3
<1>6. FileRead(i, j, field, num_pieces, filled, "entries")  BY <1>1 DEF FileNow
<1>7. at' \in {"torrent", "refused"} /\ (at' = "torrent" <=> filled >= 5)
  BY <1>1 DEF Complete
<1>8. Behind(i, j, at') = Behind(i, j, "entries")  BY <1>7 DEF Behind
<1>9. FileRead(i, j, field, num_pieces, filled, at')
  BY <1>5, <1>6, <1>7, <1>8 DEF FileRead
<1> QED  BY <1>1, <1>7, <1>9 DEF FileThen, FileNow-----------------------------------------------------------------------------
(***************************************************************************)
(* The tracker's response.                                                 *)
(***************************************************************************)

IntervalRead(m, f) ==
  f["interval"] = IF Seen(Root, m, "interval") THEN <<At(Root, "interval").int>> ELSE Unset

PeersRead(m, f, n) ==
  ~Seen(Root, m, "peers6") =>
    IF Seen(Root, m, "peers") THEN f["peers"] = At(Root, "peers").str /\ 6 * n = Len(f["peers"])
    ELSE f["peers"] = Unset

ResponseRead(m, f, n, a) ==
  /\ IsDict(input.doc) /\ m \in 1 .. Len(Root) + 1
  /\ IntervalRead(m, f) /\ PeersRead(m, f, n)
  /\ a = "response" => m = Len(Root) + 1

ResponseNow ==
  /\ input \in Inputs /\ input.kind = "response" /\ result = input.doc /\ DOMAIN field = Fields
  /\ ResponseRead(i, field, num_pieces, at)

ResponseThen == ResponseRead(i', field', num_pieces', at') /\ DOMAIN field' = Fields

LEMMA ResponseCarried ==
  ASSUME input' = input, ResponseRead(i', field', num_pieces', at')
  PROVE  ResponseRead(i, field, num_pieces, at)'
  BY DEF ResponseRead, IntervalRead, PeersRead, Root

LEMMA ResponseKnown ==
  ASSUME input \in Inputs, input.kind = "response", IsDict(input.doc)
  PROVE  /\ Dictionary(Root)
         /\ \A k \in 1 .. Len(Root) :
              /\ Root[k].key.str = <<"interval">> => IsInt(Root[k].val)
              /\ Root[k].key.str = <<"peers">> /\ IsStr(Root[k].val) =>
                   Len(Root[k].val.str) \in Nat /\ Len(Root[k].val.str) % 6 = 0
<1>1. ResponseFormat(input) /\ input.doc \in Nodes
  BY MetainfoAssumption, BencodeAssumption DEF BencodeInput
<1>2. /\ Keyed(Root)
      /\ \A k \in 1 .. Len(Root) :
           /\ Root[k].key.str = <<"interval">> => IsInt(Root[k].val)
           /\ Root[k].key.str = <<"peers">> /\ IsStr(Root[k].val) => Len(Root[k].val.str) % 6 = 0
  BY <1>1 DEF ResponseFormat, Root
<1>3. Dictionary(Root)  BY <1>1, <1>2, DictionaryKnown DEF Root
<1>4. ASSUME NEW k \in 1 .. Len(Root), IsStr(Root[k].val) PROVE Len(Root[k].val.str) \in Nat
  <2>1. Root[k].val \in Nodes  BY <1>3 DEF Dictionary
  <2>2. Root[k].val.str \in Bytes  BY <1>4, <2>1, Kinds
  <2> QED  BY <2>2, LenNat
<1> QED  BY <1>2, <1>3, <1>4

LEMMA ResponseLoop ==
  ASSUME ResponseNow, EntryLeft
  PROVE  /\ Entry = Root[i] /\ i \in 1 .. Len(Root) /\ i + 1 \in 1 .. Len(Root) + 1
         /\ Dictionary(Root) /\ IsDict(input.doc) /\ at = "entries"
         /\ IntervalRead(i, field) /\ PeersRead(i, field, num_pieces)
<1>1. Entry = Root[i] /\ i <= Len(Root) /\ at = "entries"
  BY DEF Entry, ResponseNow, Root, EntryLeft
<1>2. /\ IsDict(input.doc) /\ i \in 1 .. Len(Root) + 1
      /\ IntervalRead(i, field) /\ PeersRead(i, field, num_pieces)
  BY DEF ResponseNow, ResponseRead
<1>3. Dictionary(Root)  BY <1>2, ResponseKnown DEF ResponseNow
<1>4. Len(Root) \in Nat  BY <1>3 DEF Dictionary
<1> QED  BY <1>1, <1>2, <1>3, <1>4

LEMMA ResponseBegins ==
  ASSUME input \in Inputs, input.kind = "response", result = input.doc, DOMAIN field = Fields,
         \A f \in Fields : field[f] = Unset, i = 1, ReadResponse, at' = "entries"
  PROVE  ResponseThen
<1>1. /\ field' = field /\ num_pieces' = num_pieces /\ i' = i
      /\ at' = CASE result = NULL -> "crash" [] IsDict(result) -> "entries" [] OTHER -> "exit"
  BY DEF ReadResponse, Ends
<1>2. IsDict(input.doc)
  <2>1. CASE result = NULL  BY <1>1, <2>1, NotNull
  <2>2. CASE result # NULL /\ ~IsDict(result)  BY <1>1, <2>2
  <2> QED  BY <2>1, <2>2
<1>3. Len(Root) \in Nat  BY <1>2, ResponseKnown DEF Dictionary
<1>4. 1 \in 1 .. Len(Root) + 1  BY <1>3
<1>5. field["interval"] = Unset /\ field["peers"] = Unset  BY DEF Fields
<1>6. IntervalRead(1, field) /\ PeersRead(1, field, num_pieces)
  BY <1>5, SeenFirst DEF IntervalRead, PeersRead
<1> QED  BY <1>1, <1>2, <1>4, <1>6 DEF ResponseThen, ResponseRead

LEMMA IntervalStep ==
  ASSUME ResponseNow, IntervalEntry
  PROVE  ResponseThen
<1>1. /\ EntryLeft /\ i' = i + 1 /\ at' = at /\ num_pieces' = num_pieces
      /\ Sets(field, field', "interval", IntOf(Entry.val)) /\ Begins(Entry.key, "interval")
  BY DEF IntervalEntry, NextEntry, Sets
<1>2. /\ Entry = Root[i] /\ i \in 1 .. Len(Root) /\ i + 1 \in 1 .. Len(Root) + 1
      /\ Dictionary(Root) /\ IsDict(input.doc) /\ at = "entries"
      /\ IntervalRead(i, field) /\ PeersRead(i, field, num_pieces)
  BY <1>1, ResponseLoop
<1>3. Root[i].key.str = <<"interval">>  BY <1>1, <1>2, BeginsIs
<1>4. Root[i].key.str # <<"peers">> /\ Root[i].key.str # <<"peers6">>
  <2>1. Root[i].key.str = <<"peers">> => "peers" = "interval"  BY <1>3, OneKey
  <2>2. Root[i].key.str = <<"peers6">> => "peers6" = "interval"  BY <1>3, OneKey
  <2> QED  BY <2>1, <2>2
<1>5. \A name : Seen(Root, i + 1, name) <=> Seen(Root, i, name) \/ Root[i].key.str = <<name>>
  BY <1>2, SeenNext
<1>6. /\ field'["interval"] = IntOf(Root[i].val) /\ field'["peers"] = field["peers"]
      /\ DOMAIN field' = Fields
  <2>1. "interval" \in Fields /\ "peers" \in Fields  BY DEF Fields
  <2> QED  BY <1>1, <1>2, <2>1, SetsOne DEF ResponseNow
<1>7. At(Root, "interval") = Root[i].val /\ IsInt(Root[i].val)
  <2>1. At(Root, "interval") = Root[i].val  BY <1>2, <1>3, AtKey
  <2> QED  BY <1>2, <1>3, <2>1, ResponseKnown DEF ResponseNow
<1>8. IntervalRead(i + 1, field')
  BY <1>3, <1>5, <1>6, <1>7 DEF IntervalRead, IntOf
<1>9. PeersRead(i + 1, field', num_pieces)
  BY <1>2, <1>4, <1>5, <1>6 DEF PeersRead
<1> QED  BY <1>1, <1>2, <1>6, <1>8, <1>9 DEF ResponseThen, ResponseRead

\* What came whole has no string that is cut.
LEMMA NotCut ==
  ASSUME NEW n \in Nodes
  PROVE  n # CutString
<1>1. ~IsStr(CutString) /\ ~IsInt(CutString) /\ ~IsList(CutString) /\ ~IsDict(CutString)
  BY DEF CutString, IsStr, IsInt, IsList, IsDict
<1> QED  BY <1>1, Kinds

LEMMA PeersStep ==
  ASSUME ResponseNow, PeersEntry, at' = "entries"
  PROVE  ResponseThen
<1>1. EntryLeft /\ at = "entries" /\ Begins(Entry.key, "peers")  BY DEF PeersEntry, EntryLeft
<1>2. /\ Entry = Root[i] /\ i \in 1 .. Len(Root) /\ i + 1 \in 1 .. Len(Root) + 1
      /\ Dictionary(Root) /\ IsDict(input.doc)
      /\ IntervalRead(i, field) /\ PeersRead(i, field, num_pieces)
  BY <1>1, ResponseLoop
<1>3. /\ i' = i + 1 /\ IsStr(Entry.val) /\ Sets(field, field', "peers", Entry.val.str)
      /\ num_pieces' = Len(Entry.val.str) \div 6
  <2>1. Entry.val # CutString  BY <1>2, NotCut DEF Dictionary
  <2>2. PeerBytes(Entry.val) = Entry.val.str  BY <2>1 DEF PeerBytes
  <2>3. CASE IsStr(Entry.val)  BY <2>2, <2>3 DEF PeersEntry, NextEntry, Sets, PerPeer
  <2>4. CASE ~IsStr(Entry.val)
    <3>1. at' = IF IsDict(Entry.val) THEN "exit" ELSE "crash"  BY <2>1, <2>4 DEF PeersEntry, Ends
    <3> QED  BY <3>1
  <2> QED  BY <2>3, <2>4
<1>4. Root[i].key.str = <<"peers">> \/ Root[i].key.str = <<"peers6">>
  BY <1>1, <1>2, BeginsIs
<1>5. Root[i].key.str # <<"interval">>
  <2>1. Root[i].key.str = <<"interval">> => "peers" = "interval" \/ "peers6" = "interval"
    BY <1>4, OneKey
  <2> QED  BY <2>1
<1>6. \A name : Seen(Root, i + 1, name) <=> Seen(Root, i, name) \/ Root[i].key.str = <<name>>
  BY <1>2, SeenNext
<1>7. /\ field'["peers"] = Root[i].val.str /\ field'["interval"] = field["interval"]
      /\ DOMAIN field' = Fields
  <2>1. "interval" \in Fields /\ "peers" \in Fields  BY DEF Fields
  <2> QED  BY <1>2, <1>3, <2>1, SetsOne DEF ResponseNow
<1>8. IntervalRead(i + 1, field')  BY <1>2, <1>5, <1>6, <1>7 DEF IntervalRead
<1>9. PeersRead(i + 1, field', num_pieces')
  <2>1. CASE Root[i].key.str = <<"peers6">>
    <3>1. Seen(Root, i + 1, "peers6")  BY <1>6, <2>1
    <3> QED  BY <3>1 DEF PeersRead
  <2>2. CASE Root[i].key.str = <<"peers">>
    <3>1. Seen(Root, i + 1, "peers")  BY <1>6, <2>2
    <3>2. At(Root, "peers") = Root[i].val  BY <1>2, <2>2, AtKey
    <3> DEFINE len == Len(Root[i].val.str)
    <3>3. len \in Nat /\ len % 6 = 0  BY <1>2, <1>3, <2>2, ResponseKnown DEF ResponseNow
    <3>4. num_pieces' = len \div 6  BY <1>2, <1>3
    <3> HIDE DEF len
    <3>5. 6 * num_pieces' = len  BY <3>3, <3>4
    <3>6. field'["peers"] = At(Root, "peers").str /\ 6 * num_pieces' = Len(field'["peers"])
      BY <1>7, <3>2, <3>5 DEF len
    <3> QED  BY <3>1, <3>6 DEF PeersRead
  <2> QED  BY <1>4, <2>1, <2>2
<1> QED  BY <1>2, <1>3, <1>7, <1>8, <1>9 DEF ResponseThen, ResponseRead

LEMMA OtherStep ==
  ASSUME ResponseNow, OtherEntry, at' # "crash"
  PROVE  ResponseThen
<1>1. /\ EntryLeft /\ i' = i + 1 /\ at' = at /\ num_pieces' = num_pieces /\ field' = field
      /\ ~Begins(Entry.key, "interval") /\ ~Begins(Entry.key, "peers")
  BY DEF OtherEntry, NextEntry, ResponseNames, ResponseNow, Ends
<1>2. /\ Entry = Root[i] /\ i \in 1 .. Len(Root) /\ i + 1 \in 1 .. Len(Root) + 1
      /\ Dictionary(Root) /\ IsDict(input.doc) /\ at = "entries"
      /\ IntervalRead(i, field) /\ PeersRead(i, field, num_pieces)
  BY <1>1, ResponseLoop
<1>3. /\ Root[i].key.str # <<"interval">> /\ Root[i].key.str # <<"peers">>
      /\ Root[i].key.str # <<"peers6">>
  BY <1>1, <1>2, BeginsIs
<1>4. \A name : Seen(Root, i + 1, name) <=> Seen(Root, i, name) \/ Root[i].key.str = <<name>>
  BY <1>2, SeenNext
<1>5. IntervalRead(i + 1, field)  BY <1>2, <1>3, <1>4 DEF IntervalRead
<1>6. PeersRead(i + 1, field, num_pieces)  BY <1>2, <1>3, <1>4 DEF PeersRead
<1> QED  BY <1>1, <1>2, <1>5, <1>6 DEF ResponseThen, ResponseRead, ResponseNow

LEMMA ResponseEnds ==
  ASSUME ResponseNow, ResponseDone
  PROVE  ResponseThen /\ at' = "response"
<1>1. /\ at = "entries" /\ ~EntryLeft /\ i' = i /\ num_pieces' = num_pieces /\ field' = field
      /\ at' = "response"
  BY DEF ResponseDone, Ends
<1>2. /\ IsDict(input.doc) /\ i \in 1 .. Len(Root) + 1
      /\ IntervalRead(i, field) /\ PeersRead(i, field, num_pieces)
  BY DEF ResponseNow, ResponseRead
<1>3. Dictionary(Root)  BY <1>2, ResponseKnown DEF ResponseNow
<1>4. Entry = Root[i] /\ Len(result.dict) = Len(Root)  BY DEF Entry, ResponseNow, Root
<1>5. i = Len(Root) + 1
  <2>1. Len(Root) \in Nat  BY <1>3 DEF Dictionary
  <2>2. CASE i <= Len(Root)
    <3>1. i \in 1 .. Len(Root)  BY <1>2, <2>1, <2>2
    <3>2. Entry.val # NULL  BY <1>3, <1>4, <3>1 DEF Dictionary
    <3> QED  BY <1>1, <1>4, <2>2, <3>2 DEF EntryLeft
  <2>3. CASE i > Len(Root)  BY <1>2, <2>1, <2>3
  <2> QED  BY <1>2, <2>1, <2>2, <2>3
<1> QED  BY <1>1, <1>2, <1>5 DEF ResponseThen, ResponseRead, ResponseNow-----------------------------------------------------------------------------
(***************************************************************************)
(* The invariant of both.                                                  *)
(***************************************************************************)

FileStates == {"entries", "info", "torrent", "refused"}

ResponseStates == {"entries", "response"}

FieldInv ==
  /\ DOMAIN field = Fields
  /\ at \in DecodeStates => (\A f \in Fields : field[f] = Unset) /\ filled = 0 /\ i = 1 /\ j = 1
  /\ at \in {"info", "torrent", "refused"} => input.kind = "file"
  /\ at = "response" => input.kind = "response"
  /\ input.kind = "file" /\ at \in FileStates => FileRead(i, j, field, num_pieces, filled, at)
  /\ input.kind = "response" /\ InputWhole /\ at \in ResponseStates =>
       ResponseRead(i, field, num_pieces, at)

FieldThen ==
  /\ DOMAIN field' = Fields /\ at' \notin DecodeStates
  /\ at' \in {"info", "torrent", "refused"} => input.kind = "file"
  /\ at' = "response" => input.kind = "response"
  /\ input.kind = "file" /\ at' \in FileStates => FileThen
  /\ input.kind = "response" /\ InputWhole /\ at' \in ResponseStates => ResponseThen

LEMMA FieldGoesOn ==
  ASSUME FieldThen, input' = input, text' = text
  PROVE  FieldInv'
<1>1. InputWhole' <=> InputWhole  BY DEF InputWhole, Whole
<1>2. ASSUME input.kind = "file", at' \in FileStates
      PROVE  FileRead(i, j, field, num_pieces, filled, at)'
  <2>1. FileRead(i', j', field', num_pieces', filled', at')  BY <1>2 DEF FieldThen, FileThen
  <2> QED  BY <2>1, FileCarried
<1>3. ASSUME input.kind = "response", InputWhole, at' \in ResponseStates
      PROVE  ResponseRead(i, field, num_pieces, at)'
  <2>1. ResponseRead(i', field', num_pieces', at')  BY <1>3 DEF FieldThen, ResponseThen
  <2> QED  BY <2>1, ResponseCarried
<1>4. /\ DOMAIN field' = Fields /\ at' \notin DecodeStates
      /\ at' \in {"info", "torrent", "refused"} => input'.kind = "file"
      /\ at' = "response" => input'.kind = "response"
  BY DEF FieldThen
<1>5. input'.kind = input.kind  OBVIOUS
<1>6. at' \in FileStates /\ input'.kind = "file" => FileRead(i, j, field, num_pieces, filled, at)'
  BY <1>2, <1>5
<1>7. input'.kind = "response" /\ InputWhole' /\ at' \in ResponseStates =>
        ResponseRead(i, field, num_pieces, at)'
  BY <1>1, <1>3, <1>5
<1> QED  BY <1>4, <1>6, <1>7 DEF FieldInv

\* An end of the client.
LEMMA ClientEnds ==
  ASSUME FieldInv, at' \in {"crash", "exit"}, field' = field
  PROVE  FieldThen
  BY DEF FieldInv, FieldThen, DecodeStates, FileStates, ResponseStates

\* A step of parsetorrentfile.
LEMMA FileGoesOn ==
  ASSUME input.kind = "file", FileThen, at' \in FileStates
  PROVE  FieldThen
  BY DEF FieldThen, FileThen, FileStates, DecodeStates

\* A step of get_tracker_data.
LEMMA ResponseGoesOn ==
  ASSUME input.kind = "response", at' \in ResponseStates, DOMAIN field' = Fields,
         InputWhole => ResponseThen
  PROVE  FieldThen
  BY DEF FieldThen, ResponseThen, ResponseStates, DecodeStates

LEMMA FieldInvInit == Init => FieldInv
<1> SUFFICES ASSUME Init PROVE FieldInv  OBVIOUS
<1>1. at = "decode" /\ field = [f \in Fields |-> Unset] /\ filled = 0 /\ i = 1 /\ j = 1
  BY DEF Init, DecodeInit
<1> QED  BY <1>1 DEF FieldInv, DecodeStates, FileStates, ResponseStates

LEMMA FileIsNow ==
  ASSUME DecodeInv, FieldInv, input.kind = "file", at \in Read
  PROVE  FileNow
<1>1. input \in Inputs  BY DEF DecodeInv
<1>2. InputWhole  BY <1>1, TorrentKnown
<1>3. result = input.doc  BY <1>2 DEF DecodeInv, Measured
<1>4. FileRead(i, j, field, num_pieces, filled, at)  BY DEF FieldInv, FileStates, Read
<1> QED  BY <1>1, <1>3, <1>4 DEF FileNow, FieldInv

LEMMA ResponseIsNow ==
  ASSUME DecodeInv, FieldInv, input.kind = "response", at = "entries", InputWhole
  PROVE  ResponseNow
<1>1. input \in Inputs  BY DEF DecodeInv
<1>2. result = input.doc  BY DEF DecodeInv, Measured, Read
<1>3. ResponseRead(i, field, num_pieces, at)  BY DEF FieldInv, ResponseStates
<1> QED  BY <1>1, <1>2, <1>3 DEF ResponseNow, FieldInv

LEMMA FieldFileStep ==
  ASSUME DecodeInv, DecodeInv', FieldInv, TorrentFile \/ (OtherEntry /\ input.kind = "file")
  PROVE  FieldThen
<1>1. CASE HashInfo
  <2>1. /\ at = "decoded" /\ input.kind = "file" /\ UNCHANGED <<input, result>>
        /\ at' = "entries" \/ (at' \in {"crash", "exit"} /\ field' = field)
    BY <1>1, NotNull DEF HashInfo, Ends
  <2>2. CASE at' = "entries"
    <3>1. input \in Inputs /\ InputWhole  BY <2>1, TorrentKnown DEF DecodeInv
    <3>2. Measured'  BY <2>1, <3>1 DEF Measured, InputWhole, Whole
    <3>3. result = input.doc  BY <2>1, <2>2, <3>2 DEF DecodeInv, Read
    <3>4. DOMAIN field = Fields /\ filled = 0 /\ i = 1 /\ j = 1
      BY <2>1 DEF FieldInv, DecodeStates
    <3>5. FileThen  BY <1>1, <2>1, <2>2, <3>1, <3>3, <3>4, FileBegins
    <3>6. at' \in FileStates  BY <2>2 DEF FileStates
    <3> QED  BY <2>1, <3>5, <3>6, FileGoesOn
  <2>3. CASE at' \in {"crash", "exit"} /\ field' = field  BY <2>3, ClientEnds
  <2> QED  BY <2>1, <2>2, <2>3
<1>2. CASE AnnounceEntry
  <2>1. /\ at = "entries" /\ input.kind = "file"
        /\ at' = "entries" \/ (at' = "crash" /\ field' = field)
    BY <1>2 DEF AnnounceEntry, EntryLeft, NextEntry, Ends
  <2>2. FileNow  BY <2>1, FileIsNow DEF Read
  <2>3. CASE at' = "entries"
    <3>1. FileThen  BY <1>2, <2>2, <2>3, AnnounceRead
    <3>2. at' \in FileStates  BY <2>3 DEF FileStates
    <3> QED  BY <2>1, <3>1, <3>2, FileGoesOn
  <2> QED  BY <2>1, <2>3, ClientEnds
<1>3. CASE InfoEntry
  <2>1. /\ at = "entries" /\ input.kind = "file"
        /\ at' = "info" \/ (at' = "exit" /\ field' = field)
    BY <1>3 DEF InfoEntry, EntryLeft, Ends
  <2>2. FileNow  BY <2>1, FileIsNow DEF Read
  <2>3. CASE at' = "info"
    <3>1. FileThen  BY <1>3, <2>2, <2>3, InfoBegins
    <3>2. at' \in FileStates  BY <2>3 DEF FileStates
    <3> QED  BY <2>1, <3>1, <3>2, FileGoesOn
  <2> QED  BY <2>1, <2>3, ClientEnds
<1>4. CASE LengthEntry \/ NameEntry \/ PieceLengthEntry \/ PiecesEntry \/ OtherInfo
  <2>1. at = "info" /\ (at' = "info" \/ (at' = "crash" /\ field' = field))
    <3>1. CASE LengthEntry  BY <3>1 DEF LengthEntry, InInfo, NextInfo
    <3>2. CASE NameEntry
      <4>1. at = "info"  BY <3>2 DEF NameEntry, InInfo
      <4>2. NextInfo \/ Ends("crash")  BY <3>2 DEF NameEntry
      <4> QED  BY <4>1, <4>2 DEF NextInfo, Ends
    <3>3. CASE PieceLengthEntry  BY <3>3 DEF PieceLengthEntry, InInfo, NextInfo
    <3>4. CASE PiecesEntry
      <4>1. at = "info"  BY <3>4 DEF PiecesEntry, InInfo
      <4>2. NextInfo \/ Ends("crash")  BY <3>4, Zenon DEF PiecesEntry
      <4> QED  BY <4>1, <4>2 DEF NextInfo, Ends
    <3>5. CASE OtherInfo  BY <3>5 DEF OtherInfo
    <3> QED  BY <1>4, <3>1, <3>2, <3>3, <3>4, <3>5
  <2>2. input.kind = "file"  BY <2>1 DEF FieldInv
  <2>3. FileNow  BY <2>1, <2>2, FileIsNow DEF Read
  <2>4. CASE at' = "info"
    <3>1. FileThen  BY <1>4, <2>3, <2>4, InfoEntries
    <3>2. at' \in FileStates  BY <2>4 DEF FileStates
    <3> QED  BY <2>2, <3>1, <3>2, FileGoesOn
  <2> QED  BY <2>1, <2>4, ClientEnds
<1>5. CASE InfoDone
  <2>1. at = "info" /\ (at' = "entries" \/ (at' = "crash" /\ field' = field))
    BY <1>5 DEF InfoDone, Ends
  <2>2. input.kind = "file"  BY <2>1 DEF FieldInv
  <2>3. FileNow  BY <2>1, <2>2, FileIsNow DEF Read
  <2>4. CASE at' = "entries"
    <3>1. FileThen  BY <1>5, <2>3, <2>4, InfoEnds
    <3>2. at' \in FileStates  BY <2>4 DEF FileStates
    <3> QED  BY <2>2, <3>1, <3>2, FileGoesOn
  <2> QED  BY <2>1, <2>4, ClientEnds
<1>6. CASE TorrentDone
  <2>1. at = "entries" /\ input.kind = "file"  BY <1>6 DEF TorrentDone
  <2>2. FileNow  BY <2>1, FileIsNow DEF Read
  <2>3. FileThen /\ at' \in FileStates  BY <1>6, <2>2, FileEnds DEF FileStates
  <2> QED  BY <2>1, <2>3, FileGoesOn
<1>7. CASE OtherEntry /\ input.kind = "file"
  <2>1. /\ at = "entries" /\ (at' = "entries" \/ (at' = "crash" /\ field' = field))
    BY <1>7 DEF OtherEntry, EntryLeft, NextEntry, Ends
  <2>2. FileNow  BY <1>7, <2>1, FileIsNow DEF Read
  <2>3. CASE at' = "entries"
    <3>1. FileThen /\ at' \in FileStates  BY <1>7, <2>2, <2>3, OtherRead DEF FileStates
    <3> QED  BY <1>7, <3>1, FileGoesOn
  <2> QED  BY <2>1, <2>3, ClientEnds
<1> QED  BY <1>1, <1>2, <1>3, <1>4, <1>5, <1>6, <1>7 DEF TorrentFile

LEMMA FieldResponseStep ==
  ASSUME DecodeInv, DecodeInv', FieldInv,
         Response \/ (OtherEntry /\ input.kind = "response")
  PROVE  FieldThen
<1>1. CASE ReadResponse
  <2>1. /\ at = "decoded" /\ input.kind = "response" /\ UNCHANGED <<input, result>> /\ field' = field
        /\ at' \in {"crash", "entries", "exit"}
    <3>1. at' = CASE result = NULL -> "crash" [] IsDict(result) -> "entries" [] OTHER -> "exit"
      BY <1>1 DEF ReadResponse, Ends
    <3>2. at' \in {"crash", "entries", "exit"}
      <4>1. CASE result = NULL  BY <3>1, <4>1, NotNull
      <4>2. CASE result # NULL  BY <3>1, <4>2
      <4> QED  BY <4>1, <4>2
    <3> QED  BY <1>1, <3>2 DEF ReadResponse, Ends, Reading
  <2>2. CASE at' = "entries"
    <3>1. (\A f \in Fields : field[f] = Unset) /\ i = 1 /\ DOMAIN field = Fields
      BY <2>1 DEF FieldInv, DecodeStates
    <3>2. ASSUME InputWhole PROVE ResponseThen
      <4>1. Measured'  BY <2>1, <3>2 DEF Measured, InputWhole, Whole
      <4>2. result = input.doc /\ input \in Inputs  BY <2>1, <2>2, <4>1 DEF DecodeInv, Read
      <4> QED  BY <1>1, <2>1, <2>2, <3>1, <4>2, ResponseBegins
    <3>3. at' \in ResponseStates  BY <2>2 DEF ResponseStates
    <3> QED  BY <2>1, <3>1, <3>2, <3>3, ResponseGoesOn
  <2> QED  BY <2>1, <2>2, ClientEnds
<1>2. CASE FailureEntry
  <2>1. at' = "exit" /\ field' = field  BY <1>2 DEF FailureEntry, Ends
  <2> QED  BY <2>1, ClientEnds
<1>3. CASE IntervalEntry
  <2>1. /\ at = "entries" /\ input.kind = "response" /\ at' = "entries"
        /\ Sets(field, field', "interval", IntOf(Entry.val))
    BY <1>3 DEF IntervalEntry, EntryLeft, NextEntry, Sets
  <2>2. DOMAIN field' = Fields
    BY <2>1, SetsOne DEF FieldInv, Fields
  <2>3. ASSUME InputWhole PROVE ResponseThen  BY <1>3, <2>1, <2>3, ResponseIsNow, IntervalStep
  <2>4. at' \in ResponseStates  BY <2>1 DEF ResponseStates
  <2> QED  BY <2>1, <2>2, <2>3, <2>4, ResponseGoesOn
<1>4. CASE PeersEntry
  <2>1. /\ at = "entries" /\ input.kind = "response"
        /\ \/ at' = "entries" /\ Sets(field, field', "peers", PeerBytes(Entry.val))
           \/ at' \in {"crash", "exit"} /\ field' = field
    BY <1>4 DEF PeersEntry, EntryLeft, NextEntry, Sets, Ends
  <2>2. CASE at' = "entries" /\ Sets(field, field', "peers", PeerBytes(Entry.val))
    <3>1. DOMAIN field' = Fields  BY <2>2, SetsOne DEF FieldInv, Fields
    <3>2. ASSUME InputWhole PROVE ResponseThen
      BY <1>4, <2>1, <2>2, <3>2, ResponseIsNow, PeersStep
    <3>3. at' \in ResponseStates  BY <2>2 DEF ResponseStates
    <3> QED  BY <2>1, <3>1, <3>2, <3>3, ResponseGoesOn
  <2> QED  BY <2>1, <2>2, ClientEnds
<1>5. CASE ResponseDone
  <2>1. at = "entries" /\ input.kind = "response" /\ at' = "response" /\ field' = field
    BY <1>5 DEF ResponseDone, Ends
  <2>2. ASSUME InputWhole PROVE ResponseThen  BY <1>5, <2>1, <2>2, ResponseIsNow, ResponseEnds
  <2>3. DOMAIN field' = Fields /\ at' \in ResponseStates  BY <2>1 DEF FieldInv, ResponseStates
  <2> QED  BY <2>1, <2>2, <2>3, ResponseGoesOn
<1>6. CASE OtherEntry /\ input.kind = "response"
  <2>1. at = "entries" /\ at' \in {"entries", "crash"} /\ field' = field
    BY <1>6 DEF OtherEntry, EntryLeft, NextEntry, Ends
  <2>2. CASE at' = "entries"
    <3>1. ASSUME InputWhole PROVE ResponseThen
      BY <1>6, <2>1, <2>2, <3>1, ResponseIsNow, OtherStep
    <3>2. DOMAIN field' = Fields /\ at' \in ResponseStates
      BY <2>1, <2>2 DEF FieldInv, ResponseStates
    <3> QED  BY <1>6, <3>1, <3>2, ResponseGoesOn
  <2> QED  BY <2>1, <2>2, ClientEnds
<1> QED  BY <1>1, <1>2, <1>3, <1>4, <1>5, <1>6 DEF Response
LEMMA DecodeStays ==
  ASSUME DecodeNext
  PROVE  at \in DecodeStates /\ at' \in DecodeStates /\ UNCHANGED <<input, text>>
<1> USE DEF DecodeStates
<1>1. CASE Decode
  <2>1. CASE NothingLeft  BY <1>1, <2>1 DEF Decode, NothingLeft, Returns
  <2>2. CASE OpenList  BY <1>1, <2>2 DEF Decode, OpenList, Opens
  <2>3. CASE OpenDict  BY <1>1, <2>3 DEF Decode, OpenDict, Opens
  <2>4. CASE DecodeInt
    <3>1. at' = "return"  BY <2>4 DEF DecodeInt, Returns
    <3> QED  BY <1>1, <3>1 DEF Decode
  <2>5. CASE DecodeString
    <3>1. at' = "return"  BY <2>5 DEF DecodeString, Returns
    <3> QED  BY <1>1, <3>1 DEF Decode
  <2>6. CASE Invalid  BY <1>1, <2>6 DEF Decode, Invalid, Returns
  <2> QED  BY <1>1, <2>1, <2>2, <2>3, <2>4, <2>5, <2>6 DEF Decode
<1>2. CASE Close
  <2>1. at' \in {"fault", "return"}  BY <1>2 DEF Close, Fault
  <2> QED  BY <1>2, <2>1 DEF Close
<1>3. CASE Item
  <2>1. at' \in {"fault", "decode"}  BY <1>3 DEF Item, OutOfMemory, Fault
  <2> QED  BY <1>3, <2>1 DEF Item
<1>4. CASE Return
  <2>1. at' \in {"decoded", "loop"}  BY <1>4 DEF Return
  <2> QED  BY <1>4, <2>1 DEF Return
<1> QED  BY <1>1, <1>2, <1>3, <1>4 DEF DecodeNext

LEMMA FieldInvStep == DecodeInv /\ DecodeInv' /\ FieldInv /\ [Next]_vars => FieldInv'
<1> SUFFICES ASSUME DecodeInv, DecodeInv', FieldInv, [Next]_vars PROVE FieldInv'  OBVIOUS
<1>1. CASE DecodeNext /\ UNCHANGED <<field, num_pieces, filled, i, j>>
  <2>1. at \in DecodeStates /\ at' \in DecodeStates  BY <1>1, DecodeStays
  <2> QED
    BY <1>1, <2>1 DEF FieldInv, DecodeStates, FileStates, ResponseStates
<1>2. CASE TorrentFile
  <2>1. UNCHANGED <<input, text>>
    BY <1>2 DEF TorrentFile, HashInfo, AnnounceEntry, InfoEntry, LengthEntry, NameEntry,
                PieceLengthEntry, PiecesEntry, OtherInfo, InfoDone, TorrentDone, Reading, BeFree
  <2> QED  BY <1>2, <2>1, FieldFileStep, FieldGoesOn
<1>3. CASE Response
  <2>1. UNCHANGED <<input, text>>
    BY <1>3 DEF Response, ReadResponse, FailureEntry, IntervalEntry, PeersEntry, ResponseDone,
                Reading, BeFree
  <2> QED  BY <1>3, <2>1, FieldResponseStep, FieldGoesOn
<1>4. CASE OtherEntry
  <2>1. UNCHANGED <<input, text, field>> /\ at = "entries" /\ at' \in {"entries", "crash"}
    BY <1>4 DEF OtherEntry, Reading, EntryLeft, NextEntry, Ends
  <2>2. CASE input.kind = "file"  BY <1>4, <2>1, <2>2, FieldFileStep, FieldGoesOn
  <2>3. CASE input.kind = "response"  BY <1>4, <2>1, <2>3, FieldResponseStep, FieldGoesOn
  <2>4. CASE input.kind \notin {"file", "response"}
    <3>1. FieldThen  BY <2>1, <2>4 DEF FieldThen, FieldInv, DecodeStates
    <3> QED  BY <2>1, <3>1, FieldGoesOn
  <2> QED  BY <2>2, <2>3, <2>4
<1>5. CASE UNCHANGED vars
  <2>1. UNCHANGED <<input, text, field, num_pieces, filled, i, j, at>>
    BY <1>5 DEF vars, decodeVars
  <2>2. InputWhole' <=> InputWhole  BY <2>1 DEF InputWhole, Whole
  <2>3. FileRead(i, j, field, num_pieces, filled, at) => FileRead(i, j, field, num_pieces, filled, at)'
    <3>1. FileRead(i, j, field, num_pieces, filled, at) => FileRead(i', j', field', num_pieces', filled', at')
      BY <2>1
    <3> QED  BY <2>1, <3>1, FileCarried
  <2>4. ResponseRead(i, field, num_pieces, at) => ResponseRead(i, field, num_pieces, at)'
    <3>1. ResponseRead(i, field, num_pieces, at) => ResponseRead(i', field', num_pieces', at')
      BY <2>1
    <3> QED  BY <2>1, <3>1, ResponseCarried
  <2> QED  BY <2>1, <2>2, <2>3, <2>4 DEF FieldInv
<1> QED  BY <1>1, <1>2, <1>3, <1>4, <1>5 DEF Next

\* What has been read of the entries is in the fields, and filled counts it (the
\* loops of parsetorrentfile and get_tracker_data).
THEOREM FieldInvariance == Spec => []FieldInv
<1>1. Init => DecodeInv /\ FieldInv  BY DecodeInvInit, FieldInvInit
<1>2. DecodeInv /\ FieldInv /\ [Next]_vars => (DecodeInv /\ FieldInv)'
  BY DecodeInvStep, FieldInvStep
<1> QED  BY <1>1, <1>2, PTL DEF Spec

\* Of a whole response without peers6, interval and peers are the ones the tracker
\* sent, six bytes a peer, or were not sent (get_tracker_data).
THEOREM ResponseIsRead == Spec => []FieldsOfResponse
<1>1. DecodeInv /\ FieldInv => FieldsOfResponse
  <2> SUFFICES ASSUME DecodeInv, FieldInv, at = "response", InputWhole, KeysOf(Root) \cap LongerKeys = {}
               PROVE  /\ field["interval"] = IF "interval" \in KeysOf(Root)
                                             THEN <<At(Root, "interval").int>> ELSE Unset
                      /\ IF "peers" \in KeysOf(Root)
                         THEN field["peers"] = At(Root, "peers").str /\ 6 * num_pieces = Len(field["peers"])
                         ELSE field["peers"] = Unset
    BY DEF FieldsOfResponse
  <2>1. input \in Inputs /\ input.kind = "response"  BY DEF DecodeInv, FieldInv
  <2>2. ResponseRead(i, field, num_pieces, at)  BY <2>1 DEF FieldInv, ResponseStates
  <2>3. Dictionary(Root)  BY <2>1, <2>2, ResponseKnown DEF ResponseRead
  <2>4. \A name : Seen(Root, i, name) <=> name \in KeysOf(Root)
    BY <2>2, <2>3, SeenAll DEF ResponseRead
  <2>5. "peers6" \notin KeysOf(Root)  BY DEF LongerKeys, Longer
  <2> QED  BY <2>2, <2>4, <2>5 DEF ResponseRead, IntervalRead, PeersRead
<1>2. Spec => []DecodeInv  BY DecodeInvariance
<1>3. Spec => []FieldInv  BY FieldInvariance
<1> QED  BY <1>1, <1>2, <1>3, PTL
\* The pieces cover the length.
LEMMA PiecesCover ==
  ASSUME NEW L \in Nat, NEW d \in Nat, d > 0
  PROVE  L \in (PiecesOf(L, d) - 1) * d + 1 .. PiecesOf(L, d) * d
<1> DEFINE q == L \div d
           r == L % d
<1>1. L = d * q + r /\ q \in Nat /\ r \in Nat /\ r < d  OBVIOUS
<1>2. PiecesOf(L, d) = q + (IF r # 0 THEN 1 ELSE 0)  BY DEF PiecesOf
<1> HIDE DEF q, r
<1> DEFINE x == d * q
<1>3. x \in Int /\ q * d = x /\ (q + 1) * d = x + d /\ (q - 1) * d = x - d  BY <1>1
<1> HIDE DEF x
<1>4. L = x + r  BY <1>1 DEF x
<1>5. CASE r = 0
  <2>1. PiecesOf(L, d) = q  BY <1>1, <1>2, <1>5
  <2> QED  BY <1>1, <1>3, <1>4, <1>5, <2>1
<1>6. CASE r # 0
  <2>1. PiecesOf(L, d) = q + 1 /\ PiecesOf(L, d) - 1 = q  BY <1>1, <1>2, <1>6
  <2> QED  BY <1>1, <1>3, <1>4, <1>6, <2>1
<1> QED  BY <1>5, <1>6

\* All entries of a file have been read.
LEMMA FileAtEnd ==
  ASSUME DecodeInv, FieldInv, at \in {"torrent", "refused"}
  PROVE  LET info  == InfoOf(Root)
             inner == IF "info" \in KeysOf(Root) THEN KeysOf(info) ELSE {}
             b     == Behind(i, j, at)
         IN  /\ input \in Inputs /\ input.kind = "file" /\ IsDict(input.doc) /\ Torrent(Root)
             /\ \A name : Seen(Root, i, name) <=> name \in KeysOf(Root)
             /\ \A name : Seen(info, b, name) <=> name \in inner
             /\ "info" \in KeysOf(Root) => Dictionary(info) /\ InfoFormat(info)
             /\ field["info_hash"] = SubSeq(text, Min(InfoAt), InfoEnd)
             /\ RootRead(Root, i, field) /\ InfoRead(info, b, field, num_pieces)
             /\ at = "torrent" <=> RootCount(Root, i) + InfoCount(info, b) >= 5
<1> DEFINE info == InfoOf(Root)
           inner == IF "info" \in KeysOf(Root) THEN KeysOf(info) ELSE {}
           b == Behind(i, j, at)
<1>1. input \in Inputs /\ input.kind = "file"  BY DEF DecodeInv, FieldInv
<1>2. FileRead(i, j, field, num_pieces, filled, at)  BY <1>1 DEF FieldInv, FileStates
<1>3. /\ IsDict(input.doc) /\ i = Len(Root) + 1
      /\ field["info_hash"] = SubSeq(text, Min(InfoAt), InfoEnd)
      /\ RootRead(Root, i, field) /\ InfoRead(info, b, field, num_pieces)
      /\ filled = RootCount(Root, i) + InfoCount(info, b)
      /\ at = "torrent" <=> filled >= 5
  BY <1>2 DEF FileRead
<1>4. Torrent(Root) /\ Dictionary(Root)  BY <1>1, <1>2, FileWhereAbout
<1>5. \A name : Seen(Root, i, name) <=> name \in KeysOf(Root)  BY <1>3, <1>4, SeenAll
<1>6. b = IF "info" \in KeysOf(Root) THEN Len(info) + 1 ELSE 1
  BY <1>5 DEF Behind
<1>7. ASSUME "info" \in KeysOf(Root) PROVE Dictionary(info) /\ InfoFormat(info)
  <2>1. Seen(Root, i, "info")  BY <1>5, <1>7
  <2>2. PICK k \in 1 .. i - 1 : Root[k].key.str = <<"info">>  BY <2>1 DEF Seen
  <2>3. Len(Root) \in Nat  BY <1>4 DEF Dictionary
  <2>4. k \in 1 .. Len(Root)  BY <1>3, <2>3
  <2> QED  BY <1>4, <2>2, <2>4 DEF Torrent, InfoOf
<1>8. \A name : Seen(info, b, name) <=> name \in inner
  <2>1. CASE "info" \in KeysOf(Root)  BY <1>6, <1>7, <2>1, SeenAll
  <2>2. CASE "info" \notin KeysOf(Root)  BY <1>6, <2>2, SeenFirst
  <2> QED  BY <2>1, <2>2
<1>9. at = "torrent" <=> RootCount(Root, i) + InfoCount(info, b) >= 5  BY <1>3
<1> QED  BY <1>1, <1>3, <1>4, <1>5, <1>7, <1>8, <1>9

\* Of a file in which no key begins with another one, parsetorrentfile returns a
\* torrent exactly if its five fields are there, and then each field is the one of
\* the file, and the pieces are as many as cover the length.
THEOREM FileIsRead == Spec => []FieldsOfFile
<1>1. ASSUME DecodeInv, FieldInv, at \in {"torrent", "refused"}
      PROVE  FieldsOfFile
  <2> DEFINE info == InfoOf(Root)
             inner == IF "info" \in KeysOf(Root) THEN KeysOf(info) ELSE {}
             complete == TorrentNames \subseteq KeysOf(Root) /\ InfoNames \subseteq inner
             b == Behind(i, j, at)
  <2>1. /\ input \in Inputs /\ input.kind = "file" /\ IsDict(input.doc) /\ Torrent(Root)
        /\ \A name : Seen(Root, i, name) <=> name \in KeysOf(Root)
        /\ \A name : Seen(info, b, name) <=> name \in inner
        /\ "info" \in KeysOf(Root) => Dictionary(info) /\ InfoFormat(info)
        /\ RootRead(Root, i, field) /\ InfoRead(info, b, field, num_pieces)
        /\ at = "torrent" <=> RootCount(Root, i) + InfoCount(info, b) >= 5
    BY <1>1, FileAtEnd
  <2>2. FieldsOfFile <=>
          ((KeysOf(Root) \cup inner) \cap LongerKeys = {} =>
             /\ at = "torrent" <=> complete
             /\ complete =>
                  /\ field["announce"] = At(Root, "announce").str
                  /\ NameOf(info, field["name"])
                  /\ field["length"] = <<At(info, "length").int>>
                  /\ field["piece_len"] = <<At(info, PieceLength).int>>
                  /\ LET len == Value[field["piece_len"][1]]
                     IN  Value[field["length"][1]] \in (num_pieces - 1) * len + 1 .. num_pieces * len)
    BY <1>1 DEF FieldsOfFile, InfoOf, NameOf
  <2> HIDE DEF b, info
  <2>3. SUFFICES ASSUME (KeysOf(Root) \cup inner) \cap LongerKeys = {}
                 PROVE  /\ at = "torrent" <=> complete
                        /\ complete =>
                             /\ field["announce"] = At(Root, "announce").str
                             /\ NameOf(info, field["name"])
                             /\ field["length"] = <<At(info, "length").int>>
                             /\ field["piece_len"] = <<At(info, PieceLength).int>>
                             /\ LET len == Value[field["piece_len"][1]]
                                IN  Value[field["length"][1]] \in (num_pieces - 1) * len + 1 .. num_pieces * len
    BY <2>2
  <2>4. "announce-list" \notin KeysOf(Root) /\ "name.utf-8" \notin inner
    BY <2>3 DEF LongerKeys, Longer
  <2>5. complete <=> /\ "announce" \in KeysOf(Root) /\ "info" \in KeysOf(Root)
                     /\ "length" \in inner /\ "name" \in inner /\ PieceLength \in inner
                     /\ "pieces" \in inner
    BY DEF TorrentNames, InfoNames
  <2>6. inner # {} => "info" \in KeysOf(Root)  OBVIOUS
  <2> HIDE DEF inner, complete
  <2>7. at = "torrent" <=> complete
    <3> DEFINE v == Once(Root, i, "announce")
               w == Once(info, b, "length")
               x == Once(info, b, "name")
               y == Once(info, b, PieceLength)
               z == Once(info, b, "pieces")
    <3>1. /\ v = IF "announce" \in KeysOf(Root) THEN 1 ELSE 0
          /\ w = IF "length" \in inner THEN 1 ELSE 0
          /\ x = IF "name" \in inner THEN 1 ELSE 0
          /\ y = IF PieceLength \in inner THEN 1 ELSE 0
          /\ z = IF "pieces" \in inner THEN 1 ELSE 0
      BY <2>1 DEF Once
    <3>2. Once(Root, i, "announce-list") = 0 /\ Once(info, b, "name.utf-8") = 0
      BY <2>1, <2>4 DEF Once
    <3>3. RootCount(Root, i) = v + 0 /\ InfoCount(info, b) = w + x + 0 + y + z
      BY <3>2 DEF RootCount, InfoCount
    <3> HIDE DEF v, w, x, y, z
    <3>4. RootCount(Root, i) + InfoCount(info, b) >= 5 <=>
            /\ "announce" \in KeysOf(Root) /\ "length" \in inner /\ "name" \in inner
            /\ PieceLength \in inner /\ "pieces" \in inner
      BY <3>1, <3>3
    <3>5. complete <=> RootCount(Root, i) + InfoCount(info, b) >= 5
      BY <2>5, <2>6, <3>4
    <3> QED  BY <2>1, <3>5
  <2>8. ASSUME complete
        PROVE  /\ field["announce"] = At(Root, "announce").str
               /\ NameOf(info, field["name"])
               /\ field["length"] = <<At(info, "length").int>>
               /\ field["piece_len"] = <<At(info, PieceLength).int>>
               /\ LET len == Value[field["piece_len"][1]]
                  IN  Value[field["length"][1]] \in (num_pieces - 1) * len + 1 .. num_pieces * len
    <3> DEFINE lengthOf == At(info, "length").int
               lenOf == At(info, PieceLength).int
    <3>1. field["announce"] = At(Root, "announce").str
      BY <2>1, <2>4, <2>5, <2>8 DEF RootRead
    <3>2. /\ NameOf(info, field["name"])
          /\ field["length"] = <<lengthOf>> /\ field["piece_len"] = <<lenOf>>
          /\ num_pieces = PiecesOf(Value[lengthOf], Value[lenOf])
      BY <2>1, <2>4, <2>5, <2>8 DEF InfoRead
    <3>3. Dictionary(info) /\ InfoFormat(info)  BY <2>1, <2>5, <2>8
    <3>4. /\ lengthOf \in DOMAIN Value /\ Value[lengthOf] >= 0
          /\ lenOf \in DOMAIN Value /\ Value[lenOf] > 0
      <4>2. "length" \in KeysOf(info) /\ PieceLength \in KeysOf(info)
        BY <2>5, <2>6, <2>8 DEF inner
      <4>3. Len(info) \in Nat /\ (Len(info) + 1) - 1 = Len(info)  BY <3>3 DEF Dictionary
      <4>4. Seen(info, Len(info) + 1, "length") /\ Seen(info, Len(info) + 1, PieceLength)
        BY <3>3, <4>2, SeenAll
      <4>5. PICK k \in 1 .. Len(info) : info[k].key.str = <<"length">>  BY <4>3, <4>4 DEF Seen
      <4>6. PICK l \in 1 .. Len(info) : info[l].key.str = <<PieceLength>>  BY <4>3, <4>4 DEF Seen
      <4>7. lengthOf \in DOMAIN Value /\ Value[lengthOf] >= 0  BY <3>3, <4>5, LengthIs
      <4>8. lenOf \in DOMAIN Value /\ Value[lenOf] > 0  BY <3>3, <4>6, LengthIs
      <4> QED  BY <4>7, <4>8
    <3> DEFINE L == Value[lengthOf]
               d == Value[lenOf]
    <3>5. L \in Nat /\ d \in Nat /\ d > 0  BY <3>4, Values
    <3>6. field["length"][1] = lengthOf /\ field["piece_len"][1] = lenOf  BY <3>2
    <3>7. Value[field["length"][1]] = L /\ Value[field["piece_len"][1]] = d  BY <3>6
    <3>8. num_pieces = PiecesOf(L, d)  BY <3>2
    <3> HIDE DEF L, d
    <3>9. L \in (num_pieces - 1) * d + 1 .. num_pieces * d  BY <3>5, <3>8, PiecesCover
    <3> QED  BY <3>1, <3>2, <3>7, <3>9
  <2> QED  BY <2>7, <2>8
<1>2. DecodeInv /\ FieldInv => FieldsOfFile
  <2>1. CASE at \in {"torrent", "refused"}  BY <1>1, <2>1
  <2>2. CASE at \notin {"torrent", "refused"}  BY <2>2 DEF FieldsOfFile
  <2> QED  BY <2>1, <2>2
<1>3. Spec => []DecodeInv  BY DecodeInvariance
<1>4. Spec => []FieldInv  BY FieldInvariance
<1> QED  BY <1>2, <1>3, <1>4, PTL
\* The part of the buffer that is an encoding.
LEMMA PartIsEncoding ==
  ASSUME Buffer, InputWhole, NEW n \in Nodes, NEW r \in Nat, Placed(n, r),
         NEW x \in Nat, x <= Len(text)
  PROVE  SubSeq(text, r + 1, x) = Encode[n] <=> x = r + Len(Encode[n])
<1> DEFINE t == text
           e == Encode[n]
           L == Len(e)
           s == SubSeq(t, r + 1, x)
<1>1. e \in Bytes /\ t \in Bytes /\ Len(t) \in Nat /\ L \in Nat /\ L >= 2
  BY EncodeEquation, BufferLen, FirstByte DEF Buffer
<1>2. r + L <= Len(t) /\ \A y \in 1 .. L : t[r + y] = e[y]
  <2>1. /\ r + L <= Len(Whole(input)) /\ \A y \in 1 .. L : Whole(input)[r + y] = e[y]
    BY DEF Placed, Stands
  <2>2. Len(Whole(input)) = Len(t) /\ input.sent = Len(t)  BY BufferLen DEF InputWhole
  <2>3. \A y \in 1 .. input.sent : text[y] = Whole(input)[y]  BY DEF Buffer
  <2>4. r + L <= Len(t)  BY <2>1, <2>2
  <2> HIDE DEF e, L
  <2>5. \A y \in 1 .. L : r + y \in 1 .. input.sent  BY <1>1, <2>2, <2>4
  <2> QED  BY <2>1, <2>3, <2>4, <2>5
<1> HIDE DEF t, e, L
<1>3. x <= Len(t)  BY DEF t
<1>4. CASE r + 1 <= x
  <2>1. r + 1 \in Nat \ {0} /\ r + 1 <= x + 1 /\ x - (r + 1) + 1 = x - r  BY <1>4
  <2>2. /\ s \in Bytes /\ Len(s) = x - r
        /\ \A y \in 1 .. x - r : s[y] = t[(r + 1) + y - 1]
    <3>1. /\ s \in Bytes /\ Len(s) = x - (r + 1) + 1
          /\ \A y \in 1 .. x - (r + 1) + 1 : s[y] = t[(r + 1) + y - 1]
      BY <1>1, <1>3, <2>1, PartOf
    <3> HIDE DEF s
    <3> QED  BY <2>1, <3>1
  <2> HIDE DEF s
  <2>3. ASSUME s = e PROVE x = r + L
    <3>1. Len(s) = L  BY <2>3 DEF L
    <3> QED  BY <1>1, <2>2, <3>1
  <2>4. ASSUME x = r + L PROVE s = e
    <3>1. x - r = L  BY <1>1, <2>4
    <3>2. Len(s) = L /\ \A y \in 1 .. L : s[y] = t[(r + 1) + y - 1]  BY <2>2, <3>1
    <3>3. \A y \in 1 .. L : (r + 1) + y - 1 = r + y  BY <1>1
    <3>4. \A y \in 1 .. L : s[y] = e[y]  BY <1>2, <3>2, <3>3
    <3>5. Len(e) = L  BY DEF L
    <3> QED  BY <1>1, <2>2, <3>2, <3>4, <3>5, SeqEqual DEF Bytes
  <2> QED  BY <2>3, <2>4 DEF s, t, e, L
<1>5. CASE r + 1 > x
  <2>1. s = <<>>
    <3>1. r + 1 \in Int /\ x \in Int /\ x < r + 1  BY <1>5
    <3> QED  BY <3>1, SubSeqEmpty
  <2>2. e # <<>>
    <3>1. Len(<<>>) = 0  OBVIOUS
    <3>2. L # 0  BY <1>1
    <3> QED  BY <3>1, <3>2 DEF L
  <2>3. x # r + L  BY <1>1, <1>5
  <2> QED  BY <2>1, <2>2, <2>3 DEF s, t, e, L
<1> QED  BY <1>4, <1>5

\* strstr finds the value of info.
LEMMA InfoFound ==
  ASSUME Buffer, InputWhole, TorrentFormat(input), IsDict(input.doc), Torrent(Root),
         NEW k \in 1 .. Len(Root), Root[k].key.str = <<"info">>
  PROVE  \E r \in Nat : /\ InfoAt = {r + 1} /\ Placed(At(Root, "info"), r)
                        /\ r + Len(Encode[At(Root, "info")]) = Before(input.doc)[k]
<1> DEFINE n == input.doc
           key == Root[k].key
           val == Root[k].val
           q == Before(n)[k - 1]
           r == q + Len(Encode[key])
           e == Encode[val]
           f == Encode[key]
<1>1. n \in Nodes /\ Placed(n, 0) /\ IsDict(n)  BY DEF Buffer, Placed
<1>2. Width(n) = Len(Root) /\ Len(Root) \in Nat
  BY <1>1, Kinds DEF Width, ItemsOf, Root, Torrent, Dictionary
<1>3. k - 1 \in 0 .. Width(n) - 1 /\ (k - 1) + 1 = k  BY <1>2
<1>4. q \in Nat /\ 0 + q = q
  <2>1. k - 1 \in 0 .. Width(n)  BY <1>2
  <2> QED  BY <1>1, <2>1, BeforeGrows
<1>5. /\ key \in Nodes /\ IsStr(key) /\ Placed(key, q) /\ r \in Nat /\ val \in Nodes /\ Placed(val, r)
      /\ r + Len(e) = 0 + Before(n)[k]
  <2> DEFINE d == k - 1
  <2>1. d \in 0 .. Width(n) - 1 /\ d + 1 = k  BY <1>3
  <2>2. 0 + Before(n)[d] = q  BY <1>4
  <2> HIDE DEF d
  <2>3. LET u   == 0 + Before(n)[d]
            y   == n.dict[d + 1].key
            z   == n.dict[d + 1].val
            w   == u + Len(Encode[y])
        IN  /\ u \in Nat /\ y \in Nodes /\ IsStr(y) /\ Placed(y, u)
            /\ w \in Nat /\ z \in Nodes /\ Placed(z, w)
            /\ w + Len(Encode[z]) = 0 + Before(n)[d + 1]
            /\ w + Len(Encode[z]) <= Len(text)
    BY <1>1, <2>1, EntryPlaced
  <2> QED  BY <2>1, <2>2, <2>3 DEF Root
<1>6. Before(n)[k] \in Nat
  <2>1. k \in 0 .. Width(n)  BY <1>2
  <2> QED  BY <1>1, <2>1, BeforeGrows
<1>7. Len(f) = 3 /\ f[3] = "info"
  <2>1. Len(key.str) = 1 /\ key.str[1] = "info"  OBVIOUS
  <2>2. Len(f) = Len(key.str) + 2 /\ \A x \in 1 .. Len(key.str) : f[x + 2] = key.str[x]
    BY <1>5, StringText
  <2>3. 1 \in 1 .. Len(key.str) /\ 1 + 2 = 3  BY <2>1
  <2>4. f[3] = key.str[1]  BY <2>2, <2>3
  <2> QED  BY <2>1, <2>2, <2>4
<1>8. IsDict(val) /\ At(Root, "info") = val  BY DEF Torrent
<1>9. Len(e) \in Nat /\ Len(e) >= 2 /\ e[1] = "d"  BY <1>5, <1>8, FirstByte
<1>10. /\ Len(Whole(input)) = Len(text) /\ input.sent = Len(text) /\ Len(text) \in Nat
       /\ \A p \in 1 .. Len(text) : text[p] = Whole(input)[p]
  BY BufferLen DEF Buffer, InputWhole
<1> HIDE DEF n, key, val, q, e, f
<1>11. r = q + 3  BY <1>7 DEF f
<1>12. /\ r + Len(e) <= Len(text) /\ Whole(input)[q + 3] = f[3] /\ Whole(input)[r + 1] = e[1]
  <2>1. r + Len(e) <= Len(Whole(input)) /\ \A x \in 1 .. Len(e) : Whole(input)[r + x] = e[x]
    BY <1>5 DEF Placed, Stands, e
  <2>2. \A x \in 1 .. Len(f) : Whole(input)[q + x] = f[x]
    BY <1>5 DEF Placed, Stands, f
  <2>3. 1 \in 1 .. Len(e) /\ 3 \in 1 .. Len(f)  BY <1>7, <1>9
  <2> QED  BY <1>10, <2>1, <2>2, <2>3
<1>13. r + 1 \in 2 .. Len(text) /\ r \in 1 .. Len(text) /\ (r + 1) - 1 = r
  <2> DEFINE N == Len(text)
             L == Len(e)
  <2>1. N \in Nat /\ L \in Nat /\ L >= 2 /\ r + L <= N  BY <1>9, <1>10, <1>12
  <2> HIDE DEF N, L, r
  <2>2. r + 1 \in 2 .. N /\ r \in 1 .. N /\ (r + 1) - 1 = r  BY <1>4, <1>11, <2>1
  <2> QED  BY <2>2 DEF N
<1> HIDE DEF r
<1>14. text[r] = "info" /\ text[r + 1] = "d"
  <2>1. r + 1 \in 1 .. Len(text)  BY <1>13
  <2> QED  BY <1>7, <1>9, <1>10, <1>11, <1>12, <1>13, <2>1
<1>15. r + 1 \in InfoAt  BY <1>13, <1>14 DEF InfoAt
<1>16. ASSUME NEW p \in InfoAt PROVE p = r + 1
  <2>1. p \in 2 .. Len(text) /\ text[p - 1] = "info" /\ text[p] = "d"  BY <1>16 DEF InfoAt
  <2>2. p \in 1 .. Len(text) /\ p - 1 \in 1 .. Len(text)  BY <1>10, <2>1
  <2>3. Whole(input)[p - 1] = "info" /\ Whole(input)[p] = "d"  BY <1>10, <2>1, <2>2
  <2>4. Whole(input)[(r + 1) - 1] = "info" /\ Whole(input)[r + 1] = "d"
    <3>1. r + 1 \in 1 .. Len(text)  BY <1>13
    <3> QED  BY <1>10, <1>13, <1>14, <3>1
  <2>5. p \in 2 .. Len(Whole(input)) /\ r + 1 \in 2 .. Len(Whole(input))  BY <1>10, <1>13, <2>1
  <2>6. \A x, y \in 2 .. Len(Whole(input)) :
          Whole(input)[x - 1] = "info" /\ Whole(input)[x] = "d"
            /\ Whole(input)[y - 1] = "info" /\ Whole(input)[y] = "d" => x = y
    BY Zenon DEF TorrentFormat
  <2> QED  BY <2>3, <2>4, <2>5, <2>6
<1>17. InfoAt = {r + 1}  BY <1>15, <1>16
<1>18. r + Len(e) = Before(n)[k]  BY <1>5, <1>6
<1>19. Placed(val, r) /\ r \in Nat  BY <1>5
<1> QED  BY <1>8, <1>17, <1>18, <1>19 DEF e, n
\* What is hashed ends where info does, or behind it.
LEMMA InfoLast ==
  ASSUME Buffer, InputWhole, IsDict(input.doc), Torrent(Root), input.tail \in Seq(STRING),
         NEW k \in 1 .. Len(Root)
  PROVE  /\ InfoEnd \in Nat /\ InfoEnd <= Len(text)
         /\ InfoEnd = Before(input.doc)[k] <=> k = Len(Root) /\ input.tail = <<>>
<1> DEFINE n == input.doc
           o == Before(n)
           K == Len(Root)
           e == Encode[n]
           D == Len(e)
           N == Len(text)
           T == Len(input.tail)
<1>1. n \in Nodes /\ Placed(n, 0) /\ IsDict(n) /\ ~IsList(n) /\ e \in Bytes
  <2>1. n \in Nodes /\ Placed(n, 0)  BY DEF Buffer, Placed
  <2> QED  BY <2>1, Kinds, EncodeEquation
<1>2. Width(n) = K /\ K \in Nat  BY <1>1 DEF Width, ItemsOf, Root, Torrent, Dictionary
<1>3. o[K] + 1 = D /\ e[D] = "e" /\ o[K] \in Nat /\ D \in Nat /\ D >= 2
  <2>1. Lays(n, o)  BY <1>1, Layout
  <2>2. K \in 0 .. Width(n)  BY <1>2
  <2>3. o[K] \in Nat  BY <1>1, <2>2, BeforeGrows
  <2> QED  BY <1>1, <1>2, <2>1, <2>3, FirstByte DEF Lays
<1>4. o[k] \in Nat
  <2>1. k \in 0 .. Width(n)  BY <1>2
  <2> QED  BY <1>1, <2>1, BeforeGrows
<1>5. ASSUME k < K PROVE o[k] + 1 < D
  <2>1. k \in 0 .. Width(n) - 1 /\ k + 1 \in 0 .. Width(n)  BY <1>2, <1>5
  <2> DEFINE key == n.dict[k + 1].key
             val == n.dict[k + 1].val
             x == Len(Encode[key])
             y == Len(Encode[val])
  <2>2. key \in Nodes /\ val \in Nodes /\ (0 + o[k] + x) + y = 0 + o[k + 1]
    BY <1>1, <2>1, EntryPlaced
  <2>3. x \in Nat /\ y \in Nat /\ y >= 2  BY <2>2, FirstByte
  <2>4. o[k + 1] \in Nat /\ o[k + 1] + 1 <= D  BY <1>1, <2>1, BeforeGrows
  <2> DEFINE u == o[k]
             v == o[k + 1]
  <2>5. u \in Nat /\ v \in Nat /\ (0 + u + x) + y = 0 + v /\ v + 1 <= D /\ D \in Nat
    BY <1>3, <1>4, <2>2, <2>4
  <2> HIDE DEF x, y, u, v, D
  <2>6. u + 1 < D  BY <2>3, <2>5
  <2> QED  BY <2>6 DEF u
<1>6. /\ N = D + T /\ T \in Nat /\ N \in Nat
      /\ input.tail = <<>> <=> T = 0
  <2>1. N = D + T /\ T \in Nat  BY DEF Buffer
  <2>2. input.tail = <<>> <=> T = 0  BY EmptySeq
  <2>3. D + T \in Nat
    <3>1. D \in Nat /\ T \in Nat  BY <1>3, <2>1
    <3> HIDE DEF D, T
    <3> QED  BY <3>1
  <2>4. N \in Nat  BY <2>1, <2>3
  <2> QED  BY <2>1, <2>2, <2>4
<1>7. InfoEnd = IF text[N] = "e" THEN N - 1 ELSE N  BY DEF InfoEnd, Last
<1>8. T = 0 => text[N] = "e"
  <2>1. Len(Whole(input)) = N /\ input.sent = N /\ \A p \in 1 .. input.sent : text[p] = Whole(input)[p]
    BY BufferLen DEF Buffer, InputWhole
  <2>2. \A p \in 1 .. D : Whole(input)[0 + p] = e[p]  BY <1>1 DEF Placed, Stands
  <2>3. D \in 1 .. D /\ 0 + D = D  BY <1>3
  <2>4. Whole(input)[D] = "e"
    <3>1. Whole(input)[0 + D] = e[D]  BY <2>2, <2>3
    <3> QED  BY <1>3, <2>3, <3>1
  <2> HIDE DEF D, N, T
  <2>5. T = 0 => N = D  BY <1>3, <1>6
  <2> QED  BY <2>1, <2>3, <2>4, <2>5
<1> HIDE DEF n, o, K, e, D, N, T
<1>9. InfoEnd \in Nat /\ InfoEnd <= N  BY <1>3, <1>6, <1>7
<1>10. k \in Nat /\ k <= K  BY <1>2 DEF K
<1>11. CASE k = K
  <2>1. T = 0 => InfoEnd = o[k]  BY <1>3, <1>6, <1>7, <1>8, <1>11
  <2>2. T # 0 => InfoEnd # o[k]  BY <1>3, <1>4, <1>6, <1>7, <1>11
  <2>3. InfoEnd = o[k] <=> k = K /\ input.tail = <<>>  BY <1>6, <1>11, <2>1, <2>2
  <2> QED  BY <1>9, <2>3 DEF n, o, K, N
<1>12. CASE k < K
  <2>1. InfoEnd # o[k]  BY <1>3, <1>4, <1>5, <1>6, <1>7, <1>12
  <2>2. InfoEnd = o[k] <=> k = K /\ input.tail = <<>>  BY <1>10, <1>12, <2>1
  <2> QED  BY <1>9, <2>2 DEF n, o, K, N
<1> QED  BY <1>2, <1>10, <1>11, <1>12

\* The hash is the one the tracker and the peers know the torrent by exactly if info
\* is the last key of the file and nothing follows the file's last e (the memcpy
\* from strstr's infod to the end of the buffer in parsetorrentfile).
THEOREM InfoIsHashed == Spec => []HashOfInfo
<1>1. ASSUME DecodeInv, FieldInv, at = "torrent"
      PROVE  field["info_hash"] = Encode[At(Root, "info")]
               <=> Last(Root).key.str = <<"info">> /\ input.tail = <<>>
  <2> DEFINE info == InfoOf(Root)
             inner == IF "info" \in KeysOf(Root) THEN KeysOf(info) ELSE {}
             b == Behind(i, j, at)
             n == At(Root, "info")
  <2>1. /\ input \in Inputs /\ input.kind = "file" /\ IsDict(input.doc) /\ Torrent(Root)
        /\ \A name : Seen(Root, i, name) <=> name \in KeysOf(Root)
        /\ \A name : Seen(info, b, name) <=> name \in inner
        /\ field["info_hash"] = SubSeq(text, Min(InfoAt), InfoEnd)
        /\ RootCount(Root, i) + InfoCount(info, b) >= 5
    BY <1>1, FileAtEnd
  <2>2. "info" \in KeysOf(Root)
    <3> SUFFICES ASSUME "info" \notin KeysOf(Root) PROVE FALSE  OBVIOUS
    <3>1. \A name : Once(info, b, name) = 0  BY <2>1 DEF Once
    <3>2. InfoCount(info, b) = 0  BY <3>1 DEF InfoCount
    <3>3. Once(Root, i, "announce") \in {0, 1} /\ Once(Root, i, "announce-list") \in {0, 1}
      BY DEF Once
    <3>4. RootCount(Root, i) <= 2  BY <3>3 DEF RootCount
    <3>5. RootCount(Root, i) \in Nat  BY CountsNat
    <3> QED  BY <2>1, <3>2, <3>4, <3>5
  <2>3. Dictionary(Root)  BY <2>1 DEF Torrent
  <2>4. PICK k \in 1 .. Len(Root) : Root[k].key.str = <<"info">>
    <3>1. (Len(Root) + 1) - 1 = Len(Root)  BY <2>3 DEF Dictionary
    <3>2. Seen(Root, Len(Root) + 1, "info")  BY <2>2, <2>3, SeenAll
    <3> QED  BY <3>1, <3>2 DEF Seen
  <2>5. InputWhole /\ TorrentFormat(input) /\ input.tail \in Seq(STRING)
    BY <2>1, TorrentKnown, MetainfoAssumption, BencodeAssumption DEF BencodeInput
  <2>6. Buffer
    <3>1. text = Received(input)  BY <1>1 DEF DecodeInv
    <3> QED  BY <2>1, <2>5, <3>1, BufferKnown DEF Measured
  <2>7. PICK r \in Nat : InfoAt = {r + 1} /\ Placed(n, r) /\ r + Len(Encode[n]) = Before(input.doc)[k]
    BY <2>1, <2>4, <2>5, <2>6, InfoFound
  <2>8. Min(InfoAt) = r + 1
    <3> DEFINE x == r + 1
    <3>1. x \in Nat /\ InfoAt = {x}  BY <2>7
    <3> HIDE DEF x
    <3>2. \A y \in {x} : y = x /\ \A z \in {x} : y <= z  BY <3>1
    <3>3. x = CHOOSE y \in {x} : \A z \in {x} : y <= z  BY <3>1, <3>2
    <3> QED  BY <3>1, <3>3 DEF Min, x
  <2>9. n \in Nodes
    <3>1. At(Root, "info") = Root[k].val  BY <2>3, <2>4, AtKey
    <3> QED  BY <2>3, <2>4, <3>1 DEF Dictionary
  <2>10. /\ InfoEnd \in Nat /\ InfoEnd <= Len(text)
         /\ InfoEnd = Before(input.doc)[k] <=> k = Len(Root) /\ input.tail = <<>>
    BY <2>1, <2>4, <2>5, <2>6, InfoLast
  <2>11. SubSeq(text, r + 1, InfoEnd) = Encode[n] <=> InfoEnd = r + Len(Encode[n])
    BY <2>5, <2>6, <2>7, <2>9, <2>10, PartIsEncoding
  <2>12. Last(Root).key.str = <<"info">> <=> k = Len(Root)
    <3>1. Len(Root) \in 1 .. Len(Root)  BY <2>3, <2>4 DEF Dictionary
    <3>2. \A l \in 1 .. Len(Root) : Root[l].key.str = <<"info">> => l = k
      BY <2>3, <2>4 DEF Dictionary, Keyed
    <3> QED  BY <2>4, <3>1, <3>2 DEF Last
  <2>13. field["info_hash"] = Encode[n] <=> InfoEnd = Before(input.doc)[k]
    <3>1. field["info_hash"] = SubSeq(text, r + 1, InfoEnd)  BY <2>1, <2>8
    <3> QED  BY <2>7, <2>11, <3>1
  <2> QED  BY <2>10, <2>12, <2>13
<1>2. DecodeInv /\ FieldInv => HashOfInfo  BY <1>1 DEF HashOfInfo
<1>3. Spec => []DecodeInv  BY DecodeInvariance
<1>4. Spec => []FieldInv  BY FieldInvariance
<1> QED  BY <1>2, <1>3, <1>4, PTL
=============================================================================
