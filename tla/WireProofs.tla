--------------------------- MODULE WireProofs ---------------------------
(***************************************************************************)
(* Proofs about Wire, for every width of an int and room in the sockets,   *)
(* whatever blocks, numbers and bitfield are sent and however often each   *)
(* thread has something to say: what is handled is what was sent, and a    *)
(* message cut short lacks bytes of its last field only.                   *)
(*                                                                         *)
(* The induction over data that the messages need (the value of an int,    *)
(* the concatenation of fields) is done with Climb, a fact about sets.     *)
(***************************************************************************)
EXTENDS Wire, SequenceTheorems, FiniteSetTheorems, TLAPS

\* Induction up to n, as a fact about sets of numbers.
LEMMA Climb ==
  ASSUME NEW n \in Nat, NEW G, 0 \in G, \A k \in 0 .. n - 1 : k \in G => k + 1 \in G
  PROVE  n \in G
<1> SUFFICES ASSUME n \notin G PROVE FALSE  OBVIOUS
<1> DEFINE B == (0 .. n) \ G
<1>1. IsFiniteSet(B) /\ n \in B
  <2>1. IsFiniteSet(0 .. n) /\ B \subseteq 0 .. n  BY FS_Interval
  <2> QED  BY <2>1, FS_Subset
<1>2. /\ IsFiniteSet(B \ {n}) /\ Cardinality(B) \in Nat
      /\ Cardinality(B \ {n}) = Cardinality(B) - 1
  BY <1>1, FS_RemoveElement, FS_CardinalityType
<1> DEFINE f == [b \in B |-> b - 1]
<1>3. f \in [B -> B \ {n}]
  <2>1. ASSUME NEW b \in B PROVE b - 1 \in B \ {n}
    <3>1. b \in 1 .. n  OBVIOUS
    <3>2. b - 1 \in 0 .. n - 1 /\ (b - 1) + 1 = b  BY <3>1
    <3> QED  BY <3>2
  <2> QED  BY <2>1
<1>4. PICK x, y \in B : x # y /\ f[x] = f[y]
  <2> HIDE DEF f, B
  <2>1. Cardinality(B \ {n}) < Cardinality(B)  BY <1>2
  <2> QED  BY <1>1, <1>2, <1>3, <2>1, FS_PigeonHole
<1> QED  BY <1>4

\* Max of SequencesExt on numbers up to n.
LEMMA Largest ==
  ASSUME NEW n \in Nat, NEW S \in SUBSET (1 .. n), S # {}
  PROVE  Max(S) \in S /\ \A y \in S : Max(S) >= y
<1> DEFINE G == {k \in 0 .. n : (\E x \in S : \A y \in S : x >= y) \/ \A y \in S : y <= n - k}
<1>1. 0 \in G  OBVIOUS
<1>2. ASSUME NEW k \in 0 .. n - 1, k \in G PROVE k + 1 \in G
  <2>1. k + 1 \in 0 .. n  OBVIOUS
  <2>2. CASE \E x \in S : \A y \in S : x >= y  BY <2>1, <2>2
  <2>3. CASE \A y \in S : y <= n - k
    <3>1. CASE n - k \in S
      <4>1. \A y \in S : n - k >= y  BY <2>3
      <4> QED  BY <3>1, <4>1, <2>1
    <3>2. CASE n - k \notin S
      <4>1. ASSUME NEW y \in S PROVE y <= n - (k + 1)
        <5>1. y <= n - k /\ y # n - k /\ y \in 1 .. n  BY <2>3, <3>2
        <5> QED  BY <5>1
      <4> QED  BY <2>1, <4>1
    <3> QED  BY <3>1, <3>2
  <2> QED  BY <1>2, <2>2, <2>3
<1>3. n \in G
  <2> HIDE DEF G
  <2> QED  BY <1>1, <1>2, Climb
<1>4. \E x \in S : \A y \in S : x >= y
  <2>1. CASE \A y \in S : y <= n - n
    <3>1. PICK y \in S : TRUE  OBVIOUS
    <3> QED  BY <2>1, <3>1
  <2> QED  BY <1>3, <2>1
<1> QED  BY <1>4 DEF Max

\* The value of an int in network byte order is the int.
LEMMA ValueOfNumber ==
  ASSUME NEW v \in Nat
  PROVE  /\ Number(v) \in Seq(Nat) /\ Len(Number(v)) = W /\ Value(Number(v)) = v
<1>1. W \in Nat /\ W > 0  BY WireAssumption
<1> DEFINE b == Number(v)  D == 1 .. W
           Step(g, s) == IF s = {} THEN 0 ELSE 256 * g[s \ {Max(s)}] + b[Max(s)]
<1>2. b \in [D -> Nat] /\ b[W] = v /\ \A k \in 1 .. W - 1 : b[k] = 0
  BY <1>1 DEF Number
<1>3. b \in Seq(Nat) /\ Len(b) = W
  BY <1>1 DEF Number
<1>4. DOMAIN b = D  BY <1>2
<1> HIDE DEF b
<1>5. \E g : g = [s \in SUBSET D |-> Step(g, s)]
  <2> DEFINE g == [s \in SUBSET D |-> IF W \in s THEN v ELSE 0]
  <2>1. ASSUME NEW s \in SUBSET D PROVE g[s] = Step(g, s)
    <3>1. CASE s = {}  BY <3>1
    <3>2. CASE s # {}
      <4>1. PICK x \in D : x = Max(s) /\ x \in s /\ \A y \in s : x >= y
        <5>1. s \in SUBSET (1 .. W)  OBVIOUS
        <5>2. Max(s) \in s /\ \A y \in s : Max(s) >= y  BY <1>1, <3>2, <5>1, Largest
        <5> QED  BY <5>1, <5>2
      <4>2. s \ {x} \in SUBSET D  OBVIOUS
      <4>3. CASE W \in s
        <5>1. x = W  BY <1>1, <4>1, <4>3
        <5>2. g[s \ {x}] = 0 /\ g[s] = v /\ b[x] = v  BY <1>2, <4>2, <4>3, <5>1
        <5>3. Step(g, s) = 256 * 0 + v  BY <3>2, <4>1, <5>2
        <5> QED  BY <5>2, <5>3
      <4>4. CASE W \notin s
        <5>1. x \in 1 .. W - 1  BY <1>1, <4>1, <4>4
        <5>2. g[s \ {x}] = 0 /\ g[s] = 0 /\ b[x] = 0  BY <1>2, <4>2, <4>4, <5>1
        <5>3. Step(g, s) = 256 * 0 + 0  BY <3>2, <4>1, <5>2
        <5> QED  BY <5>2, <5>3
      <4> QED  BY <4>3, <4>4
    <3> QED  BY <3>1, <3>2
  <2>2. g = [s \in SUBSET D |-> g[s]]  OBVIOUS
  <2> HIDE DEF g
  <2>3. g = [s \in SUBSET D |-> Step(g, s)]
    <3> HIDE DEF Step
    <3> QED  BY <2>1, <2>2
  <2> HIDE DEF Step
  <2> QED  BY <2>3
<1> DEFINE iter == CHOOSE g : g = [s \in SUBSET D |-> Step(g, s)]
<1>6. iter = [s \in SUBSET D |-> Step(iter, s)]
  BY <1>5
<1>7. Value(b) = iter[D]
  BY <1>4 DEF Value, FoldLeft, MapThenFoldSet
<1> HIDE DEF iter
<1>8. \A s \in SUBSET D : s # {} => iter[s] = 256 * iter[s \ {Max(s)}] + b[Max(s)]
  BY <1>6
<1>9. \A k \in 1 .. W : iter[1 .. k] = 256 * iter[1 .. k - 1] + b[k]
  <2> TAKE k \in 1 .. W
  <2> DEFINE s == 1 .. k
  <2>1. s \in SUBSET D /\ k \in s /\ s # {} /\ s \ {k} = 1 .. k - 1  BY <1>1
  <2>2. Max(s) \in s /\ Max(s) >= k  BY <1>1, <2>1, Largest
  <2>3. Max(s) = k  BY <1>1, <2>2
  <2> HIDE DEF s
  <2>4. iter[s] = 256 * iter[s \ {Max(s)}] + b[Max(s)]  BY <1>8, <2>1
  <2>5. iter[s] = 256 * iter[1 .. k - 1] + b[k]  BY <2>1, <2>3, <2>4
  <2> QED  BY <2>5 DEF s
<1>10. iter[1 .. W - 1] = 0
  <2> DEFINE G == {k \in 0 .. W - 1 : iter[1 .. k] = 0}
  <2>1. 0 \in G
    <3>1. iter[{}] = 0  BY <1>6
    <3>2. 1 .. 0 = {}  OBVIOUS
    <3> QED  BY <1>1, <3>1, <3>2
  <2>2. ASSUME NEW k \in 0 .. (W - 1) - 1, k \in G PROVE k + 1 \in G
    <3>1. k + 1 \in 1 .. W - 1 /\ k + 1 \in 1 .. W /\ (k + 1) - 1 = k  BY <1>1
    <3>2. iter[1 .. k + 1] = 256 * iter[1 .. k] + b[k + 1]  BY <1>9, <3>1
    <3>3. b[k + 1] = 0 /\ iter[1 .. k] = 0  BY <1>2, <2>2, <3>1
    <3>4. iter[1 .. k + 1] = 256 * 0 + 0  BY <3>2, <3>3
    <3> QED  BY <3>1, <3>4
  <2>3. W - 1 \in G
    <3>1. W - 1 \in Nat  BY <1>1
    <3> HIDE DEF G
    <3> QED  BY <2>1, <2>2, <3>1, Climb
  <2> QED  BY <2>3
<1>11. iter[D] = v
  <2>1. W \in 1 .. W  BY <1>1
  <2>2. iter[D] = 256 * iter[1 .. W - 1] + b[W]  BY <1>9, <2>1
  <2>3. iter[D] = 256 * 0 + v  BY <1>2, <1>10, <2>2
  <2> QED  BY <2>3
<1> QED  BY <1>3, <1>7, <1>11 DEF b

\* Concatenation of strings of bytes, and of fields.
Regroups(a, b, c) == (a \o b) \o c = a \o (b \o c)

LEMMA Associative ==
  ASSUME NEW a \in Seq(Nat), NEW b \in Seq(Nat), NEW c \in Seq(Nat)
  PROVE  Regroups(a, b, c)
  BY ConcatAssociative, SMTT(30) DEF Regroups

\* The fields of a message that has none.
LEMMA FlatNone == FlattenSeq(<<>>) = <<>>
  BY DEF FlattenSeq

\* Of one field.
LEMMA FlatOne ==
  ASSUME NEW q, Len(q) = 1 PROVE FlattenSeq(q) = q[1]
<1> DEFINE Step(f) == [i \in 1 .. 1 |-> IF i = 1 THEN q[i] ELSE f[i - 1] \o q[i]]
           flatten == CHOOSE f : f = Step(f)
<1>1. FlattenSeq(q) = flatten[1]  BY DEF FlattenSeq
<1>2. \E f : f = Step(f)
  <2> DEFINE f == [i \in 1 .. 1 |-> q[1]]
  <2>1. f = Step(f)  OBVIOUS
  <2> QED  BY <2>1
<1>3. flatten = Step(flatten)
  <2> HIDE DEF Step
  <2> QED  BY <1>2
<1> HIDE DEF flatten
<1>4. flatten[1] = q[1]  BY <1>3
<1> QED  BY <1>1, <1>4

\* Of three fields, one behind the other.
LEMMA FlatThree ==
  ASSUME NEW q, Len(q) = 3, q[1] \in Seq(Nat), q[2] \in Seq(Nat), q[3] \in Seq(Nat)
  PROVE  FlattenSeq(q) = q[1] \o (q[2] \o q[3])
<1> DEFINE Step(f) == [i \in 1 .. 3 |-> IF i = 1 THEN q[i] ELSE f[i - 1] \o q[i]]
           flatten == CHOOSE f : f = Step(f)
<1>1. FlattenSeq(q) = flatten[3]  BY DEF FlattenSeq
<1>2. \E f : f = Step(f)
  <2> DEFINE f == [i \in 1 .. 3 |-> IF i = 1 THEN q[1] ELSE IF i = 2 THEN q[1] \o q[2]
                                                         ELSE (q[1] \o q[2]) \o q[3]]
  <2>1. f[1] = q[1] /\ f[2] = q[1] \o q[2] /\ f[3] = (q[1] \o q[2]) \o q[3]  OBVIOUS
  <2>2. f = [i \in 1 .. 3 |-> f[i]]  OBVIOUS
  <2> HIDE DEF f
  <2>3. ASSUME NEW i \in 1 .. 3 PROVE f[i] = IF i = 1 THEN q[i] ELSE f[i - 1] \o q[i]
    <3>1. CASE i = 1  BY <2>1, <3>1
    <3>2. CASE i = 2
      <4>1. i - 1 = 1  BY <3>2
      <4> QED  BY <2>1, <3>2, <4>1
    <3>3. CASE i = 3
      <4>1. i - 1 = 2  BY <3>3
      <4> QED  BY <2>1, <3>3, <4>1
    <3> QED  BY <3>1, <3>2, <3>3
  <2>4. Step(f) = [i \in 1 .. 3 |-> f[i]]  BY <2>3
  <2> HIDE DEF Step
  <2> QED  BY <2>2, <2>4
<1>3. flatten = Step(flatten)
  <2> HIDE DEF Step
  <2> QED  BY <1>2
<1> HIDE DEF flatten
<1>4. flatten[3] = (q[1] \o q[2]) \o q[3]
  <2>1. \A i \in 1 .. 3 : flatten[i] = IF i = 1 THEN q[i] ELSE flatten[i - 1] \o q[i]
    BY <1>3
  <2>2. flatten[1] = q[1]  BY <2>1
  <2>3. 2 - 1 = 1 /\ 3 - 1 = 2  OBVIOUS
  <2>4. flatten[2] = flatten[2 - 1] \o q[2]  BY <2>1
  <2>5. flatten[3] = flatten[3 - 1] \o q[3]  BY <2>1
  <2> QED  BY <2>2, <2>3, <2>4, <2>5
<1>5. Regroups(q[1], q[2], q[3])  BY Associative
<1> QED  BY <1>1, <1>4, <1>5 DEF Regroups
-----------------------------------------------------------------------------
\* Of two ways to part a string, the shorter first part is the start of the other.
LEMMA SameStart ==
  ASSUME NEW S, NEW a \in Seq(S), NEW b \in Seq(S), NEW c \in Seq(S), NEW d \in Seq(S),
         a \o b = c \o d
  PROVE  /\ Len(a) = Len(c) => a = c /\ b = d
         /\ Len(a) <= Len(c) => IsPrefix(a, c)
<1>1. /\ Len(a) \in Nat /\ Len(b) \in Nat /\ Len(c) \in Nat /\ Len(d) \in Nat
      /\ DOMAIN a = 1 .. Len(a) /\ DOMAIN c = 1 .. Len(c)
  BY LenProperties
<1>2. /\ Len(a \o b) = Len(a) + Len(b) /\ Len(c \o d) = Len(c) + Len(d)
      /\ \A i \in 1 .. Len(a) + Len(b) :
           (a \o b)[i] = IF i <= Len(a) THEN a[i] ELSE b[i - Len(a)]
      /\ \A i \in 1 .. Len(c) + Len(d) :
           (c \o d)[i] = IF i <= Len(c) THEN c[i] ELSE d[i - Len(c)]
  BY ConcatProperties
<1>3. Len(a) + Len(b) = Len(c) + Len(d)  BY <1>2
<1> DEFINE u == a \o b
<1>4. /\ \A i \in 1 .. Len(a) + Len(b) : u[i] = IF i <= Len(a) THEN a[i] ELSE b[i - Len(a)]
      /\ \A i \in 1 .. Len(a) + Len(b) : u[i] = IF i <= Len(c) THEN c[i] ELSE d[i - Len(c)]
  BY <1>2, <1>3
<1> HIDE DEF u
<1>5. ASSUME Len(a) <= Len(c), NEW i \in 1 .. Len(a) PROVE a[i] = c[i]
  <2>1. i \in 1 .. Len(a) + Len(b) /\ i <= Len(a) /\ i <= Len(c)  BY <1>1, <1>5
  <2> QED  BY <1>4, <2>1
<1>6. ASSUME Len(a) = Len(c) PROVE a = c /\ b = d
  <2>1. a = c  BY <1>1, <1>5, <1>6, SeqEqual
  <2>2. a \o b = a \o d  BY <2>1
  <2> QED  BY <2>1, <2>2, ConcatSimplifications
<1>7. ASSUME Len(a) <= Len(c) PROVE IsPrefix(a, c)
  <2> DEFINE n == Len(a)  x == SubSeq(a, 1, n)  y == SubSeq(c, 1, n)
  <2>1. /\ x \in Seq(S) /\ Len(x) = n /\ \A i \in 1 .. n : x[i] = a[i]
    <3>1. \A i \in 1 .. n : a[i] \in S  BY <1>1, ElementOfSeq
    <3> QED  BY <1>1, <3>1, SubSeqFull
  <2>2. /\ y \in Seq(S) /\ Len(y) = n /\ \A i \in 1 .. n : y[i] = c[i]
    <3>1. \A i \in 1 .. n : c[i] \in S
      <4>1. \A i \in 1 .. n : i \in 1 .. Len(c)  BY <1>1, <1>7
      <4> QED  BY <4>1, ElementOfSeq
    <3>2. /\ y \in Seq(S) /\ Len(y) = IF 1 <= n THEN n - 1 + 1 ELSE 0
          /\ \A i \in 1 .. n - 1 + 1 : y[i] = c[1 + i - 1]
      BY <1>1, <3>1, SubSeqProperties
    <3>3. \A i \in 1 .. n : 1 + i - 1 = i /\ i \in 1 .. n - 1 + 1  BY <1>1
    <3> QED  BY <1>1, <3>2, <3>3
  <2> HIDE DEF x, y, n
  <2>3. x = y
    <3>1. \A i \in 1 .. Len(x) : x[i] = y[i]  BY <1>5, <1>7, <2>1, <2>2 DEF n
    <3> QED  BY <2>1, <2>2, <3>1, SeqEqual
  <2> QED  BY <1>7, <2>3 DEF IsPrefix, x, y, n
<1> QED  BY <1>6, <1>7

\* If the first parts are as long as each other, the parts are the same.
LEMMA SameParts ==
  ASSUME NEW a \in Seq(Nat), NEW b \in Seq(Nat), NEW c \in Seq(Nat), NEW d \in Seq(Nat),
         a \o b = c \o d, Len(a) = Len(c)
  PROVE  a = c /\ b = d
  BY SameStart

LEMMA ShorterStart ==
  ASSUME NEW a \in Seq(Nat), NEW b \in Seq(Nat), NEW c \in Seq(Nat), NEW d \in Seq(Nat),
         a \o b = c \o d, Len(a) <= Len(c)
  PROVE  IsPrefix(a, c)
  BY SameStart

\* An empty string has empty parts.
LEMMA EmptyParts ==
  ASSUME NEW a \in Seq(Nat), NEW b \in Seq(Nat), a \o b = <<>>
  PROVE  a = <<>> /\ b = <<>>
  BY ConcatEqualIffEmpty

MessageType == [id : Nat, args : Seq(Seq(Nat))]

\* The messages that a client sends.
Said(m) ==
  /\ m \in MessageType
  /\ \/ m.id \in {UNCHOKE, INTERESTED} /\ m.args = <<>>
     \/ \E a \in Seq(Nat) :
          /\ m.args = <<a>>
          /\ \/ m.id = HAVE_PIECE /\ Len(a) = W
             \/ m.id = BITFIELD /\ Len(a) > 0
     \/ \E a, b, c \in Seq(Nat) :
          /\ m.args = <<a, b, c>> /\ Len(a) = W /\ Len(b) = W
          /\ \/ m.id \in {REQUEST, CANCEL} /\ Len(c) = W
             \/ m.id = PIECE /\ Len(c) > 0

\* The bytes of m behind its first j fields.
Behind(m, j) ==
  LET n == Len(m.args)
  IN  IF j = n THEN <<>>
      ELSE IF j = n - 1 THEN m.args[n]
      ELSE IF j = n - 2 THEN m.args[n - 1] \o m.args[n]
      ELSE m.args[n - 2] \o (m.args[n - 1] \o m.args[n])

\* The length that is sent ahead of m: its id and its fields.
Length(m) == 1 + Len(Body(m))

\* The fields of a message that is sent are as long as the reader takes them to be.
LEMMA Shape ==
  ASSUME NEW m, Said(m)
  PROVE  /\ Len(m.args) \in Nat
         /\ Body(m) = Behind(m, 0) /\ Behind(m, Len(m.args)) = <<>>
         /\ \A j \in 0 .. Len(m.args) : Behind(m, j) \in Seq(Nat)
         /\ \A j \in 0 .. Len(m.args) - 1 :
              /\ m.args[j + 1] \in Seq(Nat) /\ Len(m.args[j + 1]) \in Nat \ {0}
              /\ Behind(m, j) = m.args[j + 1] \o Behind(m, j + 1)
         /\ Fields(m.id, Length(m)) = [k \in 1 .. Len(m.args) |-> Len(m.args[k])]
<1>0. W \in Nat /\ W > 0  BY WireAssumption
<1>1. CASE m.id \in {UNCHOKE, INTERESTED} /\ m.args = <<>>
  <2>1. Len(m.args) = 0  BY <1>1
  <2>2. Body(m) = <<>>  BY <1>1, FlatNone DEF Body
  <2>3. Behind(m, 0) = <<>>  BY <2>1 DEF Behind
  <2>4. Fields(m.id, Length(m)) = <<>>
    BY <1>1 DEF Fields, UNCHOKE, INTERESTED, HAVE_PIECE, BITFIELD, REQUEST, CANCEL, PIECE
  <2>5. <<>> \in Seq(Nat) /\ <<>> = [k \in 1 .. 0 |-> Len(m.args[k])]  OBVIOUS
  <2>6. (\A j \in 0 .. 0 : j = 0) /\ 0 .. 0 - 1 = {}  OBVIOUS
  <2>7. \A j \in 0 .. Len(m.args) : Behind(m, j) \in Seq(Nat)
    BY <2>1, <2>3, <2>5, <2>6
  <2>8. 0 .. Len(m.args) - 1 = {}  BY <2>1, <2>6
  <2>9. Fields(m.id, Length(m)) = [k \in 1 .. Len(m.args) |-> Len(m.args[k])]
    BY <2>1, <2>4, <2>5
  <2> QED  BY <2>1, <2>2, <2>3, <2>7, <2>8, <2>9
<1>2. ASSUME NEW a \in Seq(Nat), m.args = <<a>>,
             \/ m.id = HAVE_PIECE /\ Len(a) = W
             \/ m.id = BITFIELD /\ Len(a) > 0
      PROVE  /\ Len(m.args) = 1 /\ m.args[1] = a /\ Body(m) = a
             /\ Fields(m.id, Length(m)) = <<Len(a)>> /\ Len(a) \in Nat \ {0}
  <2>1. Len(m.args) = 1 /\ m.args[1] = a  BY <1>2
  <2>2. Body(m) = a  BY <1>2, <2>1, FlatOne DEF Body
  <2>3. Len(a) \in Nat \ {0}  BY <1>0, <1>2, LenProperties
  <2>4. Length(m) - 1 = Len(a)  BY <2>2, <2>3 DEF Length
  <2>5. Fields(m.id, Length(m)) = <<Len(a)>>
    BY <1>2, <2>4 DEF Fields, HAVE_PIECE, BITFIELD, REQUEST, CANCEL, PIECE
  <2> QED  BY <2>1, <2>2, <2>3, <2>5
<1>3. ASSUME NEW a \in Seq(Nat), NEW b \in Seq(Nat), NEW c \in Seq(Nat),
             m.args = <<a, b, c>>, Len(a) = W, Len(b) = W,
             \/ m.id \in {REQUEST, CANCEL} /\ Len(c) = W
             \/ m.id = PIECE /\ Len(c) > 0
      PROVE  /\ Len(m.args) = 3 /\ m.args[1] = a /\ m.args[2] = b /\ m.args[3] = c
             /\ Body(m) = a \o (b \o c)
             /\ Fields(m.id, Length(m)) = <<Len(a), Len(b), Len(c)>>
             /\ Len(a) \in Nat \ {0} /\ Len(b) \in Nat \ {0} /\ Len(c) \in Nat \ {0}
  <2>1. Len(m.args) = 3 /\ m.args[1] = a /\ m.args[2] = b /\ m.args[3] = c  BY <1>3
  <2>2. Body(m) = a \o (b \o c)  BY <2>1, FlatThree DEF Body
  <2>3. Len(c) \in Nat \ {0}  BY <1>0, <1>3, LenProperties
  <2>4. Len(a \o (b \o c)) = W + (W + Len(c))
    <3>1. b \o c \in Seq(Nat) /\ Len(b \o c) = Len(b) + Len(c)  BY ConcatProperties
    <3>2. Len(a \o (b \o c)) = Len(a) + Len(b \o c)  BY <3>1, ConcatProperties
    <3> QED  BY <1>3, <3>1, <3>2
  <2>5. BlockLen(Length(m)) = Len(c)  BY <1>0, <2>2, <2>3, <2>4 DEF Length, BlockLen
  <2>6. Fields(m.id, Length(m)) = <<Len(a), Len(b), Len(c)>>
    BY <1>3, <2>5 DEF Fields, HAVE_PIECE, BITFIELD, REQUEST, CANCEL, PIECE
  <2> QED  BY <1>0, <1>3, <2>1, <2>2, <2>3, <2>6
<1>4. ASSUME NEW a \in Seq(Nat), Len(m.args) = 1, m.args[1] = a, Len(a) \in Nat \ {0},
             Body(m) = a, Fields(m.id, Length(m)) = <<Len(a)>>
      PROVE  /\ Body(m) = Behind(m, 0) /\ Behind(m, 1) = <<>>
             /\ \A j \in 0 .. 1 : Behind(m, j) \in Seq(Nat)
             /\ \A j \in 0 .. 0 :
                  /\ m.args[j + 1] \in Seq(Nat) /\ Len(m.args[j + 1]) \in Nat \ {0}
                  /\ Behind(m, j) = m.args[j + 1] \o Behind(m, j + 1)
             /\ Fields(m.id, Length(m)) = [k \in 1 .. 1 |-> Len(m.args[k])]
  <2>1. Behind(m, 0) = a /\ Behind(m, 1) = <<>>  BY <1>4 DEF Behind
  <2>2. a \o <<>> = a /\ <<>> \in Seq(Nat)  BY ConcatEmptySeq
  <2>3. <<Len(a)>> = [k \in 1 .. 1 |-> Len(m.args[k])]  BY <1>4
  <2>4. \A j \in 0 .. 1 : j = 0 \/ j = 1  OBVIOUS
  <2>5. \A j \in 0 .. 0 : j = 0 /\ j + 1 = 1  OBVIOUS
  <2> QED  BY <1>4, <2>1, <2>2, <2>3, <2>4, <2>5
<1>5. ASSUME NEW a \in Seq(Nat), NEW b \in Seq(Nat), NEW c \in Seq(Nat),
             Len(m.args) = 3, m.args[1] = a, m.args[2] = b, m.args[3] = c,
             Body(m) = a \o (b \o c), Fields(m.id, Length(m)) = <<Len(a), Len(b), Len(c)>>,
             Len(a) \in Nat \ {0}, Len(b) \in Nat \ {0}, Len(c) \in Nat \ {0}
      PROVE  /\ Body(m) = Behind(m, 0) /\ Behind(m, 3) = <<>>
             /\ \A j \in 0 .. 3 : Behind(m, j) \in Seq(Nat)
             /\ \A j \in 0 .. 2 :
                  /\ m.args[j + 1] \in Seq(Nat) /\ Len(m.args[j + 1]) \in Nat \ {0}
                  /\ Behind(m, j) = m.args[j + 1] \o Behind(m, j + 1)
             /\ Fields(m.id, Length(m)) = [k \in 1 .. 3 |-> Len(m.args[k])]
  <2>1. /\ Behind(m, 0) = a \o (b \o c) /\ Behind(m, 1) = b \o c /\ Behind(m, 2) = c
        /\ Behind(m, 3) = <<>>
    <3>1. 3 - 1 = 2 /\ 3 - 2 = 1 /\ 3 - 3 = 0  OBVIOUS
    <3>2. Behind(m, 3) = <<>>  BY <1>5 DEF Behind
    <3>3. Behind(m, 2) = c  BY <1>5 DEF Behind
    <3>4. Behind(m, 1) = b \o c
      <4>1. Behind(m, 1) = m.args[3 - 1] \o m.args[3]  BY <1>5 DEF Behind
      <4> QED  BY <1>5, <3>1, <4>1
    <3>5. Behind(m, 0) = a \o (b \o c)
      <4>1. Behind(m, 0) = m.args[3 - 2] \o (m.args[3 - 1] \o m.args[3])
        BY <1>5 DEF Behind
      <4> QED  BY <1>5, <3>1, <4>1
    <3> QED  BY <3>2, <3>3, <3>4, <3>5
  <2>2. c \o <<>> = c /\ <<>> \in Seq(Nat)  BY ConcatEmptySeq
  <2>3. b \o c \in Seq(Nat) /\ a \o (b \o c) \in Seq(Nat)  BY ConcatProperties
  <2>4. <<Len(a), Len(b), Len(c)>> = [k \in 1 .. 3 |-> Len(m.args[k])]  BY <1>5
  <2>5. \A j \in 0 .. 3 : j = 0 \/ j = 1 \/ j = 2 \/ j = 3  OBVIOUS
  <2>6. ASSUME NEW j \in 0 .. 2
        PROVE  /\ m.args[j + 1] \in Seq(Nat) /\ Len(m.args[j + 1]) \in Nat \ {0}
               /\ Behind(m, j) = m.args[j + 1] \o Behind(m, j + 1)
    <3>1. CASE j = 0
      <4>1. j + 1 = 1  BY <3>1
      <4> QED  BY <1>5, <2>1, <3>1, <4>1
    <3>2. CASE j = 1
      <4>1. j + 1 = 2  BY <3>2
      <4> QED  BY <1>5, <2>1, <3>2, <4>1
    <3>3. CASE j = 2
      <4>1. j + 1 = 3  BY <3>3
      <4> QED  BY <1>5, <2>1, <2>2, <3>3, <4>1
    <3>4. j = 0 \/ j = 1 \/ j = 2  OBVIOUS
    <3> QED  BY <3>1, <3>2, <3>3, <3>4
  <2>7. \A j \in 0 .. 3 : Behind(m, j) \in Seq(Nat)
    <3>1. c \in Seq(Nat)  OBVIOUS
    <3> QED  BY <2>1, <2>2, <2>3, <2>5, <3>1
  <2>8. Fields(m.id, Length(m)) = [k \in 1 .. 3 |-> Len(m.args[k])]  BY <1>5, <2>4
  <2> QED  BY <1>5, <2>1, <2>6, <2>7, <2>8
<1>6. ASSUME NEW a \in Seq(Nat), m.args = <<a>>,
             \/ m.id = HAVE_PIECE /\ Len(a) = W
             \/ m.id = BITFIELD /\ Len(a) > 0
      PROVE  /\ Len(m.args) = 1 /\ Body(m) = Behind(m, 0) /\ Behind(m, 1) = <<>>
             /\ \A j \in 0 .. 1 : Behind(m, j) \in Seq(Nat)
             /\ \A j \in 0 .. 0 :
                  /\ m.args[j + 1] \in Seq(Nat) /\ Len(m.args[j + 1]) \in Nat \ {0}
                  /\ Behind(m, j) = m.args[j + 1] \o Behind(m, j + 1)
             /\ Fields(m.id, Length(m)) = [k \in 1 .. 1 |-> Len(m.args[k])]
  <2>1. /\ Len(m.args) = 1 /\ m.args[1] = a /\ Body(m) = a
        /\ Fields(m.id, Length(m)) = <<Len(a)>> /\ Len(a) \in Nat \ {0}
    BY <1>2, <1>6
  <2> QED  BY <1>4, <2>1
<1>7. ASSUME NEW a \in Seq(Nat), NEW b \in Seq(Nat), NEW c \in Seq(Nat),
             m.args = <<a, b, c>>, Len(a) = W, Len(b) = W,
             \/ m.id \in {REQUEST, CANCEL} /\ Len(c) = W
             \/ m.id = PIECE /\ Len(c) > 0
      PROVE  /\ Len(m.args) = 3 /\ Body(m) = Behind(m, 0) /\ Behind(m, 3) = <<>>
             /\ \A j \in 0 .. 3 : Behind(m, j) \in Seq(Nat)
             /\ \A j \in 0 .. 2 :
                  /\ m.args[j + 1] \in Seq(Nat) /\ Len(m.args[j + 1]) \in Nat \ {0}
                  /\ Behind(m, j) = m.args[j + 1] \o Behind(m, j + 1)
             /\ Fields(m.id, Length(m)) = [k \in 1 .. 3 |-> Len(m.args[k])]
  <2>1. /\ Len(m.args) = 3 /\ m.args[1] = a /\ m.args[2] = b /\ m.args[3] = c
        /\ Body(m) = a \o (b \o c)
        /\ Fields(m.id, Length(m)) = <<Len(a), Len(b), Len(c)>>
        /\ Len(a) \in Nat \ {0} /\ Len(b) \in Nat \ {0} /\ Len(c) \in Nat \ {0}
    BY <1>3, <1>7
  <2> QED  BY <1>5, <2>1
<1>8. \/ m.id \in {UNCHOKE, INTERESTED} /\ m.args = <<>>
      \/ \E a \in Seq(Nat) :
           /\ m.args = <<a>>
           /\ \/ m.id = HAVE_PIECE /\ Len(a) = W
              \/ m.id = BITFIELD /\ Len(a) > 0
      \/ \E a, b, c \in Seq(Nat) :
           /\ m.args = <<a, b, c>> /\ Len(a) = W /\ Len(b) = W
           /\ \/ m.id \in {REQUEST, CANCEL} /\ Len(c) = W
              \/ m.id = PIECE /\ Len(c) > 0
  BY DEF Said
<1>9. CASE \E a \in Seq(Nat) :
           /\ m.args = <<a>>
           /\ \/ m.id = HAVE_PIECE /\ Len(a) = W
              \/ m.id = BITFIELD /\ Len(a) > 0
  <2>1. PICK a \in Seq(Nat) : /\ m.args = <<a>>
                              /\ \/ m.id = HAVE_PIECE /\ Len(a) = W
                                 \/ m.id = BITFIELD /\ Len(a) > 0
    BY <1>9
  <2>2. Len(m.args) = 1 /\ Len(m.args) - 1 = 0  BY <1>6, <2>1
  <2> QED  BY <1>6, <2>1, <2>2
<1>10. CASE \E a, b, c \in Seq(Nat) :
           /\ m.args = <<a, b, c>> /\ Len(a) = W /\ Len(b) = W
           /\ \/ m.id \in {REQUEST, CANCEL} /\ Len(c) = W
              \/ m.id = PIECE /\ Len(c) > 0
  <2>1. PICK a, b, c \in Seq(Nat) :
           /\ m.args = <<a, b, c>> /\ Len(a) = W /\ Len(b) = W
           /\ \/ m.id \in {REQUEST, CANCEL} /\ Len(c) = W
              \/ m.id = PIECE /\ Len(c) > 0
    BY <1>10
  <2>2. Len(m.args) = 3 /\ Len(m.args) - 1 = 2  BY <1>7, <2>1
  <2> QED  BY <1>7, <2>1, <2>2
<1> QED  BY <1>1, <1>8, <1>9, <1>10

\* Their set.
SaidMessages == {m \in MessageType : Said(m)}

\* The bytes of a message: its length, its id, its fields.
LEMMA EncodeForm ==
  ASSUME NEW m, Said(m)
  PROVE  /\ Length(m) \in Nat \ {0} /\ Header(m) \in Seq(Nat) /\ Header(m) # <<>>
         /\ Encode(m) \in Seq(Nat) /\ Encode(m) = Header(m) \o Behind(m, 0)
         /\ Encode(m) # <<>>
         /\ Number(Length(m)) \in Seq(Nat) /\ Len(Number(Length(m))) = W
         /\ <<m.id>> \in Seq(Nat) /\ Behind(m, 0) \in Seq(Nat)
         /\ Encode(m) = Number(Length(m)) \o (<<m.id>> \o Behind(m, 0))
<1>0. W \in Nat /\ W > 0  BY WireAssumption
<1>1. Body(m) = Behind(m, 0) /\ Behind(m, 0) \in Seq(Nat)
  <2>1. Len(m.args) \in Nat /\ Body(m) = Behind(m, 0)  BY Shape
  <2>2. 0 \in 0 .. Len(m.args)  BY <2>1
  <2> QED  BY <2>1, <2>2, Shape
<1>2. Length(m) \in Nat \ {0}  BY <1>1, LenProperties DEF Length
<1> DEFINE nr == Number(Length(m))
<1>3. nr \in Seq(Nat) /\ Len(nr) = W  BY <1>2, ValueOfNumber
<1>4. m.id \in Nat  BY DEF Said, MessageType
<1>5. <<m.id>> \in Seq(Nat) /\ Len(<<m.id>>) = 1  BY <1>4
<1>6. Header(m) = nr \o <<m.id>>  BY DEF Header, Length
<1> HIDE DEF nr
<1>7. Header(m) \in Seq(Nat) /\ Len(Header(m)) = W + 1
  BY <1>3, <1>5, <1>6, ConcatProperties
<1>8. Header(m) # <<>>  BY <1>0, <1>7, EmptySeq
<1>9. Encode(m) = Header(m) \o Behind(m, 0)  BY <1>1 DEF Encode
<1>10. Encode(m) \in Seq(Nat) /\ Encode(m) # <<>>
  BY <1>1, <1>7, <1>8, <1>9, ConcatProperties, ConcatEqualIffEmpty
<1>11. Encode(m) = nr \o (<<m.id>> \o Behind(m, 0))
  <2>1. Regroups(nr, <<m.id>>, Behind(m, 0))  BY <1>1, <1>3, <1>5, Associative
  <2> QED  BY <1>6, <1>9, <2>1 DEF Regroups
<1> QED  BY <1>1, <1>2, <1>3, <1>5, <1>7, <1>8, <1>9, <1>10, <1>11 DEF nr

\* s is what the messages of ms behind the first h are on the wire.
Carries(s, ms, h) ==
  \E r \in [h .. Len(ms) -> Seq(Nat)] :
    /\ r[h] = s /\ r[Len(ms)] = <<>>
    /\ \A k \in h + 1 .. Len(ms) : r[k - 1] = Encode(ms[k]) \o r[k]

\* Behind the last message nothing is on the wire.
LEMMA CarriesEnd ==
  ASSUME NEW ms \in Seq(SaidMessages), NEW s, Carries(s, ms, Len(ms))
  PROVE  s = <<>>
  BY DEF Carries

\* The next message on the wire is the first that is not read.
LEMMA CarriesNext ==
  ASSUME NEW ms \in Seq(SaidMessages), NEW h \in 0 .. Len(ms), NEW s, Carries(s, ms, h)
  PROVE  /\ h = Len(ms) => s = <<>>
         /\ h < Len(ms) => \E s2 \in Seq(Nat) : /\ s = Encode(ms[h + 1]) \o s2
                                               /\ Carries(s2, ms, h + 1)
<1>1. Len(ms) \in Nat  BY LenProperties
<1>2. PICK r \in [h .. Len(ms) -> Seq(Nat)] :
        /\ r[h] = s /\ r[Len(ms)] = <<>>
        /\ \A k \in h + 1 .. Len(ms) : r[k - 1] = Encode(ms[k]) \o r[k]
  BY DEF Carries
<1>3. ASSUME h < Len(ms)
      PROVE  \E s2 \in Seq(Nat) : s = Encode(ms[h + 1]) \o s2 /\ Carries(s2, ms, h + 1)
  <2>1. h + 1 \in h + 1 .. Len(ms) /\ (h + 1) - 1 = h /\ h + 1 \in h .. Len(ms)
    BY <1>1, <1>3
  <2>2. s = Encode(ms[h + 1]) \o r[h + 1] /\ r[h + 1] \in Seq(Nat)  BY <1>2, <2>1
  <2> DEFINE q == [k \in h + 1 .. Len(ms) |-> r[k]]
  <2>3. q \in [h + 1 .. Len(ms) -> Seq(Nat)]  BY <1>1, <1>2
  <2>4. q[h + 1] = r[h + 1] /\ q[Len(ms)] = <<>>  BY <1>1, <1>2, <1>3, <2>1
  <2>5. ASSUME NEW k \in (h + 1) + 1 .. Len(ms) PROVE q[k - 1] = Encode(ms[k]) \o q[k]
    <3>1. k \in h + 1 .. Len(ms) /\ k - 1 \in h + 1 .. Len(ms)  BY <1>1
    <3> QED  BY <1>2, <3>1
  <2> HIDE DEF q
  <2>6. Carries(r[h + 1], ms, h + 1)  BY <2>3, <2>4, <2>5 DEF Carries
  <2> QED  BY <2>2, <2>6
<1> QED  BY <1>2, <1>3

\* One more message at the end of the wire.
LEMMA CarriesAppend ==
  ASSUME NEW ms \in Seq(SaidMessages), NEW h \in 0 .. Len(ms), NEW s \in Seq(Nat),
         NEW m \in SaidMessages, Carries(s, ms, h)
  PROVE  Carries(s \o Encode(m), Append(ms, m), h)
<1> DEFINE n == Len(ms)  e == Encode(m)  ms2 == Append(ms, m)
<1>1. n \in Nat  BY LenProperties
<1>2. PICK r \in [h .. n -> Seq(Nat)] :
        /\ r[h] = s /\ r[n] = <<>>
        /\ \A k \in h + 1 .. n : r[k - 1] = Encode(ms[k]) \o r[k]
  BY DEF Carries
<1>3. /\ Len(ms2) = n + 1 /\ ms2[n + 1] = m
      /\ \A k \in 1 .. n : ms2[k] = ms[k]
  BY AppendProperties
<1>4. e \in Seq(Nat)  BY EncodeForm DEF SaidMessages
<1>5. \A k \in 1 .. n : Encode(ms[k]) \in Seq(Nat)
  <2> TAKE k \in 1 .. n
  <2>1. ms[k] \in SaidMessages  BY ElementOfSeq
  <2> QED  BY <2>1, EncodeForm DEF SaidMessages
<1> HIDE DEF n, e, ms2
<1> DEFINE q == [k \in h .. n + 1 |-> IF k = n + 1 THEN <<>> ELSE r[k] \o e]
<1>6. q \in [h .. n + 1 -> Seq(Nat)]
  <2>1. ASSUME NEW k \in h .. n + 1
        PROVE  (IF k = n + 1 THEN <<>> ELSE r[k] \o e) \in Seq(Nat)
    <3>1. CASE k = n + 1  BY <3>1, EmptySeq
    <3>2. CASE k # n + 1
      <4>1. k \in h .. n  BY <1>1, <3>2
      <4>2. r[k] \in Seq(Nat)  BY <1>2, <4>1
      <4> QED  BY <1>4, <3>2, <4>2, ConcatProperties
    <3> QED  BY <3>1, <3>2
  <2> QED  BY <2>1
<1>7. h \in h .. n + 1 /\ h # n + 1 /\ n + 1 \in h .. n + 1  BY <1>1 DEF n
<1>8. q[h] = s \o e /\ q[n + 1] = <<>>  BY <1>2, <1>7
<1>9. ASSUME NEW k \in h + 1 .. n + 1 PROVE q[k - 1] = Encode(ms2[k]) \o q[k]
  <2>1. CASE k = n + 1
    <3>1. k - 1 = n /\ n \in h .. n + 1 /\ n # n + 1  BY <1>1, <2>1
    <3>2. q[k - 1] = r[n] \o e /\ q[k] = <<>>
      <4>1. q[n] = r[n] \o e  BY <3>1
      <4> QED  BY <1>8, <2>1, <3>1, <4>1
    <3>3. r[n] \o e = e /\ e \o <<>> = e  BY <1>2, <1>4, ConcatEmptySeq
    <3>4. Encode(ms2[k]) = e  BY <1>3, <2>1 DEF e
    <3> QED  BY <3>2, <3>3, <3>4
  <2>2. CASE k # n + 1
    <3>1. k \in h + 1 .. n /\ k - 1 \in h .. n + 1 /\ k - 1 # n + 1 /\ k \in h .. n
          /\ k \in h .. n + 1 /\ k \in 1 .. n
      BY <1>1, <2>2 DEF n
    <3>2. q[k - 1] = r[k - 1] \o e /\ q[k] = r[k] \o e  BY <2>2, <3>1
    <3>3. r[k - 1] = Encode(ms[k]) \o r[k] /\ r[k] \in Seq(Nat)  BY <1>2, <3>1
    <3>4. Regroups(Encode(ms[k]), r[k], e)
      <4>1. Encode(ms[k]) \in Seq(Nat) /\ r[k] \in Seq(Nat)  BY <1>5, <3>1, <3>3
      <4> QED  BY <1>4, <4>1, Associative
    <3>5. q[k - 1] = Encode(ms[k]) \o (r[k] \o e)  BY <3>2, <3>3, <3>4 DEF Regroups
    <3> QED  BY <1>3, <3>1, <3>2, <3>5
  <2> QED  BY <2>1, <2>2
<1> HIDE DEF q
<1>10. Carries(s \o e, ms2, h)  BY <1>3, <1>6, <1>8, <1>9 DEF Carries
<1> QED  BY <1>10 DEF e, ms2
-----------------------------------------------------------------------------
\* Where the reader is, when s is what it has read of a field and all that is to come,
\* of the messages ms: at a length, at an id, or behind the first j fields of a message.
AtLen(s, ms) ==
  /\ at = "len" /\ Len(got) < W
  /\ Carries(s, ms, Len(heard))

AtId(s, ms) ==
  /\ at = "id" /\ got = <<>>
  /\ LET h == Len(heard) + 1
     IN  /\ h <= Len(ms)
         /\ len = Length(ms[h])
         /\ \E s2 \in Seq(Nat) : /\ s = <<ms[h].id>> \o (Behind(ms[h], 0) \o s2)
                               /\ Carries(s2, ms, h)

\* q are the lengths of the fields behind the first j.
Sizes(q, args, j) ==
  Len(q) = Len(args) - j /\ \A k \in 1 .. Len(args) - j : q[k] = Len(args[j + k])

AtArg(s, ms, j) ==
  LET h == Len(heard) + 1
  IN  /\ h <= Len(ms)
      /\ j \in 0 .. Len(ms[h].args) - 1
      /\ msg = Message(ms[h].id, SubSeq(ms[h].args, 1, j))
      /\ needs \in Seq(Nat) /\ Sizes(needs, ms[h].args, j)
      /\ Len(got) < Len(ms[h].args[j + 1])
      /\ \E s2 \in Seq(Nat) : s = Behind(ms[h], j) \o s2 /\ Carries(s2, ms, h)

AtArgs(s, ms) == at = "args" /\ \E j \in Nat : AtArg(s, ms, j)

\* What was handled is the first of ms.
HeardOf(ms) ==
  /\ heard \in Seq(SaidMessages) /\ Len(heard) <= Len(ms)
  /\ \A k \in 1 .. Len(heard) : heard[k] = ms[k]

ReaderAt(s, ms) == (AtLen(s, ms) \/ AtId(s, ms) \/ AtArgs(s, ms)) /\ HeardOf(ms)

\* A message that was sent is handled next.
LEMMA HandleNext ==
  ASSUME NEW ms \in Seq(SaidMessages), HeardOf(ms), Len(heard) + 1 <= Len(ms),
         heard' = Append(heard, ms[Len(heard) + 1])
  PROVE  HeardOf(ms)' /\ Len(heard') = Len(heard) + 1
<1> DEFINE n == Len(heard)  m == ms[n + 1]
<1>1. n \in Nat /\ Len(ms) \in Nat /\ heard \in Seq(SaidMessages)
  BY LenProperties DEF HeardOf
<1>2. n + 1 \in 1 .. Len(ms)  BY <1>1
<1>3. m \in SaidMessages  BY <1>2, ElementOfSeq
<1>4. /\ heard' \in Seq(SaidMessages) /\ Len(heard') = n + 1 /\ heard'[n + 1] = m
      /\ \A k \in 1 .. n : heard'[k] = heard[k]
  <2> HIDE DEF m, n
  <2>1. heard' = Append(heard, m)  BY DEF m, n
  <2> QED  BY <1>1, <1>3, <2>1, AppendProperties DEF n
<1>5. ASSUME NEW k \in 1 .. n + 1 PROVE heard'[k] = ms[k]
  <2>1. CASE k = n + 1  BY <1>4, <2>1
  <2>2. CASE k # n + 1
    <3>1. k \in 1 .. n  BY <1>1, <2>2
    <3> QED  BY <1>4, <3>1 DEF HeardOf
  <2> QED  BY <2>1, <2>2
<1> QED  BY <1>4, <1>5 DEF HeardOf

\* Between two messages nothing of the next has been read.
LEMMA BetweenMessages ==
  ASSUME NEW s, NEW ms, at' = "len", got' = <<>>, Carries(s, ms, Len(heard'))
  PROVE  AtLen(s, ms)'
<1>1. W > 0 /\ Len(got') = 0  BY WireAssumption, EmptySeq
<1>2. Len(got') < W  BY <1>1, WireAssumption
<1> QED  BY <1>2 DEF AtLen

\* The sizes that a reader has before it, behind the first j fields of m.
LEMMA NeedsNext ==
  ASSUME NEW m, Said(m), NEW j \in 0 .. Len(m.args) - 1, NEW q \in Seq(Nat),
         Sizes(q, m.args, j)
  PROVE  /\ Len(q) = Len(m.args) - j /\ Head(q) = Len(m.args[j + 1])
         /\ Tail(q) \in Seq(Nat) /\ Sizes(Tail(q), m.args, j + 1)
<1>0. Len(m.args) \in Nat  BY Shape
<1>1. Len(m.args) - j \in Nat \ {0}  BY <1>0
<1>2. Len(q) = Len(m.args) - j /\ \A k \in 1 .. Len(m.args) - j : q[k] = Len(m.args[j + k])
  BY DEF Sizes
<1>3. q # <<>>
  <2>1. Len(q) # 0  BY <1>1, <1>2
  <2> QED  BY <2>1, EmptySeq
<1>4. Head(q) = q[1]  BY <1>3, HeadTailProperties
<1>5. Head(q) = Len(m.args[j + 1])
  <2>1. 1 \in 1 .. Len(m.args) - j  BY <1>1
  <2> QED  BY <1>2, <1>4, <2>1
<1>6. /\ Tail(q) \in Seq(Nat) /\ Len(Tail(q)) = Len(q) - 1
      /\ \A k \in 1 .. Len(q) - 1 : Tail(q)[k] = q[k + 1]
  BY <1>3, HeadTailProperties
<1>7. Len(q) - 1 = Len(m.args) - (j + 1)  BY <1>0, <1>2
<1>8. ASSUME NEW k \in 1 .. Len(m.args) - (j + 1)
      PROVE  Tail(q)[k] = Len(m.args[(j + 1) + k])
  <2>1. k + 1 \in 1 .. Len(m.args) - j /\ j + (k + 1) = (j + 1) + k  BY <1>0
  <2> QED  BY <1>2, <1>6, <1>7, <2>1
<1>9. Sizes(Tail(q), m.args, j + 1)  BY <1>6, <1>7, <1>8 DEF Sizes
<1> QED  BY <1>2, <1>5, <1>6, <1>9

\* The field that the reader is at is taken from the stream whole.
LEMMA TakeKeeps ==
  ASSUME NEW ms \in Seq(SaidMessages), NEW s1 \in Seq(Nat),
         NEW bytes \in Seq(Nat), ReaderAt(bytes \o s1, ms),
         Want > 0, Len(bytes) = Want, Take(bytes)
  PROVE  ReaderAt(s1, ms)'
<1> DEFINE n == Len(heard)  m == ms[n + 1]  s == bytes \o s1
<1>0. /\ W \in Nat /\ W > 0 /\ n \in Nat /\ Len(ms) \in Nat /\ n <= Len(ms)
      /\ n \in 0 .. Len(ms)
  <2>1. W \in Nat /\ W > 0 /\ n \in Nat /\ Len(ms) \in Nat /\ n <= Len(ms)
    BY WireAssumption, LenProperties DEF ReaderAt, HeardOf
  <2> QED  BY <2>1
<1>1. n + 1 <= Len(ms) => m \in SaidMessages /\ Said(m)
  <2>1. n + 1 <= Len(ms) => n + 1 \in 1 .. Len(ms)  BY <1>0
  <2> QED  BY <2>1, ElementOfSeq DEF SaidMessages
<1>s. ReaderAt(s, ms)  OBVIOUS
<1> HIDE DEF m, n, s
<1>2. CASE AtLen(s, ms)
  <2>0. Carries(s, ms, n)  BY <1>2 DEF AtLen, n
  <2>1. Len(bytes) = W /\ TakeLen(bytes)  BY <1>2 DEF AtLen, Want, Take
  <2>2. n < Len(ms)
    <3>1. SUFFICES ASSUME n = Len(ms) PROVE FALSE  BY <1>0
    <3>2. s = <<>>  BY <2>0, <3>1, CarriesEnd
    <3>3. bytes \o s1 = <<>>  BY <3>2 DEF s
    <3>4. bytes = <<>>  BY <3>3, EmptyParts, SMTT(20)
    <3> QED  BY <1>0, <2>1, <3>4, EmptySeq
  <2>3. PICK s2 \in Seq(Nat) : s = Encode(m) \o s2 /\ Carries(s2, ms, n + 1)
    <3>1. \E s2 \in Seq(Nat) : s = Encode(ms[n + 1]) \o s2 /\ Carries(s2, ms, n + 1)
      BY <1>0, <2>0, <2>2, CarriesNext
    <3> QED  BY <3>1 DEF m
  <2> DEFINE nr == Number(Length(m))  rest == <<m.id>> \o Behind(m, 0)
  <2>4. /\ nr \in Seq(Nat) /\ Len(nr) = W /\ <<m.id>> \in Seq(Nat)
        /\ Behind(m, 0) \in Seq(Nat) /\ Encode(m) = nr \o rest
        /\ Length(m) \in Nat \ {0}
    <3>1. n + 1 <= Len(ms)  BY <1>0, <2>2
    <3> QED  BY <1>1, <3>1, EncodeForm
  <2>5. rest \in Seq(Nat)  BY <2>4, ConcatProperties
  <2> HIDE DEF nr, rest
  <2>6. s = nr \o (rest \o s2) /\ rest \o s2 \in Seq(Nat)
    <3>1. rest \o s2 \in Seq(Nat)  BY <2>5, ConcatProperties
    <3>2. Regroups(nr, rest, s2)
      <4>1. nr \in Seq(Nat)  BY <2>4
      <4> QED  BY <2>5, <4>1, Associative
    <3> QED  BY <2>3, <2>4, <3>1, <3>2 DEF Regroups
  <2>7. bytes = nr /\ s1 = rest \o s2
    <3>1. bytes \o s1 = nr \o (rest \o s2)  BY <2>6 DEF s
    <3> QED  BY <2>1, <2>4, <2>6, <3>1, SameParts
  <2>8. Value(bytes) = Length(m)  BY <2>4, <2>7, ValueOfNumber DEF nr
  <2>9. at' = "id" /\ got' = <<>> /\ len' = Length(m) /\ UNCHANGED heard
    BY <2>1, <2>4, <2>8 DEF TakeLen, Goes
  <2>10. s1 = <<m.id>> \o (Behind(m, 0) \o s2)
    <3>1. Regroups(<<m.id>>, Behind(m, 0), s2)
      <4>1. <<m.id>> \in Seq(Nat) /\ Behind(m, 0) \in Seq(Nat) /\ s2 \in Seq(Nat)
        BY <2>4
      <4> QED  BY <4>1, Associative
    <3> QED  BY <2>7, <3>1 DEF rest, Regroups
  <2>11. AtId(s1, ms)'
    <3>1. n + 1 <= Len(ms) /\ Len(heard') = n  BY <1>0, <2>2, <2>9 DEF n
    <3> QED  BY <2>3, <2>9, <2>10, <3>1 DEF AtId, m, n
  <2>12. HeardOf(ms)'  BY <2>9 DEF ReaderAt, HeardOf
  <2> QED  BY <2>11, <2>12 DEF ReaderAt
<1>3. CASE AtId(s, ms)
  <2>1. Len(bytes) = 1 /\ TakeId(bytes[1]) /\ n + 1 <= Len(ms) /\ len = Length(m)
    BY <1>3 DEF AtId, Want, Take, m, n
  <2>2. PICK s2 \in Seq(Nat) : /\ s = <<m.id>> \o (Behind(m, 0) \o s2)
                               /\ Carries(s2, ms, n + 1)
    BY <1>3 DEF AtId, m, n
  <2>3. /\ <<m.id>> \in Seq(Nat) /\ Behind(m, 0) \in Seq(Nat) /\ Said(m)
        /\ m \in MessageType
    BY <1>1, <2>1, EncodeForm DEF SaidMessages
  <2>4. Behind(m, 0) \o s2 \in Seq(Nat)  BY <2>3, ConcatProperties
  <2>5. bytes = <<m.id>> /\ s1 = Behind(m, 0) \o s2
    <3>1. bytes \o s1 = <<m.id>> \o (Behind(m, 0) \o s2) /\ Len(<<m.id>>) = 1
      BY <2>2 DEF s
    <3> QED  BY <2>1, <2>3, <2>4, <3>1, SameParts
  <2>6. bytes[1] = m.id  BY <2>5
  <2>7. /\ Len(m.args) \in Nat /\ Behind(m, Len(m.args)) = <<>>
        /\ \A j \in 0 .. Len(m.args) - 1 :
             m.args[j + 1] \in Seq(Nat) /\ Len(m.args[j + 1]) \in Nat \ {0}
        /\ Fields(m.id, Length(m)) = [k \in 1 .. Len(m.args) |-> Len(m.args[k])]
    BY <2>3, Shape
  <2>8. CASE Len(m.args) = 0
    <3>1. Fields(m.id, len) = <<>>
      <4>1. 1 .. 0 = {}  OBVIOUS
      <4>2. Fields(m.id, Length(m)) = [k \in {} |-> Len(m.args[k])]  BY <2>7, <2>8, <4>1
      <4> QED  BY <2>1, <4>2
    <3>2. Handle(Message(m.id, <<>>))  BY <2>1, <2>6, <3>1 DEF TakeId
    <3>3. m = Message(m.id, <<>>)
      <4>1. m.args = <<>>  BY <2>3, <2>8, EmptySeq DEF MessageType
      <4> QED  BY <2>3, <4>1 DEF MessageType, Message
    <3>4. heard' = Append(heard, m) /\ at' = "len" /\ got' = <<>>
      BY <3>2, <3>3 DEF Handle, Goes
    <3>5. HeardOf(ms)' /\ Len(heard') = n + 1
      BY <2>1, <3>4, HandleNext DEF ReaderAt, m, n
    <3>6. s1 = s2  BY <2>5, <2>7, <2>8, ConcatEmptySeq
    <3>7. AtLen(s1, ms)'  BY <2>2, <3>4, <3>5, <3>6, BetweenMessages
    <3> QED  BY <3>5, <3>7 DEF ReaderAt
  <2>9. CASE Len(m.args) # 0
    <3>0. 0 \in 0 .. Len(m.args) - 1 /\ 0 + 1 = 1 /\ 1 \in 1 .. Len(m.args)
      BY <2>7, <2>9
    <3>1. Fields(m.id, len) # <<>>
      <4>1. DOMAIN Fields(m.id, len) # {}  BY <2>1, <2>7, <3>0
      <4> QED  BY <4>1
    <3>2. /\ at' = "args" /\ got' = <<>> /\ needs' = Fields(m.id, Length(m))
          /\ msg' = Message(m.id, <<>>) /\ UNCHANGED heard
      BY <2>1, <2>6, <3>1 DEF TakeId, Goes
    <3>3. SubSeq(m.args, 1, 0) = <<>>  BY SubSeqEmpty
    <3>4. needs' \in Seq(Nat) /\ Sizes(needs', m.args, 0)
      <4>1. Len(m.args) - 0 = Len(m.args) /\ \A k \in 1 .. Len(m.args) : 0 + k = k
        BY <2>7
      <4>2. ASSUME NEW k \in 1 .. Len(m.args) PROVE Len(m.args[k]) \in Nat
        <5>1. k - 1 \in 0 .. Len(m.args) - 1 /\ (k - 1) + 1 = k  BY <2>7
        <5> QED  BY <2>7, <5>1
      <4>3. needs' \in Seq(Nat) /\ Len(needs') = Len(m.args)  BY <2>7, <3>2, <4>2
      <4>4. \A k \in 1 .. Len(m.args) : needs'[k] = Len(m.args[k])  BY <2>7, <3>2
      <4> QED  BY <4>1, <4>3, <4>4 DEF Sizes
    <3>5. Len(got') < Len(m.args[0 + 1])
      <4>1. Len(got') = 0 /\ Len(m.args[0 + 1]) \in Nat \ {0}  BY <2>7, <3>0, <3>2, EmptySeq
      <4> QED  BY <4>1
    <3>6. AtArg(s1, ms, 0)'
      BY <2>1, <2>2, <2>5, <3>0, <3>2, <3>3, <3>4, <3>5 DEF AtArg, m, n
    <3>7. HeardOf(ms)'  BY <3>2 DEF ReaderAt, HeardOf
    <3> QED  BY <3>2, <3>6, <3>7 DEF ReaderAt, AtArgs
  <2> QED  BY <2>8, <2>9
<1>4. CASE AtArgs(s, ms)
  <2>1. PICK j \in Nat : AtArg(s, ms, j)  BY <1>4 DEF AtArgs
  <2>2. /\ n + 1 <= Len(ms) /\ j \in 0 .. Len(m.args) - 1
        /\ msg = Message(m.id, SubSeq(m.args, 1, j))
        /\ needs \in Seq(Nat) /\ Sizes(needs, m.args, j)
    BY <2>1 DEF AtArg, m, n
  <2>3. PICK s2 \in Seq(Nat) : s = Behind(m, j) \o s2 /\ Carries(s2, ms, n + 1)
    BY <2>1 DEF AtArg, m, n
  <2>4. Said(m) /\ m \in MessageType  BY <1>1, <2>2 DEF SaidMessages
  <2>5. /\ Len(m.args) \in Nat /\ Behind(m, Len(m.args)) = <<>>
        /\ \A k \in 0 .. Len(m.args) : Behind(m, k) \in Seq(Nat)
        /\ \A k \in 0 .. Len(m.args) - 1 :
             /\ m.args[k + 1] \in Seq(Nat) /\ Len(m.args[k + 1]) \in Nat \ {0}
             /\ Behind(m, k) = m.args[k + 1] \o Behind(m, k + 1)
    BY <2>4, Shape
  <2> DEFINE a == m.args[j + 1]  b == Behind(m, j + 1)
  <2>6. /\ j + 1 \in 0 .. Len(m.args) /\ a \in Seq(Nat) /\ b \in Seq(Nat)
        /\ Behind(m, j) = a \o b
    <3>1. j + 1 \in 0 .. Len(m.args)  BY <2>2, <2>5
    <3> QED  BY <2>2, <2>5, <3>1
  <2> HIDE DEF a, b
  <2>7. /\ Len(needs) = Len(m.args) - j /\ Head(needs) = Len(a)
        /\ Tail(needs) \in Seq(Nat) /\ Sizes(Tail(needs), m.args, j + 1)
    BY <2>2, <2>4, NeedsNext DEF a
  <2>8. Len(bytes) = Len(a) /\ TakeArg(bytes)
    BY <1>4, <2>7 DEF AtArgs, Want, Take
  <2>9. bytes = a /\ s1 = b \o s2
    <3>1. s = a \o (b \o s2) /\ b \o s2 \in Seq(Nat)
      <4>1. Regroups(a, b, s2)  BY <2>6, Associative
      <4>2. b \o s2 \in Seq(Nat)  BY <2>6, ConcatProperties
      <4> QED  BY <2>3, <2>6, <4>1, <4>2 DEF Regroups
    <3>2. bytes \o s1 = a \o (b \o s2)  BY <3>1 DEF s
    <3> QED  BY <2>6, <2>8, <3>1, <3>2, SameParts
  <2>10. Append(msg.args, bytes) = SubSeq(m.args, 1, j + 1) /\ msg.id = m.id
    <3>1. msg.args = SubSeq(m.args, 1, j) /\ msg.id = m.id  BY <2>2 DEF Message
    <3>2. m.args \in Seq(Seq(Nat))  BY <2>4 DEF MessageType
    <3>3. 1 \in 1 .. Len(m.args) /\ j + 1 \in 1 .. Len(m.args) /\ (j + 1) - 1 = j
      BY <2>2, <2>5
    <3>4. SubSeq(m.args, 1, j + 1) = SubSeq(m.args, 1, j) \o <<a>>
      BY <3>2, <3>3, SubSeqRecursiveSecond DEF a
    <3>5. SubSeq(m.args, 1, j) \in Seq(Seq(Nat))
      <4>1. \A i \in 1 .. j : m.args[i] \in Seq(Nat)
        <5>1. \A i \in 1 .. j : i \in 1 .. Len(m.args)  BY <2>2, <2>5
        <5> QED  BY <3>2, <5>1, ElementOfSeq
      <4> QED  BY <4>1, SubSeqProperties
    <3>6. Append(SubSeq(m.args, 1, j), a) = SubSeq(m.args, 1, j) \o <<a>>
      BY <2>6, <3>5, AppendIsConcat
    <3> QED  BY <2>9, <3>1, <3>4, <3>6
  <2>11. CASE Len(needs) = 1
    <3>1. j + 1 = Len(m.args)
      <4>1. Len(m.args) - j = 1  BY <2>7, <2>11
      <4>2. Len(m.args) \in Nat /\ j \in 0 .. Len(m.args) - 1  BY <2>2, <2>5
      <4> QED  BY <4>1, <4>2
    <3>2. m.args \in Seq(Seq(Nat))  BY <2>4 DEF MessageType
    <3>3. Message(msg.id, Append(msg.args, bytes)) = m
      <4>1. Append(msg.args, bytes) = m.args  BY <2>10, <3>1, <3>2, SubSeqFull
      <4> QED  BY <2>4, <2>10, <4>1 DEF Message, MessageType
    <3>4. heard' = Append(heard, m) /\ at' = "len" /\ got' = <<>>
      BY <2>8, <2>11, <3>3 DEF TakeArg, Handle, Goes
    <3>5. HeardOf(ms)' /\ Len(heard') = n + 1
      BY <2>2, <3>4, HandleNext DEF ReaderAt, m, n
    <3>6. s1 = s2
      <4>1. b = <<>>  BY <2>5, <3>1 DEF b
      <4> QED  BY <2>9, <4>1, ConcatEmptySeq
    <3>7. AtLen(s1, ms)'  BY <2>3, <3>4, <3>5, <3>6, BetweenMessages
    <3> QED  BY <3>5, <3>7 DEF ReaderAt
  <2>12. CASE Len(needs) # 1
    <3>1. j + 1 \in 0 .. Len(m.args) - 1
      <4>1. Len(m.args) - j # 1  BY <2>7, <2>12
      <4>2. Len(m.args) \in Nat /\ j \in 0 .. Len(m.args) - 1  BY <2>2, <2>5
      <4> QED  BY <4>1, <4>2
    <3>2. /\ at' = "args" /\ got' = <<>> /\ needs' = Tail(needs)
          /\ msg' = Message(m.id, SubSeq(m.args, 1, j + 1)) /\ UNCHANGED heard
      BY <2>8, <2>10, <2>12 DEF TakeArg, Goes
    <3>3. Len(got') < Len(m.args[(j + 1) + 1])
      <4>1. Len(got') = 0 /\ Len(m.args[(j + 1) + 1]) \in Nat \ {0}
        BY <2>5, <3>1, <3>2, EmptySeq
      <4> QED  BY <4>1
    <3>4. AtArg(s1, ms, j + 1)'
      BY <2>2, <2>3, <2>7, <2>9, <3>1, <3>2, <3>3 DEF AtArg, b, m, n
    <3>5. HeardOf(ms)'  BY <3>2 DEF ReaderAt, HeardOf
    <3>6. j + 1 \in Nat  OBVIOUS
    <3> QED  BY <3>2, <3>4, <3>5, <3>6 DEF ReaderAt, AtArgs
  <2> QED  BY <2>11, <2>12
<1> QED  BY <1>s, <1>2, <1>3, <1>4 DEF ReaderAt

\* The reader has yet to get a byte of the field it is at.
LEMMA WantsMore ==
  ASSUME NEW ms \in Seq(SaidMessages), NEW s, ReaderAt(s, ms)
  PROVE  /\ Want \in Nat \ {0} /\ Len(got) < Want /\ Want > 0
         /\ at \in {"len", "id", "args"} /\ (at = "id" => got = <<>> /\ Want = 1)
<1>1. W \in Nat /\ W > 0  BY WireAssumption
<1>2. CASE AtLen(s, ms)  BY <1>1, <1>2 DEF AtLen, Want
<1>3. CASE AtId(s, ms)
  <2>1. Len(got) = 0  BY <1>3, EmptySeq DEF AtId
  <2> QED  BY <1>3, <2>1 DEF AtId, Want
<1>4. CASE AtArgs(s, ms)
  <2> DEFINE h == Len(heard) + 1  m == ms[h]
  <2>1. PICK j \in Nat : AtArg(s, ms, j)  BY <1>4 DEF AtArgs
  <2>2. h \in 1 .. Len(ms)
    <3>1. Len(heard) \in Nat /\ Len(ms) \in Nat /\ h <= Len(ms)
      BY <2>1, LenProperties DEF ReaderAt, HeardOf, AtArg
    <3> QED  BY <3>1
  <2>3. Said(m)  BY <2>2, ElementOfSeq DEF SaidMessages
  <2>4. /\ j \in 0 .. Len(m.args) - 1 /\ Len(got) < Len(m.args[j + 1])
        /\ needs \in Seq(Nat) /\ Sizes(needs, m.args, j)
    BY <2>1 DEF AtArg
  <2> HIDE DEF m
  <2>5. Head(needs) = Len(m.args[j + 1])  BY <2>3, <2>4, NeedsNext
  <2>6. Len(m.args[j + 1]) \in Nat \ {0}  BY <2>3, <2>4, Shape
  <2>7. Want = Head(needs) /\ at = "args"  BY <1>4 DEF AtArgs, Want
  <2> QED  BY <2>4, <2>5, <2>6, <2>7
<1> QED  BY <1>2, <1>3, <1>4 DEF ReaderAt

\* A part of the field is read.
LEMMA PartKeeps ==
  ASSUME NEW ms \in Seq(SaidMessages), NEW s, ReaderAt(s, ms), at # "id",
         Len(got') < Want, UNCHANGED <<at, len, needs, msg, heard>>
  PROVE  ReaderAt(s, ms)'
<1>1. CASE AtLen(s, ms)  BY <1>1 DEF ReaderAt, HeardOf, AtLen, Want
<1>2. CASE AtArgs(s, ms)
  <2> DEFINE h == Len(heard) + 1  m == ms[h]
  <2>1. PICK j \in Nat : AtArg(s, ms, j)  BY <1>2 DEF AtArgs
  <2>2. h \in 1 .. Len(ms)
    <3>1. Len(heard) \in Nat /\ Len(ms) \in Nat /\ h <= Len(ms)
      BY <2>1, LenProperties DEF ReaderAt, HeardOf, AtArg
    <3> QED  BY <3>1
  <2>3. Said(m)  BY <2>2, ElementOfSeq DEF SaidMessages
  <2>4. /\ j \in 0 .. Len(m.args) - 1
        /\ needs \in Seq(Nat) /\ Sizes(needs, m.args, j)
    BY <2>1 DEF AtArg
  <2>5. Want = Len(m.args[j + 1])
    <3> HIDE DEF m
    <3>1. Head(needs) = Len(m.args[j + 1])  BY <2>3, <2>4, NeedsNext
    <3> QED  BY <1>2, <3>1 DEF AtArgs, Want
  <2>6. AtArg(s, ms, j)'  BY <2>1, <2>5 DEF AtArg
  <2> QED  BY <1>2, <2>6 DEF ReaderAt, HeardOf, AtArgs
<1>3. CASE AtId(s, ms)  BY <1>3 DEF AtId
<1> QED  BY <1>1, <1>2, <1>3 DEF ReaderAt

\* A string is what its first n elements and the others are.
LEMMA Halves ==
  ASSUME NEW q \in Seq(Nat), NEW n \in 0 .. Len(q)
  PROVE  /\ SubSeq(q, 1, n) \in Seq(Nat) /\ Len(SubSeq(q, 1, n)) = n
         /\ SubSeq(q, n + 1, Len(q)) \in Seq(Nat)
         /\ Len(SubSeq(q, n + 1, Len(q))) = Len(q) - n
         /\ SubSeq(q, 1, n) \o SubSeq(q, n + 1, Len(q)) = q
<1>1. Len(q) \in Nat /\ n \in Nat /\ \A i \in 1 .. Len(q) : q[i] \in Nat
  BY LenProperties, ElementOfSeq
<1>2. SubSeq(q, 1, n) \in Seq(Nat) /\ Len(SubSeq(q, 1, n)) = n
  <2>1. \A i \in 1 .. n : q[i] \in Nat  BY <1>1
  <2>2. (IF 1 <= n THEN n - 1 + 1 ELSE 0) = n  BY <1>1
  <2> QED  BY <1>1, <2>1, <2>2, SubSeqProperties
<1>3. /\ SubSeq(q, n + 1, Len(q)) \in Seq(Nat)
      /\ Len(SubSeq(q, n + 1, Len(q))) = Len(q) - n
  <2>1. n + 1 \in Nat /\ \A i \in n + 1 .. Len(q) : q[i] \in Nat  BY <1>1
  <2>2. (IF n + 1 <= Len(q) THEN Len(q) - (n + 1) + 1 ELSE 0) = Len(q) - n  BY <1>1
  <2> QED  BY <1>1, <2>1, <2>2, SubSeqProperties
<1>4. SubSeq(q, 1, n) \o SubSeq(q, n + 1, Len(q)) = SubSeq(q, 1, Len(q))
  <2>1. 1 \in 1 .. Len(q) + 1 /\ n \in 1 - 1 .. Len(q) /\ Len(q) \in n .. Len(q)
    BY <1>1
  <2> QED  BY <2>1, ConcatAdjacentSubSeq
<1> QED  BY <1>2, <1>3, <1>4, SubSeqFull

\* What the reader has of a field, what is in the buffers, and rest.
Stream(rest) == got \o (wire \o rest)

\* What the reader receives is what was the first of the stream.
LEMMA ReceiveKeeps ==
  ASSUME NEW ms \in Seq(SaidMessages), got \in Seq(Nat), wire \in Seq(Nat),
         NEW rest \in Seq(Nat), ReaderAt(Stream(rest), ms), Receive
  PROVE  got' \in Seq(Nat) /\ ReaderAt(Stream(rest), ms)'
<1> DEFINE n == Min2(Want - Len(got), Len(wire))  w1 == SubSeq(wire, 1, n)
           w2 == SubSeq(wire, n + 1, Len(wire))  bytes == got \o w1
<1>1. /\ Want \in Nat \ {0} /\ Len(got) < Want /\ Want > 0
      /\ at \in {"len", "id", "args"} /\ (at = "id" => got = <<>> /\ Want = 1)
  BY WantsMore
<1>2. /\ wire # <<>> /\ wire' = w2
      /\ IF Len(bytes) = Want THEN Take(bytes)
         ELSE got' = bytes /\ UNCHANGED <<at, len, needs, msg, heard>>
  BY DEF Receive
<1>3. Len(got) \in Nat /\ Len(wire) \in Nat \ {0}
  BY <1>2, EmptySeq, LenProperties
<1>4. n \in 1 .. Len(wire) /\ n \in 0 .. Len(wire) /\ Len(got) + n <= Want
  BY <1>1, <1>3 DEF Min2
<1> HIDE DEF n
<1>5. w1 \in Seq(Nat) /\ Len(w1) = n /\ w2 \in Seq(Nat) /\ wire = w1 \o w2
  BY <1>4, Halves
<1>6. bytes \in Seq(Nat) /\ Len(bytes) = Len(got) + n
  <2> HIDE DEF w1
  <2> QED  BY <1>5, ConcatProperties
<1>7. w2 \o rest \in Seq(Nat)
  <2> HIDE DEF w2
  <2> QED  BY <1>5, ConcatProperties
<1>8. Stream(rest) = bytes \o (w2 \o rest)
  <2> HIDE DEF w1, w2
  <2>1. w1 \in Seq(Nat) /\ w2 \in Seq(Nat)  BY <1>5
  <2>2. Regroups(w1, w2, rest)  BY <2>1, Associative
  <2>3. Regroups(got, w1, w2 \o rest)  BY <1>7, <2>1, Associative
  <2> QED  BY <1>5, <2>2, <2>3 DEF Stream, Regroups
<1> HIDE DEF w1, w2, bytes
<1>9. PICK b \in Seq(Nat), q \in Seq(Nat) : b = bytes /\ q = w2 \o rest
  BY <1>6, <1>7
<1>10. ReaderAt(b \o q, ms)  BY <1>8, <1>9
<1>11. CASE Len(b) = Want
  <2>1. Take(b)  BY <1>2, <1>9, <1>11
  <2>2. ReaderAt(q, ms)'  BY <1>1, <1>10, <1>11, <2>1, TakeKeeps
  <2>3. got' = <<>>
    BY <1>1, <2>1 DEF Take, TakeLen, TakeId, TakeArg, Handle, Goes
  <2>4. Stream(rest)' = q
    <3>1. wire' \o rest = q  BY <1>2, <1>9
    <3>2. <<>> \o q = q  BY ConcatEmptySeq
    <3> QED  BY <2>3, <3>1, <3>2 DEF Stream
  <2>5. ReaderAt(Stream(rest), ms)'  BY <2>2, <2>4
  <2> QED  BY <2>3, <2>5, EmptySeq
<1>12. CASE Len(b) # Want
  <2>1. got' = b /\ UNCHANGED <<at, len, needs, msg, heard>>  BY <1>2, <1>9, <1>12
  <2>2. Len(got') < Want
    <3>1. Len(b) = Len(got) + n /\ Len(got') = Len(b)  BY <1>6, <1>9, <2>1
    <3>2. Want \in Nat /\ Len(b) \in Nat /\ Len(b) <= Want /\ Len(b) # Want
      BY <1>1, <1>3, <1>4, <1>12, <3>1
    <3> QED  BY <3>1, <3>2
  <2>3. at # "id"
    <3>1. SUFFICES ASSUME at = "id" PROVE FALSE  OBVIOUS
    <3>2. Len(got) = 0 /\ Want = 1  BY <1>1, <3>1, EmptySeq
    <3> QED  BY <1>4, <1>6, <1>9, <1>12, <3>2
  <2>4. ReaderAt(b \o q, ms)'  BY <1>10, <2>1, <2>2, <2>3, PartKeeps
  <2>5. Stream(rest)' = b \o q  BY <1>2, <1>9, <2>1 DEF Stream
  <2>6. ReaderAt(Stream(rest), ms)'  BY <2>4, <2>5
  <2> QED  BY <2>1, <2>6
<1> QED  BY <1>11, <1>12

\* The last element of a sequence that was appended to, and the others.
LEMMA FrontLast ==
  ASSUME NEW S, NEW q \in Seq(S), NEW e \in S
  PROVE  Front(Append(q, e)) = q /\ Last(Append(q, e)) = e /\ Append(q, e) # <<>>
<1>1. Len(q) \in Nat  BY LenProperties
<1>2. /\ Append(q, e) # <<>> /\ Len(Append(q, e)) = Len(q) + 1
      /\ Append(q, e)[Len(q) + 1] = e
  BY AppendProperties
<1>3. Front(Append(q, e)) = SubSeq(q \o <<e>>, 1, Len(q))
  <2>1. (Len(q) + 1) - 1 = Len(q)  BY <1>1
  <2> QED  BY <1>2, <2>1, AppendIsConcat DEF Front
<1>4. SubSeq(q \o <<e>>, 1, Len(q)) = q
  <2>1. CASE Len(q) = 0
    <3>1. q = <<>>  BY <2>1, EmptySeq
    <3> QED  BY <2>1, <3>1, SubSeqEmpty
  <2>2. CASE Len(q) # 0
    <3>1. 1 \in 1 .. Len(q) /\ Len(q) \in 1 .. Len(q)  BY <1>1, <2>2
    <3>2. <<e>> \in Seq(S)  OBVIOUS
    <3>3. SubSeq(q \o <<e>>, 1, Len(q)) = SubSeq(q, 1, Len(q))
      BY <3>1, <3>2, SubSeqOfConcat1
    <3> QED  BY <3>3, SubSeqFull
  <2> QED  BY <2>1, <2>2
<1> QED  BY <1>2, <1>3, <1>4 DEF Last

\* h is what is handled of a message m that is cut short in its last field.
Torn(h, m) ==
  /\ h.id = m.id /\ h.args # <<>>
  /\ Front(h.args) = Front(m.args)
  /\ Last(h.args) # <<>> /\ IsPrefix(Last(h.args), Last(m.args))

\* The last message that was handled was cut short, the others were not.
LastTorn(ms) ==
  \E k \in Nat :
    /\ k + 1 <= Len(ms) /\ Len(heard) = k + 1 /\ DOMAIN heard = 1 .. k + 1
    /\ \A i \in 1 .. k : heard[i] = ms[i]
    /\ Torn(heard[k + 1], ms[k + 1])

\* What is handled of a field that the connection ends in.
LEMMA CutShort ==
  ASSUME NEW ms \in Seq(SaidMessages), got \in Seq(Nat), got # <<>>,
         NEW rest \in Seq(Nat), ReaderAt(got \o rest, ms), at = "args", TakeArg(got)
  PROVE  got' = <<>> /\ (HeardOf(ms)' \/ LastTorn(ms)')
<1> DEFINE n == Len(heard)  m == ms[n + 1]  s == got \o rest
<1>1. PICK j \in Nat : AtArg(s, ms, j)
  BY DEF ReaderAt, AtLen, AtId, AtArgs
<1>2. HeardOf(ms)  BY DEF ReaderAt
<1> HIDE DEF s, m, n
<1>3. /\ n + 1 <= Len(ms) /\ j \in 0 .. Len(m.args) - 1
      /\ msg = Message(m.id, SubSeq(m.args, 1, j))
      /\ needs \in Seq(Nat) /\ Sizes(needs, m.args, j) /\ Len(got) < Len(m.args[j + 1])
  BY <1>1 DEF AtArg, m, n
<1>4. PICK s2 \in Seq(Nat) : s = Behind(m, j) \o s2
  BY <1>1 DEF AtArg, m, n
<1>5. n \in Nat /\ Len(ms) \in Nat /\ n + 1 \in 1 .. Len(ms)
  <2>1. n \in Nat /\ Len(ms) \in Nat  BY <1>2, LenProperties DEF HeardOf, n
  <2> QED  BY <1>3, <2>1
<1>6. Said(m) /\ m \in MessageType  BY <1>5, ElementOfSeq DEF SaidMessages, m
<1> DEFINE a == m.args[j + 1]  b == Behind(m, j + 1)
<1>7. /\ Len(m.args) \in Nat /\ a \in Seq(Nat) /\ Len(a) \in Nat \ {0}
      /\ b \in Seq(Nat) /\ Behind(m, j) = a \o b
  <2>1. Len(m.args) \in Nat  BY <1>6, Shape
  <2>2. j + 1 \in 0 .. Len(m.args)  BY <1>3, <2>1
  <2> QED  BY <1>3, <1>6, <2>1, <2>2, Shape
<1> HIDE DEF a, b
<1>8. IsPrefix(got, a)
  <2>1. Regroups(a, b, s2)
    <3>1. a \in Seq(Nat) /\ b \in Seq(Nat)  BY <1>7
    <3> QED  BY <3>1, Associative
  <2>2. b \o s2 \in Seq(Nat)  BY <1>7, ConcatProperties
  <2>3. got \o rest = a \o (b \o s2)  BY <1>4, <1>7, <2>1 DEF s, Regroups
  <2>4. Len(got) <= Len(a)  BY <1>3, <1>7, LenProperties DEF a
  <2> QED  BY <1>7, <2>2, <2>3, <2>4, ShorterStart
<1>9. m.args \in Seq(Seq(Nat))  BY <1>6 DEF MessageType
<1> DEFINE x == SubSeq(m.args, 1, j)
<1>10. x \in Seq(Seq(Nat)) /\ msg.id = m.id /\ msg.args = x
  <2>1. \A i \in 1 .. j : m.args[i] \in Seq(Nat)
    <3>1. \A i \in 1 .. j : i \in 1 .. Len(m.args)  BY <1>3, <1>7
    <3> QED  BY <1>9, <3>1, ElementOfSeq
  <2> QED  BY <1>3, <2>1, SubSeqProperties DEF Message
<1> HIDE DEF x
<1>11. Len(needs) = Len(m.args) - j
  BY <1>3 DEF Sizes
<1>12. CASE Len(needs) = 1
  <2> DEFINE h == Message(m.id, Append(x, got))
  <2>1. heard' = Append(heard, h) /\ got' = <<>>
    BY <1>10, <1>12 DEF TakeArg, Handle, Goes
  <2>2. m.args = Append(x, a)
    <3>1. j + 1 = Len(m.args)
      <4>1. Len(m.args) - j = 1  BY <1>11, <1>12
      <4> QED  BY <1>7, <4>1
    <3>2. 1 \in 1 .. Len(m.args) /\ j + 1 \in 1 .. Len(m.args) /\ (j + 1) - 1 = j
      <4>1. Len(m.args) \in Nat  BY <1>7
      <4> QED  BY <3>1, <4>1
    <3>3. SubSeq(m.args, 1, j + 1) = SubSeq(m.args, 1, j) \o <<m.args[j + 1]>>
      BY <1>9, <3>2, SubSeqRecursiveSecond
    <3>4. m.args = x \o <<a>>  BY <1>9, <3>1, <3>3, SubSeqFull DEF x, a
    <3> QED  BY <1>7, <1>10, <3>4, AppendIsConcat
  <2>3. Torn(h, m)
    <3>1. h.id = m.id /\ h.args = Append(x, got)  BY DEF Message
    <3>2. /\ Front(Append(x, got)) = x /\ Last(Append(x, got)) = got
          /\ Append(x, got) # <<>>
      BY <1>10, FrontLast
    <3>3. Front(m.args) = x /\ Last(m.args) = a
      BY <1>7, <1>10, <2>2, FrontLast
    <3> QED  BY <1>8, <3>1, <3>2, <3>3 DEF Torn
  <2>4. h \in MessageType
    <3>1. Append(x, got) \in Seq(Seq(Nat))  BY <1>10, AppendProperties
    <3>2. m.id \in Nat  BY <1>6 DEF MessageType
    <3> QED  BY <3>1, <3>2 DEF Message, MessageType
  <2> HIDE DEF h
  <2>5. /\ Len(heard') = n + 1 /\ DOMAIN heard' = 1 .. n + 1 /\ heard'[n + 1] = h
        /\ \A i \in 1 .. n : heard'[i] = heard[i]
    <3>1. heard \in Seq(MessageType)
      <4>1. SaidMessages \subseteq MessageType  BY DEF SaidMessages
      <4> QED  BY <1>2, <4>1, SeqMonotonic DEF HeardOf
    <3>2. Append(heard, h) \in Seq(MessageType)  BY <2>4, <3>1, AppendProperties
    <3> QED  BY <2>1, <2>4, <3>1, <3>2, AppendProperties, LenProperties DEF n
  <2>6. \A i \in 1 .. n : heard'[i] = ms[i]  BY <1>2, <2>5 DEF HeardOf, n
  <2>7. Torn(heard'[n + 1], ms[n + 1])  BY <2>3, <2>5 DEF m
  <2>8. \E k \in Nat :
          /\ k + 1 <= Len(ms) /\ Len(heard') = k + 1 /\ DOMAIN heard' = 1 .. k + 1
          /\ \A i \in 1 .. k : heard'[i] = ms[i]
          /\ Torn(heard'[k + 1], ms[k + 1])
    BY <1>3, <1>5, <2>5, <2>6, <2>7
  <2>9. LastTorn(ms)'  BY <2>8 DEF LastTorn
  <2> QED  BY <2>1, <2>9
<1>13. CASE Len(needs) # 1
  <2>1. UNCHANGED heard /\ got' = <<>>  BY <1>13 DEF TakeArg, Goes
  <2> QED  BY <1>2, <2>1 DEF HeardOf
<1> QED  BY <1>12, <1>13
-----------------------------------------------------------------------------
\* One more message is sent.
LEMMA SaidNext ==
  ASSUME NEW ms \in Seq(SaidMessages), NEW s \in Seq(Nat), NEW m \in SaidMessages,
         ReaderAt(s, ms)
  PROVE  ReaderAt(s \o Encode(m), Append(ms, m))
<1> DEFINE n == Len(ms)  e == Encode(m)  ms2 == Append(ms, m)  h == Len(heard) + 1
<1>1. HeardOf(ms)  BY DEF ReaderAt
<1>2. n \in Nat /\ Len(heard) \in 0 .. n
  BY <1>1, LenProperties DEF HeardOf
<1>3. Len(ms2) = n + 1 /\ \A k \in 1 .. n : ms2[k] = ms[k]
  BY AppendProperties
<1>4. e \in Seq(Nat)  BY EncodeForm DEF SaidMessages
<1>5. \A k \in 0 .. n : \A q \in Seq(Nat) : Carries(q, ms, k) => Carries(q \o e, ms2, k)
  BY CarriesAppend
<1> HIDE DEF e, ms2, n
<1>6. HeardOf(ms2)
  <2>1. Len(heard) <= Len(ms2)  BY <1>2, <1>3
  <2>2. \A k \in 1 .. Len(heard) : heard[k] = ms2[k]
    <3>1. \A k \in 1 .. Len(heard) : k \in 1 .. n  BY <1>2
    <3> QED  BY <1>1, <1>3, <3>1 DEF HeardOf
  <2> QED  BY <1>1, <2>1, <2>2 DEF HeardOf
<1>7. ASSUME h <= n PROVE h \in 0 .. n /\ ms2[h] = ms[h] /\ h <= Len(ms2) /\ Said(ms[h])
  <2>1. h \in 1 .. n  BY <1>2, <1>7
  <2>2. ms[h] \in SaidMessages  BY <2>1, ElementOfSeq DEF n
  <2> QED  BY <1>2, <1>3, <2>1, <2>2 DEF SaidMessages
<1>8. CASE AtLen(s, ms)
  <2>1. Carries(s \o e, ms2, Len(heard))  BY <1>2, <1>5, <1>8 DEF AtLen
  <2>2. AtLen(s \o e, ms2)  BY <1>8, <2>1 DEF AtLen
  <2> QED  BY <1>6, <2>2 DEF ReaderAt, e, ms2
<1>9. CASE AtId(s, ms)
  <2>1. h <= n /\ len = Length(ms[h]) /\ at = "id" /\ got = <<>>  BY <1>9 DEF AtId, n
  <2>2. PICK s2 \in Seq(Nat) : /\ s = <<ms[h].id>> \o (Behind(ms[h], 0) \o s2)
                               /\ Carries(s2, ms, h)
    BY <1>9 DEF AtId
  <2>3. ms2[h] = ms[h] /\ h <= Len(ms2)  BY <1>7, <2>1
  <2>4. Carries(s2 \o e, ms2, h) /\ s2 \o e \in Seq(Nat)
    <3>1. h \in 0 .. n  BY <1>7, <2>1
    <3> QED  BY <1>4, <1>5, <2>2, <3>1, ConcatProperties
  <2>5. s \o e = <<ms[h].id>> \o (Behind(ms[h], 0) \o (s2 \o e))
    <3>1. Said(ms[h])  BY <1>7, <2>1
    <3> DEFINE a == <<ms[h].id>>  b == Behind(ms[h], 0)
    <3>2. a \in Seq(Nat) /\ b \in Seq(Nat)  BY <3>1, EncodeForm
    <3>3. s = a \o (b \o s2)  BY <2>2
    <3> HIDE DEF a, b
    <3>4. Regroups(a, b \o s2, e)
      <4>1. PICK q \in Seq(Nat) : q = b \o s2  BY <3>2, ConcatProperties
      <4>2. a \in Seq(Nat) /\ e \in Seq(Nat)  BY <1>4, <3>2
      <4>3. Regroups(a, q, e)  BY <4>2, Associative
      <4> QED  BY <4>1, <4>3
    <3>5. Regroups(b, s2, e)  BY <1>4, <3>2, Associative
    <3> QED  BY <3>3, <3>4, <3>5 DEF a, b, Regroups
  <2>6. AtId(s \o e, ms2)  BY <2>1, <2>3, <2>4, <2>5 DEF AtId
  <2> QED  BY <1>6, <2>6 DEF ReaderAt, e, ms2
<1>10. CASE AtArgs(s, ms)
  <2>1. PICK j \in Nat : AtArg(s, ms, j)  BY <1>10 DEF AtArgs
  <2>2. /\ h <= n /\ j \in 0 .. Len(ms[h].args) - 1
        /\ msg = Message(ms[h].id, SubSeq(ms[h].args, 1, j))
        /\ needs \in Seq(Nat) /\ Sizes(needs, ms[h].args, j)
        /\ Len(got) < Len(ms[h].args[j + 1])
    BY <2>1 DEF AtArg, n
  <2>3. PICK s2 \in Seq(Nat) : s = Behind(ms[h], j) \o s2 /\ Carries(s2, ms, h)
    BY <2>1 DEF AtArg
  <2>4. ms2[h] = ms[h] /\ h <= Len(ms2)  BY <1>7, <2>2
  <2>5. Carries(s2 \o e, ms2, h) /\ s2 \o e \in Seq(Nat)
    <3>1. h \in 0 .. n  BY <1>7, <2>2
    <3> QED  BY <1>4, <1>5, <2>3, <3>1, ConcatProperties
  <2>6. s \o e = Behind(ms[h], j) \o (s2 \o e)
    <3>1. Said(ms[h])  BY <1>7, <2>2
    <3> DEFINE b == Behind(ms[h], j)
    <3>2. b \in Seq(Nat)
      <4>1. Len(ms[h].args) \in Nat  BY <3>1, Shape
      <4>2. j \in 0 .. Len(ms[h].args)  BY <2>2, <4>1
      <4> QED  BY <3>1, <4>2, Shape
    <3>3. s = b \o s2  BY <2>3
    <3> HIDE DEF b
    <3>4. Regroups(b, s2, e)  BY <1>4, <3>2, Associative
    <3> QED  BY <3>3, <3>4 DEF b, Regroups
  <2>7. AtArg(s \o e, ms2, j)  BY <2>2, <2>4, <2>5, <2>6 DEF AtArg
  <2> QED  BY <1>6, <1>10, <2>7 DEF ReaderAt, AtArgs, e, ms2
<1> QED  BY <1>8, <1>9, <1>10 DEF ReaderAt
-----------------------------------------------------------------------------
\* The second call of a message that is sent by two.
After(w, k) == IF k + 1 \in DOMAIN w /\ w[k + 1].begun THEN w[k + 1].bytes ELSE <<>>

\* The rest of a message that a thread has begun to send.
Left(w) == IF w # <<>> /\ w[1].begun THEN w[1].bytes \o After(w, 1) ELSE <<>>

\* The Sends of a thread.
CallType == [bytes : Seq(Nat), of : SaidMessages, begun : BOOLEAN, locked : BOOLEAN]

\* A message is sent by one call or by two.
WorkOK(w) ==
  /\ w \in Seq(CallType)
  /\ \A k \in DOMAIN w :
       /\ w[k].bytes # <<>>
       /\ w[k].begun => k <= 2
       /\ ~w[k].begun => w[k].bytes \o After(w, k) = Encode(w[k].of)

\* What is left of an errand when its first call is done.
LEMMA NextCall ==
  ASSUME NEW w, WorkOK(w), w # <<>>
  PROVE  WorkOK(Tail(w)) /\ Left(Tail(w)) = After(w, 1)
<1>1. w \in Seq(CallType) /\ Len(w) \in Nat \ {0} /\ DOMAIN w = 1 .. Len(w)
  BY EmptySeq, LenProperties DEF WorkOK
<1> DEFINE v == Tail(w)
<1>2. /\ v \in Seq(CallType) /\ Len(v) = Len(w) - 1 /\ DOMAIN v = 1 .. Len(w) - 1
      /\ \A k \in 1 .. Len(w) - 1 : v[k] = w[k + 1]
  <2>1. /\ v \in Seq(CallType) /\ Len(v) = Len(w) - 1
        /\ \A k \in 1 .. Len(v) : v[k] = w[k + 1]
    BY <1>1, HeadTailProperties
  <2> QED  BY <2>1, LenProperties
<1> HIDE DEF v
<1>3. ASSUME NEW k \in 1 .. Len(w) - 1 PROVE After(v, k) = After(w, k + 1)
  <2>1. CASE k + 1 \in 1 .. Len(w) - 1
    <3>1. k + 2 \in 1 .. Len(w) /\ (k + 1) + 1 = k + 2  BY <1>1, <2>1
    <3>2. v[k + 1] = w[k + 2]  BY <1>2, <2>1, <3>1
    <3> QED  BY <1>1, <1>2, <2>1, <3>1, <3>2 DEF After
  <2>2. CASE k + 1 \notin 1 .. Len(w) - 1
    <3>1. k + 2 \notin 1 .. Len(w) /\ (k + 1) + 1 = k + 2  BY <1>1, <2>2
    <3> QED  BY <1>1, <1>2, <2>2, <3>1 DEF After
  <2> QED  BY <2>1, <2>2
<1>4. ASSUME NEW k \in DOMAIN v
      PROVE  /\ v[k].bytes # <<>> /\ (v[k].begun => k <= 1)
             /\ (~v[k].begun => v[k].bytes \o After(v, k) = Encode(v[k].of))
  <2>1. k \in 1 .. Len(w) - 1 /\ k + 1 \in DOMAIN w  BY <1>1, <1>2
  <2>2. v[k] = w[k + 1] /\ After(v, k) = After(w, k + 1)  BY <1>2, <1>3, <2>1
  <2>3. k + 1 <= 2 => k <= 1  BY <2>1
  <2> QED  BY <2>1, <2>2, <2>3 DEF WorkOK
<1>5. WorkOK(v)
  <2>1. \A k \in DOMAIN v : v[k].begun => k <= 2  BY <1>1, <1>2, <1>4
  <2> QED  BY <1>2, <1>4, <2>1 DEF WorkOK
<1>6. Left(v) = After(w, 1)
  <2>1. CASE Len(w) = 1
    <3>1. v = <<>>  BY <1>2, <2>1, EmptySeq
    <3>2. 1 + 1 \notin DOMAIN w  BY <1>1, <2>1
    <3> QED  BY <3>1, <3>2 DEF Left, After
  <2>2. CASE Len(w) # 1
    <3>1. 1 \in 1 .. Len(w) - 1 /\ 1 + 1 \in DOMAIN w /\ Len(v) # 0
      BY <1>1, <1>2, <2>2
    <3>2. v # <<>> /\ v[1] = w[1 + 1]  BY <1>2, <3>1, EmptySeq
    <3>3. After(v, 1) = <<>>
      <4>1. 1 + 1 \in DOMAIN v => ~v[1 + 1].begun  BY <1>4
      <4> QED  BY <4>1 DEF After
    <3>4. v[1].bytes \in Seq(Nat)
      <4>1. v[1] \in CallType  BY <1>2, <3>1, ElementOfSeq
      <4> QED  BY <4>1 DEF CallType
    <3>5. v[1].bytes \o <<>> = v[1].bytes  BY <3>4, ConcatEmptySeq
    <3> QED  BY <3>1, <3>2, <3>3, <3>5 DEF Left, After
  <2> QED  BY <2>1, <2>2
<1> QED  BY <1>5, <1>6 DEF v

\* The first call of an errand is left with q to send.
LEMMA RestOfCall ==
  ASSUME NEW w, WorkOK(w), w # <<>>, NEW q \in Seq(Nat), q # <<>>
  PROVE  LET v == <<Call(q, w[1].of, TRUE, w[1].locked)>> \o Tail(w)
         IN  /\ WorkOK(v) /\ v # <<>> /\ v[1].begun /\ Left(v) = q \o After(w, 1)
             /\ DOMAIN v = DOMAIN w /\ \A k \in DOMAIN v : v[k].locked = w[k].locked
<1>1. w \in Seq(CallType) /\ Len(w) \in Nat \ {0} /\ DOMAIN w = 1 .. Len(w)
  BY EmptySeq, LenProperties DEF WorkOK
<1> DEFINE c == Call(q, w[1].of, TRUE, w[1].locked)  v == <<c>> \o Tail(w)
<1>2. c \in CallType /\ c.bytes = q /\ c.begun /\ c.locked = w[1].locked
  <2>1. w[1] \in CallType  BY <1>1, ElementOfSeq
  <2> QED  BY <2>1 DEF CallType, Call
<1> HIDE DEF c, v
<1>3. /\ Tail(w) \in Seq(CallType) /\ Len(Tail(w)) = Len(w) - 1
      /\ \A k \in 1 .. Len(w) - 1 : Tail(w)[k] = w[k + 1]
  BY <1>1, HeadTailProperties
<1>4. <<c>> \in Seq(CallType) /\ Len(<<c>>) = 1 /\ <<c>>[1] = c  BY <1>2
<1>5. /\ v \in Seq(CallType) /\ Len(v) = Len(w) /\ v[1] = c
      /\ \A k \in 2 .. Len(w) : v[k] = w[k]
  <2>1. /\ v \in Seq(CallType) /\ Len(v) = 1 + (Len(w) - 1)
        /\ \A k \in 1 .. 1 + (Len(w) - 1) :
             v[k] = IF k <= 1 THEN <<c>>[k] ELSE Tail(w)[k - 1]
    BY <1>3, <1>4, ConcatProperties DEF v
  <2>2. ASSUME NEW k \in 2 .. Len(w) PROVE v[k] = w[k]
    <3>1. /\ k \in 1 .. 1 + (Len(w) - 1) /\ ~(k <= 1)
          /\ k - 1 \in 1 .. Len(w) - 1 /\ (k - 1) + 1 = k
      BY <1>1
    <3> QED  BY <1>3, <2>1, <3>1
  <2>3. 1 \in 1 .. 1 + (Len(w) - 1) /\ 1 + (Len(w) - 1) = Len(w)  BY <1>1
  <2>4. v[1] = c  BY <1>4, <2>1, <2>3
  <2> QED  BY <2>1, <2>2, <2>3, <2>4
<1>6. DOMAIN v = 1 .. Len(w)  BY <1>5, LenProperties
<1>7. ASSUME NEW k \in 1 .. Len(w) PROVE After(v, k) = After(w, k)
  <2>1. k + 1 \in 1 .. Len(w) => k + 1 \in 2 .. Len(w)  OBVIOUS
  <2> QED  BY <1>1, <1>5, <1>6, <2>1 DEF After
<1>8. ASSUME NEW k \in DOMAIN v
      PROVE  /\ v[k].bytes # <<>> /\ (v[k].begun => k <= 2)
             /\ (~v[k].begun => v[k].bytes \o After(v, k) = Encode(v[k].of))
  <2>1. CASE k = 1
    <3>1. v[k] = c  BY <1>5, <2>1
    <3> QED  BY <1>2, <2>1, <3>1
  <2>2. CASE k # 1
    <3>1. k \in 2 .. Len(w) /\ k \in DOMAIN w  BY <1>1, <1>6, <2>2
    <3>2. v[k] = w[k] /\ After(v, k) = After(w, k)  BY <1>5, <1>7, <1>1, <3>1
    <3> QED  BY <3>1, <3>2 DEF WorkOK
  <2> QED  BY <2>1, <2>2
<1>9. WorkOK(v)  BY <1>5, <1>8 DEF WorkOK
<1>10. v # <<>>  BY <1>1, <1>5, EmptySeq
<1>11. 1 \in 1 .. Len(w)  BY <1>1
<1>12. Left(v) = q \o After(w, 1)
  BY <1>2, <1>5, <1>7, <1>10, <1>11 DEF Left
<1>13. ASSUME NEW k \in DOMAIN v PROVE v[k].locked = w[k].locked
  <2>1. CASE k = 1  BY <1>2, <1>5, <2>1
  <2>2. CASE k # 1
    <3>1. k \in 2 .. Len(w)  BY <1>1, <1>6, <2>2
    <3> QED  BY <1>5, <3>1
  <2> QED  BY <2>1, <2>2
<1>14. v[1].begun /\ DOMAIN v = DOMAIN w  BY <1>1, <1>2, <1>5, <1>6
<1> QED  BY <1>9, <1>10, <1>12, <1>13, <1>14 DEF v, c

\* A part of the first call, or all of it, is sent.
LEMMA WrittenPart ==
  ASSUME NEW w, WorkOK(w), w # <<>>, NEW n \in 1 .. Len(w[1].bytes)
  PROVE  LET b == w[1].bytes
             v == (IF n = Len(b) THEN <<>>
                   ELSE <<Call(SubSeq(b, n + 1, Len(b)), w[1].of, TRUE, w[1].locked)>>)
                    \o Tail(w)
         IN  /\ WorkOK(v) /\ SubSeq(b, 1, n) \in Seq(Nat) /\ Left(v) \in Seq(Nat)
             /\ b \o After(w, 1) = SubSeq(b, 1, n) \o Left(v)
             /\ \A k \in DOMAIN v : \E j \in DOMAIN w : v[k].locked = w[j].locked
<1> DEFINE b == w[1].bytes  c1 == SubSeq(b, 1, n)  c2 == SubSeq(b, n + 1, Len(b))
<1>1. /\ w \in Seq(CallType) /\ Len(w) \in Nat \ {0} /\ DOMAIN w = 1 .. Len(w)
      /\ 1 \in 1 .. Len(w)
  <2>1. w \in Seq(CallType) /\ Len(w) \in Nat \ {0} /\ DOMAIN w = 1 .. Len(w)
    BY EmptySeq, LenProperties DEF WorkOK
  <2> QED  BY <2>1
<1>2. b \in Seq(Nat) /\ Len(b) \in Nat
  <2>1. w[1] \in CallType  BY <1>1, ElementOfSeq
  <2> QED  BY <2>1, LenProperties DEF CallType
<1>3. After(w, 1) \in Seq(Nat)
  <2>1. CASE 1 + 1 \in DOMAIN w
    <3>1. w[1 + 1] \in CallType  BY <1>1, <2>1, ElementOfSeq
    <3> QED  BY <3>1, EmptySeq DEF CallType, After
  <2>2. CASE 1 + 1 \notin DOMAIN w  BY <2>2, EmptySeq DEF After
  <2> QED  BY <2>1, <2>2
<1>4. /\ c1 \in Seq(Nat) /\ c2 \in Seq(Nat) /\ Len(c2) = Len(b) - n /\ Len(c1) = n
      /\ c1 \o c2 = b
  <2>1. n \in 0 .. Len(b)  OBVIOUS
  <2> HIDE DEF b
  <2> QED  BY <1>2, <2>1, Halves
<1>5. CASE n = Len(b)
  <2>1. Tail(w) \in Seq(CallType) /\ Len(Tail(w)) = Len(w) - 1
        /\ \A k \in 1 .. Len(w) - 1 : Tail(w)[k] = w[k + 1]
    BY <1>1, HeadTailProperties
  <2>2. <<>> \o Tail(w) = Tail(w)  BY <2>1, ConcatEmptySeq
  <2>3. WorkOK(Tail(w)) /\ Left(Tail(w)) = After(w, 1)  BY NextCall
  <2>4. c1 = b  BY <1>2, <1>5, SubSeqFull
  <2>5. ASSUME NEW k \in DOMAIN Tail(w)
        PROVE  \E j \in DOMAIN w : Tail(w)[k].locked = w[j].locked
    <3>1. k \in 1 .. Len(w) - 1  BY <2>1, LenProperties
    <3>2. k + 1 \in DOMAIN w /\ Tail(w)[k] = w[k + 1]  BY <1>1, <2>1, <3>1
    <3> QED  BY <3>2
  <2> QED  BY <1>3, <1>4, <1>5, <2>2, <2>3, <2>4, <2>5
<1>6. CASE n # Len(b)
  <2> DEFINE v == <<Call(c2, w[1].of, TRUE, w[1].locked)>> \o Tail(w)
  <2>1. c2 # <<>>
    <3>1. Len(c2) # 0  BY <1>2, <1>4, <1>6
    <3> HIDE DEF c2
    <3> QED  BY <3>1, EmptySeq
  <2>2. /\ WorkOK(v) /\ Left(v) = c2 \o After(w, 1)
        /\ DOMAIN v = DOMAIN w /\ \A k \in DOMAIN v : v[k].locked = w[k].locked
    <3>1. c2 \in Seq(Nat)  BY <1>4
    <3> HIDE DEF c2
    <3> QED  BY <2>1, <3>1, RestOfCall
  <2> HIDE DEF v
  <2>3. Left(v) \in Seq(Nat) /\ c1 \o Left(v) = b \o After(w, 1)
    <3> DEFINE a == After(w, 1)
    <3>1. c1 \in Seq(Nat) /\ c2 \in Seq(Nat) /\ a \in Seq(Nat)  BY <1>3, <1>4
    <3> HIDE DEF a, c1, c2
    <3>2. Regroups(c1, c2, a)  BY <3>1, Associative
    <3>3. c2 \o a \in Seq(Nat)  BY <3>1, ConcatProperties
    <3> QED  BY <1>4, <2>2, <3>2, <3>3 DEF a, Regroups
  <2>4. \A k \in DOMAIN v : \E j \in DOMAIN w : v[k].locked = w[j].locked
    BY <2>2
  <2> QED  BY <1>4, <1>6, <2>2, <2>3, <2>4 DEF v
<1> QED  BY <1>5, <1>6

\* What is said by one Send each.
LEMMA CallsForm ==
  ASSUME NEW ms \in Seq(SaidMessages), NEW l \in BOOLEAN
  PROVE  /\ WorkOK(Calls(ms, l))
         /\ \A k \in DOMAIN Calls(ms, l) :
              ~Calls(ms, l)[k].begun /\ Calls(ms, l)[k].locked = l
<1> DEFINE v == Calls(ms, l)
<1>1. Len(ms) \in Nat /\ DOMAIN ms = 1 .. Len(ms)  BY LenProperties
<1>2. ASSUME NEW k \in 1 .. Len(ms)
      PROVE  /\ Call(Encode(ms[k]), ms[k], FALSE, l) \in CallType
             /\ Encode(ms[k]) # <<>> /\ Encode(ms[k]) \o <<>> = Encode(ms[k])
  <2>1. ms[k] \in SaidMessages  BY ElementOfSeq
  <2>2. Encode(ms[k]) \in Seq(Nat) /\ Encode(ms[k]) # <<>>
    BY <2>1, EncodeForm DEF SaidMessages
  <2> QED  BY <2>1, <2>2, ConcatEmptySeq DEF Call, CallType
<1>3. /\ v \in Seq(CallType) /\ DOMAIN v = 1 .. Len(ms)
      /\ \A k \in 1 .. Len(ms) : v[k] = Call(Encode(ms[k]), ms[k], FALSE, l)
  <2> DEFINE c(k) == Call(Encode(ms[k]), ms[k], FALSE, l)
  <2>1. v = [k \in 1 .. Len(ms) |-> c(k)]  BY <1>1 DEF Calls
  <2>2. \A k \in 1 .. Len(ms) : c(k) \in CallType  BY <1>2
  <2> HIDE DEF c, v
  <2>3. v \in Seq(CallType)  BY <1>1, <2>1, <2>2
  <2>4. DOMAIN v = 1 .. Len(ms) /\ \A k \in 1 .. Len(ms) : v[k] = c(k)  BY <2>1
  <2> QED  BY <2>3, <2>4 DEF c
<1> HIDE DEF v
<1>4. \A k \in 1 .. Len(ms) :
        /\ v[k].bytes = Encode(ms[k]) /\ v[k].of = ms[k] /\ ~v[k].begun /\ v[k].locked = l
  BY <1>3 DEF Call
<1>5. \A k \in 1 .. Len(ms) : After(v, k) = <<>>  BY <1>3, <1>4 DEF After
<1>6. WorkOK(v)  BY <1>2, <1>3, <1>4, <1>5 DEF WorkOK
<1> QED  BY <1>3, <1>4, <1>6 DEF v
-----------------------------------------------------------------------------
\* Each message of the code is one of those.
LEMMA SaidOnes ==
  /\ Message(UNCHOKE, <<>>) \in SaidMessages /\ Message(INTERESTED, <<>>) \in SaidMessages
  /\ \A v \in Nat : Message(HAVE_PIECE, <<Number(v)>>) \in SaidMessages
  /\ Message(BITFIELD, <<Bitfield>>) \in SaidMessages
  /\ \A v, u \in Nat, block \in Blocks :
       Message(PIECE, <<Number(v), Number(u), block>>) \in SaidMessages
  /\ \A v, u, l \in Nat, id \in {REQUEST, CANCEL} :
       Message(id, <<Number(v), Number(u), Number(l)>>) \in SaidMessages
<1>1. ASSUME NEW id \in {UNCHOKE, INTERESTED} PROVE Message(id, <<>>) \in SaidMessages
  <2> DEFINE m == Message(id, <<>>)
  <2>1. id \in Nat  BY DEF UNCHOKE, INTERESTED
  <2>2. m.id = id /\ m.args = <<>> /\ m \in MessageType  BY <2>1 DEF Message, MessageType
  <2> HIDE DEF m
  <2>3. Said(m)  BY <2>2 DEF Said
  <2> QED  BY <2>2, <2>3 DEF SaidMessages, m
<1>2. ASSUME NEW id \in Nat, NEW a \in Seq(Nat),
             \/ id = HAVE_PIECE /\ Len(a) = W
             \/ id = BITFIELD /\ Len(a) > 0
      PROVE  Message(id, <<a>>) \in SaidMessages
  <2> DEFINE m == Message(id, <<a>>)
  <2>1. m.id = id /\ m.args = <<a>> /\ m \in MessageType  BY DEF Message, MessageType
  <2> HIDE DEF m
  <2>2. \E x \in Seq(Nat) : /\ m.args = <<x>>
                            /\ \/ m.id = HAVE_PIECE /\ Len(x) = W
                               \/ m.id = BITFIELD /\ Len(x) > 0
    BY <1>2, <2>1
  <2>3. Said(m)  BY <2>1, <2>2 DEF Said
  <2> QED  BY <2>1, <2>3 DEF SaidMessages, m
<1>3. ASSUME NEW id \in Nat, NEW a \in Seq(Nat), NEW b \in Seq(Nat), NEW c \in Seq(Nat),
             Len(a) = W, Len(b) = W,
             \/ id \in {REQUEST, CANCEL} /\ Len(c) = W
             \/ id = PIECE /\ Len(c) > 0
      PROVE  Message(id, <<a, b, c>>) \in SaidMessages
  <2> DEFINE m == Message(id, <<a, b, c>>)
  <2>1. m.id = id /\ m.args = <<a, b, c>> /\ m \in MessageType
    BY DEF Message, MessageType
  <2> HIDE DEF m
  <2>2. \E x, y, z \in Seq(Nat) :
          /\ m.args = <<x, y, z>> /\ Len(x) = W /\ Len(y) = W
          /\ \/ m.id \in {REQUEST, CANCEL} /\ Len(z) = W
             \/ m.id = PIECE /\ Len(z) > 0
    BY <1>3, <2>1
  <2>3. Said(m)  BY <2>1, <2>2 DEF Said
  <2> QED  BY <2>1, <2>3 DEF SaidMessages, m
<1>4. \A q \in Seq(0 .. 127) : q # <<>> => q \in Seq(Nat) /\ Len(q) > 0
  <2> TAKE q \in Seq(0 .. 127)
  <2>1. 0 .. 127 \subseteq Nat  OBVIOUS
  <2>2. q \in Seq(Nat)  BY <2>1, SeqMonotonic
  <2> QED  BY <2>2, EmptySeq
<1>5. ASSUME NEW v \in Nat PROVE Message(HAVE_PIECE, <<Number(v)>>) \in SaidMessages
  <2>1. PICK a \in Seq(Nat) : a = Number(v) /\ Len(a) = W  BY ValueOfNumber
  <2>2. HAVE_PIECE \in Nat  BY DEF HAVE_PIECE
  <2>3. Message(HAVE_PIECE, <<a>>) \in SaidMessages  BY <1>2, <2>1, <2>2
  <2> QED  BY <2>1, <2>3
<1>6. Message(BITFIELD, <<Bitfield>>) \in SaidMessages
  <2>1. Bitfield \in Seq(Nat) /\ Len(Bitfield) > 0  BY <1>4, WireAssumption
  <2>2. BITFIELD \in Nat  BY DEF BITFIELD
  <2> QED  BY <1>2, <2>1, <2>2
<1>7. ASSUME NEW v \in Nat, NEW u \in Nat, NEW block \in Blocks
      PROVE  Message(PIECE, <<Number(v), Number(u), block>>) \in SaidMessages
  <2>1. /\ Number(v) \in Seq(Nat) /\ Len(Number(v)) = W
        /\ Number(u) \in Seq(Nat) /\ Len(Number(u)) = W
    BY ValueOfNumber
  <2>2. block \in Seq(Nat) /\ Len(block) > 0  BY <1>4, WireAssumption
  <2>3. PIECE \in Nat  BY DEF PIECE
  <2> QED  BY <1>3, <2>1, <2>2, <2>3
<1>8. ASSUME NEW v \in Nat, NEW u \in Nat, NEW l \in Nat, NEW id \in {REQUEST, CANCEL}
      PROVE  Message(id, <<Number(v), Number(u), Number(l)>>) \in SaidMessages
  <2>1. PICK a, b, c \in Seq(Nat) : /\ a = Number(v) /\ b = Number(u) /\ c = Number(l)
                                   /\ Len(a) = W /\ Len(b) = W /\ Len(c) = W
    BY ValueOfNumber
  <2>2. id \in Nat  BY DEF REQUEST, CANCEL
  <2>3. Message(id, <<a, b, c>>) \in SaidMessages  BY <1>3, <2>1, <2>2
  <2> QED  BY <2>1, <2>3
<1> QED  BY <1>1, <1>5, <1>6, <1>7, <1>8

\* What a thread may have to say.
LEMMA SaidAll ==
  /\ Unchoke \in Seq(SaidMessages) /\ Interested \in Seq(SaidMessages)
  /\ \A i \in Numbers : Have(i) \in Seq(SaidMessages)
  /\ \A i, b \in Numbers, block \in Blocks : Block(i, b, block) \in Seq(SaidMessages)
  /\ \A i, b \in Numbers : Request(CANCEL, i, b, 1) \in Seq(SaidMessages)
  /\ \A i \in Numbers :
       [k \in 1 .. Parts |-> Request(REQUEST, i, k - 1, 1)[1]] \in Seq(SaidMessages)
<1>1. \A m \in SaidMessages : <<m>> \in Seq(SaidMessages)  OBVIOUS
<1>2. Numbers \subseteq Nat /\ Parts \in Nat  BY WireAssumption
<1>3. Unchoke \in Seq(SaidMessages) /\ Interested \in Seq(SaidMessages)
  BY <1>1, SaidOnes DEF Unchoke, Interested
<1>4. \A i \in Numbers : Have(i) \in Seq(SaidMessages)
  BY <1>1, <1>2, SaidOnes DEF Have
<1>5. \A i, b \in Numbers, block \in Blocks : Block(i, b, block) \in Seq(SaidMessages)
  BY <1>1, <1>2, SaidOnes DEF Block
<1>6. \A id \in {REQUEST, CANCEL}, i, b, l \in Nat :
        /\ Request(id, i, b, l) \in Seq(SaidMessages)
        /\ Request(id, i, b, l)[1] \in SaidMessages
  BY <1>1, SaidOnes DEF Request
<1>7. \A i, b \in Numbers : Request(CANCEL, i, b, 1) \in Seq(SaidMessages)
  BY <1>2, <1>6
<1>8. ASSUME NEW i \in Numbers
      PROVE  [k \in 1 .. Parts |-> Request(REQUEST, i, k - 1, 1)[1]] \in Seq(SaidMessages)
  <2> DEFINE r(k) == Request(REQUEST, i, k - 1, 1)[1]
  <2>1. \A k \in 1 .. Parts : r(k) \in SaidMessages
    <3>1. \A k \in 1 .. Parts : k - 1 \in Nat  BY <1>2
    <3> QED  BY <1>2, <1>6, <3>1
  <2> HIDE DEF r
  <2>2. [k \in 1 .. Parts |-> r(k)] \in Seq(SaidMessages)  BY <1>2, <2>1
  <2> QED  BY <2>2 DEF r
<1> QED  BY <1>3, <1>4, <1>5, <1>7, <1>8
-----------------------------------------------------------------------------
\* Sends under the lock are by the thread that holds it.
Held == \A t \in Threads : \A k \in DOMAIN work[t] : work[t][k].locked => file = t

Forms == work \in [Threads -> Seq(CallType)] /\ \A t \in Threads : WorkOK(work[t])

\* A receiver begins with its bitfield.
Fresh == ~greeted => work["receiver"] = <<>>

\* Nothing is read from a connection that broke.
Pipe ==
  /\ wire \in Seq(Nat) /\ sent \in Seq(SaidMessages)
  /\ conn \in {"open", "closed", "reset"} /\ (conn = "reset" => wire = <<>>)

\* One thread at most is in the middle of a message.
Apart == \A t, u \in Threads : Inside(t) /\ Inside(u) => t = u

\* rest is what is left of a message that a thread is in the middle of.
OnTheWay(rest) ==
  conn = "open" => /\ \A t \in Threads : Inside(t) => rest = Left(work[t])
                   /\ (\A t \in Threads : ~Inside(t)) => rest = <<>>

\* What was read of the field the reader is at, what is in the buffers and what is
\* left of the message that is being sent are the messages not handled yet.
Alive ==
  /\ conn # "reset" /\ got \in Seq(Nat)
  /\ \E rest \in Seq(Nat) : OnTheWay(rest) /\ ReaderAt(Stream(rest), sent)

\* Nothing more will be handled.
Dead ==
  /\ conn # "open"
  /\ at = "over" \/ conn = "reset" \/ (wire = <<>> /\ got = <<>>)
  /\ HeardOf(sent) \/ (conn = "closed" /\ LastTorn(sent))

\* What holds as long as no thread without the lock met another in a message.
IInv == Held /\ Forms /\ Fresh /\ Pipe /\ Apart /\ (Alive \/ Dead)

\* A connection begins with nothing on the wire.
LEMMA InitIInv == Init => IInv
<1> SUFFICES ASSUME Init PROVE IInv  OBVIOUS
<1>1. \A t \in Threads : work[t] = <<>> /\ ~Inside(t)  BY DEF Init, Inside
<1>2. Held  BY <1>1 DEF Held
<1>3. Forms
  <2>1. WorkOK(<<>>)  BY DEF WorkOK
  <2> QED  BY <1>1, <2>1 DEF Init, Forms
<1>4. Fresh  BY <1>1 DEF Fresh, Threads
<1>5. Pipe  BY DEF Init, Pipe
<1>6. Apart  BY <1>1 DEF Apart
<1>7. Alive
  <2>1. <<>> \in Seq(Nat) /\ OnTheWay(<<>>)
    <3>1. <<>> \in Seq(Nat)  OBVIOUS
    <3> QED  BY <1>1, <3>1 DEF OnTheWay
  <2>2. Stream(<<>>) = <<>>
    <3>1. \A q \in Seq(Nat) : <<>> \o q = q  BY ConcatEmptySeq
    <3> QED  BY <2>1, <3>1 DEF Init, Stream
  <2>3. Len(heard) = 0 /\ Len(sent) = 0 /\ Len(got) = 0 /\ heard \in Seq(SaidMessages)
    BY DEF Init
  <2>4. Carries(<<>>, sent, 0)
    <3> DEFINE r == [k \in 0 .. 0 |-> <<>>]
    <3>1. r \in [0 .. 0 -> Seq(Nat)] /\ r[0] = <<>>  BY <2>1
    <3>2. 0 + 1 .. 0 = {}  OBVIOUS
    <3> HIDE DEF r
    <3> QED  BY <2>3, <3>1, <3>2 DEF Carries
  <2>5. AtLen(<<>>, sent)  BY <2>3, <2>4, WireAssumption DEF AtLen, Init
  <2>6. HeardOf(sent)  BY <2>3 DEF HeardOf
  <2> QED  BY <2>1, <2>2, <2>5, <2>6 DEF Alive, ReaderAt, Init
<1> QED  BY <1>2, <1>3, <1>4, <1>5, <1>6, <1>7 DEF IInv

\* A thread gets something to say.
LEMMA BeginsKeeps ==
  ASSUME IInv, NEW t \in Threads, work[t] = <<>>, conn = "open", NEW calls, WorkOK(calls),
         calls # <<>> => ~calls[1].begun, work' = [work EXCEPT ![t] = calls],
         \A k \in DOMAIN calls : calls[k].locked => file' = t,
         file' = file \/ (file = Nobody /\ file' = t),
         ~greeted' => ~greeted /\ t # "receiver",
         UNCHANGED <<wire, conn, reader, sent, crossed>>
  PROVE  IInv'
<1>1. /\ work' \in [Threads -> Seq(CallType)] /\ work'[t] = calls
      /\ \A u \in Threads : u # t => work'[u] = work[u]
  BY DEF IInv, Forms, WorkOK
<1>2. Forms'
  <2>1. \A u \in Threads : WorkOK(work'[u])  BY <1>1 DEF IInv, Forms
  <2> QED  BY <1>1, <2>1 DEF Forms
<1>3. Held'
  <2> SUFFICES ASSUME NEW u \in Threads, NEW k \in DOMAIN work'[u], work'[u][k].locked
               PROVE  file' = u
    BY DEF Held
  <2>1. CASE u = t  BY <1>1, <2>1
  <2>2. CASE u # t
    <3>1. file = u  BY <1>1, <2>2 DEF IInv, Held
    <3>2. u # Nobody  BY DEF Threads, Nobody
    <3> QED  BY <3>1, <3>2
  <2> QED  BY <2>1, <2>2
<1>4. Fresh'
  <2> SUFFICES ASSUME ~greeted' PROVE work'["receiver"] = <<>>  BY DEF Fresh
  <2>1. "receiver" \in Threads  BY DEF Threads
  <2> QED  BY <1>1, <2>1 DEF IInv, Fresh
<1>5. Pipe'  BY DEF IInv, Pipe
<1>6. ~Inside(t) /\ ~Inside(t)' /\ \A u \in Threads : u # t => (Inside(u)' <=> Inside(u))
  <2>1. ~Inside(t)  BY DEF Inside
  <2>2. ~Inside(t)'
    <3>1. CASE calls = <<>>  BY <1>1, <3>1 DEF Inside
    <3>2. CASE calls # <<>>
      <4>1. Head(calls) = calls[1]  BY <3>2, HeadTailProperties DEF WorkOK
      <4> QED  BY <1>1, <3>2, <4>1 DEF Inside
    <3> QED  BY <3>1, <3>2
  <2>3. \A u \in Threads : u # t => (Inside(u)' <=> Inside(u))  BY <1>1 DEF Inside
  <2> QED  BY <2>1, <2>2, <2>3
<1>7. Apart' /\ (Alive \/ Dead)'
  <2>1. Apart /\ (Alive \/ Dead)  BY DEF IInv
  <2>2. Apart'  BY <1>6, <2>1 DEF Apart
  <2>3. Alive  BY <2>1 DEF Dead
  <2>4. PICK rest \in Seq(Nat) : OnTheWay(rest) /\ ReaderAt(Stream(rest), sent)
    BY <2>3 DEF Alive
  <2>5. OnTheWay(rest)'
    <3>1. (\A u \in Threads : ~Inside(u)') => rest = <<>>  BY <1>6, <2>4 DEF OnTheWay
    <3>2. \A u \in Threads : Inside(u)' => rest = Left(work'[u])
      BY <1>1, <1>6, <2>4 DEF OnTheWay
    <3> QED  BY <3>1, <3>2 DEF OnTheWay
  <2>6. ReaderAt(Stream(rest), sent)'
    BY <2>4 DEF reader, Stream, ReaderAt, AtLen, AtId, AtArgs, AtArg, HeardOf
  <2>7. Alive'  BY <2>3, <2>5, <2>6 DEF Alive, reader
  <2> QED  BY <2>2, <2>7
<1> QED  BY <1>2, <1>3, <1>4, <1>5, <1>7 DEF IInv

\* Sends of whole messages.
LEMMA CallsKeep ==
  ASSUME IInv, NEW t \in Threads, NEW ms \in Seq(SaidMessages), NEW l \in BOOLEAN,
         Begin(t, Calls(ms, l)), IF l THEN LockFile(t) ELSE UNCHANGED file,
         t = "receiver" => greeted
  PROVE  IInv'
<1> DEFINE calls == Calls(ms, l)
<1>1. WorkOK(calls) /\ \A k \in DOMAIN calls : ~calls[k].begun /\ calls[k].locked = l
  BY CallsForm
<1>2. calls # <<>> => ~calls[1].begun
  <2>1. calls # <<>> => 1 \in DOMAIN calls
    <3>1. calls \in Seq(CallType)  BY <1>1 DEF WorkOK
    <3> HIDE DEF calls
    <3>2. ASSUME calls # <<>> PROVE 1 \in DOMAIN calls
      <4>1. Len(calls) \in Nat \ {0} /\ DOMAIN calls = 1 .. Len(calls)
        BY <3>1, <3>2, EmptySeq, LenProperties
      <4> QED  BY <4>1
    <3> QED  BY <3>2
  <2> QED  BY <1>1, <2>1
<1>3. /\ work[t] = <<>> /\ conn = "open" /\ work' = [work EXCEPT ![t] = calls]
      /\ greeted' = greeted /\ UNCHANGED <<wire, conn, reader, sent, crossed>>
  BY DEF Begin, Idle
<1>4. \A k \in DOMAIN calls : calls[k].locked => file' = t  BY <1>1 DEF LockFile
<1>5. file' = file \/ (file = Nobody /\ file' = t)  BY DEF LockFile
<1>6. ~greeted' => ~greeted /\ t # "receiver"  BY <1>3
<1> HIDE DEF calls
<1> QED  BY <1>1, <1>2, <1>3, <1>4, <1>5, <1>6, BeginsKeeps

\* The bitfield is sent in two parts.
LEMMA BitfieldKeeps ==
  ASSUME IInv, SendBitfield PROVE IInv'
<1> DEFINE m == Message(BITFIELD, <<Bitfield>>)
           c1 == Call(Header(m), m, FALSE, TRUE)  c2 == Call(Bitfield, m, TRUE, TRUE)
           calls == <<c1, c2>>
<1>1. m \in SaidMessages /\ Said(m)  BY SaidOnes DEF SaidMessages
<1>2. Header(m) \in Seq(Nat) /\ Header(m) # <<>> /\ Encode(m) = Header(m) \o Bitfield
  <2>1. Body(m) = Bitfield
    <3>1. m.args = <<Bitfield>> /\ Len(<<Bitfield>>) = 1  BY DEF Message
    <3> QED  BY <3>1, FlatOne DEF Body
  <2>2. Encode(m) = Header(m) \o Body(m)  BY DEF Encode
  <2> QED  BY <1>1, <2>1, <2>2, EncodeForm
<1>3. Bitfield \in Seq(Nat) /\ Bitfield # <<>>
  <2>1. 0 .. 127 \subseteq Nat /\ Bitfield \in Seq(0 .. 127)  BY WireAssumption
  <2>2. Bitfield \in Seq(Nat)  BY <2>1, SeqMonotonic
  <2> QED  BY <2>2, WireAssumption
<1> HIDE DEF m
<1>4. /\ c1 \in CallType /\ c1.bytes = Header(m) /\ c1.of = m /\ ~c1.begun
      /\ c2 \in CallType /\ c2.bytes = Bitfield /\ c2.begun
  BY <1>1, <1>2, <1>3 DEF Call, CallType
<1> HIDE DEF c1, c2
<1>5. /\ calls \in Seq(CallType) /\ DOMAIN calls = 1 .. 2 /\ calls[1] = c1 /\ calls[2] = c2
      /\ calls # <<>>
  BY <1>4
<1> HIDE DEF calls
<1>6. WorkOK(calls)
  <2>1. 2 \in 1 .. 2 /\ 1 + 1 = 2 /\ \A k \in 1 .. 2 : k = 1 \/ k = 2  OBVIOUS
  <2>2. After(calls, 1) = Bitfield  BY <1>4, <1>5, <2>1 DEF After
  <2>3. calls[1].bytes \o After(calls, 1) = Encode(calls[1].of)
    BY <1>2, <1>4, <1>5, <2>2
  <2>4. ASSUME NEW k \in DOMAIN calls
        PROVE  /\ calls[k].bytes # <<>> /\ (calls[k].begun => k <= 2)
               /\ (~calls[k].begun =>
                     calls[k].bytes \o After(calls, k) = Encode(calls[k].of))
    <3>1. CASE k = 1  BY <1>2, <1>4, <1>5, <2>3, <3>1
    <3>2. CASE k = 2  BY <1>3, <1>4, <1>5, <3>2
    <3> QED  BY <1>5, <2>1, <3>1, <3>2
  <2> QED  BY <1>5, <2>4 DEF WorkOK
<1>7. /\ ~greeted /\ greeted' = TRUE /\ conn = "open" /\ file = Nobody /\ file' = "receiver"
      /\ work' = [work EXCEPT !["receiver"] = calls]
      /\ UNCHANGED <<wire, conn, reader, sent, crossed>>
  BY DEF SendBitfield, LockFile, calls, c1, c2, m
<1>8. "receiver" \in Threads /\ work["receiver"] = <<>>
  BY <1>7 DEF Threads, IInv, Fresh
<1>9. ~calls[1].begun  BY <1>4, <1>5
<1> QED  BY <1>6, <1>7, <1>8, <1>9, BeginsKeeps

\* Whatever a thread has to say.
LEMMA SpeakKeeps ==
  ASSUME IInv, Speak PROVE IInv'
<1>0. "receiver" \in Threads /\ "others" \in Threads /\ "requester" \in Threads
  BY DEF Threads
<1>1. CASE SendBitfield  BY <1>1, BitfieldKeeps
<1>2. CASE HandleInterested
  <2>1. /\ greeted /\ Begin("receiver", Calls(Unchoke, FALSE)) /\ UNCHANGED file
    BY <1>2 DEF HandleInterested
  <2>2. Unchoke \in Seq(SaidMessages)  BY SaidAll
  <2> QED  BY <1>0, <2>1, <2>2, CallsKeep
<1>3. CASE ShowInterest
  <2>1. PICK u \in Maybe(Unchoke), i \in Maybe(Interested), h \in Maybe(Interested) :
          Begin("receiver", Calls(u \o i \o h, TRUE))
    BY <1>3 DEF ShowInterest
  <2>2. u \o i \o h \in Seq(SaidMessages)
    <3>1. /\ u \in Seq(SaidMessages) /\ i \in Seq(SaidMessages) /\ h \in Seq(SaidMessages)
      BY SaidAll, EmptySeq DEF Maybe
    <3> QED  BY <3>1, ConcatProperties
  <2>3. greeted /\ LockFile("receiver")  BY <1>3 DEF ShowInterest
  <2> QED  BY <1>0, <2>1, <2>2, <2>3, CallsKeep
<1>4. CASE SendPiece
  <2>1. PICK i, b \in Numbers, block \in Blocks :
          Begin("receiver", Calls(Block(i, b, block), TRUE))
    BY <1>4 DEF SendPiece
  <2>2. Block(i, b, block) \in Seq(SaidMessages)  BY SaidAll
  <2>3. greeted /\ LockFile("receiver")  BY <1>4 DEF SendPiece
  <2> QED  BY <1>0, <2>1, <2>2, <2>3, CallsKeep
<1>5. CASE SendCancel
  <2>1. PICK i, b \in Numbers : Begin("receiver", Calls(Request(CANCEL, i, b, 1), TRUE))
    BY <1>5 DEF SendCancel
  <2>2. Request(CANCEL, i, b, 1) \in Seq(SaidMessages)  BY SaidAll
  <2>3. greeted /\ LockFile("receiver")  BY <1>5 DEF SendCancel
  <2> QED  BY <1>0, <2>1, <2>2, <2>3, CallsKeep
<1>6. CASE SendHave
  <2>1. PICK i \in Numbers : Begin("others", Calls(Have(i), TRUE))
    BY <1>6 DEF SendHave
  <2>2. Have(i) \in Seq(SaidMessages)  BY SaidAll
  <2>3. LockFile("others")  BY <1>6 DEF SendHave
  <2> QED  BY <1>0, <2>1, <2>2, <2>3, CallsKeep
<1>7. CASE RequestPiece
  <2>1. PICK i \in Numbers :
          Begin("requester", Calls(Interested \o
            [k \in 1 .. Parts |-> Request(REQUEST, i, k - 1, 1)[1]], FALSE))
    BY <1>7 DEF RequestPiece
  <2> DEFINE asks == [k \in 1 .. Parts |-> Request(REQUEST, i, k - 1, 1)[1]]
  <2>2. asks \in Seq(SaidMessages)  BY SaidAll
  <2>3. Begin("requester", Calls(Interested \o asks, FALSE)) /\ UNCHANGED file
    BY <1>7, <2>1 DEF RequestPiece
  <2> HIDE DEF asks
  <2>4. Interested \o asks \in Seq(SaidMessages)  BY <2>2, SaidAll, ConcatProperties
  <2> QED  BY <1>0, <2>3, <2>4, CallsKeep
<1> QED  BY <1>1, <1>2, <1>3, <1>4, <1>5, <1>6, <1>7 DEF Speak

\* A thread sends what fits the buffers.
LEMMA WriteKeeps ==
  ASSUME IInv, ~crossed', NEW t \in Threads, Write(t) PROVE IInv'
<1>0. /\ Held /\ Forms /\ Fresh /\ Pipe /\ work[t] # <<>> /\ conn = "open"
      /\ UNCHANGED <<left, greeted, conn, reader>>
  BY DEF IInv, Write
<1>1. PICK w : w = work[t]  OBVIOUS
<1>2. WorkOK(w) /\ w # <<>> /\ w \in Seq(CallType) /\ Head(w) = w[1]
  <2>1. WorkOK(w) /\ w # <<>> /\ w \in Seq(CallType)  BY <1>0, <1>1 DEF Forms, WorkOK
  <2> QED  BY <2>1, HeadTailProperties
<1>3. 1 \in DOMAIN w /\ w[1] \in CallType
  <2>1. Len(w) \in Nat \ {0} /\ DOMAIN w = 1 .. Len(w)  BY <1>2, EmptySeq, LenProperties
  <2>2. 1 \in 1 .. Len(w)  BY <2>1
  <2> QED  BY <1>2, <2>1, <2>2, ElementOfSeq
<1> DEFINE b == w[1].bytes
<1>4. b \in Seq(Nat) /\ Len(b) \in Nat  BY <1>3, LenProperties DEF CallType
<1>5. PICK n : n = Copied(Len(b))  OBVIOUS
<1> DEFINE c1 == SubSeq(b, 1, n)
           v == (IF n = Len(b) THEN <<>>
                 ELSE <<Call(SubSeq(b, n + 1, Len(b)), w[1].of, TRUE, w[1].locked)>>)
                  \o Tail(w)
<1>6. /\ n > 0 /\ wire' = wire \o c1
      /\ sent' = IF w[1].begun THEN sent ELSE Append(sent, w[1].of)
      /\ work' = [work EXCEPT ![t] = v]
      /\ file' = IF v = <<>> /\ file = t THEN Nobody ELSE file
  BY <1>1, <1>2, <1>5 DEF Write, Remains
<1>7. n \in 1 .. Len(b)
  <2>1. Len(wire) \in Nat /\ Room \in Nat  BY <1>0, LenProperties, WireAssumption DEF Pipe
  <2> HIDE DEF b
  <2> QED  BY <1>4, <1>5, <1>6, <2>1 DEF Copied, Min2
<1>8. /\ WorkOK(v) /\ c1 \in Seq(Nat) /\ Left(v) \in Seq(Nat)
      /\ b \o After(w, 1) = c1 \o Left(v)
      /\ \A k \in DOMAIN v : \E j \in DOMAIN w : v[k].locked = w[j].locked
  BY <1>2, <1>7, WrittenPart
<1> HIDE DEF c1, v, b
<1>9. /\ work' \in [Threads -> Seq(CallType)] /\ work'[t] = v
      /\ \A u \in Threads : u # t => work'[u] = work[u]
  <2>1. v \in Seq(CallType)  BY <1>8 DEF WorkOK
  <2> QED  BY <1>0, <1>6, <2>1 DEF Forms
<1>10. Forms'
  <2>1. \A u \in Threads : WorkOK(work'[u])  BY <1>0, <1>8, <1>9 DEF Forms
  <2> QED  BY <1>9, <2>1 DEF Forms
<1>11. Held'
  <2> SUFFICES ASSUME NEW u \in Threads, NEW k \in DOMAIN work'[u], work'[u][k].locked
               PROVE  file' = u
    BY DEF Held
  <2>1. CASE u = t
    <3>1. PICK j \in DOMAIN w : v[k].locked = w[j].locked  BY <1>8, <1>9, <2>1
    <3>2. file = t  BY <1>0, <1>1, <1>9, <2>1, <3>1 DEF Held
    <3>3. v # <<>>
      <4>1. DOMAIN v # {}  BY <1>9, <2>1
      <4>2. DOMAIN <<>> = {}  OBVIOUS
      <4> QED  BY <4>1, <4>2
    <3> QED  BY <1>6, <2>1, <3>2, <3>3
  <2>2. CASE u # t
    <3>1. file = u  BY <1>0, <1>9, <2>2 DEF Held
    <3> QED  BY <1>6, <2>2, <3>1
  <2> QED  BY <2>1, <2>2
<1>12. Fresh'
  <2> SUFFICES ASSUME ~greeted' PROVE work'["receiver"] = <<>>  BY DEF Fresh
  <2>1. work["receiver"] = <<>>  BY <1>0 DEF Fresh
  <2>2. "receiver" # t /\ "receiver" \in Threads  BY <1>0, <2>1 DEF Threads
  <2> QED  BY <1>9, <2>1, <2>2
<1>13. w[1].of \in SaidMessages  BY <1>3 DEF CallType
<1>14. Pipe'
  <2>1. wire' \in Seq(Nat)
    <3>1. wire \in Seq(Nat) /\ c1 \in Seq(Nat)  BY <1>0, <1>8 DEF Pipe
    <3>2. wire \o c1 \in Seq(Nat)  BY <3>1, ConcatProperties
    <3> QED  BY <1>6, <3>2
  <2>2. sent' \in Seq(SaidMessages)  BY <1>0, <1>6, <1>13, AppendProperties DEF Pipe
  <2> QED  BY <1>0, <2>1, <2>2 DEF Pipe
<1>15. Apart' /\ Alive'
  <2>1. \A u \in Threads \ {t} : Inside(u) => Locked(t) /\ Locked(u)
    BY DEF Write
  <2>2. \A u \in Threads \ {t} : ~Inside(u)
    <3> SUFFICES ASSUME NEW u \in Threads \ {t}, Inside(u) PROVE FALSE  OBVIOUS
    <3>1. Locked(t) /\ Locked(u)  BY <2>1
    <3>2. file = t  BY <1>0, <1>1, <1>2, <1>3, <3>1 DEF Held, Locked
    <3>3. file = u
      <4>1. work[u] \in Seq(CallType) /\ work[u] # <<>>  BY <1>0 DEF Forms, Inside
      <4>2. 1 \in DOMAIN work[u] /\ Head(work[u]) = work[u][1]
        <5>1. Len(work[u]) \in Nat \ {0} /\ DOMAIN work[u] = 1 .. Len(work[u])
          BY <4>1, EmptySeq, LenProperties
        <5> QED  BY <4>1, <5>1, HeadTailProperties
      <4> QED  BY <1>0, <3>1, <4>2 DEF Held, Locked
    <3> QED  BY <3>2, <3>3
  <2>3. \A u \in Threads \ {t} : ~Inside(u)'  BY <1>9, <2>2 DEF Inside
  <2>4. Apart'  BY <2>3 DEF Apart
  <2>5. Inside(t) <=> w[1].begun  BY <1>0, <1>1, <1>2 DEF Inside
  <2>6. ~Inside(t)' => Left(v) = <<>>
    <3>1. v # <<>> => Head(v) = v[1]  BY <1>8, HeadTailProperties DEF WorkOK
    <3> QED  BY <1>9, <3>1 DEF Inside, Left
  <2>7. PICK rest \in Seq(Nat), ms \in Seq(SaidMessages), s \in Seq(Nat) :
          OnTheWay(rest) /\ ms = sent /\ s = Stream(rest) /\ ReaderAt(s, ms)
    <3>1. Alive  BY <1>0, <2>1 DEF IInv, Dead
    <3>2. PICK rest \in Seq(Nat) : OnTheWay(rest) /\ ReaderAt(Stream(rest), sent)
      BY <3>1 DEF Alive
    <3>3. Stream(rest) \in Seq(Nat)
      <4>1. got \in Seq(Nat) /\ wire \in Seq(Nat)  BY <1>0, <3>1 DEF Alive, Pipe
      <4>2. wire \o rest \in Seq(Nat)  BY <4>1, ConcatProperties
      <4> QED  BY <4>1, <4>2, ConcatProperties DEF Stream
    <3> QED  BY <1>0, <3>2, <3>3 DEF Pipe
  <2>8. got \in Seq(Nat) /\ wire \in Seq(Nat) /\ got' = got
    BY <1>0, <2>1 DEF IInv, Alive, Dead, Pipe, reader
  <2>9. PICK rest2 \in Seq(Nat) : rest2 = Left(v)  BY <1>8
  <2>10. OnTheWay(rest2)'
    <3>1. \A u \in Threads : Inside(u)' => rest2 = Left(work'[u])  BY <1>9, <2>3, <2>9
    <3>2. (\A u \in Threads : ~Inside(u)') => rest2 = <<>>  BY <2>6, <2>9
    <3> QED  BY <3>1, <3>2 DEF OnTheWay
  <2>11. PICK c \in Seq(Nat) : c = c1  BY <1>8
  <2>12. c \o rest2 \in Seq(Nat)  BY ConcatProperties
  <2>13. Stream(rest2)' = got \o (wire \o (c \o rest2))
    <3>1. Regroups(wire, c, rest2)
      <4>1. wire \in Seq(Nat)  BY <2>8
      <4> QED  BY <4>1, Associative
    <3> QED  BY <1>6, <2>8, <2>11, <3>1 DEF Stream, Regroups
  <2>14. b \o After(w, 1) = c \o rest2  BY <1>8, <2>9, <2>11
  <2>15. CASE w[1].begun
    <3>1. rest = c \o rest2
      <4>1. Inside(t) /\ rest = Left(w)  BY <1>0, <1>1, <2>5, <2>7, <2>15 DEF OnTheWay
      <4> QED  BY <1>2, <2>14, <2>15, <4>1 DEF Left, b
    <3>2. s = Stream(rest2)' /\ ms = sent'  BY <1>6, <2>7, <2>13, <2>15, <3>1 DEF Stream
    <3>3. ReaderAt(s, ms)'
      BY <1>0, <2>7 DEF reader, ReaderAt, AtLen, AtId, AtArgs, AtArg, HeardOf
    <3>4. ReaderAt(Stream(rest2), sent)'  BY <3>2, <3>3
    <3> QED  BY <1>0, <2>4, <2>8, <2>10, <3>4 DEF Alive
  <2>16. CASE ~w[1].begun
    <3>1. rest = <<>>  BY <1>0, <2>2, <2>5, <2>7, <2>16 DEF OnTheWay
    <3>2. PICK m \in SaidMessages, e \in Seq(Nat) :
            m = w[1].of /\ e = Encode(m) /\ c \o rest2 = e
      <4>1. b \o After(w, 1) = Encode(w[1].of)  BY <1>2, <1>3, <2>16 DEF WorkOK, b
      <4> QED  BY <1>13, <2>12, <2>14, <4>1
    <3>3. s \o e = Stream(rest2)'
      <4>1. s = got \o wire
        <5>1. wire \o <<>> = wire  BY <2>8, ConcatEmptySeq
        <5> QED  BY <2>7, <3>1, <5>1 DEF Stream
      <4>2. Regroups(got, wire, e)
        <5>1. got \in Seq(Nat) /\ wire \in Seq(Nat)  BY <2>8
        <5> QED  BY <5>1, Associative
      <4> QED  BY <2>13, <3>2, <4>1, <4>2 DEF Regroups
    <3>4. PICK ms2 : ms2 = Append(ms, m)  OBVIOUS
    <3>5. sent' = ms2  BY <1>6, <2>7, <2>16, <3>2, <3>4
    <3>6. PICK s2 : s2 = s \o e  OBVIOUS
    <3>7. ReaderAt(s2, ms2)  BY <2>7, <3>2, <3>4, <3>6, SaidNext
    <3>8. ReaderAt(s2, ms2)'
      BY <1>0, <3>7 DEF reader, ReaderAt, AtLen, AtId, AtArgs, AtArg, HeardOf
    <3>9. ReaderAt(Stream(rest2), sent)'  BY <3>3, <3>5, <3>6, <3>8
    <3> QED  BY <1>0, <2>4, <2>8, <2>10, <3>9 DEF Alive
  <2> QED  BY <2>15, <2>16
<1> QED  BY <1>10, <1>11, <1>12, <1>14, <1>15 DEF IInv

\* The connection ends at one of its ends.
LEMMA EndKeeps ==
  ASSUME IInv, Close \/ Reset PROVE IInv'
<1>1. /\ conn = "open" /\ work' = [t \in Threads |-> <<>>] /\ file' = Nobody
      /\ UNCHANGED <<left, greeted, reader, sent, crossed>>
      /\ \/ conn' = "closed" /\ wire' = wire
         \/ conn' = "reset" /\ wire' = <<>>
  BY DEF Close, Reset, AllGiveUp
<1>2. \A t \in Threads : work'[t] = <<>> /\ ~Inside(t)'  BY <1>1 DEF Inside
<1>3. Held'  BY <1>2 DEF Held
<1>4. Forms'
  <2>1. WorkOK(<<>>)  BY DEF WorkOK
  <2>2. <<>> \in Seq(CallType)  OBVIOUS
  <2> QED  BY <1>1, <1>2, <2>1, <2>2 DEF Forms
<1>5. Fresh'  BY <1>2 DEF Fresh, Threads
<1>6. Pipe'
  <2>1. <<>> \in Seq(Nat)  OBVIOUS
  <2> QED  BY <1>1, <2>1 DEF IInv, Pipe
<1>7. Apart'  BY <1>2 DEF Apart
<1>8. (Alive \/ Dead)'
  <2>1. Alive  BY <1>1 DEF IInv, Dead
  <2>2. PICK rest \in Seq(Nat) : ReaderAt(Stream(rest), sent)  BY <2>1 DEF Alive
  <2>3. CASE conn' = "closed" /\ wire' = wire
    <3>1. OnTheWay(rest)'  BY <2>3 DEF OnTheWay
    <3>2. ReaderAt(Stream(rest), sent)'
      BY <1>1, <2>2, <2>3 DEF reader, Stream, ReaderAt, AtLen, AtId, AtArgs, AtArg, HeardOf
    <3>3. got' \in Seq(Nat)  BY <1>1, <2>1 DEF reader, Alive
    <3> QED  BY <2>3, <3>1, <3>2, <3>3 DEF Alive
  <2>4. CASE conn' = "reset" /\ wire' = <<>>
    <3>1. HeardOf(sent)'  BY <1>1, <2>2 DEF ReaderAt, HeardOf, reader
    <3> QED  BY <2>4, <3>1 DEF Dead
  <2> QED  BY <1>1, <2>3, <2>4
<1> QED  BY <1>3, <1>4, <1>5, <1>6, <1>7, <1>8 DEF IInv

\* The reader takes what has arrived.
LEMMA ReceivedKeeps ==
  ASSUME IInv, Receive PROVE IInv'
<1>1. UNCHANGED <<sender, conn, sent>> /\ wire # <<>> /\ at # "over"
  BY DEF Receive
<1>2. Held' /\ Forms' /\ Fresh' /\ Apart'
  BY <1>1 DEF IInv, Held, Forms, Fresh, Apart, Inside, sender
<1>3. Alive  BY <1>1 DEF IInv, Dead, Pipe
<1>4. PICK rest \in Seq(Nat), ms \in Seq(SaidMessages) :
        OnTheWay(rest) /\ ms = sent /\ ReaderAt(Stream(rest), ms)
  BY <1>3 DEF Alive, IInv, Pipe
<1>5. got \in Seq(Nat) /\ wire \in Seq(Nat)  BY <1>3 DEF Alive, IInv, Pipe
<1>6. Pipe'
  <2>1. PICK n : n = Min2(Want - Len(got), Len(wire))  OBVIOUS
  <2>2. wire' = SubSeq(wire, n + 1, Len(wire))  BY <2>1 DEF Receive
  <2>3. Want \in Nat \ {0} /\ Len(got) < Want  BY <1>4, WantsMore
  <2>4. Len(got) \in Nat /\ Len(wire) \in Nat  BY <1>5, LenProperties
  <2>5. n \in 0 .. Len(wire)  BY <2>1, <2>3, <2>4 DEF Min2
  <2>6. wire' \in Seq(Nat)  BY <1>5, <2>2, <2>5, Halves
  <2> QED  BY <1>1, <2>6 DEF IInv, Pipe
<1>7. OnTheWay(rest)'  BY <1>1, <1>4 DEF OnTheWay, Inside, sender
<1>8. got' \in Seq(Nat) /\ ReaderAt(Stream(rest), ms)'  BY <1>4, <1>5, ReceiveKeeps
<1>9. Alive'  BY <1>1, <1>3, <1>4, <1>7, <1>8 DEF Alive
<1> QED  BY <1>2, <1>6, <1>9 DEF IInv

\* The reader comes to the end of the connection.
LEMMA EndedKeeps ==
  ASSUME IInv, EndOfFile \/ RecvFails PROVE IInv'
<1>1. UNCHANGED <<sender, wire, conn, sent>> /\ at # "over"
  BY DEF EndOfFile, RecvFails
<1>2. Held' /\ Forms' /\ Fresh' /\ Pipe' /\ Apart'
  BY <1>1 DEF IInv, Held, Forms, Fresh, Pipe, Apart, Inside, sender
<1>3. ASSUME Dead PROVE Dead'
  <2>1. Disconnect
    BY <1>1, <1>3 DEF Dead, EndOfFile, RecvFails, Nothing, IInv, Pipe
  <2>2. at' = "over" /\ UNCHANGED heard  BY <2>1 DEF Disconnect, Goes
  <2>3. HeardOf(sent)' \/ (conn = "closed" /\ LastTorn(sent)')
    BY <1>1, <1>3, <2>2 DEF Dead, HeardOf, LastTorn
  <2> QED  BY <1>1, <1>3, <2>2, <2>3 DEF Dead
<1>4. ASSUME Alive PROVE Dead'
  <2>1. PICK rest \in Seq(Nat), ms \in Seq(SaidMessages) :
          ms = sent /\ ReaderAt(Stream(rest), ms)
    BY <1>4 DEF Alive, IInv, Pipe
  <2>2. Want \in Nat \ {0} /\ at \in {"len", "id", "args"}  BY <2>1, WantsMore
  <2>3. EndOfFile /\ conn = "closed" /\ wire = <<>>
    BY <1>4, <2>2 DEF RecvFails, EndOfFile, Alive
  <2>4. CASE Nothing \/ at # "args"
    <3>1. at' = "over" /\ UNCHANGED heard
      BY <2>3, <2>4 DEF EndOfFile, Disconnect, Goes
    <3>2. HeardOf(sent)'  BY <1>1, <2>1, <3>1 DEF ReaderAt, HeardOf
    <3> QED  BY <1>1, <2>3, <3>1, <3>2 DEF Dead
  <2>5. CASE ~Nothing /\ at = "args"
    <3>1. TakeArg(got) /\ got # <<>>  BY <2>3, <2>5 DEF EndOfFile, Nothing
    <3>2. ReaderAt(got \o rest, ms)
      <4>1. <<>> \o rest = rest  BY ConcatEmptySeq
      <4> QED  BY <2>1, <2>3, <4>1 DEF Stream
    <3>3. got' = <<>> /\ (HeardOf(ms)' \/ LastTorn(ms)')
      BY <1>4, <2>5, <3>1, <3>2, CutShort DEF Alive
    <3> QED  BY <1>1, <2>1, <2>3, <3>3 DEF Dead
  <2> QED  BY <2>4, <2>5
<1> QED  BY <1>2, <1>3, <1>4 DEF IInv

\* The inductive invariant.
Inv == ~crossed => IInv

\* Every step keeps it.
LEMMA NextInv == Inv /\ [Next]_vars => Inv'
<1> SUFFICES ASSUME Inv, [Next]_vars, ~crossed' PROVE IInv'  BY DEF Inv
<1>1. ~crossed
  BY DEF Next, vars, Speak, SendBitfield, HandleInterested, ShowInterest, SendPiece,
         SendCancel, SendHave, RequestPiece, Begin, Write, Close, Reset, AllGiveUp, Read,
         Receive, EndOfFile, RecvFails
<1>2. IInv  BY <1>1 DEF Inv
<1>3. CASE Speak  BY <1>2, <1>3, SpeakKeeps
<1>4. CASE Close \/ Reset  BY <1>2, <1>4, EndKeeps
<1>5. CASE Receive  BY <1>2, <1>5, ReceivedKeeps
<1>6. CASE EndOfFile \/ RecvFails  BY <1>2, <1>6, EndedKeeps
<1>7. ASSUME NEW t \in Threads, Write(t) PROVE IInv'  BY <1>2, <1>7, WriteKeeps
<1>8. CASE UNCHANGED vars
  <2>1. UNCHANGED <<file, work, left, greeted, wire, conn, at, got, len, needs, msg, heard,
                    sent, crossed>>
    BY <1>8 DEF vars, sender, reader
  <2>2. Held' /\ Forms' /\ Fresh' /\ Pipe' /\ Apart'
    BY <1>2, <2>1 DEF IInv, Held, Forms, Fresh, Pipe, Apart, Inside
  <2>3. ASSUME Alive PROVE Alive'
    <3>1. PICK rest \in Seq(Nat) : OnTheWay(rest) /\ ReaderAt(Stream(rest), sent)
      BY <2>3 DEF Alive
    <3>2. OnTheWay(rest)'  BY <2>1, <3>1 DEF OnTheWay, Inside
    <3>3. ReaderAt(Stream(rest), sent)'
      BY <2>1, <3>1 DEF Stream, ReaderAt, AtLen, AtId, AtArgs, AtArg, HeardOf
    <3> QED  BY <2>1, <2>3, <3>2, <3>3 DEF Alive
  <2>4. ASSUME Dead PROVE Dead'  BY <2>1, <2>4 DEF Dead, HeardOf, LastTorn
  <2> QED  BY <1>2, <2>2, <2>3, <2>4 DEF IInv
<1> QED  BY <1>3, <1>4, <1>5, <1>6, <1>7, <1>8 DEF Next, Read

\* As long as no writer without the FILE lock met another in the middle of a message,
\* what is read, in the buffers and left to send is the messages still to be handled.
THEOREM StreamCorrect == Spec => []Inv
<1>1. Init => Inv  BY InitIInv DEF Inv
<1> QED  BY <1>1, NextInv, PTL DEF Spec

\* What was handled is then what was sent, but for the last message at the end.
LEMMA InvHandled == Inv => HandledAsSent /\ TornInLastField
<1> SUFFICES ASSUME IInv, ~crossed PROVE HandledAsSent /\ TornInLastField
  BY DEF Inv, HandledAsSent, TornInLastField
<1>1. HeardOf(sent) \/ (conn = "closed" /\ LastTorn(sent))
  BY DEF IInv, Alive, Dead, ReaderAt
<1>2. Len(sent) \in Nat /\ DOMAIN sent = 1 .. Len(sent)
  BY LenProperties DEF IInv, Pipe
<1>3. CASE HeardOf(sent)
  <2>1. Len(heard) \in Nat /\ DOMAIN heard = 1 .. Len(heard) /\ Len(heard) <= Len(sent)
    BY <1>3, LenProperties DEF HeardOf
  <2>2. \A k \in DOMAIN heard : k \in DOMAIN sent /\ heard[k] = sent[k]
    BY <1>2, <1>3, <2>1 DEF HeardOf
  <2> QED  BY <2>2 DEF HandledAsSent, TornInLastField
<1>4. CASE conn = "closed" /\ LastTorn(sent)
  <2>1. PICK k \in Nat :
          /\ k + 1 <= Len(sent) /\ Len(heard) = k + 1 /\ DOMAIN heard = 1 .. k + 1
          /\ \A i \in 1 .. k : heard[i] = sent[i]
          /\ Torn(heard[k + 1], sent[k + 1])
    BY <1>4 DEF LastTorn
  <2>2. ASSUME NEW i \in DOMAIN heard
        PROVE  i \in DOMAIN sent /\ (heard[i] = sent[i] \/ i = k + 1)
    <3>1. CASE i = k + 1  BY <1>2, <2>1, <3>1
    <3>2. CASE i # k + 1
      <4>1. i \in 1 .. k /\ i \in 1 .. Len(sent)  BY <1>2, <2>1, <3>2
      <4> QED  BY <1>2, <2>1, <4>1
    <3> QED  BY <3>1, <3>2
  <2>3. HandledAsSent  BY <1>4, <2>1, <2>2 DEF HandledAsSent
  <2>4. TornInLastField  BY <2>1, <2>2 DEF TornInLastField, Torn
  <2> QED  BY <2>3, <2>4
<1> QED  BY <1>1, <1>3, <1>4

\* What is handled is what was sent, in that order, although three threads write to
\* one socket and each Send may be interrupted at any byte.
THEOREM HandledCorrect == Spec => []HandledAsSent
  BY StreamCorrect, InvHandled, PTL

\* What is handled of a message that a connection ended in lacks bytes of its last
\* field only, and has some of it.
THEOREM TornCorrect == Spec => []TornInLastField
  BY StreamCorrect, InvHandled, PTL
=============================================================================
