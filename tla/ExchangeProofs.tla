--------------------------- MODULE ExchangeProofs ---------------------------
(***************************************************************************)
(* Proofs about Exchange, for any number of pieces, whatever the clients   *)
(* start with and their memory says, whatever other peers have and however *)
(* much the sockets hold: no request is turned down; what is announced is  *)
(* on disk, and only a client that was misled by its memory is served      *)
(* anything wrong; and the two agree on who is choked.                     *)
(***************************************************************************)
EXTENDS Exchange, SequenceTheorems, FiniteSetTheorems, TLAPS

\* What a client may say: it has what it announces, the other has what it asks for or it
\* was misled, and only a block can be wrong, of a piece that the other was misled about.
TrueMessages(x) ==
  {m \in Messages :
     /\ m.id \in {HAVE_PIECE, BITFIELD} => m.what \subseteq disk[x]
     /\ m.id = REQUEST => m.what \subseteq disk[Other(x)] \/ m.what \subseteq guessed[x]
     /\ ~m.right => m.id = PIECE /\ m.what \subseteq guessed[Other(x)]}

ChanTrue == /\ chan \in [Clients -> Seq(Messages)]
            /\ \A x \in Clients : chan[x] \in Seq(TrueMessages(x))

\* What a client was told of the other is so; and what it is to ask for, or was asked
\* for, is there, unless one was misled.
Knows ==
  \A x \in Clients :
    /\ told[x] \subseteq disk[Other(x)]
    /\ asking[x] \subseteq disk[Other(x)] \/ asking[x] \subseteq guessed[x]
    /\ at[x] \in {"noting", "greeting"} => bits[x] \subseteq disk[Other(x)]
    /\ at[x] = "sending" => bits[x] \subseteq disk[x] \/ bits[x] \subseteq guessed[Other(x)]

\* A client that is choked has shown interest before each request on the wire,
\* and before the one that it is about to send.
HasInterest(s) == \E k \in DOMAIN s : s[k].id = INTERESTED
Covered(s) == \A k \in DOMAIN s :
                s[k].id = REQUEST => \E j \in 1 .. k - 1 : s[j].id = INTERESTED

Turn ==
  \A x \in Clients :
    \/ peer_choking[Other(x)] = 0
    \/ Covered(chan[x]) /\ (asking[x] # {} => HasInterest(chan[x]))

IInv == TypeOK /\ ChanTrue /\ Knows /\ Turn
-----------------------------------------------------------------------------
LEMMA Pair ==
  ASSUME NEW x \in Clients
  PROVE  /\ Other(x) \in Clients /\ Other(x) # x /\ Other(Other(x)) = x
         /\ \A y \in Clients : y = x \/ y = Other(x)
<1>1. IsFiniteSet(Clients \ {x}) /\ Cardinality(Clients \ {x}) = 1
  <2>1. IsFiniteSet(Clients) /\ Cardinality(Clients) = 2  BY ExchangeAssumption
  <2>2. Cardinality(Clients \ {x}) = Cardinality(Clients) - 1 /\ IsFiniteSet(Clients \ {x})
    BY <2>1, FS_RemoveElement
  <2> QED  BY <2>1, <2>2
<1>2. PICK z : Clients \ {x} = {z}
  BY <1>1, FS_Singleton
<1>3. Other(x) = z  BY <1>2 DEF Other
<1>4. Other(z) = x  BY <1>2 DEF Other
<1> QED  BY <1>2, <1>3, <1>4

LEMMA AppendCovered ==
  ASSUME NEW S, NEW s \in Seq(S), NEW t \in Seq(S)
  PROVE  /\ Covered(s) /\ ((\A k \in DOMAIN t : t[k].id # REQUEST) \/ HasInterest(s))
              => Covered(s \o t)
         /\ HasInterest(s) \/ HasInterest(t) => HasInterest(s \o t)
<1> DEFINE n == Len(s)  m == Len(t)  u == s \o t
<1>1. n \in Nat /\ m \in Nat /\ DOMAIN s = 1 .. n /\ DOMAIN t = 1 .. m
  BY LenProperties
<1>2. u \in Seq(S) /\ Len(u) = n + m
      /\ \A k \in 1 .. n + m : u[k] = IF k <= n THEN s[k] ELSE t[k - n]
  BY ConcatProperties
<1>3. DOMAIN u = 1 .. n + m  BY <1>2, LenProperties
<1> HIDE DEF n, m, u
<1>4. ASSUME HasInterest(s) PROVE HasInterest(u)
  <2>1. PICK k \in 1 .. n : s[k].id = INTERESTED  BY <1>1, <1>4 DEF HasInterest
  <2>2. k \in 1 .. n + m /\ k <= n  BY <1>1
  <2> QED  BY <2>1, <2>2, <1>2, <1>3 DEF HasInterest
<1>5. ASSUME HasInterest(t) PROVE HasInterest(u)
  <2>1. PICK k \in 1 .. m : t[k].id = INTERESTED  BY <1>1, <1>5 DEF HasInterest
  <2>2. n + k \in 1 .. n + m /\ ~(n + k <= n) /\ (n + k) - n = k  BY <1>1
  <2> QED  BY <2>1, <2>2, <1>2, <1>3 DEF HasInterest
<1>6. ASSUME Covered(s), (\A k \in DOMAIN t : t[k].id # REQUEST) \/ HasInterest(s)
      PROVE  Covered(u)
  <2> SUFFICES ASSUME NEW k \in 1 .. n + m, u[k].id = REQUEST
               PROVE  \E j \in 1 .. k - 1 : u[j].id = INTERESTED
    BY <1>3 DEF Covered
  <2>1. CASE k <= n
    <3>1. s[k].id = REQUEST /\ k \in 1 .. n  BY <1>1, <1>2, <2>1
    <3>2. PICK j \in 1 .. k - 1 : s[j].id = INTERESTED
      BY <1>1, <1>6, <3>1 DEF Covered
    <3>3. j \in 1 .. n + m /\ j <= n  BY <1>1, <2>1
    <3> QED  BY <3>2, <3>3, <1>2
  <2>2. CASE ~(k <= n)
    <3>1. t[k - n].id = REQUEST /\ k - n \in 1 .. m  BY <1>1, <1>2, <2>2
    <3>2. HasInterest(s)  BY <1>1, <1>6, <3>1
    <3>3. PICK j \in 1 .. n : s[j].id = INTERESTED  BY <1>1, <3>2 DEF HasInterest
    <3>4. j \in 1 .. k - 1 /\ j \in 1 .. n + m /\ j <= n  BY <1>1, <2>2
    <3> QED  BY <3>3, <3>4, <1>2
  <2> QED  BY <2>1, <2>2
<1> QED  BY <1>4, <1>5, <1>6 DEF u

LEMMA TailCovered ==
  ASSUME NEW S, NEW s \in Seq(S), s # <<>>, Covered(s), Head(s).id # INTERESTED
  PROVE  /\ Covered(Tail(s))
         /\ HasInterest(s) => HasInterest(Tail(s))
<1> DEFINE n == Len(s)  t == Tail(s)
<1>1. n \in Nat /\ DOMAIN s = 1 .. n /\ n # 0  BY LenProperties, EmptySeq
<1>2. t \in Seq(S) /\ Len(t) = n - 1 /\ \A k \in 1 .. n - 1 : t[k] = s[k + 1]
  BY HeadTailProperties
<1>3. DOMAIN t = 1 .. n - 1  BY <1>2, LenProperties
<1>4. s[1].id # INTERESTED  OBVIOUS
<1> HIDE DEF n, t
<1>5. Covered(t)
  <2> SUFFICES ASSUME NEW k \in 1 .. n - 1, t[k].id = REQUEST
               PROVE  \E j \in 1 .. k - 1 : t[j].id = INTERESTED
    BY <1>3 DEF Covered
  <2>1. s[k + 1].id = REQUEST /\ k + 1 \in 1 .. n  BY <1>1, <1>2
  <2>2. PICK j \in 1 .. (k + 1) - 1 : s[j].id = INTERESTED
    BY <1>1, <2>1 DEF Covered
  <2>3. j # 1  BY <1>4, <2>2
  <2>4. j - 1 \in 1 .. k - 1 /\ j - 1 \in 1 .. n - 1 /\ (j - 1) + 1 = j
    BY <1>1, <2>3
  <2> QED  BY <1>2, <2>2, <2>4
<1>6. ASSUME HasInterest(s) PROVE HasInterest(t)
  <2>1. PICK j \in 1 .. n : s[j].id = INTERESTED  BY <1>1, <1>6 DEF HasInterest
  <2>2. j # 1  BY <1>4, <2>1
  <2>3. j - 1 \in 1 .. n - 1 /\ (j - 1) + 1 = j  BY <1>1, <2>2
  <2> QED  BY <1>2, <1>3, <2>1, <2>3 DEF HasInterest
<1> QED  BY <1>5, <1>6 DEF t
-----------------------------------------------------------------------------
(***************************************************************************)
(* Sequences with none of a set of messages, or just one of them.          *)
(***************************************************************************)
NoneOf(s, M) == \A k \in DOMAIN s : s[k] \notin M
OneOf(s, M) == \E k \in DOMAIN s : s[k] \in M /\ \A m \in DOMAIN s : s[m] \in M => m = k

\* A sequence that ends with messages has those of both parts.
LEMMA AppendOne ==
  ASSUME NEW S, NEW s \in Seq(S), NEW t \in Seq(S), NEW M
  PROVE  /\ NoneOf(s, M) /\ NoneOf(t, M) => NoneOf(s \o t, M)
         /\ NoneOf(s, M) /\ OneOf(t, M) => OneOf(s \o t, M)
         /\ OneOf(s, M) /\ NoneOf(t, M) => OneOf(s \o t, M)
<1> DEFINE n == Len(s)  m == Len(t)  u == s \o t
<1>1. n \in Nat /\ m \in Nat /\ DOMAIN s = 1 .. n /\ DOMAIN t = 1 .. m
  BY LenProperties
<1>2. u \in Seq(S) /\ Len(u) = n + m
      /\ \A k \in 1 .. n + m : u[k] = IF k <= n THEN s[k] ELSE t[k - n]
  BY ConcatProperties
<1>3. DOMAIN u = 1 .. n + m  BY <1>2, LenProperties
<1> HIDE DEF n, m, u
<1>4. /\ \A k \in 1 .. n : k \in 1 .. n + m /\ u[k] = s[k]
      /\ \A k \in 1 .. m : n + k \in 1 .. n + m /\ u[n + k] = t[k]
  <2>1. \A k \in 1 .. n : k \in 1 .. n + m /\ k <= n  BY <1>1
  <2>2. \A k \in 1 .. m : n + k \in 1 .. n + m /\ ~(n + k <= n) /\ (n + k) - n = k
    BY <1>1
  <2> QED  BY <1>2, <2>1, <2>2
<1>5. ASSUME NEW k \in DOMAIN u, u[k] \in M
      PROVE  \/ k \in DOMAIN s /\ s[k] \in M
             \/ k - n \in DOMAIN t /\ t[k - n] \in M /\ k = n + (k - n)
  <2>1. CASE k <= n  BY <1>1, <1>2, <1>3, <1>5, <2>1
  <2>2. CASE ~(k <= n)
    <3>1. k - n \in 1 .. m /\ k = n + (k - n)  BY <1>1, <1>3, <2>2
    <3> QED  BY <1>1, <1>2, <1>3, <1>5, <2>2, <3>1
  <2> QED  BY <2>1, <2>2
<1>6. NoneOf(s, M) /\ NoneOf(t, M) => NoneOf(u, M)
  BY <1>5 DEF NoneOf
<1>7. ASSUME NoneOf(s, M), OneOf(t, M) PROVE OneOf(u, M)
  <2>1. PICK k \in 1 .. m : t[k] \in M /\ \A j \in 1 .. m : t[j] \in M => j = k
    BY <1>1, <1>7 DEF OneOf
  <2>2. n + k \in DOMAIN u /\ u[n + k] \in M  BY <1>3, <1>4, <2>1
  <2>3. ASSUME NEW j \in DOMAIN u, u[j] \in M PROVE j = n + k
    <3>1. j - n \in DOMAIN t /\ t[j - n] \in M /\ j = n + (j - n)
      BY <1>5, <1>7, <2>3 DEF NoneOf
    <3>2. j - n = k  BY <1>1, <2>1, <3>1
    <3> QED  BY <3>1, <3>2
  <2> QED  BY <2>2, <2>3 DEF OneOf
<1>8. ASSUME OneOf(s, M), NoneOf(t, M) PROVE OneOf(u, M)
  <2>1. PICK k \in 1 .. n : s[k] \in M /\ \A j \in 1 .. n : s[j] \in M => j = k
    BY <1>1, <1>8 DEF OneOf
  <2>2. k \in DOMAIN u /\ u[k] \in M  BY <1>3, <1>4, <2>1, <1>1
  <2>3. ASSUME NEW j \in DOMAIN u, u[j] \in M PROVE j = k
    <3>1. j \in DOMAIN s /\ s[j] \in M
      BY <1>5, <1>8, <2>3 DEF NoneOf
    <3> QED  BY <1>1, <2>1, <3>1
  <2> QED  BY <2>2, <2>3 DEF OneOf
<1> QED  BY <1>7, <1>8, <1>6 DEF u

\* Reading a message takes it away, and no other.
LEMMA TailOne ==
  ASSUME NEW S, NEW s \in Seq(S), s # <<>>, NEW M
  PROVE  /\ NoneOf(s, M) => NoneOf(Tail(s), M) /\ Head(s) \notin M
         /\ OneOf(s, M) /\ Head(s) \in M => NoneOf(Tail(s), M)
         /\ OneOf(s, M) /\ Head(s) \notin M => OneOf(Tail(s), M)
<1> DEFINE n == Len(s)  t == Tail(s)
<1>1. n \in Nat /\ DOMAIN s = 1 .. n /\ n # 0  BY LenProperties, EmptySeq
<1>2. t \in Seq(S) /\ Len(t) = n - 1 /\ \A k \in 1 .. n - 1 : t[k] = s[k + 1]
  BY HeadTailProperties
<1>3. DOMAIN t = 1 .. n - 1  BY <1>2, LenProperties
<1>4. Head(s) = s[1] /\ 1 \in 1 .. n  BY <1>1
<1> HIDE DEF n, t
<1>5. /\ \A k \in 1 .. n - 1 : k + 1 \in 1 .. n /\ k + 1 # 1
      /\ \A k \in 1 .. n : k # 1 => k - 1 \in 1 .. n - 1 /\ (k - 1) + 1 = k
      /\ \A j, k \in 1 .. n - 1 : j + 1 = k + 1 => j = k
  BY <1>1
<1>6. ASSUME NoneOf(s, M) PROVE NoneOf(t, M) /\ Head(s) \notin M
  <2>1. \A k \in 1 .. n : s[k] \notin M  BY <1>1, <1>6 DEF NoneOf
  <2>2. ASSUME NEW k \in 1 .. n - 1 PROVE t[k] \notin M
    <3>1. k + 1 \in 1 .. n /\ t[k] = s[k + 1]  BY <1>2, <1>5
    <3> QED  BY <2>1, <3>1
  <2> QED  BY <1>3, <1>4, <2>1, <2>2 DEF NoneOf
<1>7. ASSUME OneOf(s, M), Head(s) \in M PROVE NoneOf(t, M)
  <2>1. \A j \in 1 .. n : s[j] \in M => j = 1
    BY <1>1, <1>4, <1>7 DEF OneOf
  <2> QED  BY <1>2, <1>3, <1>5, <2>1 DEF NoneOf
<1>8. ASSUME OneOf(s, M), Head(s) \notin M PROVE OneOf(t, M)
  <2>1. PICK k \in 1 .. n : s[k] \in M /\ \A j \in 1 .. n : s[j] \in M => j = k
    BY <1>1, <1>8 DEF OneOf
  <2>2. k # 1  BY <1>4, <1>8, <2>1
  <2>3. k - 1 \in 1 .. n - 1 /\ t[k - 1] \in M  BY <1>2, <1>5, <2>1, <2>2
  <2>4. \A j \in 1 .. n - 1 : t[j] \in M => j = k - 1
    BY <1>1, <1>2, <1>5, <2>1, <2>2
  <2> QED  BY <1>3, <2>3, <2>4 DEF OneOf
<1> QED  BY <1>6, <1>7, <1>8 DEF t
-----------------------------------------------------------------------------
(***************************************************************************)
(* What sending and reading does to the channels, as long as nothing right *)
(* on disk is lost and nobody is choked again.                             *)
(***************************************************************************)
Answers(x) == {m \in TrueMessages(x) : m.id # REQUEST}

Grows == \A x \in Clients : disk[x] \subseteq disk'[x] /\ guessed[x] \subseteq guessed'[x]
StaysUnchoked == \A x \in Clients : peer_choking[x] = 0 => peer_choking'[x] = 0

LEMMA SeqMonotone ==
  ASSUME NEW S, NEW T, S \subseteq T, NEW s \in Seq(S) PROVE s \in Seq(T)
<1>1. Len(s) \in Nat /\ s \in [1 .. Len(s) -> S]  BY LenProperties
<1>2. s \in [1 .. Len(s) -> T]  BY <1>1
<1> QED  BY <1>1, <1>2, SeqDef

LEMMA TrueGrows ==
  ASSUME Grows, NEW x \in Clients
  PROVE  /\ TrueMessages(x) \subseteq TrueMessages(x)'
         /\ \A s \in Seq(TrueMessages(x)) : s \in Seq(TrueMessages(x)')
<1>1. Other(x) \in Clients  BY Pair
<1>2. TrueMessages(x) \subseteq TrueMessages(x)'
  BY <1>1 DEF TrueMessages, Grows
<1> QED  BY <1>2, SeqMonotone

LEMMA TrueTyped ==
  ASSUME NEW x \in Clients, NEW s \in Seq(TrueMessages(x)') PROVE s \in Seq(Messages)
<1>1. TrueMessages(x)' \subseteq Messages  BY DEF TrueMessages, Messages
<1> QED  BY <1>1, SeqMonotone

LEMMA ChanStays ==
  ASSUME ChanTrue, Turn, Grows, StaysUnchoked, UNCHANGED <<chan, asking>>
  PROVE  ChanTrue' /\ Turn'
<1>1. ChanTrue'  BY TrueGrows DEF ChanTrue
<1>2. Turn'  BY Pair DEF Turn, StaysUnchoked
<1> QED  BY <1>1, <1>2

LEMMA SendsKeeps ==
  ASSUME TypeOK, ChanTrue, Turn, Grows, StaysUnchoked,
         NEW x \in Clients, NEW t \in Seq(Answers(x)'), Sends(x, t),
         \A y \in Clients :
           asking'[y] # {} => asking[y] # {} \/ (y = x /\ HasInterest(t))
  PROVE  ChanTrue' /\ Turn'
<1>1. chan' = [chan EXCEPT ![x] = chan[x] \o t] /\ chan \in [Clients -> Seq(Messages)]
  BY DEF Sends, TypeOK
<1>2. chan[x] \in Seq(TrueMessages(x)') /\ t \in Seq(TrueMessages(x)')
  <2>1. Answers(x)' \subseteq TrueMessages(x)'  BY DEF Answers
  <2> QED  BY <2>1, SeqMonotone, TrueGrows DEF ChanTrue
<1>3. \A k \in DOMAIN t : t[k].id # REQUEST
  <2>1. t \in [1 .. Len(t) -> Answers(x)'] /\ DOMAIN t = 1 .. Len(t)
    BY LenProperties
  <2> QED  BY <2>1 DEF Answers
<1>4. chan[x] \o t \in Seq(TrueMessages(x)')  BY <1>2, ConcatProperties
<1>5. ChanTrue'
  <2>1. ASSUME NEW y \in Clients PROVE chan'[y] \in Seq(TrueMessages(y)')
    <3>1. CASE y = x  BY <1>1, <1>4, <3>1
    <3>2. CASE y # x  BY <1>1, <3>2, TrueGrows DEF ChanTrue
    <3> QED  BY <3>1, <3>2
  <2> QED  BY <1>1, <2>1, TrueTyped DEF ChanTrue
<1>6. Turn'
  <2>1. ASSUME NEW y \in Clients, peer_choking'[Other(y)] # 0
        PROVE  Covered(chan'[y]) /\ (asking'[y] # {} => HasInterest(chan'[y]))
    <3>1. Covered(chan[y]) /\ (asking[y] # {} => HasInterest(chan[y]))
      BY <2>1, Pair DEF Turn, StaysUnchoked
    <3>2. CASE y = x
      <4>1. chan'[y] = chan[x] \o t  BY <1>1, <3>2
      <4>2. Covered(chan[x] \o t) /\ (HasInterest(chan[x]) \/ HasInterest(t)
                                        => HasInterest(chan[x] \o t))
        BY <1>2, <1>3, <3>1, <3>2, AppendCovered
      <4> QED  BY <3>1, <3>2, <4>1, <4>2
    <3>3. CASE y # x  BY <1>1, <3>1, <3>3
    <3> QED  BY <3>2, <3>3
  <2> QED  BY <2>1 DEF Turn
<1> QED  BY <1>5, <1>6

LEMMA ReadsKeeps ==
  ASSUME TypeOK, ChanTrue, Turn, Grows, StaysUnchoked,
         NEW x \in Clients, NEW t \in Seq(Answers(x)'), Reads(x, t),
         chan[Other(x)] # <<>>, UNCHANGED asking,
         Head(chan[Other(x)]).id = INTERESTED => peer_choking'[x] = 0
  PROVE  ChanTrue' /\ Turn'
<1> DEFINE o == Other(x)
<1>1. o \in Clients /\ o # x /\ Other(o) = x /\ \A y \in Clients : y = x \/ y = o
  BY Pair
<1> HIDE DEF o
<1>2. /\ chan' = [chan EXCEPT ![o] = Tail(chan[o]), ![x] = chan[x] \o t]
      /\ chan \in [Clients -> Seq(Messages)]
  BY <1>1 DEF Reads, TypeOK, o
<1>3. chan'[x] = chan[x] \o t /\ chan'[o] = Tail(chan[o])  BY <1>1, <1>2
<1>4. chan[x] \in Seq(TrueMessages(x)') /\ t \in Seq(TrueMessages(x)')
      /\ chan[o] \in Seq(TrueMessages(o)') /\ chan[o] # <<>>
  <2>1. Answers(x)' \subseteq TrueMessages(x)'  BY DEF Answers
  <2> QED  BY <1>1, <2>1, SeqMonotone, TrueGrows DEF ChanTrue, o
<1>5. \A k \in DOMAIN t : t[k].id # REQUEST
  <2>1. t \in [1 .. Len(t) -> Answers(x)'] /\ DOMAIN t = 1 .. Len(t)
    BY LenProperties
  <2> QED  BY <2>1 DEF Answers
<1>6. ChanTrue'
  <2>1. chan'[x] \in Seq(TrueMessages(x)')  BY <1>3, <1>4, ConcatProperties
  <2>2. chan'[o] \in Seq(TrueMessages(o)')  BY <1>3, <1>4, HeadTailProperties
  <2> QED  BY <1>1, <1>2, <2>1, <2>2, TrueTyped DEF ChanTrue
<1>7. peer_choking'[o] = 0
      \/ (Covered(chan'[x]) /\ (asking'[x] # {} => HasInterest(chan'[x])))
  <2>1. \/ peer_choking[o] = 0
        \/ Covered(chan[x]) /\ (asking[x] # {} => HasInterest(chan[x]))
    BY DEF Turn, o
  <2>2. /\ Covered(chan[x]) => Covered(chan[x] \o t)
        /\ HasInterest(chan[x]) => HasInterest(chan[x] \o t)
    BY <1>4, <1>5, AppendCovered
  <2> QED  BY <1>1, <1>3, <2>1, <2>2 DEF StaysUnchoked
<1>8. peer_choking'[x] = 0
      \/ (Covered(chan'[o]) /\ (asking'[o] # {} => HasInterest(chan'[o])))
  <2>1. \/ peer_choking[x] = 0
        \/ Covered(chan[o]) /\ (asking[o] # {} => HasInterest(chan[o]))
    BY <1>1 DEF Turn
  <2>2. CASE Head(chan[o]).id = INTERESTED  BY <2>2 DEF o
  <2>3. CASE Head(chan[o]).id # INTERESTED
    <3>1. Covered(chan[o]) => Covered(Tail(chan[o]))
                              /\ (HasInterest(chan[o]) => HasInterest(Tail(chan[o])))
      BY <1>4, <2>3, TailCovered
    <3> QED  BY <1>3, <2>1, <3>1 DEF StaysUnchoked
  <2> QED  BY <2>2, <2>3
<1>9. Turn'  BY <1>1, <1>7, <1>8 DEF Turn, o
<1> QED  BY <1>6, <1>9
-----------------------------------------------------------------------------
LEMMA Greetings ==
  ASSUME NEW x \in Clients
  PROVE  /\ <<>> \in Seq(Answers(x)')
         /\ Unchoke(x) \in Seq(Answers(x)') /\ Interest(x) \in Seq(Answers(x)')
         /\ <<Message(INTERESTED, {})>> \in Seq(Answers(x)')
         /\ HasInterest(<<Message(INTERESTED, {})>>)
<1>1. Message(UNCHOKE, {}) \in Answers(x)' /\ Message(INTERESTED, {}) \in Answers(x)'
  BY DEF Answers, TrueMessages, Messages, Message, UNCHOKE, INTERESTED, HAVE_PIECE,
         BITFIELD, REQUEST, PIECE
<1>2. \A m \in Answers(x)' : <<m>> \in Seq(Answers(x)')  OBVIOUS
<1>3. HasInterest(<<Message(INTERESTED, {})>>)
  BY DEF HasInterest, Message
<1>4. <<>> \in Seq(Answers(x)')  BY EmptySeq
<1> QED  BY <1>1, <1>2, <1>3, <1>4 DEF Unchoke, Interest

LEMMA Announced ==
  ASSUME NEW x \in Clients, NEW i \in Pieces, i \in disk'[x]
  PROVE  Have(x, i) \in Seq(Answers(x)')
<1>1. Message(HAVE_PIECE, {i}) \in Answers(x)'
  BY DEF Answers, TrueMessages, Messages, Message, UNCHOKE, INTERESTED, HAVE_PIECE,
         BITFIELD, REQUEST, PIECE
<1>2. <<Message(HAVE_PIECE, {i})>> \in Seq(Answers(x)')  BY <1>1
<1> QED  BY <1>2, Greetings DEF Have

LEMMA Received ==
  ASSUME ChanTrue, NEW x \in Clients, NEW id, Incoming(x, id)
  PROVE  /\ chan[Other(x)] # <<>> /\ Head(chan[Other(x)]).id = id
         /\ What(x) \subseteq Pieces
         /\ id \in {HAVE_PIECE, BITFIELD} => What(x) \subseteq disk[Other(x)]
         /\ id = REQUEST => What(x) \subseteq disk[x] \/ What(x) \subseteq guessed[Other(x)]
<1>1. Other(x) \in Clients /\ Other(Other(x)) = x  BY Pair
<1>2. Head(chan[Other(x)]) \in TrueMessages(Other(x))
  BY <1>1, HeadTailProperties DEF ChanTrue, Incoming
<1> QED  BY <1>1, <1>2 DEF TrueMessages, Messages, Incoming, What

\* A message is read and not answered.
LEMMA ReadsOnly ==
  ASSUME IInv, NEW x \in Clients, NEW id, Incoming(x, id), id # INTERESTED,
         Reads(x, <<>>), UNCHANGED <<disk, guessed, peer_choking, asking>>
  PROVE  ChanTrue' /\ Turn'
<1>1. Grows /\ StaysUnchoked  BY DEF Grows, StaysUnchoked
<1>2. chan[Other(x)] # <<>> /\ Head(chan[Other(x)]).id # INTERESTED
  BY Received DEF IInv
<1> QED  BY <1>1, <1>2, Greetings, ReadsKeeps DEF IInv

(***************************************************************************)
(* Where the request for a piece is: to be sent, on the wire, being        *)
(* served, or answered on the wire.  It is in one place at most, as long   *)
(* as the piece is marked as requested; so a wrong block, which drops its  *)
(* piece, finds nothing to drop.                                           *)
(***************************************************************************)
Asks(i) == {m \in Messages : m.id = REQUEST /\ i \in m.what}
Gives(i) == {m \in Messages : m.id = PIECE /\ i \in m.what}
Serves(x, i) == at[x] = "sending" /\ i \in bits[x]

Quiet(x, i) == /\ i \notin asking[x] /\ NoneOf(chan[x], Asks(i))
               /\ ~Serves(Other(x), i) /\ NoneOf(chan[Other(x)], Gives(i))

Once(x, i) ==
  \/ /\ i \in asking[x] /\ NoneOf(chan[x], Asks(i))
     /\ ~Serves(Other(x), i) /\ NoneOf(chan[Other(x)], Gives(i))
  \/ /\ i \notin asking[x] /\ OneOf(chan[x], Asks(i))
     /\ ~Serves(Other(x), i) /\ NoneOf(chan[Other(x)], Gives(i))
  \/ /\ i \notin asking[x] /\ NoneOf(chan[x], Asks(i))
     /\ Serves(Other(x), i) /\ NoneOf(chan[Other(x)], Gives(i))
  \/ /\ i \notin asking[x] /\ NoneOf(chan[x], Asks(i))
     /\ ~Serves(Other(x), i) /\ OneOf(chan[Other(x)], Gives(i))

Requested(x, i) == /\ pieces_state_arr[x][i] = PIECE_REQUESTING
                   /\ i \notin disk[x] /\ i \notin asked[x]

Ledger(x, i) == Quiet(x, i) \/ (Once(x, i) /\ Requested(x, i))

Marked(x, i) ==
  /\ pieces_state_arr[x][i] = PIECE_HAVNT => i \notin disk[x]
  /\ i \in asked[x] => pieces_state_arr[x][i] = PIECE_REQUESTING /\ i \notin disk[x]

Tracked == \A x \in Clients, i \in Pieces : Ledger(x, i) /\ Marked(x, i)

\* The piece that a block is of was asked for once, and is not here.
LEMMA GivenOnce ==
  ASSUME TypeOK, Tracked, NEW x \in Clients, Incoming(x, PIECE), NEW i \in What(x), i \in Pieces
  PROVE  /\ Head(chan[Other(x)]) \in Gives(i) /\ OneOf(chan[Other(x)], Gives(i))
         /\ i \notin asking[x] /\ NoneOf(chan[x], Asks(i)) /\ ~Serves(Other(x), i)
         /\ Requested(x, i)
<1>1. Other(x) \in Clients /\ chan[Other(x)] \in Seq(Messages) /\ chan[Other(x)] # <<>>
  BY Pair DEF TypeOK, Incoming
<1>2. Head(chan[Other(x)]) \in Gives(i)
  BY <1>1, HeadTailProperties DEF Incoming, What, Gives
<1>3. ~NoneOf(chan[Other(x)], Gives(i))  BY <1>1, <1>2, TailOne
<1> QED  BY <1>2, <1>3 DEF Tracked, Ledger, Quiet, Once

LEMMA GivenIsMissing ==
  ASSUME TypeOK, Tracked, NEW x \in Clients, Incoming(x, PIECE), NEW i \in What(x), i \in Pieces
  PROVE  i \notin disk[x]
BY GivenOnce DEF Requested

LEMMA SendBitfieldIInv ==
  ASSUME IInv, NEW x \in Clients, SendBitfield(x) PROVE IInv'
<1> USE DEF IInv, recorded
<1>1. ChanTrue' /\ Turn'
  <2>1. Message(BITFIELD, disk[x]) \in Answers(x)'
    BY DEF SendBitfield, fileVars, TypeOK, Answers, TrueMessages, Messages, Message,
           UNCHOKE, INTERESTED, HAVE_PIECE, BITFIELD, REQUEST, PIECE
  <2>2. <<Message(BITFIELD, disk[x])>> \in Seq(Answers(x)')  BY <2>1
  <2> QED  BY <2>2, SendsKeeps
           DEF SendBitfield, fileVars, flags, requesterVars, Grows, StaysUnchoked
<1>2. TypeOK'
  BY <1>1 DEF TypeOK, ChanTrue, SendBitfield, Goes, fileVars, flags, requesterVars,
              otherVars
<1>3. Knows'
  BY DEF Knows, TypeOK, SendBitfield, Goes, fileVars, requesterVars
<1> QED  BY <1>1, <1>2, <1>3

LEMMA UnchokeIInv ==
  ASSUME IInv, NEW x \in Clients, HandleUnchoke(x) PROVE IInv'
<1> USE DEF IInv, recorded
<1>1. ChanTrue' /\ Turn'
  <2>1. UNCHOKE # INTERESTED  BY DEF UNCHOKE, INTERESTED
  <2> QED  BY <2>1, ReadsOnly DEF HandleUnchoke, fileVars, requesterVars
<1>2. TypeOK'
  BY <1>1 DEF TypeOK, ChanTrue, HandleUnchoke, fileVars, receiverVars, requesterVars,
              otherVars
<1>3. Knows'
  BY DEF Knows, HandleUnchoke, fileVars, receiverVars, requesterVars
<1> QED  BY <1>1, <1>2, <1>3

\* The step that unchokes the peer is the one that takes its interest off the wire.
LEMMA InterestedIInv ==
  ASSUME IInv, NEW x \in Clients, HandleInterested(x) PROVE IInv'
<1> USE DEF IInv, recorded
<1>1. ChanTrue' /\ Turn'
  <2>1. StaysUnchoked /\ peer_choking'[x] = 0
    BY DEF HandleInterested, Unchoked, StaysUnchoked, TypeOK
  <2> QED  BY <2>1, Greetings, Received, ReadsKeeps
           DEF HandleInterested, fileVars, requesterVars, Grows
<1>2. TypeOK'
  BY <1>1 DEF TypeOK, ChanTrue, HandleInterested, Unchoked, fileVars, receiverVars,
              requesterVars, otherVars
<1>3. Knows'
  BY DEF Knows, HandleInterested, fileVars, receiverVars, requesterVars
<1> QED  BY <1>1, <1>2, <1>3

LEMMA HaveIInv ==
  ASSUME IInv, NEW x \in Clients, HandleHave(x) PROVE IInv'
<1> USE DEF IInv, recorded
<1>1. ChanTrue' /\ Turn'
  <2>1. PICK t \in Seq(Answers(x)') : Reads(x, t)
    <3>1. Unchoke(x) \o Interest(x) \o <<Message(INTERESTED, {})>> \in Seq(Answers(x)')
      BY Greetings, ConcatProperties
    <3> QED  BY <3>1, Greetings DEF HandleHave
  <2>2. StaysUnchoked
    BY DEF HandleHave, Unchoked, StaysUnchoked, TypeOK
  <2> QED  BY <2>1, <2>2, Received, ReadsKeeps
           DEF HandleHave, fileVars, requesterVars, Grows, HAVE_PIECE, INTERESTED
<1>2. TypeOK'
  BY <1>1 DEF TypeOK, ChanTrue, HandleHave, Unchoked, Interested, fileVars,
              receiverVars, requesterVars, otherVars
<1>3. Knows'
  BY DEF Knows, HandleHave, fileVars, receiverVars, requesterVars
<1> QED  BY <1>1, <1>2, <1>3

LEMMA BitfieldIInv ==
  ASSUME IInv, NEW x \in Clients, HandleBitfield(x) PROVE IInv'
<1> USE DEF IInv, recorded
<1>1. ChanTrue' /\ Turn'
  <2>1. BITFIELD # INTERESTED  BY DEF BITFIELD, INTERESTED
  <2> QED  BY <2>1, ReadsOnly DEF HandleBitfield, fileVars, flags, requesterVars
<1>2. TypeOK'
  <2>1. 0 \in Pieces  BY ExchangeAssumption DEF Pieces
  <2> QED  BY <1>1, <2>1, Received
           DEF TypeOK, ChanTrue, HandleBitfield, Goes, fileVars, flags, requesterVars,
               otherVars
<1>3. Knows'
  <2>1. What(x) \subseteq disk[Other(x)]  BY Received DEF HandleBitfield
  <2>2. /\ UNCHANGED <<disk, told, guessed, asking>>
        /\ at' = [at EXCEPT ![x] = "noting"] /\ bits' = [bits EXCEPT ![x] = What(x)]
    BY DEF HandleBitfield, Goes, fileVars, requesterVars
  <2>3. \A y \in Clients : y # x => at'[y] = at[y] /\ bits'[y] = bits[y]
    BY <2>2 DEF TypeOK
  <2>4. at'[x] = "noting" /\ bits'[x] = What(x)  BY <2>2 DEF TypeOK
  <2> QED  BY <2>1, <2>2, <2>3, <2>4 DEF Knows
<1> QED  BY <1>1, <1>2, <1>3

LEMMA NextBitType ==
  ASSUME TypeOK, NEW x \in Clients, NextBit(x)
  PROVE  /\ cursor' \in [Clients -> Pieces]
         /\ at' \in [Clients -> {"start", "reading", "noting", "greeting", "sending"}]
         /\ at'[x] # "sending" /\ \A y \in Clients : y # x => at'[y] = at[y]
<1>1. cursor[x] + 1 # NumPieces => cursor[x] + 1 \in Pieces
  <2>1. cursor[x] \in Pieces  BY DEF TypeOK
  <2>2. NumPieces \in Nat  BY ExchangeAssumption
  <2> QED  BY <2>1, <2>2 DEF Pieces
<1>2. cursor \in [Clients -> Pieces]
      /\ at \in [Clients -> {"start", "reading", "noting", "greeting", "sending"}]
  BY DEF TypeOK
<1>3. CASE cursor[x] + 1 = NumPieces  BY <1>2, <1>3 DEF NextBit, Goes
<1>4. CASE cursor[x] + 1 # NumPieces  BY <1>1, <1>2, <1>4 DEF NextBit, Goes
<1> QED  BY <1>3, <1>4

\* What is recorded of a piece keeps its type.
LEMMA RecordsPiece ==
  ASSUME TypeOK, NEW x \in Clients, NEW i \in Pieces,
         peer_pieces_state' = [peer_pieces_state EXCEPT ![x][i] = PEER_HAVE]
  PROVE  peer_pieces_state' \in [Clients -> [Pieces -> Int]]
  BY DEF TypeOK, PEER_HAVE

LEMMA NotePieceIInv ==
  ASSUME IInv, NEW x \in Clients, NotePiece(x) PROVE IInv'
<1> USE DEF IInv, recorded
<1>1. ChanTrue' /\ Turn'
  BY ChanStays DEF NotePiece, fileVars, flags, requesterVars, Grows, StaysUnchoked
<1>2. /\ cursor' \in [Clients -> Pieces]
      /\ at' \in [Clients -> {"start", "reading", "noting", "greeting", "sending"}]
      /\ at'[x] # "sending" /\ \A y \in Clients : y # x => at'[y] = at[y]
  BY NextBitType DEF NotePiece, TypeOK, Goes
<1>3. /\ peer_pieces_state' \in [Clients -> [Pieces -> Int]]
      /\ told' \in [Clients -> SUBSET Pieces]
      /\ \A y \in Clients : told'[y] \subseteq disk[Other(y)]
  <2>1. CASE BitSet(x)
    <3>1. cursor[x] \in Pieces /\ cursor[x] \in disk[Other(x)]
      BY <2>1 DEF TypeOK, Knows, NotePiece, BitSet
    <3>2. /\ peer_pieces_state' = [peer_pieces_state EXCEPT ![x][cursor[x]] = PEER_HAVE]
          /\ told' = [told EXCEPT ![x] = told[x] \cup {cursor[x]}]
      BY <2>1 DEF NotePiece
    <3>3. told \in [Clients -> SUBSET Pieces] /\ \A y \in Clients : told[y] \subseteq disk[Other(y)]
      BY DEF TypeOK, Knows
    <3>4. told'[x] = told[x] \cup {cursor[x]} /\ \A y \in Clients : y # x => told'[y] = told[y]
      BY <3>2, <3>3
    <3>5. told' \in [Clients -> SUBSET Pieces]  BY <3>1, <3>2, <3>3
    <3> QED  BY <3>1, <3>2, <3>3, <3>4, <3>5, RecordsPiece
  <2>2. CASE ~BitSet(x)  BY <2>2 DEF NotePiece, TypeOK, Knows
  <2> QED  BY <2>1, <2>2
<1>4. TypeOK'
  BY <1>1, <1>2, <1>3 DEF TypeOK, ChanTrue, NotePiece, fileVars, flags,
                          requesterVars, otherVars
<1>5. Knows'
  <2>1. \A y \in Clients : at'[y] \in {"noting", "greeting"}
                           => at[y] \in {"noting", "greeting"}
    BY <1>2 DEF NotePiece
  <2> QED  BY <1>2, <1>3, <2>1 DEF Knows, NotePiece, fileVars, requesterVars
<1> QED  BY <1>1, <1>4, <1>5

LEMMA GreetPieceIInv ==
  ASSUME IInv, NEW x \in Clients, GreetPiece(x) PROVE IInv'
<1> USE DEF IInv, recorded
<1>1. ChanTrue' /\ Turn'
  <2>1. Unchoke(x) \o Interest(x) \in Seq(Answers(x)')
    BY Greetings, ConcatProperties
  <2>2. StaysUnchoked  BY DEF GreetPiece, Unchoked, StaysUnchoked, TypeOK
  <2> QED  BY <2>1, <2>2, SendsKeeps DEF GreetPiece, fileVars, requesterVars, Grows
<1>2. /\ cursor' \in [Clients -> Pieces]
      /\ at' \in [Clients -> {"start", "reading", "noting", "greeting", "sending"}]
      /\ at'[x] # "sending" /\ \A y \in Clients : y # x => at'[y] = at[y]
  BY NextBitType DEF GreetPiece
<1>3. TypeOK'
  BY <1>1, <1>2 DEF TypeOK, ChanTrue, GreetPiece, Unchoked, Interested, fileVars,
                    requesterVars, otherVars
<1>4. Knows'
  BY <1>2 DEF Knows, GreetPiece, fileVars, requesterVars
<1> QED  BY <1>1, <1>3, <1>4

LEMMA RequestIInv ==
  ASSUME IInv, NEW x \in Clients, HandleRequest(x) PROVE IInv'
<1> USE DEF IInv, recorded
<1>1. ChanTrue' /\ Turn'
  <2>1. REQUEST # INTERESTED  BY DEF REQUEST, INTERESTED
  <2> QED  BY <2>1, ReadsOnly DEF HandleRequest, fileVars, flags, requesterVars
<1>2. /\ What(x) \subseteq Pieces
      /\ What(x) \subseteq disk[x] \/ What(x) \subseteq guessed[Other(x)]
  BY Received DEF HandleRequest
<1>3. TypeOK'
  <2>1. chan' \in [Clients -> Seq(Messages)]  BY <1>1 DEF ChanTrue
  <2>2. bits' \in [Clients -> SUBSET Pieces]  BY <1>2 DEF TypeOK, HandleRequest
  <2>3. at' \in [Clients -> {"start", "reading", "noting", "greeting", "sending"}]
    BY DEF TypeOK, HandleRequest, Goes
  <2> QED
    BY <2>1, <2>2, <2>3
       DEF TypeOK, HandleRequest, fileVars, flags, requesterVars, otherVars
<1>4. Knows'
  <2>1. \A y \in Clients : at'[y] \in {"noting", "greeting"}
                           => at'[y] = at[y] /\ bits'[y] = bits[y]
    BY DEF HandleRequest, Incoming, TypeOK, Goes
  <2>2. \A y \in Clients : at'[y] = "sending"
          => bits'[y] \subseteq disk[y] \/ bits'[y] \subseteq guessed[Other(y)]
    <3> SUFFICES ASSUME NEW y \in Clients, at'[y] = "sending"
                 PROVE  bits'[y] \subseteq disk[y] \/ bits'[y] \subseteq guessed[Other(y)]
      OBVIOUS
    <3>1. CASE UNCHANGED <<bits, at>>  BY <3>1 DEF Knows
    <3>2. CASE bits' = [bits EXCEPT ![x] = What(x)] /\ at' = [at EXCEPT ![x] = "sending"]
      <4>1. y = x => bits'[y] = What(x)  BY <3>2 DEF TypeOK
      <4>2. y # x => bits'[y] = bits[y] /\ at'[y] = at[y]  BY <3>2 DEF TypeOK
      <4> QED  BY <1>2, <4>1, <4>2 DEF Knows
    <3> QED  BY <3>1, <3>2 DEF HandleRequest, Goes
  <2> QED  BY <2>1, <2>2 DEF Knows, HandleRequest, fileVars, requesterVars
<1> QED  BY <1>1, <1>3, <1>4

LEMMA SendPieceIInv ==
  ASSUME IInv, NEW x \in Clients, SendPiece(x) PROVE IInv'
<1> USE DEF IInv, recorded
<1> DEFINE m == [id |-> PIECE, what |-> bits[x], right |-> BlockRight(x)]
<1>1. ChanTrue' /\ Turn'
  <2>1. BlockRight(x) \in BOOLEAN /\ (~BlockRight(x) => bits[x] \subseteq guessed[Other(x)])
    BY DEF SendPiece, Knows, BlockRight
  <2>2. m \in Answers(x)'
    BY <2>1 DEF SendPiece, fileVars, TypeOK, Answers, TrueMessages, Messages,
                UNCHOKE, INTERESTED, HAVE_PIECE, BITFIELD, REQUEST, PIECE
  <2>3. <<m>> \in Seq(Answers(x)')  BY <2>2
  <2> QED  BY <2>3, SendsKeeps
           DEF SendPiece, fileVars, flags, requesterVars, Grows, StaysUnchoked
<1>2. TypeOK'
  BY <1>1 DEF TypeOK, ChanTrue, SendPiece, Goes, fileVars, flags, requesterVars,
              otherVars
<1>3. Knows'
  BY DEF Knows, TypeOK, SendPiece, Goes, fileVars, requesterVars
<1> QED  BY <1>1, <1>2, <1>3

\* A block that is right is added, and one that is wrong takes nothing away: the piece
\* it is of was asked for once, and is not here.
LEMMA PieceIInv ==
  ASSUME IInv, Tracked, NEW x \in Clients, HandlePiece(x) PROVE IInv'
<1> USE DEF IInv, recorded
<1>1. /\ What(x) \subseteq Pieces /\ chan[Other(x)] # <<>>
      /\ Head(chan[Other(x)]).id = PIECE
  BY Received DEF HandlePiece
<1>2. /\ UNCHANGED <<peer_choking, asking, booking, at, bits, told, guessed>>
      /\ StaysUnchoked /\ Head(chan[Other(x)]).id # INTERESTED
  BY <1>1 DEF HandlePiece, flags, requesterVars, receiverVars, StaysUnchoked, PIECE, INTERESTED
<1>3. PICK i \in What(x) :
        \/ /\ Completes(x, i)
           /\ Reads(x, Have(x, i))
           /\ peer_pieces_state' = [peer_pieces_state EXCEPT ![x][i] = PEER_HAVE]
        \/ /\ disk' = [disk EXCEPT ![x] = @ \ {i}]
           /\ Reads(x, <<>>)
           /\ UNCHANGED <<pieces_state_arr, peer_pieces_state>>
  BY DEF HandlePiece
<1>4. i \in Pieces  BY <1>1
<1>5. /\ Grows /\ disk' \in [Clients -> SUBSET Pieces]
      /\ Completes(x, i) => i \in disk'[x]
  <2>1. CASE Completes(x, i)
    BY <1>2, <1>4, <2>1 DEF Completes, Grows, TypeOK
  <2>2. CASE disk' = [disk EXCEPT ![x] = @ \ {i}] /\ ~Completes(x, i)
    <3>1. i \notin disk[x]  BY <1>1, <1>3, <1>4, GivenIsMissing DEF HandlePiece
    <3>2. disk \in [Clients -> SUBSET Pieces]  BY DEF TypeOK
    <3>3. disk' = disk  BY <2>2, <3>1, <3>2
    <3> QED  BY <1>2, <2>2, <3>2, <3>3 DEF Grows
  <2> QED  BY <1>3, <2>1, <2>2
<1>6. ChanTrue' /\ Turn'
  <2>1. PICK t \in Seq(Answers(x)') : Reads(x, t)
    BY <1>3, <1>4, <1>5, Announced, Greetings
  <2> QED  BY <1>1, <1>2, <1>5, <2>1, ReadsKeeps
<1>7. /\ peer_pieces_state' \in [Clients -> [Pieces -> Int]]
      /\ pieces_state_arr' \in [Clients -> [Pieces ->
           {PIECE_REQUESTING, PIECE_COMPLETED, PIECE_HAVNT}]]
  <2>1. peer_pieces_state' \in [Clients -> [Pieces -> Int]]
    BY <1>3, <1>4, RecordsPiece DEF TypeOK
  <2>2. pieces_state_arr' \in [Clients -> [Pieces ->
          {PIECE_REQUESTING, PIECE_COMPLETED, PIECE_HAVNT}]]
    <3>1. \/ pieces_state_arr' = [pieces_state_arr EXCEPT ![x][i] = PIECE_COMPLETED]
          \/ UNCHANGED pieces_state_arr
      BY <1>3 DEF Completes
    <3>2. pieces_state_arr \in [Clients -> [Pieces ->
            {PIECE_REQUESTING, PIECE_COMPLETED, PIECE_HAVNT}]]
      BY DEF TypeOK
    <3> QED  BY <1>4, <3>1, <3>2
  <2> QED  BY <2>1, <2>2
<1>8. TypeOK'
  BY <1>5, <1>6, <1>7 DEF TypeOK, ChanTrue, HandlePiece, flags, receiverVars,
                          requesterVars, otherVars
<1>9. Knows'
  BY <1>2, <1>5, Pair DEF Knows, Grows
<1> QED  BY <1>6, <1>8, <1>9

\* A piece is asked for that the other was said to have, or by a client that is misled.
LEMMA AskIInv ==
  ASSUME IInv, NEW x \in Clients, NEW i \in Pieces, Ask(x, i) PROVE IInv'
<1> USE DEF IInv, recorded
<1>1. /\ guessed' = [guessed EXCEPT ![x] = guessed[x] \cup ({i} \ told[x])]
      /\ asking' = [asking EXCEPT ![x] = {i}]
      /\ UNCHANGED <<disk, told, at, bits, peer_choking>>
      /\ guessed \in [Clients -> SUBSET Pieces] /\ asking \in [Clients -> SUBSET Pieces]
  BY DEF Ask, TypeOK, receiverVars
<1>2. /\ guessed' \in [Clients -> SUBSET Pieces]
      /\ \A y \in Clients : guessed[y] \subseteq guessed'[y]
      /\ i \in told[x] \/ i \in guessed'[x]
      /\ asking'[x] = {i} /\ \A y \in Clients : y # x => asking'[y] = asking[y]
  BY <1>1
<1>3. ChanTrue' /\ Turn'
  <2>1. Grows /\ StaysUnchoked  BY <1>1, <1>2 DEF Grows, StaysUnchoked
  <2> QED  BY <1>2, <2>1, Greetings, SendsKeeps DEF Ask, ShowInterest
<1>4. TypeOK'
  BY <1>2, <1>3 DEF TypeOK, ChanTrue, Ask, Marks, ShowInterest, Interested, receiverVars,
                    otherVars
<1>5. Knows'
  BY <1>1, <1>2, Pair DEF Knows
<1> QED  BY <1>3, <1>4, <1>5

\* The interest that precedes it on the wire covers the request.
LEMMA SendRequestIInv ==
  ASSUME IInv, NEW x \in Clients, SendRequest(x) PROVE IInv'
<1> USE DEF IInv, recorded
<1> DEFINE m == Message(REQUEST, asking[x])
<1>1. m \in TrueMessages(x)
  <2>1. /\ asking[x] \in SUBSET Pieces
        /\ asking[x] \subseteq disk[Other(x)] \/ asking[x] \subseteq guessed[x]
    BY DEF TypeOK, Knows
  <2>2. m \in Messages /\ m.id = REQUEST /\ m.what = asking[x] /\ m.right
    BY <2>1 DEF Messages, Message
  <2>3. REQUEST \notin {HAVE_PIECE, BITFIELD}  BY DEF REQUEST, HAVE_PIECE, BITFIELD
  <2> HIDE DEF m
  <2> QED  BY <2>1, <2>2, <2>3 DEF TrueMessages
<1>2. <<m>> \in Seq(TrueMessages(x)) /\ chan[x] \in Seq(TrueMessages(x))
  BY <1>1 DEF ChanTrue
<1>3. /\ chan' = [chan EXCEPT ![x] = chan[x] \o <<m>>]
      /\ chan \in [Clients -> Seq(Messages)]
      /\ UNCHANGED <<disk, guessed, peer_choking>> /\ asking' = [asking EXCEPT ![x] = {}]
      /\ asking[x] # {}
  BY DEF SendRequest, Sends, fileVars, flags, ChanTrue
<1>4. Grows  BY <1>3 DEF Grows
<1> HIDE DEF m
<1>5. ChanTrue'
  <2>1. \A y \in Clients : chan'[y] \in Seq(TrueMessages(y))
    BY <1>2, <1>3, ConcatProperties DEF ChanTrue
  <2>2. \A y \in Clients : chan'[y] \in Seq(TrueMessages(y)')
    BY <1>4, <2>1, TrueGrows
  <2> QED  BY <1>3, <2>2, TrueTyped DEF ChanTrue
<1>6. Turn'
  <2>1. ASSUME NEW y \in Clients, peer_choking[Other(y)] # 0
        PROVE  Covered(chan'[y]) /\ (asking'[y] # {} => HasInterest(chan'[y]))
    <3>1. Covered(chan[y]) /\ (asking[y] # {} => HasInterest(chan[y]))
      BY <2>1 DEF Turn
    <3>2. CASE y = x
      <4>1. Covered(chan[x] \o <<m>>)
        BY <1>2, <1>3, <3>1, <3>2, AppendCovered
      <4> QED  BY <1>3, <3>2, <4>1 DEF TypeOK
    <3>3. CASE y # x  BY <1>3, <3>1, <3>3
    <3> QED  BY <3>2, <3>3
  <2> QED  BY <1>3, <2>1 DEF Turn
<1>7. TypeOK'
  BY <1>5 DEF TypeOK, ChanTrue, SendRequest, fileVars, flags, receiverVars, otherVars
<1>8. Knows'
  BY DEF Knows, TypeOK, SendRequest, fileVars, receiverVars
<1> QED  BY <1>5, <1>6, <1>7, <1>8

LEMMA BookRequestIInv ==
  ASSUME IInv, NEW x \in Clients, BookRequest(x) PROVE IInv'
<1> USE DEF IInv, recorded
<1>1. ChanTrue' /\ Turn'
  BY ChanStays DEF BookRequest, fileVars, flags, Grows, StaysUnchoked
<1>2. peer_pieces_state' = [peer_pieces_state EXCEPT ![x] =
        [i \in Pieces |-> IF i \in booking[x] THEN PEER_BE_REQUESTED
                                              ELSE peer_pieces_state[x][i]]]
  BY DEF BookRequest
<1>3. TypeOK'
  <2>1. peer_pieces_state' \in [Clients -> [Pieces -> Int]]
    BY <1>2 DEF TypeOK, PEER_BE_REQUESTED
  <2> QED  BY <1>1, <2>1 DEF TypeOK, ChanTrue, BookRequest, fileVars, flags,
                             receiverVars, otherVars
<1>4. Knows'
  BY DEF Knows, TypeOK, BookRequest, fileVars, receiverVars
<1> QED  BY <1>1, <1>3, <1>4

LEMMA AskElsewhereIInv ==
  ASSUME IInv, NEW x \in Clients, NEW i \in Pieces, AskElsewhere(x, i) PROVE IInv'
<1> USE DEF IInv, recorded
<1>1. ChanTrue' /\ Turn'
  BY ChanStays DEF AskElsewhere, flags, requesterVars, Grows, StaysUnchoked
<1>2. TypeOK'
  BY <1>1 DEF TypeOK, ChanTrue, AskElsewhere, Marks, flags, receiverVars, requesterVars
<1>3. Knows'
  BY DEF Knows, AskElsewhere, receiverVars, requesterVars
<1> QED  BY <1>1, <1>2, <1>3

LEMMA GainIInv ==
  ASSUME IInv, NEW x \in Clients, NEW i \in Pieces, Gain(x, i) PROVE IInv'
<1> USE DEF IInv, recorded
<1>1. disk' = [disk EXCEPT ![x] = @ \cup {i}]  BY DEF Gain, Completes
<1>2. Grows /\ i \in disk'[x]
  <2>1. UNCHANGED guessed /\ disk \in [Clients -> SUBSET Pieces]  BY DEF Gain, TypeOK
  <2> QED  BY <1>1, <2>1 DEF Grows
<1>3. ChanTrue' /\ Turn'
  <2>1. StaysUnchoked  BY DEF Gain, flags, StaysUnchoked
  <2>2. Have(x, i) \in Seq(Answers(x)')  BY <1>2, Announced
  <2> QED  BY <1>2, <2>1, <2>2, SendsKeeps DEF Gain, requesterVars
<1>4. TypeOK'
  <2>1. disk' \in [Clients -> SUBSET Pieces] /\ asked' \in [Clients -> SUBSET Pieces]
    BY <1>1 DEF TypeOK, Gain
  <2>2. pieces_state_arr' \in [Clients -> [Pieces ->
          {PIECE_REQUESTING, PIECE_COMPLETED, PIECE_HAVNT}]]
    BY DEF TypeOK, Gain, Completes
  <2> QED  BY <1>3, <2>1, <2>2
           DEF TypeOK, ChanTrue, Gain, flags, receiverVars, requesterVars
<1>5. Knows'
  BY <1>2, Pair DEF Knows, Grows, Gain, receiverVars, requesterVars
<1> QED  BY <1>3, <1>4, <1>5

LEMMA LoseElsewhereIInv ==
  ASSUME IInv, NEW x \in Clients, LoseElsewhere(x) PROVE IInv'
<1> USE DEF IInv, recorded
<1>1. ChanTrue' /\ Turn'
  BY ChanStays DEF LoseElsewhere, flags, requesterVars, Grows, StaysUnchoked
<1>2. TypeOK'
  <2>1. pieces_state_arr' \in [Clients -> [Pieces ->
          {PIECE_REQUESTING, PIECE_COMPLETED, PIECE_HAVNT}]]
    BY DEF TypeOK, LoseElsewhere
  <2> QED  BY <1>1, <2>1 DEF TypeOK, ChanTrue, LoseElsewhere, flags, receiverVars,
                             requesterVars
<1>3. Knows'
  BY DEF Knows, LoseElsewhere, receiverVars, requesterVars
<1> QED  BY <1>1, <1>2, <1>3
-----------------------------------------------------------------------------
(***************************************************************************)
(* Every step keeps the ledger.                                            *)
(***************************************************************************)
Talk == {m \in Messages : m.id \notin {REQUEST, PIECE}}

Kept(y, M) == /\ NoneOf(chan[y], M) => NoneOf(chan'[y], M)
              /\ OneOf(chan[y], M) => OneOf(chan'[y], M)

AllKept == \A y \in Clients, i \in Pieces : Kept(y, Asks(i)) /\ Kept(y, Gives(i))

Unmarked(y, i) == /\ pieces_state_arr'[y][i] = pieces_state_arr[y][i]
                  /\ i \in disk'[y] <=> i \in disk[y]
                  /\ i \in asked'[y] <=> i \in asked[y]

LEMMA SmallTalk ==
  ASSUME TypeOK, NEW x \in Clients
  PROVE  /\ <<>> \in Seq(Talk) /\ Unchoke(x) \in Seq(Talk) /\ Interest(x) \in Seq(Talk)
         /\ <<Message(INTERESTED, {})>> \in Seq(Talk)
         /\ <<Message(BITFIELD, disk[x])>> \in Seq(Talk)
         /\ \A i \in Pieces : Have(x, i) \in Seq(Talk)
<1>1. /\ Message(UNCHOKE, {}) \in Talk /\ Message(INTERESTED, {}) \in Talk
      /\ Message(BITFIELD, disk[x]) \in Talk
      /\ \A i \in Pieces : Message(HAVE_PIECE, {i}) \in Talk
  BY DEF TypeOK, Talk, Messages, Message, UNCHOKE, INTERESTED, HAVE_PIECE, BITFIELD,
         REQUEST, PIECE
<1>2. \A m \in Talk : <<m>> \in Seq(Talk)  OBVIOUS
<1>3. <<>> \in Seq(Talk)  BY EmptySeq
<1>4. \A i \in Pieces : <<Message(HAVE_PIECE, {i})>> \in Seq(Talk)  BY <1>1, <1>2
<1> QED  BY <1>1, <1>2, <1>3, <1>4 DEF Unchoke, Interest, Have

LEMMA TalkIsQuiet ==
  ASSUME NEW t \in Seq(Talk)
  PROVE  /\ t \in Seq(Messages)
         /\ \A i \in Pieces : NoneOf(t, Asks(i)) /\ NoneOf(t, Gives(i))
<1>1. Talk \subseteq Messages  BY DEF Talk
<1>2. \A k \in DOMAIN t : t[k] \in Talk  BY ElementOfSeq, LenProperties
<1>3. \A m \in Talk, i \in Pieces : m \notin Asks(i) /\ m \notin Gives(i)
  BY DEF Talk, Asks, Gives
<1> QED  BY <1>1, <1>2, <1>3, SeqMonotone DEF NoneOf

\* What is sent adds to the messages of a kind only what is of that kind; likewise
\* what is read takes away.
LEMMA SendsKept ==
  ASSUME TypeOK, NEW x \in Clients, NEW t \in Seq(Messages), Sends(x, t),
         NEW y \in Clients, NEW M, y = x => NoneOf(t, M)
  PROVE  Kept(y, M)
<1>1. chan' = [chan EXCEPT ![x] = chan[x] \o t] /\ chan \in [Clients -> Seq(Messages)]
  BY DEF Sends, TypeOK
<1>2. CASE y = x
  <2>1. chan'[y] = chan[y] \o t /\ chan[y] \in Seq(Messages)  BY <1>1, <1>2
  <2>2. NoneOf(t, M)  BY <1>2
  <2> QED  BY <2>1, <2>2, AppendOne DEF Kept
<1>3. CASE y # x  BY <1>1, <1>3 DEF Kept
<1> QED  BY <1>2, <1>3

LEMMA ReadsKept ==
  ASSUME TypeOK, NEW x \in Clients, NEW t \in Seq(Messages), Reads(x, t),
         chan[Other(x)] # <<>>, NEW y \in Clients, NEW M,
         y = x => NoneOf(t, M), y = Other(x) => Head(chan[y]) \notin M
  PROVE  Kept(y, M)
<1> DEFINE o == Other(x)
<1>1. o \in Clients /\ o # x /\ (y = x \/ y = o)  BY Pair
<1>2. /\ chan' = [chan EXCEPT ![o] = Tail(chan[o]), ![x] = chan[x] \o t]
      /\ chan \in [Clients -> Seq(Messages)] /\ chan[o] # <<>>
      /\ y = o => Head(chan[y]) \notin M
  BY <1>1 DEF Reads, TypeOK
<1> HIDE DEF o
<1>3. CASE y = x
  <2>1. chan'[y] = chan[y] \o t /\ chan[y] \in Seq(Messages)  BY <1>1, <1>2, <1>3
  <2>2. NoneOf(t, M)  BY <1>3
  <2> QED  BY <2>1, <2>2, AppendOne DEF Kept
<1>4. CASE y = o
  <2>1. chan'[y] = Tail(chan[y]) /\ chan[y] \in Seq(Messages) /\ chan[y] # <<>>
    BY <1>1, <1>2, <1>4
  <2>2. Head(chan[y]) \notin M  BY <1>2, <1>4
  <2> QED  BY <2>1, <2>2, TailOne DEF Kept
<1> QED  BY <1>1, <1>3, <1>4

LEMMA TalkSent ==
  ASSUME TypeOK, NEW x \in Clients, NEW t \in Seq(Talk), Sends(x, t) PROVE AllKept
BY TalkIsQuiet, SendsKept DEF AllKept

LEMMA TalkRead ==
  ASSUME TypeOK, NEW x \in Clients, NEW t \in Seq(Talk), Reads(x, t),
         NEW id, Incoming(x, id), id \notin {REQUEST, PIECE}
  PROVE  AllKept
<1>1. chan[Other(x)] # <<>> /\ Head(chan[Other(x)]).id = id  BY DEF Incoming
<1>2. \A i \in Pieces : Head(chan[Other(x)]) \notin Asks(i)
                        /\ Head(chan[Other(x)]) \notin Gives(i)
  BY <1>1 DEF Asks, Gives
<1> QED  BY <1>1, <1>2, TalkIsQuiet, ReadsKept DEF AllKept

\* One piece of one client: its request stays where it is, and nothing else about
\* it changes, or it is nowhere.
LEMMA OneStays ==
  ASSUME Tracked, NEW x \in Clients, NEW i \in Pieces,
         i \in asking'[x] <=> i \in asking[x],
         Kept(x, Asks(i)), Kept(Other(x), Gives(i)),
         Serves(Other(x), i)' <=> Serves(Other(x), i),
         Unmarked(x, i) \/ (Quiet(x, i) /\ Marked(x, i)')
  PROVE  (Ledger(x, i) /\ Marked(x, i))'
<1>1. Ledger(x, i) /\ Marked(x, i)  BY DEF Tracked
<1>2. Quiet(x, i) => Quiet(x, i)'  BY DEF Quiet, Kept
<1>3. Once(x, i) => Once(x, i)'  BY DEF Once, Kept
<1>4. Unmarked(x, i) => (Marked(x, i) => Marked(x, i)') /\ (Requested(x, i) => Requested(x, i)')
  BY DEF Unmarked, Marked, Requested
<1> QED  BY <1>1, <1>2, <1>3, <1>4 DEF Ledger

LEMMA TalkKeeps ==
  ASSUME Tracked, AllKept, UNCHANGED asking,
         \A y \in Clients, i \in Pieces : Serves(y, i)' <=> Serves(y, i),
         \A y \in Clients, i \in Pieces :
           Unmarked(y, i) \/ (Quiet(y, i) /\ Marked(y, i)')
  PROVE  Tracked'
<1> SUFFICES ASSUME NEW x \in Clients, NEW i \in Pieces
             PROVE  (Ledger(x, i) /\ Marked(x, i))'
  BY DEF Tracked
<1>1. Other(x) \in Clients  BY Pair
<1> QED  BY <1>1, OneStays DEF AllKept

\* The receiver's steps that say or hear nothing of requests and blocks.
LEMMA TalkTracked ==
  ASSUME IInv, Tracked, NEW x \in Clients,
         \/ SendBitfield(x) \/ HandleUnchoke(x) \/ HandleInterested(x) \/ HandleHave(x)
         \/ HandleBitfield(x) \/ NotePiece(x) \/ GreetPiece(x)
  PROVE  Tracked'
<1> USE DEF IInv
<1>1. UNCHANGED <<disk, pieces_state_arr, asked, asking>>
  BY DEF SendBitfield, HandleUnchoke, HandleInterested, HandleHave, HandleBitfield,
         NotePiece, GreetPiece, fileVars, requesterVars, otherVars
<1>2. \A y \in Clients, i \in Pieces : Unmarked(y, i)  BY <1>1 DEF Unmarked
<1>3. \A y \in Clients, i \in Pieces : Serves(y, i)' <=> Serves(y, i)
  <2>1. CASE UNCHANGED <<at, bits>>  BY <2>1 DEF Serves
  <2>2. CASE /\ at[x] # "sending" /\ at'[x] # "sending"
             /\ \A y \in Clients : y # x => at'[y] = at[y] /\ bits'[y] = bits[y]
    BY <2>2 DEF Serves
  <2> QED  BY <2>1, <2>2 DEF TypeOK, SendBitfield, HandleUnchoke, HandleInterested, HandleHave,
              HandleBitfield, NotePiece, GreetPiece, NextBit, Goes, Incoming, receiverVars
<1>4. AllKept
  <2>1. CASE SendBitfield(x)  BY <2>1, SmallTalk, TalkSent DEF SendBitfield
  <2>2. CASE HandleUnchoke(x)
    <3>1. UNCHOKE \notin {REQUEST, PIECE}  BY DEF UNCHOKE, REQUEST, PIECE
    <3> QED  BY <2>2, <3>1, SmallTalk, TalkRead DEF HandleUnchoke
  <2>3. CASE HandleInterested(x)
    <3>1. INTERESTED \notin {REQUEST, PIECE}  BY DEF INTERESTED, REQUEST, PIECE
    <3> QED  BY <2>3, <3>1, SmallTalk, TalkRead DEF HandleInterested
  <2>4. CASE HandleHave(x)
    <3>1. HAVE_PIECE \notin {REQUEST, PIECE}  BY DEF HAVE_PIECE, REQUEST, PIECE
    <3>2. /\ Unchoke(x) \o Interest(x) \o <<Message(INTERESTED, {})>> \in Seq(Talk)
          /\ <<>> \in Seq(Talk)
      BY SmallTalk, ConcatProperties
    <3> QED  BY <2>4, <3>1, <3>2, TalkRead DEF HandleHave
  <2>5. CASE HandleBitfield(x)
    <3>1. BITFIELD \notin {REQUEST, PIECE}  BY DEF BITFIELD, REQUEST, PIECE
    <3> QED  BY <2>5, <3>1, SmallTalk, TalkRead DEF HandleBitfield
  <2>6. CASE NotePiece(x)  BY <2>6 DEF NotePiece, AllKept, Kept
  <2>7. CASE GreetPiece(x)
    <3>1. Unchoke(x) \o Interest(x) \in Seq(Talk)  BY SmallTalk, ConcatProperties
    <3> QED  BY <2>7, <3>1, TalkSent DEF GreetPiece
  <2> QED  BY <2>1, <2>2, <2>3, <2>4, <2>5, <2>6, <2>7
<1> QED  BY <1>1, <1>2, <1>3, <1>4, TalkKeeps

\* A request goes from the wire to the thread that serves it, or is dropped.
LEMMA RequestTracked ==
  ASSUME IInv, Tracked, NEW x \in Clients, HandleRequest(x) PROVE Tracked'
<1> USE DEF IInv
<1> DEFINE o == Other(x)
<1>1. /\ o \in Clients /\ o # x /\ Other(o) = x /\ \A y \in Clients : y = x \/ y = o
      /\ chan[o] # <<>> /\ Head(chan[o]).id = REQUEST /\ chan[o] \in Seq(Messages)
      /\ Head(chan[o]) \in Messages /\ What(x) = Head(chan[o]).what
  BY Pair, HeadTailProperties DEF HandleRequest, Incoming, TypeOK, What
<1>2. /\ UNCHANGED <<disk, pieces_state_arr, asked, asking>>
      /\ Reads(x, <<>>) /\ <<>> \in Seq(Messages) /\ at[x] = "reading"
  BY EmptySeq DEF HandleRequest, Incoming, fileVars, requesterVars, otherVars
<1>3. \A M : NoneOf(<<>>, M)  BY DEF NoneOf
<1>4. \A y \in Clients, i \in Pieces : Unmarked(y, i)  BY <1>2 DEF Unmarked
<1>5. \A i \in Pieces : /\ ~Serves(x, i)
                        /\ Serves(o, i)' <=> Serves(o, i)
                        /\ i \notin What(x) => ~Serves(x, i)'
  <2>1. \/ UNCHANGED <<bits, at>>
        \/ bits' = [bits EXCEPT ![x] = What(x)] /\ at' = [at EXCEPT ![x] = "sending"]
    BY DEF HandleRequest, Goes
  <2>2. bits \in [Clients -> SUBSET Pieces] /\ at[x] # "sending"  BY <1>2 DEF TypeOK
  <2>3. bits'[o] = bits[o] /\ at'[o] = at[o] /\ (bits'[x] = What(x) \/ at'[x] = at[x])
    BY <1>1, <2>1, <2>2 DEF TypeOK
  <2> QED  BY <2>2, <2>3 DEF Serves
<1>6. REQUEST # PIECE  BY DEF REQUEST, PIECE
<1>7. chan' = [chan EXCEPT ![o] = Tail(chan[o]), ![x] = chan[x] \o <<>>]
      /\ chan \in [Clients -> Seq(Messages)]
  BY <1>1, <1>2 DEF Reads, TypeOK
<1> HIDE DEF o
<1>8. \A i \in Pieces : Kept(x, Asks(i)) /\ Kept(x, Gives(i)) /\ Kept(o, Gives(i))
  <2>1. \A i \in Pieces : Head(chan[o]) \notin Gives(i)  BY <1>1, <1>6 DEF Gives
  <2> QED  BY <1>1, <1>2, <1>3, <2>1, ReadsKept DEF o
<1>9. \A i \in Pieces \ What(x) : Kept(o, Asks(i))
  <2>1. \A i \in Pieces \ What(x) : Head(chan[o]) \notin Asks(i)  BY <1>1 DEF Asks
  <2> QED  BY <1>1, <1>2, <1>3, <2>1, ReadsKept DEF o
<1>10. ASSUME NEW i \in Pieces PROVE (Ledger(x, i) /\ Marked(x, i))'
  BY <1>1, <1>2, <1>4, <1>5, <1>8, OneStays DEF o
<1>11. ASSUME NEW i \in Pieces PROVE (Ledger(o, i) /\ Marked(o, i))'
  <2>1. CASE i \notin What(x)
    BY <1>1, <1>2, <1>4, <1>5, <1>8, <1>9, <2>1, OneStays
  <2>2. CASE i \in What(x)
    <3>1. Head(chan[o]) \in Asks(i)  BY <1>1, <2>2 DEF Asks
    <3>2. ~NoneOf(chan[o], Asks(i)) /\ (OneOf(chan[o], Asks(i)) => NoneOf(Tail(chan[o]), Asks(i)))
      BY <1>1, <3>1, TailOne
    <3>3. chan'[o] = Tail(chan[o])  BY <1>1, <1>7
    <3>4. /\ i \notin asking[o] /\ OneOf(chan[o], Asks(i)) /\ NoneOf(chan[x], Gives(i))
          /\ Requested(o, i) /\ Marked(o, i)
      BY <1>1, <3>2 DEF Tracked, Ledger, Quiet, Once
    <3>5. /\ i \notin asking'[o] /\ NoneOf(chan'[o], Asks(i)) /\ NoneOf(chan'[x], Gives(i))
      BY <1>2, <1>8, <3>2, <3>3, <3>4 DEF Kept
    <3>6. Requested(o, i)' /\ Marked(o, i)'  BY <1>2, <3>4 DEF Requested, Marked
    <3>7. Quiet(o, i)' \/ Once(o, i)'  BY <1>1, <3>5 DEF Quiet, Once
    <3> QED  BY <3>6, <3>7 DEF Ledger
  <2> QED  BY <2>1, <2>2
<1> QED  BY <1>1, <1>10, <1>11 DEF Tracked

\* What was being served is on the wire.
LEMMA SendPieceTracked ==
  ASSUME IInv, Tracked, NEW x \in Clients, SendPiece(x) PROVE Tracked'
<1> USE DEF IInv
<1> DEFINE o == Other(x)
           p == [id |-> PIECE, what |-> bits[x], right |-> BlockRight(x)]
<1>1. o \in Clients /\ o # x /\ Other(o) = x /\ \A y \in Clients : y = x \/ y = o
  BY Pair
<1>2. /\ UNCHANGED <<disk, pieces_state_arr, asked, asking, bits>>
      /\ Sends(x, <<p>>) /\ at[x] = "sending" /\ at' = [at EXCEPT ![x] = "reading"]
      /\ bits[x] \in SUBSET Pieces /\ at[x] # at'[x] /\ at'[o] = at[o]
  BY <1>1 DEF SendPiece, fileVars, requesterVars, otherVars, Goes, TypeOK
<1>3. p \in Messages /\ <<p>> \in Seq(Messages) /\ p.id = PIECE /\ p.what = bits[x]
  <2>1. p \in Messages  BY <1>2 DEF Messages, BlockRight
  <2> QED  BY <2>1
<1>4. \A y \in Clients, i \in Pieces : Unmarked(y, i)  BY <1>2 DEF Unmarked
<1>5. \A i \in Pieces : /\ Serves(x, i) <=> i \in bits[x]
                        /\ ~Serves(x, i)' /\ (Serves(o, i)' <=> Serves(o, i))
  BY <1>1, <1>2 DEF Serves, TypeOK
<1>6. chan' = [chan EXCEPT ![x] = chan[x] \o <<p>>] /\ chan \in [Clients -> Seq(Messages)]
  BY <1>2 DEF Sends, TypeOK
<1>7. REQUEST # PIECE  BY DEF REQUEST, PIECE
<1> HIDE DEF o, p
<1>8. \A i \in Pieces : /\ NoneOf(<<p>>, Asks(i))
                        /\ i \notin bits[x] => NoneOf(<<p>>, Gives(i))
                        /\ i \in bits[x] => OneOf(<<p>>, Gives(i))
  BY <1>3, <1>7 DEF NoneOf, OneOf, Asks, Gives
<1>9. \A i \in Pieces : Kept(x, Asks(i)) /\ Kept(o, Asks(i)) /\ Kept(o, Gives(i))
                        /\ (i \notin bits[x] => Kept(x, Gives(i)))
  BY <1>1, <1>2, <1>3, <1>8, SendsKept
<1>10. ASSUME NEW i \in Pieces PROVE (Ledger(x, i) /\ Marked(x, i))'
  BY <1>1, <1>2, <1>4, <1>5, <1>9, OneStays DEF o
<1>11. ASSUME NEW i \in Pieces PROVE (Ledger(o, i) /\ Marked(o, i))'
  <2>1. CASE i \notin bits[x]
    BY <1>1, <1>2, <1>4, <1>5, <1>9, <2>1, OneStays
  <2>2. CASE i \in bits[x]
    <3>1. /\ i \notin asking[o] /\ NoneOf(chan[o], Asks(i)) /\ NoneOf(chan[x], Gives(i))
          /\ Requested(o, i) /\ Marked(o, i)
      BY <1>1, <1>5, <2>2 DEF Tracked, Ledger, Quiet, Once
    <3>2. chan'[x] = chan[x] \o <<p>> /\ chan[x] \in Seq(Messages)  BY <1>6
    <3>3. OneOf(chan'[x], Gives(i))  BY <1>3, <1>8, <2>2, <3>1, <3>2, AppendOne
    <3>4. i \notin asking'[o] /\ NoneOf(chan'[o], Asks(i))
      BY <1>2, <1>9, <3>1 DEF Kept
    <3>5. Once(o, i)'  BY <1>1, <1>5, <3>3, <3>4 DEF Once
    <3>6. Requested(o, i)' /\ Marked(o, i)'  BY <1>2, <3>1 DEF Requested, Marked
    <3> QED  BY <3>5, <3>6 DEF Ledger
  <2> QED  BY <2>1, <2>2
<1> QED  BY <1>1, <1>10, <1>11 DEF Tracked

\* The block is read, and the request is done with.
LEMMA PieceTracked ==
  ASSUME IInv, Tracked, NEW x \in Clients, HandlePiece(x) PROVE Tracked'
<1> USE DEF IInv
<1> DEFINE o == Other(x)
<1>1. /\ o \in Clients /\ o # x /\ Other(o) = x /\ \A y \in Clients : y = x \/ y = o
      /\ chan[o] # <<>> /\ Head(chan[o]).id = PIECE /\ Incoming(x, PIECE)
      /\ What(x) \subseteq Pieces /\ What(x) = Head(chan[o]).what
  BY Pair, Received DEF HandlePiece, What
<1>2. UNCHANGED <<asked, asking, at, bits>>
  BY DEF HandlePiece, requesterVars, receiverVars, otherVars
<1>3. PICK k \in What(x) :
        \/ Completes(x, k) /\ Reads(x, Have(x, k))
        \/ /\ disk' = [disk EXCEPT ![x] = @ \ {k}] /\ UNCHANGED pieces_state_arr
           /\ Reads(x, <<>>)
  BY DEF HandlePiece
<1>4. PICK t \in Seq(Talk) : Reads(x, t)  BY <1>1, <1>3, SmallTalk
<1>5. /\ t \in Seq(Messages) /\ \A i \in Pieces : NoneOf(t, Asks(i)) /\ NoneOf(t, Gives(i))
      /\ chan' = [chan EXCEPT ![o] = Tail(chan[o]), ![x] = chan[x] \o t]
      /\ chan \in [Clients -> Seq(Messages)]
  BY <1>1, <1>4, TalkIsQuiet DEF Reads, TypeOK
<1>6. \A y \in Clients, i \in Pieces : y # x \/ i # k => Unmarked(y, i)
  BY <1>2, <1>3 DEF Completes, TypeOK, Unmarked
<1>7. REQUEST # PIECE  BY DEF REQUEST, PIECE
<1>8. \A y \in Clients, i \in Pieces : Serves(y, i)' <=> Serves(y, i)  BY <1>2 DEF Serves
<1>9. pieces_state_arr'[x][k] # PIECE_HAVNT
  <2>1. Requested(x, k)  BY <1>1, GivenOnce
  <2>2. k \in Pieces  BY <1>1
  <2> QED  BY <1>3, <2>1, <2>2 DEF Completes, TypeOK, Requested, PIECE_HAVNT, PIECE_COMPLETED,
                                   PIECE_REQUESTING
<1> HIDE DEF o
<1>10. \A i \in Pieces : Kept(x, Asks(i)) /\ Kept(x, Gives(i)) /\ Kept(o, Asks(i))
                         /\ (i \notin What(x) => Kept(o, Gives(i)))
  <2>1. \A i \in Pieces : /\ Head(chan[o]) \notin Asks(i)
                          /\ i \notin What(x) => Head(chan[o]) \notin Gives(i)
    BY <1>1, <1>7 DEF Asks, Gives
  <2> QED  BY <1>1, <1>4, <1>5, <2>1, ReadsKept DEF o
<1>11. ASSUME NEW i \in Pieces PROVE (Ledger(o, i) /\ Marked(o, i))'
  BY <1>1, <1>2, <1>6, <1>8, <1>10, OneStays
<1>12. ASSUME NEW i \in Pieces PROVE (Ledger(x, i) /\ Marked(x, i))'
  <2>1. CASE i \notin What(x)
    <3>1. Unmarked(x, i)  BY <1>3, <1>6, <2>1
    <3> QED  BY <1>1, <1>2, <1>8, <1>10, <2>1, <3>1, OneStays DEF o
  <2>2. CASE i \in What(x)
    <3>1. /\ Head(chan[o]) \in Gives(i) /\ OneOf(chan[o], Gives(i))
          /\ i \notin asking[x] /\ NoneOf(chan[x], Asks(i)) /\ ~Serves(o, i)
          /\ Requested(x, i)
      BY <1>1, <2>2, GivenOnce DEF o
    <3>2. chan'[o] = Tail(chan[o]) /\ chan[o] \in Seq(Messages)  BY <1>1, <1>5
    <3>3. NoneOf(chan'[o], Gives(i))  BY <1>1, <3>1, <3>2, TailOne
    <3>4. Quiet(x, i)'
      <4>1. NoneOf(chan'[x], Asks(i))  BY <1>10, <3>1 DEF Kept
      <4>2. ~Serves(o, i)'  BY <1>1, <1>8, <3>1
      <4> QED  BY <1>2, <3>1, <3>3, <4>1, <4>2 DEF Quiet, o
    <3>5. i \notin asked'[x]  BY <1>2, <3>1 DEF Requested
    <3>6. pieces_state_arr'[x][i] = PIECE_HAVNT => FALSE
      <4>1. CASE i = k  BY <1>9, <4>1
      <4>2. CASE i # k
        BY <1>6, <3>1, <4>2 DEF Unmarked, Requested, PIECE_HAVNT, PIECE_REQUESTING
      <4> QED  BY <4>1, <4>2
    <3> QED  BY <3>4, <3>5, <3>6 DEF Ledger, Marked
  <2> QED  BY <2>1, <2>2
<1> QED  BY <1>1, <1>11, <1>12 DEF Tracked

\* A piece that is wanted was not asked for.
LEMMA AskTracked ==
  ASSUME IInv, Tracked, NEW x \in Clients, NEW i \in Pieces, Ask(x, i) PROVE Tracked'
<1> USE DEF IInv
<1>1. /\ UNCHANGED <<disk, asked, at, bits>> /\ asking[x] = {}
      /\ asking' = [asking EXCEPT ![x] = {i}]
      /\ pieces_state_arr[x][i] = PIECE_HAVNT
      /\ pieces_state_arr' = [pieces_state_arr EXCEPT ![x][i] = PIECE_REQUESTING]
      /\ asking \in [Clients -> SUBSET Pieces]
  BY DEF Ask, Wants, Marks, receiverVars, otherVars, TypeOK
<1>2. AllKept  BY SmallTalk, TalkSent DEF Ask, ShowInterest
<1>3. \A y \in Clients, j \in Pieces : Serves(y, j)' <=> Serves(y, j)  BY <1>1 DEF Serves
<1>4. \A y \in Clients, j \in Pieces : y # x \/ j # i =>
        Unmarked(y, j) /\ (j \in asking'[y] <=> j \in asking[y])
  BY <1>1 DEF TypeOK, Unmarked
<1>5. pieces_state_arr'[x][i] = PIECE_REQUESTING /\ i \in asking'[x]
  BY <1>1 DEF TypeOK
<1>6. Other(x) \in Clients  BY Pair
<1>7. (Ledger(x, i) /\ Marked(x, i))'
  <2>1. Quiet(x, i) /\ i \notin disk[x] /\ i \notin asked[x]
    BY <1>1 DEF Tracked, Ledger, Marked, Requested, PIECE_HAVNT, PIECE_REQUESTING
  <2>2. Once(x, i)'  BY <1>2, <1>3, <1>5, <1>6, <2>1 DEF Quiet, Once, AllKept, Kept
  <2>3. Requested(x, i)' /\ Marked(x, i)'
    BY <1>1, <1>5, <2>1 DEF Requested, Marked, PIECE_HAVNT, PIECE_REQUESTING
  <2> QED  BY <2>2, <2>3 DEF Ledger
<1>8. ASSUME NEW y \in Clients, NEW j \in Pieces, y # x \/ j # i
      PROVE  (Ledger(y, j) /\ Marked(y, j))'
  <2>1. Other(y) \in Clients  BY Pair
  <2> QED  BY <1>2, <1>3, <1>4, <1>8, <2>1, OneStays DEF AllKept
<1> QED  BY <1>7, <1>8 DEF Tracked

\* What was to be asked for is on the wire.
LEMMA SendRequestTracked ==
  ASSUME IInv, Tracked, NEW x \in Clients, SendRequest(x) PROVE Tracked'
<1> USE DEF IInv
<1> DEFINE o == Other(x)  r == Message(REQUEST, asking[x])
<1>1. o \in Clients /\ o # x /\ Other(o) = x /\ \A y \in Clients : y = x \/ y = o
  BY Pair
<1>2. /\ UNCHANGED <<disk, pieces_state_arr, asked, at, bits>>
      /\ Sends(x, <<r>>) /\ asking' = [asking EXCEPT ![x] = {}]
      /\ asking \in [Clients -> SUBSET Pieces]
  BY DEF SendRequest, fileVars, receiverVars, otherVars, TypeOK
<1>3. <<r>> \in Seq(Messages) /\ r \in Messages /\ r.id = REQUEST /\ r.what = asking[x]
  <2>1. r \in Messages  BY <1>2 DEF Message, Messages
  <2> QED  BY <2>1 DEF Message
<1>4. \A y \in Clients, i \in Pieces : Unmarked(y, i) /\ (Serves(y, i)' <=> Serves(y, i))
  BY <1>2 DEF Unmarked, Serves
<1>5. chan' = [chan EXCEPT ![x] = chan[x] \o <<r>>] /\ chan \in [Clients -> Seq(Messages)]
  BY <1>2 DEF Sends, TypeOK
<1>6. REQUEST # PIECE  BY DEF REQUEST, PIECE
<1> HIDE DEF o, r
<1>7. asking'[x] = {} /\ asking'[o] = asking[o]  BY <1>1, <1>2
<1>8. \A i \in Pieces : /\ NoneOf(<<r>>, Gives(i))
                        /\ i \notin asking[x] => NoneOf(<<r>>, Asks(i))
                        /\ i \in asking[x] => OneOf(<<r>>, Asks(i))
  BY <1>3, <1>6 DEF NoneOf, OneOf, Asks, Gives
<1>9. \A i \in Pieces : Kept(x, Gives(i)) /\ Kept(o, Asks(i)) /\ Kept(o, Gives(i))
                        /\ (i \notin asking[x] => Kept(x, Asks(i)))
  BY <1>1, <1>2, <1>3, <1>8, SendsKept
<1>10. ASSUME NEW i \in Pieces PROVE (Ledger(o, i) /\ Marked(o, i))'
  BY <1>1, <1>4, <1>7, <1>9, OneStays
<1>11. ASSUME NEW i \in Pieces PROVE (Ledger(x, i) /\ Marked(x, i))'
  <2>1. CASE i \notin asking[x]
    BY <1>1, <1>4, <1>7, <1>9, <2>1, OneStays DEF o
  <2>2. CASE i \in asking[x]
    <3>1. /\ NoneOf(chan[x], Asks(i)) /\ ~Serves(o, i) /\ NoneOf(chan[o], Gives(i))
          /\ Requested(x, i) /\ Marked(x, i)
      BY <2>2 DEF Tracked, Ledger, Quiet, Once, o
    <3>2. chan'[x] = chan[x] \o <<r>> /\ chan[x] \in Seq(Messages)  BY <1>5
    <3>3. OneOf(chan'[x], Asks(i))  BY <1>3, <1>8, <2>2, <3>1, <3>2, AppendOne
    <3>4. ~Serves(o, i)' /\ NoneOf(chan'[o], Gives(i)) /\ i \notin asking'[x]
      BY <1>1, <1>4, <1>7, <1>9, <3>1 DEF Kept
    <3>5. Once(x, i)'  BY <3>3, <3>4 DEF Once, o
    <3>6. Requested(x, i)' /\ Marked(x, i)'  BY <1>2, <3>1 DEF Requested, Marked
    <3> QED  BY <3>5, <3>6 DEF Ledger
  <2> QED  BY <2>1, <2>2
<1> QED  BY <1>1, <1>10, <1>11 DEF Tracked

\* What other peers are asked for was not asked for here.
LEMMA OthersTracked ==
  ASSUME IInv, Tracked, NEW x \in Clients,
         \/ BookRequest(x) \/ LoseElsewhere(x)
         \/ \E i \in Pieces : AskElsewhere(x, i) \/ Gain(x, i)
  PROVE  Tracked'
<1> USE DEF IInv
<1>1. UNCHANGED <<asking, at, bits>>
  BY DEF BookRequest, LoseElsewhere, AskElsewhere, Gain, requesterVars, receiverVars
<1>2. \A y \in Clients, j \in Pieces : Serves(y, j)' <=> Serves(y, j)  BY <1>1 DEF Serves
<1>3. AllKept
  <2>1. UNCHANGED chan => AllKept  BY DEF AllKept, Kept
  <2>2. ASSUME NEW i \in Pieces, Gain(x, i) PROVE AllKept
    BY <2>2, SmallTalk, TalkSent DEF Gain
  <2> QED  BY <2>1, <2>2 DEF BookRequest, LoseElsewhere, AskElsewhere
<1>4. ASSUME NEW y \in Clients, NEW j \in Pieces
      PROVE  Unmarked(y, j) \/ (Quiet(y, j) /\ Marked(y, j)')
  <2>1. CASE BookRequest(x)
    BY <2>1 DEF BookRequest, fileVars, otherVars, Unmarked
  <2>2. ASSUME NEW i \in Pieces, AskElsewhere(x, i) \/ Gain(x, i), y # x \/ j # i
        PROVE  Unmarked(y, j)
    BY <2>2 DEF AskElsewhere, Gain, Marks, Completes, TypeOK, Unmarked
  <2>3. CASE AskElsewhere(x, j) /\ y = x
    <3>1. /\ pieces_state_arr[x][j] = PIECE_HAVNT /\ UNCHANGED disk
          /\ pieces_state_arr'[x][j] = PIECE_REQUESTING
      BY <2>3 DEF AskElsewhere, Wants, Marks, TypeOK
    <3>2. Quiet(x, j) /\ j \notin disk[x]
      BY <3>1 DEF Tracked, Ledger, Marked, Requested, PIECE_HAVNT, PIECE_REQUESTING
    <3> QED  BY <2>3, <3>1, <3>2 DEF Marked, PIECE_HAVNT, PIECE_REQUESTING
  <2>4. CASE Gain(x, j) /\ y = x
    <3>1. /\ j \in asked[x] /\ j \notin asked'[x]
          /\ pieces_state_arr'[x][j] = PIECE_COMPLETED
      BY <2>4 DEF Gain, Completes, TypeOK
    <3>2. Quiet(x, j)  BY <3>1 DEF Tracked, Ledger, Requested
    <3> QED  BY <2>4, <3>1, <3>2 DEF Marked, PIECE_HAVNT, PIECE_COMPLETED
  <2>5. CASE LoseElsewhere(x)
    <3>1. /\ UNCHANGED disk /\ asked' = [asked EXCEPT ![x] = {}]
          /\ pieces_state_arr' = [pieces_state_arr EXCEPT ![x] =
               [i \in Pieces |-> IF i \in asked[x] THEN PIECE_HAVNT
                                                  ELSE pieces_state_arr[x][i]]]
      BY <2>5 DEF LoseElsewhere
    <3>2. CASE y # x \/ j \notin asked[x]  BY <3>1, <3>2 DEF Unmarked, TypeOK
    <3>3. CASE y = x /\ j \in asked[x]
      <4>1. Quiet(x, j) /\ j \notin disk[x]
        BY <3>3 DEF Tracked, Ledger, Marked, Requested
      <4>2. j \notin asked'[x]  BY <3>1 DEF TypeOK
      <4> QED  BY <3>1, <3>3, <4>1, <4>2 DEF Marked
    <3> QED  BY <3>2, <3>3
  <2> QED  BY <2>1, <2>2, <2>3, <2>4, <2>5
<1> QED  BY <1>1, <1>2, <1>3, <1>4, TalkKeeps
-----------------------------------------------------------------------------
LEMMA InitIInv == Init => IInv /\ Tracked
<1> SUFFICES ASSUME Init PROVE IInv /\ Tracked  OBVIOUS
<1>1. PICK s \in Starts : disk = s.disk /\ peer_pieces_state = s.memory  BY DEF Init
<1>2. /\ disk \in [Clients -> SUBSET Pieces]
      /\ peer_pieces_state \in [Clients -> [Pieces -> Int]]
  BY <1>1, ExchangeAssumption
<1>3. 0 \in Pieces  BY ExchangeAssumption DEF Pieces
<1>4. chan \in [Clients -> Seq(Messages)] /\ \A x \in Clients : chan[x] = <<>>
  BY EmptySeq DEF Init
<1>5. TypeOK
  BY <1>2, <1>3, <1>4, ExchangeAssumption DEF Init, TypeOK
<1>6. ChanTrue  BY <1>4, EmptySeq DEF ChanTrue
<1>7. Knows /\ Turn
  BY <1>4, Pair DEF Init, Knows, Turn, Covered, HasInterest
<1>8. Tracked
  <2> SUFFICES ASSUME NEW x \in Clients, NEW i \in Pieces PROVE Ledger(x, i) /\ Marked(x, i)
    BY DEF Tracked
  <2>1. \A M : NoneOf(<<>>, M)  BY DEF NoneOf
  <2>2. Quiet(x, i)  BY <1>4, <2>1, Pair DEF Init, Quiet, Serves
  <2>3. Marked(x, i)  BY DEF Init, Marked, PIECE_HAVNT, PIECE_COMPLETED
  <2> QED  BY <2>2, <2>3 DEF Ledger
<1> QED  BY <1>5, <1>6, <1>7, <1>8 DEF IInv

LEMMA NextIInv ==
  ASSUME IInv, Tracked, [Next]_vars PROVE IInv' /\ Tracked'
<1>1. ASSUME NEW x \in Clients, Receiver(x) PROVE IInv' /\ Tracked'
  BY <1>1, SendBitfieldIInv, UnchokeIInv, InterestedIInv, HaveIInv, BitfieldIInv,
     NotePieceIInv, GreetPieceIInv, RequestIInv, SendPieceIInv, PieceIInv,
     TalkTracked, RequestTracked, SendPieceTracked, PieceTracked DEF Receiver
<1>2. ASSUME NEW x \in Clients, Requester(x) PROVE IInv' /\ Tracked'
  BY <1>2, AskIInv, SendRequestIInv, BookRequestIInv, AskElsewhereIInv,
     AskTracked, SendRequestTracked, OthersTracked DEF Requester
<1>3. ASSUME NEW x \in Clients, LoseElsewhere(x) \/ \E i \in Pieces : Gain(x, i)
      PROVE  IInv' /\ Tracked'
  BY <1>3, GainIInv, LoseElsewhereIInv, OthersTracked
<1>4. CASE UNCHANGED vars
  <2>1. IInv'
    BY <1>4 DEF IInv, TypeOK, ChanTrue, TrueMessages, Knows, Turn, vars, fileVars, flags,
                receiverVars, requesterVars, otherVars, recorded
  <2>2. Tracked'
    BY <1>4 DEF Tracked, Ledger, Quiet, Once, Requested, Marked, Serves, vars, fileVars,
                receiverVars, requesterVars, otherVars
  <2> QED  BY <2>1, <2>2
<1> QED  BY <1>1, <1>2, <1>3, <1>4 DEF Next

LEMMA Invariance == Spec => [](IInv /\ Tracked)
<1> QED  BY InitIInv, NextIInv, PTL DEF Spec

\* Every variable keeps its type.
THEOREM TypeCorrect == Spec => []TypeOK
  BY Invariance, PTL DEF IInv

\* handle_request never drops a request: the interest that request_a_piece shows
\* has unchoked the requester by the time that its request is read.
THEOREM NoRequestDropped == Spec => []NeverTurnedDown
<1>1. IInv => NeverTurnedDown
  <2> SUFFICES ASSUME IInv, NEW x \in Clients, Incoming(x, REQUEST), peer_choking[x] # 0
               PROVE  FALSE
    BY DEF NeverTurnedDown
  <2> DEFINE s == chan[Other(x)]
  <2>1. Other(x) \in Clients /\ Other(Other(x)) = x  BY Pair
  <2>2. s \in Seq(Messages) /\ s # <<>> /\ Covered(s) /\ Head(s).id = REQUEST
    BY <2>1 DEF IInv, ChanTrue, Turn, Incoming
  <2>3. 1 \in DOMAIN s /\ s[1].id = REQUEST  BY <2>2, LenProperties, EmptySeq
  <2> QED  BY <2>2, <2>3 DEF Covered
<1> QED  BY <1>1, Invariance, PTL

\* What is announced is on disk and what is served is right, though handle_request
\* does not look, unless the client that asked was misled by leftover memory; and what
\* it is then served spoils nothing that it has.
THEOREM SaysTheTruth == Spec => []NothingFalse
<1>1. IInv => NothingFalse
  <2> SUFFICES ASSUME IInv, NEW x \in Clients, NEW k \in DOMAIN chan[x]
               PROVE  /\ chan[x][k].id \in {HAVE_PIECE, BITFIELD}
                           => chan[x][k].what \subseteq disk[x]
                      /\ ~chan[x][k].right => chan[x][k].what \subseteq guessed[Other(x)]
    BY DEF NothingFalse
  <2>1. chan[x][k] \in TrueMessages(x)
    BY LenProperties DEF IInv, ChanTrue
  <2> QED  BY <2>1 DEF TrueMessages
<1> QED  BY <1>1, Invariance, PTL
-----------------------------------------------------------------------------
(***************************************************************************)
(* Who is choked.  A client takes back its choking once, and says so once: *)
(* so the other is either choked and nothing is on its way, or an UNCHOKE  *)
(* is, and only one, or it has been read.                                  *)
(***************************************************************************)
NoUnchoke(s) == \A k \in DOMAIN s : s[k].id # UNCHOKE
OneUnchoke(s) == \E k \in DOMAIN s : /\ s[k].id = UNCHOKE
                                     /\ \A m \in DOMAIN s : s[m].id = UNCHOKE => m = k

Agreed(x) ==
  \/ peer_choking[x] = 1 /\ am_choking[Other(x)] = 1 /\ NoUnchoke(chan[x])
  \/ peer_choking[x] = 0 /\ am_choking[Other(x)] = 1 /\ OneUnchoke(chan[x])
  \/ peer_choking[x] = 0 /\ am_choking[Other(x)] = 0 /\ NoUnchoke(chan[x])

Choking == \A x \in Clients : Agreed(x)

\* What a client sends in a step has an UNCHOKE exactly when it unchokes in it.
Tells(x, t) ==
  /\ peer_choking' = [peer_choking EXCEPT ![x] = peer_choking'[x]]
  /\ \/ UNCHANGED peer_choking /\ NoUnchoke(t)
     \/ peer_choking[x] = 1 /\ peer_choking'[x] = 0 /\ OneUnchoke(t)

\* UNCHOKE messages behind a sequence, and taken off it.
LEMMA AppendUnchoke ==
  ASSUME NEW S, NEW s \in Seq(S), NEW t \in Seq(S)
  PROVE  /\ NoUnchoke(s) /\ NoUnchoke(t) => NoUnchoke(s \o t)
         /\ NoUnchoke(s) /\ OneUnchoke(t) => OneUnchoke(s \o t)
         /\ OneUnchoke(s) /\ NoUnchoke(t) => OneUnchoke(s \o t)
<1> DEFINE M == {m \in S : m.id = UNCHOKE}
<1>1. s \o t \in Seq(S)  BY ConcatProperties
<1>2. \A u \in Seq(S) : (NoUnchoke(u) <=> NoneOf(u, M)) /\ (OneUnchoke(u) <=> OneOf(u, M))
  BY ElementOfSeq, LenProperties DEF NoUnchoke, OneUnchoke, NoneOf, OneOf
<1> HIDE DEF M
<1> QED  BY <1>1, <1>2, AppendOne

LEMMA TailUnchoke ==
  ASSUME NEW S, NEW s \in Seq(S), s # <<>>
  PROVE  /\ NoUnchoke(s) => NoUnchoke(Tail(s)) /\ Head(s).id # UNCHOKE
         /\ OneUnchoke(s) /\ Head(s).id = UNCHOKE => NoUnchoke(Tail(s))
         /\ OneUnchoke(s) /\ Head(s).id # UNCHOKE => OneUnchoke(Tail(s))
<1> DEFINE M == {m \in S : m.id = UNCHOKE}
<1>1. Tail(s) \in Seq(S) /\ Head(s) \in S  BY HeadTailProperties
<1>2. \A u \in Seq(S) : (NoUnchoke(u) <=> NoneOf(u, M)) /\ (OneUnchoke(u) <=> OneOf(u, M))
  BY ElementOfSeq, LenProperties DEF NoUnchoke, OneUnchoke, NoneOf, OneOf
<1>3. Head(s) \in M <=> Head(s).id = UNCHOKE  BY <1>1
<1> HIDE DEF M
<1> QED  BY <1>1, <1>2, <1>3, TailOne
-----------------------------------------------------------------------------
LEMMA SendsAgreed ==
  ASSUME TypeOK, Choking, NEW x \in Clients, NEW t \in Seq(Messages), Sends(x, t),
         Tells(x, t), UNCHANGED am_choking
  PROVE  Choking'
<1>1. /\ chan' = [chan EXCEPT ![x] = chan[x] \o t]
      /\ chan \in [Clients -> Seq(Messages)] /\ peer_choking \in [Clients -> {0, 1}]
  BY DEF Sends, TypeOK
<1>2. chan'[x] = chan[x] \o t /\ chan[x] \in Seq(Messages)  BY <1>1
<1>3. Agreed(x)'
  <2>1. /\ NoUnchoke(chan[x]) /\ NoUnchoke(t) => NoUnchoke(chan'[x])
        /\ NoUnchoke(chan[x]) /\ OneUnchoke(t) => OneUnchoke(chan'[x])
        /\ OneUnchoke(chan[x]) /\ NoUnchoke(t) => OneUnchoke(chan'[x])
    BY <1>2, AppendUnchoke
  <2> QED  BY <2>1 DEF Choking, Agreed, Tells
<1>4. ASSUME NEW y \in Clients, y # x PROVE Agreed(y)'
  <2>1. chan'[y] = chan[y] /\ peer_choking'[y] = peer_choking[y]
    BY <1>1, <1>4 DEF Tells
  <2> QED  BY <2>1 DEF Choking, Agreed
<1> QED  BY <1>3, <1>4 DEF Choking

\* The reader of an UNCHOKE takes itself to be unchoked, and only that one.
LEMMA ReadsAgreed ==
  ASSUME TypeOK, Choking, NEW x \in Clients, NEW t \in Seq(Messages), Reads(x, t),
         Tells(x, t), chan[Other(x)] # <<>>,
         am_choking' = [am_choking EXCEPT ![x] =
           IF Head(chan[Other(x)]).id = UNCHOKE THEN 0 ELSE am_choking[x]]
  PROVE  Choking'
<1> DEFINE o == Other(x)
<1>1. o \in Clients /\ o # x /\ Other(o) = x /\ \A y \in Clients : y = x \/ y = o
  BY Pair
<1> HIDE DEF o
<1>2. /\ chan' = [chan EXCEPT ![o] = Tail(chan[o]), ![x] = chan[x] \o t]
      /\ chan \in [Clients -> Seq(Messages)] /\ peer_choking \in [Clients -> {0, 1}]
      /\ am_choking \in [Clients -> {0, 1}]
  BY <1>1 DEF Reads, TypeOK, o
<1>3. /\ chan'[x] = chan[x] \o t /\ chan'[o] = Tail(chan[o])
      /\ chan[x] \in Seq(Messages) /\ chan[o] \in Seq(Messages) /\ chan[o] # <<>>
  BY <1>1, <1>2 DEF o
<1>4. Agreed(x)'
  <2>1. /\ NoUnchoke(chan[x]) /\ NoUnchoke(t) => NoUnchoke(chan'[x])
        /\ NoUnchoke(chan[x]) /\ OneUnchoke(t) => OneUnchoke(chan'[x])
        /\ OneUnchoke(chan[x]) /\ NoUnchoke(t) => OneUnchoke(chan'[x])
    BY <1>3, AppendUnchoke
  <2>2. am_choking'[o] = am_choking[o]  BY <1>1, <1>2
  <2>3. Agreed(x)  BY DEF Choking
  <2> QED  BY <2>1, <2>2, <2>3 DEF Agreed, Tells, o
<1>5. Agreed(o)'
  <2>1. peer_choking'[o] = peer_choking[o]  BY <1>1, <1>2 DEF Tells
  <2>2. am_choking'[x] = IF Head(chan[o]).id = UNCHOKE THEN 0 ELSE am_choking[x]
    BY <1>2 DEF o
  <2>3. \/ peer_choking[o] = 1 /\ am_choking[x] = 1 /\ NoUnchoke(chan[o])
        \/ peer_choking[o] = 0 /\ am_choking[x] = 1 /\ OneUnchoke(chan[o])
        \/ peer_choking[o] = 0 /\ am_choking[x] = 0 /\ NoUnchoke(chan[o])
    BY <1>1 DEF Choking, Agreed
  <2>4. /\ NoUnchoke(chan[o]) => NoUnchoke(chan'[o]) /\ Head(chan[o]).id # UNCHOKE
        /\ OneUnchoke(chan[o]) /\ Head(chan[o]).id = UNCHOKE => NoUnchoke(chan'[o])
        /\ OneUnchoke(chan[o]) /\ Head(chan[o]).id # UNCHOKE => OneUnchoke(chan'[o])
    BY <1>3, TailUnchoke
  <2>5. \/ peer_choking'[o] = 1 /\ am_choking'[x] = 1 /\ NoUnchoke(chan'[o])
        \/ peer_choking'[o] = 0 /\ am_choking'[x] = 1 /\ OneUnchoke(chan'[o])
        \/ peer_choking'[o] = 0 /\ am_choking'[x] = 0 /\ NoUnchoke(chan'[o])
    BY <2>1, <2>2, <2>3, <2>4
  <2> QED  BY <1>1, <2>5 DEF Agreed
<1> QED  BY <1>1, <1>4, <1>5 DEF Choking
-----------------------------------------------------------------------------
\* A message of another kind tells nothing of choking.
LEMMA OtherMessage ==
  ASSUME NEW what \in SUBSET Pieces, NEW id \in {INTERESTED, HAVE_PIECE, BITFIELD, REQUEST}
  PROVE  /\ <<Message(id, what)>> \in Seq(Messages) /\ NoUnchoke(<<Message(id, what)>>)
<1>1. Message(id, what) \in Messages
  BY DEF Message, Messages
<1>2. Message(id, what).id # UNCHOKE
  BY DEF Message, UNCHOKE, INTERESTED, HAVE_PIECE, BITFIELD, REQUEST
<1> QED  BY <1>1, <1>2 DEF NoUnchoke

\* send_unchoke, with and without the interest that goes with it.
LEMMA UnchokeTells ==
  ASSUME TypeOK, NEW x \in Clients, Unchoked(x)
  PROVE  /\ Unchoke(x) \in Seq(Messages) /\ Tells(x, Unchoke(x))
         /\ \A t \in Seq(Messages) : NoUnchoke(t) =>
              Unchoke(x) \o t \in Seq(Messages) /\ Tells(x, Unchoke(x) \o t)
<1>1. /\ peer_choking' = [peer_choking EXCEPT ![x] = 0]
      /\ peer_choking \in [Clients -> {0, 1}]
  BY DEF Unchoked, TypeOK
<1>2. peer_choking'[x] = 0 /\ peer_choking[x] \in {0, 1}  BY <1>1
<1>3. peer_choking' = [peer_choking EXCEPT ![x] = peer_choking'[x]]
  BY <1>1, <1>2
<1>4. peer_choking[x] = 0 => UNCHANGED peer_choking  BY <1>1
<1>5. <<>> \in Seq(Messages) /\ NoUnchoke(<<>>)  BY EmptySeq DEF NoUnchoke
<1>6. <<Message(UNCHOKE, {})>> \in Seq(Messages) /\ OneUnchoke(<<Message(UNCHOKE, {})>>)
  <2>1. Message(UNCHOKE, {}) \in Messages /\ Message(UNCHOKE, {}).id = UNCHOKE
    BY DEF Message, Messages
  <2> QED  BY <2>1 DEF OneUnchoke
<1>7. /\ Unchoke(x) \in Seq(Messages)
      /\ peer_choking[x] = 0 => NoUnchoke(Unchoke(x))
      /\ peer_choking[x] = 1 => OneUnchoke(Unchoke(x))
  BY <1>5, <1>6 DEF Unchoke
<1>8. Tells(x, Unchoke(x))  BY <1>2, <1>3, <1>4, <1>7 DEF Tells
<1>9. ASSUME NEW t \in Seq(Messages), NoUnchoke(t)
      PROVE  Unchoke(x) \o t \in Seq(Messages) /\ Tells(x, Unchoke(x) \o t)
  <2>1. Unchoke(x) \o t \in Seq(Messages)  BY <1>7, ConcatProperties
  <2>2. /\ peer_choking[x] = 0 => NoUnchoke(Unchoke(x) \o t)
        /\ peer_choking[x] = 1 => OneUnchoke(Unchoke(x) \o t)
    BY <1>7, <1>9, AppendUnchoke
  <2> QED  BY <1>2, <1>3, <1>4, <2>1, <2>2 DEF Tells
<1> QED  BY <1>7, <1>8, <1>9

LEMMA InterestTells ==
  ASSUME NEW x \in Clients
  PROVE  Interest(x) \in Seq(Messages) /\ NoUnchoke(Interest(x))
<1>1. <<>> \in Seq(Messages) /\ NoUnchoke(<<>>)  BY EmptySeq DEF NoUnchoke
<1>2. {} \in SUBSET Pieces  OBVIOUS
<1> QED  BY <1>1, <1>2, OtherMessage DEF Interest

LEMMA HaveTells ==
  ASSUME NEW x \in Clients, NEW i \in Pieces
  PROVE  Have(x, i) \in Seq(Messages) /\ NoUnchoke(Have(x, i))
<1>1. <<>> \in Seq(Messages) /\ NoUnchoke(<<>>)  BY EmptySeq DEF NoUnchoke
<1>2. {i} \in SUBSET Pieces  OBVIOUS
<1> QED  BY <1>1, <1>2, OtherMessage DEF Have

\* A message is sent, or read without an answer, and nobody is unchoked.
LEMMA SaysAgreed ==
  ASSUME TypeOK, Choking, NEW x \in Clients, NEW t \in Seq(Messages), NoUnchoke(t),
         Sends(x, t), UNCHANGED <<peer_choking, am_choking>>
  PROVE  Choking'
<1>1. peer_choking' = [peer_choking EXCEPT ![x] = peer_choking'[x]]  BY DEF TypeOK
<1> QED  BY <1>1, SendsAgreed DEF Tells

LEMMA HearsAgreed ==
  ASSUME TypeOK, Choking, NEW x \in Clients, NEW id, Incoming(x, id), id # UNCHOKE,
         NEW t \in Seq(Messages), NoUnchoke(t), Reads(x, t),
         UNCHANGED <<peer_choking, am_choking>>
  PROVE  Choking'
<1>1. peer_choking' = [peer_choking EXCEPT ![x] = peer_choking'[x]]  BY DEF TypeOK
<1>2. am_choking' = [am_choking EXCEPT ![x] =
        IF Head(chan[Other(x)]).id = UNCHOKE THEN 0 ELSE am_choking[x]]
  BY DEF TypeOK, Incoming
<1>3. chan[Other(x)] # <<>>  BY DEF Incoming
<1> QED  BY <1>1, <1>2, <1>3, ReadsAgreed DEF Tells

\* Its peer is unchoked by a handler that answers.
LEMMA UnchokesAgreed ==
  ASSUME TypeOK, Choking, NEW x \in Clients, NEW id, Incoming(x, id), id # UNCHOKE,
         NEW t \in Seq(Messages), Tells(x, t), Reads(x, t), UNCHANGED am_choking
  PROVE  Choking'
<1>1. am_choking' = [am_choking EXCEPT ![x] =
        IF Head(chan[Other(x)]).id = UNCHOKE THEN 0 ELSE am_choking[x]]
  BY DEF TypeOK, Incoming
<1>2. chan[Other(x)] # <<>>  BY DEF Incoming
<1> QED  BY <1>1, <1>2, ReadsAgreed

LEMMA ReceiverAgreed ==
  ASSUME IInv, Choking, NEW x \in Clients, Receiver(x) PROVE Choking'
<1> USE DEF IInv, recorded
<1>1. <<>> \in Seq(Messages) /\ NoUnchoke(<<>>)  BY EmptySeq DEF NoUnchoke
<1>2. /\ INTERESTED # UNCHOKE /\ HAVE_PIECE # UNCHOKE /\ BITFIELD # UNCHOKE
      /\ REQUEST # UNCHOKE /\ PIECE # UNCHOKE
  BY DEF UNCHOKE, INTERESTED, HAVE_PIECE, BITFIELD, REQUEST, PIECE
<1>3. CASE SendBitfield(x)
  <2>1. disk[x] \in SUBSET Pieces  BY DEF TypeOK
  <2> QED  BY <1>3, <2>1, OtherMessage, SaysAgreed DEF SendBitfield, flags
<1>4. CASE HandleUnchoke(x)
  <2>1. Tells(x, <<>>)  BY <1>1, <1>4 DEF HandleUnchoke, Tells, TypeOK
  <2>2. am_choking' = [am_choking EXCEPT ![x] =
          IF Head(chan[Other(x)]).id = UNCHOKE THEN 0 ELSE am_choking[x]]
    BY <1>4 DEF HandleUnchoke, Incoming
  <2> QED  BY <1>1, <1>4, <2>1, <2>2, ReadsAgreed DEF HandleUnchoke, Incoming
<1>5. CASE HandleInterested(x)
  BY <1>2, <1>5, UnchokeTells, UnchokesAgreed DEF HandleInterested
<1>6. CASE HandleHave(x)
  <2>1. CASE \A i \in What(x) : pieces_state_arr[x][i] = PIECE_HAVNT
    <3> DEFINE u == <<Message(INTERESTED, {})>>
    <3>1. u \in Seq(Messages) /\ NoUnchoke(u)
      BY OtherMessage
    <3>2. Interest(x) \o u \in Seq(Messages) /\ NoUnchoke(Interest(x) \o u)
      BY <3>1, InterestTells, ConcatProperties, AppendUnchoke
    <3>3. Unchoke(x) \o (Interest(x) \o u) \in Seq(Messages)
          /\ Tells(x, Unchoke(x) \o (Interest(x) \o u))
      BY <1>6, <2>1, <3>2, UnchokeTells DEF HandleHave
    <3>4. (Unchoke(x) \o Interest(x)) \o u = Unchoke(x) \o (Interest(x) \o u)
      <4>1. Unchoke(x) \in Seq(Messages)
        BY <1>6, <2>1, UnchokeTells DEF HandleHave
      <4> QED  BY <4>1, <3>1, InterestTells, ConcatAssociative
    <3>5. Reads(x, (Unchoke(x) \o Interest(x)) \o u)
      BY <1>6, <2>1 DEF HandleHave
    <3> HIDE DEF u
    <3> QED  BY <1>2, <1>6, <3>3, <3>4, <3>5, UnchokesAgreed DEF HandleHave
  <2>2. CASE ~(\A i \in What(x) : pieces_state_arr[x][i] = PIECE_HAVNT)
    BY <1>1, <1>2, <1>6, <2>2, HearsAgreed DEF HandleHave
  <2> QED  BY <2>1, <2>2
<1>7. CASE HandleBitfield(x)
  BY <1>1, <1>2, <1>7, HearsAgreed DEF HandleBitfield, flags
<1>8. CASE NotePiece(x)
  BY <1>8 DEF NotePiece, flags, Choking, Agreed
<1>9. CASE GreetPiece(x)
  BY <1>9, InterestTells, UnchokeTells, SendsAgreed DEF GreetPiece
<1>10. CASE HandleRequest(x)
  BY <1>1, <1>2, <1>10, HearsAgreed DEF HandleRequest, flags
<1>11. CASE SendPiece(x)
  <2> DEFINE m == [id |-> PIECE, what |-> bits[x], right |-> BlockRight(x)]
  <2>1. m \in Messages /\ m.id # UNCHOKE
    BY <1>2 DEF Messages, TypeOK, BlockRight
  <2>2. <<m>> \in Seq(Messages) /\ NoUnchoke(<<m>>)  BY <2>1 DEF NoUnchoke
  <2>3. Sends(x, <<m>>) /\ UNCHANGED <<peer_choking, am_choking>>
    BY <1>11 DEF SendPiece, flags
  <2> HIDE DEF m
  <2> QED  BY <2>2, <2>3, SaysAgreed
<1>12. CASE HandlePiece(x)
  <2>1. PICK i \in What(x) : Reads(x, <<>>) \/ Reads(x, Have(x, i))
    BY <1>12 DEF HandlePiece
  <2>2. i \in Pieces /\ Incoming(x, PIECE) /\ UNCHANGED <<peer_choking, am_choking>>
    BY <1>12, <2>1, Received DEF HandlePiece, flags
  <2>3. PICK t \in Seq(Messages) : NoUnchoke(t) /\ Reads(x, t)
    BY <1>1, <2>1, <2>2, HaveTells
  <2> QED  BY <1>2, <2>2, <2>3, HearsAgreed
<1> QED  BY <1>3, <1>4, <1>5, <1>6, <1>7, <1>8, <1>9, <1>10, <1>11, <1>12 DEF Receiver

LEMMA OthersAgreed ==
  ASSUME IInv, Choking, NEW x \in Clients,
         Requester(x) \/ LoseElsewhere(x) \/ \E i \in Pieces : Gain(x, i)
  PROVE  Choking'
<1> USE DEF IInv, recorded
<1>1. ASSUME UNCHANGED <<chan, peer_choking, am_choking>> PROVE Choking'
  BY <1>1 DEF Choking, Agreed
<1>2. ASSUME NEW i \in Pieces, Ask(x, i) PROVE Choking'
  <2>1. {} \in SUBSET Pieces  OBVIOUS
  <2> QED  BY <1>2, <2>1, OtherMessage, SaysAgreed DEF Ask, ShowInterest
<1>3. ASSUME NEW i \in Pieces, AskElsewhere(x, i) PROVE Choking'
  BY <1>1, <1>3 DEF AskElsewhere, flags
<1>4. CASE SendRequest(x)
  <2>1. asking[x] \in SUBSET Pieces  BY DEF TypeOK
  <2> QED  BY <1>4, <2>1, OtherMessage, SaysAgreed DEF SendRequest, flags
<1>5. CASE BookRequest(x)  BY <1>1, <1>5 DEF BookRequest, flags
<1>6. CASE LoseElsewhere(x)  BY <1>1, <1>6 DEF LoseElsewhere, flags
<1>7. ASSUME NEW i \in Pieces, Gain(x, i) PROVE Choking'
  BY <1>7, HaveTells, SaysAgreed DEF Gain, flags
<1> QED  BY <1>2, <1>3, <1>4, <1>5, <1>6, <1>7 DEF Requester

\* The two sides agree on who is choked once the messages on the way are read.
THEOREM FlagsCorrect == Spec => []FlagsAgree
<1>1. Init => Choking
  BY Pair DEF Init, Choking, Agreed, NoUnchoke
<1>2. IInv /\ Choking /\ [Next]_vars => Choking'
  <2> SUFFICES ASSUME IInv, Choking, [Next]_vars PROVE Choking'  OBVIOUS
  <2>1. CASE UNCHANGED vars  BY <2>1 DEF Choking, Agreed, vars, flags
  <2>2. CASE Next  BY <2>2, ReceiverAgreed, OthersAgreed DEF Next
  <2> QED  BY <2>1, <2>2
<1>3. Choking => FlagsAgree
  BY DEF Choking, Agreed, FlagsAgree, UnchokeOnWay, NoUnchoke, OneUnchoke
<1> QED  BY <1>1, <1>2, <1>3, Invariance, PTL DEF Spec
=============================================================================
