-------------------------- MODULE ConnectionProofs --------------------------
(***************************************************************************)
(* Proofs about Connection, for any number of connections, of losses and   *)
(* of responses, and whatever is left over in the entries: a client has at *)
(* most one connection with the other, its pool holds just what it serves, *)
(* and an established connection is not given up for another attempt.      *)
(***************************************************************************)
EXTENDS Connection, SequenceTheorems, FiniteSetTheorems, TLAPS

\* A pool is empty or a single node.
LEMMA PoolCases ==
  ASSUME NEW S, NEW s \in Seq(S), Len(s) <= 1
  PROVE  s = <<>> \/ \E e \in S : s = <<e>>
<1>1. CASE Len(s) = 0  BY <1>1, EmptySeq
<1>2. CASE Len(s) = 1  BY <1>2, s = <<s[1]>>, s[1] \in S
<1>3. Len(s) = 0 \/ Len(s) = 1
  <2>1. Len(s) \in Nat  BY LenProperties
  <2>2. \A n \in Nat : n <= 1 => n = 0 \/ n = 1  OBVIOUS
  <2> QED  BY <2>1, <2>2, Zenon
<1> QED  BY <1>1, <1>2, <1>3, Zenon

\* A descriptor that was closed is looked at by no thread.
ClosedEnded == \A x \in Clients, c \in Conns :
                 <<x, c>> \in closed => thread[x][c] = "ended"

IInv == TypeOK /\ OneConnection /\ NodesServed /\ ClosedEnded

LEMMA InitIInv == Init => IInv
  BY ConnectionAssumption DEF Init, IInv, TypeOK, OneConnection, NodesServed,
     ClosedEnded, Nodes, Serving, ABSENT

\* What a step preserves when it neither touches the pool nor what is served.
LEMMA QuietPool ==
  ASSUME OneConnection, NodesServed, pool' = pool,
         \A x \in Clients : Serving(x)' = Serving(x)
  PROVE  OneConnection' /\ NodesServed'
  BY DEF OneConnection, NodesServed, Nodes

\* A step that moves one thread to or from a place other than serving.
LEMMA QuietThread ==
  ASSUME TypeOK, NEW x \in Clients, NEW c \in Conns, NEW where,
         Becomes(x, c, where), thread[x][c] # "serving", where # "serving"
  PROVE  \A y \in Clients : Serving(y)' = Serving(y)
  BY DEF Becomes, Serving, TypeOK

\* Writing an entry, if there is one, keeps the entries in order.
StateOK == /\ state \in [Clients -> Leftover \cup {CONNECT, DISCONNECT, ABSENT}]
           /\ \A x \in Clients \ told : state[x] = ABSENT

LEMMA WrittenType ==
  ASSUME StateOK, NEW x \in Clients, NEW s \in {CONNECT, DISCONNECT}, told' = told,
         state' = [state EXCEPT ![x] = Written(@, s)]
  PROVE  StateOK'
  BY DEF StateOK, Written

LEMMA RespondIInv ==
  ASSUME IInv, NEW x \in Clients, Respond(x) PROVE IInv'
<1> USE DEF IInv
<1>1. TypeOK'  BY ConnectionAssumption DEF TypeOK, Respond, NewEntries, socketVars
<1>2. OneConnection' /\ NodesServed'  BY QuietPool DEF Respond, Serving
<1>3. ClosedEnded'  BY DEF ClosedEnded, Respond, socketVars
<1> QED  BY <1>1, <1>2, <1>3

LEMMA PeerConnectIInv ==
  ASSUME IInv, NEW x \in Clients, PeerConnect(x) PROVE IInv'
<1> USE DEF IInv
<1>1. CASE UNCHANGED <<state, opener, thread, said, closed, lost>>
  <2>1. TypeOK'
    <3>1. losses' \in 0 .. MaxLosses
      BY <1>1, ConnectionAssumption DEF TypeOK, PeerConnect, socketVars
    <3> QED  BY <1>1, <3>1 DEF TypeOK, PeerConnect
  <2>2. OneConnection' /\ NodesServed'  BY <1>1, QuietPool DEF PeerConnect, Serving
  <2>3. ClosedEnded'  BY <1>1 DEF ClosedEnded
  <2> QED  BY <2>1, <2>2, <2>3
<1>2. CASE ~UNCHANGED <<state, opener, thread, said, closed, lost>>
  <2>1. PICK c \in Conns :
          /\ ~Skipped(x) /\ Unused(c)
          /\ opener' = [opener EXCEPT ![c] = x]
          /\ thread' = [y \in Clients |->
               [thread[y] EXCEPT ![c] = IF y = x THEN "waiting" ELSE "backlog"]]
          /\ said' = (said \ (Clients \X {c})) \cup {<<x, c>>}
          /\ closed' = closed \ (Clients \X {c})
          /\ lost' = lost \ {c}
          /\ state' = [state EXCEPT ![x] = CONNECT]
          /\ UNCHANGED losses
    BY <1>2 DEF PeerConnect, socketVars
  <2>2. TypeOK'
    <3>1. state[x] # ABSENT  BY <2>1 DEF Skipped, Listed
    <3> QED  BY <2>1, <3>1 DEF TypeOK, PeerConnect
  <2>3. \A y \in Clients : Serving(y)' = Serving(y)
    BY <2>1 DEF Serving, Unused, TypeOK
  <2>4. OneConnection' /\ NodesServed'  BY <2>3, QuietPool DEF PeerConnect
  <2>5. ClosedEnded'  BY <2>1 DEF ClosedEnded, TypeOK
  <2> QED  BY <2>2, <2>4, <2>5
<1> QED  BY <1>1, <1>2

LEMMA PeerAcceptIInv ==
  ASSUME IInv, NEW x \in Clients, NEW c \in Conns, PeerAccept(x, c) PROVE IInv'
<1> USE DEF IInv
<1>0. PICK where \in {"waiting", "refused"} : Becomes(x, c, where)
  BY DEF PeerAccept
<1>1. TypeOK'
  <2>1. StateOK'
    <3>1. CASE UNCHANGED state  BY <3>1 DEF StateOK, TypeOK, PeerAccept
    <3>2. CASE state' = [state EXCEPT ![x] = Written(@, CONNECT)]
      BY <3>2, WrittenType DEF StateOK, TypeOK, PeerAccept
    <3> QED  BY <3>1, <3>2 DEF PeerAccept
  <2>2. thread' \in [Clients -> [Conns -> {"none", "backlog", "refused", "waiting",
                                          "leaving", "serving", "ended"}]]
    BY <1>0 DEF TypeOK, Becomes
  <2> QED  BY <2>1, <2>2 DEF StateOK, TypeOK, PeerAccept, socketVars
<1>2. OneConnection' /\ NodesServed'
  BY QuietPool, QuietThread DEF PeerAccept
<1>3. ClosedEnded'
  <2>1. closed' = closed  BY DEF PeerAccept, socketVars
  <2>2. \A y \in Clients, d \in Conns :
          thread[y][d] = "ended" => thread'[y][d] = "ended"
    BY <1>0 DEF PeerAccept, Becomes, TypeOK
  <2> QED  BY <2>1, <2>2 DEF ClosedEnded
<1> QED  BY <1>1, <1>2, <1>3

LEMMA NoHandshakeIInv ==
  ASSUME IInv, NEW x \in Clients, NEW c \in Conns, NoHandshake(x, c) PROVE IInv'
<1> USE DEF IInv
<1>1. TypeOK'  BY DEF TypeOK, NoHandshake, Becomes, socketVars
<1>2. OneConnection' /\ NodesServed'  BY QuietPool, QuietThread DEF NoHandshake
<1>3. ClosedEnded'  BY DEF ClosedEnded, NoHandshake, Becomes, TypeOK, socketVars
<1> QED  BY <1>1, <1>2, <1>3

LEMMA TurnedDownIInv ==
  ASSUME IInv, NEW x \in Clients, NEW c \in Conns, HandshakeTurnedDown(x, c) PROVE IInv'
<1> USE DEF IInv
<1>1. TypeOK'  BY DEF TypeOK, HandshakeTurnedDown, Becomes, socketVars
<1>2. OneConnection' /\ NodesServed'
  BY QuietPool, QuietThread DEF HandshakeTurnedDown
<1>3. ClosedEnded'
  BY DEF ClosedEnded, HandshakeTurnedDown, Becomes, TypeOK, socketVars
<1> QED  BY <1>1, <1>2, <1>3

\* The step that could break it: the pool grows, but only from empty.
LEMMA AcceptedIInv ==
  ASSUME IInv, NEW x \in Clients, NEW c \in Conns, HandshakeAccepted(x, c) PROVE IInv'
<1> USE DEF IInv
<1>1. pool[x] = <<>>  BY DEF HandshakeAccepted, InPool
<1>2. pool' = [pool EXCEPT ![x] = <<c>>]
  BY <1>1, <<c>> \o <<>> = <<c>> DEF HandshakeAccepted
<1>3. TypeOK'  BY <1>2 DEF TypeOK, HandshakeAccepted, Becomes, Listed
<1>4. OneConnection'  BY <1>2 DEF OneConnection, TypeOK
<1>5. ASSUME NEW y \in Clients PROVE Nodes(y)' = Serving(y)'
  <2>1. CASE y = x
    <3>1. Serving(x) = {}  BY <1>1 DEF NodesServed, Nodes
    <3>2. Serving(x)' = {c}  BY <3>1 DEF HandshakeAccepted, Becomes, Serving, TypeOK
    <3>3. Nodes(x)' = {c}  BY <1>2 DEF Nodes, TypeOK
    <3> QED  BY <2>1, <3>2, <3>3
  <2>2. CASE y # x
    BY <1>2, <2>2 DEF NodesServed, Nodes, HandshakeAccepted, Becomes, Serving, TypeOK
  <2> QED  BY <2>1, <2>2
<1>6. ClosedEnded'  BY DEF ClosedEnded, HandshakeAccepted, Becomes, TypeOK
<1> QED  BY <1>3, <1>4, <1>5, <1>6 DEF NodesServed

LEMMA LeaveIInv ==
  ASSUME IInv, NEW x \in Clients, NEW c \in Conns, Leave(x, c) PROVE IInv'
<1> USE DEF IInv
<1>1. TypeOK'
  <2>1. StateOK'
    <3>1. CASE UNCHANGED state  BY <3>1 DEF StateOK, TypeOK, Leave
    <3>2. CASE state' = [state EXCEPT ![x] = Written(@, DISCONNECT)]
      BY <3>2, WrittenType DEF StateOK, TypeOK, Leave
    <3> QED  BY <3>1, <3>2 DEF Leave
  <2>2. thread' \in [Clients -> [Conns -> {"none", "backlog", "refused", "waiting",
                                          "leaving", "serving", "ended"}]]
    BY DEF TypeOK, Leave, Becomes
  <2> QED  BY <2>1, <2>2 DEF StateOK, TypeOK, Leave, Closes
<1>2. OneConnection' /\ NodesServed'  BY QuietPool, QuietThread DEF Leave
<1>3. ClosedEnded'  BY DEF ClosedEnded, Leave, Closes, Becomes, TypeOK
<1> QED  BY <1>1, <1>2, <1>3

\* The node removed by address is the node of the connection that ended.
LEMMA OwnNode ==
  ASSUME IInv, NEW x \in Clients, NEW c \in Conns, thread[x][c] = "serving"
  PROVE  pool[x] = <<c>>
<1>1. c \in Nodes(x)  BY DEF IInv, NodesServed, Serving
<1>2. pool[x] \in Seq(Conns) /\ Len(pool[x]) <= 1
  BY DEF IInv, TypeOK, OneConnection
<1>3. CASE pool[x] = <<>>  BY <1>1, <1>3 DEF Nodes
<1>4. CASE \E e \in Conns : pool[x] = <<e>>
  <2>1. PICK e \in Conns : pool[x] = <<e>>  BY <1>4
  <2> QED  BY <1>1, <2>1 DEF Nodes
<1> QED  BY <1>2, <1>3, <1>4, PoolCases

LEMMA DisconnectIInv ==
  ASSUME IInv, NEW x \in Clients, NEW c \in Conns, Disconnect(x, c) PROVE IInv'
<1> USE DEF IInv
<1>1. pool[x] = <<c>>  BY OwnNode DEF Disconnect
<1>2. pool' = [pool EXCEPT ![x] = <<>>]
  BY <1>1, Tail(<<c>>) = <<>>, <<c>> # <<>> DEF Disconnect, NodeRemoved
<1>3. TypeOK'
  <2>1. pool' \in [Clients -> Seq(Conns)]  BY <1>2 DEF TypeOK
  <2>2. x \notin told => state' = state
    BY DEF Disconnect, TypeOK
  <2> QED  BY <2>1, <2>2 DEF TypeOK, Disconnect, Becomes, socketVars
<1>4. OneConnection'  BY <1>2 DEF OneConnection, TypeOK
<1>5. ASSUME NEW y \in Clients PROVE Nodes(y)' = Serving(y)'
  <2>1. CASE y = x
    <3>1. Serving(x) = {c}  BY <1>1 DEF NodesServed, Nodes
    <3>2. Serving(x)' = {}  BY <3>1 DEF Disconnect, Becomes, Serving, TypeOK
    <3>3. Nodes(x)' = {}  BY <1>2 DEF Nodes, TypeOK
    <3> QED  BY <2>1, <3>2, <3>3
  <2>2. CASE y # x
    BY <1>2, <2>2 DEF NodesServed, Nodes, Disconnect, Becomes, Serving, TypeOK
  <2> QED  BY <2>1, <2>2
<1>6. ClosedEnded'  BY DEF ClosedEnded, Disconnect, Becomes, TypeOK, socketVars
<1> QED  BY <1>3, <1>4, <1>5, <1>6 DEF NodesServed

LEMMA LoseIInv ==
  ASSUME IInv, NEW c \in Conns, Lose(c) PROVE IInv'
<1> USE DEF IInv
<1>1. TypeOK'  BY ConnectionAssumption DEF TypeOK, Lose
<1>2. OneConnection' /\ NodesServed'  BY QuietPool DEF Lose, Serving
<1>3. ClosedEnded'  BY DEF ClosedEnded, Lose
<1> QED  BY <1>1, <1>2, <1>3

-----------------------------------------------------------------------------
LEMMA StepIInv == IInv /\ [Next]_vars => IInv'
<1> SUFFICES ASSUME IInv, [Next]_vars PROVE IInv'
  OBVIOUS
<1>1. ASSUME NEW x \in Clients, Respond(x) PROVE IInv'  BY <1>1, RespondIInv
<1>2. ASSUME NEW x \in Clients, PeerConnect(x) PROVE IInv'  BY <1>2, PeerConnectIInv
<1>3. ASSUME NEW x \in Clients, NEW c \in Conns, Handshake(x, c) PROVE IInv'
  BY <1>3, PeerAcceptIInv, NoHandshakeIInv, TurnedDownIInv, AcceptedIInv, LeaveIInv,
     DisconnectIInv DEF Handshake
<1>4. ASSUME NEW c \in Conns, Lose(c) PROVE IInv'  BY <1>4, LoseIInv
<1>5. CASE UNCHANGED vars
  BY <1>5 DEF IInv, TypeOK, OneConnection, NodesServed, ClosedEnded, Nodes, Serving,
     vars, socketVars
<1> QED  BY <1>1, <1>2, <1>3, <1>4, <1>5 DEF Next

\* IInv holds in every reachable state.
THEOREM Invariance == Spec => []IInv
  BY InitIInv, StepIInv, PTL DEF Spec

\* The variables of the connection model keep to their types, however many
\* connections there are.
THEOREM TypeCorrect == Spec => []TypeOK
<1>1. IInv => TypeOK  BY DEF IInv
<1> QED  BY <1>1, Invariance, PTL

\* find_peernode under the PEER lock is enough: in no interleaving of connects,
\* accepts, handshakes, losses and new responses does a client put the other
\* into its pool twice.
THEOREM AtMostOneConnection == Spec => []OneConnection
<1>1. IInv => OneConnection  BY DEF IInv
<1> QED  BY <1>1, Invariance, PTL

\* The pool holds exactly the connections that are served, so that
\* peerpool_remove_node, which goes by address, removes the right node.
THEOREM PoolIsServed == Spec => []NodesServed
<1>1. IInv => NodesServed  BY DEF IInv
<1> QED  BY <1>1, Invariance, PTL

\* There is another client.
LEMMA OtherClient == \A x \in Clients : Other(x) \in Clients
<1> SUFFICES ASSUME NEW x \in Clients PROVE \E y \in Clients : y # x
  BY DEF Other
<1>1. SUFFICES ASSUME Clients = {x} PROVE FALSE
  OBVIOUS
<1>2. Cardinality({x}) = 1  BY FS_Singleton
<1> QED  BY <1>1, <1>2, ConnectionAssumption

\* A connection established on both sides is given up only when it is lost: the
\* client that serves it has not closed it, and the one that reads it sees no
\* end of it.
LEMMA StaysStep ==
  ASSUME IInv, [Next]_vars, NEW c \in Conns, Established(c), c \notin lost
  PROVE  Established(c)'
<1> SUFFICES ASSUME NEW x \in Clients, c \notin Nodes(x)' PROVE FALSE
  BY DEF Established
<1>1. \A y \in Clients : thread[y][c] = "serving" /\ pool[y] = <<c>>
  BY OwnNode DEF IInv, Established, NodesServed, Serving
<1>2. Other(x) \in Clients
  BY <1>1, OtherClient
<1>3. <<Other(x), c>> \notin closed
  BY <1>1, <1>2 DEF IInv, ClosedEnded
<1>4. pool[x] # pool'[x]  BY DEF Nodes, Established
<1>5. \A d \in Conns : ~Disconnect(x, d)
  <2> SUFFICES ASSUME NEW d \in Conns, Disconnect(x, d) PROVE FALSE
    OBVIOUS
  <2>1. pool[x] = <<d>>  BY OwnNode DEF Disconnect
  <2>2. d = c  BY <2>1, <1>1
  <2> QED  BY <2>2, <1>3 DEF Disconnect, Fails
<1>6. \A d \in Conns : ~HandshakeAccepted(x, d)
  BY <1>1, <<c>> # <<>> DEF HandshakeAccepted, InPool
<1>7. \A y \in Clients, d \in Conns :
        Disconnect(y, d) \/ HandshakeAccepted(y, d) => y = x
  BY <1>4 DEF Disconnect, HandshakeAccepted, IInv, TypeOK
<1> QED
  BY <1>4, <1>5, <1>6, <1>7 DEF Next, Respond, PeerConnect, Handshake, PeerAccept,
     NoHandshake, HandshakeTurnedDown, Leave, Lose, vars

\* No further attempt to connect, by either side, cuts a connection that works.
THEOREM EstablishedConnectionStays == Spec => EstablishedStays
<1>1. IInv /\ [Next]_vars
        => [\A c \in Conns : Established(c) /\ c \notin lost => Established(c)']_vars
  BY StaysStep
<1> QED  BY <1>1, Invariance, PTL DEF Spec, EstablishedStays
=============================================================================
