----------------------------- MODULE Connection -----------------------------
(***************************************************************************)
(* How two clients come to be connected.  The main thread of a client asks *)
(* the tracker again and again and connects to each peer of the response   *)
(* it has no connection with (peer_connect); its listener thread accepts   *)
(* connections (peer_accept); a thread per connection exchanges the        *)
(* handshakes, puts the peer into the pool and starts the receiver thread, *)
(* which takes it out again when the connection is lost.  Whether a peer   *)
(* counts as connected is kept twice: as a node in the pool, and as the    *)
(* state of its entry in the tracker response, which each new response     *)
(* replaces.  Both clients run this code, so both may connect at once.     *)
(*                                                                         *)
(* PEER is held throughout peer_connect, peer_accept, handshake_handler    *)
(* and the disconnect path: each is one step.  A connection is known by    *)
(* its number, reused when both clients are through with it; when all are  *)
(* taken there are no descriptors left.  The sockets are external.         *)
(***************************************************************************)
EXTENDS Integers, Sequences, FiniteSets

CONSTANTS
  Clients,     \* the two clients
  Conns,       \* numbers of connections
  Leftover,    \* get_peers does not set the state of an entry: what malloc may
               \* have left there
  MaxLosses    \* bound on the connections the network loses

\* peerdata.state; ABSENT stands for a peer the tracker does not list
CONNECT    == 1
DISCONNECT == 0
ABSENT     == -1

NONE == "none"

ASSUME ConnectionAssumption == /\ Cardinality(Clients) = 2
                               /\ NONE \notin Clients
                               /\ Leftover \subseteq Int \ {ABSENT}
                               /\ MaxLosses \in Nat

VARIABLES
  told,        \* the clients the tracker tells of the other one
  main,        \* the main thread: about to "connect", or in "sleep"
  state,       \* state of the entry for the other client: find_peer_from_tracker
  opener,      \* who connected, or NONE for a number not in use
  thread,      \* what each client has for each connection: nothing, a thread at
               \* some point, or a descriptor no thread looks at any more
  pool,        \* the nodes of each client's pool, by connection
  current,     \* receivers whose peerData points into the current response
  said,        \* handshakes sent
  closed,      \* descriptors closed
  lost, losses \* connections lost, and how many so far

socketVars == <<said, closed, lost, losses>>
vars == <<told, main, state, opener, thread, pool, current, socketVars>>

Other(x) == CHOOSE y \in Clients : y # x

Init ==
  /\ told \in SUBSET Clients
  /\ main = [x \in Clients |-> "sleep"]
  /\ state = [x \in Clients |-> ABSENT]
  /\ opener = [c \in Conns |-> NONE]
  /\ thread = [x \in Clients |-> [c \in Conns |-> "none"]]
  /\ pool = [x \in Clients |-> <<>>]
  /\ current = {} /\ said = {} /\ closed = {} /\ lost = {} /\ losses = 0

Becomes(x, c, where) == thread' = [thread EXCEPT ![x][c] = where]

\* find_peer_from_tracker finds the other client in the current response.
Listed(x) == state[x] # ABSENT

\* A handshake can be read on c, or the read fails.
Readable(x, c) == <<Other(x), c>> \in said
Fails(x, c) == <<Other(x), c>> \in closed \/ c \in lost

\* Neither client will look at c again.
Unused(c) == \A x \in Clients : thread[x][c] \in {"none", "refused", "ended"}
-----------------------------------------------------------------------------
\* get_peers: the state of a new entry is whatever malloc has left there.
NewEntries(x) == IF x \in told THEN \E s \in Leftover : state' = [state EXCEPT ![x] = s]
                              ELSE UNCHANGED state

\* main: a new response replaces the old one, with the states of its entries.
Respond(x) ==
  /\ main[x] = "sleep"
  /\ main' = [main EXCEPT ![x] = "connect"]
  /\ NewEntries(x)
  /\ current' = current \ ({x} \X Conns)
  /\ UNCHANGED <<told, opener, thread, pool, socketVars>>

\* peer_connect: the peer is skipped, cannot be reached, there is no descriptor
\* for a socket, or the peer is connected to and sent the first handshake.
Skipped(x) == ~Listed(x) \/ state[x] = CONNECT

PeerConnect(x) ==
  /\ main[x] = "connect"
  /\ main' = [main EXCEPT ![x] = "sleep"]
  /\ \/ /\ Skipped(x)
        /\ UNCHANGED <<state, opener, thread, socketVars>>
     \/ /\ ~Skipped(x) /\ losses < MaxLosses
        /\ losses' = losses + 1
        /\ UNCHANGED <<state, opener, thread, said, closed, lost>>
     \/ /\ ~Skipped(x) /\ \A c \in Conns : ~Unused(c)
        /\ UNCHANGED <<state, opener, thread, socketVars>>
     \/ \E c \in Conns :
        /\ ~Skipped(x) /\ Unused(c)
        /\ opener' = [opener EXCEPT ![c] = x]
        /\ thread' = [y \in Clients |->
             [thread[y] EXCEPT ![c] = IF y = x THEN "waiting" ELSE "backlog"]]
        /\ said' = (said \ (Clients \X {c})) \cup {<<x, c>>}
        /\ closed' = closed \ (Clients \X {c})
        /\ lost' = lost \ {c}
        /\ state' = [state EXCEPT ![x] = CONNECT]
        /\ UNCHANGED losses
  /\ UNCHANGED <<told, pool, current>>

\* An entry, if there is one, gets the state s.
Written(entry, s) == IF entry = ABSENT THEN ABSENT ELSE s

\* peer_accept: any peer is welcome that is not marked; a connection that is not
\* wanted is left as it is, open.
PeerAccept(x, c) ==
  /\ thread[x][c] = "backlog"
  /\ IF ~Listed(x) \/ state[x] = DISCONNECT
     THEN /\ Becomes(x, c, "waiting")
          /\ state' = [state EXCEPT ![x] = Written(@, CONNECT)]
     ELSE Becomes(x, c, "refused") /\ UNCHANGED state
  /\ UNCHANGED <<told, main, opener, pool, current, socketVars>>

\* wait_first_handshake and wait_second_handshake: no handshake comes.  The
\* thread ends; the descriptor stays open and the entry marked.
NoHandshake(x, c) ==
  /\ thread[x][c] = "waiting" /\ Fails(x, c)
  /\ c \in lost \/ ~Readable(x, c)
  /\ Becomes(x, c, "ended")
  /\ UNCHANGED <<told, main, state, opener, pool, current, socketVars>>

\* Slip: connections made already are not looked for.
NeverInPool(x) == FALSE

\* find_peernode(peer_ip) # NULL
InPool(x) == pool[x] # <<>>

\* handshake_handler: the peer is connected already, or the connection broke.
HandshakeTurnedDown(x, c) ==
  /\ thread[x][c] = "waiting" /\ Readable(x, c)
  /\ InPool(x) \/ c \in lost
  /\ Becomes(x, c, "leaving")
  /\ UNCHANGED <<told, main, state, opener, pool, current, socketVars>>

\* handshake_handler: the second handshake is sent if this was the first, and
\* the peer put into the pool; its receiver starts.
HandshakeAccepted(x, c) ==
  /\ thread[x][c] = "waiting" /\ Readable(x, c)
  /\ ~InPool(x)
  /\ said' = said \cup {<<x, c>>}
  /\ pool' = [pool EXCEPT ![x] = <<c>> \o @]
  /\ current' = IF Listed(x) THEN current \cup {<<x, c>>} ELSE current
  /\ Becomes(x, c, "serving")
  /\ UNCHANGED <<told, main, state, opener, closed, lost, losses>>

\* Slip: the duplicate connection is not closed.
LeftOpen(x, c) == UNCHANGED closed

Closes(x, c) == closed' = closed \cup {<<x, c>>}

\* What the waiting thread does after handshake_handler turned the peer down:
\* wait_second_handshake marks the peer as not connected, found by the address
\* of the socket, and either closes the connection.
Leave(x, c) ==
  /\ thread[x][c] = "leaving"
  /\ \/ opener[c] = x /\ state' = [state EXCEPT ![x] = Written(@, DISCONNECT)]
     \/ (opener[c] # x \/ c \in lost) /\ UNCHANGED state
  /\ Closes(x, c)
  /\ Becomes(x, c, "ended")
  /\ UNCHANGED <<told, main, opener, pool, current, said, lost, losses>>

\* Slip: the node is not taken out of the pool.
NodeKept(nodes) == nodes

\* peerpool_remove_node takes out the first node with the address of the peer,
\* whatever connection it is for.
NodeRemoved(nodes) == IF nodes = <<>> THEN nodes ELSE Tail(nodes)

\* message_handler ends: the node is removed and, through peerData, the entry
\* marked, if it still is an entry of the current response.  The descriptor is
\* not closed.
Disconnect(x, c) ==
  /\ thread[x][c] = "serving" /\ Fails(x, c)
  /\ pool' = [pool EXCEPT ![x] = NodeRemoved(@)]
  /\ state' = [state EXCEPT ![x] = IF <<x, c>> \in current THEN DISCONNECT ELSE @]
  /\ current' = current \ {<<x, c>>}
  /\ Becomes(x, c, "ended")
  /\ UNCHANGED <<told, main, opener, socketVars>>

\* The network loses a connection; each client notices when it reads.
Lose(c) ==
  /\ losses < MaxLosses
  /\ opener[c] # NONE /\ c \notin lost /\ ~Unused(c)
  /\ lost' = lost \cup {c}
  /\ losses' = losses + 1
  /\ UNCHANGED <<told, main, state, opener, thread, pool, current, said, closed>>

Handshake(x, c) == \/ PeerAccept(x, c) \/ NoHandshake(x, c)
                   \/ HandshakeTurnedDown(x, c) \/ HandshakeAccepted(x, c)
                   \/ Leave(x, c) \/ Disconnect(x, c)

Next == \/ \E x \in Clients : Respond(x) \/ PeerConnect(x)
        \/ \E x \in Clients, c \in Conns : Handshake(x, c)
        \/ \E c \in Conns : Lose(c)

Spec == Init /\ [][Next]_vars

\* Every thread keeps running: the main thread asks the tracker for ever.
FairSpec ==
  /\ Spec
  /\ \A x \in Clients : /\ WF_vars(Respond(x)) /\ WF_vars(PeerConnect(x))
                        /\ \A c \in Conns : WF_vars(Handshake(x, c))
-----------------------------------------------------------------------------
Serving(x) == {c \in Conns : thread[x][c] = "serving"}
Nodes(x) == {pool[x][k] : k \in DOMAIN pool[x]}
Established(c) == \A x \in Clients : c \in Nodes(x)

\* Types; and a client that was told nothing of the other has no entry for it,
\* nor a receiver that points to one.
TypeOK ==
  /\ told \subseteq Clients
  /\ main \in [Clients -> {"connect", "sleep"}]
  /\ state \in [Clients -> Leftover \cup {CONNECT, DISCONNECT, ABSENT}]
  /\ \A x \in Clients \ told : state[x] = ABSENT
  /\ opener \in [Conns -> Clients \cup {NONE}]
  /\ thread \in [Clients -> [Conns -> {"none", "backlog", "refused", "waiting",
                                       "leaving", "serving", "ended"}]]
  /\ pool \in [Clients -> Seq(Conns)]
  /\ current \subseteq told \X Conns /\ said \subseteq Clients \X Conns
  /\ closed \subseteq Clients \X Conns
  /\ lost \subseteq Conns /\ losses \in 0 .. MaxLosses

\* However the clients connect and are accepted, in each there is at most one
\* connection with the other, though a new response makes a connected peer
\* look unconnected.
OneConnection == \A x \in Clients : Len(pool[x]) <= 1

\* The pool holds the connections that have a receiver: the removal by address
\* removes the node of the connection that was lost and no other.
NodesServed == \A x \in Clients : Nodes(x) = Serving(x)

\* A connection both have established is not given up because of another
\* attempt to connect: it ends only when the network loses it.
EstablishedStays ==
  [][\A c \in Conns : Established(c) /\ c \notin lost => Established(c)']_vars

\* The clients do not disagree for ever about a connection: when one serves it,
\* the other comes to serve it too or the first one stops.
SidesAgree ==
  \A x \in Clients, c \in Conns :
    thread[x][c] = "serving" ~> (thread[x][c] = "serving" <=> thread[Other(x)][c] = "serving")

\* If only one client is told of the other, they are connected in the end and
\* stay so when the network loses no more connections: each response makes the
\* client try again.
KeepsTrying == Cardinality(told) = 1 => <>[](\E c \in Conns : Established(c))
=============================================================================
