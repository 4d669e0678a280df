------------------------------ MODULE Startup ------------------------------
(***************************************************************************)
(* How the process starts, announces itself and stops: the main thread,    *)
(* the listener, which runs before there is anything to serve, the         *)
(* receivers and the requester as far as they use what the main thread     *)
(* sets up, and the handler of one SIGINT, which the main thread gets.     *)
(* The tracker and the peers are external.                                 *)
(*                                                                         *)
(* A peer has every piece; disconnects, and how pieces are requested, are  *)
(* Download's.                                                             *)
(***************************************************************************)
EXTENDS Integers, Sequences, FiniteSets

CONSTANTS
  Pieces,       \* pieces of the torrent
  Starts,       \* what pieces the file may have when the process starts
  Conns,        \* connections peers may make
  MaxAnnounces, \* announces that reach the tracker
  MaxFailures   \* announces that do not

ASSUME StartupAssumption ==
  /\ IsFiniteSet(Pieces) /\ Pieces # {} /\ Starts \subseteq SUBSET Pieces
  /\ IsFiniteSet(Conns)
  /\ MaxAnnounces \in Nat \ {0} /\ MaxFailures \in Nat

\* btdata.h and the event of later requests
BT_STARTED == 0
BT_STOPPED == 1
NO_EVENT   == -1

\* An array or a list that is not there.
NULL == [i \in {} |-> 0]

\* mytorrent.h
PIECE_REQUESTING == 0
PIECE_COMPLETED  == 1
PIECE_HAVNT      == 2

VARIABLES
  process,     \* "running" or why it is no more
  main,        \* where the main thread is
  event, failures,
  heard,       \* events the tracker has heard
  listening, file_open, interruptible,
  g_tracker_response, pieces_state_arr, pieces_num_in_peers, rest_pieces_num,
  created, requesters,
  conn,        \* of each connection: "none", "open" or "noted", its bitfield counted
  disk, asked  \* pieces that are right on disk; pieces asked of peers

globalInfo == <<g_tracker_response, pieces_state_arr, pieces_num_in_peers, rest_pieces_num>>
announceVars == <<event, failures, heard>>
setupVars == <<listening, file_open, interruptible>>
requesterVars == <<created, requesters>>
peerVars == <<conn, disk, asked>>
vars == <<process, main, announceVars, setupVars, globalInfo, requesterVars, peerVars>>

\* The torrent is parsed and the file is there.
Init ==
  /\ process = "running" /\ main = "parsed"
  /\ event = BT_STARTED /\ failures = 0 /\ heard = <<>>
  /\ listening = FALSE /\ file_open = TRUE /\ interruptible = FALSE
  /\ g_tracker_response = NULL
  /\ pieces_state_arr = NULL /\ pieces_num_in_peers = NULL /\ rest_pieces_num = 0
  /\ created = 0 /\ requesters = 0
  /\ conn = [c \in Conns |-> "none"]
  /\ disk \in Starts /\ asked = {}
-----------------------------------------------------------------------------
(***************************************************************************)
(* The main thread.                                                        *)
(***************************************************************************)
MainAt(from, to) == main = from /\ main' = to

\* make_listen_port, and the thread of port_listen.
Listen ==
  /\ MainAt("parsed", "resolving")
  /\ listening' = TRUE
  /\ UNCHANGED <<process, announceVars, file_open, interruptible, globalInfo,
                 requesterVars, peerVars>>

\* The tracker's address is resolved and client_shutdown installed.
InstallHandler ==
  /\ MainAt("resolving", "announcing")
  /\ interruptible' = TRUE
  /\ UNCHANGED <<process, announceVars, listening, file_open, globalInfo,
                 requesterVars, peerVars>>

\* Slip: the event is sent with every request.
EventKept == UNCHANGED event

EventUsed == event' = NO_EVENT

Announce ==
  /\ MainAt("announcing", "awaiting") /\ Len(heard) < MaxAnnounces
  /\ heard' = Append(heard, event)
  /\ EventUsed
  /\ UNCHANGED <<process, failures, setupVars, globalInfo, requesterVars, peerVars>>

\* connect or send fails: the request is made again, with the event it has by then.
AnnounceFails ==
  /\ MainAt("announcing", "announcing") /\ failures < MaxFailures
  /\ failures' = failures + 1
  /\ EventUsed
  /\ UNCHANGED <<process, heard, setupVars, globalInfo, requesterVars, peerVars>>

\* preprocess_tracker_response and get_tracker_data.
Respond ==
  /\ MainAt("awaiting", "initialising")
  /\ g_tracker_response' = [i \in {1} |-> "peer"]
  /\ UNCHANGED <<process, announceVars, setupVars, pieces_state_arr,
                 pieces_num_in_peers, rest_pieces_num, requesterVars, peerVars>>

\* They do not survive a response that is no answer or a refusal.
Refuse ==
  /\ MainAt("awaiting", "awaiting")
  /\ process' = "refused"
  /\ UNCHANGED <<announceVars, setupVars, globalInfo, requesterVars, peerVars>>

\* Slip: the arrays are made anew for every response.
AbsentOrNot(array) == TRUE

Absent(array) == array = NULL

InitPiecesStateArr ==
  /\ MainAt("initialising", "counting")
  /\ IF Absent(pieces_state_arr)
     THEN /\ pieces_state_arr' = [i \in Pieces |-> IF i \in disk THEN PIECE_COMPLETED
                                                                 ELSE PIECE_HAVNT]
          /\ rest_pieces_num' = Cardinality(Pieces \ disk)
     ELSE UNCHANGED <<pieces_state_arr, rest_pieces_num>>
  /\ UNCHANGED <<process, announceVars, setupVars, g_tracker_response,
                 pieces_num_in_peers, requesterVars, peerVars>>

InitPiecesNumInPeers ==
  /\ MainAt("counting", "creating")
  /\ pieces_num_in_peers' = IF Absent(pieces_num_in_peers) THEN [i \in Pieces |-> 0]
                                                           ELSE pieces_num_in_peers
  /\ UNCHANGED <<process, announceVars, setupVars, g_tracker_response,
                 pieces_state_arr, rest_pieces_num, requesterVars, peerVars>>

\* Slip: the test is the wrong way round.
CreatedAlready == created # 0

NotYetCreated == created = 0

Marked == created' = 1

CreateRequestFileThread ==
  /\ MainAt("creating", "connecting")
  /\ IF NotYetCreated THEN Marked /\ requesters' = requesters + 1
                      ELSE UNCHANGED requesterVars
  /\ UNCHANGED <<process, announceVars, setupVars, globalInfo, peerVars>>

\* peer_connect reaches some of the listed peers.
PeerConnect ==
  /\ MainAt("connecting", "asleep")
  /\ \E reached \in SUBSET {c \in Conns : conn[c] = "none"} :
       conn' = [c \in Conns |-> IF c \in reached THEN "open" ELSE conn[c]]
  /\ UNCHANGED <<process, announceVars, setupVars, globalInfo, requesterVars, disk, asked>>

\* Slip: the response is given up before the next one is there.
ResponseDropped == g_tracker_response' = NULL

ResponseKept == UNCHANGED g_tracker_response

\* The interval is over.
Wake ==
  /\ MainAt("asleep", "announcing")
  /\ ResponseKept
  /\ UNCHANGED <<process, announceVars, setupVars, pieces_state_arr,
                 pieces_num_in_peers, rest_pieces_num, requesterVars, peerVars>>

Main == \/ Listen \/ InstallHandler \/ Announce \/ AnnounceFails \/ Respond \/ Refuse
        \/ InitPiecesStateArr \/ InitPiecesNumInPeers \/ CreateRequestFileThread
        \/ PeerConnect \/ Wake
-----------------------------------------------------------------------------
(***************************************************************************)
(* The other threads.                                                      *)
(***************************************************************************)
Dies(why) == process' = why /\ UNCHANGED <<globalInfo, peerVars>>

\* port_listen: peer_accept looks the peer up in the tracker's response.
Accept(c) ==
  /\ listening /\ conn[c] = "none"
  /\ IF g_tracker_response = NULL
     THEN Dies("null_met")
     ELSE /\ conn' = [conn EXCEPT ![c] = "open"]
          /\ UNCHANGED <<process, globalInfo, disk, asked>>
  /\ UNCHANGED <<main, announceVars, setupVars, requesterVars>>

\* The handshake and handle_bitfield, which counts the peer's pieces and looks at
\* the states of the client's.
HandleBitfield(c) ==
  /\ conn[c] = "open"
  /\ IF NULL \in {pieces_num_in_peers, pieces_state_arr}
     THEN Dies("null_met")
     ELSE /\ conn' = [conn EXCEPT ![c] = "noted"]
          /\ pieces_num_in_peers' = [i \in Pieces |-> pieces_num_in_peers[i] + 1]
          /\ UNCHANGED <<process, g_tracker_response, pieces_state_arr,
                         rest_pieces_num, disk, asked>>
  /\ UNCHANGED <<main, announceVars, setupVars, requesterVars>>

\* request_file asks a peer for a piece.
Request(i) ==
  /\ requesters > 0
  /\ pieces_state_arr[i] = PIECE_HAVNT /\ pieces_num_in_peers[i] > 0
  /\ pieces_state_arr' = [pieces_state_arr EXCEPT ![i] = PIECE_REQUESTING]
  /\ rest_pieces_num' = rest_pieces_num - 1
  /\ asked' = asked \cup {i}
  /\ UNCHANGED <<process, main, announceVars, setupVars, g_tracker_response,
                 pieces_num_in_peers, requesterVars, conn, disk>>

\* handle_piece writes to the file.  What writing to a closed FILE does is not
\* defined: the process dies of it or the bytes are lost.
HandlePiece(i) ==
  /\ i \in asked
  /\ \/ /\ file_open
        /\ disk' = disk \cup {i} /\ asked' = asked \ {i}
        /\ pieces_state_arr' = [pieces_state_arr EXCEPT ![i] = PIECE_COMPLETED]
        /\ UNCHANGED <<process, g_tracker_response, pieces_num_in_peers,
                       rest_pieces_num, conn>>
     \/ ~file_open /\ Dies("file_closed")
  /\ UNCHANGED <<main, announceVars, setupVars, requesterVars>>
-----------------------------------------------------------------------------
(***************************************************************************)
(* SIGINT.  The handler runs in the main thread, wherever that is; the     *)
(* other threads run on until it exits.                                    *)
(***************************************************************************)
Stopping == main \in {"stopping", "stopped"}

\* Its connect and send may fail; what was heard before is not told twice.
SendStopped ==
  /\ interruptible /\ ~Stopping
  /\ main' = "stopping"
  /\ heard' \in {heard, Append(heard, BT_STOPPED)}
  /\ UNCHANGED <<process, event, failures, setupVars, globalInfo, requesterVars, peerVars>>

CloseFiles ==
  /\ MainAt("stopping", "stopped")
  /\ listening' = FALSE /\ file_open' = FALSE
  /\ UNCHANGED <<process, announceVars, interruptible, globalInfo, requesterVars, peerVars>>

Exit ==
  /\ MainAt("stopped", "stopped")
  /\ process' = "exited"
  /\ UNCHANGED <<announceVars, setupVars, globalInfo, requesterVars, peerVars>>

\* Before it is installed, SIGINT ends the process.
Killed ==
  /\ ~interruptible
  /\ process' = "exited"
  /\ UNCHANGED <<main, announceVars, setupVars, globalInfo, requesterVars, peerVars>>

Handler == SendStopped \/ CloseFiles \/ Exit \/ Killed

Next ==
  /\ process = "running"
  /\ \/ Main \/ Handler
     \/ \E c \in Conns : Accept(c) \/ HandleBitfield(c)
     \/ \E i \in Pieces : Request(i) \/ HandlePiece(i)

Spec == Init /\ [][Next]_vars

\* The main thread keeps running, and the tracker is reached or not.
FairSpec == Spec /\ WF_vars(process = "running" /\ (Main \/ CloseFiles \/ Exit))
-----------------------------------------------------------------------------
StateArrays == [Pieces -> {PIECE_REQUESTING, PIECE_COMPLETED, PIECE_HAVNT}]

\* Types, and that there is one requester, from when it was created on.
TypeOK ==
  /\ process \in {"running", "exited", "refused", "null_met", "file_closed"}
  /\ main \in {"parsed", "resolving", "announcing", "awaiting", "initialising",
               "counting", "creating", "connecting", "asleep", "stopping", "stopped"}
  /\ event \in {BT_STARTED, NO_EVENT} /\ failures \in 0 .. MaxFailures
  /\ heard \in Seq({BT_STARTED, NO_EVENT, BT_STOPPED})
  /\ listening \in BOOLEAN /\ file_open \in BOOLEAN /\ interruptible \in BOOLEAN
  /\ g_tracker_response \in [{1} -> {"peer"}] \cup {NULL}
  /\ pieces_state_arr \in StateArrays \cup {NULL}
  /\ pieces_num_in_peers \in [Pieces -> 0 .. Cardinality(Conns)] \cup {NULL}
  /\ rest_pieces_num \in 0 .. Cardinality(Pieces)
  /\ created \in {0, 1} /\ requesters = created
  /\ conn \in [Conns -> {"none", "open", "noted"}]
  /\ disk \subseteq Pieces /\ asked \subseteq Pieces

\* The tracker hears "started" at most once and before anything else, and nothing
\* after "stopped", whatever fails and whenever the client is interrupted.
OrderlySession ==
  \A k \in DOMAIN heard : /\ heard[k] = BT_STARTED => k = 1
                          /\ heard[k] = BT_STOPPED => k = Len(heard)

\* Every response runs the initialisation again: what is requested, counted and
\* left to request meanwhile is not forgotten.
InState(state) == {i \in Pieces : pieces_state_arr[i] = state}

Remembered ==
  /\ pieces_state_arr # NULL =>
       /\ InState(PIECE_REQUESTING) = asked /\ InState(PIECE_COMPLETED) = disk
       /\ rest_pieces_num = Cardinality(InState(PIECE_HAVNT))
  /\ pieces_num_in_peers # NULL =>
       \A i \in Pieces :
         pieces_num_in_peers[i] = Cardinality({c \in Conns : conn[c] = "noted"})

\* A peer that connects too early meets NULL, a response or an array that is not
\* there yet; once the main thread has set up all of them nobody does, also not
\* while it sets them up again.
NullOnlyEarly == process = "null_met" => pieces_num_in_peers = NULL

\* A failed announce is tried again until the requester runs, unless the process ends.
RequesterRuns == <>(requesters = 1 \/ Stopping \/ process # "running")
=============================================================================
