--------------------------- MODULE FileStoreProofs ---------------------------
(***************************************************************************)
(* Proofs about FileStore, for any torrent, number of connections and      *)
(* faults.  TLC checks them on the instance of MCFileStore.                *)
(***************************************************************************)
EXTENDS FileStore, TLAPS

Busy(r) == job[r] # "none"

Hashing == {"seek", "read", "found", "set"}

Arrived == {"locate", "block"}

\* Who may be at the stream: one receiver under FILE, and the main thread only
\* while there are no piece states, when no block is written.
Turns ==
  /\ \A r, s \in Receivers : Busy(r) /\ Busy(s) => r = s
  /\ at["main"] \in IF main \in {"checking", "loading"} THEN Hashing ELSE {"rest"}
  /\ \A r \in Receivers :
       at[r] \in CASE job[r] = "none"     -> {"rest"}
                   [] job[r] = "bitfield" -> Hashing
                   [] job[r] = "request"  -> Arrived
                   [] job[r] = "piece"    -> Hashing \cup Arrived
  /\ \A r \in early : Busy(r)
  /\ \A r \in Receivers : Busy(r) => main = "ready" \/ r \in early
  /\ \A r \in Receivers : job[r] = "piece" => main = "ready" /\ r \notin early
  /\ main \in {"down", "opening", "checking"} => \A r \in Receivers : ~Busy(r) /\ link[r] = "none"
  /\ main # "ready" => \A i \in Pieces : asked[i] = NoOne /\ pieces_state_arr[i] = PIECE_HAVNT
  /\ \A t \in Threads : at[t] \notin {"seek", "read", "found"} => bits[t] = {} /\ cursor[t] = 0

\* The buffer holds a block only until gen_bitfield, which follows, seeks.
Buffered ==
  buffer # NoBuffer =>
    \E r \in Receivers : /\ job[r] = "piece" /\ at[r] = "seek" /\ cursor[r] = 0
                         /\ buffer.block = target[r]

\* What gen_bitfield finds is there; unless another thread moved the position,
\* it finds all that is.
Honest ==
  /\ \A t \in Threads : bits[t] \subseteq WholeIn(Content)
  /\ bitfield \subseteq WholeIn(Content) \cup missed

Complete ==
  \A r \in Receivers \ early :
    /\ at[r] \in {"seek", "read"} => \A i \in WholeIn(Content) : i < cursor[r] => i \in bits[r]
    /\ at[r] = "found" => WholeIn(Content) \subseteq bits[r]
    /\ at[r] = "set" => WholeIn(Content) \subseteq bitfield

\* A piece is asked of one peer, and the block being handled is the one before
\* the next.
Asked ==
  /\ \A i \in Pieces : asked[i] # NoOne => /\ pieces_state_arr[i] # PIECE_HAVNT
                                           /\ link[asked[i]] \notin {"none", "new"}
  /\ \A r \in Receivers : job[r] = "piece" =>
       /\ link[r] \in {"up", "torn"}
       /\ asked[target[r][1]] = r
       /\ next[target[r][1]] = target[r][2] + 1

\* The blocks that came before are right.
InOrder ==
  \A i \in Pieces : asked[i] # NoOne /\ link[asked[i]] = "up" =>
    \A k \in 1 .. NumBlocks : k < next[i] =>
      \/ <<i, k>> \in Content
      \/ /\ job[asked[i]] = "piece" /\ at[asked[i]] \in Arrived
         /\ target[asked[i]] = <<i, k>>

\* The last block of a piece is the last one to be right.
LastIsLast(blocks) == \A i \in Pieces \ missed : <<i, NumBlocks>> \in blocks => i \in WholeIn(blocks)

\* No block comes for a piece that is there.
NoneToCome ==
  /\ \A i \in Pieces \cap WholeIn(Content) : 
       asked[i] # NoOne /\ link[asked[i]] = "up" /\ next[i] <= NumBlocks => i \in missed
  /\ \A r \in Receivers :
       job[r] = "piece" /\ at[r] \in Arrived /\ target[r][1] \in WholeIn(Content)
         => target[r][1] \in missed

\* What is claimed is there, and what is there is known.
Claimed(blocks) == InState(PIECE_COMPLETED) \cup said \subseteq WholeIn(blocks) \cup missed

Known ==
  main = "ready" =>
    \A i \in WholeIn(Content) :
      \/ i \in InState(PIECE_COMPLETED) \cup missed
      \/ \E r \in Receivers : job[r] = "piece" /\ target[r][1] = i

Inv ==
  /\ TypeOK /\ Turns /\ SeeksHold /\ Buffered /\ Honest /\ Complete /\ Asked /\ InOrder
  /\ LastIsLast(kernel) /\ LastIsLast(Content)
  /\ NoneToCome
  /\ Claimed(kernel) /\ Claimed(Content)
  /\ Known

-----------------------------------------------------------------------------
(***************************************************************************)
(* Who is where.                                                           *)
(***************************************************************************)
LEMMA WholePieces ==
  ASSUME NEW blocks, NEW i \in Pieces
  PROVE  i \in WholeIn(blocks) <=> \A k \in 1 .. NumBlocks : <<i, k>> \in blocks
BY DEF WholeIn

LEMMA FirstBlock == <<0, 1>> \in Blocks
BY FileStoreAssumption DEF Blocks, Pieces

LEMMA Small == 0 \in Pieces /\ 0 \in 0 .. NumPieces /\ "main" \in Threads
BY FileStoreAssumption DEF Pieces, Threads

LEMMA TypeInit == Init => TypeOK
BY FileStoreAssumption, FirstBlock DEF Init, TypeOK, NoBuffer, NoBlock, Pieces, Threads

LEMMA TypeStep == TypeOK /\ Turns /\ [Next]_vars => TypeOK'
<1> SUFFICES ASSUME TypeOK, Turns, [Next]_vars
             PROVE  TypeOK'
  OBVIOUS
<1> USE DEF TypeOK, stream, genVars, jobVars, netVars, history
<1>1. CASE OpenFile
  BY <1>1 DEF OpenFile
<1>2. CASE ExtendFile
  BY <1>2, Small DEF ExtendFile, Goto, GenStarts
<1>3. CASE Respond
  BY <1>3, Small DEF Respond, Goto, GenStarts
<1>4. CASE InitPieces
  BY <1>4 DEF InitPieces, Goto, WholeIn
<1>5. ASSUME NEW t \in Threads, SeekPiece(t)
      PROVE  TypeOK'
  <2>1. Content \subseteq Blocks
    BY DEF Content
  <2> QED
    BY <1>5, <2>1 DEF SeekPiece, Goto, SeekTo, NoBuffer, NoBlock
<1>6. ASSUME NEW t \in Threads, ReadPiece(t)
      PROVE  TypeOK'
  <2>1. Matching(t) \subseteq Pieces
    BY DEF Matching, WholeIn
  <2>2. cursor[t] \in Pieces /\ cursor[t] + 1 \in 0 .. NumPieces
    BY <1>6, FileStoreAssumption DEF ReadPiece, Goto, Pieces
  <2>3. ~LastPiece(t) => cursor[t] + 1 \in Pieces
    BY <2>2, FileStoreAssumption DEF LastPiece, Pieces
  <2>4. <<position[1] + 1, 1>> \in Int \X Int
    OBVIOUS
  <2> QED
    BY <1>6, <2>1, <2>2, <2>3, <2>4 DEF ReadPiece, Goto
<1>7. ASSUME NEW t \in Threads, SetBitfield(t)
      PROVE  TypeOK'
  BY <1>7, Small DEF SetBitfield, Goto
<1>8. ASSUME NEW r \in Receivers, Connect(r)
      PROVE  TypeOK'
  BY <1>8 DEF Connect
<1>9. ASSUME NEW r \in Receivers, SendBitfield(r)
      PROVE  TypeOK'
  BY <1>9, Small DEF SendBitfield, Starts, GenStarts, Goto, Threads
<1>10. ASSUME NEW r \in Receivers, SayBitfield(r)
       PROVE  TypeOK'
  BY <1>10, FirstBlock DEF SayBitfield, Ends, Goto
<1>11. ASSUME NEW r \in Receivers, HandleRequest(r)
       PROVE  TypeOK'
  <2>1. PICK b \in Blocks : Starts(r, "request", b, "locate")
    BY <1>11 DEF HandleRequest
  <2> QED
    BY <1>11, <2>1 DEF HandleRequest, Starts, Goto, Threads
<1>12. ASSUME NEW r \in Receivers, SeekBlock(r)
       PROVE  TypeOK'
  <2>1. Content \subseteq Blocks
    BY DEF Content
  <2>2. target[r] \in Int \X Int /\ at'[r] = "block"
    BY <1>12, FileStoreAssumption DEF SeekBlock, Goto, Blocks, Pieces, Threads
  <2> QED
    BY <1>12, <2>1, <2>2 DEF SeekBlock, Goto, SeekTo, NoBuffer, NoBlock
<1>13. ASSUME NEW r \in Receivers, ReadBlock(r)
       PROVE  TypeOK'
  <2>1. After(position) \in Int \X Int
    BY DEF After
  <2> QED
    BY <1>13, FirstBlock, <2>1 DEF ReadBlock, Ends, Goto, Threads
<1>14. ASSUME NEW r \in Receivers, NEW torn \in BOOLEAN, HandlePiece(r, torn)
       PROVE  TypeOK'
  <2>1. PICK i \in Pieces : /\ next[i] <= NumBlocks
                            /\ Starts(r, "piece", <<i, next[i]>>, "locate")
                            /\ next' = [next EXCEPT ![i] = @ + 1]
    BY <1>14 DEF HandlePiece
  <2>2. <<i, next[i]>> \in Blocks /\ next[i] + 1 \in 1 .. NumBlocks + 1
    BY <2>1, FileStoreAssumption DEF Blocks
  <2>3. faults' \in 0 .. MaxFaults /\ link' \in [Receivers -> {"none", "new", "up", "torn", "lost"}]
    BY <1>14, FileStoreAssumption DEF HandlePiece
  <2> QED
    BY <1>14, <2>1, <2>2, <2>3 DEF HandlePiece, Starts, Goto, Threads
<1>15. ASSUME NEW r \in Receivers, WriteBlock(r)
       PROVE  TypeOK'
  <2>1. After(position) \in Int \X Int
    BY DEF After
  <2>2. buffer' \in [block : Int \X Int, right : BOOLEAN] /\ (buffer'.right => buffer'.block \in Blocks)
    BY <1>15 DEF WriteBlock, WriteAt
  <2> QED
    BY <1>15, Small, <2>1, <2>2 DEF WriteBlock, Goto, GenStarts, WriteAt, Threads
<1>16. ASSUME NEW r \in Receivers, CheckPiece(r)
       PROVE  TypeOK'
  <2>1. target[r][1] \in Pieces
    BY DEF Blocks
  <2> QED
    BY <1>16, FirstBlock, <2>1 DEF CheckPiece, Ends, Goto, Threads
<1>17. ASSUME NEW r \in Receivers, Lose(r)
       PROVE  TypeOK'
  BY <1>17, FileStoreAssumption DEF Lose
<1>18. ASSUME NEW r \in Receivers, Disconnect(r)
       PROVE  TypeOK'
  BY <1>18 DEF Disconnect
<1>19. ASSUME NEW r \in Receivers, NEW i \in Pieces, Request(i, r)
       PROVE  TypeOK'
  BY <1>19, FileStoreAssumption DEF Request
<1>20. CASE Killed \/ Shutdown
  <2>1. PICK blocks \in SUBSET Blocks : EndsWith(blocks)
    BY <1>20 DEF Killed, Shutdown, Content
  <2>2. faults' \in 0 .. MaxFaults
    BY <2>1, FileStoreAssumption DEF EndsWith
  <2>3. at' \in [Threads -> {"rest", "seek", "read", "found", "set", "locate", "block"}]
    BY <2>1 DEF EndsWith
  <2> QED
    BY <2>1, <2>2, <2>3, FileStoreAssumption, FirstBlock, Small DEF EndsWith, NoBuffer, NoBlock
<1>21. CASE UNCHANGED vars
  BY <1>21 DEF vars
<1> QED
  BY <1>1, <1>2, <1>3, <1>4, <1>5, <1>6, <1>7, <1>8, <1>9, <1>10, <1>11, <1>12, <1>13, <1>14,
     <1>15, <1>16, <1>17, <1>18, <1>19, <1>20, <1>21, Small
     DEF Next, Main, Receiver, GenBitfield, Threads

LEMMA TurnsStep == TypeOK /\ Turns /\ [Next]_vars => Turns'
<1> SUFFICES ASSUME TypeOK, Turns, [Next]_vars
             PROVE  Turns'
  OBVIOUS
<1> USE FileStoreAssumption
    DEF TypeOK, Turns, Busy, Hashing, Arrived, Threads, stream, genVars, jobVars, netVars, history
<1>1. CASE OpenFile \/ UNCHANGED vars
  BY <1>1 DEF OpenFile, vars
<1>2. CASE ExtendFile
  BY <1>2 DEF ExtendFile, Goto, GenStarts
<1>3. CASE Respond
  BY <1>3 DEF Respond, Goto, GenStarts
<1>4. CASE InitPieces
  BY <1>4 DEF InitPieces, Goto
<1>5. ASSUME NEW t \in Threads, SeekPiece(t)
      PROVE  Turns'
  BY <1>5 DEF SeekPiece, Goto
<1>6. ASSUME NEW t \in Threads, ReadPiece(t)
      PROVE  Turns'
  BY <1>6 DEF ReadPiece, Goto
<1>7. ASSUME NEW t \in Threads, SetBitfield(t)
      PROVE  Turns'
  BY <1>7 DEF SetBitfield, Goto
<1>8. ASSUME NEW r \in Receivers, Connect(r) \/ Lose(r)
      PROVE  Turns'
  BY <1>8 DEF Connect, Lose
<1>9. ASSUME NEW r \in Receivers, SendBitfield(r)
      PROVE  Turns'
  BY <1>9 DEF SendBitfield, Starts, FileFree, GenStarts, Goto
<1>10. ASSUME NEW r \in Receivers, SayBitfield(r)
       PROVE  Turns'
  BY <1>10 DEF SayBitfield, Ends, Goto
<1>11. ASSUME NEW r \in Receivers, HandleRequest(r)
       PROVE  Turns'
  <2>1. PICK b \in Blocks : Starts(r, "request", b, "locate")
    BY <1>11 DEF HandleRequest
  <2> QED
    BY <1>11, <2>1 DEF HandleRequest, Starts, FileFree, Goto
<1>12. ASSUME NEW r \in Receivers, SeekBlock(r)
       PROVE  Turns'
  BY <1>12 DEF SeekBlock, Goto
<1>13. ASSUME NEW r \in Receivers, ReadBlock(r)
       PROVE  Turns'
  BY <1>13 DEF ReadBlock, Ends, Goto
<1>14. ASSUME NEW r \in Receivers, NEW torn \in BOOLEAN, HandlePiece(r, torn)
       PROVE  Turns'
  <2>1. PICK b : Starts(r, "piece", b, "locate")
    BY <1>14 DEF HandlePiece
  <2> QED
    BY <1>14, <2>1 DEF HandlePiece, Starts, FileFree, Goto
<1>15. ASSUME NEW r \in Receivers, WriteBlock(r)
       PROVE  Turns'
  BY <1>15 DEF WriteBlock, Goto, GenStarts
<1>16. ASSUME NEW r \in Receivers, CheckPiece(r)
       PROVE  Turns'
  BY <1>16 DEF CheckPiece, Ends, Goto
<1>17. ASSUME NEW r \in Receivers, Disconnect(r)
       PROVE  Turns'
  BY <1>17 DEF Disconnect
<1>18. ASSUME NEW r \in Receivers, NEW i \in Pieces, Request(i, r)
       PROVE  Turns'
  BY <1>18 DEF Request
<1>19. CASE Killed \/ Shutdown
  BY <1>19 DEF Killed, Shutdown, EndsWith
<1> QED
  BY <1>1, <1>2, <1>3, <1>4, <1>5, <1>6, <1>7, <1>8, <1>9, <1>10, <1>11, <1>12, <1>13, <1>14,
     <1>15, <1>16, <1>17, <1>18, <1>19
     DEF Next, Main, Receiver, GenBitfield

\* A receiver that is not early has the stream for itself while it is busy.
LEMMA Alone ==
  ASSUME TypeOK, Turns, NEW r \in Receivers \ early, at[r] # "rest",
         NEW t \in Threads, at[t] # "rest"
  PROVE  t = r
BY FileStoreAssumption DEF TypeOK, Turns, Busy, Threads

LEMMA SeeksStep == TypeOK /\ Turns /\ SeeksHold /\ [Next]_vars => SeeksHold'
<1> SUFFICES ASSUME TypeOK, Turns, SeeksHold, [Next]_vars,
                    NEW r \in Receivers, r \notin early',
                    at'[r] \in {"block", "read"}
             PROVE  /\ at'[r] = "block" => position' = target'[r]
                    /\ at'[r] = "read" => position' = <<cursor'[r], 1>>
  BY DEF SeeksHold
<1> DEFINE Holds == /\ at'[r] = "block" => position' = target'[r]
                    /\ at'[r] = "read" => position' = <<cursor'[r], 1>>
<1> SUFFICES Holds
  BY DEF Holds
<1> HIDE DEF Holds
<1>r. r \in Threads /\ r # "main"
  BY FileStoreAssumption DEF Threads
<1>0. ASSUME at'[r] = at[r], r \notin early, position' = position, target'[r] = target[r],
             cursor'[r] = cursor[r]
      PROVE  Holds
  BY <1>0 DEF SeeksHold, Holds
<1>1. ASSUME NEW t \in Threads, at[t] # "rest", r \notin early, at[r] # "rest"
      PROVE  t = r
  BY <1>1, <1>r, Alone
<1> USE DEF TypeOK, stream, genVars, jobVars, netVars, history
<1>2. CASE OpenFile \/ UNCHANGED vars
  BY <1>2, <1>0 DEF OpenFile, vars
<1>15. CASE ExtendFile \/ Respond \/ InitPieces
  BY <1>15, <1>r, <1>0 DEF ExtendFile, Respond, InitPieces, Goto, GenStarts
<1>3. ASSUME NEW t \in Threads, SeekPiece(t) \/ ReadPiece(t) \/ SetBitfield(t)
      PROVE  Holds
  <2>1. CASE t = r
    BY <1>3, <2>1, <1>r DEF SeekPiece, ReadPiece, SetBitfield, SeekTo, Goto, Holds
  <2>2. CASE t # r
    BY <1>3, <2>2, <1>1, <1>r DEF SeekPiece, ReadPiece, SetBitfield, Goto
  <2> QED
    BY <2>1, <2>2
<1>4. ASSUME NEW s \in Receivers, Connect(s) \/ Lose(s) \/ Disconnect(s)
      PROVE  Holds
  BY <1>4, <1>0 DEF Connect, Lose, Disconnect
<1>5. ASSUME NEW s \in Receivers, NEW i \in Pieces, Request(i, s)
      PROVE  Holds
  BY <1>5, <1>0 DEF Request
<1>6. ASSUME NEW s \in Receivers, NEW kind, NEW b, NEW where \in {"seek", "locate"},
             Starts(s, kind, b, where), position' = position,
             cursor' = [cursor EXCEPT ![s] = 0] \/ cursor' = cursor
      PROVE  Holds
  BY <1>6, <1>0, <1>r DEF Starts, Goto
<1>7. ASSUME NEW s \in Receivers, SendBitfield(s)
      PROVE  Holds
  BY <1>7, <1>6 DEF SendBitfield, GenStarts
<1>8. ASSUME NEW s \in Receivers, HandleRequest(s)
      PROVE  Holds
  BY <1>8, <1>6 DEF HandleRequest
<1>9. ASSUME NEW s \in Receivers, NEW torn \in BOOLEAN, HandlePiece(s, torn)
      PROVE  Holds
  BY <1>9, <1>6 DEF HandlePiece
<1>10. ASSUME NEW s \in Receivers, SayBitfield(s) \/ CheckPiece(s)
       PROVE  Holds
  BY <1>10, <1>0, <1>r DEF SayBitfield, CheckPiece, Ends, Goto
<1>11. ASSUME NEW s \in Receivers, ReadBlock(s)
       PROVE  Holds
  BY <1>11, <1>1, <1>r DEF ReadBlock, Ends, Goto, Threads
<1>12. ASSUME NEW s \in Receivers, SeekBlock(s)
       PROVE  Holds
  <2>1. CASE s = r
    BY <1>12, <2>1, <1>r DEF SeekBlock, SeekTo, Goto, Holds
  <2>2. CASE s # r
    BY <1>12, <2>2, <1>1, <1>r DEF SeekBlock, Goto, Threads
  <2> QED
    BY <2>1, <2>2
<1>13. ASSUME NEW s \in Receivers, WriteBlock(s)
       PROVE  Holds
  BY <1>13, <1>1, <1>r DEF WriteBlock, Goto, Threads
<1>14. CASE Killed \/ Shutdown
  BY <1>14, <1>r DEF Killed, Shutdown, EndsWith, Holds
<1> HIDE DEF TypeOK, stream, genVars, jobVars, netVars, history
<1> QED
  BY <1>2, <1>15, <1>3, <1>4, <1>5, <1>7, <1>8, <1>9, <1>10, <1>11, <1>12, <1>13, <1>14
     DEF Next, Main, Receiver, GenBitfield, Threads

\* The three receivers' loops over the stream, seen from what is in the file: a
\* seek gives the kernel what the stream had, and changes nothing of it.
LEMMA ContentBlocks == TypeOK => Content \subseteq Blocks
BY DEF TypeOK, Content

LEMMA NoBufferContent == TypeOK /\ buffer = NoBuffer => Content = kernel
BY FileStoreAssumption DEF TypeOK, Content, NoBuffer, NoBlock, Blocks, Pieces

LEMMA SeekContent ==
  ASSUME TypeOK, NEW b, SeekTo(b)
  PROVE  kernel' = Content /\ Content' = Content
BY ContentBlocks, FileStoreAssumption DEF SeekTo, Content, NoBuffer, NoBlock, Blocks, Pieces

LEMMA BufferFree ==
  ASSUME TypeOK, Turns, Buffered,
         \/ FileFree
         \/ main # "ready"
         \/ \E t \in Threads : at[t] \notin {"rest", "seek"}
  PROVE  buffer = NoBuffer
<1> SUFFICES ASSUME buffer # NoBuffer
             PROVE  FALSE
  OBVIOUS
<1>1. PICK r \in Receivers : job[r] = "piece" /\ at[r] = "seek"
  BY DEF Buffered
<1>2. r \in Threads /\ r \notin early /\ main = "ready"
  BY <1>1 DEF Turns, Threads
<1>3. ~FileFree
  BY <1>1 DEF FileFree
<1>4. PICK t \in Threads : at[t] \notin {"rest", "seek"}
  BY <1>2, <1>3
<1>5. t = r
  BY <1>1, <1>2, <1>4, Alone
<1> QED
  BY <1>1, <1>4, <1>5

LEMMA BufferedStep == TypeOK /\ Turns /\ SeeksHold /\ Buffered /\ [Next]_vars => Buffered'
<1> SUFFICES ASSUME TypeOK, Turns, SeeksHold, Buffered, [Next]_vars
             PROVE  Buffered'
  OBVIOUS
<1>f. "main" \notin Receivers /\ "main" \in Threads /\ Receivers \subseteq Threads
  BY FileStoreAssumption DEF Threads
<1>1. ASSUME UNCHANGED <<buffer, job, at, cursor, target>>
      PROVE  Buffered'
  BY <1>1 DEF Buffered, NoBuffer
<1>2. ASSUME buffer' = NoBuffer
      PROVE  Buffered'
  BY <1>2 DEF Buffered, NoBuffer
<1>3. ASSUME buffer' = buffer, FileFree \/ main # "ready" \/ \E t \in Threads : at[t] \notin {"rest", "seek"}
      PROVE  Buffered'
  BY <1>2, <1>3, BufferFree
<1> USE DEF stream, genVars, jobVars, netVars, history
<1>4. CASE UNCHANGED vars
  BY <1>4, <1>1 DEF vars
<1>5. CASE OpenFile \/ ExtendFile \/ Respond \/ InitPieces
  BY <1>5, <1>3 DEF OpenFile, ExtendFile, Respond, InitPieces
<1>6. ASSUME NEW t \in Threads, SeekPiece(t)
      PROVE  Buffered'
  BY <1>6, <1>2 DEF SeekPiece, SeekTo
<1>7. ASSUME NEW t \in Threads, ReadPiece(t) \/ SetBitfield(t)
      PROVE  Buffered'
  BY <1>7, <1>3 DEF ReadPiece, SetBitfield, Goto
<1>8. ASSUME NEW r \in Receivers, Connect(r) \/ Lose(r) \/ Disconnect(r)
      PROVE  Buffered'
  BY <1>8, <1>1 DEF Connect, Lose, Disconnect
<1>9. ASSUME NEW r \in Receivers, NEW i \in Pieces, Request(i, r)
      PROVE  Buffered'
  BY <1>9, <1>1 DEF Request
<1>10. ASSUME NEW r \in Receivers, SendBitfield(r) \/ HandleRequest(r)
       PROVE  Buffered'
  BY <1>10, <1>3 DEF SendBitfield, HandleRequest, Starts
<1>11. ASSUME NEW r \in Receivers, NEW torn \in BOOLEAN, HandlePiece(r, torn)
       PROVE  Buffered'
  BY <1>11, <1>3 DEF HandlePiece, Starts
<1>12. ASSUME NEW r \in Receivers, SayBitfield(r) \/ CheckPiece(r) \/ ReadBlock(r)
       PROVE  Buffered'
  <2>1. at[r] \in {"set", "block"} /\ buffer' = buffer
    BY <1>12 DEF SayBitfield, CheckPiece, ReadBlock, Ends, Goto
  <2> QED
    BY <2>1, <1>3, <1>f
<1>13. ASSUME NEW r \in Receivers, SeekBlock(r)
       PROVE  Buffered'
  BY <1>13, <1>2 DEF SeekBlock, SeekTo
<1>14. ASSUME NEW r \in Receivers, WriteBlock(r)
       PROVE  Buffered'
  <2>1. r \in Receivers \ early /\ at[r] = "block" /\ job[r] = "piece"
    BY <1>14 DEF WriteBlock, Goto, Turns
  <2>2. buffer'.block = target[r]
    BY <1>14, <2>1 DEF WriteBlock, WriteAt, SeeksHold
  <2>3. job'[r] = "piece" /\ at'[r] = "seek" /\ cursor'[r] = 0 /\ target' = target
    BY <1>14, <2>1 DEF WriteBlock, Goto, GenStarts, TypeOK, Threads
  <2> QED
    BY <2>2, <2>3 DEF Buffered
<1>15. CASE Killed \/ Shutdown
  BY <1>15, <1>2 DEF Killed, Shutdown, EndsWith
<1> QED
  BY <1>4, <1>5, <1>6, <1>7, <1>8, <1>9, <1>10, <1>11, <1>12, <1>13, <1>14, <1>15, <1>f
     DEF Next, Main, Receiver, GenBitfield

-----------------------------------------------------------------------------
(***************************************************************************)
(* What is in the file.                                                    *)
(***************************************************************************)

\* A block is written where it belongs, with nothing else in the buffer.
LEMMA WriteContent ==
  ASSUME TypeOK, Turns, SeeksHold, Buffered, NEW r \in Receivers, WriteBlock(r)
  PROVE  /\ main = "ready" /\ job[r] = "piece" /\ at[r] = "block"
         /\ \A t \in Threads : t # r => at[t] = "rest"
         /\ kernel = Content /\ kernel' = kernel
         /\ Content' = IF link[r] = "torn" THEN Content \ {target[r]} ELSE Content \cup {target[r]}
<1>1. job[r] = "piece" /\ at[r] = "block" /\ main = "ready" /\ r \notin early /\ r \in Threads
  BY DEF WriteBlock, Goto, Turns, Threads
<1>2. buffer = NoBuffer
  BY <1>1, BufferFree
<1>3. kernel = Content
  BY <1>2, NoBufferContent
<1>4. position = target[r]
  BY <1>1 DEF SeeksHold
<1>5. buffer' = [block |-> target[r], right |-> link[r] # "torn"] /\ kernel' = kernel
  BY <1>4 DEF WriteBlock, WriteAt
<1>6. Content' = IF link[r] = "torn" THEN Content \ {target[r]} ELSE Content \cup {target[r]}
  BY <1>3, <1>5 DEF Content
<1>7. \A t \in Threads : t # r => at[t] = "rest"
  BY <1>1, Alone
<1> QED
  BY <1>1, <1>3, <1>5, <1>6, <1>7

\* The process ends with the file as the kernel has it, or as the stream does.
LEMMA EndContent ==
  ASSUME TypeOK, Killed \/ Shutdown
  PROVE  /\ kernel' \in {kernel, Content} /\ Content' = kernel' /\ EndsWith(kernel')
<1>1. PICK blocks \in {kernel, Content} : EndsWith(blocks)
  BY DEF Killed, Shutdown
<1>2. kernel' = blocks /\ buffer' = NoBuffer
  BY <1>1 DEF EndsWith
<1>3. kernel' \subseteq Blocks
  BY <1>1, <1>2, ContentBlocks DEF TypeOK
<1>4. Content' = kernel'
  BY <1>2, <1>3, FileStoreAssumption DEF Content, NoBuffer, NoBlock, Blocks, Pieces
<1> QED
  BY <1>1, <1>2, <1>4

\* Nothing else changes what is in the file.
LEMMA SameContent ==
  ASSUME TypeOK, [Next]_vars, ~Killed, ~Shutdown, \A r \in Receivers : ~WriteBlock(r)
  PROVE  Content' = Content /\ kernel' \in {kernel, Content}
<1>1. ASSUME kernel' = kernel, buffer' = buffer
      PROVE  Content' = Content
  BY <1>1 DEF Content
<1> USE DEF stream
<1>2. CASE UNCHANGED vars
  BY <1>2, <1>1 DEF vars
<1>3. CASE OpenFile \/ ExtendFile \/ Respond \/ InitPieces
  BY <1>3, <1>1 DEF OpenFile, ExtendFile, Respond, InitPieces
<1>4. ASSUME NEW t \in Threads, SeekPiece(t)
      PROVE  Content' = Content /\ kernel' \in {kernel, Content}
  BY <1>4, SeekContent DEF SeekPiece
<1>5. ASSUME NEW t \in Threads, ReadPiece(t) \/ SetBitfield(t)
      PROVE  Content' = Content /\ kernel' \in {kernel, Content}
  BY <1>5, <1>1 DEF ReadPiece, SetBitfield
<1>6. ASSUME NEW r \in Receivers, SeekBlock(r)
      PROVE  Content' = Content /\ kernel' \in {kernel, Content}
  BY <1>6, SeekContent DEF SeekBlock
<1>7. ASSUME NEW r \in Receivers,
             \/ Connect(r) \/ Lose(r) \/ Disconnect(r)
             \/ SendBitfield(r) \/ SayBitfield(r) \/ HandleRequest(r) \/ ReadBlock(r) \/ CheckPiece(r)
      PROVE  Content' = Content /\ kernel' \in {kernel, Content}
  BY <1>7, <1>1 DEF Connect, Lose, Disconnect, SendBitfield, SayBitfield, HandleRequest, ReadBlock, CheckPiece
<1>8. ASSUME NEW r \in Receivers, NEW torn \in BOOLEAN, HandlePiece(r, torn)
      PROVE  Content' = Content /\ kernel' \in {kernel, Content}
  BY <1>8, <1>1 DEF HandlePiece
<1>9. ASSUME NEW r \in Receivers, NEW i \in Pieces, Request(i, r)
      PROVE  Content' = Content /\ kernel' \in {kernel, Content}
  BY <1>9, <1>1 DEF Request
<1> QED
  BY <1>2, <1>3, <1>4, <1>5, <1>6, <1>7, <1>8, <1>9, Small
     DEF Next, Main, Receiver, GenBitfield, Threads

\* So the kernel has what the stream had, or what it had itself.
LEMMA KernelStep ==
  TypeOK /\ Turns /\ SeeksHold /\ Buffered /\ [Next]_vars => kernel' \in {kernel, Content}
BY WriteContent, EndContent, SameContent

\* A block that is written makes only its own piece whole, and damages no other.
LEMMA OtherPieces ==
  ASSUME NEW blocks, NEW after, NEW b \in Blocks,
         after \in {blocks \cup {b}, blocks \ {b}}
  PROVE  \A i \in Pieces \ {b[1]} : i \in WholeIn(after) <=> i \in WholeIn(blocks)
BY WholePieces DEF Blocks

\* The steps that touch neither what gen_bitfield found nor what was missed.
LEMMA HonestStep == Inv /\ [Next]_vars => Honest'
<1> SUFFICES ASSUME Inv, [Next]_vars
             PROVE  Honest'
  OBVIOUS
<1>i. TypeOK /\ Turns /\ SeeksHold /\ Buffered /\ Honest /\ NoneToCome
  BY DEF Inv
<1>0. ASSUME Content' = Content, missed \subseteq missed', bitfield' = bitfield,
             \A t \in Threads : bits'[t] = bits[t] \/ bits'[t] = {}
      PROVE  Honest'
  BY <1>0, <1>i DEF Honest, WholeIn
<1>1. ASSUME NEW r \in Receivers, WriteBlock(r)
      PROVE  Honest'
  <2>1. \A t \in Threads : bits'[t] = {}
    BY <1>i, <1>1, WriteContent DEF WriteBlock, GenStarts, Turns, TypeOK
  <2>2. ASSUME NEW i \in bitfield
        PROVE  i \in WholeIn(Content') \/ i \in missed
    <3>1. i \in Pieces /\ (i \in WholeIn(Content) \/ i \in missed)
      BY <1>i DEF Honest, TypeOK
    <3>2. target[r] \in Blocks /\ target[r][1] \in Pieces
      BY <1>i DEF TypeOK, Blocks
    <3>3. CASE i # target[r][1]
      BY <1>i, <1>1, <3>1, <3>2, <3>3, WriteContent, OtherPieces
    <3>4. CASE i = target[r][1] /\ i \in WholeIn(Content)
      BY <1>i, <1>1, <3>4, WriteContent DEF NoneToCome, Arrived
    <3> QED
      BY <3>1, <3>3, <3>4
  <2>3. bitfield' = bitfield /\ missed' = missed
    BY <1>1 DEF WriteBlock, GenStarts, history
  <2> QED
    BY <2>1, <2>2, <2>3 DEF Honest, WholeIn
<1>2. CASE Killed \/ Shutdown
  BY <1>i, <1>2, EndContent DEF EndsWith, Honest
<1> SUFFICES ASSUME ~Killed, ~Shutdown, \A r \in Receivers : ~WriteBlock(r)
             PROVE  Honest'
  BY <1>1, <1>2
<1>s. Content' = Content
  BY <1>i, SameContent
<1> USE DEF genVars, history
<1>3. CASE UNCHANGED vars \/ OpenFile
  BY <1>3, <1>0, <1>s DEF vars, OpenFile
<1>4. ASSUME NEW t \in Threads, GenStarts(t), missed' = missed
      PROVE  Honest'
  BY <1>4, <1>0, <1>s, <1>i DEF GenStarts, TypeOK
<1>5. CASE ExtendFile \/ Respond
  BY <1>5, <1>4, Small DEF ExtendFile, Respond
<1>6. CASE InitPieces
  BY <1>6, <1>0, <1>s DEF InitPieces
<1>7. ASSUME NEW t \in Threads, SeekPiece(t)
      PROVE  Honest'
  BY <1>7, <1>0, <1>s DEF SeekPiece
<1>8. ASSUME NEW t \in Threads, ReadPiece(t)
      PROVE  Honest'
  <2>1. Matching(t) \subseteq WholeIn(Content)
    BY DEF Matching
  <2>2. \A u \in Threads : bits'[u] \subseteq bits[u] \cup Matching(t)
    BY <1>8, <1>i DEF ReadPiece, TypeOK
  <2>3. bitfield' = bitfield /\ missed' = missed
    BY <1>8 DEF ReadPiece
  <2> QED
    BY <1>s, <1>i, <2>1, <2>2, <2>3 DEF Honest, WholeIn
<1>9. ASSUME NEW t \in Threads, SetBitfield(t)
      PROVE  Honest'
  <2>1. bitfield' = bits[t] /\ missed' = missed
    BY <1>9 DEF SetBitfield
  <2>2. \A u \in Threads : bits'[u] = bits[u] \/ bits'[u] = {}
    BY <1>9, <1>i DEF SetBitfield, TypeOK
  <2> QED
    BY <1>s, <1>i, <2>1, <2>2 DEF Honest, WholeIn
<1>10. ASSUME NEW r \in Receivers, SendBitfield(r)
       PROVE  Honest'
  BY <1>10, <1>4 DEF SendBitfield, Threads
<1>11. ASSUME NEW r \in Receivers,
              \/ Connect(r) \/ Lose(r) \/ Disconnect(r) \/ SayBitfield(r) \/ HandleRequest(r)
              \/ SeekBlock(r) \/ ReadBlock(r) \/ CheckPiece(r)
       PROVE  Honest'
  BY <1>11, <1>0, <1>s
     DEF Connect, Lose, Disconnect, SayBitfield, HandleRequest, SeekBlock, ReadBlock, CheckPiece
<1>12. ASSUME NEW r \in Receivers, NEW torn \in BOOLEAN, HandlePiece(r, torn)
       PROVE  Honest'
  BY <1>12, <1>0, <1>s DEF HandlePiece
<1>13. ASSUME NEW r \in Receivers, NEW i \in Pieces, Request(i, r)
       PROVE  Honest'
  BY <1>13, <1>0, <1>s DEF Request
<1> QED
  BY <1>3, <1>5, <1>6, <1>7, <1>8, <1>9, <1>10, <1>11, <1>12, <1>13, Small
     DEF Next, Main, Receiver, GenBitfield, Threads

LEMMA CompleteStep == Inv /\ [Next]_vars => Complete'
<1> SUFFICES ASSUME Inv, [Next]_vars,
                    NEW r \in Receivers, r \notin early', at'[r] \in {"seek", "read", "found", "set"}
             PROVE  /\ at'[r] \in {"seek", "read"} =>
                         \A i \in WholeIn(Content') : i < cursor'[r] => i \in bits'[r]
                    /\ at'[r] = "found" => WholeIn(Content') \subseteq bits'[r]
                    /\ at'[r] = "set" => WholeIn(Content') \subseteq bitfield'
  BY DEF Complete, WholeIn
<1> DEFINE Holds == /\ at'[r] \in {"seek", "read"} =>
                         \A i \in WholeIn(Content') : i < cursor'[r] => i \in bits'[r]
                    /\ at'[r] = "found" => WholeIn(Content') \subseteq bits'[r]
                    /\ at'[r] = "set" => WholeIn(Content') \subseteq bitfield'
<1> SUFFICES Holds
  OBVIOUS
<1>i. TypeOK /\ Turns /\ SeeksHold /\ Buffered /\ Complete
  BY DEF Inv
<1>r. r \in Threads /\ r # "main"
  BY FileStoreAssumption DEF Threads
<1>0. ASSUME at'[r] = at[r], r \notin early, Content' = Content, cursor'[r] = cursor[r],
             bits'[r] = bits[r], bitfield' = bitfield
      PROVE  Holds
  BY <1>0, <1>i DEF Complete, WholeIn
<1>1. ASSUME NEW t \in Threads, at[t] # "rest", r \notin early, at[r] # "rest"
      PROVE  t = r
  BY <1>1, <1>r, <1>i, Alone
<1>2. ASSUME GenStarts(r), at'[r] = "seek"
      PROVE  Holds
  BY <1>2, <1>r, <1>i DEF GenStarts, TypeOK, WholeIn, Pieces
<1> HIDE DEF Holds
<1> USE DEF genVars, history, jobVars
<1>3. ASSUME NEW s \in Receivers, WriteBlock(s)
      PROVE  Holds
  <2>1. CASE s = r
    BY <2>1, <1>3, <1>2, <1>r, <1>i DEF WriteBlock, Goto, TypeOK
  <2>2. CASE s # r
    BY <2>2, <1>3, <1>r, <1>1 DEF WriteBlock, Goto, Threads
  <2> QED
    BY <2>1, <2>2
<1>4. CASE Killed \/ Shutdown
  BY <1>4, <1>i, <1>r, EndContent DEF EndsWith
<1> SUFFICES ASSUME ~Killed, ~Shutdown, \A s \in Receivers : ~WriteBlock(s)
             PROVE  Holds
  BY <1>3, <1>4
<1>s. Content' = Content
  BY <1>i, SameContent
<1>5. CASE UNCHANGED vars \/ OpenFile
  BY <1>5, <1>0, <1>s DEF vars, OpenFile
<1>6. CASE ExtendFile \/ Respond \/ InitPieces
  BY <1>6, <1>0, <1>s, <1>r, <1>i DEF ExtendFile, Respond, InitPieces, Goto, GenStarts, TypeOK
<1>7. ASSUME NEW t \in Threads, t # r, SeekPiece(t) \/ ReadPiece(t) \/ SetBitfield(t)
      PROVE  Holds
  BY <1>7, <1>1, <1>r, <1>i DEF SeekPiece, ReadPiece, SetBitfield, Goto, TypeOK
<1>8. CASE SeekPiece(r)
  <2>1. at[r] = "seek" /\ at'[r] = "read" /\ r \notin early /\ cursor' = cursor /\ bits' = bits
    BY <1>8, <1>r, <1>i DEF SeekPiece, Goto, TypeOK
  <2> QED
    BY <2>1, <1>s, <1>i DEF Complete, Holds, WholeIn
<1>9. CASE ReadPiece(r)
  <2>1. /\ at[r] = "read" /\ r \notin early
        /\ at'[r] = IF LastPiece(r) THEN "found" ELSE "seek"
        /\ cursor'[r] = cursor[r] + 1 /\ bits'[r] = bits[r] \cup Matching(r)
    BY <1>9, <1>r, <1>i DEF ReadPiece, Goto, TypeOK
  <2>2. position = <<cursor[r], 1>> /\ cursor[r] \in Pieces
    BY <2>1, <1>i, <1>r DEF SeeksHold, TypeOK
  <2>3. \A i \in WholeIn(Content) : i < cursor[r] + 1 => i \in bits'[r]
    <3> SUFFICES ASSUME NEW i \in WholeIn(Content), i < cursor[r] + 1
                 PROVE  i \in bits'[r]
      OBVIOUS
    <3>1. i \in Pieces
      BY DEF WholeIn
    <3>2. CASE i < cursor[r]
      BY <3>2, <2>1, <1>i DEF Complete
    <3>3. CASE i = cursor[r]
      BY <3>3, <2>1, <2>2 DEF Matching
    <3> QED
      BY <3>1, <3>2, <3>3, <2>2, FileStoreAssumption DEF Pieces
  <2>4. LastPiece(r) => \A i \in WholeIn(Content) : i < cursor[r] + 1
    BY FileStoreAssumption DEF LastPiece, WholeIn, Pieces
  <2> QED
    BY <2>1, <2>3, <2>4, <1>s DEF Holds, WholeIn
<1>10. CASE SetBitfield(r)
  <2>1. at[r] = "found" /\ at'[r] = "set" /\ r \notin early /\ bitfield' = bits[r]
    BY <1>10, <1>r, <1>i DEF SetBitfield, Goto, TypeOK
  <2> QED
    BY <2>1, <1>s, <1>i DEF Complete, Holds, WholeIn
<1>11. ASSUME NEW s \in Receivers, Connect(s) \/ Lose(s) \/ Disconnect(s)
       PROVE  Holds
  BY <1>11, <1>0, <1>s DEF Connect, Lose, Disconnect
<1>12. ASSUME NEW s \in Receivers, NEW i \in Pieces, Request(i, s)
       PROVE  Holds
  BY <1>12, <1>0, <1>s DEF Request
<1>13. ASSUME NEW s \in Receivers, SendBitfield(s)
       PROVE  Holds
  <2>1. CASE s = r
    BY <2>1, <1>13, <1>2, <1>r, <1>i DEF SendBitfield, Starts, Goto, TypeOK
  <2>2. CASE s # r
    BY <2>2, <1>13, <1>0, <1>s, <1>r, <1>i DEF SendBitfield, Starts, GenStarts, Goto, TypeOK
  <2> QED
    BY <2>1, <2>2
<1>14. ASSUME NEW s \in Receivers, NEW kind, NEW b, Starts(s, kind, b, "locate"), UNCHANGED genVars
       PROVE  Holds
  BY <1>14, <1>0, <1>s, <1>r, <1>i DEF Starts, Goto, TypeOK
<1>15. ASSUME NEW s \in Receivers, HandleRequest(s)
       PROVE  Holds
  BY <1>15, <1>14 DEF HandleRequest
<1>16. ASSUME NEW s \in Receivers, NEW torn \in BOOLEAN, HandlePiece(s, torn)
       PROVE  Holds
  BY <1>16, <1>14 DEF HandlePiece
<1>17. ASSUME NEW s \in Receivers, SayBitfield(s) \/ CheckPiece(s) \/ ReadBlock(s)
       PROVE  Holds
  BY <1>17, <1>0, <1>s, <1>r, <1>i DEF SayBitfield, CheckPiece, ReadBlock, Ends, Goto, TypeOK
<1>18. ASSUME NEW s \in Receivers, SeekBlock(s)
       PROVE  Holds
  BY <1>18, <1>0, <1>s, <1>r, <1>i DEF SeekBlock, Goto, TypeOK
<1> QED
  BY <1>5, <1>6, <1>7, <1>8, <1>9, <1>10, <1>11, <1>12, <1>13, <1>15, <1>16, <1>17, <1>18, <1>r
     DEF Next, Main, Receiver, GenBitfield, Threads

-----------------------------------------------------------------------------
(***************************************************************************)
(* What was asked for.                                                     *)
(***************************************************************************)
LEMMA AskedStep == Inv /\ [Next]_vars => Asked'
<1> SUFFICES ASSUME Inv, [Next]_vars
             PROVE  Asked'
  OBVIOUS
<1>i. TypeOK /\ Turns /\ Asked
  BY DEF Inv
<1>b. \A b \in Blocks : b[1] \in Pieces
  BY DEF Blocks
<1>0. ASSUME \A i \in Pieces : pieces_state_arr'[i] # PIECE_HAVNT \/ pieces_state_arr'[i] = pieces_state_arr[i],
             asked' = asked, next' = next, link' = link,
             \A r \in Receivers : \/ job'[r] # "piece"
                                  \/ job'[r] = job[r] /\ target'[r] = target[r]
      PROVE  Asked'
  BY <1>0, <1>i DEF Asked, TypeOK
<1> USE DEF jobVars, netVars
<1>1. CASE UNCHANGED vars \/ OpenFile \/ ExtendFile \/ Respond
  BY <1>1, <1>0 DEF vars, OpenFile, ExtendFile, Respond
<1>2. CASE InitPieces
  BY <1>2, <1>i DEF InitPieces, Asked, Turns, Busy
<1>3. ASSUME NEW t \in Threads, SeekPiece(t) \/ ReadPiece(t) \/ SetBitfield(t)
      PROVE  Asked'
  BY <1>3, <1>0 DEF SeekPiece, ReadPiece, SetBitfield
<1>4. ASSUME NEW r \in Receivers, SeekBlock(r) \/ WriteBlock(r)
      PROVE  Asked'
  BY <1>4, <1>0 DEF SeekBlock, WriteBlock
<1>5. ASSUME NEW r \in Receivers, SayBitfield(r) \/ ReadBlock(r) \/ CheckPiece(r)
      PROVE  Asked'
  BY <1>5, <1>0, <1>i, <1>b
     DEF SayBitfield, ReadBlock, CheckPiece, Ends, TypeOK, PIECE_COMPLETED, PIECE_HAVNT
<1>6. ASSUME NEW r \in Receivers, Connect(r) \/ SendBitfield(r)
      PROVE  Asked'
  BY <1>6, <1>i DEF Connect, SendBitfield, Starts, FileFree, Asked, TypeOK
<1>7. ASSUME NEW r \in Receivers, HandleRequest(r)
      PROVE  Asked'
  BY <1>7, <1>0, <1>i DEF HandleRequest, Starts, TypeOK
<1>8. ASSUME NEW r \in Receivers, NEW torn \in BOOLEAN, HandlePiece(r, torn)
      PROVE  Asked'
  <2>1. PICK i \in Pieces : /\ asked[i] = r /\ next[i] <= NumBlocks
                            /\ Starts(r, "piece", <<i, next[i]>>, "locate")
                            /\ next' = [next EXCEPT ![i] = @ + 1]
    BY <1>8 DEF HandlePiece
  <2>2. asked' = asked /\ pieces_state_arr' = pieces_state_arr /\ link[r] = "up"
        /\ link'[r] \in {"up", "torn"}
    BY <1>8, <1>i DEF HandlePiece, TypeOK
  <2>3. \A s \in Receivers : job'[s] = "piece" => s = r
    BY <2>1, <1>i DEF Starts, FileFree, TypeOK
  <2>4. target'[r] = <<i, next[i]>> /\ next'[i] = next[i] + 1
    BY <2>1, <1>i DEF Starts, TypeOK
  <2>5. \A j \in Pieces : asked[j] # NoOne => link'[asked[j]] \notin {"none", "new"}
    BY <1>8, <1>i DEF HandlePiece, Asked, TypeOK
  <2> QED
    BY <2>1, <2>2, <2>3, <2>4, <2>5, <1>i DEF Asked, TypeOK
<1>9. ASSUME NEW r \in Receivers, Lose(r)
      PROVE  Asked'
  BY <1>9, <1>i DEF Lose, Asked, TypeOK
<1>10. ASSUME NEW r \in Receivers, Disconnect(r)
       PROVE  Asked'
  <2>1. \A s \in Receivers : job[s] = "piece" => s # r /\ target[s][1] \in Pieces
    BY <1>10, <1>i, <1>b DEF Disconnect, TypeOK
  <2>2. \A i \in Pieces : asked'[i] # NoOne => /\ asked'[i] = asked[i] /\ asked[i] # r
                                               /\ pieces_state_arr'[i] = pieces_state_arr[i]
    BY <1>10 DEF Disconnect
  <2>3. \A i \in Pieces : asked[i] # r => asked'[i] = asked[i]
    BY <1>10 DEF Disconnect
  <2> QED
    BY <1>10, <1>i, <2>1, <2>2, <2>3 DEF Disconnect, Asked, TypeOK
<1>11. ASSUME NEW r \in Receivers, NEW i \in Pieces, Request(i, r)
       PROVE  Asked'
  <2>1. asked[i] = NoOne
    BY <1>11, <1>i DEF Request, Wanted, Asked
  <2>2. \A s \in Receivers : job[s] = "piece" => asked[target[s][1]] = s
    BY <1>i DEF Asked
  <2> QED
    BY <1>11, <1>i, <1>b, <2>1, <2>2, FileStoreAssumption
       DEF Request, Wanted, Asked, TypeOK, PIECE_REQUESTING, PIECE_HAVNT
<1>12. CASE Killed \/ Shutdown
  BY <1>12, <1>i, EndContent DEF EndsWith, Asked
<1> QED
  BY <1>1, <1>2, <1>3, <1>4, <1>5, <1>6, <1>7, <1>8, <1>9, <1>10, <1>11, <1>12, Small
     DEF Next, Main, Receiver, GenBitfield, Threads

LEMMA InOrderStep == Inv /\ [Next]_vars => InOrder'
<1> SUFFICES ASSUME Inv, [Next]_vars,
                    NEW i \in Pieces, asked'[i] # NoOne, link'[asked'[i]] = "up",
                    NEW k \in 1 .. NumBlocks, k < next'[i]
             PROVE  \/ <<i, k>> \in Content'
                    \/ /\ job'[asked'[i]] = "piece" /\ at'[asked'[i]] \in Arrived
                       /\ target'[asked'[i]] = <<i, k>>
  BY DEF InOrder
<1> DEFINE Holds == \/ <<i, k>> \in Content'
                    \/ /\ job'[asked'[i]] = "piece" /\ at'[asked'[i]] \in Arrived
                       /\ target'[asked'[i]] = <<i, k>>
           s == asked'[i]
<1> SUFFICES Holds
  OBVIOUS
<1>i. TypeOK /\ Turns /\ SeeksHold /\ Buffered /\ Asked /\ InOrder
  BY DEF Inv
<1>t. TypeOK'
  BY <1>i, TypeStep
<1>s. s \in Receivers /\ s \in Threads
  BY <1>t DEF TypeOK, Threads
<1>0. ASSUME Content' = Content, asked[i] = s, link[s] = "up", next'[i] = next[i],
             job[s] = "piece" /\ at[s] \in Arrived =>
               job'[s] = "piece" /\ at'[s] \in Arrived /\ target'[s] = target[s]
      PROVE  Holds
  BY <1>0, <1>i, <1>s, FileStoreAssumption DEF InOrder
<1>1. ASSUME NEW r \in Receivers, WriteBlock(r)
      PROVE  Holds
  <2>1. asked' = asked /\ link' = link /\ next' = next
    BY <1>1 DEF WriteBlock, netVars
  <2>2. /\ job[r] = "piece" /\ at[r] = "block"
        /\ \A t \in Threads : t # r => at[t] = "rest"
        /\ Content' = IF link[r] = "torn" THEN Content \ {target[r]} ELSE Content \cup {target[r]}
    BY <1>i, <1>1, WriteContent
  <2>3. \/ <<i, k>> \in Content
        \/ s = r /\ target[r] = <<i, k>>
    BY <1>i, <1>s, <2>1, <2>2, FileStoreAssumption DEF InOrder, Arrived
  <2>4. CASE link[r] = "torn"
    <3>1. asked[target[r][1]] = r
      BY <1>i, <2>2 DEF Asked
    <3>2. i # target[r][1]
      BY <3>1, <2>1, <2>4
    <3>3. <<i, k>> # target[r]
      BY <3>2, <1>i DEF TypeOK, Blocks
    <3> QED
      BY <2>1, <2>2, <2>3, <2>4, <3>3
  <2>5. CASE link[r] # "torn"
    BY <2>2, <2>3, <2>5
  <2> QED
    BY <2>4, <2>5
<1>2. CASE Killed \/ Shutdown
  <2>1. asked'[i] = NoOne
    BY <1>2, <1>i, EndContent DEF EndsWith
  <2> QED
    BY <2>1
<1> SUFFICES ASSUME ~Killed, ~Shutdown, \A r \in Receivers : ~WriteBlock(r)
             PROVE  Holds
  BY <1>1, <1>2
<1>c. Content' = Content
  BY <1>i, SameContent
<1> HIDE DEF Holds
<1> USE DEF jobVars, netVars
<1>3. CASE UNCHANGED vars \/ OpenFile
  BY <1>3, <1>0, <1>c DEF vars, OpenFile
<1>4. CASE ExtendFile \/ Respond \/ InitPieces
  BY <1>4, <1>0, <1>c, <1>s, <1>i, FileStoreAssumption
     DEF ExtendFile, Respond, InitPieces, Goto, TypeOK
<1>5. ASSUME NEW t \in Threads, SeekPiece(t) \/ ReadPiece(t) \/ SetBitfield(t)
      PROVE  Holds
  <2>1. at[t] \notin Arrived /\ \A u \in Threads : u # t => at'[u] = at[u]
    BY <1>5, <1>i DEF SeekPiece, ReadPiece, SetBitfield, Goto, TypeOK, Arrived
  <2>2. UNCHANGED <<job, target, early, link, asked, next>>
    BY <1>5 DEF SeekPiece, ReadPiece, SetBitfield
  <2> QED
    BY <1>0, <1>c, <1>s, <2>1, <2>2
<1>6. ASSUME NEW r \in Receivers, SeekBlock(r)
      PROVE  Holds
  BY <1>6, <1>0, <1>c, <1>s, <1>i DEF SeekBlock, Goto, TypeOK, Arrived
<1>7. ASSUME NEW r \in Receivers, SayBitfield(r) \/ ReadBlock(r) \/ CheckPiece(r)
      PROVE  Holds
  BY <1>7, <1>0, <1>c, <1>s, <1>i DEF SayBitfield, ReadBlock, CheckPiece, Ends, Goto, TypeOK, Arrived
<1>8. ASSUME NEW r \in Receivers, Connect(r)
      PROVE  Holds
  BY <1>8, <1>0, <1>c, <1>s, <1>i DEF Connect, TypeOK
<1>9. ASSUME NEW r \in Receivers, SendBitfield(r)
      PROVE  Holds
  <2>1. s # r /\ asked' = asked
    BY <1>9, <1>i DEF SendBitfield, Asked
  <2> QED
    BY <1>9, <2>1, <1>0, <1>c, <1>s, <1>i DEF SendBitfield, Starts, Goto, TypeOK
<1>10. ASSUME NEW r \in Receivers, HandleRequest(r)
       PROVE  Holds
  BY <1>10, <1>0, <1>c, <1>s, <1>i DEF HandleRequest, Starts, FileFree, Goto, TypeOK
<1>11. ASSUME NEW r \in Receivers, NEW torn \in BOOLEAN, HandlePiece(r, torn)
       PROVE  Holds
  <2>1. PICK j \in Pieces : /\ asked[j] = r /\ next[j] <= NumBlocks
                            /\ Starts(r, "piece", <<j, next[j]>>, "locate")
                            /\ next' = [next EXCEPT ![j] = @ + 1]
    BY <1>11 DEF HandlePiece
  <2>2. asked' = asked /\ link[r] = "up" /\ (s # r => link'[s] = link[s])
    BY <1>11, <1>i DEF HandlePiece, TypeOK
  <2>3. job[s] = "none"
    BY <2>1, <1>s DEF Starts, FileFree
  <2>4. link[s] = "up"
    BY <2>2
  <2>5. CASE k < next[i]
    BY <2>2, <2>3, <2>4, <2>5, <1>c, <1>i, <1>s, FileStoreAssumption DEF InOrder, Holds
  <2>6. CASE ~(k < next[i])
    <3>1. i = j /\ k = next[i]
      BY <2>1, <2>6, <1>i DEF TypeOK
    <3>2. job'[r] = "piece" /\ at'[r] = "locate" /\ target'[r] = <<j, next[j]>> /\ s = r
      BY <2>1, <2>2, <3>1, <1>i DEF Starts, Goto, TypeOK, Threads
    <3> QED
      BY <3>1, <3>2 DEF Holds, Arrived
  <2> QED
    BY <2>5, <2>6
<1>12. ASSUME NEW r \in Receivers, Lose(r)
       PROVE  Holds
  BY <1>12, <1>0, <1>c, <1>s, <1>i DEF Lose, TypeOK
<1>13. ASSUME NEW r \in Receivers, Disconnect(r)
       PROVE  Holds
  BY <1>13, <1>0, <1>c, <1>s, <1>i DEF Disconnect, TypeOK
<1>14. ASSUME NEW r \in Receivers, NEW j \in Pieces, Request(j, r)
       PROVE  Holds
  <2>1. CASE j = i
    BY <1>14, <2>1, <1>i DEF Request, TypeOK
  <2>2. CASE j # i
    BY <1>14, <2>2, <1>0, <1>c, <1>s, <1>i DEF Request, TypeOK
  <2> QED
    BY <2>1, <2>2
<1> QED
  BY <1>3, <1>4, <1>5, <1>6, <1>7, <1>8, <1>9, <1>10, <1>11, <1>12, <1>13, <1>14, Small
     DEF Next, Main, Receiver, GenBitfield, Threads

LEMMA MissedGrows ==
  ASSUME [Next]_vars
  PROVE  /\ missed \subseteq missed'
         /\ main # "loading" => missed' = missed
BY DEF Next, Main, Receiver, GenBitfield, OpenFile, ExtendFile, Respond, InitPieces, SeekPiece,
       ReadPiece, SetBitfield, Connect, SendBitfield, SayBitfield, HandleRequest, SeekBlock,
       ReadBlock, HandlePiece, WriteBlock, CheckPiece, Lose, Disconnect, Request, Killed, Shutdown,
       EndsWith, history, vars

\* What writing a block may do to its piece: a whole piece is damaged only if the
\* main thread missed it, and the piece is whole only when nothing of it is to
\* come.
LEMMA WrittenPiece ==
  ASSUME Inv, NEW r \in Receivers, WriteBlock(r)
  PROVE  /\ target[r] \in Blocks /\ target[r][1] \in Pieces
         /\ \A i \in Pieces \ {target[r][1]} : i \in WholeIn(Content') <=> i \in WholeIn(Content)
         /\ target[r][1] \in WholeIn(Content) => target[r][1] \in missed
<1>i. TypeOK /\ Turns /\ SeeksHold /\ Buffered /\ NoneToCome
  BY DEF Inv
<1>1. target[r] \in Blocks /\ target[r][1] \in Pieces
  BY <1>i DEF TypeOK, Blocks
<1>2. Content' \in {Content \cup {target[r]}, Content \ {target[r]}}
  BY <1>i, WriteContent
<1>3. \A i \in Pieces \ {target[r][1]} : i \in WholeIn(Content') <=> i \in WholeIn(Content)
  BY <1>1, <1>2, OtherPieces
<1>4. target[r][1] \in WholeIn(Content) => target[r][1] \in missed
  BY <1>i, WriteContent DEF NoneToCome, Arrived
<1> QED
  BY <1>1, <1>3, <1>4

LEMMA LastStep == Inv /\ [Next]_vars => LastIsLast(kernel)' /\ LastIsLast(Content)'
<1> SUFFICES ASSUME Inv, [Next]_vars
             PROVE  LastIsLast(kernel)' /\ LastIsLast(Content)'
  OBVIOUS
<1>i. TypeOK /\ Turns /\ SeeksHold /\ Buffered /\ Asked /\ InOrder /\ LastIsLast(kernel) /\ LastIsLast(Content)
  BY DEF Inv
<1>1. LastIsLast(kernel)'
  BY <1>i, KernelStep, MissedGrows DEF LastIsLast, WholeIn
<1>2. ASSUME Content' \in {kernel, Content}
      PROVE  LastIsLast(Content)'
  BY <1>2, <1>i, MissedGrows DEF LastIsLast, WholeIn
<1>3. ASSUME NEW r \in Receivers, WriteBlock(r)
      PROVE  LastIsLast(Content)'
  <2> SUFFICES ASSUME NEW i \in Pieces, i \notin missed', <<i, NumBlocks>> \in Content'
               PROVE  i \in WholeIn(Content')
    BY DEF LastIsLast, WholeIn
  <2>1. i \notin missed
    BY MissedGrows
  <2>2. /\ job[r] = "piece"
        /\ Content' = IF link[r] = "torn" THEN Content \ {target[r]} ELSE Content \cup {target[r]}
    BY <1>3, <1>i, WriteContent
  <2>3. CASE <<i, NumBlocks>> \in Content
    <3>1. i \in WholeIn(Content)
      BY <1>i, <2>1, <2>3 DEF LastIsLast
    <3> QED
      BY <1>3, <2>1, <3>1, WrittenPiece
  <2>4. CASE <<i, NumBlocks>> \notin Content
    <3>1. target[r] = <<i, NumBlocks>> /\ link[r] # "torn"
      BY <2>2, <2>4
    <3>2. asked[i] = r /\ link[r] = "up" /\ next[i] = NumBlocks + 1
      BY <1>i, <2>2, <3>1 DEF Asked
    <3>3. \A k \in 1 .. NumBlocks : <<i, k>> \in Content \/ target[r] = <<i, k>>
      BY <1>i, <3>2, FileStoreAssumption DEF InOrder
    <3> QED
      BY <2>2, <3>1, <3>3, WholePieces
  <2> QED
    BY <2>3, <2>4
<1> QED
  BY <1>1, <1>2, <1>3, <1>i, SameContent, EndContent

LEMMA NoneStep == Inv /\ [Next]_vars => NoneToCome'
<1> SUFFICES ASSUME Inv, [Next]_vars
             PROVE  NoneToCome'
  OBVIOUS
<1>i. TypeOK /\ Turns /\ SeeksHold /\ Buffered /\ Asked /\ LastIsLast(Content) /\ NoneToCome /\ Known
  BY DEF Inv
<1>m. missed \subseteq missed'
  BY MissedGrows
<1>b. \A b \in Blocks : b[1] \in Pieces
  BY DEF Blocks
<1>0. ASSUME Content' = Content,
             \A i \in Pieces : asked'[i] # NoOne /\ link'[asked'[i]] = "up" =>
                                 asked'[i] = asked[i] /\ link[asked[i]] = "up" /\ next'[i] = next[i],
             \A r \in Receivers : job'[r] = "piece" /\ at'[r] \in Arrived =>
                                    job[r] = "piece" /\ at[r] \in Arrived /\ target'[r] = target[r]
      PROVE  NoneToCome'
  BY <1>0, <1>i, <1>m DEF NoneToCome, WholeIn
<1>1. ASSUME NEW r \in Receivers, WriteBlock(r)
      PROVE  NoneToCome'
  <2>1. /\ job[r] = "piece" /\ at[r] = "block"
        /\ \A t \in Threads : t # r => at[t] = "rest"
        /\ Content' = IF link[r] = "torn" THEN Content \ {target[r]} ELSE Content \cup {target[r]}
    BY <1>1, <1>i, WriteContent
  <2>2. /\ asked' = asked /\ link' = link /\ next' = next
        /\ \A s \in Receivers : at'[s] \notin Arrived
    BY <1>1, <1>i, <2>1, FileStoreAssumption DEF WriteBlock, Goto, netVars, TypeOK, Threads, Arrived
  <2>3. ASSUME NEW i \in Pieces \cap WholeIn(Content'),
               asked[i] # NoOne, link[asked[i]] = "up", next[i] <= NumBlocks
        PROVE  i \in missed
    <3>1. CASE i # target[r][1]
      BY <1>1, <1>i, <2>3, <3>1, WrittenPiece DEF NoneToCome
    <3>2. CASE i = target[r][1]
      <4>1. asked[i] = r /\ next[i] = target[r][2] + 1
        BY <1>i, <2>1, <3>2 DEF Asked
      <4>2. Content' = Content \cup {target[r]}
        BY <2>1, <2>3, <4>1
      <4>3. target[r] # <<i, NumBlocks>>
        BY <1>i, <2>3, <4>1, FileStoreAssumption DEF TypeOK
      <4>4. <<i, NumBlocks>> \in Content'
        BY <2>3, WholePieces, FileStoreAssumption
      <4>5. <<i, NumBlocks>> \in Content
        BY <4>2, <4>3, <4>4
      <4>6. i \in missed \/ i \in WholeIn(Content)
        BY <1>i, <4>5 DEF LastIsLast
      <4> QED
        BY <1>1, <3>2, <4>6, WrittenPiece
    <3> QED
      BY <3>1, <3>2
  <2> QED
    BY <1>m, <2>2, <2>3 DEF NoneToCome, WholeIn
<1>2. CASE Killed \/ Shutdown
  <2>1. /\ asked' = [i \in Pieces |-> NoOne]
        /\ job' = [r \in Receivers |-> "none"]
    BY <1>2, <1>i, EndContent DEF EndsWith
  <2> QED
    BY <2>1 DEF NoneToCome
<1> SUFFICES ASSUME ~Killed, ~Shutdown, \A r \in Receivers : ~WriteBlock(r)
             PROVE  NoneToCome'
  BY <1>1, <1>2
<1>c. Content' = Content
  BY <1>i, SameContent
<1> USE DEF jobVars, netVars
<1>3. CASE UNCHANGED vars \/ OpenFile
  BY <1>3, <1>0, <1>c DEF vars, OpenFile
<1>4. CASE ExtendFile \/ Respond \/ InitPieces
  <2>1. \A r \in Receivers : at'[r] = at[r]
    BY <1>4, <1>i, FileStoreAssumption DEF ExtendFile, Respond, InitPieces, Goto, TypeOK, Threads
  <2>2. UNCHANGED <<job, target, link, asked, next>>
    BY <1>4 DEF ExtendFile, Respond, InitPieces
  <2> QED
    BY <1>0, <1>c, <2>1, <2>2
<1>5. ASSUME NEW t \in Threads, SeekPiece(t) \/ ReadPiece(t) \/ SetBitfield(t)
      PROVE  NoneToCome'
  <2>1. at'[t] \notin Arrived /\ \A u \in Threads : u # t => at'[u] = at[u]
    BY <1>5, <1>i DEF SeekPiece, ReadPiece, SetBitfield, Goto, TypeOK, Arrived
  <2>2. UNCHANGED <<job, target, early, link, asked, next>>
    BY <1>5 DEF SeekPiece, ReadPiece, SetBitfield
  <2> QED
    BY <1>0, <1>c, <2>1, <2>2 DEF Threads
<1>6. ASSUME NEW r \in Receivers, SeekBlock(r)
      PROVE  NoneToCome'
  BY <1>6, <1>0, <1>c, <1>i DEF SeekBlock, Goto, TypeOK, Arrived, Threads
<1>7. ASSUME NEW r \in Receivers, SayBitfield(r) \/ ReadBlock(r) \/ CheckPiece(r)
      PROVE  NoneToCome'
  BY <1>7, <1>0, <1>c, <1>i
     DEF SayBitfield, ReadBlock, CheckPiece, Ends, Goto, TypeOK, Arrived, Threads
<1>8. ASSUME NEW r \in Receivers, Connect(r)
      PROVE  NoneToCome'
  BY <1>8, <1>0, <1>c, <1>i DEF Connect, TypeOK
<1>9. ASSUME NEW r \in Receivers, SendBitfield(r)
      PROVE  NoneToCome'
  <2>1. \A i \in Pieces : asked[i] # NoOne => asked[i] # r
    BY <1>9, <1>i DEF SendBitfield, Asked
  <2> QED
    BY <1>9, <2>1, <1>0, <1>c, <1>i DEF SendBitfield, Starts, Goto, TypeOK, Threads, Arrived
<1>10. ASSUME NEW r \in Receivers, HandleRequest(r)
       PROVE  NoneToCome'
  BY <1>10, <1>0, <1>c, <1>i DEF HandleRequest, Starts, FileFree, Goto, TypeOK, Threads
<1>11. ASSUME NEW r \in Receivers, NEW torn \in BOOLEAN, HandlePiece(r, torn)
       PROVE  NoneToCome'
  <2>1. PICK j \in Pieces : /\ asked[j] = r /\ next[j] <= NumBlocks
                            /\ Starts(r, "piece", <<j, next[j]>>, "locate")
                            /\ next' = [next EXCEPT ![j] = @ + 1]
    BY <1>11 DEF HandlePiece
  <2>2. /\ asked' = asked /\ link[r] = "up"
        /\ \A s \in Receivers : link'[s] = "up" => link[s] = "up"
    BY <1>11, <1>i DEF HandlePiece, TypeOK
  <2>3. \A s \in Receivers : job'[s] = "piece" => s = r /\ target'[s] = <<j, next[j]>>
    BY <2>1, <1>i DEF Starts, FileFree, TypeOK
  <2>4. j \in WholeIn(Content) => j \in missed
    BY <2>1, <2>2, <1>i, FileStoreAssumption DEF NoneToCome
  <2>5. \A i \in Pieces : next'[i] <= NumBlocks => next[i] <= NumBlocks
    BY <2>1, <1>i, FileStoreAssumption DEF TypeOK
  <2>6. \A i \in Pieces \cap WholeIn(Content') :
           asked'[i] # NoOne /\ link'[asked'[i]] = "up" /\ next'[i] <= NumBlocks => i \in missed'
    BY <1>c, <1>i, <1>m, <2>2, <2>5 DEF NoneToCome, TypeOK
  <2>7. \A s \in Receivers :
           job'[s] = "piece" /\ at'[s] \in Arrived /\ target'[s][1] \in WholeIn(Content')
             => target'[s][1] \in missed'
    BY <1>c, <1>m, <2>3, <2>4
  <2> QED
    BY <2>6, <2>7 DEF NoneToCome, WholeIn
<1>12. ASSUME NEW r \in Receivers, Lose(r)
       PROVE  NoneToCome'
  BY <1>12, <1>0, <1>c, <1>i DEF Lose, TypeOK
<1>13. ASSUME NEW r \in Receivers, Disconnect(r)
       PROVE  NoneToCome'
  BY <1>13, <1>0, <1>c, <1>i DEF Disconnect, TypeOK
<1>14. ASSUME NEW r \in Receivers, NEW j \in Pieces, Request(j, r)
       PROVE  NoneToCome'
  <2>1. j \in WholeIn(Content) => j \in missed
    BY <1>14, <1>i, FileStoreAssumption
       DEF Request, Wanted, Known, InState, Asked, PIECE_HAVNT, PIECE_COMPLETED
  <2>2. \A i \in Pieces : i # j => asked'[i] = asked[i] /\ next'[i] = next[i]
    BY <1>14, <1>i DEF Request, TypeOK
  <2>3. UNCHANGED <<job, at, target, link, missed>>
    BY <1>14 DEF Request, history
  <2>4. \A i \in Pieces \cap WholeIn(Content') :
           asked'[i] # NoOne /\ link'[asked'[i]] = "up" /\ next'[i] <= NumBlocks => i \in missed'
    BY <1>c, <1>i, <2>1, <2>2, <2>3 DEF NoneToCome
  <2>5. \A s \in Receivers :
           job'[s] = "piece" /\ at'[s] \in Arrived /\ target'[s][1] \in WholeIn(Content')
             => target'[s][1] \in missed'
    BY <1>c, <1>i, <2>3 DEF NoneToCome
  <2> QED
    BY <2>4, <2>5 DEF NoneToCome, WholeIn
<1> QED
  BY <1>3, <1>4, <1>5, <1>6, <1>7, <1>8, <1>9, <1>10, <1>11, <1>12, <1>13, <1>14, Small
     DEF Next, Main, Receiver, GenBitfield, Threads

\* The main thread and the receivers claim what gen_bitfield found, and what is
\* claimed is not damaged.
LEMMA ClaimedStep == Inv /\ [Next]_vars => Claimed(kernel)' /\ Claimed(Content)'
<1> SUFFICES ASSUME Inv, [Next]_vars
             PROVE  Claimed(kernel)' /\ Claimed(Content)'
  OBVIOUS
<1>i. /\ TypeOK /\ Turns /\ SeeksHold /\ Buffered /\ Honest
      /\ Claimed(kernel) /\ Claimed(Content)
  BY DEF Inv
<1> DEFINE claims == InState(PIECE_COMPLETED) \cup said
<1>m. missed \subseteq missed'
  BY MissedGrows
<1>0. ASSUME claims' \subseteq claims,
             Content' \in {kernel, Content}, kernel' \in {kernel, Content}
      PROVE  Claimed(kernel)' /\ Claimed(Content)'
  BY <1>0, <1>m, <1>i DEF Claimed, WholeIn
<1>1. ASSUME buffer = NoBuffer, UNCHANGED <<kernel, buffer>>,
             claims' \subseteq claims \cup (bitfield \cap Pieces)
      PROVE  Claimed(kernel)' /\ Claimed(Content)'
  <2>1. Content = kernel /\ Content' = kernel /\ kernel' = kernel
    BY <1>1, <1>i, NoBufferContent DEF Content
  <2> QED
    BY <1>1, <1>m, <1>i, <2>1 DEF Claimed, Honest, WholeIn
<1>2. ASSUME NEW r \in Receivers, WriteBlock(r)
      PROVE  Claimed(kernel)' /\ Claimed(Content)'
  <2>1. claims' = claims
    BY <1>2 DEF WriteBlock, history, InState
  <2>2. kernel' = kernel
    BY <1>2, <1>i, WriteContent
  <2>3. claims' \subseteq WholeIn(kernel') \cup missed'
    BY <2>1, <2>2, <1>m, <1>i DEF Claimed, WholeIn
  <2>4. ASSUME NEW i \in claims'
        PROVE  i \in WholeIn(Content') \cup missed'
    <3>1. i \in Pieces /\ (i \in WholeIn(Content) \/ i \in missed)
      BY <2>1, <2>4, <1>i DEF Claimed, TypeOK, InState
    <3> QED
      BY <1>2, <3>1, <1>m, WrittenPiece
  <2> QED
    BY <2>3, <2>4 DEF Claimed
<1>3. CASE Killed \/ Shutdown
  <2>1. /\ kernel' \in {kernel, Content} /\ Content' = kernel'
        /\ EndsWith(kernel')
    BY <1>3, <1>i, EndContent
  <2>2. InState(PIECE_COMPLETED)' = {}
    BY <2>1 DEF EndsWith, InState, PIECE_COMPLETED, PIECE_HAVNT
  <2>3. said' = said
    BY <2>1 DEF EndsWith
  <2> QED
    BY <1>0, <2>1, <2>2, <2>3
<1> SUFFICES ASSUME ~Killed, ~Shutdown, \A r \in Receivers : ~WriteBlock(r)
             PROVE  Claimed(kernel)' /\ Claimed(Content)'
  BY <1>2, <1>3
<1>c. Content' = Content /\ kernel' \in {kernel, Content}
  BY <1>i, SameContent
<1>4. ASSUME UNCHANGED <<pieces_state_arr, said>>
      PROVE  Claimed(kernel)' /\ Claimed(Content)'
  BY <1>0, <1>4, <1>c DEF InState
<1> USE DEF history
<1>5. CASE UNCHANGED vars \/ OpenFile \/ ExtendFile \/ Respond
  BY <1>4, <1>5 DEF vars, OpenFile, ExtendFile, Respond
<1>6. CASE InitPieces
  <2>1. buffer = NoBuffer
    BY <1>6, <1>i, BufferFree DEF InitPieces
  <2>2. UNCHANGED <<kernel, buffer, said>>
    BY <1>6 DEF InitPieces, stream
  <2>3. InState(PIECE_COMPLETED)' \subseteq bitfield \cap Pieces
    BY <1>6 DEF InitPieces, InState, PIECE_COMPLETED, PIECE_HAVNT
  <2> QED
    BY <1>1, <2>1, <2>2, <2>3
<1>7. ASSUME NEW t \in Threads, SeekPiece(t) \/ ReadPiece(t) \/ SetBitfield(t)
      PROVE  Claimed(kernel)' /\ Claimed(Content)'
  BY <1>4, <1>7 DEF SeekPiece, ReadPiece, SetBitfield
<1>8. ASSUME NEW r \in Receivers,
             \/ Connect(r) \/ Lose(r) \/ SendBitfield(r) \/ HandleRequest(r)
             \/ SeekBlock(r) \/ ReadBlock(r)
      PROVE  Claimed(kernel)' /\ Claimed(Content)'
  BY <1>4, <1>8 DEF Connect, Lose, SendBitfield, HandleRequest, SeekBlock, ReadBlock
<1>9. ASSUME NEW r \in Receivers, NEW torn \in BOOLEAN, HandlePiece(r, torn)
      PROVE  Claimed(kernel)' /\ Claimed(Content)'
  BY <1>4, <1>9 DEF HandlePiece
<1>10. ASSUME NEW r \in Receivers, SayBitfield(r) \/ CheckPiece(r)
       PROVE  Claimed(kernel)' /\ Claimed(Content)'
  <2>1. at[r] = "set" /\ r \in Threads
    BY <1>10 DEF SayBitfield, CheckPiece, Ends, Goto, Threads
  <2>2. buffer = NoBuffer
    BY <2>1, <1>i, BufferFree
  <2>3. UNCHANGED <<kernel, buffer>>
    BY <1>10 DEF SayBitfield, CheckPiece, stream
  <2>4. claims' \subseteq claims \cup bitfield
    <3>1. CASE SayBitfield(r)
      BY <3>1 DEF SayBitfield, InState
    <3>2. CASE CheckPiece(r)
      BY <3>2, <1>i DEF CheckPiece, InState, TypeOK
    <3> QED
      BY <1>10, <3>1, <3>2
  <2>5. bitfield \subseteq Pieces
    BY <1>i DEF TypeOK
  <2> QED
    BY <1>1, <2>2, <2>3, <2>4, <2>5
<1>11. ASSUME NEW r \in Receivers, Disconnect(r)
       PROVE  Claimed(kernel)' /\ Claimed(Content)'
  <2>1. InState(PIECE_COMPLETED)' \subseteq InState(PIECE_COMPLETED) /\ said' = said
    BY <1>11, <1>i DEF Disconnect, InState, PIECE_COMPLETED, PIECE_HAVNT, TypeOK
  <2> QED
    BY <1>0, <1>c, <2>1
<1>12. ASSUME NEW r \in Receivers, NEW i \in Pieces, Request(i, r)
       PROVE  Claimed(kernel)' /\ Claimed(Content)'
  <2>1. InState(PIECE_COMPLETED)' \subseteq InState(PIECE_COMPLETED) /\ said' = said
    BY <1>12, <1>i DEF Request, InState, PIECE_COMPLETED, PIECE_REQUESTING, TypeOK
  <2> QED
    BY <1>0, <1>c, <2>1
<1> QED
  BY <1>5, <1>6, <1>7, <1>8, <1>9, <1>10, <1>11, <1>12, Small
     DEF Next, Main, Receiver, GenBitfield, Threads

LEMMA KnownStep == Inv /\ [Next]_vars => Known'
<1> SUFFICES ASSUME Inv, [Next]_vars, main' = "ready",
                    NEW i \in Pieces, i \in WholeIn(Content')
             PROVE  \/ i \in InState(PIECE_COMPLETED)' \cup missed'
                    \/ \E r \in Receivers : job'[r] = "piece" /\ target'[r][1] = i
  BY DEF Known, WholeIn
<1> DEFINE Holds == \/ i \in InState(PIECE_COMPLETED)' \cup missed'
                    \/ \E r \in Receivers : job'[r] = "piece" /\ target'[r][1] = i
<1> SUFFICES Holds
  OBVIOUS
<1>i. TypeOK /\ Turns /\ SeeksHold /\ Buffered /\ Complete /\ Known
  BY DEF Inv
<1>m. missed \subseteq missed'
  BY MissedGrows
<1>0. ASSUME main = "ready", i \in WholeIn(Content),
             InState(PIECE_COMPLETED) \subseteq InState(PIECE_COMPLETED)',
             \A r \in Receivers : job[r] = "piece" => job'[r] = "piece" /\ target'[r] = target[r]
      PROVE  Holds
  BY <1>0, <1>m, <1>i DEF Known
<1>1. ASSUME NEW r \in Receivers, WriteBlock(r)
      PROVE  Holds
  <2>1. main = "ready" /\ job[r] = "piece"
    BY <1>1, <1>i, WriteContent
  <2>2. UNCHANGED <<job, target, pieces_state_arr>>
    BY <1>1 DEF WriteBlock, jobVars
  <2>3. CASE i = target[r][1]
    BY <2>1, <2>2, <2>3
  <2>4. CASE i # target[r][1]
    BY <1>0, <1>1, <2>1, <2>2, <2>4, WrittenPiece DEF InState
  <2> QED
    BY <2>3, <2>4
<1>2. CASE Killed \/ Shutdown
  BY <1>2, <1>i, EndContent DEF EndsWith
<1> SUFFICES ASSUME ~Killed, ~Shutdown, \A r \in Receivers : ~WriteBlock(r)
             PROVE  Holds
  BY <1>1, <1>2
<1>c. i \in WholeIn(Content)
  BY <1>i, SameContent
<1> HIDE DEF Holds
<1>4. ASSUME main = "ready", UNCHANGED <<job, target, pieces_state_arr>>
      PROVE  Holds
  BY <1>0, <1>4, <1>c DEF InState
<1> USE DEF jobVars, history
<1>5. CASE UNCHANGED vars \/ OpenFile \/ ExtendFile \/ Respond
  BY <1>4, <1>5 DEF vars, OpenFile, ExtendFile, Respond
<1>6. CASE InitPieces
  <2>1. CASE i \in bitfield
    BY <1>6, <2>1 DEF InitPieces, InState, Holds
  <2>2. CASE i \notin bitfield
    BY <1>6, <2>2, <1>c DEF InitPieces, Holds
  <2> QED
    BY <2>1, <2>2
<1>7. ASSUME NEW t \in Threads, SeekPiece(t) \/ ReadPiece(t) \/ SetBitfield(t)
      PROVE  Holds
  BY <1>4, <1>7 DEF SeekPiece, ReadPiece, SetBitfield
<1>8. ASSUME NEW r \in Receivers, Connect(r) \/ Lose(r) \/ SeekBlock(r)
      PROVE  Holds
  BY <1>4, <1>8 DEF Connect, Lose, SeekBlock
<1>9. ASSUME FileFree, main' = main, pieces_state_arr' = pieces_state_arr
      PROVE  Holds
  BY <1>9, <1>0, <1>c DEF FileFree, InState
<1>10. ASSUME NEW r \in Receivers, SendBitfield(r) \/ HandleRequest(r)
       PROVE  Holds
  BY <1>9, <1>10 DEF SendBitfield, HandleRequest, Starts
<1>11. ASSUME NEW r \in Receivers, NEW torn \in BOOLEAN, HandlePiece(r, torn)
       PROVE  Holds
  BY <1>9, <1>11 DEF HandlePiece, Starts
<1>12. ASSUME NEW r \in Receivers, SayBitfield(r) \/ ReadBlock(r)
       PROVE  Holds
  <2>1. job[r] # "piece" /\ main' = main /\ pieces_state_arr' = pieces_state_arr
    BY <1>12 DEF SayBitfield, ReadBlock
  <2>2. \A s \in Receivers : s # r => job'[s] = job[s] /\ target'[s] = target[s]
    BY <1>12, <1>i DEF SayBitfield, ReadBlock, Ends, TypeOK
  <2> QED
    BY <1>0, <1>c, <2>1, <2>2 DEF InState
<1>13. ASSUME NEW r \in Receivers, CheckPiece(r)
       PROVE  Holds
  <2>1. /\ job[r] = "piece" /\ at[r] = "set" /\ main = "ready" /\ r \notin early
    BY <1>13, <1>i DEF CheckPiece, Ends, Goto, Turns
  <2>2. i \in bitfield
    BY <2>1, <1>c, <1>i DEF Complete
  <2>3. \A s \in Receivers : job[s] = "piece" => s = r
    BY <2>1, <1>i DEF Turns, Busy
  <2>4. CASE i = target[r][1]
    BY <1>13, <2>2, <2>4, <1>i DEF CheckPiece, InState, Holds, TypeOK
  <2>5. CASE i # target[r][1]
    <3>1. i \in InState(PIECE_COMPLETED) \cup missed
      BY <2>1, <2>3, <2>5, <1>c, <1>i DEF Known
    <3>2. pieces_state_arr'[i] = pieces_state_arr[i]
      BY <1>13, <2>5, <1>i DEF CheckPiece, TypeOK
    <3> QED
      BY <3>1, <3>2, <1>m DEF InState, Holds
  <2> QED
    BY <2>4, <2>5
<1>14. ASSUME NEW r \in Receivers, Disconnect(r)
       PROVE  Holds
  <2>1. InState(PIECE_COMPLETED) \subseteq InState(PIECE_COMPLETED)'
    BY <1>14, <1>i DEF Disconnect, InState, PIECE_COMPLETED, PIECE_REQUESTING, TypeOK
  <2> QED
    BY <1>14, <2>1, <1>0, <1>c DEF Disconnect
<1>15. ASSUME NEW r \in Receivers, NEW j \in Pieces, Request(j, r)
       PROVE  Holds
  <2>1. InState(PIECE_COMPLETED) \subseteq InState(PIECE_COMPLETED)'
    BY <1>15, <1>i DEF Request, Wanted, InState, PIECE_COMPLETED, PIECE_HAVNT, TypeOK
  <2> QED
    BY <1>15, <2>1, <1>0, <1>c DEF Request
<1> QED
  BY <1>5, <1>6, <1>7, <1>8, <1>10, <1>11, <1>12, <1>13, <1>14, <1>15, Small
     DEF Next, Main, Receiver, GenBitfield, Threads

-----------------------------------------------------------------------------
(***************************************************************************)
(* What holds of the file.                                                 *)
(***************************************************************************)
LEMMA InvInit == Init => Inv
<1> SUFFICES ASSUME Init
             PROVE  Inv
  OBVIOUS
<1>1. TypeOK
  BY TypeInit
<1>2. buffer = NoBuffer /\ Content = kernel
  BY <1>1, NoBufferContent DEF Init
<1>3. /\ \A t \in Threads : at[t] = "rest" /\ bits[t] = {} /\ cursor[t] = 0
      /\ \A r \in Receivers : r \in Threads /\ job[r] = "none" /\ link[r] = "none"
      /\ "main" \in Threads
      /\ \A i \in Pieces : asked[i] = NoOne /\ pieces_state_arr[i] = PIECE_HAVNT
      /\ main = "down" /\ early = {} /\ bitfield = {} /\ said = {}
    BY DEF Init, Threads
<1>4. Turns /\ SeeksHold /\ Buffered /\ Honest /\ Complete
  BY <1>2, <1>3 DEF Turns, Busy, SeeksHold, Buffered, Honest, Complete
<1>5. Asked /\ InOrder /\ NoneToCome /\ Known
  BY <1>3 DEF Asked, InOrder, NoneToCome, Known
<1>6. InState(PIECE_COMPLETED) = {}
  BY DEF Init, InState, PIECE_COMPLETED, PIECE_HAVNT
<1>7. Claimed(kernel) /\ Claimed(Content)
  BY <1>3, <1>6 DEF Claimed
<1>8. LastIsLast(kernel)
  <2>1. CASE kernel = {}
    BY <2>1 DEF LastIsLast
  <2>2. CASE kernel \in Files
    BY <2>2, FileStoreAssumption DEF LastIsLast, WholeIn
  <2> QED
    BY <2>1, <2>2 DEF Init
<1> QED
  BY <1>1, <1>2, <1>4, <1>5, <1>7, <1>8 DEF Inv

\* The invariant holds: it is inductive as it stands.
THEOREM Invariant == Spec => []Inv
<1>1. Init => Inv
  BY InvInit
<1>2. Inv /\ [Next]_vars => Inv'
  <2> SUFFICES ASSUME Inv, [Next]_vars
               PROVE  Inv'
    OBVIOUS
  <2>1. TypeOK' /\ Turns' /\ SeeksHold' /\ Buffered'
    BY TypeStep, TurnsStep, SeeksStep, BufferedStep DEF Inv
  <2>2. Honest' /\ Complete' /\ Asked' /\ InOrder'
    BY HonestStep, CompleteStep, AskedStep, InOrderStep
  <2>3. LastIsLast(kernel)' /\ LastIsLast(Content)' /\ NoneToCome'
    BY LastStep, NoneStep
  <2>4. Claimed(kernel)' /\ Claimed(Content)' /\ Known'
    BY ClaimedStep, KnownStep
  <2> QED
    BY <2>1, <2>2, <2>3, <2>4 DEF Inv
<1> QED
  BY <1>1, <1>2, PTL DEF Spec

\* The state of the file, of the stream over it and of its threads is well formed.
THEOREM TypeCorrect == Spec => []TypeOK
<1>1. Inv => TypeOK
  BY DEF Inv
<1> QED
  BY <1>1, Invariant, PTL

\* Nothing comes between the fseek and the fread or fwrite of a receiver that
\* took FILE once the main thread was ready.
THEOREM SeeksHolds == Spec => []SeeksHold
<1>1. Inv => SeeksHold
  BY DEF Inv
<1> QED
  BY <1>1, Invariant, PTL

\* A piece that a peer was told of stays whole in the file of the kernel, unless
\* the main thread missed it.
THEOREM OnlyMissedIsLost == Spec => []OnlyMissedLost
<1>1. Inv => OnlyMissedLost
  BY DEF Inv, Claimed, OnlyMissedLost
<1> QED
  BY <1>1, Invariant, PTL

LEMMA KernelIsContent == Inv => NothingForgotten
<1> SUFFICES ASSUME Inv, main = "ready", NEW i \in Pieces, i \in WholeIn(kernel)
             PROVE  \/ i \in InState(PIECE_COMPLETED) \cup missed
                    \/ \E r \in Receivers : job[r] = "piece" /\ target[r][1] = i
  BY DEF NothingForgotten, WholeIn
<1>1. TypeOK /\ Turns /\ SeeksHold /\ Buffered /\ Known
  BY DEF Inv
<1>2. CASE i \in WholeIn(Content)
  BY <1>1, <1>2 DEF Known
<1>3. CASE i \notin WholeIn(Content)
  <2>1. buffer # NoBuffer
    BY <1>1, <1>3, NoBufferContent
  <2>2. PICK r \in Receivers : job[r] = "piece" /\ buffer.block = target[r]
    BY <1>1, <2>1 DEF Buffered
  <2>3. target[r] \in Blocks
    BY <1>1 DEF TypeOK
  <2>4. Content \in {kernel \cup {target[r]}, kernel \ {target[r]}}
    BY <2>2 DEF Content
  <2>5. i = target[r][1]
    BY <1>3, <2>3, <2>4, OtherPieces
  <2> QED
    BY <2>2, <2>5
<1> QED
  BY <1>2, <1>3

\* What is whole in the file is known to be there, or is being checked, or was
\* missed by the main thread.
THEOREM NothingIsForgotten == Spec => []NothingForgotten
BY KernelIsContent, Invariant, PTL

-----------------------------------------------------------------------------
(***************************************************************************)
(* The file and what is said of it implement Store.                        *)
(***************************************************************************)

\* What the stream gives to the kernel makes a piece whole, or damages one that
\* is not claimed.
LEMMA FlushedPiece ==
  ASSUME Inv, kernel' = Content
  PROVE  \/ WholeIn(kernel)' = WholeIn(kernel)
         \/ \E i \in Pieces : FileAsStore!Gain(i) \/ FileAsStore!Damage(i)
<1>1. TypeOK /\ Buffered /\ Claimed(Content)
  BY DEF Inv
<1>2. CASE buffer = NoBuffer
  BY <1>1, <1>2, NoBufferContent DEF WholeIn
<1>3. CASE buffer # NoBuffer
  <2>1. PICK b \in Blocks : Content \in {kernel \cup {b}, kernel \ {b}}
    BY <1>1, <1>3 DEF Buffered, Content, TypeOK
  <2>2. b[1] \in Pieces
    BY DEF Blocks
  <2>3. \A i \in Pieces \ {b[1]} : i \in WholeIn(Content) <=> i \in WholeIn(kernel)
    BY <2>1, OtherPieces
  <2>4. WholeIn(kernel)' = WholeIn(Content)
    BY DEF WholeIn
  <2>5. CASE b[1] \in WholeIn(Content)
    <3>1. WholeIn(Content) = WholeIn(kernel) \cup {b[1]}
      BY <2>2, <2>3, <2>5 DEF WholeIn
    <3> QED
      BY <2>2, <2>4, <3>1 DEF FileAsStore!Gain
  <2>6. CASE b[1] \notin WholeIn(Content)
    <3>1. WholeIn(Content) = WholeIn(kernel) \ {b[1]}
      BY <2>2, <2>3, <2>6 DEF WholeIn
    <3>2. b[1] \notin InState(PIECE_COMPLETED) \ missed
      BY <1>1, <2>6 DEF Claimed
    <3> QED
      BY <2>2, <2>4, <3>1, <3>2 DEF FileAsStore!Damage
  <2> QED
    BY <2>5, <2>6
<1> QED
  BY <1>2, <1>3

LEMMA StoreStep == Inv /\ Inv' /\ [Next]_vars => [FileAsStore!Next]_(FileAsStore!vars)
<1> SUFFICES ASSUME Inv, Inv', [Next]_vars
             PROVE  FileAsStore!Next \/ UNCHANGED FileAsStore!vars
  OBVIOUS
<1> DEFINE claims == InState(PIECE_COMPLETED) \ missed
           Holds == FileAsStore!Next \/ UNCHANGED FileAsStore!vars
<1> SUFFICES Holds
  OBVIOUS
<1>i. TypeOK /\ Turns /\ SeeksHold /\ Buffered
  BY DEF Inv
<1>k. claims' \subseteq WholeIn(kernel)'
  BY DEF Inv, Claimed
<1>0. ASSUME UNCHANGED <<pieces_state_arr, missed>>
      PROVE  claims' = claims
  BY <1>0 DEF InState
<1>1. ASSUME UNCHANGED kernel, claims' = claims
      PROVE  Holds
  BY <1>1 DEF FileAsStore!vars, WholeIn
<1>2. ASSUME kernel' = Content, claims' = claims
      PROVE  Holds
  BY <1>1, <1>2, FlushedPiece DEF FileAsStore!Next, FileAsStore!Write, FileAsStore!vars
<1>3. ASSUME UNCHANGED kernel, claims \subseteq claims'
      PROVE  Holds
  <2>1. WholeIn(kernel)' = WholeIn(kernel)
    BY <1>3 DEF WholeIn
  <2> QED
    BY <1>3, <1>k, <2>1 DEF FileAsStore!Next, FileAsStore!Claim
<1>4. CASE Killed \/ Shutdown
  <2>1. kernel' \in {kernel, Content} /\ EndsWith(kernel')
    BY <1>4, <1>i, EndContent
  <2>2. claims' = {}
    BY <2>1 DEF EndsWith, InState, PIECE_COMPLETED, PIECE_HAVNT
  <2>3. \/ WholeIn(kernel)' = WholeIn(kernel)
        \/ \E i \in Pieces : FileAsStore!Gain(i) \/ FileAsStore!Damage(i)
    BY <2>1, FlushedPiece DEF WholeIn
  <2> QED
    BY <2>2, <2>3 DEF FileAsStore!Next, FileAsStore!End
<1> HIDE DEF Holds, claims
<1> USE DEF stream, history
<1>5. CASE UNCHANGED vars \/ OpenFile \/ ExtendFile \/ Respond
  BY <1>5, <1>0, <1>1 DEF vars, OpenFile, ExtendFile, Respond
<1>6. CASE InitPieces
  <2>1. claims = {}
    BY <1>6, <1>i DEF InitPieces, Turns, InState, claims, PIECE_COMPLETED, PIECE_HAVNT
  <2> QED
    BY <1>6, <2>1, <1>3 DEF InitPieces
<1>7. ASSUME NEW t \in Threads, ReadPiece(t) \/ SetBitfield(t)
      PROVE  Holds
  BY <1>7, <1>0, <1>1 DEF ReadPiece, SetBitfield
<1>8. ASSUME NEW t \in Threads, SeekPiece(t)
      PROVE  Holds
  BY <1>8, <1>0, <1>2 DEF SeekPiece, SeekTo
<1>9. ASSUME NEW r \in Receivers, SeekBlock(r)
      PROVE  Holds
  BY <1>9, <1>0, <1>2 DEF SeekBlock, SeekTo
<1>10. ASSUME NEW r \in Receivers,
              \/ Connect(r) \/ Lose(r) \/ SendBitfield(r) \/ SayBitfield(r)
              \/ HandleRequest(r) \/ ReadBlock(r) \/ WriteBlock(r)
       PROVE  Holds
  BY <1>10, <1>0, <1>1
     DEF Connect, Lose, SendBitfield, SayBitfield, HandleRequest, ReadBlock, WriteBlock, WriteAt
<1>11. ASSUME NEW r \in Receivers, NEW torn \in BOOLEAN, HandlePiece(r, torn)
       PROVE  Holds
  BY <1>11, <1>0, <1>1 DEF HandlePiece
<1>12. ASSUME NEW r \in Receivers, CheckPiece(r)
       PROVE  Holds
  <2>1. UNCHANGED <<kernel, missed>>
    BY <1>12 DEF CheckPiece
  <2>2. InState(PIECE_COMPLETED) \subseteq InState(PIECE_COMPLETED)'
    BY <1>12, <1>i DEF CheckPiece, InState, TypeOK
  <2> QED
    BY <2>1, <2>2, <1>3 DEF claims
<1>13. ASSUME NEW r \in Receivers, Disconnect(r)
       PROVE  Holds
  <2>1. InState(PIECE_COMPLETED)' = InState(PIECE_COMPLETED)
    BY <1>13, <1>i DEF Disconnect, InState, PIECE_COMPLETED, PIECE_REQUESTING, PIECE_HAVNT, TypeOK
  <2> QED
    BY <1>13, <2>1, <1>1 DEF Disconnect, claims
<1>14. ASSUME NEW r \in Receivers, NEW i \in Pieces, Request(i, r)
       PROVE  Holds
  <2>1. InState(PIECE_COMPLETED)' = InState(PIECE_COMPLETED)
    BY <1>14, <1>i
       DEF Request, Wanted, InState, PIECE_COMPLETED, PIECE_REQUESTING, PIECE_HAVNT, TypeOK
  <2> QED
    BY <1>14, <2>1, <1>1 DEF Request, claims
<1> QED
  BY <1>4, <1>5, <1>6, <1>7, <1>8, <1>9, <1>10, <1>11, <1>12, <1>13, <1>14, Small
     DEF Next, Main, Receiver, GenBitfield, Threads

\* The file implements Store: no step of any thread, no torn block, no kill and no
\* restart damages a piece that is claimed, and only whole pieces are claimed.
THEOREM FileImplementsStore == Spec => ImplementsStore
<1>1. Init => FileAsStore!Init
  BY DEF Init, FileAsStore!Init, WholeIn, InState, PIECE_COMPLETED, PIECE_HAVNT
<1>2. Inv /\ Inv' /\ [Next]_vars => [FileAsStore!Next]_(FileAsStore!vars)
  BY StoreStep
<1> QED
  BY <1>1, <1>2, Invariant, PTL DEF Spec, ImplementsStore, FileAsStore!Spec
=============================================================================
