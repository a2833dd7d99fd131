--------------------------- MODULE DownloaderProofs ---------------------------
(***************************************************************************)
(* Types; that late and repeated answers never end up in a piece; that the *)
(* task asks only when unchoked; and how many requests can be in flight:   *)
(* for every number of pieces, sizes of pieces and blocks, and numbers of  *)
(* chokes and unrelated messages.                                          *)
(***************************************************************************)
EXTENDS Downloader, FiniteSetTheorems, TLAPS

-----------------------------------------------------------------------------
(* Queues.                                                                  *)

LEMMA HeadAndTail ==
    ASSUME NEW S, NEW s \in Seq(S), s # <<>>
    PROVE  Head(s) \in S /\ Tail(s) \in Seq(S)
OBVIOUS

\* A message more in a queue.
LEMMA AppendTyped ==
    ASSUME NEW S, NEW s \in Seq(S), NEW m \in S
    PROVE  Append(s, m) \in Seq(S)
OBVIOUS

\* A sequence over a set is one over any larger set.
LEMMA SeqOfSubset ==
    ASSUME NEW S, NEW T, S \subseteq T, NEW s \in Seq(S)
    PROVE  s \in Seq(T)
OBVIOUS

-----------------------------------------------------------------------------
(* The invariant.                                                           *)

\* A request is for a full block, or for the rest of the piece.
Fits(m) == m.length = Min2(PieceLength - m.begin, BlockSize)

Asked == {m \in OurMessages : m.type = "request" => Fits(m)}

\* What the peer may have sent: answers to such requests, and right data if it is honest.
Truthful ==
    {m \in PeerMessages : m.type = "piece" => Fits(m) /\ (remote.honest => m.right)}

\* The blocks of the piece so far, each at its place.
InPlace(m, k) ==
    /\ m.index = piece
    /\ m.begin = (k - 1) * BlockSize
    /\ remote.honest => m.right

Types ==
    /\ at \in {"Curious", "Interested", "Unchoked", "NotInterested", "errored"} \cup Transferring
    /\ todo \subseteq Pieces
    /\ done \subseteq Pieces
    /\ piece \in Pieces
    /\ progress \in [data : Seq(PeerMessages), offset : 0 .. PieceLength]
    /\ asked \in 0 .. BlockSize
    /\ choked \in BOOLEAN
    /\ toPeer \in Seq(Asked)
    /\ toUs \in Seq(Truthful)
    /\ remote \in [held : SUBSET Pieces, honest : BOOLEAN, last : LastLengths]
    /\ choking \in BOOLEAN /\ wanted \in BOOLEAN /\ closed \in BOOLEAN
    /\ budget \in [chokes : 0 .. MaxChokes, chatter : 0 .. MaxChatter]

\* All blocks but the last one of a piece are full.
Collected ==
    /\ \A k \in DOMAIN progress.data : InPlace(progress.data[k], k)
    /\ progress.offset < PieceLength => progress.offset = Len(progress.data) * BlockSize
    /\ at \in {"asking", "reading"} => progress.offset < PieceLength

DInv == Types /\ Collected

\* What is assumed of the constants.
LEMMA Constants ==
    /\ NumPieces \in Nat \ {0} /\ PieceLength \in Nat \ {0}
    /\ BlockSize \in Nat \ {0} /\ MaxChokes \in Nat /\ MaxChatter \in Nat
BY DownloaderAssumption

\* The invariant holds at the start of a session.
LEMMA DInit == Init => DInv
<1> SUFFICES ASSUME Init PROVE DInv
  OBVIOUS
<1>1. 0 \in Pieces
  BY Constants DEF Pieces
<1>2. progress = [data |-> <<>>, offset |-> 0]
  BY DEF Init, NoProgress
<1>3. BitfieldOf(remote.held) \in Truthful
  <2>1. [k \in 1 .. Elements(NumPieces) |-> {b \in AllBits : 8 * (k - 1) + b \in remote.held}]
           \in Seq(SUBSET AllBits)
    <3>1. Elements(NumPieces) \in Nat
      BY Constants DEF Elements
    <3> QED
      BY <3>1
  <2> QED
    BY <2>1 DEF BitfieldOf, Truthful, PeerMessages
<1>4. toUs \in Seq(Truthful)
  <2>1. \A S, m : m \in S => <<m>> \in Seq(S)
    OBVIOUS
  <2>2. \A S : <<>> \in Seq(S)
    OBVIOUS
  <2> QED
    BY <1>3, <2>1, <2>2, Zenon DEF Init
<1>5. Types
  <2>1. /\ progress \in [data : Seq(PeerMessages), offset : 0 .. PieceLength]
        /\ asked \in 0 .. BlockSize
        /\ budget \in [chokes : 0 .. MaxChokes, chatter : 0 .. MaxChatter]
        /\ toPeer \in Seq(Asked)
    BY <1>2, Constants DEF Init
  <2> QED
    BY <1>1, <1>4, <2>1 DEF Init, Types
<1>6. Collected
  BY <1>2, Constants DEF Init, Collected
<1> QED
  BY <1>5, <1>6 DEF DInv

\* A step that leaves the piece and its blocks alone, and does not enter the loop.
LEMMA OutsideTransfer ==
    ASSUME DInv, Types', UNCHANGED <<piece, progress, asked, remote>>,
           at' \in {"asking", "reading"} => at' = at
    PROVE  DInv'
BY DEF DInv, Collected, InPlace, get_next_block_size, remaining

\* Reading a message leaves what can still be read.
LEMMA Received ==
    ASSUME DInv, NEW type, Receive(type), UNCHANGED remote
    PROVE  /\ toUs' \in Seq(Truthful') /\ Truthful' = Truthful
           /\ Head(toUs) \in Truthful /\ Head(toUs).type = type
<1>1. Truthful' = Truthful
  BY DEF Truthful
<1> QED
  BY <1>1, HeadAndTail DEF Receive, DInv, Types

\* What the peer says is typed.
LEMMA Said ==
    ASSUME DInv, NEW m \in Truthful, Say(m), UNCHANGED remote
    PROVE  toUs' \in Seq(Truthful')
<1>1. Truthful' = Truthful
  BY DEF Truthful
<1> QED
  BY <1>1, AppendTyped DEF Say, DInv, Types

\* The queue keeps its type if the peer stays what it is.
LEMMA Kept ==
    ASSUME DInv, UNCHANGED <<toUs, remote>>
    PROVE  toUs' \in Seq(Truthful')
BY DEF DInv, Types, Truthful

\* The next block fits the piece, and is empty only when the piece is complete.
LEMMA BlockSizes ==
    ASSUME DInv
    PROVE  /\ remaining \in Nat /\ get_next_block_size \in 0 .. BlockSize
           /\ progress.offset < PieceLength => get_next_block_size > 0
           /\ progress.offset + get_next_block_size \in 0 .. PieceLength
           /\ progress.offset \in Nat
BY Constants DEF DInv, Types, remaining, get_next_block_size, Min2

-----------------------------------------------------------------------------
(* The steps of the task.                                                   *)

\* A message is read, and nothing is done with it.
LEMMA Ignored ==
    ASSUME DInv, NEW type, Receive(type),
           UNCHANGED <<queue, piece, progress, asked, toPeer, peer, closed>>,
           choked' \in BOOLEAN,
           at' \in {"Interested", "NotInterested", "Unchoked"} \/ at' = at
    PROVE  DInv'
<1>1. toUs' \in Seq(Truthful')
  BY Received DEF peer
<1>2. Types'
  BY <1>1 DEF DInv, Types, queue, peer
<1> QED
  BY <1>2, OutsideTransfer DEF queue, peer

\* The task waits for the peer's bitfield ...
LEMMA Curiosity ==
    ASSUME DInv, FindSeed \/ FindIncomplete \/ IgnoreWhileCurious
    PROVE  DInv'
<1>1. CASE FindSeed
  <2>1. toUs' \in Seq(Truthful')
    BY <1>1, Received DEF FindSeed, peer
  <2>2. toPeer' \in Seq(Asked)
    <3>1. Simple("interested") \in Asked
      BY DEF Simple, OurMessages, Asked
    <3> QED
      BY <1>1, <3>1, AppendTyped DEF FindSeed, DInv, Types
  <2>3. Types'
    BY <1>1, <2>1, <2>2 DEF FindSeed, DInv, Types, queue, transfer, peer
  <2> QED
    BY <1>1, <2>3, OutsideTransfer DEF FindSeed, transfer, peer
<1>2. CASE FindIncomplete
  BY <1>2, Ignored DEF FindIncomplete, transfer, DInv, Types
<1>3. CASE IgnoreWhileCurious
  BY <1>3, Ignored DEF IgnoreWhileCurious, transfer, DInv, Types
<1> QED
  BY <1>1, <1>2, <1>3

\* ... and for its Unchoke.
LEMMA Interest ==
    ASSUME DInv, GetUnchoked \/ IgnoreWhileInterested
    PROVE  DInv'
<1>1. CASE GetUnchoked
  BY <1>1, Ignored DEF GetUnchoked, transfer, DInv, Types
<1>2. CASE IgnoreWhileInterested
  BY <1>2, Ignored DEF IgnoreWhileInterested, transfer, DInv, Types
<1> QED
  BY <1>1, <1>2

\* The steps that end the task, or a piece.
LEMMA Leaving ==
    ASSUME DInv, SessionFails \/ LeaveExhausted \/ SavePiece \/ Mismatch \/ TransferFails
    PROVE  DInv'
<1>1. /\ UNCHANGED <<piece, progress, asked, choked, toPeer, toUs, remote, choking, wanted,
                     budget, closed>>
      /\ at' \in {"errored", "NotInterested", "Unchoked"}
      /\ todo' \in {todo, todo \cup {piece}} /\ done' \in {done, done \cup {piece}}
  BY DEF SessionFails, LeaveExhausted, SavePiece, Mismatch, TransferFails, queue, transfer, peer
<1>2. toUs' \in Seq(Truthful')
  BY <1>1, Kept
<1>3. Types'
  BY <1>1, <1>2 DEF DInv, Types
<1> QED
  BY <1>1, <1>3, OutsideTransfer

\* A piece is begun with nothing collected.
LEMMA Selection ==
    ASSUME DInv, SelectPiece
    PROVE  DInv'
<1>1. /\ piece' \in Pieces /\ todo' \subseteq Pieces /\ at' = "asking"
      /\ progress' = [data |-> <<>>, offset |-> 0] /\ asked' = 0 /\ choked' = FALSE
      /\ UNCHANGED <<done, toPeer, toUs, remote, choking, wanted, budget, closed>>
  BY DEF SelectPiece, peer, NoProgress, DInv, Types
<1>2. toUs' \in Seq(Truthful')
  BY <1>1, Kept
<1>3. progress' \in [data : Seq(PeerMessages), offset : 0 .. PieceLength] /\ asked' \in 0 .. BlockSize
  BY <1>1, Constants
<1>4. Types'
  BY <1>1, <1>2, <1>3 DEF DInv, Types, Transferring
<1>5. Collected'
  BY <1>1, Constants DEF Collected
<1> QED
  BY <1>4, <1>5 DEF DInv

\* The next block is asked for.
LEMMA Asking ==
    ASSUME DInv, SendRequest
    PROVE  DInv'
<1>1. /\ at = "asking" /\ at' = "reading" /\ asked' = get_next_block_size
      /\ toPeer' = Append(toPeer, Request(piece, progress.offset, get_next_block_size))
      /\ UNCHANGED <<todo, done, piece, progress, choked, toUs, remote, choking, wanted, budget,
                     closed>>
  BY DEF SendRequest, queue, peer
<1>2. toPeer' \in Seq(Asked)
  <2>1. get_next_block_size \in Nat /\ progress.offset \in Nat /\ piece \in Pieces
    BY BlockSizes, Constants DEF DInv, Types
  <2>2. Request(piece, progress.offset, get_next_block_size) \in Asked
    BY <2>1 DEF Request, OurMessages, Asked, Fits, get_next_block_size, remaining
  <2> QED
    BY <1>1, <2>2, AppendTyped DEF DInv, Types
<1>3. toUs' \in Seq(Truthful')
  BY <1>1, Kept
<1>4. Types'
  BY <1>1, <1>2, <1>3, BlockSizes DEF DInv, Types, Transferring
<1>5. Collected'
  BY <1>1 DEF DInv, Collected, InPlace, get_next_block_size, remaining
<1> QED
  BY <1>4, <1>5 DEF DInv

\* The end of the loop: the flag and the offset decide where the task goes.
LEMMA Resumed ==
    ASSUME DInv, at = "reading", NEW isChoked \in BOOLEAN, Resume(progress.offset, isChoked)
    PROVE  at' \in {"reading", "asking"}
<1>1. progress.offset # PieceLength
  BY BlockSizes, Constants DEF DInv, Collected
<1> QED
  BY <1>1 DEF Resume

\* A message that brings no block.
LEMMA NoBlock ==
    ASSUME DInv, at = "reading", NEW type, Receive(type), choked' \in BOOLEAN,
           at' \in {"reading", "asking"},
           UNCHANGED <<queue, piece, progress, asked, toPeer, peer, closed>>
    PROVE  DInv'
<1>1. toUs' \in Seq(Truthful')
  BY Received DEF peer
<1>2. Types'
  BY <1>1 DEF DInv, Types, Transferring, queue, peer
<1>3. Collected'
  BY DEF DInv, Collected, InPlace, get_next_block_size, remaining, queue, peer
<1> QED
  BY <1>2, <1>3 DEF DInv

\* A message without a block leaves what has been collected.
LEMMA ReadingNoBlock ==
    ASSUME DInv, ReadChoke \/ ReadUnchoke \/ ReadOther
    PROVE  DInv'
<1>1. choked \in BOOLEAN /\ TRUE \in BOOLEAN /\ FALSE \in BOOLEAN
  BY DEF DInv, Types
<1>2. CASE ReadChoke
  BY <1>1, <1>2, NoBlock, Resumed DEF ReadChoke
<1>3. CASE ReadUnchoke
  BY <1>1, <1>3, NoBlock, Resumed DEF ReadUnchoke
<1>4. CASE ReadOther
  BY <1>1, <1>4, NoBlock, Resumed DEF ReadOther, transfer
<1> QED
  BY <1>2, <1>3, <1>4

\* A block of the asked size is full, or the last one of the piece.
LEMMA NextOffset ==
    ASSUME NEW offset \in Nat, offset < PieceLength, NEW n \in Nat, offset = n * BlockSize,
           NEW size, size = Min2(PieceLength - offset, BlockSize),
           offset + size < PieceLength
    PROVE  offset + size = (n + 1) * BlockSize
<1>1. size = BlockSize
  BY Constants DEF Min2
<1>2. (n + 1) * BlockSize = n * BlockSize + BlockSize
  BY Constants
<1> QED
  BY <1>1, <1>2

\* The awaited block is put behind those collected; any other is dropped.
LEMMA ReadingBlock ==
    ASSUME DInv, ReadPiece
    PROVE  DInv'
<1> DEFINE m == Head(toUs)
           data == progress.data
           offset == progress.offset
           n == Len(data)
<1>1. /\ at = "reading" /\ offset \in Nat /\ offset < PieceLength
      /\ choked \in BOOLEAN
      /\ data \in Seq(PeerMessages) /\ n \in Nat /\ offset = n * BlockSize
      /\ \A k \in DOMAIN data : InPlace(data[k], k)
      /\ UNCHANGED <<todo, done, piece, asked, choked, toPeer, remote, choking, wanted, budget,
                     closed>>
  BY BlockSizes DEF ReadPiece, DInv, Types, Collected, queue, peer
<1>2. /\ toUs' \in Seq(Truthful') /\ m \in Truthful /\ m.type = "piece"
      /\ Resume(progress'.offset, choked)
      /\ progress' = IF Expected(m) THEN add_block(m) ELSE progress
  BY Received DEF ReadPiece, peer
<1>3. CASE ~ Expected(m)
  <2>1. progress' = progress
    BY <1>2, <1>3
  <2> QED
    BY <1>1, <1>2, <2>1, NoBlock, Resumed DEF ReadPiece
<1>4. CASE Expected(m)
  <2> DEFINE longer == Append(data, m)
             size == m.length
  <2>1. /\ m \in PeerMessages /\ (remote.honest => m.right)
        /\ m.index = piece /\ m.begin = offset
        /\ size = Min2(PieceLength - offset, BlockSize)
        /\ progress' = [data |-> longer, offset |-> offset + size]
    BY <1>2, <1>4 DEF Expected, Truthful, Fits, add_block
  <2>2. /\ longer \in Seq(PeerMessages) /\ Len(longer) = n + 1
        /\ longer[n + 1] = m
        /\ \A k \in DOMAIN longer : k = n + 1 \/ (k \in DOMAIN data /\ longer[k] = data[k])
        /\ \A k \in DOMAIN longer : k \in Nat
    <3> HIDE DEF m
    <3> QED
      BY <1>1, <2>1
  <2> HIDE DEF longer, size, data, offset, n
  <2>3. offset + size \in 0 .. PieceLength
    BY <1>1, <2>1, Constants DEF Min2
  <2>4. progress'.offset = offset + size /\ progress'.data = longer
    BY <2>1
  <2>5. progress' \in [data : Seq(PeerMessages), offset : 0 .. PieceLength]
    BY <2>1, <2>2, <2>3
  <2>6. at' \in {"assembled", "reading", "asking"}
    BY <1>2 DEF Resume
  <2>7. Types'
    BY <1>1, <1>2, <2>5, <2>6 DEF DInv, Types, Transferring
  <2>8. ASSUME NEW k \in DOMAIN longer PROVE InPlace(longer[k], k)
    <3>1. CASE k = n + 1
      <4>1. (k - 1) * BlockSize = n * BlockSize
        BY <1>1, <3>1
      <4>2. m.begin = (k - 1) * BlockSize
        BY <1>1, <2>1, <4>1
      <4>3. InPlace(m, k)
        BY <2>1, <4>2 DEF InPlace
      <4> QED
        BY <2>2, <3>1, <4>3
    <3>2. CASE k # n + 1
      BY <1>1, <2>2, <3>2
    <3> QED
      BY <3>1, <3>2
  <2>9. (\A k \in DOMAIN progress.data : InPlace(progress.data[k], k))'
    BY <1>1, <2>4, <2>8 DEF InPlace
  <2>10. offset + size < PieceLength => offset + size = Len(longer) * BlockSize
    BY <1>1, <2>1, <2>2, NextOffset
  <2>11. at' \in {"asking", "reading"} => offset + size < PieceLength
    <3>1. at' \in {"asking", "reading"} => offset + size # PieceLength
      BY <1>2, <2>4 DEF Resume
    <3> QED
      BY <2>3, <3>1, Constants
  <2>12. Collected'
    BY <2>4, <2>9, <2>10, <2>11 DEF Collected
  <2> QED
    BY <2>7, <2>12 DEF DInv
<1> QED
  BY <1>3, <1>4

-----------------------------------------------------------------------------
(* The steps of the peer.                                                   *)

\* What the peer reads and says keeps the piece.
LEMMA PeerKeeps ==
    ASSUME DInv, UNCHANGED <<at, queue, transfer, remote>>,
           toPeer' \in Seq(Asked), toUs' \in Seq(Truthful),
           choking' \in BOOLEAN, wanted' \in BOOLEAN, closed' \in BOOLEAN,
           budget' \in [chokes : 0 .. MaxChokes, chatter : 0 .. MaxChatter]
    PROVE  DInv'
<1>1. Truthful' = Truthful /\ Asked' = Asked
  BY DEF Truthful, Asked, Fits
<1>2. Types'
  BY <1>1 DEF DInv, Types, queue, transfer
<1> QED
  BY <1>2, OutsideTransfer DEF transfer

\* The peer answers a request, truthfully if it is honest.
LEMMA Answering ==
    ASSUME DInv, PeerAnswers
    PROVE  DInv'
<1> DEFINE m == Head(toPeer)
<1>1. /\ toPeer # <<>> /\ m.type = "request" /\ toPeer' = Tail(toPeer)
      /\ UNCHANGED <<at, queue, transfer, peer, closed>>
  BY DEF PeerAnswers, Take
<1>2. m \in Asked /\ toPeer' \in Seq(Asked)
  BY <1>1, HeadAndTail DEF DInv, Types
<1>3. PICK right \in {TRUE, remote.honest} : Say(Block(m.index, m.begin, m.length, right))
  BY DEF PeerAnswers
<1>4. /\ m.index \in Pieces /\ m.begin \in Nat /\ m.length \in Nat /\ Fits(m)
      /\ right \in BOOLEAN /\ (remote.honest => right)
  BY <1>1, <1>2, <1>3 DEF Asked, OurMessages, DInv, Types
<1>5. Block(m.index, m.begin, m.length, right) \in Truthful
  <2> DEFINE b == Block(m.index, m.begin, m.length, right)
  <2>1. b.begin = m.begin /\ b.length = m.length /\ b.right = right
    BY DEF Block
  <2>2. b \in PeerMessages
    BY <1>4 DEF Block, PeerMessages
  <2>3. Fits(b)
    BY <1>4, <2>1 DEF Fits
  <2> HIDE DEF b
  <2>4. b \in Truthful
    BY <1>4, <2>1, <2>2, <2>3 DEF Truthful
  <2> QED
    BY <2>4 DEF b
<1>6. toUs' \in Seq(Truthful)
  BY <1>3, <1>5, AppendTyped DEF Say, DInv, Types
<1> QED
  BY <1>1, <1>2, <1>6, PeerKeeps DEF peer, DInv, Types

\* Every step of the peer keeps the invariant.
LEMMA Peering ==
    ASSUME DInv, PeerStep
    PROVE  DInv'
<1> USE DEF peer
<1>1. /\ toPeer \in Seq(Asked) /\ toUs \in Seq(Truthful)
      /\ toPeer # <<>> => Tail(toPeer) \in Seq(Asked)
      /\ \A type \in {"choke", "unchoke", "other"} : Append(toUs, Simple(type)) \in Seq(Truthful)
      /\ choking \in BOOLEAN /\ wanted \in BOOLEAN /\ closed \in BOOLEAN
      /\ budget \in [chokes : 0 .. MaxChokes, chatter : 0 .. MaxChatter]
  <2>1. \A type \in {"choke", "unchoke", "other"} : Simple(type) \in Truthful
    BY DEF Simple, Truthful, PeerMessages
  <2> QED
    BY <2>1, HeadAndTail, AppendTyped DEF DInv, Types
<1>2. CASE PeerReadsInterested
  BY <1>1, <1>2, PeerKeeps DEF PeerReadsInterested, Take
<1>3. CASE PeerAnswers
  BY <1>3, Answering
<1>4. CASE PeerDropsRequest
  BY <1>1, <1>4, PeerKeeps DEF PeerDropsRequest, Take
<1>5. CASE PeerChokes
  <2>1. budget' \in [chokes : 0 .. MaxChokes, chatter : 0 .. MaxChatter]
    BY <1>1, <1>5, Constants DEF PeerChokes
  <2> QED
    BY <1>1, <1>5, <2>1, PeerKeeps DEF PeerChokes, Say
<1>6. CASE PeerUnchokes
  BY <1>1, <1>6, PeerKeeps DEF PeerUnchokes, Say
<1>7. CASE PeerChatters
  <2>1. budget' \in [chokes : 0 .. MaxChokes, chatter : 0 .. MaxChatter]
    BY <1>1, <1>7, Constants DEF PeerChatters
  <2> QED
    BY <1>1, <1>7, <2>1, PeerKeeps DEF PeerChatters, Say
<1>8. CASE PeerCloses
  BY <1>1, <1>8, PeerKeeps DEF PeerCloses
<1> QED
  BY <1>2, <1>3, <1>4, <1>5, <1>6, <1>7, <1>8 DEF PeerStep

\* Every step keeps the invariant.
LEMMA StepKeeps == DInv /\ (TaskStep \/ PeerStep) => DInv'
<1>1. DInv /\ TaskStep => DInv'
  BY Curiosity, Interest, Leaving, Selection, Asking, ReadingBlock, ReadingNoBlock DEF TaskStep
<1> QED
  BY <1>1, Peering

-----------------------------------------------------------------------------
(* The theorems.                                                            *)

\* The inductive invariant: types, and the blocks of the piece each at its place.
THEOREM Invariance == Spec => []DInv
<1>1. DInv /\ [Next]_vars => DInv'
  <2> SUFFICES ASSUME DInv, [Next]_vars PROVE DInv'
    OBVIOUS
  <2>1. CASE UNCHANGED vars
    BY <2>1, PeerKeeps DEF vars, peer, DInv, Types
  <2> QED
    BY <2>1, StepKeeps DEF Next
<1> QED
  BY <1>1, DInit, PTL DEF Spec

\* Types: `offset` never passes the end of the piece, so `remaining` never wraps
\* (downloader.rs:87-89).
THEOREM TypeCorrect == Spec => []TypeOK
<1>1. DInv => TypeOK
  <2> SUFFICES ASSUME DInv PROVE TypeOK
    OBVIOUS
  <2>1. toPeer \in Seq(OurMessages) /\ toUs \in Seq(PeerMessages)
    <3>1. Asked \subseteq OurMessages /\ Truthful \subseteq PeerMessages
      BY DEF Asked, Truthful
    <3> QED
      BY <3>1, SeqOfSubset DEF DInv, Types
  <2> QED
    BY <2>1 DEF DInv, Types, TypeOK
<1> QED
  BY <1>1, Invariance, PTL

\* What an honest peer sends passes the hash check (downloader.rs:286), in whatever order
\* chokes, repeats and late answers come.
THEOREM HonestPiecesPass == Spec => []HonestPieceMatches
<1>1. DInv => HonestPieceMatches
  BY DEF DInv, Collected, InPlace, HonestPieceMatches, Genuine
<1> QED
  BY <1>1, Invariance, PTL

-----------------------------------------------------------------------------
(* Chokes.  The words of a queue are its Chokes and Unchokes.               *)

Words == {"choke", "unchoke"}

NoWord(s) == \A k \in DOMAIN s : s[k].type \notin Words

LastWord(s, type) ==
    \E k \in DOMAIN s :
        s[k].type = type /\ \A j \in DOMAIN s : j > k => s[j].type \notin Words

\* No answer comes between a Choke and the next Unchoke.
Quiet(s) ==
    \A i, k \in DOMAIN s :
        i < k /\ s[i].type = "choke" /\ s[k].type = "piece"
            => \E j \in DOMAIN s : i < j /\ j < k /\ s[j].type = "unchoke"

\* No answer comes before the next Unchoke.
Closed(s) ==
    \A k \in DOMAIN s :
        s[k].type = "piece" => \E j \in DOMAIN s : j < k /\ s[j].type = "unchoke"

\* The elements of a queue with one message more ...
LEMMA AppendElements ==
    ASSUME NEW S, NEW s \in Seq(S), NEW m
    PROVE  /\ DOMAIN s = 1 .. Len(s) /\ Len(s) \in Nat
           /\ DOMAIN Append(s, m) = 1 .. Len(s) + 1
           /\ Append(s, m)[Len(s) + 1] = m
           /\ \A k \in DOMAIN s : Append(s, m)[k] = s[k]
OBVIOUS

\* ... and with the first one taken.
LEMMA TailElements ==
    ASSUME NEW S, NEW s \in Seq(S), s # <<>>
    PROVE  /\ DOMAIN s = 1 .. Len(s) /\ Len(s) \in Nat \ {0}
           /\ DOMAIN Tail(s) = 1 .. Len(s) - 1
           /\ Head(s) = s[1]
           /\ \A k \in DOMAIN Tail(s) : Tail(s)[k] = s[k + 1]
OBVIOUS

\* A Choke or Unchoke at the end is the last word.
LEMMA WordAppended ==
    ASSUME NEW S, NEW s \in Seq(S), NEW m, m.type \in Words
    PROVE  /\ ~ NoWord(Append(s, m))
           /\ LastWord(Append(s, m), m.type)
           /\ Quiet(s) => Quiet(Append(s, m))
           /\ Closed(s) => Closed(Append(s, m))
<1> DEFINE t == Append(s, m)
           n == Len(s)
<1>1. /\ DOMAIN s = 1 .. n /\ n \in Nat /\ DOMAIN t = 1 .. n + 1
      /\ t[n + 1] = m /\ \A k \in DOMAIN s : t[k] = s[k]
  BY AppendElements
<1> HIDE DEF t, n
<1>2. n + 1 \in DOMAIN t /\ m.type # "piece"
  BY <1>1 DEF Words
<1>3. ~ NoWord(t) /\ LastWord(t, m.type)
  BY <1>1, <1>2 DEF NoWord, LastWord
<1>4. Quiet(s) => Quiet(t)
  BY <1>1, <1>2 DEF Quiet
<1>5. Closed(s) => Closed(t)
  BY <1>1, <1>2 DEF Closed
<1> QED
  BY <1>3, <1>4, <1>5 DEF t

\* Any other message at the end leaves the last word.
LEMMA OtherAppended ==
    ASSUME NEW S, NEW s \in Seq(S), NEW m, m.type \notin Words
    PROVE  /\ NoWord(s) <=> NoWord(Append(s, m))
           /\ \A type \in Words : LastWord(s, type) => LastWord(Append(s, m), type)
           /\ (m.type = "piece" => NoWord(s) \/ LastWord(s, "unchoke"))
                  => (Quiet(s) => Quiet(Append(s, m)))
           /\ (m.type = "piece" => LastWord(s, "unchoke"))
                  => (Closed(s) => Closed(Append(s, m)))
<1> DEFINE t == Append(s, m)
           n == Len(s)
<1>1. /\ DOMAIN s = 1 .. n /\ n \in Nat /\ DOMAIN t = 1 .. n + 1
      /\ t[n + 1] = m /\ \A k \in DOMAIN s : t[k] = s[k]
  BY AppendElements
<1> HIDE DEF t, n
<1>2. /\ \A k \in DOMAIN t : k \in DOMAIN s \/ k = n + 1
      /\ \A k \in DOMAIN s : k \in DOMAIN t /\ k < n + 1
      /\ n + 1 \in DOMAIN t
  BY <1>1
<1>3. NoWord(s) <=> NoWord(t)
  BY <1>1, <1>2 DEF NoWord
<1>4. ASSUME NEW type \in Words, LastWord(s, type) PROVE LastWord(t, type)
  BY <1>1, <1>2, <1>4 DEF LastWord
<1>5. ASSUME m.type = "piece" => NoWord(s) \/ LastWord(s, "unchoke"), Quiet(s) PROVE Quiet(t)
  <2> SUFFICES ASSUME NEW i \in DOMAIN t, NEW k \in DOMAIN t, i < k,
                      t[i].type = "choke", t[k].type = "piece"
               PROVE  \E j \in DOMAIN t : i < j /\ j < k /\ t[j].type = "unchoke"
    BY DEF Quiet
  <2>1. i \in DOMAIN s /\ s[i].type = "choke"
    BY <1>1, <1>2
  <2>2. CASE k \in DOMAIN s
    BY <1>1, <1>2, <1>5, <2>1, <2>2 DEF Quiet
  <2>3. CASE k = n + 1
    <3>1. LastWord(s, "unchoke")
      BY <1>1, <1>5, <2>1, <2>3 DEF NoWord, Words
    <3>2. PICK j \in DOMAIN s : /\ s[j].type = "unchoke"
                               /\ \A l \in DOMAIN s : l > j => s[l].type \notin Words
      BY <3>1 DEF LastWord
    <3>3. i < j
      BY <1>1, <2>1, <3>2 DEF Words
    <3> QED
      BY <1>1, <1>2, <2>3, <3>2, <3>3
  <2> QED
    BY <1>2, <2>2, <2>3
<1>6. ASSUME m.type = "piece" => LastWord(s, "unchoke"), Closed(s) PROVE Closed(t)
  <2> SUFFICES ASSUME NEW k \in DOMAIN t, t[k].type = "piece"
               PROVE  \E j \in DOMAIN t : j < k /\ t[j].type = "unchoke"
    BY DEF Closed
  <2>1. CASE k \in DOMAIN s
    BY <1>1, <1>2, <1>6, <2>1 DEF Closed
  <2>2. CASE k = n + 1
    BY <1>1, <1>2, <1>6, <2>2 DEF LastWord
  <2> QED
    BY <1>2, <2>1, <2>2
<1> QED
  BY <1>3, <1>4, <1>5, <1>6 DEF t

\* A message read is the last word only if no word comes after it.
LEMMA HeadTaken ==
    ASSUME NEW S, NEW s \in Seq(S), s # <<>>
    PROVE  /\ NoWord(s) => NoWord(Tail(s)) /\ Head(s).type \notin Words
           /\ \A type \in Words :
                 LastWord(s, type) =>
                     LastWord(Tail(s), type) \/ (NoWord(Tail(s)) /\ Head(s).type = type)
           /\ Quiet(s) => Quiet(Tail(s))
           /\ Quiet(s) /\ Head(s).type = "choke" => Closed(Tail(s))
           /\ Closed(s) /\ Head(s).type # "unchoke" => Closed(Tail(s))
           /\ Closed(s) => Head(s).type # "piece"
<1> DEFINE t == Tail(s)
           n == Len(s)
           h == Head(s)
<1>1. /\ DOMAIN s = 1 .. n /\ n \in Nat \ {0} /\ DOMAIN t = 1 .. n - 1
      /\ h = s[1] /\ \A k \in DOMAIN t : t[k] = s[k + 1]
  BY TailElements
<1> HIDE DEF t, n, h
<1>2. /\ 1 \in DOMAIN s /\ DOMAIN s \subseteq Nat /\ DOMAIN t \subseteq Nat
      /\ \A k \in DOMAIN t : k + 1 \in DOMAIN s /\ s[k + 1] = t[k] /\ 1 < k + 1
      /\ \A k \in DOMAIN s : k # 1 => k - 1 \in DOMAIN t /\ t[k - 1] = s[k] /\ 1 < k
  BY <1>1
<1>3. NoWord(s) => NoWord(t) /\ h.type \notin Words
  BY <1>1, <1>2 DEF NoWord
<1>4. ASSUME NEW type \in Words, LastWord(s, type)
      PROVE  LastWord(t, type) \/ (NoWord(t) /\ h.type = type)
  <2>1. PICK k \in DOMAIN s : /\ s[k].type = type
                             /\ \A j \in DOMAIN s : j > k => s[j].type \notin Words
    BY <1>4 DEF LastWord
  <2>2. CASE k = 1
    <3>1. \A j \in DOMAIN t : t[j].type \notin Words
      BY <1>2, <2>1, <2>2
    <3> QED
      BY <1>1, <2>1, <2>2, <3>1 DEF NoWord
  <2>3. CASE k # 1
    <3>1. k - 1 \in DOMAIN t /\ t[k - 1].type = type
      BY <1>2, <2>1, <2>3
    <3>2. \A j \in DOMAIN t : j > k - 1 => t[j].type \notin Words
      BY <1>2, <2>1
    <3> QED
      BY <3>1, <3>2 DEF LastWord
  <2> QED
    BY <2>2, <2>3
<1>5. ASSUME Quiet(s) PROVE Quiet(t)
  <2> SUFFICES ASSUME NEW i \in DOMAIN t, NEW k \in DOMAIN t, i < k,
                      t[i].type = "choke", t[k].type = "piece"
               PROVE  \E j \in DOMAIN t : i < j /\ j < k /\ t[j].type = "unchoke"
    BY DEF Quiet
  <2>1. PICK j \in DOMAIN s : i + 1 < j /\ j < k + 1 /\ s[j].type = "unchoke"
    BY <1>2, <1>5 DEF Quiet
  <2>2. j - 1 \in DOMAIN t /\ i < j - 1 /\ j - 1 < k /\ t[j - 1].type = "unchoke"
    BY <1>2, <2>1
  <2> QED
    BY <2>2
<1>6. ASSUME (Quiet(s) /\ h.type = "choke") \/ (Closed(s) /\ h.type # "unchoke") PROVE Closed(t)
  <2> SUFFICES ASSUME NEW k \in DOMAIN t, t[k].type = "piece"
               PROVE  \E j \in DOMAIN t : j < k /\ t[j].type = "unchoke"
    BY DEF Closed
  <2>1. PICK j \in DOMAIN s : j # 1 /\ j < k + 1 /\ s[j].type = "unchoke"
    <3>1. CASE Quiet(s) /\ h.type = "choke"
      BY <1>1, <1>2, <3>1 DEF Quiet
    <3>2. CASE Closed(s) /\ h.type # "unchoke"
      BY <1>1, <1>2, <3>2 DEF Closed
    <3> QED
      BY <1>6, <3>1, <3>2
  <2>2. j - 1 \in DOMAIN t /\ t[j - 1].type = "unchoke"
    BY <1>2, <2>1
  <2>3. j \in Nat /\ k \in Nat
    BY <1>2
  <2>4. j - 1 < k
    BY <2>1, <2>3
  <2> QED
    BY <2>2, <2>4
<1>7. Closed(s) => h.type # "piece"
  BY <1>1, <1>2 DEF Closed
<1> QED
  BY <1>3, <1>4, <1>5, <1>6, <1>7 DEF t, h

-----------------------------------------------------------------------------
(* What the task has heard.                                                 *)

\* Whether the peer chokes us is its last word, and where there is none left to read, what
\* the task believes.
Heard ==
    /\ NoWord(toUs) \/ LastWord(toUs, IF choking THEN "choke" ELSE "unchoke")
    /\ Quiet(toUs)
    /\ at = "asking" => ~ choked
    /\ at \in {"Unchoked", "asking", "assembled"} \/ (at = "reading" /\ ~ choked)
           => (NoWord(toUs) => ~ choking)
    /\ at = "reading" /\ choked => Closed(toUs) /\ (NoWord(toUs) => choking)

\* At the start nothing is on its way and the peer is choking.
LEMMA HeardInit == Init => Heard
<1> SUFFICES ASSUME Init PROVE Heard
  OBVIOUS
<1>1. at = "Curious" /\ DOMAIN toUs \subseteq {1} /\ (1 \in DOMAIN toUs => toUs[1].type = "bitfield")
  BY DEF Init, BitfieldOf
<1>2. NoWord(toUs) /\ Quiet(toUs)
  BY <1>1 DEF NoWord, Quiet, Words
<1> QED
  BY <1>1, <1>2 DEF Heard

\* The word that is read last is what the peer does.
LEMMA Taken ==
    ASSUME DInv, Heard, NEW type, Receive(type)
    PROVE  /\ NoWord(toUs') \/ LastWord(toUs', IF choking THEN "choke" ELSE "unchoke")
           /\ Quiet(toUs')
           /\ type \notin Words => (NoWord(toUs') <=> NoWord(toUs))
           /\ NoWord(toUs') /\ type = "choke" => choking
           /\ NoWord(toUs') /\ type = "unchoke" => ~ choking
           /\ type = "choke" => Closed(toUs')
           /\ Closed(toUs) /\ type # "unchoke" => Closed(toUs') /\ type # "piece"
<1> DEFINE word == IF choking THEN "choke" ELSE "unchoke"
<1>1. toUs \in Seq(Truthful) /\ toUs # <<>> /\ Head(toUs).type = type /\ toUs' = Tail(toUs)
  BY DEF DInv, Types, Receive
<1>2. NoWord(toUs) \/ LastWord(toUs, word)
  BY DEF Heard
<1>3. word \in Words /\ (word = "choke" <=> choking) /\ (word = "unchoke" <=> ~ choking)
  BY DEF Words
<1>4. LastWord(toUs, word) => LastWord(toUs', word) \/ (NoWord(toUs') /\ type = word)
  BY <1>1, <1>3, HeadTaken
<1>5. LastWord(toUs', word) => ~ NoWord(toUs')
  BY <1>3 DEF LastWord, NoWord
<1>6. LastWord(toUs, word) => ~ NoWord(toUs)
  BY <1>3 DEF LastWord, NoWord
<1>7. NoWord(toUs) => NoWord(toUs') /\ type \notin Words
  BY <1>1, HeadTaken
<1>8. Quiet(toUs') /\ (type = "choke" => Closed(toUs'))
      /\ (Closed(toUs) /\ type # "unchoke" => Closed(toUs') /\ type # "piece")
  BY <1>1, HeadTaken DEF Heard
<1>9. type = "choke" \/ type = "unchoke" => type \in Words
  BY DEF Words
<1> HIDE DEF word
<1>10. NoWord(toUs') /\ type \in Words => type = word
  BY <1>2, <1>4, <1>5, <1>7
<1>11. NoWord(toUs') \/ LastWord(toUs', word)
  BY <1>2, <1>4, <1>7
<1>12. type \notin Words => (NoWord(toUs') <=> NoWord(toUs))
  BY <1>2, <1>3, <1>4, <1>5, <1>6, <1>7
<1> QED
  BY <1>3, <1>8, <1>9, <1>10, <1>11, <1>12 DEF word

\* A step of the task keeps what is known of the peer's choking ...
LEMMA HeardByTask == DInv /\ Heard /\ TaskStep => Heard'
<1> SUFFICES ASSUME DInv, Heard, TaskStep PROVE Heard'
  OBVIOUS
<1> USE DEF peer
<1>1. CASE FindSeed \/ FindIncomplete \/ IgnoreWhileCurious \/ IgnoreWhileInterested
  <2>1. PICK type : Receive(type)
    BY <1>1 DEF FindSeed, FindIncomplete, IgnoreWhileCurious, IgnoreWhileInterested
  <2>2. at' \in {"Curious", "Interested", "NotInterested"} /\ choking' = choking
    BY <1>1 DEF FindSeed, FindIncomplete, IgnoreWhileCurious, IgnoreWhileInterested
  <2> QED
    BY <2>1, <2>2, Taken DEF Heard
<1>2. CASE GetUnchoked
  BY <1>2, Taken DEF GetUnchoked, Heard
<1>3. CASE SessionFails \/ LeaveExhausted \/ Mismatch \/ TransferFails
  <2>1. at' \in {"errored", "NotInterested"} /\ toUs' = toUs /\ choking' = choking
    BY <1>3 DEF SessionFails, LeaveExhausted, Mismatch, TransferFails
  <2> QED
    BY <2>1 DEF Heard
<1>4. CASE SelectPiece
  <2>1. at = "Unchoked" /\ at' = "asking" /\ choked' = FALSE /\ toUs' = toUs /\ choking' = choking
    BY <1>4 DEF SelectPiece
  <2> QED
    BY <2>1 DEF Heard
<1>5. CASE SendRequest
  <2>1. at = "asking" /\ at' = "reading" /\ choked' = choked /\ toUs' = toUs /\ choking' = choking
    BY <1>5 DEF SendRequest
  <2> QED
    BY <2>1 DEF Heard
<1>6. CASE SavePiece
  <2>1. at = "assembled" /\ at' = "Unchoked" /\ toUs' = toUs /\ choking' = choking
    BY <1>6 DEF SavePiece
  <2> QED
    BY <2>1 DEF Heard
<1>7. CASE ReadPiece
  <2>1. /\ at = "reading" /\ Receive("piece") /\ choked' = choked /\ choking' = choking
        /\ at' \in {"assembled", "reading", "asking"}
    BY <1>7 DEF ReadPiece, Resume
  <2>2. ~ choked
    BY <2>1, Taken DEF Heard
  <2>3. NoWord(toUs') <=> NoWord(toUs)
    BY <2>1, Taken DEF Words
  <2> QED
    BY <2>1, <2>2, <2>3, Taken DEF Heard
<1>8. CASE ReadChoke
  <2>1. /\ at = "reading" /\ Receive("choke") /\ choked' = TRUE /\ choking' = choking
        /\ at' \in {"reading", "asking"} /\ Resume(progress.offset, TRUE)
    BY <1>8, Resumed DEF ReadChoke
  <2>2. at' = "reading"
    BY <2>1 DEF Resume
  <2> QED
    BY <2>1, <2>2, Taken DEF Heard
<1>9. CASE ReadUnchoke
  <2>1. /\ Receive("unchoke") /\ choked' = FALSE /\ choking' = choking
        /\ at' \in {"reading", "asking"}
    BY <1>9, Resumed DEF ReadUnchoke
  <2> QED
    BY <2>1, Taken DEF Heard
<1>10. CASE ReadOther
  <2>1. /\ at = "reading" /\ Receive("other") /\ choked' = choked /\ choking' = choking
        /\ at' \in {"reading", "asking"} /\ Resume(progress.offset, choked)
    BY <1>10, Resumed DEF ReadOther, transfer, DInv, Types
  <2>2. choked => at' = "reading"
    BY <2>1 DEF Resume
  <2>3. NoWord(toUs') <=> NoWord(toUs)
    BY <2>1, Taken DEF Words
  <2> QED
    BY <2>1, <2>2, <2>3, Taken DEF Heard
<1> QED
  BY <1>1, <1>2, <1>3, <1>4, <1>5, <1>6, <1>7, <1>8, <1>9, <1>10 DEF TaskStep

\* ... and so does a step of the peer.
LEMMA HeardFromPeer == DInv /\ Heard /\ PeerStep => Heard'
<1> SUFFICES ASSUME DInv, Heard, PeerStep PROVE Heard'
  OBVIOUS
<1> USE DEF peer, transfer
<1>1. toUs \in Seq(Truthful)
  BY DEF DInv, Types
<1>2. CASE PeerReadsInterested \/ PeerDropsRequest \/ PeerCloses
  <2>1. UNCHANGED <<at, choked, toUs, choking>>
    BY <1>2 DEF PeerReadsInterested, PeerDropsRequest, PeerCloses
  <2> QED
    BY <2>1 DEF Heard
<1>3. CASE PeerAnswers
  <2>1. /\ ~ choking /\ UNCHANGED <<at, choked, choking>>
        /\ \E m : m.type = "piece" /\ toUs' = Append(toUs, m)
    BY <1>3 DEF PeerAnswers, CanAnswer, Say, Block
  <2>2. PICK m : m.type = "piece" /\ toUs' = Append(toUs, m)
    BY <2>1
  <2>3. m.type \notin Words /\ "unchoke" \in Words
    BY <2>2 DEF Words
  <2>4. NoWord(toUs) \/ LastWord(toUs, "unchoke")
    BY <2>1 DEF Heard
  <2>5. /\ NoWord(toUs) <=> NoWord(toUs')
        /\ LastWord(toUs, "unchoke") => LastWord(toUs', "unchoke")
        /\ Quiet(toUs')
        /\ LastWord(toUs, "unchoke") => (Closed(toUs) => Closed(toUs'))
    BY <1>1, <2>2, <2>3, <2>4, OtherAppended DEF Heard
  <2> QED
    BY <2>1, <2>4, <2>5 DEF Heard
<1>4. CASE PeerChokes \/ PeerUnchokes
  <2>1. /\ UNCHANGED <<at, choked>> /\ choking' \in BOOLEAN
        /\ toUs' = Append(toUs, Simple(IF choking' THEN "choke" ELSE "unchoke"))
    BY <1>4 DEF PeerChokes, PeerUnchokes, Say
  <2>2. Simple(IF choking' THEN "choke" ELSE "unchoke").type = IF choking' THEN "choke" ELSE "unchoke"
    BY DEF Simple
  <2>3. (IF choking' THEN "choke" ELSE "unchoke") \in Words
    BY DEF Words
  <2>4. /\ ~ NoWord(toUs') /\ LastWord(toUs', IF choking' THEN "choke" ELSE "unchoke")
        /\ Quiet(toUs') /\ (Closed(toUs) => Closed(toUs'))
    BY <1>1, <2>1, <2>2, <2>3, WordAppended DEF Heard
  <2> QED
    BY <2>1, <2>4 DEF Heard
<1>5. CASE PeerChatters
  <2>1. /\ UNCHANGED <<at, choked, choking>> /\ toUs' = Append(toUs, Simple("other"))
        /\ Simple("other").type \notin Words /\ Simple("other").type # "piece"
    BY <1>5 DEF PeerChatters, Say, Simple, Words
  <2>2. /\ NoWord(toUs) <=> NoWord(toUs')
        /\ \A type \in Words : LastWord(toUs, type) => LastWord(toUs', type)
        /\ Quiet(toUs') /\ (Closed(toUs) => Closed(toUs'))
    BY <1>1, <2>1, OtherAppended DEF Heard
  <2>3. (IF choking THEN "choke" ELSE "unchoke") \in Words
    BY DEF Words
  <2> QED
    BY <2>1, <2>2, <2>3 DEF Heard
<1> QED
  BY <1>2, <1>3, <1>4, <1>5 DEF PeerStep

\* The local `choked` is forgotten between pieces (downloader.rs:247), and a task that is
\* about to ask is unchoked all the same, or will read a Choke.
THEOREM AsksUnchoked == Spec => []AsksWhenUnchoked
<1>1. DInv /\ Heard /\ [Next]_vars => Heard'
  <2>1. ASSUME Heard, UNCHANGED vars PROVE Heard'
    BY <2>1 DEF Heard, vars, transfer, peer
  <2> QED
    BY <2>1, HeardByTask, HeardFromPeer DEF Next
<1>2. Heard => AsksWhenUnchoked
  <2> SUFFICES ASSUME Heard, at = "asking", choking PROVE \E m \in ToSet(toUs) : m.type = "choke"
    BY DEF AsksWhenUnchoked
  <2>1. LastWord(toUs, "choke")
    BY DEF Heard
  <2> QED
    BY <2>1 DEF LastWord, ToSet
<1> QED
  BY <1>1, <1>2, HeardInit, Invariance, PTL DEF Spec

-----------------------------------------------------------------------------
(* Repeats.  What can still make the task ask again is counted.             *)

\* Where the messages of some types stand in a queue, and how many they are.
Places(s, types) == {k \in DOMAIN s : s[k].type \in types}
Count(s, types) == Cardinality(Places(s, types))

One(condition) == IF condition THEN 1 ELSE 0

\* A count is a natural number.
LEMMA Counted ==
    ASSUME NEW S, NEW s \in Seq(S), NEW types
    PROVE  IsFiniteSet(Places(s, types)) /\ Count(s, types) \in Nat
<1>1. IsFiniteSet(1 .. Len(s))
  BY FS_Interval
<1>2. Places(s, types) \in SUBSET (1 .. Len(s))
  BY DEF Places
<1> QED
  BY <1>1, <1>2, FS_Subset, FS_CardinalityType DEF Count

\* In an empty queue nothing is counted.
LEMMA CountEmpty ==
    ASSUME NEW types
    PROVE  Count(<<>>, types) = 0
<1>1. Places(<<>>, types) = {}
  BY DEF Places
<1> QED
  BY <1>1, FS_EmptySet DEF Count

\* A message more counts if it is of a counted type ...
LEMMA CountAppended ==
    ASSUME NEW S, NEW s \in Seq(S), NEW m, NEW types
    PROVE  Count(Append(s, m), types) = Count(s, types) + One(m.type \in types)
<1> DEFINE n == Len(s) + 1
<1>1. /\ DOMAIN s = 1 .. Len(s) /\ DOMAIN Append(s, m) = 1 .. n /\ Append(s, m)[n] = m
      /\ \A k \in DOMAIN s : Append(s, m)[k] = s[k]
      /\ n \notin DOMAIN s /\ 1 .. n = (1 .. Len(s)) \cup {n}
  BY AppendElements
<1> HIDE DEF n
<1>2. IsFiniteSet(Places(s, types)) /\ Count(s, types) \in Nat
  BY Counted
<1>3. n \notin Places(s, types)
  BY <1>1 DEF Places
<1>4. CASE m.type \in types
  <2>1. Places(Append(s, m), types) = Places(s, types) \cup {n}
    BY <1>1, <1>4 DEF Places
  <2> QED
    BY <1>2, <1>3, <1>4, <2>1, FS_AddElement DEF Count, One
<1>5. CASE m.type \notin types
  <2>1. Places(Append(s, m), types) = Places(s, types)
    BY <1>1, <1>5 DEF Places
  <2> QED
    BY <1>2, <1>5, <2>1 DEF Count, One
<1> QED
  BY <1>4, <1>5

\* ... and so does the one taken.
LEMMA CountTaken ==
    ASSUME NEW S, NEW s \in Seq(S), s # <<>>, NEW types
    PROVE  Count(s, types) = Count(Tail(s), types) + One(Head(s).type \in types)
<1> DEFINE t == Tail(s)
           P == Places(s, types)
           Q == Places(t, types)
           f == [k \in Q |-> k + 1]
<1>1. /\ DOMAIN s = 1 .. Len(s) /\ Len(s) \in Nat \ {0} /\ DOMAIN t = 1 .. Len(s) - 1
      /\ Head(s) = s[1] /\ \A k \in DOMAIN t : t[k] = s[k + 1]
  BY TailElements
<1>2. IsFiniteSet(P) /\ Count(s, types) \in Nat
  BY Counted
<1>3. t \in Seq(S)
  BY HeadAndTail
<1>4. IsFiniteSet(Q) /\ Count(t, types) \in Nat
  BY <1>3, Counted
<1> HIDE DEF t
<1>5. /\ Q \subseteq Nat /\ P \subseteq Nat
      /\ \A k \in Q : k + 1 \in P \ {1}
      /\ \A k \in P \ {1} : k - 1 \in Q /\ (k - 1) + 1 = k
      /\ 1 \in P <=> Head(s).type \in types
  BY <1>1 DEF Places
<1> HIDE DEF P, Q
<1>6. f \in Bijection(Q, P \ {1})
  <2>1. f \in [Q -> P \ {1}]
    BY <1>5
  <2>2. \A j, k \in Q : f[j] = f[k] => j = k
    BY <1>5
  <2>3. \A k \in P \ {1} : \E j \in Q : f[j] = k
    BY <1>5
  <2> HIDE DEF f
  <2> QED
    BY <2>1, <2>2, <2>3 DEF Bijection, Injection, Surjection, IsInjective
<1>7. Cardinality(P \ {1}) = Cardinality(Q)
  BY <1>4, <1>6, FS_Bijection DEF ExistsBijection
<1>8. Cardinality(P \ {1}) = IF 1 \in P THEN Cardinality(P) - 1 ELSE Cardinality(P)
  BY <1>2, FS_RemoveElement
<1> QED
  BY <1>2, <1>4, <1>5, <1>7, <1>8 DEF Count, P, Q, One, t

\* The two comparisons the argument needs, and what they say of counts.
AtMost(x, y) == x <= y
OneOver(x, y) == x = y + 1

\* Counts before and after a message is sent ...
LEMMA OneAppended ==
    ASSUME NEW S, NEW s \in Seq(S), NEW m, NEW types
    PROVE  /\ Count(Append(s, m), types) \in Nat
           /\ m.type \in types => OneOver(Count(Append(s, m), types), Count(s, types))
           /\ m.type \notin types => Count(Append(s, m), types) = Count(s, types)
BY CountAppended, Counted DEF One, OneOver

\* ... and after one is read.
LEMMA OneTaken ==
    ASSUME NEW S, NEW s \in Seq(S), s # <<>>, NEW types
    PROVE  /\ Count(Tail(s), types) \in Nat
           /\ AtMost(Count(Tail(s), types), Count(s, types))
           /\ Head(s).type \in types => OneOver(Count(s, types), Count(Tail(s), types))
<1>1. Tail(s) \in Seq(S)
  BY HeadAndTail
<1>2. Count(s, types) \in Nat /\ Count(Tail(s), types) \in Nat
  BY <1>1, Counted
<1> QED
  BY <1>2, CountTaken DEF One, OneOver, AtMost

\* A condition counts as one while it holds.
LEMMA Ones ==
    ASSUME NEW condition
    PROVE  /\ One(condition) \in Nat /\ AtMost(One(condition), 1)
           /\ condition => One(condition) = 1
           /\ ~ condition => One(condition) = 0 /\ AtMost(One(condition), 0)
BY DEF One, AtMost

\* Nothing more is at most as much.
LEMMA Same ==
    ASSUME NEW n \in Nat
    PROVE  AtMost(n, n)
BY DEF AtMost

\* Messages that make a task ask again: the answer it waits for, and whatever it does not
\* look at.
Prompts == {"piece", "unchoke", "other"}

\* Where the task has yet to ask.
ToAsk == {"Unchoked", "asking", "assembled"}

\* How often the peer has chattered or choked us, and the first request.
Causes(left) == 1 + (MaxChatter - left.chatter) + (MaxChokes - left.chokes)

\* A request the peer has not read, a prompt on its way, an Unchoke to come and a task that
\* is about to ask each stand for one more request; only unrelated messages and Chokes add
\* to them.
Balanced(requests, prompts, unchoke, asking, causes) ==
    requests + prompts + unchoke + asking <= causes

Caused ==
    Balanced(Count(toPeer, {"request"}), Count(toUs, Prompts), One(choking), One(at \in ToAsk),
             Causes(budget))

\* What a step may exchange for what.
LEMMA Fewer ==
    ASSUME NEW r \in Nat, NEW p \in Nat, NEW u \in Nat, NEW a \in Nat, NEW c \in Nat,
           NEW r2 \in Nat, NEW p2 \in Nat, NEW a2 \in Nat,
           Balanced(r, p, u, a, c), AtMost(r2, r), AtMost(p2, p), AtMost(a2, a)
    PROVE  Balanced(r2, p2, u, a2, c)
BY DEF Balanced, AtMost

\* The task that was about to ask has asked.
LEMMA RequestForAsking ==
    ASSUME NEW r \in Nat, NEW p \in Nat, NEW u \in Nat, NEW c \in Nat, NEW r2 \in Nat,
           Balanced(r, p, u, 1, c), OneOver(r2, r)
    PROVE  Balanced(r2, p, u, 0, c)
BY DEF Balanced, OneOver

\* A request is answered.
LEMMA AnswerForRequest ==
    ASSUME NEW r \in Nat, NEW p \in Nat, NEW u \in Nat, NEW a \in Nat, NEW c \in Nat,
           NEW r2 \in Nat, NEW p2 \in Nat,
           Balanced(r, p, u, a, c), OneOver(r, r2), OneOver(p2, p)
    PROVE  Balanced(r2, p2, u, a, c)
BY DEF Balanced, OneOver

\* A prompt is read, and the task may ask once more.
LEMMA AskingForPrompt ==
    ASSUME NEW r \in Nat, NEW p \in Nat, NEW u \in Nat, NEW a \in Nat, NEW c \in Nat,
           NEW p2 \in Nat, NEW a2 \in Nat,
           Balanced(r, p, u, a, c), OneOver(p, p2), AtMost(a2, 1)
    PROVE  Balanced(r, p2, u, a2, c)
BY DEF Balanced, AtMost, OneOver

\* The Unchoke that was to come is sent.
LEMMA PromptForUnchoke ==
    ASSUME NEW r \in Nat, NEW p \in Nat, NEW a \in Nat, NEW c \in Nat, NEW p2 \in Nat,
           Balanced(r, p, 1, a, c), OneOver(p2, p)
    PROVE  Balanced(r, p2, 0, a, c)
BY DEF Balanced, OneOver

\* An unrelated message spends one of the budget.
LEMMA PromptForCause ==
    ASSUME NEW r \in Nat, NEW p \in Nat, NEW u \in Nat, NEW a \in Nat, NEW c \in Nat,
           NEW p2 \in Nat, NEW c2 \in Nat,
           Balanced(r, p, u, a, c), OneOver(p2, p), OneOver(c2, c)
    PROVE  Balanced(r, p2, u, a, c2)
BY DEF Balanced, OneOver

\* A Choke spends one of the budget, and an Unchoke is to come.
LEMMA UnchokeForCause ==
    ASSUME NEW r \in Nat, NEW p \in Nat, NEW u \in Nat, NEW a \in Nat, NEW c \in Nat,
           NEW u2 \in Nat, NEW c2 \in Nat,
           Balanced(r, p, u, a, c), AtMost(u2, 1), OneOver(c2, c)
    PROVE  Balanced(r, p, u2, a, c2)
BY DEF Balanced, AtMost, OneOver

\* The causes are counted by a natural number ...
LEMMA CausesTyped ==
    ASSUME NEW left \in [chokes : 0 .. MaxChokes, chatter : 0 .. MaxChatter]
    PROVE  Causes(left) \in Nat
BY Constants DEF Causes

\* ... that grows with each message or Choke of the budget.
LEMMA CausesGrow ==
    ASSUME NEW left \in [chokes : 0 .. MaxChokes, chatter : 0 .. MaxChatter]
    PROVE  /\ left.chokes > 0 =>
                /\ Causes([left EXCEPT !.chokes = @ - 1]) \in Nat
                /\ OneOver(Causes([left EXCEPT !.chokes = @ - 1]), Causes(left))
           /\ left.chatter > 0 =>
                /\ Causes([left EXCEPT !.chatter = @ - 1]) \in Nat
                /\ OneOver(Causes([left EXCEPT !.chatter = @ - 1]), Causes(left))
BY Constants DEF Causes, OneOver

\* The first request has its cause.
LEMMA CausedInit == Init => Caused
<1> SUFFICES ASSUME Init PROVE Caused
  OBVIOUS
<1>1. Count(toPeer, {"request"}) = 0
  BY CountEmpty DEF Init
<1>2. Count(toUs, Prompts) = 0
  <2>1. \A k \in DOMAIN toUs : toUs[k].type = "bitfield"
    BY DEF Init, BitfieldOf
  <2>2. Places(toUs, Prompts) = {}
    BY <2>1 DEF Places, Prompts
  <2> QED
    BY <2>2, FS_EmptySet DEF Count
<1>3. /\ choking = TRUE /\ at = "Curious"
      /\ budget.chatter = MaxChatter /\ budget.chokes = MaxChokes
  BY DEF Init
<1> QED
  BY <1>1, <1>2, <1>3, Constants DEF Caused, Balanced, One, ToAsk, Causes

\* The numbers of the invariant.
LEMMA Numbers ==
    ASSUME DInv
    PROVE  /\ toPeer \in Seq(Asked) /\ toUs \in Seq(Truthful)
           /\ Count(toPeer, {"request"}) \in Nat /\ Count(toUs, Prompts) \in Nat
           /\ budget \in [chokes : 0 .. MaxChokes, chatter : 0 .. MaxChatter]
           /\ Causes(budget) \in Nat
BY Counted, CausesTyped DEF DInv, Types

\* A step of the task exchanges one thing for another ...
LEMMA CausedByTask ==
    ASSUME DInv, Caused, TaskStep
    PROVE  Caused'
<1> DEFINE r == Count(toPeer, {"request"})
           p == Count(toUs, Prompts)
           u == One(choking)
           a == One(at \in ToAsk)
           c == Causes(budget)
<1>1. /\ r \in Nat /\ p \in Nat /\ u \in Nat /\ a \in Nat /\ a' \in Nat /\ c \in Nat
      /\ Balanced(r, p, u, a, c)
  BY Numbers, Ones DEF Caused
<1>2. u' = u /\ c' = c
  <2>1. UNCHANGED <<choking, budget>>
    BY DEF TaskStep, FindSeed, FindIncomplete, IgnoreWhileCurious, GetUnchoked,
           IgnoreWhileInterested, SessionFails, SelectPiece, LeaveExhausted, SendRequest,
           ReadPiece, ReadChoke, ReadUnchoke, ReadOther, SavePiece, Mismatch, TransferFails, peer
  <2> QED
    BY <2>1
<1>3. /\ AtMost(a, 1) /\ AtMost(a', 1)
      /\ at \in ToAsk => a = 1
      /\ at' \notin ToAsk => a' = 0 /\ AtMost(a', a)
  <2>1. AtMost(0, a)
    BY <1>1 DEF AtMost
  <2> QED
    BY <2>1, Ones, Zenon
<1>4. toPeer' = toPeer => r' = r
  OBVIOUS
<1>5. toUs' = toUs => p' = p
  OBVIOUS
<1>6. ASSUME NEW type, Receive(type)
      PROVE  p' \in Nat /\ AtMost(p', p) /\ (type \in Prompts => OneOver(p, p'))
  <2>1. toUs # <<>> /\ Head(toUs).type = type /\ toUs' = Tail(toUs)
    BY <1>6 DEF Receive
  <2> QED
    BY <2>1, Numbers, OneTaken, Zenon
<1>7. Balanced(r', p', u', a', c') => Caused'
  BY DEF Caused
<1>8. AtMost(r, r) /\ AtMost(p, p)
  BY <1>1, Same
<1> HIDE DEF r, p, u, a, c
<1>9. CASE FindSeed \/ FindIncomplete \/ IgnoreWhileCurious \/ IgnoreWhileInterested
  <2>1. PICK type : Receive(type)
    BY <1>9 DEF FindSeed, FindIncomplete, IgnoreWhileCurious, IgnoreWhileInterested
  <2>2. p' \in Nat /\ AtMost(p', p)
    BY <1>6, <2>1
  <2>3. r' = r
    <3>1. CASE FindSeed
      <4>1. toPeer' = Append(toPeer, Simple("interested")) /\ Simple("interested").type \notin {"request"}
        BY <3>1 DEF FindSeed, Simple
      <4> QED
        BY <4>1, Numbers, OneAppended, Zenon DEF r
    <3> QED
      BY <1>4, <1>9, <3>1 DEF FindIncomplete, IgnoreWhileCurious, IgnoreWhileInterested
  <2>4. at' \notin ToAsk
    BY <1>9 DEF FindSeed, FindIncomplete, IgnoreWhileCurious, IgnoreWhileInterested, ToAsk
  <2>5. Balanced(r, p', u, a', c)
    BY <1>1, <1>3, <1>8, <2>2, <2>4, Fewer, Zenon
  <2> QED
    BY <1>2, <1>7, <2>3, <2>5
<1>10. CASE SessionFails \/ LeaveExhausted \/ Mismatch \/ TransferFails
  <2>1. at' \notin ToAsk /\ r' = r /\ p' = p
    BY <1>4, <1>5, <1>10 DEF SessionFails, LeaveExhausted, Mismatch, TransferFails, ToAsk
  <2>2. Balanced(r, p, u, a', c)
    BY <1>1, <1>3, <1>8, <2>1, Fewer, Zenon
  <2> QED
    BY <1>2, <1>7, <2>1, <2>2
<1>11. CASE SelectPiece \/ SavePiece
  <2>1. at \in ToAsk /\ r' = r /\ p' = p
    BY <1>4, <1>5, <1>11 DEF SelectPiece, SavePiece, ToAsk
  <2>2. AtMost(a', a)
    BY <1>3, <2>1
  <2>3. Balanced(r, p, u, a', c)
    BY <1>1, <1>8, <2>2, Fewer, Zenon
  <2> QED
    BY <1>2, <1>7, <2>1, <2>3
<1>12. CASE SendRequest
  <2>1. /\ at \in ToAsk /\ at' \notin ToAsk /\ p' = p
        /\ toPeer' = Append(toPeer, Request(piece, progress.offset, get_next_block_size))
        /\ Request(piece, progress.offset, get_next_block_size).type \in {"request"}
    BY <1>5, <1>12 DEF SendRequest, Request, ToAsk
  <2>2. r' \in Nat /\ OneOver(r', r)
    BY <2>1, Numbers, OneAppended, Zenon DEF r
  <2>3. Balanced(r, p, u, 1, c)
    BY <1>1, <1>3, <2>1
  <2>4. Balanced(r', p, u, 0, c)
    BY <1>1, <2>2, <2>3, RequestForAsking, Zenon
  <2> QED
    BY <1>2, <1>3, <1>7, <2>1, <2>4
<1>13. CASE GetUnchoked \/ ReadPiece \/ ReadUnchoke \/ ReadOther
  <2>1. r' = r /\ \E type \in Prompts : Receive(type)
    BY <1>4, <1>13 DEF GetUnchoked, ReadPiece, ReadUnchoke, ReadOther, transfer, Prompts
  <2>2. p' \in Nat /\ OneOver(p, p')
    BY <1>6, <2>1
  <2>3. Balanced(r, p', u, a', c)
    BY <1>1, <1>3, <2>2, AskingForPrompt, Zenon
  <2> QED
    BY <1>2, <1>7, <2>1, <2>3
<1>14. CASE ReadChoke
  <2>1. /\ at = "reading" /\ r' = r /\ Receive("choke") /\ Resume(progress.offset, TRUE)
    BY <1>4, <1>14 DEF ReadChoke
  <2>2. p' \in Nat /\ AtMost(p', p)
    BY <1>6, <2>1
  <2>3. at' \notin ToAsk
    BY <2>1 DEF Resume, DInv, Collected, Types, ToAsk
  <2>4. Balanced(r, p', u, a', c)
    BY <1>1, <1>3, <1>8, <2>2, <2>3, Fewer, Zenon
  <2> QED
    BY <1>2, <1>7, <2>1, <2>4
<1> QED
  BY <1>9, <1>10, <1>11, <1>12, <1>13, <1>14 DEF TaskStep

\* ... and a step of the peer does, or spends from the budget.
LEMMA CausedByPeer ==
    ASSUME DInv, Caused, PeerStep
    PROVE  Caused'
<1> USE DEF peer
<1> DEFINE r == Count(toPeer, {"request"})
           p == Count(toUs, Prompts)
           u == One(choking)
           a == One(at \in ToAsk)
           c == Causes(budget)
<1>1. /\ r \in Nat /\ p \in Nat /\ u \in Nat /\ u' \in Nat /\ a \in Nat /\ c \in Nat
      /\ Balanced(r, p, u, a, c)
  BY Numbers, Ones DEF Caused
<1>2. a' = a
  BY DEF PeerStep, PeerReadsInterested, PeerAnswers, PeerDropsRequest, PeerChokes, PeerUnchokes,
         PeerChatters, PeerCloses
<1>3. /\ choking' = choking => u' = u
      /\ choking => u = 1
      /\ AtMost(u', 1)
      /\ ~ choking' => u' = 0
  BY Ones, Zenon
<1>4. toPeer' = toPeer => r' = r
  OBVIOUS
<1>5. toUs' = toUs => p' = p
  OBVIOUS
<1>6. budget' = budget => c' = c
  OBVIOUS
<1>7. ASSUME NEW m, Say(m)
      PROVE  /\ p' \in Nat
             /\ m.type \in Prompts => OneOver(p', p)
             /\ m.type \notin Prompts => p' = p
  <2>1. toUs' = Append(toUs, m)
    BY <1>7 DEF Say
  <2> QED
    BY <2>1, Numbers, OneAppended, Zenon
<1>8. ASSUME NEW type, Take(type)
      PROVE  r' \in Nat /\ AtMost(r', r) /\ (type = "request" => OneOver(r, r'))
  <2>1. toPeer # <<>> /\ Head(toPeer).type = type /\ toPeer' = Tail(toPeer)
    BY <1>8 DEF Take
  <2>2. type = "request" => Head(toPeer).type \in {"request"}
    BY <2>1
  <2> QED
    BY <2>1, <2>2, Numbers, OneTaken, Zenon
<1>9. ASSUME PeerChokes \/ PeerChatters PROVE c' \in Nat /\ OneOver(c', c)
  <2>1. \/ budget.chokes > 0 /\ budget' = [budget EXCEPT !.chokes = @ - 1]
        \/ budget.chatter > 0 /\ budget' = [budget EXCEPT !.chatter = @ - 1]
    BY <1>9 DEF PeerChokes, PeerChatters
  <2> QED
    BY <2>1, Numbers, CausesGrow, Zenon
<1>10. Balanced(r', p', u', a', c') => Caused'
  BY DEF Caused
<1>11. AtMost(r, r) /\ AtMost(p, p) /\ AtMost(a, a)
  BY <1>1, Same
<1> HIDE DEF r, p, u, a, c
<1>12. CASE PeerReadsInterested \/ PeerDropsRequest
  <2>1. UNCHANGED <<toUs, choking, budget>> /\ \E type : Take(type)
    BY <1>12 DEF PeerReadsInterested, PeerDropsRequest
  <2>2. r' \in Nat /\ AtMost(r', r)
    BY <1>8, <2>1
  <2>3. Balanced(r', p, u, a, c)
    BY <1>1, <1>11, <2>2, Fewer, Zenon
  <2> QED
    BY <1>2, <1>3, <1>5, <1>6, <1>10, <2>1, <2>3
<1>13. CASE PeerAnswers
  <2>1. UNCHANGED <<choking, budget>> /\ Take("request")
    BY <1>13 DEF PeerAnswers
  <2>2. \E m : Say(m) /\ m.type \in Prompts
    BY <1>13 DEF PeerAnswers, Block, Prompts
  <2>3. p' \in Nat /\ OneOver(p', p)
    BY <1>7, <2>2
  <2>4. r' \in Nat /\ OneOver(r, r')
    BY <1>8, <2>1
  <2>5. Balanced(r', p', u, a, c)
    BY <1>1, <2>3, <2>4, AnswerForRequest, Zenon
  <2> QED
    BY <1>2, <1>3, <1>6, <1>10, <2>1, <2>5
<1>14. CASE PeerChokes
  <2>1. toPeer' = toPeer /\ Say(Simple("choke")) /\ Simple("choke").type \notin Prompts
    BY <1>14 DEF PeerChokes, Simple, Prompts
  <2>2. r' = r /\ p' = p
    BY <1>4, <1>7, <2>1
  <2>3. c' \in Nat /\ OneOver(c', c)
    BY <1>9, <1>14
  <2>4. Balanced(r, p, u', a, c')
    BY <1>1, <1>3, <2>3, UnchokeForCause, Zenon
  <2> QED
    BY <1>2, <1>10, <2>2, <2>4
<1>15. CASE PeerUnchokes
  <2>1. /\ choking /\ ~ choking' /\ toPeer' = toPeer /\ budget' = budget
        /\ Say(Simple("unchoke")) /\ Simple("unchoke").type \in Prompts
    BY <1>15 DEF PeerUnchokes, Simple, Prompts, DInv, Types
  <2>2. p' \in Nat /\ OneOver(p', p)
    BY <1>7, <2>1
  <2>3. Balanced(r, p, 1, a, c)
    BY <1>1, <1>3, <2>1
  <2>4. Balanced(r, p', 0, a, c)
    BY <1>1, <2>2, <2>3, PromptForUnchoke, Zenon
  <2> QED
    BY <1>2, <1>3, <1>4, <1>6, <1>10, <2>1, <2>4
<1>16. CASE PeerChatters
  <2>1. /\ choking' = choking /\ toPeer' = toPeer
        /\ Say(Simple("other")) /\ Simple("other").type \in Prompts
    BY <1>16 DEF PeerChatters, Simple, Prompts
  <2>2. p' \in Nat /\ OneOver(p', p)
    BY <1>7, <2>1
  <2>3. c' \in Nat /\ OneOver(c', c)
    BY <1>9, <1>16
  <2>4. Balanced(r, p', u, a, c')
    BY <1>1, <2>2, <2>3, PromptForCause, Zenon
  <2> QED
    BY <1>2, <1>3, <1>4, <1>10, <2>1, <2>4
<1>17. CASE PeerCloses
  <2>1. r' = r /\ p' = p /\ u' = u /\ c' = c
    BY <1>3, <1>4, <1>5, <1>6, <1>17 DEF PeerCloses
  <2> QED
    BY <1>1, <1>2, <1>10, <2>1
<1> QED
  BY <1>12, <1>13, <1>14, <1>15, <1>16, <1>17 DEF PeerStep

\* Each time round the loop of download_piece asks again (downloader.rs:254); still, what
\* is in flight is one request for every unrelated message and every Choke, and one more.
THEOREM RepeatsHaveACause == Spec => []RepeatsAreBounded
<1>1. DInv /\ Caused /\ [Next]_vars => Caused'
  <2>1. ASSUME Caused, UNCHANGED vars PROVE Caused'
    BY <2>1 DEF Caused, vars, queue, transfer, peer
  <2> QED
    BY <2>1, CausedByTask, CausedByPeer DEF Next
<1>2. DInv /\ Caused => RepeatsAreBounded
  <2> SUFFICES ASSUME DInv, Caused PROVE RepeatsAreBounded
    OBVIOUS
  <2> DEFINE inFlight == {k \in DOMAIN toUs : toUs[k].type = "piece"}
  <2>1. inFlight \in SUBSET Places(toUs, Prompts) /\ IsFiniteSet(Places(toUs, Prompts))
    <3>1. IsFiniteSet(Places(toUs, Prompts))
      BY Counted DEF DInv, Types
    <3>2. inFlight \subseteq Places(toUs, Prompts)
      BY DEF Places, Prompts
    <3> QED
      BY <3>1, <3>2
  <2>2. Cardinality(inFlight) \in Nat /\ Cardinality(inFlight) <= Count(toUs, Prompts)
    BY <2>1, FS_Subset, FS_CardinalityType DEF Count
  <2>3. {k \in DOMAIN toPeer : toPeer[k].type = "request"} = Places(toPeer, {"request"})
    BY DEF Places
  <2> HIDE DEF inFlight
  <2>4. InFlight = Count(toPeer, {"request"}) + Cardinality(inFlight)
    BY <2>3 DEF InFlight, Count, inFlight
  <2>5. One(at = "asking") <= One(at \in ToAsk)
    BY DEF One, ToAsk
  <2>6. /\ One(at = "asking") \in Nat /\ One(choking) \in Nat
        /\ One(at \in ToAsk) \in Nat
    BY DEF One
  <2>7. (IF at = "asking" THEN 1 ELSE 0) = One(at = "asking")
    BY DEF One
  <2> QED
    BY <2>2, <2>4, <2>5, <2>6, <2>7, Numbers DEF Caused, Balanced, RepeatsAreBounded, Causes
<1> QED
  BY <1>1, <1>2, CausedInit, Invariance, PTL DEF Spec
===============================================================================
