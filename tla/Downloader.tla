------------------------------ MODULE Downloader ------------------------------
(***************************************************************************)
(* One task of src/peer/downloader.rs, message by message, and the peer it *)
(* talks to after the handshake.  A connection is two FIFO queues.  The    *)
(* task has one await at a time: it sends a request, or it takes the next  *)
(* message.  Sharing pieces with other tasks and the steps of saving a     *)
(* piece are the subject of module Swarm; here a save is one step.         *)
(*                                                                         *)
(* The peer is external.  It follows the protocol: its Bitfield comes      *)
(* first, it drops the requests it reads while it chokes us, it answers    *)
(* the others in order.  It may lack pieces, send wrong data, choke us and *)
(* send unrelated messages at any time, and close the connection.          *)
(*                                                                         *)
(* Bounds: the sizes below, and how often the peer chokes and chatters.    *)
(***************************************************************************)
EXTENDS Bitfield, SequencesExt

CONSTANTS
    NumPieces,      \* piece_hashes.len()
    PieceLength,    \* bytes_per_piece, the same for every piece
    LastLengths,    \* how many bytes of the torrent its last piece may have
    BlockSize,      \* BLOCK_SIZE, 16 KiB in the code
    MaxChokes,      \* how often the peer may choke us again
    MaxChatter      \* how many unrelated messages the peer may send

ASSUME DownloaderAssumption ==
    /\ {NumPieces, PieceLength, BlockSize} \subseteq Nat \ {0}
    /\ LastLengths \subseteq 1 .. PieceLength
    /\ {MaxChokes, MaxChatter} \subseteq Nat

Pieces == 0 .. NumPieces - 1

VARIABLES
    at,         \* Downloader.state, and where in try_download_piece the task is
    todo,       \* FileDownloadState.todo
    done,       \* FileDownloadState.done
    piece,      \* the local `piece`
    progress,   \* PieceDownloadProgress: the blocks in `data`, and `offset`
    asked,      \* the local `request_size`
    choked,     \* the local `choked` of download_piece
    toPeer,     \* what we sent and the peer has not read
    toUs,       \* what the peer sent and we have not read
    remote,     \* the peer: the pieces it has, whether its data is right, and
                \* how long the last piece of its torrent is
    choking,    \* TRUE while the peer chokes us
    wanted,     \* TRUE once the peer has read our Interested
    budget,     \* what is left of MaxChokes and MaxChatter
    closed      \* TRUE once the peer has closed the connection

queue == <<todo, done>>
transfer == <<piece, progress, asked, choked>>
peer == <<remote, choking, wanted, budget>>
vars == <<at, queue, transfer, toPeer, toUs, peer, closed>>

Simple(type) == [type |-> type]
BitfieldOf(held) ==
    [type |-> "bitfield",
     bytes |-> [k \in 1 .. Elements(NumPieces) |-> {b \in AllBits : 8 * (k - 1) + b \in held}]]
Request(x, begin, length) ==
    [type |-> "request", index |-> x, begin |-> begin, length |-> length]
Block(x, begin, length, right) ==
    [type |-> "piece", index |-> x, begin |-> begin, length |-> length, right |-> right]

OurMessages ==
    [type : {"interested"}]
        \cup [type : {"request"}, index : Pieces, begin : Nat, length : Nat]

PeerMessages ==
    [type : {"choke", "unchoke", "other"}]
        \cup [type : {"bitfield"}, bytes : Seq(SUBSET AllBits)]
        \cup [type : {"piece"}, index : Pieces, begin : Nat, length : Nat, right : BOOLEAN]

NoProgress == [data |-> <<>>, offset |-> 0]

Min2(a, b) == IF a < b THEN a ELSE b

remaining == PieceLength - progress.offset

get_next_block_size == Min2(remaining, BlockSize)

\* How many bytes of piece x the torrent really has.
SizeOf(x) == IF x = NumPieces - 1 THEN remote.last ELSE PieceLength

Transferring == {"asking", "reading", "assembled"}

\* The type of every variable: `offset` never passes the end of the piece, so
\* `remaining`, an unsigned difference, never wraps.
TypeOK ==
    /\ at \in {"Curious", "Interested", "Unchoked", "NotInterested", "errored"} \cup Transferring
    /\ todo \subseteq Pieces
    /\ done \subseteq Pieces
    /\ piece \in Pieces
    /\ progress \in [data : Seq(PeerMessages), offset : 0 .. PieceLength]
    /\ asked \in 0 .. BlockSize
    /\ choked \in BOOLEAN
    /\ toPeer \in Seq(OurMessages)
    /\ toUs \in Seq(PeerMessages)
    /\ remote \in [held : SUBSET Pieces, honest : BOOLEAN, last : LastLengths]
    /\ {choking, wanted, closed} \subseteq BOOLEAN
    /\ budget \in [chokes : 0 .. MaxChokes, chatter : 0 .. MaxChatter]

\* Both ends have shaken hands and sent their Bitfield, which a peer that has no
\* piece may leave out.
Init ==
    /\ at = "Curious"
    /\ todo = Pieces
    /\ done = {}
    /\ piece = 0
    /\ progress = NoProgress
    /\ asked = 0
    /\ choked = FALSE
    /\ toPeer = <<>>
    /\ remote \in [held : SUBSET Pieces, honest : BOOLEAN, last : LastLengths]
    /\ \/ toUs = <<BitfieldOf(remote.held)>>
       \/ remote.held = {} /\ toUs = <<>>
    /\ choking = TRUE
    /\ wanted = FALSE
    /\ budget = [chokes |-> MaxChokes, chatter |-> MaxChatter]
    /\ closed = FALSE

\* read_message returns the oldest message.
Receive(type) ==
    /\ toUs # <<>>
    /\ Head(toUs).type = type
    /\ toUs' = Tail(toUs)

-----------------------------------------------------------------------------
(* Seeded faults: operators below with one plausible mistake.  None is part *)
(* of the specification; each breaks a property that guards against it.     *)

\* Only the index of the answer is compared.
ExpectedAnyBlock(m) == m.index = piece

\* The offset of the answer is not compared.
ExpectedAnyOffset(m) == m.index = piece /\ m.length = asked

\* The loop asks again however it was told to wait.
ResumeAsking(offset, isChoked) ==
    at' = IF offset = PieceLength THEN "assembled" ELSE "asking"

\* After the Unchoke the loop waits for the answer to what it asked before.
UnchokeWithoutAsking ==
    /\ at = "reading"
    /\ Receive("unchoke")
    /\ choked' = FALSE
    /\ UNCHANGED <<at, queue, piece, progress, asked, toPeer, peer, closed>>

-----------------------------------------------------------------------------

\* The `while` of download_piece: done, or ask again, or only wait.
Resume(offset, isChoked) ==
    at' = IF offset = PieceLength THEN "assembled"
          ELSE IF isChoked THEN "reading"
          ELSE "asking"

-----------------------------------------------------------------------------
(* The arms Curious and Interested of download_pieces.                      *)

FindSeed ==
    /\ at = "Curious"
    /\ Receive("bitfield")
    /\ all(from(Head(toUs).bytes))
    /\ at' = "Interested"
    /\ toPeer' = Append(toPeer, Simple("interested"))
    /\ UNCHANGED <<queue, transfer, peer, closed>>

FindIncomplete ==
    /\ at = "Curious"
    /\ Receive("bitfield")
    /\ ~ all(from(Head(toUs).bytes))
    /\ at' = "NotInterested"
    /\ UNCHANGED <<queue, transfer, toPeer, peer, closed>>

\* Until the Bitfield comes every other message is read and dropped, an Unchoke
\* too.
IgnoreWhileCurious ==
    /\ at = "Curious"
    /\ \E type \in {"choke", "unchoke", "other"} : Receive(type)
    /\ UNCHANGED <<at, queue, transfer, toPeer, peer, closed>>

GetUnchoked ==
    /\ at = "Interested"
    /\ Receive("unchoke")
    /\ at' = "Unchoked"
    /\ UNCHANGED <<queue, transfer, toPeer, peer, closed>>

\* Any other message is read and dropped.
IgnoreWhileInterested ==
    /\ at = "Interested"
    /\ \E type \in {"choke", "other"} : Receive(type)
    /\ UNCHANGED <<at, queue, transfer, toPeer, peer, closed>>

\* read_exact finds the end of the stream.
SessionFails ==
    /\ at \in {"Curious", "Interested"}
    /\ closed
    /\ toUs = <<>>
    /\ at' = "errored"
    /\ UNCHANGED <<queue, transfer, toPeer, toUs, peer, closed>>

-----------------------------------------------------------------------------
(* The arm Unchoked: try_download_piece and download_piece.                 *)

SelectPiece ==
    /\ at = "Unchoked"
    /\ \E x \in todo :
          /\ piece' = x
          /\ todo' = todo \ {x}
    /\ progress' = NoProgress
    /\ choked' = FALSE
    /\ asked' = 0
    /\ at' = "asking"
    /\ UNCHANGED <<done, toPeer, toUs, peer, closed>>

LeaveExhausted ==
    /\ at = "Unchoked"
    /\ todo = {}
    /\ at' = "NotInterested"
    /\ UNCHANGED <<queue, transfer, toPeer, toUs, peer, closed>>

\* Every time round the loop, unless choked: also when the last message read was
\* not the answer.
SendRequest ==
    /\ at = "asking"
    /\ asked' = get_next_block_size
    /\ toPeer' = Append(toPeer, Request(piece, progress.offset, get_next_block_size))
    /\ at' = "reading"
    /\ UNCHANGED <<queue, piece, progress, choked, toUs, peer, closed>>

Expected(m) == m.index = piece /\ m.begin = progress.offset /\ m.length = asked

add_block(m) ==
    [data |-> Append(progress.data, m), offset |-> progress.offset + m.length]

\* The block asked for is appended; any other block is dropped.
ReadPiece ==
    /\ at = "reading"
    /\ Receive("piece")
    /\ progress' = IF Expected(Head(toUs)) THEN add_block(Head(toUs)) ELSE progress
    /\ Resume(progress'.offset, choked)
    /\ UNCHANGED <<queue, piece, asked, choked, toPeer, peer, closed>>

ReadChoke ==
    /\ at = "reading"
    /\ Receive("choke")
    /\ choked' = TRUE
    /\ Resume(progress.offset, TRUE)
    /\ UNCHANGED <<queue, piece, progress, asked, toPeer, peer, closed>>

ReadUnchoke ==
    /\ at = "reading"
    /\ Receive("unchoke")
    /\ choked' = FALSE
    /\ Resume(progress.offset, FALSE)
    /\ UNCHANGED <<queue, piece, progress, asked, toPeer, peer, closed>>

ReadOther ==
    /\ at = "reading"
    /\ Receive("other")
    /\ Resume(progress.offset, choked)
    /\ UNCHANGED <<queue, transfer, toPeer, peer, closed>>

\* The SHA-1 of `data` is the one of the metainfo exactly when `data` is what the
\* torrent has there: the right bytes, in order, and all of them.
Genuine(x, data) ==
    /\ SizeOf(x) = PieceLength
    /\ \A k \in DOMAIN data :
          /\ data[k].index = x
          /\ data[k].begin = (k - 1) * BlockSize
          /\ data[k].right

SavePiece ==
    /\ at = "assembled"
    /\ Genuine(piece, progress.data)
    /\ done' = done \cup {piece}
    /\ at' = "Unchoked"
    /\ UNCHANGED <<todo, transfer, toPeer, toUs, peer, closed>>

\* Both requeues of the piece, and the end of the task.
Mismatch ==
    /\ at = "assembled"
    /\ ~ Genuine(piece, progress.data)
    /\ todo' = todo \cup {piece}
    /\ at' = "NotInterested"
    /\ UNCHANGED <<done, transfer, toPeer, toUs, peer, closed>>

\* The end of the stream, or a write that the closed connection refuses.
TransferFails ==
    /\ \/ at = "reading" /\ toUs = <<>>
       \/ at = "asking"
    /\ closed
    /\ todo' = todo \cup {piece}
    /\ at' = "NotInterested"
    /\ UNCHANGED <<done, transfer, toPeer, toUs, peer, closed>>

TaskStep ==
    \/ FindSeed \/ FindIncomplete \/ IgnoreWhileCurious
    \/ GetUnchoked \/ IgnoreWhileInterested \/ SessionFails
    \/ SelectPiece \/ LeaveExhausted \/ SendRequest
    \/ ReadPiece \/ ReadChoke \/ ReadUnchoke \/ ReadOther
    \/ SavePiece \/ Mismatch \/ TransferFails

-----------------------------------------------------------------------------
(* The peer.                                                                *)

Take(type) ==
    /\ ~ closed
    /\ toPeer # <<>>
    /\ Head(toPeer).type = type
    /\ toPeer' = Tail(toPeer)

Say(m) == toUs' = Append(toUs, m)

PeerReadsInterested ==
    /\ Take("interested")
    /\ wanted' = TRUE
    /\ UNCHANGED <<at, queue, transfer, toUs, remote, choking, budget, closed>>

CanAnswer(m) ==
    /\ ~ choking
    /\ m.index \in remote.held
    /\ m.begin + m.length <= SizeOf(m.index)

\* Right data from an honest peer, right or wrong data from another.
PeerAnswers ==
    /\ Take("request")
    /\ CanAnswer(Head(toPeer))
    /\ \E right \in {TRUE, remote.honest} :
          LET m == Head(toPeer) IN Say(Block(m.index, m.begin, m.length, right))
    /\ UNCHANGED <<at, queue, transfer, peer, closed>>

\* A request that comes while it chokes us, or that it cannot answer.
PeerDropsRequest ==
    /\ Take("request")
    /\ ~ CanAnswer(Head(toPeer))
    /\ UNCHANGED <<at, queue, transfer, toUs, peer, closed>>

PeerChokes ==
    /\ ~ closed
    /\ ~ choking
    /\ budget.chokes > 0
    /\ choking' = TRUE
    /\ budget' = [budget EXCEPT !.chokes = @ - 1]
    /\ Say(Simple("choke"))
    /\ UNCHANGED <<at, queue, transfer, toPeer, remote, wanted, closed>>

PeerUnchokes ==
    /\ ~ closed
    /\ choking
    /\ choking' = FALSE
    /\ Say(Simple("unchoke"))
    /\ UNCHANGED <<at, queue, transfer, toPeer, remote, wanted, budget, closed>>

\* Have, KeepAlive, and whatever else the task does not look at.
PeerChatters ==
    /\ ~ closed
    /\ budget.chatter > 0
    /\ budget' = [budget EXCEPT !.chatter = @ - 1]
    /\ Say(Simple("other"))
    /\ UNCHANGED <<at, queue, transfer, toPeer, remote, choking, wanted, closed>>

PeerCloses ==
    /\ ~ closed
    /\ closed' = TRUE
    /\ UNCHANGED <<at, queue, transfer, toPeer, toUs, peer>>

PeerStep ==
    \/ PeerReadsInterested \/ PeerAnswers \/ PeerDropsRequest
    \/ PeerChokes \/ PeerUnchokes \/ PeerChatters \/ PeerCloses

Next == TaskStep \/ PeerStep

\* The runtime polls a task whose socket is ready.  The peer reads what it was
\* sent and, once we are interested, does not choke us for good; nothing makes
\* it choke, chatter or close.
Fairness ==
    /\ WF_vars(TaskStep)
    /\ WF_vars(PeerReadsInterested \/ PeerAnswers \/ PeerDropsRequest)
    /\ WF_vars(wanted /\ PeerUnchokes)

Spec == Init /\ [][Next]_vars
FairSpec == Spec /\ Fairness

-----------------------------------------------------------------------------
(* What must hold.                                                          *)

InFlight ==
    Cardinality({k \in DOMAIN toPeer : toPeer[k].type = "request"})
        + Cardinality({k \in DOMAIN toUs : toUs[k].type = "piece"})

\* Late and repeated answers never end up in a piece: what an honest peer sends
\* passes the hash check, in whatever order chokes, repeats and chatter come.
HonestPieceMatches ==
    at = "assembled" /\ remote.honest /\ SizeOf(piece) = PieceLength
        => Genuine(piece, progress.data)

\* `choked` is a local that starts FALSE with every piece and the arm Unchoked
\* never looks at it again; even so, a task that is about to ask has been
\* unchoked, unless the Choke it has yet to read is on its way.
AsksWhenUnchoked ==
    at = "asking" /\ choking => \E m \in ToSet(toUs) : m.type = "choke"

\* Each time round the loop asks again, so an unrelated message or a pair of
\* Choke and Unchoke can leave one more request in flight, for good; nothing
\* else does.
RepeatsAreBounded ==
    InFlight + (IF at = "asking" THEN 1 ELSE 0)
        <= 1 + (MaxChatter - budget.chatter) + (MaxChokes - budget.chokes)

\* The task waits for the answer to a request that ends past the end of the torrent.
\* No peer has what it asks for (downloader.rs:84 and 254), and a peer that keeps to
\* the protocol drops it.
AwaitsPastTheEnd ==
    /\ at = "reading"
    /\ piece = NumPieces - 1
    /\ progress.offset + get_next_block_size > remote.last

\* No Choke, Unchoke or repeated answer makes the loop wait for an answer that could
\* come and does not.  From an honest seed that stays the task gets every piece, if
\* all are of one length.  With a shorter last piece it never ends: it gets every
\* block of that piece that lies inside the torrent and waits for one more.
SeedDelivers ==
    /\ remote.honest
    /\ remote.held = Pieces
    /\ [](~ closed)
    => /\ remote.last = PieceLength => <>(done = Pieces /\ at = "NotInterested")
       /\ remote.last < PieceLength => <>[]AwaitsPastTheEnd

-----------------------------------------------------------------------------
(* What comments and messages say, and the steps do not do.                 *)

\* downloader.rs:255 logs "({} bytes remain)" of a piece of which it asks for as
\* many.
AsksForWhatRemains ==
    \A m \in ToSet(toPeer) :
        m.type = "request" => m.begin + m.length <= SizeOf(m.index)
===============================================================================
