------------------------------ MODULE PieceBits ------------------------------
(***************************************************************************)
(* The two bitfields of a download.  `done`, in FileDownloadState, is made *)
(* by Bitfield::new and changed one piece at a time.  `theirs` is made by  *)
(* read_bitfield from the bytes of the peer's Bitfield message; the        *)
(* Curious arm of download_pieces then sets its `num` to the torrent's     *)
(* number of pieces and asks it whether the peer has all of them.          *)
(***************************************************************************)
EXTENDS Bitfield

CONSTANTS
    MaxPieces,    \* bound on the number of pieces of the torrent
    Vectors       \* the payloads a peer may send, sequences of bytes

ASSUME PieceBitsAssumption ==
    /\ MaxPieces \in Nat \ {0}
    /\ Vectors \subseteq Seq(Byte) \ {<<>>}

VARIABLES
    done,     \* FileDownloadState.done
    sent,     \* the payload of the peer's Bitfield message, or <<>>
    theirs    \* the Bitfield made from it

vars == <<done, sent, theirs>>

\* The pieces that has_piece reports.
Held(bf) == {i \in 0 .. bf.num - 1 : has_piece(bf, i)}

\* The pieces a payload offers of a torrent of num pieces.
Offered(v, num) == {i \in 0 .. num - 1 : i \div 8 < Len(v) /\ i % 8 \in v[i \div 8 + 1]}

\* The payload a peer with these pieces sends: as many bytes as the pieces need
\* and zeros in the spare bits.
Encoded(held, num) ==
    [k \in 1 .. Elements(num) |-> {b \in AllBits : 8 * (k - 1) + b \in held}]

Bitfields == [masks : Seq(Byte), num : Nat, last_mask : Byte]

\* The bitfields keep one byte per eight pieces, with eight bits each.
TypeOK ==
    /\ done \in Bitfields
    /\ Len(done.masks) = Elements(done.num)
    /\ sent \in Vectors \cup {<<>>}
    /\ theirs \in Bitfields
    /\ Len(theirs.masks) = IF sent = <<>> THEN Elements(theirs.num) ELSE Len(sent)

Init ==
    /\ \E num \in 1 .. MaxPieces, set \in BOOLEAN : done = new(num, set)
    /\ sent = <<>>
    /\ theirs = new(done.num, FALSE)

\* FileDownloadState::complete unwraps the result of mark_piece: an index out of
\* range would panic, and here is refused.
MarkPiece(i) ==
    /\ sent = <<>>
    /\ index_check(done, i)
    /\ done' = mark_piece(done, i)
    /\ UNCHANGED <<sent, theirs>>

UnmarkPiece(i) ==
    /\ sent = <<>>
    /\ index_check(done, i)
    /\ done' = ummark_piece(done, i)
    /\ UNCHANGED <<sent, theirs>>

ReceiveBitfield(v) ==
    /\ sent = <<>>
    /\ done = new(done.num, FALSE)
    /\ sent' = v
    /\ theirs' = [from(v) EXCEPT !.num = done.num]
    /\ UNCHANGED done

\* The verdict is in: the bitfield of the message is dropped.
DropTheirs ==
    /\ sent # <<>>
    /\ sent' = <<>>
    /\ theirs' = new(done.num, FALSE)
    /\ UNCHANGED done

\* Neither bitfield reads the other, so a message is received before any piece
\* is done and nothing is marked until its verdict is in.
Next ==
    \/ \E i \in 0 .. MaxPieces - 1 : MarkPiece(i) \/ UnmarkPiece(i)
    \/ \E v \in Vectors : ReceiveBitfield(v)
    \/ DropTheirs

Spec == Init /\ [][Next]_vars

-----------------------------------------------------------------------------
(* What must hold.                                                          *)

\* num_set, num_unset, all and none read whole bytes, has_piece single bits:
\* for `done` they agree, because no bit beyond `num` is ever set.
ObserversAgree ==
    /\ num_set(done) = Cardinality(Held(done))
    /\ num_unset(done) = Cardinality((0 .. done.num - 1) \ Held(done))
    /\ all(done) <=> Held(done) = 0 .. done.num - 1
    /\ none(done) <=> Held(done) = {}

\* `from` guesses the number of pieces and masks the last byte by its guess,
\* and yet a peer that has every piece is always recognised as a seed.
SeedIsRecognised ==
    sent = Encoded(0 .. done.num - 1, done.num) => all(theirs)

\* What `all` says of a received bitfield, whatever the torrent's number of
\* pieces: the bytes are all ones up to some bit of the last byte, and zeros
\* after it.
AcceptedIsAPrefix ==
    sent # <<>> =>
        (all(theirs) <=>
            \E k \in 1 .. 8 :
                /\ sent[Len(sent)] = 0 .. k - 1
                /\ \A j \in 1 .. Len(sent) - 1 : sent[j] = AllBits)

\* The checked constructor, which nothing calls, would judge a peer right: of a payload
\* that is not too long, all() says whether it offers every piece of the torrent, and
\* one that try_from_vec refuses as too short does not.
CheckedVerdictIsExact ==
    sent # <<>> /\ Len(sent) <= Elements(done.num) =>
        LET checked == try_from_vec(sent, done.num)
        IN  checked # Unrepresentible /\ all(checked)
                <=> Offered(sent, done.num) = 0 .. done.num - 1

\* `done` behaves as a set of pieces: marking and unmarking change one piece
\* and no other, whichever bytes and spare bits the piece shares.
Abstract == INSTANCE PieceSet WITH size <- done.num, held <- Held(done)
ActsAsPieceSet == Abstract!Spec

-----------------------------------------------------------------------------
(* What a comment says, and `all` does not.                                 *)

\* downloader.rs:114: "confirmed peer offers all pieces", of the state the task
\* enters when all() is true.
AcceptedOffersAll ==
    sent # <<>> /\ all(theirs) => Offered(sent, done.num) = 0 .. done.num - 1
===============================================================================
