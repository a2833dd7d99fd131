--------------------------------- MODULE Wire ---------------------------------
(***************************************************************************)
(* Reading a connection: `handshake` of src/peer/handshake.rs, then        *)
(* read_message of src/peer/message.rs, called again and again.  TCP may   *)
(* cut the stream anywhere; one action of the reader is one read_exact,    *)
(* which waits for all its bytes.  The peer writes frames as the send_*    *)
(* functions do, but may add bytes to a payload of fixed size, which       *)
(* `consume` tolerates, or leave out bytes that the message needs.         *)
(*                                                                         *)
(* The stream holds bytes, after a handshake of one element per field.     *)
(*                                                                         *)
(* Bounds: MaxFrames and the sets the peer chooses from.                   *)
(***************************************************************************)
EXTENDS Integers, SequencesExt

CONSTANTS
    InfoHash,      \* the torrent's info hash
    Handshakes,    \* what the peer may send first: [length, protocol, hash]
    Messages,      \* what it may send then
    Pads,          \* how many bytes more than needed a frame may have; fewer if negative
    MaxFrames      \* how many frames it sends at most

Byte == 0 .. 255
U32 == {n \in Nat : n \div 16777216 < 256}

\* The messages without a payload; "port" stands for all that the program does
\* not know.
Bare == {"keepAlive", "choke", "unchoke", "interested", "notInterested", "port"}
AnyMessage ==
    [type : {"have"}, index : U32]
        \cup [type : {"bitfield"}, bytes : Seq(Byte)]
        \cup [type : {"piece"}, index : U32, begin : U32, bytes : Seq(Byte)]
        \cup [type : {"request", "cancel"}, index : U32, begin : U32, length : U32]
        \cup [type : Bare]

ASSUME WireAssumption ==
    /\ Messages \subseteq AnyMessage
    /\ Pads \subseteq Int
    /\ MaxFrames \in Nat

VARIABLES
    hello,       \* the handshake the peer sent
    frames,      \* the frames it has sent
    stream,      \* what it has written and we have not read
    arrived,     \* how much of that has reached our end
    closed,      \* TRUE once the connection is closed
    at,          \* which read_exact the task awaits
    total,       \* `total_length`
    id,          \* `id`
    body,        \* the payload, as far as read_message looks at it
    returned     \* what read_message has returned, call by call

reading == <<total, id, body>>
vars == <<hello, frames, stream, arrived, closed, at, reading, returned>>

P_STR == "BitTorrent protocol"

MessageId ==
    [choke |-> 0, unchoke |-> 1, interested |-> 2, notInterested |-> 3, have |-> 4,
     bitfield |-> 5, request |-> 6, piece |-> 7, cancel |-> 8]
TypeOf(n) == CHOOSE t \in DOMAIN MessageId : MessageId[t] = n

to_be_bytes(n) ==
    <<n \div 16777216, (n \div 65536) % 256, (n \div 256) % 256, n % 256>>

-----------------------------------------------------------------------------
(* Seeded faults: operators below with one plausible mistake.  None is part *)
(* of the specification; each breaks a property that guards against it.     *)

\* The length of a frame is taken for that of its payload.
WithId == total

\* A payload longer than needed is not read to its end.
NothingExtra == 0

\* A Piece without data counts as too small.
TooSmallOrEmpty == Len(body) <= 8

-----------------------------------------------------------------------------
(* Encoding and decoding.                                                   *)

from_be_bytes(s) == 16777216 * s[1] + 65536 * s[2] + 256 * s[3] + s[4]

Variable == {"bitfield", "piece"}

\* What read_message reads of a payload of fixed size before it calls consume.
Expected(t) == CASE t = "have" -> 4
                 [] t \in {"request", "cancel"} -> 12
                 [] OTHER -> 0

Payload(m) ==
    CASE m.type = "have" -> to_be_bytes(m.index)
      [] m.type = "bitfield" -> m.bytes
      [] m.type = "piece" -> to_be_bytes(m.index) \o to_be_bytes(m.begin) \o m.bytes
      [] m.type \in {"request", "cancel"} ->
             to_be_bytes(m.index) \o to_be_bytes(m.begin) \o to_be_bytes(m.length)
      [] OTHER -> <<>>

\* An id that the program does not know is the peer's own.
IdOf(m) == IF m.type \in DOMAIN MessageId THEN MessageId[m.type] ELSE 9

Padded(s, pad) ==
    IF pad < 0 THEN SubSeq(s, 1, Len(s) + pad) ELSE s \o [k \in 1 .. pad |-> 0]

\* What the send_* functions write, but for the pad.
Encode(f) ==
    IF f.message.type = "keepAlive" THEN to_be_bytes(0)
    ELSE LET payload == Padded(Payload(f.message), f.pad)
         IN  to_be_bytes(1 + Len(payload)) \o <<IdOf(f.message)>> \o payload

\* The length of every frame fits the four bytes it is written in.
ASSUME LengthsFit ==
    \A m \in Messages, pad \in Pads : (1 + Len(Payload(m)) + pad) \div 16777216 < 256

\* A seeded fault: the numbers are not drained from the data.
PieceUndrained(s) ==
    [type |-> "piece", index |-> from_be_bytes(SubSeq(s, 1, 4)),
     begin |-> from_be_bytes(SubSeq(s, 5, 8)), bytes |-> s]

DecodePiece(s) ==
    [type |-> "piece", index |-> from_be_bytes(SubSeq(s, 1, 4)),
     begin |-> from_be_bytes(SubSeq(s, 5, 8)), bytes |-> SubSeq(s, 9, Len(s))]

Decode(t, s) ==
    CASE t = "have" -> [type |-> t, index |-> from_be_bytes(s)]
      [] t = "bitfield" -> [type |-> t, bytes |-> s]
      [] t = "piece" -> DecodePiece(s)
      [] t \in {"request", "cancel"} ->
             [type |-> t, index |-> from_be_bytes(SubSeq(s, 1, 4)),
              begin |-> from_be_bytes(SubSeq(s, 5, 8)),
              length |-> from_be_bytes(SubSeq(s, 9, 12))]
      [] OTHER -> [type |-> t]

HandshakeFields(h) == <<h.length, h.protocol, "flags", h.hash, "peer id">>
HandshakeLength == 5

-----------------------------------------------------------------------------

Awaiting == {"handshake", "length", "id", "payload", "extra"}

\* The types; a frame has an id only if its length is not zero, so the length of
\* the payload, an unsigned difference, never wraps.
TypeOK ==
    /\ hello \in Handshakes
    /\ Len(frames) <= MaxFrames
    /\ arrived \in 0 .. Len(stream)
    /\ closed \in BOOLEAN
    /\ at \in Awaiting \cup {"errored", "panicked"}
    /\ total \in Nat
    /\ at \in {"id", "payload", "extra"} => total > 0
    /\ id \in DOMAIN MessageId

Init ==
    /\ hello \in Handshakes
    /\ frames = <<>>
    /\ stream = HandshakeFields(hello)
    /\ arrived = 0
    /\ closed = FALSE
    /\ at = "handshake"
    /\ total = 0
    /\ id = "choke"
    /\ body = <<>>
    /\ returned = <<>>

-----------------------------------------------------------------------------
(* The peer and the network.                                                *)

PeerSends(f) ==
    /\ ~ closed
    /\ Len(frames) < MaxFrames
    /\ f.pad < 0 => Len(Payload(f.message)) + f.pad >= 0
    /\ f.pad > 0 => f.message.type \in DOMAIN MessageId \ Variable
    /\ frames' = Append(frames, f)
    /\ stream' = stream \o Encode(f)
    /\ UNCHANGED <<hello, arrived, closed, at, reading, returned>>

Arrive ==
    /\ arrived < Len(stream)
    /\ arrived' = arrived + 1
    /\ UNCHANGED <<hello, frames, stream, closed, at, reading, returned>>

\* What has not arrived by then is lost: a connection that delivers everything
\* first is one that closes later.
Close ==
    /\ ~ closed
    /\ closed' = TRUE
    /\ stream' = SubSeq(stream, 1, arrived)
    /\ UNCHANGED <<hello, frames, arrived, at, reading, returned>>

-----------------------------------------------------------------------------
(* The task.                                                                *)

payload_length == total - 1

\* How many bytes `consume` reads.
Extra ==
    IF id \in Variable \/ payload_length <= Expected(id) THEN 0
    ELSE payload_length - Expected(id)

\* How many bytes the read_exact that is awaited wants.
Wanted ==
    CASE at = "handshake" -> HandshakeLength
      [] at = "length" -> 4
      [] at = "id" -> 1
      [] at = "payload" -> IF id \in Variable THEN payload_length ELSE Expected(id)
      [] at = "extra" -> Extra
      [] OTHER -> 0

Read(stage) ==
    /\ at = stage
    /\ arrived >= Wanted
    /\ stream' = SubSeq(stream, Wanted + 1, Len(stream))
    /\ arrived' = arrived - Wanted
    /\ UNCHANGED <<hello, frames, closed>>

Bytes == SubSeq(stream, 1, Wanted)

\* TorrentHandshake::try_from, and the comparison of the hashes.  Flags and peer
\* id are not looked at.
ReadHandshake ==
    /\ Read("handshake")
    /\ at' = IF Bytes[1] = 19 /\ Bytes[2] = P_STR /\ Bytes[4] = InfoHash
             THEN "length" ELSE "errored"
    /\ UNCHANGED <<reading, returned>>

\* A seeded fault: a length of zero is a length.
ReadLengthOnly ==
    /\ Read("length")
    /\ total' = from_be_bytes(Bytes)
    /\ at' = "id"
    /\ UNCHANGED <<id, body, returned>>

ReadLength ==
    /\ Read("length")
    /\ total' = from_be_bytes(Bytes)
    /\ IF total' = 0
       THEN returned' = Append(returned, [type |-> "keepAlive"]) /\ UNCHANGED at
       ELSE at' = "id" /\ UNCHANGED returned
    /\ UNCHANGED <<id, body>>

ReadId ==
    /\ Read("id")
    /\ IF Bytes[1] \in 0 .. 8
       THEN at' = "payload" /\ id' = TypeOf(Bytes[1])
       ELSE at' = "errored" /\ UNCHANGED id
    /\ UNCHANGED <<total, body, returned>>

ReadPayload ==
    /\ Read("payload")
    /\ body' = Bytes
    /\ at' = "extra"
    /\ UNCHANGED <<total, id, returned>>

TooSmall == Len(body) < 8

\* consume, and what read_message returns: an error for a Piece that is too
\* small, and Bitfield::from panics on an empty payload.
ReadExtra ==
    /\ Read("extra")
    /\ \/ id = "bitfield" /\ body = <<>> /\ at' = "panicked" /\ UNCHANGED returned
       \/ id = "piece" /\ TooSmall /\ at' = "errored" /\ UNCHANGED returned
       \/ /\ id = "bitfield" => body # <<>>
          /\ id = "piece" => ~ TooSmall
          /\ at' = "length"
          /\ returned' = Append(returned, Decode(id, body))
    /\ UNCHANGED reading

ReadFails ==
    /\ at \in Awaiting
    /\ closed
    /\ arrived < Wanted
    /\ at' = "errored"
    /\ UNCHANGED <<hello, frames, stream, arrived, closed, reading, returned>>

TaskStep ==
    ReadHandshake \/ ReadLength \/ ReadId \/ ReadPayload \/ ReadExtra \/ ReadFails

Next ==
    \/ \E m \in Messages, pad \in Pads : PeerSends([pad |-> pad, message |-> m])
    \/ Arrive \/ Close \/ TaskStep

\* The runtime polls a task whose socket is ready, and TCP delivers what was
\* written while the connection lasts.
Fairness == WF_vars(Arrive) /\ WF_vars(TaskStep)

Spec == Init /\ [][Next]_vars
FairSpec == Spec /\ Fairness

-----------------------------------------------------------------------------
(* What must hold.                                                          *)

\* The first k frames have all the bytes their messages need.
Whole(k) == \A j \in 1 .. k : j \in DOMAIN frames => frames[j].pad >= 0

\* The k-th call of read_message returns what the peer meant by its k-th frame,
\* wherever TCP cut the stream, unless that frame or one before it was too short.
ReturnsWhatWasSent ==
    \A k \in DOMAIN returned :
        Whole(k) => k \in DOMAIN frames /\ returned[k] = frames[k].message

\* Nor does it take a byte of the frame after: between two calls the stream
\* begins with the next frame.  Nothing follows a handshake but frames.
StopsAtTheNextFrame ==
    LET k == Len(returned)
        rest == FlattenSeq([j \in 1 .. Len(frames) - k |-> Encode(frames[k + j])])
    IN  at = "length" /\ Whole(k) =>
            IF closed THEN IsPrefix(stream, rest) ELSE stream = rest

Understood(m) ==
    /\ m.type \in DOMAIN MessageId \cup {"keepAlive"}
    /\ m.type = "bitfield" => m.bytes # <<>>

Conforming ==
    /\ hello = [length |-> 19, protocol |-> P_STR, hash |-> InfoHash]
    /\ Whole(Len(frames))
    /\ \A j \in DOMAIN frames : Understood(frames[j].message)

\* A peer that writes what the send_* functions write never makes the task fail:
\* only the end of the connection does.
FailsForAReason == at \notin Awaiting => closed \/ ~ Conforming

\* While the connection lasts every frame is returned, the last one without
\* waiting for another.
EveryFrameIsReturned ==
    [](Conforming /\ ~ closed) => <>[](Len(returned) = Len(frames))
===============================================================================
