-------------------------------- MODULE Client --------------------------------
(***************************************************************************)
(* The program from its argument to its last line: main, download_torrent  *)
(* and TorrentFile::new, retrieve_peers and download.  The download itself *)
(* is the contract of module DownloadContract, which Swarm implements,     *)
(* with what this program's arithmetic does to the pieces.  What the file  *)
(* and the tracker say, and whether they say anything, is external.        *)
(*                                                                         *)
(* Bounds: Documents, Hashes, Offers and Answers; U64 and U32 stand for    *)
(* the widths of the code's integers.                                      *)
(***************************************************************************)
EXTENDS Tracker

CONSTANTS
    U32,          \* 2^32
    Documents,    \* what the torrent file may hold
    Hashes,       \* the SHA-1 that its info dictionary may have
    Offers,       \* the peers the tracker may know
    Answers       \* what else the tracker may answer

SocketAddrV4 == [ip : [1 .. 4 -> 0 .. 255], port : 0 .. 256 * 256 - 1]

\* What the parser of Bencode makes: an integer is an i64.
Parsed(items) ==
    \A key \in DOMAIN items :
        LET v == items[key]
        IN  CASE v.kind = "integer" -> v.num \in -(U64 \div 2) .. (U64 \div 2) - 1
              [] v.kind = "string" -> IsSequence(v.bytes)
              [] v.kind = "list" -> IsSequence(v.elements)
              [] OTHER -> v.kind = "dictionary"

IsDictionary(items, key) == key \in DOMAIN items /\ items[key].kind = "dictionary"
IsList(items, key) == key \in DOMAIN items /\ items[key].kind = "list"

\* The types of the values that extract may read in a file.
ParsedFile(items) ==
    /\ Parsed(items)
    /\ IsDictionary(items, "info") =>
           LET info == items["info"].items
           IN  /\ Parsed(info)
               /\ IsList(info, "files") =>
                      \A k \in DOMAIN info["files"].elements :
                          LET file == info["files"].elements[k]
                          IN  file.kind = "dictionary" => Parsed(file.items)

ASSUME ClientAssumption ==
    /\ U32 \in Nat \ {0}
    /\ Offers \subseteq Seq(SocketAddrV4)
    /\ Hashes \subseteq Seq(Bytes)
    /\ \A value \in Documents : value.kind = "dictionary" => ParsedFile(value.items)

NoTorrent == [announce |-> "none"]

VARIABLES
    at,          \* how far the program has got, and how it ended
    checks,      \* whether the build has overflow checks
    inspect,     \* the flag of the command line
    silent,      \* who never answers: "tracker", "peers" or "nobody"
    document,    \* what the torrent file holds
    hash,        \* TorrentFile.hash
    torrent,     \* the TorrentFile made of it
    request,     \* the announce URL
    offered,     \* the peers the tracker knows
    peers,       \* those in its answer, as the program reads it
    done         \* the pieces that are done

inputs == <<checks, inspect, silent, document, hash>>
vars == <<at, inputs, torrent, request, offered, peers, done>>

Ended == at \in {"inspected", "ok", "failed", "panicked"}

Init ==
    /\ at = "started"
    /\ checks \in BOOLEAN
    /\ inspect \in BOOLEAN
    /\ silent \in {"tracker", "peers", "nobody"}
    /\ document \in Documents
    /\ hash \in Hashes
    /\ torrent = NoTorrent
    /\ request = <<>>
    /\ offered = <<>>
    /\ peers = <<>>
    /\ done = {}

GoTo(place) ==
    /\ at' = place
    /\ UNCHANGED <<inputs, torrent, request, offered, peers, done>>

-----------------------------------------------------------------------------
(* Seeded faults: each is a definition below with one plausible mistake.    *)

\* A piece is saved although its hash differs.
FinishUnverified(k) ==
    /\ at = "downloading"
    /\ peers # <<>>
    /\ k < torrent.num_pieces
    /\ done' = done \cup {k}
    /\ UNCHANGED <<at, inputs, torrent, request, offered, peers>>


-----------------------------------------------------------------------------
(* The torrent file.                                                        *)

ReadFile ==
    LET e == new(document, checks)
    IN  /\ at = "started"
        /\ IF e = "none"
           THEN torrent' = Torrent(document.items) /\ at' = "parsed"
           ELSE torrent' = NoTorrent /\ at' = IF e = "panic" THEN "panicked" ELSE "failed"
        /\ UNCHANGED <<inputs, request, offered, peers, done>>

\* No such file, or no bencode in it.
ReadFails == at = "started" /\ GoTo("failed")

Inspect == at = "parsed" /\ inspect /\ GoTo("inspected")

-----------------------------------------------------------------------------
(* The tracker.                                                             *)

AskTracker ==
    /\ at = "parsed"
    /\ ~ inspect
    /\ at' = "asking"
    /\ request' = get_announce_url(torrent.announce, hash)
    /\ UNCHANGED <<inputs, torrent, offered, peers, done>>

\* No answer, no body, no bencode in it, or not what try_from takes.
TrackerFails == at = "asking" /\ GoTo("failed")
TrackerErrs(value) == at = "asking" /\ try_from(value) # "none" /\ GoTo("failed")

\* The compact form of a peer list.
Compact(sockets) ==
    [k \in 1 .. SocketSize * Len(sockets) |->
        LET s == sockets[((k - 1) \div SocketSize) + 1]
            j == ((k - 1) % SocketSize) + 1
        IN  CASE j <= 4 -> s.ip[j] [] j = 5 -> s.port \div 256 [] OTHER -> s.port % 256]

\* The tracker knows the peers in `offer`, and answers with all of them but `missing`
\* bytes.
TrackerAnswers(offer, missing) ==
    LET sent == SubSeq(Compact(offer), 1, SocketSize * Len(offer) - missing)
        value == [kind |-> "dictionary",
                  items |-> [interval |-> [kind |-> "integer", num |-> 1],
                             peers |-> [kind |-> "string", text |-> "binary", bytes |-> sent]]]
    IN  /\ at = "asking"
        /\ missing <= SocketSize * Len(offer)
        /\ offered' = offer
        /\ IF try_from(value) = "none"
           THEN at' = "answered" /\ peers' = Sockets(sent)
           ELSE at' = "failed" /\ peers' = peers
        /\ UNCHANGED <<inputs, torrent, request, done>>

-----------------------------------------------------------------------------
(* The download.                                                            *)

StartDownload == at = "answered" /\ GoTo("downloading")

\* TempDir::new().expect
NoTempDir == at = "answered" /\ GoTo("panicked")

\* PieceDownloadProgress::length: `piece_size as u32`.
length == torrent.num_bytes_per_piece % U32

\* What the pieces of a torrent hold whose pieces and files fit together.
SizeOf(k) ==
    IF k < torrent.num_pieces - 1 THEN torrent.num_bytes_per_piece
    ELSE torrent.total_num_bytes - torrent.num_bytes_per_piece * (torrent.num_pieces - 1)

Info == document.items["info"].items
Tiled ==
    /\ torrent.num_pieces > 0
    /\ torrent.num_bytes_per_piece * (torrent.num_pieces - 1) < Length(Info)
    /\ Length(Info) <= torrent.num_bytes_per_piece * torrent.num_pieces

\* A peer has sent `length` bytes that have the hash of the piece.  Of other torrents
\* nothing is known.
FinishPiece(k) ==
    /\ at = "downloading"
    /\ peers # <<>>
    /\ k < torrent.num_pieces
    /\ Tiled => length = SizeOf(k)
    /\ done' = done \cup {k}
    /\ UNCHANGED <<at, inputs, torrent, request, offered, peers>>

\* All tasks are joined and the files cut from the pieces.  open_pieces_stream unwraps
\* the first path.
Succeed ==
    /\ at = "downloading"
    /\ done = 0 .. torrent.num_pieces - 1
    /\ GoTo(IF torrent.num_pieces = 0 THEN "panicked" ELSE "ok")

Fail == at = "downloading" /\ GoTo("failed")

-----------------------------------------------------------------------------
TrackerStep ==
    \/ TrackerFails
    \/ \E value \in Answers : TrackerErrs(value)
    \/ \E offer \in Offers, missing \in {0, 1} : TrackerAnswers(offer, missing)

DownloadEnds == Succeed \/ Fail

OwnStep ==
    \/ ReadFile
    \/ ReadFails
    \/ Inspect
    \/ AskTracker
    \/ StartDownload
    \/ NoTempDir

Next ==
    \/ OwnStep
    \/ TrackerStep
    \/ DownloadEnds
    \/ \E k \in 0 .. (IF torrent = NoTorrent THEN 0 ELSE torrent.num_pieces) - 1 : FinishPiece(k)

Spec == Init /\ [][Next]_vars

\* reqwest::get and the downloads have no timeout: their ends are fair only if the
\* other side is not silent.  That a download ends then is a property of Swarm.
FairSpec ==
    /\ Spec
    /\ WF_vars(OwnStep)
    /\ WF_vars(silent # "tracker" /\ TrackerStep)
    /\ WF_vars(silent # "peers" /\ DownloadEnds)

-----------------------------------------------------------------------------
(* What must hold.                                                          *)

\* An exact sum or product of the length check does not fit u64.
Overflows(items) ==
    LET info == items["info"].items
    IN  \/ Length(info) >= U64
        \/ info["piece length"].num * NumPieces(info) >= U64

\* The pieces of an accepted torrent hold the bytes of its files, and only the last
\* one may be shorter: what Reconstitution and Downloader assume.  The exception is a
\* build without overflow checks, where file lengths or a piece length beyond any real
\* torrent wrap.
PiecesTileTheFiles ==
    torrent # NoTorrent => Tiled \/ (~ checks /\ Overflows(document.items))

\* No unwrap or expect ever fails, whatever the file and the tracker say, but for a
\* length that overflows, a torrent without pieces, whose np - 1 does, and a file
\* system without room for a directory.
PanicsAreExplained ==
    at = "panicked" =>
        \/ torrent # NoTorrent /\ torrent.num_pieces > 0 /\ done = {}
        \/ /\ torrent = NoTorrent /\ checks
           /\ Overflows(document.items) \/ NumPieces(document.items["info"].items) = 0

\* The program connects to the peers the tracker knows, or to none: an answer that
\* misses a byte is refused, and each port has its byte order.
PeersAsEncoded == peers \in {<<>>, offered} /\ (at = "answered" => peers = offered)

\* The tracker reads the five values, and the info hash and the peer id byte for byte,
\* each once: no byte of them ends a value, starts a fragment or reads as a space, and
\* whatever query announce has stays apart.  The exception is an announce URL with a
\* fragment, which takes info hash and peer id with it.
AnnounceIsUnderstood ==
    request # <<>> =>
        LET query == Query(request)
        IN  /\ ValuesOf(query, "port") = {<<"12345">>}
            /\ ValuesOf(query, "left") = {<<"length">>}
            /\ \A name \in {"uploaded", "downloaded"} : ValuesOf(query, name) = {<<"0">>}
            /\ ValuesOf(query, "compact") = {<<"1">>}
            /\ IF "#" \in ToSet(Spelling[torrent.announce])
               THEN \A name \in AppendedNames : ValuesOf(query, name) = {}
               ELSE /\ ValuesOf(query, "info_hash") = {hash}
                    /\ ValuesOf(query, "peer_id") = {PeerId}

\* Success takes a peer and a piece, and, where pieces and files fit together, pieces
\* that are all of one length, which fits the u32 the program counts their bytes in.
\* (The only piece of a torrent may be longer, and truncated to the right length.)
SuccessIsEarned ==
    at = "ok" =>
        /\ peers # <<>>
        /\ done = 0 .. torrent.num_pieces - 1 /\ done # {}
        /\ Tiled => /\ torrent.total_num_bytes = torrent.num_pieces * length
                    /\ torrent.num_pieces > 1 => torrent.num_bytes_per_piece < U32


\* The flag that inspect shows as "private?" is that of the file.
PrivateFlagIsKept ==
    torrent # NoTorrent =>
        torrent.private = ("private" \in DOMAIN Info /\ Info["private"].num = 1)
===============================================================================
