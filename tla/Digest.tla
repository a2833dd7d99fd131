-------------------------------- MODULE Digest --------------------------------
(***************************************************************************)
(* How src/util.rs prepares bytes for sha1_hash and md5_hash: padding to   *)
(* whole chunks, and the words of a chunk.  The rounds over the words are  *)
(* left out: what matters to the program is that different bytes are       *)
(* different input to them.                                                *)
(***************************************************************************)
EXTENDS Integers, Sequences

CONSTANTS
    ChunkSize,    \* 64 bytes in the code
    FieldSize,    \* 8 of them hold the length of the message
    WordSize      \* 4 bytes make a word

ASSUME DigestAssumption ==
    /\ ChunkSize \in Nat /\ FieldSize \in Nat /\ WordSize \in Nat \ {0}
    /\ FieldSize < ChunkSize
    /\ ChunkSize % WordSize = 0

Marker == 128

\* What precedes the length in the last chunk: 56 bytes.
Room == ChunkSize - FieldSize

-----------------------------------------------------------------------------
\* Seeded fault: zeros are pushed to the end of the chunk.
ZerosToTheEnd(n) == (0 - (n + 1)) % ChunkSize

\* How often the loop pushes a zero after a message of n bytes and the marker.
Zeros(n) == (Room - (n + 1)) % ChunkSize

\* Byte k of n as to_be_bytes or to_le_bytes writes it in `size` bytes.
ByteOf(n, k, size, bigEndian) ==
    LET Shifted[j \in 0 .. size] == IF j = 0 THEN n ELSE Shifted[j - 1] \div 256
    IN  Shifted[IF bigEndian THEN size - k ELSE k - 1] % 256

pad_bytes(bytes, bigEndian) ==
    bytes \o <<Marker>> \o [k \in 1 .. Zeros(Len(bytes)) |-> 0]
          \o [k \in 1 .. FieldSize |-> ByteOf(8 * Len(bytes), k, FieldSize, bigEndian)]

\* u32::from_be_bytes or u32::from_le_bytes.
Word(bytes, bigEndian) ==
    LET W[k \in 0 .. WordSize] ==
            IF k = 0 THEN 0
            ELSE 256 * W[k - 1] + bytes[IF bigEndian THEN k ELSE WordSize + 1 - k]
    IN  W[WordSize]

to_ints(chunk, bigEndian) ==
    [i \in 1 .. ChunkSize \div WordSize |->
        Word(SubSeq(chunk, (i - 1) * WordSize + 1, i * WordSize), bigEndian)]

\* The bytes of words, as the digest is written in the end.
from_ints(words, bigEndian) ==
    [k \in 1 .. WordSize * Len(words) |->
        ByteOf(words[((k - 1) \div WordSize) + 1], ((k - 1) % WordSize) + 1, WordSize, bigEndian)]

\* chunks_exact: a rest that is no whole chunk is not digested.
Chunks(message) ==
    [c \in 1 .. Len(message) \div ChunkSize |->
        SubSeq(message, (c - 1) * ChunkSize + 1, c * ChunkSize)]

\* What the rounds of sha1_hash (big endian) and md5_hash (little endian) see.
Digested(bytes, bigEndian) ==
    LET chunks == Chunks(pad_bytes(bytes, bigEndian))
    IN  [c \in DOMAIN chunks |-> to_ints(chunks[c], bigEndian)]
===============================================================================
