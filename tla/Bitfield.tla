------------------------------- MODULE Bitfield -------------------------------
(***************************************************************************)
(* The Bitfield of src/peer.rs.  A byte is the set of the positions of its *)
(* one bits, counted from the most significant, as the code counts them    *)
(* (mask 1 << (7 - offset)): OR, AND and NOT of masks are union,           *)
(* intersection and complement, and `(1 << e) - 1) << (8 - e)` is 0..e-1.  *)
(* Byte k of the code's vector is element k + 1 of the sequence.           *)
(***************************************************************************)
EXTENDS Integers, Sequences, FiniteSets

Byte == SUBSET (0 .. 7)
AllBits == 0 .. 7

Elements(num) == (num + 7) \div 8

-----------------------------------------------------------------------------
(* Seeded faults: operators below with one plausible mistake.  None of them *)
(* is part of the model; each breaks a property that guards against it.     *)

\* The mask of a partial byte, used for a full one as well.
PartialMask(num) == 0 .. (num % 8) - 1

\* The bit is shifted by the index of the piece, not by its offset in the byte.
MarkAbsolute(bf, i) == [bf EXCEPT !.masks[i \div 8 + 1] = @ \cup {i}]

\* Assignment where the code has OR-assignment.
MarkOverwrites(bf, i) == [bf EXCEPT !.masks[i \div 8 + 1] = {i % 8}]

\* Only the last byte is looked at.
AllInLastByte(bf) == bf.masks[Len(bf.masks)] = bf.last_mask

-----------------------------------------------------------------------------

LastMask(num) == IF num % 8 = 0 THEN AllBits ELSE 0 .. (num % 8) - 1

\* A seeded fault: the spare bits of the last byte are left as they came.
UnmaskedVec(v, num) == [masks |-> v, num |-> num, last_mask |-> LastMask(num)]

from_vec(v, num) ==
    [masks |-> IF num % 8 = 0 \/ v = <<>>
               THEN v
               ELSE [v EXCEPT ![Len(v)] = @ \cap LastMask(num)],
     num |-> num,
     last_mask |-> LastMask(num)]

new(num, set) ==
    from_vec([k \in 1 .. Elements(num) |-> IF set THEN AllBits ELSE {}], num)

Unrepresentible == [error |-> "Unrepresentible"]

\* A seeded fault: a last byte that is not full is not counted.
TryFullBytes(v, num) == IF Len(v) < num \div 8 THEN Unrepresentible ELSE from_vec(v, num)

try_from_vec(v, num) == IF Len(v) < Elements(num) THEN Unrepresentible ELSE from_vec(v, num)

\* From<Vec<u8>>: the number of pieces is guessed from the one bits of the last
\* byte.  An empty vector has no last byte: the code panics.
from(v) == from_vec(v, 8 * (Len(v) - 1) + Cardinality(v[Len(v)]))

index_check(bf, i) == i < bf.num

has_piece(bf, i) == i % 8 \in bf.masks[i \div 8 + 1]

mark_piece(bf, i) == [bf EXCEPT !.masks[i \div 8 + 1] = @ \cup {i % 8}]

ummark_piece(bf, i) == [bf EXCEPT !.masks[i \div 8 + 1] = @ \ {i % 8}]

OneBits(bf) == {w \in (1 .. Len(bf.masks)) \X AllBits : w[2] \in bf.masks[w[1]]}

num_set(bf) == Cardinality(OneBits(bf))

num_unset(bf) == bf.num - num_set(bf)

all(bf) ==
    LET n == Len(bf.masks)
    IN  /\ bf.masks[n] = bf.last_mask
        /\ \A k \in 1 .. n - 1 : bf.masks[k] = AllBits

none(bf) == \A k \in DOMAIN bf.masks : bf.masks[k] = {}
===============================================================================
