---------------------------- MODULE BitfieldProofs ----------------------------
(***************************************************************************)
(* Proofs about Bitfield and PieceBits, for every number of pieces and     *)
(* every payload a peer may send.                                          *)
(***************************************************************************)
EXTENDS PieceBits, FiniteSetTheorems, SequenceTheorems, TLAPS

-----------------------------------------------------------------------------
(* Bitfields made by `new` and changed one piece at a time.                 *)

\* No bit stands for a piece out of range: what from_vec masks away, and what the
\* index check keeps away.
WellFormed(bf) ==
    /\ bf \in Bitfields
    /\ bf.num > 0
    /\ Len(bf.masks) = Elements(bf.num)
    /\ bf.last_mask = LastMask(bf.num)
    /\ \A k \in 1 .. Len(bf.masks) : \A b \in bf.masks[k] : 8 * (k - 1) + b < bf.num

\* Division by the width of a byte.
LEMMA DivMod ==
    ASSUME NEW i \in Nat
    PROVE  i = 8 * (i \div 8) + (i % 8) /\ i % 8 \in 0 .. 7 /\ i \div 8 \in Nat
OBVIOUS

\* The byte and the bit of a piece.
LEMMA Position ==
    ASSUME NEW num \in Nat, NEW i \in 0 .. num - 1
    PROVE  /\ i = 8 * (i \div 8) + (i % 8)
           /\ i \div 8 \in Nat
           /\ i % 8 \in AllBits
           /\ i \div 8 + 1 \in 1 .. Elements(num)
<1>1. i \in Nat
  OBVIOUS
<1>2. i = 8 * (i \div 8) + (i % 8) /\ i \div 8 \in Nat /\ i % 8 \in AllBits
  BY <1>1, DivMod DEF AllBits
<1>3. i \div 8 + 1 <= Elements(num) /\ Elements(num) \in Nat
  BY DEF Elements
<1> QED
  BY <1>2, <1>3

\* Different bits of a bitfield stand for different pieces.
LEMMA PositionInverse ==
    ASSUME NEW k \in Nat, NEW b \in AllBits
    PROVE  (8 * k + b) \div 8 = k /\ (8 * k + b) % 8 = b
BY DEF AllBits

\* `new` masks the spare bits of the last byte.
LEMMA NewIsWellFormed ==
    ASSUME NEW num \in Nat \ {0}, NEW set \in BOOLEAN
    PROVE  /\ WellFormed(new(num, set))
           /\ new(num, set).num = num
           /\ Held(new(num, set)) = IF set THEN 0 .. num - 1 ELSE {}
<1> DEFINE n == Elements(num)
           v == [k \in 1 .. n |-> IF set THEN AllBits ELSE {}]
           bf == new(num, set)
<1>1. n \in Nat /\ 8 * (n - 1) < num /\ num <= 8 * n /\ n > 0
  BY SMTT(30) DEF Elements
<1>2. v \in Seq(Byte) /\ Len(v) = n /\ v # <<>>
  BY <1>1 DEF Byte, AllBits
<1>3. LastMask(num) \in Byte
  BY DEF LastMask, Byte, AllBits
<1>4. bf.num = num /\ bf.last_mask = LastMask(num)
  BY DEF new, from_vec
<1>5. bf.masks = IF num % 8 = 0 THEN v ELSE [v EXCEPT ![n] = @ \cap LastMask(num)]
  BY <1>2 DEF new, from_vec
<1>6. \A k \in 1 .. n : bf.masks[k] = IF ~ set THEN {}
                                      ELSE IF k = n THEN LastMask(num)
                                      ELSE AllBits
  <2>1. LastMask(num) \subseteq AllBits
    BY <1>3 DEF Byte, AllBits
  <2>2. num % 8 = 0 => LastMask(num) = AllBits
    BY DEF LastMask
  <2>3. CASE num % 8 = 0
    BY <1>5, <2>2, <2>3
  <2>4. CASE num % 8 # 0
    BY <1>1, <1>5, <2>1, <2>4, ZenonT(60)
  <2> QED
    BY <2>3, <2>4
<1>7. bf.masks \in Seq(Byte) /\ Len(bf.masks) = n
  <2>1. \A k \in 1 .. n : bf.masks[k] \in Byte
    BY <1>3, <1>6 DEF Byte, AllBits
  <2>2. bf.masks = [k \in 1 .. n |-> bf.masks[k]]
    BY <1>5
  <2> QED
    BY <1>1, <2>1, <2>2
<1>10. \A k \in 1 .. n : \A b \in bf.masks[k] : 8 * (k - 1) + b < num
  <2> SUFFICES ASSUME NEW k \in 1 .. n, NEW b \in bf.masks[k]
               PROVE  8 * (k - 1) + b < num
    OBVIOUS
  <2>1. b \in AllBits
    BY <1>3, <1>6 DEF Byte, AllBits
  <2>2. CASE k < n
    BY <1>1, <2>1, <2>2 DEF AllBits
  <2>3. CASE k = n
    BY <1>1, <1>6, <2>1, <2>3 DEF LastMask, AllBits, Elements
  <2> QED
    BY <1>1, <2>2, <2>3
<1>8. WellFormed(bf)
  <2>1. bf \in Bitfields
    BY <1>3, <1>4, <1>7 DEF Bitfields, new, from_vec
  <2> QED
    BY <2>1, <1>4, <1>7, <1>10 DEF WellFormed
<1>9. Held(bf) = IF set THEN 0 .. num - 1 ELSE {}
  <2>1. ASSUME NEW i \in 0 .. num - 1, set PROVE has_piece(bf, i)
    <3> DEFINE k == i \div 8 + 1
               b == i % 8
    <3>1. i = 8 * (k - 1) + b /\ k \in 1 .. n /\ b \in 0 .. 7
      BY Position DEF AllBits
    <3>2. num = 8 * (num \div 8) + (num % 8) /\ num % 8 \in 0 .. 7 /\ num \div 8 \in Nat
      BY DivMod
    <3>3. num % 8 # 0 => n - 1 = num \div 8
      BY <1>1, <3>2
    <3> HIDE DEF k, b, n
    <3>5. k = n => b \in LastMask(num)
      BY <1>1, <3>1, <3>2, <3>3 DEF LastMask, AllBits
    <3>4. b \in bf.masks[k]
      BY <1>6, <2>1, <3>1, <3>5 DEF AllBits
    <3> QED
      BY <3>4 DEF has_piece, k, b
  <2>2. ASSUME NEW i \in 0 .. num - 1, ~ set PROVE ~ has_piece(bf, i)
    BY <1>6, <2>2, Position DEF has_piece
  <2> QED
    BY <1>4, <2>1, <2>2 DEF Held
<1> QED
  BY <1>4, <1>8, <1>9

\* Changing the bit of a piece in range keeps the bitfield well formed and
\* changes what it says of no other piece.
LEMMA MarkAdds ==
    ASSUME NEW bf, WellFormed(bf), NEW i \in Nat, i < bf.num
    PROVE  /\ WellFormed(mark_piece(bf, i))
           /\ mark_piece(bf, i).num = bf.num
           /\ Held(mark_piece(bf, i)) = Held(bf) \cup {i}
<1> DEFINE n == Len(bf.masks)
           k == i \div 8 + 1
           b == i % 8
           after == mark_piece(bf, i)
<1>1. bf.num \in Nat /\ bf.masks \in Seq(Byte) /\ n = Elements(bf.num)
  BY DEF WellFormed, Bitfields
<1>2. i = 8 * (k - 1) + b /\ k \in 1 .. n /\ b \in AllBits
  BY <1>1, Position
<1>3. /\ after \in Bitfields
      /\ after.num = bf.num /\ after.last_mask = bf.last_mask
      /\ Len(after.masks) = n
      /\ \A j \in 1 .. n : after.masks[j] = IF j = k THEN bf.masks[j] \cup {b} ELSE bf.masks[j]
  <2> DEFINE x == bf.masks[k] \cup {b}
             m == [bf.masks EXCEPT ![k] = x]
  <2>1. after = [bf EXCEPT !.masks = m] /\ bf \in Bitfields
    BY DEF mark_piece, WellFormed
  <2> HIDE DEF k, b
  <2>2. x \in Byte
    BY <1>1, <1>2, SMTT(30) DEF Byte, AllBits
  <2> HIDE DEF x
  <2>3. /\ m \in Seq(Byte) /\ Len(m) = n
        /\ \A j \in 1 .. n : m[j] = IF j = k THEN x ELSE bf.masks[j]
    BY <1>1, <1>2, <2>2, ExceptSeq
  <2> HIDE DEF m, after
  <2>4. /\ after \in Bitfields
        /\ after.num = bf.num /\ after.last_mask = bf.last_mask /\ after.masks = m
    BY <2>1, <2>3 DEF Bitfields
  <2> QED
    BY <2>3, <2>4 DEF x
<1> HIDE DEF k, b
<1>4. WellFormed(after)
  BY <1>1, <1>2, <1>3 DEF WellFormed
<1>5. ASSUME NEW j \in 0 .. bf.num - 1
      PROVE  has_piece(after, j) <=> has_piece(bf, j) \/ j = i
  <2>1. j = 8 * (j \div 8) + (j % 8) /\ j \div 8 + 1 \in 1 .. n
    BY <1>1, Position
  <2>2. j = i <=> j \div 8 + 1 = k /\ j % 8 = b
    BY <1>2, <2>1 DEF k, b
  <2> QED
    BY <1>3, <2>1, <2>2 DEF has_piece
<1>6. Held(after) = Held(bf) \cup {i}
  BY <1>1, <1>3, <1>5 DEF Held
<1> QED
  BY <1>3, <1>4, <1>6

\* ummark_piece takes one piece away and keeps the byte layout.
LEMMA UnmarkRemoves ==
    ASSUME NEW bf, WellFormed(bf), NEW i \in Nat, i < bf.num
    PROVE  /\ WellFormed(ummark_piece(bf, i))
           /\ ummark_piece(bf, i).num = bf.num
           /\ Held(ummark_piece(bf, i)) = Held(bf) \ {i}
<1> DEFINE n == Len(bf.masks)
           k == i \div 8 + 1
           b == i % 8
           after == ummark_piece(bf, i)
<1>1. bf.num \in Nat /\ bf.masks \in Seq(Byte) /\ n = Elements(bf.num)
  BY DEF WellFormed, Bitfields
<1>2. i = 8 * (k - 1) + b /\ k \in 1 .. n /\ b \in AllBits
  BY <1>1, Position
<1>3. /\ after \in Bitfields
      /\ after.num = bf.num /\ after.last_mask = bf.last_mask
      /\ Len(after.masks) = n
      /\ \A j \in 1 .. n : after.masks[j] = IF j = k THEN bf.masks[j] \ {b} ELSE bf.masks[j]
  <2> DEFINE x == bf.masks[k] \ {b}
             m == [bf.masks EXCEPT ![k] = x]
  <2>1. after = [bf EXCEPT !.masks = m] /\ bf \in Bitfields
    BY DEF ummark_piece, WellFormed
  <2> HIDE DEF k, b
  <2>2. x \in Byte
    BY <1>1, <1>2, SMTT(30) DEF Byte, AllBits
  <2> HIDE DEF x
  <2>3. /\ m \in Seq(Byte) /\ Len(m) = n
        /\ \A j \in 1 .. n : m[j] = IF j = k THEN x ELSE bf.masks[j]
    BY <1>1, <1>2, <2>2, ExceptSeq
  <2> HIDE DEF m, after
  <2>4. /\ after \in Bitfields
        /\ after.num = bf.num /\ after.last_mask = bf.last_mask /\ after.masks = m
    BY <2>1, <2>3 DEF Bitfields
  <2> QED
    BY <2>3, <2>4 DEF x
<1> HIDE DEF k, b
<1>4. WellFormed(after)
  BY <1>1, <1>2, <1>3 DEF WellFormed
<1>5. ASSUME NEW j \in 0 .. bf.num - 1
      PROVE  has_piece(after, j) <=> has_piece(bf, j) /\ j # i
  <2>1. j = 8 * (j \div 8) + (j % 8) /\ j \div 8 + 1 \in 1 .. n
    BY <1>1, Position
  <2>2. j = i <=> j \div 8 + 1 = k /\ j % 8 = b
    BY <1>2, <2>1 DEF k, b
  <2> QED
    BY <1>3, <2>1, <2>2 DEF has_piece
<1>6. Held(after) = Held(bf) \ {i}
  BY <1>1, <1>3, <1>5 DEF Held
<1> QED
  BY <1>3, <1>4, <1>6

-----------------------------------------------------------------------------
(* The bitfield of the pieces that are done.                                *)

\* `done` is well formed, whatever was marked or received.
DoneInv == WellFormed(done) /\ done.num \in 1 .. MaxPieces

\* The own bitfield starts well formed and empty, as the set does ...
LEMMA InitDone == Init => DoneInv /\ Abstract!Init
<1> SUFFICES ASSUME NEW num \in 1 .. MaxPieces, NEW set \in BOOLEAN, done = new(num, set)
             PROVE  DoneInv /\ Abstract!Init
  BY DEF Init
<1>1. num \in Nat \ {0}
  BY PieceBitsAssumption
<1> QED
  BY <1>1, NewIsWellFormed DEF DoneInv, Abstract!Init

\* ... and every step keeps it so and is a step of the set.
LEMMA NextDone ==
    DoneInv /\ [Next]_vars => DoneInv' /\ [Abstract!Next]_(Abstract!pieceSetVars)
<1> SUFFICES ASSUME DoneInv, [Next]_vars
             PROVE  DoneInv' /\ [Abstract!Next]_(Abstract!pieceSetVars)
  OBVIOUS
<1> USE DEF DoneInv
<1>1. done' = done => DoneInv' /\ [Abstract!Next]_(Abstract!pieceSetVars)
  BY DEF Abstract!pieceSetVars, Held, has_piece, WellFormed
<1>2. ASSUME NEW i \in 0 .. MaxPieces - 1, MarkPiece(i)
      PROVE  DoneInv' /\ [Abstract!Next]_(Abstract!pieceSetVars)
  <2>1. i \in Nat /\ i < done.num /\ done' = mark_piece(done, i)
    BY <1>2 DEF MarkPiece, index_check
  <2>2. WellFormed(done') /\ done'.num = done.num /\ Held(done') = Held(done) \cup {i}
    BY <2>1, MarkAdds
  <2>3. Abstract!Add(i)
    BY <2>1, <2>2 DEF Abstract!Add, Held, has_piece
  <2> QED
    BY <2>2, <2>3 DEF Abstract!Next, WellFormed
<1>3. ASSUME NEW i \in 0 .. MaxPieces - 1, UnmarkPiece(i)
      PROVE  DoneInv' /\ [Abstract!Next]_(Abstract!pieceSetVars)
  <2>1. i \in Nat /\ i < done.num /\ done' = ummark_piece(done, i)
    BY <1>3 DEF UnmarkPiece, index_check
  <2>2. WellFormed(done') /\ done'.num = done.num /\ Held(done') = Held(done) \ {i}
    BY <2>1, UnmarkRemoves
  <2>3. Abstract!Remove(i)
    BY <2>1, <2>2 DEF Abstract!Remove, Held, has_piece
  <2> QED
    BY <2>2, <2>3 DEF Abstract!Next, WellFormed
<1>4. (\E v \in Vectors : ReceiveBitfield(v)) \/ DropTheirs \/ UNCHANGED vars => done' = done
  BY DEF ReceiveBitfield, DropTheirs, vars
<1> QED
  BY <1>1, <1>2, <1>3, <1>4 DEF Next

\* Bitfield::mark_piece and ummark_piece (peer.rs:115-131) change the set of
\* pieces by one piece, for every number of pieces.
THEOREM BitfieldIsASet == Spec => ActsAsPieceSet
<1>1. Init => DoneInv /\ Abstract!Init
  BY InitDone
<1>2. DoneInv /\ [Next]_vars => DoneInv' /\ [Abstract!Next]_(Abstract!pieceSetVars)
  BY NextDone
<1> QED
  BY <1>1, <1>2, PTL DEF Spec, ActsAsPieceSet, Abstract!Spec

-----------------------------------------------------------------------------
(* The bitfield a peer sends.                                               *)

\* It is what `from` makes of the payload, under the torrent's number of pieces.
TheirsInv ==
    /\ sent \in Vectors \cup {<<>>}
    /\ sent # <<>> => theirs = [from(sent) EXCEPT !.num = done.num]

\* The peer's bitfield starts well formed ...
LEMMA InitTheirs == Init => TheirsInv
BY DEF Init, TheirsInv

\* ... and every step keeps it so.
LEMMA NextTheirs == TheirsInv /\ [Next]_vars => TheirsInv'
<1> SUFFICES ASSUME TheirsInv, [Next]_vars PROVE TheirsInv'
  OBVIOUS
<1>1. ASSUME NEW i \in 0 .. MaxPieces - 1, MarkPiece(i) \/ UnmarkPiece(i) PROVE TheirsInv'
  BY <1>1 DEF TheirsInv, MarkPiece, UnmarkPiece
<1>2. ASSUME NEW v \in Vectors, ReceiveBitfield(v) PROVE TheirsInv'
  BY <1>2 DEF TheirsInv, ReceiveBitfield
<1>3. DropTheirs => TheirsInv'
  BY DEF TheirsInv, DropTheirs
<1>4. UNCHANGED vars => TheirsInv'
  BY DEF TheirsInv, vars
<1> QED
  BY <1>1, <1>2, <1>3, <1>4 DEF Next

\* A byte whose first k bits, and no others, are ones.
Prefix(k) == 0 .. k - 1

\* A prefix of k bits has k bits.
LEMMA PrefixCardinality ==
    ASSUME NEW k \in 0 .. 8
    PROVE  IsFiniteSet(Prefix(k)) /\ Cardinality(Prefix(k)) = k
BY FS_Interval DEF Prefix

\* The shortest and the longest prefix of a byte.
LEMMA PrefixEnds == Prefix(0) = {} /\ Prefix(8) = AllBits
BY DEF Prefix, AllBits

\* A byte with as many ones as it has leading ones is a prefix.
LEMMA ByteCardinality ==
    ASSUME NEW B \in Byte
    PROVE  /\ Cardinality(B) \in 0 .. 8
           /\ \A k \in 0 .. 8 : Prefix(k) \subseteq B /\ Cardinality(B) = k => B = Prefix(k)
           /\ Cardinality(B) = 0 => B = Prefix(0)
           /\ Cardinality(B) = 8 => B = Prefix(8)
<1>1. B \subseteq Prefix(8)
  BY PrefixEnds DEF Byte, AllBits
<1>2. IsFiniteSet(B) /\ Cardinality(B) <= 8 /\ (Cardinality(B) = 8 => B = Prefix(8))
  BY <1>1, PrefixCardinality, FS_Subset
<1>3. Cardinality(B) \in Nat
  BY <1>2, FS_CardinalityType
<1>4. Cardinality(B) = 0 => B = Prefix(0)
  BY <1>2, FS_EmptySet, PrefixEnds
<1>5. ASSUME NEW k \in 0 .. 8, Prefix(k) \subseteq B, Cardinality(B) = k
      PROVE  B = Prefix(k)
  BY <1>2, <1>5, PrefixCardinality, FS_Subset
<1> QED
  BY <1>2, <1>3, <1>4, <1>5

\* The number of pieces `from` guesses of a payload with q bytes before byte B,
\* and that byte as from_vec masks it.
Guess(q, B) == 8 * q + Cardinality(B)
Masked(q, B) == IF Guess(q, B) % 8 = 0 THEN B ELSE B \cap LastMask(Guess(q, B))

\* The mask guessed from the last byte equals that byte, so masked, exactly when
\* the byte is a prefix with at least one bit.
LEMMA GuessedMask ==
    ASSUME NEW B \in Byte, NEW q \in Nat
    PROVE  Masked(q, B) = LastMask(Guess(q, B)) <=> \E k \in 1 .. 8 : B = Prefix(k)
<1> DEFINE c == Cardinality(B)
           guess == Guess(q, B)
           masked == Masked(q, B)
<1>1. /\ c \in 0 .. 8
      /\ \A k \in 0 .. 8 : Prefix(k) \subseteq B /\ c = k => B = Prefix(k)
      /\ c = 0 => B = Prefix(0)
      /\ c = 8 => B = Prefix(8)
  BY ByteCardinality
<1>2. \A k \in 0 .. 8 : B = Prefix(k) => c = k
  BY PrefixCardinality
<1>3. guess = 8 * q + c /\ masked = IF guess % 8 = 0 THEN B ELSE B \cap LastMask(guess)
  BY DEF Guess, Masked
<1> HIDE DEF c, guess, masked
<1>4. guess % 8 = IF c = 8 THEN 0 ELSE c
  BY <1>1, <1>3
<1>5. LastMask(guess) = IF c \in 1 .. 7 THEN Prefix(c) ELSE Prefix(8)
  <2>1. CASE c \in 1 .. 7
    <3>1. guess % 8 = c /\ c # 0
      BY <1>4, <2>1
    <3> QED
      BY <2>1, <3>1 DEF LastMask, Prefix
  <2>2. CASE c \notin 1 .. 7
    <3>1. guess % 8 = 0
      BY <1>1, <1>4, <2>2
    <3> QED
      BY <2>2, <3>1, PrefixEnds DEF LastMask
  <2> QED
    BY <2>1, <2>2
<1>6. masked = IF c \in 1 .. 7 THEN B \cap Prefix(c) ELSE B
  BY <1>1, <1>3, <1>4, <1>5
<1>7. masked = LastMask(guess) <=> c # 0 /\ B = Prefix(c)
  <2>1. CASE c \in 1 .. 7
    <3>1. masked = B \cap Prefix(c) /\ LastMask(guess) = Prefix(c) /\ c # 0
      BY <1>5, <1>6, <2>1
    <3>2. Prefix(c) \subseteq B => B = Prefix(c)
      BY <1>1
    <3> QED
      BY <3>1, <3>2
  <2>2. CASE c = 8
    <3>1. masked = B /\ LastMask(guess) = Prefix(c) /\ c # 0
      BY <1>5, <1>6, <2>2
    <3> QED
      BY <2>2, <3>1
  <2>3. CASE c = 0
    <3>1. masked = {} /\ LastMask(guess) = AllBits
      BY <1>1, <1>5, <1>6, <2>3, PrefixEnds
    <3>2. masked # LastMask(guess)
      BY <3>1 DEF AllBits
    <3> QED
      BY <2>3, <3>2
  <2> QED
    BY <1>1, <2>1, <2>2, <2>3
<1>8. (c # 0 /\ B = Prefix(c)) <=> \E k \in 1 .. 8 : B = Prefix(k)
  <2>1. ASSUME NEW k \in 1 .. 8, B = Prefix(k) PROVE c # 0 /\ B = Prefix(c)
    BY <1>2, <2>1
  <2>2. c # 0 => c \in 1 .. 8
    BY <1>1
  <2> QED
    BY <2>1, <2>2
<1> QED
  BY <1>7, <1>8 DEF guess, masked

\* The payload of a peer that all() takes for a seed.
IsPrefix(v) ==
    \E k \in 1 .. 8 :
        /\ v[Len(v)] = Prefix(k)
        /\ \A j \in 1 .. Len(v) - 1 : v[j] = AllBits

\* all() of what `from` makes of a payload, under any number of pieces.
LEMMA AllOfReceived ==
    ASSUME NEW v \in Seq(Byte), v # <<>>, NEW num
    PROVE  all([from(v) EXCEPT !.num = num]) <=> IsPrefix(v)
<1> DEFINE n == Len(v)
           guess == 8 * (n - 1) + Cardinality(v[n])
           bf == [from(v) EXCEPT !.num = num]
<1>1. n \in Nat \ {0} /\ v[n] \in Byte
  OBVIOUS
<1>2. /\ bf.last_mask = LastMask(guess)
      /\ bf.masks = IF guess % 8 = 0 THEN v ELSE [v EXCEPT ![n] = @ \cap LastMask(guess)]
  BY DEF from, from_vec
<1> HIDE DEF bf
<1>3. /\ Len(bf.masks) = n
      /\ \A j \in 1 .. n - 1 : bf.masks[j] = v[j]
      /\ bf.masks[n] = IF guess % 8 = 0 THEN v[n] ELSE v[n] \cap LastMask(guess)
  <2>1. CASE guess % 8 = 0
    BY <1>2, <2>1
  <2>2. CASE guess % 8 # 0
    <3> DEFINE last == v[n] \cap LastMask(guess)
    <3>1. bf.masks = [v EXCEPT ![n] = last]
      BY <1>2, <2>2
    <3>2. last \in Byte
      BY <1>1 DEF Byte
    <3> HIDE DEF last
    <3>3. /\ Len(bf.masks) = n /\ bf.masks[n] = last
          /\ \A j \in 1 .. n : j # n => bf.masks[j] = v[j]
      BY <1>1, <3>1, <3>2, ExceptSeq
    <3> QED
      BY <1>1, <2>2, <3>3 DEF last
  <2> QED
    BY <2>1, <2>2
<1>4. all(bf) <=> bf.masks[n] = LastMask(guess) /\ \A j \in 1 .. n - 1 : v[j] = AllBits
  BY <1>2, <1>3, Zenon DEF all
<1>5. bf.masks[n] = LastMask(guess) <=> \E k \in 1 .. 8 : v[n] = Prefix(k)
  <2>1. guess = Guess(n - 1, v[n]) /\ bf.masks[n] = Masked(n - 1, v[n])
    BY <1>3 DEF Guess, Masked
  <2>2. n - 1 \in Nat /\ v[n] \in Byte
    BY <1>1
  <2> HIDE DEF guess
  <2> QED
    BY <2>1, <2>2, GuessedMask
<1> QED
  BY <1>4, <1>5 DEF IsPrefix, bf

\* Bitfield::all (peer.rs:145) of a peer's bitfield, in every state.
THEOREM AcceptedIsPrefix == Spec => []AcceptedIsAPrefix
<1>1. TheirsInv => AcceptedIsAPrefix
  <2> SUFFICES ASSUME TheirsInv, sent # <<>> PROVE all(theirs) <=> IsPrefix(sent)
    BY DEF AcceptedIsAPrefix, IsPrefix, Prefix
  <2>1. sent \in Seq(Byte) /\ theirs = [from(sent) EXCEPT !.num = done.num]
    BY PieceBitsAssumption DEF TheirsInv
  <2> QED
    BY <2>1, AllOfReceived
<1> QED
  BY <1>1, InitTheirs, NextTheirs, PTL DEF Spec

\* What a seed sends is ones, and then the padding of the last byte.
LEMMA SeedSendsPrefix ==
    ASSUME NEW num \in Nat \ {0}
    PROVE  LET v == Encoded(0 .. num - 1, num) IN v # <<>> /\ IsPrefix(v)
<1> DEFINE n == Elements(num)
           v == Encoded(0 .. num - 1, num)
<1>1. n \in Nat \ {0} /\ 8 * (n - 1) < num /\ num <= 8 * n
  BY SMTT(30) DEF Elements
<1>2. v = [j \in 1 .. n |-> {b \in AllBits : 8 * (j - 1) + b \in 0 .. num - 1}]
  BY DEF Encoded
<1> HIDE DEF n, v
<1>3. Len(v) = n /\ v # <<>>
  BY <1>1, <1>2
<1>4. ASSUME NEW j \in 1 .. n - 1 PROVE v[j] = AllBits
  BY <1>1, <1>2 DEF AllBits
<1> DEFINE k == num - 8 * (n - 1)
<1>5. k \in 1 .. 8
  BY <1>1
<1>6. v[n] = Prefix(k)
  <2>1. v[n] = {b \in AllBits : 8 * (n - 1) + b \in 0 .. num - 1}
    BY <1>1, <1>2
  <2>2. \A b \in AllBits : 8 * (n - 1) + b \in 0 .. num - 1 <=> b \in Prefix(k)
    BY <1>1 DEF AllBits, Prefix
  <2>3. Prefix(k) \subseteq AllBits
    BY <1>5 DEF AllBits, Prefix
  <2> QED
    BY <2>1, <2>2, <2>3
<1> HIDE DEF k
<1> QED
  BY <1>3, <1>4, <1>5, <1>6 DEF IsPrefix, v

\* A peer with every piece is recognised by the Curious arm of download_pieces
\* (downloader.rs:180-188), for every number of pieces.
THEOREM SeedsAreRecognised == Spec => []SeedIsRecognised
<1>1. DoneInv /\ TheirsInv => SeedIsRecognised
  <2> SUFFICES ASSUME DoneInv, TheirsInv, sent = Encoded(0 .. done.num - 1, done.num)
               PROVE  all(theirs)
    BY DEF SeedIsRecognised
  <2>1. done.num \in Nat \ {0}
    BY PieceBitsAssumption DEF DoneInv
  <2>2. sent # <<>> /\ IsPrefix(sent)
    BY <2>1, SeedSendsPrefix
  <2>3. sent \in Seq(Byte) /\ theirs = [from(sent) EXCEPT !.num = done.num]
    BY <2>2, PieceBitsAssumption DEF TheirsInv
  <2> QED
    BY <2>2, <2>3, AllOfReceived
<1> QED
  BY <1>1, InitDone, NextDone, InitTheirs, NextTheirs, PTL DEF Spec

-----------------------------------------------------------------------------
(* The checked constructor.                                                 *)

\* What try_from_vec makes of a payload of the right length.
LEMMA CheckedMasks ==
    ASSUME NEW num \in Nat \ {0}, NEW v \in Seq(Byte), Len(v) = Elements(num)
    PROVE  LET bf == from_vec(v, num)
               n == Len(v)
           IN  /\ n \in Nat \ {0}
               /\ Len(bf.masks) = n /\ bf.last_mask = LastMask(num)
               /\ \A j \in 1 .. n - 1 : bf.masks[j] = v[j]
               /\ bf.masks[n] = v[n] \cap LastMask(num)
<1> DEFINE n == Len(v)
           last == v[n] \cap LastMask(num)
           bf == from_vec(v, num)
<1>1. n \in Nat \ {0} /\ v # <<>>
  BY SMTT(30) DEF Elements
<1>2. v[n] \in Byte /\ last \in Byte
  BY <1>1 DEF Byte
<1>3. bf.last_mask = LastMask(num) /\ bf.masks = IF num % 8 = 0 THEN v ELSE [v EXCEPT ![n] = last]
  BY <1>1 DEF from_vec
<1>4. num % 8 = 0 => v[n] = last
  BY <1>2 DEF LastMask, Byte, AllBits
<1> HIDE DEF bf, last
<1>5. CASE num % 8 = 0
  BY <1>1, <1>3, <1>4, <1>5 DEF bf, last
<1>6. CASE num % 8 # 0
  <2>1. bf.masks = [v EXCEPT ![n] = last]
    BY <1>3, <1>6
  <2>2. /\ Len(bf.masks) = n /\ bf.masks[n] = last
        /\ \A j \in 1 .. n : j # n => bf.masks[j] = v[j]
    BY <1>1, <1>2, <2>1, ExceptSeq
  <2> QED
    BY <1>1, <1>3, <2>2 DEF bf, last
<1> QED
  BY <1>5, <1>6

\* all() of it says whether the payload offers every piece.
LEMMA CheckedAll ==
    ASSUME NEW num \in Nat \ {0}, NEW v \in Seq(Byte), Len(v) = Elements(num)
    PROVE  all(from_vec(v, num)) <=> Offered(v, num) = 0 .. num - 1
<1> DEFINE n == Len(v)
           bf == from_vec(v, num)
           Full == LastMask(num) \subseteq v[n] /\ \A j \in 1 .. n - 1 : v[j] = AllBits
           Everything == \A i \in 0 .. num - 1 : i % 8 \in v[i \div 8 + 1]
<1>1. n \in Nat \ {0} /\ 8 * (n - 1) < num /\ num <= 8 * n
  BY SMTT(30) DEF Elements
<1>2. /\ Len(bf.masks) = n /\ bf.last_mask = LastMask(num)
      /\ \A j \in 1 .. n - 1 : bf.masks[j] = v[j]
      /\ bf.masks[n] = v[n] \cap LastMask(num)
  BY CheckedMasks
<1>3. \A j \in 1 .. n : v[j] \in Byte
  OBVIOUS
<1> HIDE DEF bf, n
<1>4. all(bf) <=> Full
  BY <1>2, Zenon DEF all
<1>5. LastMask(num) = {b \in AllBits : 8 * (n - 1) + b < num}
  <2>1. CASE num % 8 = 0
    BY <1>1, <2>1 DEF LastMask, AllBits
  <2>2. CASE num % 8 # 0
    <3>1. num % 8 = num - 8 * (n - 1) /\ num % 8 \in 1 .. 7
      BY <1>1, <2>2
    <3> QED
      BY <1>1, <2>2, <3>1 DEF LastMask, AllBits
  <2> QED
    BY <2>1, <2>2
<1>6. ASSUME Full, NEW i \in 0 .. num - 1 PROVE i % 8 \in v[i \div 8 + 1]
  <2>1. /\ i = 8 * (i \div 8) + (i % 8) /\ i \div 8 \in Nat
        /\ i % 8 \in AllBits /\ i \div 8 + 1 \in 1 .. n
    BY Position DEF n
  <2>2. CASE i \div 8 + 1 = n
    <3>1. 8 * (n - 1) + (i % 8) = i
      BY <1>1, <2>1, <2>2
    <3>2. i % 8 \in LastMask(num)
      BY <1>5, <2>1, <3>1
    <3> QED
      BY <1>6, <2>2, <3>2
  <2>3. CASE i \div 8 + 1 # n
    BY <1>1, <1>6, <2>1, <2>3
  <2> QED
    BY <2>2, <2>3
<1>7. ASSUME Everything PROVE Full
  <2>1. ASSUME NEW j \in 1 .. n, NEW b \in AllBits, 8 * (j - 1) + b < num
        PROVE  b \in v[j]
    <3>1. j - 1 \in Nat /\ 8 * (j - 1) + b \in 0 .. num - 1
      BY <1>1, <2>1 DEF AllBits
    <3>2. (8 * (j - 1) + b) \div 8 = j - 1 /\ (8 * (j - 1) + b) % 8 = b
      BY <3>1, PositionInverse
    <3>3. b \in v[(j - 1) + 1]
      BY <1>7, <3>1, <3>2
    <3> QED
      BY <1>1, <3>3
  <2>2. LastMask(num) \subseteq v[n]
    BY <1>1, <1>5, <2>1
  <2>3. ASSUME NEW j \in 1 .. n - 1 PROVE v[j] = AllBits
    <3>1. \A b \in AllBits : b \in v[j]
      BY <1>1, <2>1 DEF AllBits
    <3> QED
      BY <1>1, <1>3, <3>1 DEF Byte, AllBits
  <2> QED
    BY <2>2, <2>3
<1>8. Offered(v, num) = 0 .. num - 1 <=> Everything
  <2>1. \A i \in 0 .. num - 1 : i \div 8 < n
    <3> SUFFICES ASSUME NEW i \in 0 .. num - 1 PROVE i \div 8 < n
      OBVIOUS
    <3>1. i \div 8 \in Nat /\ i \div 8 + 1 \in 1 .. n
      BY Position DEF n
    <3> QED
      BY <1>1, <3>1
  <2> QED
    BY <2>1 DEF Offered, n
<1> QED
  BY <1>4, <1>6, <1>7, <1>8 DEF bf

\* try_from_vec (peer.rs:79) with all() judges every payload right that is not longer
\* than the torrent's pieces need, for every number of pieces.
THEOREM CheckedVerdict == Spec => []CheckedVerdictIsExact
<1>1. DoneInv /\ TheirsInv => CheckedVerdictIsExact
  <2> DEFINE num == done.num
             n == Elements(num)
             checked == try_from_vec(sent, num)
  <2> SUFFICES ASSUME DoneInv, TheirsInv, sent # <<>>, Len(sent) <= n
               PROVE  checked # Unrepresentible /\ all(checked)
                          <=> Offered(sent, num) = 0 .. num - 1
    BY DEF CheckedVerdictIsExact
  <2>1. num \in Nat \ {0} /\ sent \in Seq(Byte) /\ Len(sent) \in Nat
    BY PieceBitsAssumption DEF DoneInv, TheirsInv
  <2>2. n \in Nat \ {0} /\ 8 * (n - 1) < num
    BY <2>1, SMTT(30) DEF Elements
  <2>3. CASE Len(sent) < n
    <3>1. checked = Unrepresentible
      BY <2>3 DEF try_from_vec
    <3>2. num - 1 \in 0 .. num - 1 /\ ~ ((num - 1) \div 8 < Len(sent))
      BY <2>1, <2>2, <2>3
    <3>3. num - 1 \notin Offered(sent, num)
      BY <3>2 DEF Offered
    <3> HIDE DEF num, checked
    <3> QED
      BY <3>1, <3>2, <3>3
  <2>4. CASE Len(sent) = n
    <3>1. checked = from_vec(sent, num)
      BY <2>2, <2>4 DEF try_from_vec
    <3>2. checked # Unrepresentible
      <4>1. "num" \in DOMAIN from_vec(sent, num)
        BY DEF from_vec
      <4>2. "num" \notin DOMAIN Unrepresentible
        BY DEF Unrepresentible
      <4> HIDE DEF checked
      <4> QED
        BY <3>1, <4>1, <4>2
    <3>3. all(from_vec(sent, num)) <=> Offered(sent, num) = 0 .. num - 1
      BY <2>1, <2>4, CheckedAll
    <3> HIDE DEF num, checked
    <3> QED
      BY <3>1, <3>2, <3>3
  <2> HIDE DEF num, n
  <2> QED
    BY <2>1, <2>2, <2>3, <2>4
<1> QED
  BY <1>1, InitDone, NextDone, InitTheirs, NextTheirs, PTL DEF Spec

-----------------------------------------------------------------------------
(* The observers that read whole bytes.                                     *)

\* Every one bit of a well-formed bitfield is the bit of a piece it holds.
LEMMA BitOfPiece ==
    ASSUME NEW bf, WellFormed(bf), NEW k \in 1 .. Len(bf.masks), NEW b \in bf.masks[k]
    PROVE  LET i == 8 * (k - 1) + b
           IN  b \in AllBits /\ i \in Held(bf) /\ i \div 8 + 1 = k /\ i % 8 = b
<1> DEFINE i == 8 * (k - 1) + b
<1>1. bf.masks \in Seq(Byte) /\ k - 1 \in Nat
  BY DEF WellFormed, Bitfields
<1>2. b \in AllBits
  BY <1>1 DEF Byte, AllBits
<1>3. i \in 0 .. bf.num - 1
  BY <1>1, <1>2 DEF WellFormed, Bitfields, AllBits
<1>4. i \div 8 = k - 1 /\ i % 8 = b
  BY <1>1, <1>2, PositionInverse
<1> HIDE DEF i
<1>5. i \div 8 + 1 = k
  BY <1>1, <1>4
<1> QED
  BY <1>2, <1>3, <1>4, <1>5 DEF Held, has_piece, i

\* Pieces and one bits correspond one to one.
LEMMA AsManyBitsAsPieces ==
    ASSUME NEW bf, WellFormed(bf)
    PROVE  Cardinality(OneBits(bf)) = Cardinality(Held(bf)) /\ IsFiniteSet(Held(bf))
<1> DEFINE H == Held(bf)
           O == OneBits(bf)
           f == [i \in H |-> <<i \div 8 + 1, i % 8>>]
<1>1. bf.num \in Nat /\ H \subseteq 0 .. bf.num - 1
  BY DEF WellFormed, Bitfields, Held
<1>2. IsFiniteSet(H)
  <2> DEFINE last == bf.num - 1
  <2>1. last \in Int /\ 0 \in Int
    BY <1>1
  <2> HIDE DEF last
  <2>2. IsFiniteSet(0 .. last)
    BY <2>1, FS_Interval
  <2>3. H \in SUBSET (0 .. last)
    BY <1>1 DEF last
  <2> HIDE DEF H
  <2> QED
    BY <2>2, <2>3, FS_Subset
<1>3. \A i \in H : f[i] \in O
  <2> SUFFICES ASSUME NEW i \in H PROVE f[i] \in O
    OBVIOUS
  <2>1. i \div 8 + 1 \in 1 .. Len(bf.masks) /\ i % 8 \in AllBits
    BY <1>1, Position DEF WellFormed
  <2>2. i % 8 \in bf.masks[i \div 8 + 1]
    BY DEF Held, has_piece
  <2> QED
    BY <2>1, <2>2 DEF OneBits
<1>4. \A i, j \in H : f[i] = f[j] => i = j
  <2> SUFFICES ASSUME NEW i \in H, NEW j \in H, f[i] = f[j] PROVE i = j
    OBVIOUS
  <2>1. i \div 8 + 1 = j \div 8 + 1 /\ i % 8 = j % 8
    OBVIOUS
  <2>2. /\ i = 8 * (i \div 8) + (i % 8) /\ i \div 8 \in Nat
        /\ j = 8 * (j \div 8) + (j % 8) /\ j \div 8 \in Nat
    BY <1>1, Position
  <2> QED
    BY <2>1, <2>2
<1>5. \A w \in O : \E i \in H : f[i] = w
  <2> SUFFICES ASSUME NEW w \in O PROVE \E i \in H : f[i] = w
    OBVIOUS
  <2>1. /\ w = <<w[1], w[2]>>
        /\ w[1] \in 1 .. Len(bf.masks) /\ w[2] \in bf.masks[w[1]]
    BY DEF OneBits
  <2> DEFINE i == 8 * (w[1] - 1) + w[2]
  <2>2. i \in H /\ i \div 8 + 1 = w[1] /\ i % 8 = w[2]
    BY <2>1, BitOfPiece
  <2> HIDE DEF i, H
  <2>3. f[i] = <<w[1], w[2]>>
    BY <2>2
  <2> QED
    BY <2>1, <2>2, <2>3
<1> HIDE DEF H, O, f
<1>6. f \in [H -> O]
  BY <1>3 DEF f
<1>7. f \in Bijection(H, O)
  BY <1>4, <1>5, <1>6 DEF Bijection, Injection, Surjection, IsInjective
<1>8. ExistsBijection(H, O)
  BY <1>7 DEF ExistsBijection
<1> QED
  BY <1>2, <1>8, FS_Bijection DEF H, O

\* all and none of a well-formed bitfield.
LEMMA AllAndNone ==
    ASSUME NEW bf, WellFormed(bf)
    PROVE  /\ all(bf) <=> Held(bf) = 0 .. bf.num - 1
           /\ none(bf) <=> Held(bf) = {}
<1> DEFINE num == bf.num
           v == bf.masks
           n == Len(v)
<1>1. num \in Nat \ {0} /\ v \in Seq(Byte) /\ n = Elements(num) /\ bf.last_mask = LastMask(num)
  BY DEF WellFormed, Bitfields
<1>2. Held(bf) = Offered(v, num)
  <2>1. ASSUME NEW i \in 0 .. num - 1 PROVE i \div 8 < n
    <3>1. i \div 8 \in Nat /\ i \div 8 + 1 \in 1 .. n
      BY <1>1, Position
    <3> QED
      BY <1>1, <3>1
  <2> QED
    BY <2>1 DEF Held, has_piece, Offered
<1>3. n \in Nat \ {0} /\ 8 * (n - 1) < num /\ num <= 8 * n
  BY <1>1, SMTT(30) DEF Elements
<1>4. v[n] \subseteq LastMask(num)
  <2>1. \A b \in v[n] : b \in AllBits /\ 8 * (n - 1) + b < num
    <3>1. n \in 1 .. Len(bf.masks)
      BY <1>3
    <3>2. v[n] \subseteq AllBits
      BY <1>1, <3>1 DEF Byte, AllBits
    <3>3. \A b \in bf.masks[n] : 8 * (n - 1) + b < bf.num
      BY <3>1 DEF WellFormed
    <3> QED
      BY <3>2, <3>3
  <2>2. CASE num % 8 = 0
    BY <2>1, <2>2 DEF LastMask
  <2>3. CASE num % 8 # 0
    <3> HIDE DEF n, v, num
    <3>1. num % 8 = num - 8 * (n - 1)
      BY <1>1, <1>3, <2>3
    <3>2. ASSUME NEW b \in v[n] PROVE b \in 0 .. (num % 8) - 1
      <4> DEFINE r == num % 8
      <4>1. b \in 0 .. 7 /\ 8 * (n - 1) + b < num /\ r = num - 8 * (n - 1)
        BY <2>1, <3>1 DEF AllBits
      <4> HIDE DEF r
      <4>2. b \in 0 .. r - 1
        BY <1>1, <1>3, <4>1
      <4> QED
        BY <4>2 DEF r
    <3> QED
      BY <2>3, <3>2 DEF LastMask
  <2> QED
    BY <2>2, <2>3
<1>5. all(bf) <=> all(from_vec(v, num))
  <2> DEFINE checked == from_vec(v, num)
  <2>1. /\ Len(checked.masks) = n /\ checked.last_mask = LastMask(num)
        /\ \A j \in 1 .. n - 1 : checked.masks[j] = v[j]
        /\ checked.masks[n] = v[n] \cap LastMask(num)
    BY <1>1, CheckedMasks
  <2>2. checked.masks[n] = v[n]
    BY <1>4, <2>1
  <2> HIDE DEF checked
  <2> QED
    BY <1>1, <2>1, <2>2 DEF all, checked
<1>6. none(bf) <=> Held(bf) = {}
  <2>1. ASSUME none(bf), NEW i \in Held(bf) PROVE FALSE
    <3>1. i \in 0 .. num - 1 /\ i % 8 \in v[i \div 8 + 1]
      BY DEF Held, has_piece
    <3>2. i \div 8 + 1 \in 1 .. n
      BY <1>1, <3>1, Position
    <3> QED
      BY <2>1, <3>1, <3>2 DEF none
  <2>2. ASSUME ~ none(bf) PROVE Held(bf) # {}
    <3>1. PICK k \in 1 .. n : v[k] # {}
      BY <1>1, <2>2 DEF none
    <3>2. PICK b \in v[k] : TRUE
      BY <3>1
    <3> QED
      BY BitOfPiece
  <2> QED
    BY <2>1, <2>2
<1> QED
  BY <1>1, <1>2, <1>5, <1>6, CheckedAll

\* num_set, num_unset, all and none (peer.rs:133-152) of `done` agree with has_piece, in
\* every state and for every number of pieces.
THEOREM ObserversAreRight == Spec => []ObserversAgree
<1>1. DoneInv => ObserversAgree
  <2> SUFFICES ASSUME DoneInv PROVE ObserversAgree
    OBVIOUS
  <2> DEFINE H == Held(done)
             All == 0 .. done.num - 1
  <2>1. WellFormed(done) /\ done.num \in Nat
    BY DEF DoneInv, WellFormed, Bitfields
  <2>2. num_set(done) = Cardinality(H) /\ IsFiniteSet(H)
    BY <2>1, AsManyBitsAsPieces DEF num_set
  <2>3. IsFiniteSet(All) /\ Cardinality(All) = done.num
    <3> DEFINE last == done.num - 1
    <3>1. last \in Int /\ 0 \in Int
      BY <2>1
    <3>2. (IF 0 > last THEN 0 ELSE last - 0 + 1) = done.num
      BY <2>1
    <3> HIDE DEF last
    <3>3. IsFiniteSet(0 .. last) /\ Cardinality(0 .. last) = IF 0 > last THEN 0 ELSE last - 0 + 1
      BY <3>1, FS_Interval
    <3> QED
      BY <3>2, <3>3 DEF last
  <2>4. All \cap H = H
    BY DEF Held
  <2>5. Cardinality(All \ H) = Cardinality(All) - Cardinality(All \cap H)
    BY <2>3, FS_Difference
  <2>6. num_unset(done) = Cardinality(All \ H)
    BY <2>2, <2>3, <2>4, <2>5 DEF num_unset
  <2>7. (all(done) <=> H = All) /\ (none(done) <=> H = {})
    BY <2>1, AllAndNone
  <2> QED
    BY <2>2, <2>6, <2>7 DEF ObserversAgree
<1> QED
  BY <1>1, InitDone, NextDone, PTL DEF Spec
-----------------------------------------------------------------------------
(* Types.                                                                   *)

\* What `from` makes of a payload has a byte for each of its bytes.
LEMMA FromIsTyped ==
    ASSUME NEW v \in Seq(Byte), v # <<>>, NEW num \in Nat
    PROVE  /\ [from(v) EXCEPT !.num = num] \in Bitfields
           /\ Len([from(v) EXCEPT !.num = num].masks) = Len(v)
<1> DEFINE n == Len(v)
           guess == 8 * (n - 1) + Cardinality(v[n])
           bf == from_vec(v, guess)
<1>1. n \in Nat \ {0} /\ v[n] \in Byte
  OBVIOUS
<1>2. guess \in Nat
  <2>1. Cardinality(v[n]) \in Nat
    BY <1>1, ByteCardinality
  <2> QED
    BY <1>1, <2>1
<1>3. LastMask(guess) \in Byte
  <2> HIDE DEF guess
  <2> QED
    BY <1>2 DEF LastMask, Byte, AllBits
<1>4. bf.masks \in Seq(Byte) /\ Len(bf.masks) = n
  <2> DEFINE cut == [v EXCEPT ![n] = @ \cap LastMask(guess)]
  <2>1. v[n] \cap LastMask(guess) \in Byte
    BY <1>1 DEF Byte
  <2>2. cut \in Seq(Byte) /\ Len(cut) = n
    <3> HIDE DEF guess
    <3> QED
      BY <1>1, <2>1
  <2>3. bf.masks \in {v, cut}
    <3> HIDE DEF guess
    <3> QED
      BY DEF from_vec
  <2> HIDE DEF bf, cut
  <2> QED
    BY <2>2, <2>3
<1>5. bf.last_mask = LastMask(guess) /\ [bf EXCEPT !.num = num]
         = [masks |-> bf.masks, num |-> num, last_mask |-> bf.last_mask]
  <2> DEFINE masks == IF guess % 8 = 0 \/ v = <<>> THEN v
                      ELSE [v EXCEPT ![Len(v)] = @ \cap LastMask(guess)]
             last == LastMask(guess)
  <2> HIDE DEF guess
  <2>1. bf = [masks |-> masks, num |-> guess, last_mask |-> last]
    BY Zenon DEF from_vec
  <2> HIDE DEF bf, masks, last
  <2> QED
    BY <2>1 DEF last
<1> HIDE DEF bf, guess
<1>6. from(v) = bf
  BY DEF from, bf, guess
<1>7. [bf EXCEPT !.num = num] \in Bitfields /\ [bf EXCEPT !.num = num].masks = bf.masks
  BY <1>3, <1>4, <1>5 DEF Bitfields
<1> QED
  BY <1>4, <1>6, <1>7

TheirsTyped ==
    /\ theirs \in Bitfields
    /\ Len(theirs.masks) = IF sent = <<>> THEN Elements(theirs.num) ELSE Len(sent)

\* A bitfield without a piece, made for the torrent.
LEMMA NothingIsTyped ==
    ASSUME NEW num \in Nat \ {0}
    PROVE  new(num, FALSE) \in Bitfields /\ Len(new(num, FALSE).masks) = Elements(new(num, FALSE).num)
BY NewIsWellFormed DEF WellFormed

\* The types of the peer's bitfield are kept.
LEMMA NextTyped == DoneInv /\ TheirsTyped /\ [Next]_vars => TheirsTyped'
<1> SUFFICES ASSUME DoneInv, TheirsTyped, [Next]_vars PROVE TheirsTyped'
  OBVIOUS
<1>1. done.num \in Nat \ {0}
  BY PieceBitsAssumption DEF DoneInv
<1>2. ASSUME NEW i \in 0 .. MaxPieces - 1, MarkPiece(i) \/ UnmarkPiece(i) PROVE TheirsTyped'
  BY <1>2 DEF TheirsTyped, MarkPiece, UnmarkPiece
<1>3. ASSUME NEW v \in Vectors, ReceiveBitfield(v) PROVE TheirsTyped'
  <2>1. v \in Seq(Byte) /\ v # <<>>
    BY PieceBitsAssumption
  <2>2. sent' = v /\ theirs' = [from(v) EXCEPT !.num = done.num]
    BY <1>3 DEF ReceiveBitfield
  <2>3. theirs' \in Bitfields /\ Len(theirs'.masks) = Len(v)
    BY <1>1, <2>1, <2>2, FromIsTyped
  <2> QED
    BY <2>1, <2>2, <2>3 DEF TheirsTyped
<1>4. CASE DropTheirs
  <2>1. sent' = <<>> /\ theirs' = new(done.num, FALSE)
    BY <1>4 DEF DropTheirs
  <2> QED
    BY <1>1, <2>1, NothingIsTyped DEF TheirsTyped
<1>5. CASE UNCHANGED vars
  BY <1>5 DEF TheirsTyped, vars
<1> QED
  BY <1>2, <1>3, <1>4, <1>5 DEF Next

\* Both bitfields keep their types: a byte per eight pieces, or one per byte received.
THEOREM TypeCorrect == Spec => []TypeOK
<1>1. Init => DoneInv /\ TheirsInv /\ TheirsTyped
  <2> SUFFICES ASSUME Init PROVE TheirsTyped
    BY InitDone, InitTheirs
  <2>1. done.num \in Nat \ {0} /\ sent = <<>> /\ theirs = new(done.num, FALSE)
    BY InitDone, PieceBitsAssumption DEF Init, DoneInv
  <2> QED
    BY <2>1, NothingIsTyped DEF TheirsTyped
<1>2. DoneInv /\ [Next]_vars => DoneInv'
  BY NextDone
<1>3. DoneInv /\ TheirsInv /\ TheirsTyped => TypeOK
  BY DEF DoneInv, WellFormed, TheirsInv, TheirsTyped, TypeOK
<1> QED
  BY <1>1, <1>2, <1>3, NextTheirs, NextTyped, PTL DEF Spec
===============================================================================
