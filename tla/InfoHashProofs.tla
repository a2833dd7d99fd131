----------------------------- MODULE InfoHashProofs ----------------------------
(***************************************************************************)
(* A bencoded document is read, written again and digested: proofs for     *)
(* every document.                                                         *)
(*                                                                         *)
(* First what is done to bytes before they are digested, their padding to  *)
(* whole chunks and the words of these; then the parser and the encoder;   *)
(* and at the end the theorems about the documents that are read.          *)
(***************************************************************************)
EXTENDS InfoHash, Recursion, FiniteSetTheorems

-----------------------------------------------------------------------------
(* Padding fills whole chunks, with no more zeros than that takes, and     *)
(* loses nothing: messages that are padded alike are the same message.     *)
(* This is for every size of chunks and of the length field.  The argument *)
(* for the last part looks at where the marker of the longer message would *)
(* be: in the padding of a shorter one there is a zero.  The length field  *)
(* is not needed for it, and may wrap.                                     *)

LEMMA Sizes ==
    /\ ChunkSize \in Nat \ {0} /\ FieldSize \in Nat /\ FieldSize < ChunkSize
    /\ WordSize \in Nat \ {0}
  BY DigestAssumption

\* The remainder of a division, for any divisor.
LEMMA Remainder ==
    ASSUME NEW a \in Int, NEW d \in Nat \ {0}
    PROVE  /\ a % d \in 0 .. d - 1
           /\ a \div d \in Int
           /\ a = d * (a \div d) + (a % d)
  OBVIOUS

\* The parts of a padded message: pad_bytes keeps the message, marks its end and
\* fills up with zeros.
LEMMA PaddedParts ==
    ASSUME NEW bytes \in Seq(Byte), NEW bigEndian \in BOOLEAN
    PROVE  LET n == Len(bytes)
               z == Zeros(n)
               padded == pad_bytes(bytes, bigEndian)
           IN  /\ z \in 0 .. ChunkSize - 1
               /\ Len(padded) = n + 1 + z + FieldSize
               /\ \A k \in 1 .. n : padded[k] = bytes[k]
               /\ padded[n + 1] = Marker
               /\ \A k \in n + 2 .. n + 1 + z : padded[k] = 0
  <1> DEFINE n == Len(bytes)
             z == Zeros(n)
             zeros == [k \in 1 .. z |-> 0]
             field == [k \in 1 .. FieldSize |-> ByteOf(8 * n, k, FieldSize, bigEndian)]
             S == Int \cup {ByteOf(8 * n, k, FieldSize, bigEndian) : k \in 1 .. FieldSize}
  <1>1. n \in Nat /\ z \in 0 .. ChunkSize - 1
    BY Remainder, Sizes DEF Zeros, Room
  <1> HIDE DEF n, z
  <1>2. zeros \in Seq(S) /\ Len(zeros) = z
    BY <1>1, Sizes
  <1>3. field \in Seq(S) /\ Len(field) = FieldSize
    BY Sizes
  <1>4. bytes \in Seq(S) /\ <<Marker>> \in Seq(S) /\ Len(bytes) = n
    <2>1. Byte \subseteq S /\ Marker \in S
      BY DEF Byte, Marker
    <2> HIDE DEF S
    <2>2. <<Marker>> \in Seq(S) /\ bytes \in Seq(S)
      BY <2>1
    <2> QED
      BY <2>2 DEF n
  <1>5. \A k \in 1 .. z : zeros[k] = 0
    OBVIOUS
  <1> HIDE DEF zeros, field, S
  <1>6. pad_bytes(bytes, bigEndian) = ((bytes \o <<Marker>>) \o zeros) \o field
    BY DEF pad_bytes, n, z, zeros, field
  <1> DEFINE p1 == bytes \o <<Marker>>
             p2 == p1 \o zeros
  <1>7. /\ p1 \in Seq(S) /\ Len(p1) = n + 1 /\ p1[n + 1] = Marker
        /\ \A k \in 1 .. n : p1[k] = bytes[k]
    BY <1>1, <1>4
  <1> HIDE DEF p1
  <1>8. /\ p2 \in Seq(S) /\ Len(p2) = n + 1 + z
        /\ \A k \in 1 .. n + 1 : p2[k] = p1[k]
        /\ \A k \in n + 2 .. n + 1 + z : p2[k] = zeros[k - (n + 1)]
    BY <1>1, <1>2, <1>7, Sizes
  <1> HIDE DEF p2
  <1>9. /\ Len(p2 \o field) = n + 1 + z + FieldSize
        /\ \A k \in 1 .. n + 1 + z : (p2 \o field)[k] = p2[k]
    BY <1>1, <1>3, <1>8, Sizes
  <1>10. pad_bytes(bytes, bigEndian) = p2 \o field
    BY <1>6 DEF p1, p2
  <1>11. \A k \in n + 2 .. n + 1 + z : (p2 \o field)[k] = 0
    BY <1>1, <1>5, <1>8, <1>9, Sizes
  <1>12. /\ \A k \in 1 .. n : (p2 \o field)[k] = bytes[k]
         /\ (p2 \o field)[n + 1] = Marker
    BY <1>1, <1>7, <1>8, <1>9, Sizes
  <1> QED
    BY <1>1, <1>9, <1>10, <1>11, <1>12 DEF n, z

\* A padded message is a number of whole chunks, so that chunks_exact drops nothing
\* of it, and one zero less for each chunk would not do: fewer than ChunkSize are
\* pushed.
THEOREM PaddingFillsChunks ==
    ASSUME NEW bytes \in Seq(Byte), NEW bigEndian \in BOOLEAN
    PROVE  /\ \E c \in Nat : Len(pad_bytes(bytes, bigEndian)) = ChunkSize * c
           /\ Zeros(Len(bytes)) < ChunkSize
  <1> DEFINE n == Len(bytes)
             z == Zeros(n)
             a == Room - (n + 1)
             q == a \div ChunkSize
  <1>1. n \in Nat /\ a \in Int /\ ChunkSize \in Nat \ {0}
    BY Sizes DEF Room
  <1>2. z \in 0 .. ChunkSize - 1 /\ q \in Int /\ a = ChunkSize * q + z
    BY <1>1, Remainder DEF Zeros
  <1>3. Len(pad_bytes(bytes, bigEndian)) = n + 1 + z + FieldSize
    BY PaddedParts
  <1>4. n + 1 + z + FieldSize = ChunkSize - ChunkSize * q
    <2>1. a = ChunkSize - FieldSize - (n + 1)
      BY DEF Room
    <2> DEFINE t == ChunkSize * q
    <2>2. t \in Int
      BY <1>1, <1>2
    <2> HIDE DEF n, z, a, q, t
    <2>3. a = t + z
      BY <1>2 DEF t
    <2>4. n + 1 + z + FieldSize = ChunkSize - t
      BY <1>1, <1>2, <2>1, <2>2, <2>3, Sizes
    <2> QED
      BY <2>4 DEF t
  <1>5. ChunkSize - ChunkSize * q = ChunkSize * (1 - q)
    BY <1>1, <1>2
  <1>6. 1 - q \in Nat
    <2>1. CASE q \in Nat /\ q >= 1
      <3>1. ChunkSize * q >= ChunkSize
        BY <1>1, <2>1
      <3> HIDE DEF n, z, a, q
      <3> QED
        BY <1>1, <1>2, <1>4, <3>1, Sizes
    <2>2. CASE ~ (q >= 1)
      BY <1>2, <2>2
    <2> QED
      BY <1>2, <2>1, <2>2
  <1>7. Len(pad_bytes(bytes, bigEndian)) = ChunkSize * (1 - q)
    BY <1>3, <1>4, <1>5
  <1>8. z < ChunkSize
    BY <1>1, <1>2
  <1> QED
    BY <1>6, <1>7, <1>8

\* Two messages that are padded to the same bytes have the same length.
LEMMA PaddingKeepsLength ==
    ASSUME NEW a \in Seq(Byte), NEW b \in Seq(Byte), NEW bigEndian \in BOOLEAN,
           pad_bytes(a, bigEndian) = pad_bytes(b, bigEndian)
    PROVE  ~ Len(a) < Len(b)
  <1> DEFINE m == Len(a)
             n == Len(b)
             y == Zeros(m)
             z == Zeros(n)
             padded == pad_bytes(a, bigEndian)
  <1>1. /\ y \in Nat /\ Len(padded) = m + 1 + y + FieldSize
        /\ \A k \in m + 2 .. m + 1 + y : padded[k] = 0
    BY PaddedParts, Sizes
  <1>2. /\ z \in Nat /\ Len(padded) = n + 1 + z + FieldSize
        /\ padded[n + 1] = Marker
    BY PaddedParts, Sizes
  <1>3. m \in Nat /\ n \in Nat
    OBVIOUS
  <1> HIDE DEF m, n, y, z, padded
  <1> SUFFICES ASSUME m < n PROVE FALSE
    BY DEF m, n
  <1>4. n + 1 \in m + 2 .. m + 1 + y
    BY <1>1, <1>2, <1>3, Sizes
  <1>5. padded[n + 1] = 0
    BY <1>1, <1>4
  <1> QED
    BY <1>2, <1>5 DEF Marker

\* Different messages are padded to different bytes, in either byte order: what is
\* given to the rounds of sha1_hash and md5_hash determines the message.
THEOREM PaddingIsInjective ==
    ASSUME NEW a \in Seq(Byte), NEW b \in Seq(Byte), NEW bigEndian \in BOOLEAN,
           pad_bytes(a, bigEndian) = pad_bytes(b, bigEndian)
    PROVE  a = b
  <1>1. Len(a) = Len(b)
    <2>1. ~ Len(a) < Len(b) /\ ~ Len(b) < Len(a)
      BY PaddingKeepsLength
    <2> QED
      BY <2>1
  <1>2. \A k \in 1 .. Len(a) : a[k] = b[k]
    BY <1>1, PaddedParts
  <1> QED
    BY <1>1, <1>2
-----------------------------------------------------------------------------
(* from_ints inverts to_ints.                                               *)

LEMMA LastByte ==
    ASSUME NEW a \in Nat, NEW b \in Byte
    PROVE  (256 * a + b) \div 256 = a /\ (256 * a + b) % 256 = b
  BY DEF Byte

\* n without its last byte, without its last two, and so on.
Shifts(f, n, size) == f[0] = n /\ \A j \in 1 .. size : f[j] = f[j - 1] \div 256

\* The bytes of a number can be shifted out of it one at a time.
LEMMA ShiftsExist ==
    ASSUME NEW n \in Nat, NEW size \in Nat
    PROVE  \E f \in [0 .. size -> Nat] : Shifts(f, n, size)
  <1> DEFINE step == [x \in (1 .. size) \X Nat |-> x[2] \div 256]
  <1>1. step \in [(1 .. size) \X Nat -> Nat]
    OBVIOUS
  <1>2. PICK f \in [0 .. size -> Nat] : Iterates(f, size, n, step)
    <2> HIDE DEF step
    <2> QED
      BY <1>1, Iteration
  <1>3. ASSUME NEW j \in 1 .. size PROVE f[j] = f[j - 1] \div 256
    <2>1. j - 1 \in 0 .. size
      OBVIOUS
    <2>2. <<j, f[j - 1]>> \in (1 .. size) \X Nat
      BY <1>2, <2>1
    <2> QED
      BY <1>2, <2>2 DEF Iterates
  <1> QED
    BY <1>2, <1>3 DEF Iterates, Shifts

\* Byte k is the last of one of these.
WrittenFrom(f, n, size, bigEndian) ==
    \A k \in 1 .. size :
        ByteOf(n, k, size, bigEndian) = f[IF bigEndian THEN size - k ELSE k - 1] % 256

\* The recursive function of ByteOf is any that shifts.
LEMMA ByteOfShift ==
    ASSUME NEW n, NEW size \in Nat, NEW f, Shifts(f, n, size), NEW bigEndian \in BOOLEAN
    PROVE  WrittenFrom(f, n, size, bigEndian)
  <1> USE DEF Shifts
  <1> DEFINE Unfolded(g) == g = [j \in 0 .. size |-> IF j = 0 THEN n ELSE g[j - 1] \div 256]
             chosen == CHOOSE g : Unfolded(g)
             h == [j \in 0 .. size |-> f[j]]
  <1>1. Unfolded(h)
    <2>1. ASSUME NEW j \in 0 .. size PROVE f[j] = IF j = 0 THEN n ELSE h[j - 1] \div 256
      <3>1. CASE j # 0
        <4>1. j \in 1 .. size /\ j - 1 \in 0 .. size
          BY <3>1
        <4>2. h[j - 1] = f[j - 1]
          BY <4>1
        <4> HIDE DEF h
        <4> QED
          BY <3>1, <4>1, <4>2
      <3> QED
        BY <3>1
    <2> QED
      BY <2>1
  <1>2. Unfolded(chosen)
    <2> HIDE DEF Unfolded, h
    <2> QED
      BY <1>1, Zenon
  <1>3. ASSUME NEW k \in 1 .. size
        PROVE  ByteOf(n, k, size, bigEndian) = chosen[IF bigEndian THEN size - k ELSE k - 1] % 256
    BY DEF ByteOf
  <1> HIDE DEF chosen, h
  <1>4. \A j \in 0 .. size : chosen[j] = IF j = 0 THEN n ELSE chosen[j - 1] \div 256
    BY <1>2
  <1> DEFINE T == {j \in 0 .. size : chosen[j] = f[j]}
  <1>5. 0 \in T
    BY <1>4
  <1>6. \A j \in 0 .. size : j < size /\ j \in T => j + 1 \in T
    <2> SUFFICES ASSUME NEW j \in 0 .. size, j < size, j \in T PROVE j + 1 \in T
      BY Zenon
    <2>1. j + 1 \in 1 .. size /\ j + 1 \in 0 .. size /\ (j + 1) - 1 = j /\ j + 1 # 0
      OBVIOUS
    <2>2. chosen[j + 1] = chosen[j] \div 256 /\ f[j + 1] = f[j] \div 256
      BY <1>4, <2>1
    <2> QED
      BY <2>1, <2>2
  <1> HIDE DEF T
  <1>7. 0 .. size \subseteq T
    BY <1>5, <1>6, BoundedInduction
  <1>8. ASSUME NEW k \in 1 .. size
        PROVE  ByteOf(n, k, size, bigEndian) = f[IF bigEndian THEN size - k ELSE k - 1] % 256
    <2> DEFINE i == IF bigEndian THEN size - k ELSE k - 1
    <2>1. i \in 0 .. size
      OBVIOUS
    <2> HIDE DEF i
    <2>2. chosen[i] = f[i]
      BY <1>7, <2>1 DEF T
    <2> QED
      BY <1>3, <2>2 DEF i
  <1> QED
    BY <1>8 DEF WrittenFrom

\* The value of the first bytes of a word, in the order of their weight.
Weighs(w, bytes, bigEndian) ==
    /\ w[0] = 0
    /\ \A k \in 1 .. WordSize :
           w[k] = 256 * w[k - 1] + bytes[IF bigEndian THEN k ELSE WordSize + 1 - k]

\* A word is built up byte by byte, in the order of the endianness.
LEMMA WordUnfolds ==
    ASSUME NEW bytes \in [1 .. WordSize -> Byte], NEW bigEndian \in BOOLEAN
    PROVE  \E w \in [0 .. WordSize -> Nat] :
               Weighs(w, bytes, bigEndian) /\ Word(bytes, bigEndian) = w[WordSize]
  <1> DEFINE At(k) == bytes[IF bigEndian THEN k ELSE WordSize + 1 - k]
             step == [x \in (1 .. WordSize) \X Nat |-> 256 * x[2] + At(x[1])]
             Unfolded(g) == g = [k \in 0 .. WordSize |-> IF k = 0 THEN 0 ELSE 256 * g[k - 1] + At(k)]
             chosen == CHOOSE g : Unfolded(g)
  <1>0. WordSize \in Nat
    BY Sizes
  <1>1. \A k \in 1 .. WordSize : At(k) \in Nat
    <2>1. \A k \in 1 .. WordSize : (IF bigEndian THEN k ELSE WordSize + 1 - k) \in 1 .. WordSize
      BY <1>0
    <2>2. Byte \subseteq Nat
      BY DEF Byte
    <2> QED
      BY <2>1, <2>2
  <1>2. step \in [(1 .. WordSize) \X Nat -> Nat]
    <2> HIDE DEF At
    <2> QED
      BY <1>1
  <1>3. PICK w \in [0 .. WordSize -> Nat] : Iterates(w, WordSize, 0, step)
    <2> HIDE DEF step
    <2> QED
      BY <1>0, <1>2, Iteration
  <1>4. w[0] = 0 /\ \A k \in 1 .. WordSize : w[k] = 256 * w[k - 1] + At(k)
    <2>1. ASSUME NEW k \in 1 .. WordSize PROVE w[k] = 256 * w[k - 1] + At(k)
      <3>1. k - 1 \in 0 .. WordSize
        BY <1>0
      <3>2. <<k, w[k - 1]>> \in (1 .. WordSize) \X Nat
        BY <1>3, <3>1
      <3> HIDE DEF At
      <3> QED
        BY <1>3, <3>2 DEF Iterates
    <2> QED
      BY <1>3, <2>1 DEF Iterates
  <1>5. Weighs(w, bytes, bigEndian)
    BY <1>4 DEF Weighs
  <1>6. Word(bytes, bigEndian) = chosen[WordSize]
    BY DEF Word
  <1> HIDE DEF At, step
  <1>7. Unfolded(w)
    <2>1. \A k \in 0 .. WordSize : w[k] = IF k = 0 THEN 0 ELSE 256 * w[k - 1] + At(k)
      BY <1>0, <1>4
    <2> QED
      BY <1>3, <2>1
  <1>8. Unfolded(chosen)
    <2> HIDE DEF Unfolded
    <2> QED
      BY <1>7, Zenon
  <1> HIDE DEF chosen
  <1>9. \A k \in 0 .. WordSize : chosen[k] = IF k = 0 THEN 0 ELSE 256 * chosen[k - 1] + At(k)
    BY <1>8
  <1> DEFINE T == {k \in 0 .. WordSize : chosen[k] = w[k]}
  <1>10. 0 \in T
    BY <1>0, <1>4, <1>9
  <1>11. \A k \in 0 .. WordSize : k < WordSize /\ k \in T => k + 1 \in T
    <2> SUFFICES ASSUME NEW k \in 0 .. WordSize, k < WordSize, k \in T PROVE k + 1 \in T
      BY Zenon
    <2>1. k + 1 \in 1 .. WordSize /\ k + 1 \in 0 .. WordSize /\ (k + 1) - 1 = k /\ k + 1 # 0
      BY <1>0
    <2>2. chosen[k + 1] = 256 * chosen[k] + At(k + 1) /\ w[k + 1] = 256 * w[k] + At(k + 1)
      BY <1>4, <1>9, <2>1
    <2> QED
      BY <2>1, <2>2
  <1> HIDE DEF T
  <1>12. WordSize \in T
    BY <1>0, <1>10, <1>11, BoundedInduction
  <1> QED
    BY <1>5, <1>6, <1>12 DEF T

\* The bytes of a word are those it was made of.
LEMMA WordKeepsBytes ==
    ASSUME NEW bytes \in [1 .. WordSize -> Byte], NEW bigEndian \in BOOLEAN
    PROVE  \A k \in 1 .. WordSize :
               ByteOf(Word(bytes, bigEndian), k, WordSize, bigEndian) = bytes[k]
  <1> DEFINE word == Word(bytes, bigEndian)
  <1>0. WordSize \in Nat
    BY Sizes
  <1>1. PICK w \in [0 .. WordSize -> Nat] : Weighs(w, bytes, bigEndian) /\ word = w[WordSize]
    BY WordUnfolds
  <1>2. word \in Nat
    BY <1>0, <1>1
  <1> HIDE DEF word
  <1>3. PICK f \in [0 .. WordSize -> Nat] : Shifts(f, word, WordSize)
    BY <1>0, <1>2, ShiftsExist
  <1>4. ASSUME NEW k \in 1 .. WordSize
        PROVE  w[k] \div 256 = w[k - 1]
               /\ w[k] % 256 = bytes[IF bigEndian THEN k ELSE WordSize + 1 - k]
    <2> DEFINE b == bytes[IF bigEndian THEN k ELSE WordSize + 1 - k]
    <2>1. w[k - 1] \in Nat /\ b \in Byte
      BY <1>0
    <2>2. w[k] = 256 * w[k - 1] + b
      BY <1>1 DEF Weighs
    <2> HIDE DEF b
    <2> QED
      BY <2>1, <2>2, LastByte DEF b
  <1> DEFINE T == {j \in 0 .. WordSize : f[j] = w[WordSize - j]}
  <1>5. 0 \in T
    BY <1>0, <1>1, <1>3 DEF Shifts
  <1>6. \A j \in 0 .. WordSize : j < WordSize /\ j \in T => j + 1 \in T
    <2> SUFFICES ASSUME NEW j \in 0 .. WordSize, j < WordSize, j \in T PROVE j + 1 \in T
      BY Zenon
    <2>1. /\ j + 1 \in 1 .. WordSize /\ j + 1 \in 0 .. WordSize /\ (j + 1) - 1 = j
          /\ WordSize - j \in 1 .. WordSize /\ (WordSize - j) - 1 = WordSize - (j + 1)
      BY <1>0
    <2>2. f[j + 1] = f[j] \div 256
      BY <1>3, <2>1 DEF Shifts
    <2>3. w[WordSize - j] \div 256 = w[WordSize - (j + 1)]
      BY <1>4, <2>1
    <2> QED
      BY <2>1, <2>2, <2>3
  <1> HIDE DEF T
  <1>7. 0 .. WordSize \subseteq T
    BY <1>0, <1>5, <1>6, BoundedInduction
  <1>8. ASSUME NEW k \in 1 .. WordSize
        PROVE  ByteOf(word, k, WordSize, bigEndian) = bytes[k]
    <2> DEFINE i == IF bigEndian THEN WordSize - k ELSE k - 1
               j == WordSize - i
    <2>1. /\ i \in 0 .. WordSize /\ j \in 1 .. WordSize
          /\ (IF bigEndian THEN j ELSE WordSize + 1 - j) = k
      BY <1>0
    <2>2. ByteOf(word, k, WordSize, bigEndian) = f[i] % 256
      <3>1. WrittenFrom(f, word, WordSize, bigEndian)
        BY <1>0, <1>3, ByteOfShift
      <3> QED
        BY <3>1 DEF WrittenFrom
    <2> HIDE DEF i
    <2>3. f[i] = w[j]
      BY <1>7, <2>1 DEF T
    <2> HIDE DEF j
    <2>4. w[j] % 256 = bytes[k]
      BY <1>4, <2>1
    <2> QED
      BY <2>2, <2>3, <2>4
  <1> QED
    BY <1>8 DEF word

\* Element k of n parts of one size is element j of part i.
LEMMA PlaceInParts ==
    ASSUME NEW size \in Nat \ {0}, NEW n \in Nat, NEW k \in 1 .. size * n
    PROVE  /\ ((k - 1) \div size) + 1 \in 1 .. n
           /\ ((k - 1) % size) + 1 \in 1 .. size
           /\ (k - 1) \div size \in Nat
           /\ size * ((k - 1) \div size) + (((k - 1) % size) + 1) = k
  <1> DEFINE q == (k - 1) \div size
             r == (k - 1) % size
  <1>1. size * n \in Nat
    OBVIOUS
  <1>2. k - 1 \in Nat /\ k - 1 < size * n
    BY <1>1
  <1>3. r \in 0 .. size - 1 /\ q \in Int /\ k - 1 = size * q + r
    BY <1>2, Remainder
  <1> HIDE DEF q, r
  <1>4. q < n
    <2>1. ASSUME q >= n PROVE FALSE
      <3>1. size * q >= size * n
        BY <1>3, <2>1
      <3> DEFINE a == size * q
                 b == size * n
      <3>2. a \in Int /\ b \in Nat /\ a >= b /\ k - 1 < b /\ k - 1 = a + r
        BY <1>1, <1>2, <1>3, <3>1
      <3> HIDE DEF a, b
      <3> QED
        BY <1>3, <3>2
    <2> QED
      BY <1>3, <2>1
  <1>5. q >= 0
    <2>1. ASSUME q <= -1 PROVE FALSE
      <3>1. size * q <= - size
        BY <1>3, <2>1
      <3> DEFINE a == size * q
      <3>2. a \in Int /\ a <= - size /\ k - 1 = a + r
        BY <1>3, <3>1
      <3> HIDE DEF a
      <3> QED
        BY <1>2, <1>3, <3>2
    <2> QED
      BY <1>3, <2>1
  <1>6. q + 1 \in 1 .. n /\ r + 1 \in 1 .. size /\ q \in Nat
    BY <1>3, <1>4, <1>5
  <1>7. size * q + (r + 1) = k
    <2> DEFINE a == size * q
    <2>1. a \in Int /\ k - 1 = a + r
      BY <1>3
    <2> HIDE DEF a
    <2>2. a + (r + 1) = k
      BY <1>3, <2>1
    <2> QED
      BY <2>2 DEF a
  <1> QED
    BY <1>6, <1>7 DEF q, r

\* Where a part begins and ends.
LEMMA PartBounds ==
    ASSUME NEW size \in Nat, NEW n \in Nat, NEW i \in 1 .. n
    PROVE  /\ (i - 1) * size \in Nat /\ i * size = (i - 1) * size + size
           /\ (i - 1) * size = size * (i - 1)
           /\ i * size <= size * n
  <1>1. i - 1 \in Nat /\ i \in Nat /\ n - i \in Nat
    OBVIOUS
  <1>2. size * (n - i) \in Nat /\ size * n = i * size + size * (n - i) /\ i * size \in Nat
    BY <1>1
  <1> DEFINE a == size * n
             b == i * size
             c == size * (n - i)
  <1>3. c \in Nat /\ b \in Nat /\ a = b + c
    BY <1>2
  <1> HIDE DEF a, b, c
  <1>4. b <= a
    BY <1>3
  <1>5. (i - 1) * size \in Nat /\ (i - 1) * size = size * (i - 1)
    BY <1>1
  <1>6. i * size = (i - 1) * size + size
    BY <1>1
  <1> QED
    BY <1>4, <1>5, <1>6 DEF a, b

\* A part of a sequence, element by element.
LEMMA Slice ==
    ASSUME NEW S, NEW s \in Seq(S), NEW a \in Nat, NEW n \in Nat, a + n <= Len(s)
    PROVE  /\ SubSeq(s, a + 1, a + n) \in [1 .. n -> S]
           /\ SubSeq(s, a + 1, a + n) \in Seq(S) /\ Len(SubSeq(s, a + 1, a + n)) = n
           /\ \A j \in 1 .. n : SubSeq(s, a + 1, a + n)[j] = s[a + j]
  <1> DEFINE t == SubSeq(s, a + 1, a + n)
  <1>1. t \in Seq(S) /\ Len(t) = n
    OBVIOUS
  <1>2. \A j \in 1 .. n : t[j] = s[a + j]
    OBVIOUS
  <1> HIDE DEF t
  <1>3. t \in [1 .. n -> S]
    BY <1>1
  <1> QED
    BY <1>1, <1>2, <1>3 DEF t

\* The words of a chunk have its bytes.
LEMMA ChunkIsKept ==
    ASSUME NEW chunk \in Seq(Byte), Len(chunk) = ChunkSize, NEW bigEndian \in BOOLEAN
    PROVE  from_ints(to_ints(chunk, bigEndian), bigEndian) = chunk
  <1> DEFINE size == WordSize
             n == ChunkSize \div WordSize
             words == to_ints(chunk, bigEndian)
             Part(i) == SubSeq(chunk, (i - 1) * size + 1, i * size)
  <1>1. size \in Nat \ {0} /\ n \in Nat /\ ChunkSize = size * n
    <2>1. ChunkSize \in Nat /\ size \in Nat \ {0} /\ ChunkSize % size = 0
      BY DigestAssumption
    <2>2. n \in Int /\ ChunkSize = size * n + (ChunkSize % size)
      BY <2>1, Remainder
    <2> HIDE DEF n, size
    <2>3. size * n \in Int
      BY <2>1, <2>2
    <2>4. ChunkSize = size * n
      <3> DEFINE a == size * n
      <3>1. a \in Int /\ ChunkSize = a + 0
        BY <2>1, <2>2, <2>3
      <3> HIDE DEF a
      <3> QED
        BY <3>1 DEF a
    <2>5. n >= 0
      <3>1. ASSUME n <= -1 PROVE FALSE
        <4>1. size * n < 0
          BY <2>1, <2>2, <3>1
        <4> QED
          BY <2>1, <2>3, <2>4, <4>1
      <3> QED
        BY <2>2, <3>1
    <2> QED
      BY <2>1, <2>2, <2>4, <2>5
  <1>2. words = [i \in 1 .. n |-> Word(Part(i), bigEndian)] /\ Len(words) = n
    BY <1>1 DEF to_ints
  <1>3. from_ints(words, bigEndian) =
            [k \in 1 .. size * n |->
                ByteOf(words[((k - 1) \div size) + 1], ((k - 1) % size) + 1, size, bigEndian)]
    BY <1>2, Zenon DEF from_ints
  <1> HIDE DEF words, size, n
  <1>4. ASSUME NEW i \in 1 .. n
        PROVE  /\ Part(i) \in [1 .. size -> Byte]
               /\ \A j \in 1 .. size : Part(i)[j] = chunk[(i - 1) * size + j]
    <2> DEFINE a == (i - 1) * size
               b == i * size
    <2>1. a \in Nat /\ b = a + size /\ b <= ChunkSize
      BY <1>1, PartBounds
    <2> HIDE DEF a, b
    <2>2. Len(chunk) = ChunkSize /\ a + 1 \in Nat /\ b \in Nat /\ ChunkSize \in Nat
      BY <1>1, <2>1, Sizes
    <2>3. /\ SubSeq(chunk, a + 1, b) \in [1 .. size -> Byte]
          /\ \A j \in 1 .. size : SubSeq(chunk, a + 1, b)[j] = chunk[a + j]
      <3>1. size \in Nat /\ a + size <= Len(chunk) /\ b = a + size
        BY <1>1, <2>1, <2>2
      <3> QED
        BY <2>1, <3>1, Slice
    <2> QED
      BY <2>3 DEF a, b
  <1>5. ASSUME NEW k \in 1 .. size * n
        PROVE  ByteOf(words[((k - 1) \div size) + 1], ((k - 1) % size) + 1, size, bigEndian) = chunk[k]
    <2> DEFINE i == ((k - 1) \div size) + 1
               j == ((k - 1) % size) + 1
    <2>1. i \in 1 .. n /\ j \in 1 .. size /\ (i - 1) * size + j = k
      <3>1. /\ i \in 1 .. n /\ j \in 1 .. size /\ (k - 1) \div size \in Nat
            /\ size * ((k - 1) \div size) + j = k
        BY <1>1, PlaceInParts
      <3>2. i - 1 = (k - 1) \div size
        BY <3>1
      <3> HIDE DEF j
      <3>3. (i - 1) * size = size * (i - 1)
        BY <1>1, <3>1, PartBounds
      <3> QED
        BY <3>1, <3>2, <3>3
    <2> HIDE DEF i, j
    <2>2. words[i] = Word(Part(i), bigEndian)
      BY <1>2, <2>1
    <2> DEFINE part == Part(i)
    <2>3. part \in [1 .. WordSize -> Byte] /\ part[j] = chunk[k]
      BY <1>4, <2>1 DEF size
    <2> HIDE DEF part
    <2>4. ByteOf(Word(part, bigEndian), j, size, bigEndian) = part[j]
      BY <2>1, <2>3, WordKeepsBytes DEF size
    <2>5. ByteOf(words[i], j, size, bigEndian) = chunk[k]
      BY <2>2, <2>3, <2>4 DEF part
    <2> QED
      BY <2>5 DEF i, j
  <1>6. from_ints(words, bigEndian) = [k \in 1 .. size * n |-> chunk[k]]
    BY <1>3, <1>5, Zenon
  <1>7. chunk = [k \in 1 .. size * n |-> chunk[k]]
    <2>1. Len(chunk) = size * n
      BY <1>1
    <2> QED
      BY <2>1
  <1> QED
    BY <1>6, <1>7 DEF words

\* What is padded is bytes.
LEMMA PaddedBytes ==
    ASSUME NEW bytes \in Seq(Byte), NEW bigEndian \in BOOLEAN
    PROVE  pad_bytes(bytes, bigEndian) \in Seq(Byte)
  <1> DEFINE n == Len(bytes)
             z == Zeros(n)
             zeros == [k \in 1 .. z |-> 0]
             field == [k \in 1 .. FieldSize |-> ByteOf(8 * n, k, FieldSize, bigEndian)]
  <1>1. n \in Nat /\ 8 * n \in Nat /\ z \in Nat /\ FieldSize \in Nat
    BY PaddedParts, Sizes
  <1>2. PICK f \in [0 .. FieldSize -> Nat] : Shifts(f, 8 * n, FieldSize)
    BY <1>1, ShiftsExist
  <1>3. ASSUME NEW k \in 1 .. FieldSize
        PROVE  ByteOf(8 * n, k, FieldSize, bigEndian) \in Byte
    <2> DEFINE i == IF bigEndian THEN FieldSize - k ELSE k - 1
    <2>1. WrittenFrom(f, 8 * n, FieldSize, bigEndian)
      BY <1>1, <1>2, ByteOfShift
    <2>2. ByteOf(8 * n, k, FieldSize, bigEndian) = f[i] % 256
      BY <2>1 DEF WrittenFrom
    <2>3. i \in 0 .. FieldSize
      BY <1>1
    <2> HIDE DEF i
    <2>4. f[i] \in Nat
      BY <2>3
    <2>5. \A m \in Nat : m % 256 \in Byte
      BY DEF Byte
    <2> QED
      BY <2>2, <2>4, <2>5, Zenon
  <1>4. zeros \in Seq(Byte)
    BY <1>1 DEF Byte
  <1>5. field \in Seq(Byte)
    BY <1>1, <1>3
  <1>6. <<Marker>> \in Seq(Byte)
    BY DEF Byte, Marker
  <1> HIDE DEF n, z, zeros, field
  <1>7. ((bytes \o <<Marker>>) \o zeros) \o field \in Seq(Byte)
    BY <1>4, <1>5, <1>6
  <1> QED
    BY <1>7 DEF pad_bytes, n, z, zeros, field

\* A sequence cut into parts that follow each other is their concatenation.
LEMMA SliceAfterSlice ==
    ASSUME NEW S, NEW s \in Seq(S), NEW a \in Nat, NEW n \in Nat, a + n <= Len(s)
    PROVE  SubSeq(s, 1, a) \o SubSeq(s, a + 1, a + n) = SubSeq(s, 1, a + n)
  OBVIOUS

\* The chunks of a message of whole chunks are the message.
LEMMA ChunksJoin ==
    ASSUME NEW message \in Seq(Byte), NEW c \in Nat, Len(message) = ChunkSize * c
    PROVE  /\ Chunks(message) \in Seq(Seq(Byte)) /\ Len(Chunks(message)) = c
           /\ \A i \in 1 .. c : Len(Chunks(message)[i]) = ChunkSize
           /\ FlattenSeq(Chunks(message)) = message
  <1> DEFINE size == ChunkSize
             Part(i) == SubSeq(message, (i - 1) * size + 1, i * size)
             chunks == Chunks(message)
  <1>1. size \in Nat \ {0}
    BY Sizes
  <1>2. Len(message) \div ChunkSize = c
    <2> HIDE DEF size
    <2>1. (size * c) \div size = c
      <3> DEFINE a == size * c
                 q == a \div size
      <3>1. a \in Int
        BY <1>1
      <3>2. q \in Int /\ a % size \in 0 .. size - 1 /\ a = size * q + (a % size)
        <4> HIDE DEF a
        <4> QED
          BY <1>1, <3>1, Remainder
      <3>3. size * (c - q) = a - size * q
        BY <1>1, <3>2
      <3>4. size * (c - q) = a % size
        <4> DEFINE b == size * q
        <4>1. b \in Int /\ a \in Int /\ a = b + (a % size) /\ a % size \in Int
          BY <1>1, <3>1, <3>2
        <4> HIDE DEF a, b, q
        <4>2. a - b = a % size
          BY <4>1
        <4> QED
          BY <3>3, <4>2 DEF b
      <3> DEFINE d == c - q
      <3>5. d \in Int /\ size * d >= 0 /\ size * d < size
        BY <1>1, <3>2, <3>4
      <3> HIDE DEF d
      <3>6. ~ (d >= 1)
        BY <1>1, <3>5
      <3>7. ~ (d <= -1)
        BY <1>1, <3>5
      <3>8. d = 0
        BY <3>5, <3>6, <3>7
      <3> HIDE DEF q
      <3>9. q = c
        BY <3>2, <3>8 DEF d
      <3> QED
        BY <3>9 DEF q
    <2> QED
      BY <2>1 DEF size
  <1>3. chunks = [i \in 1 .. c |-> Part(i)]
    BY <1>2 DEF Chunks
  <1> HIDE DEF chunks, size
  <1>4. ASSUME NEW i \in 1 .. c
        PROVE  /\ (i - 1) * size \in Nat /\ i * size = (i - 1) * size + size
               /\ i * size <= Len(message)
               /\ Part(i) \in Seq(Byte) /\ Len(Part(i)) = size
    <2> DEFINE a == (i - 1) * size
               b == i * size
    <2>1. a \in Nat /\ b = a + size /\ b <= Len(message)
      BY <1>1, PartBounds DEF size
    <2> HIDE DEF a, b
    <2>2. SubSeq(message, a + 1, a + size) \in Seq(Byte) /\ Len(SubSeq(message, a + 1, a + size)) = size
      BY <1>1, <2>1, Slice
    <2> QED
      BY <2>1, <2>2 DEF a, b
  <1>5. chunks \in Seq(Seq(Byte)) /\ Len(chunks) = c /\ \A i \in 1 .. c : Len(chunks[i]) = size
    <2> HIDE DEF Part
    <2> QED
      BY <1>3, <1>4
  <1>6. PICK f \in [0 .. c -> Seq(Byte)] : Joins(f, chunks) /\ FlattenSeq(chunks) = f[c]
    BY <1>5, FlattenJoins
  <1> DEFINE T == {i \in 0 .. c : f[i] = SubSeq(message, 1, i * size)}
  <1>7. 0 \in T
    <2>1. 0 * size = 0 /\ SubSeq(message, 1, 0) = <<>>
      BY <1>1
    <2>2. f[0] = <<>>
      BY <1>6 DEF Joins
    <2> QED
      BY <2>1, <2>2
  <1>8. \A i \in 0 .. c : i < c /\ i \in T => i + 1 \in T
    <2> SUFFICES ASSUME NEW i \in 0 .. c, i < c, i \in T PROVE i + 1 \in T
      BY Zenon
    <2>1. i + 1 \in 1 .. c /\ i + 1 \in 0 .. c /\ (i + 1) - 1 = i
      OBVIOUS
    <2>2. f[i + 1] = f[i] \o chunks[i + 1]
      BY <1>5, <1>6, <2>1 DEF Joins
    <2>3. f[i + 1] = SubSeq(message, 1, i * size) \o Part(i + 1)
      BY <1>3, <2>1, <2>2
    <2> DEFINE a == i * size
               b == (i + 1) * size
    <2>4. a \in Nat /\ b = a + size /\ b <= Len(message) /\ Part(i + 1) = SubSeq(message, a + 1, b)
      BY <1>4, <2>1
    <2> HIDE DEF a, b
    <2>5. SubSeq(message, 1, a) \o SubSeq(message, a + 1, b) = SubSeq(message, 1, b)
      BY <1>1, <2>4, SliceAfterSlice
    <2>6. f[i + 1] = SubSeq(message, 1, (i + 1) * size)
      BY <2>3, <2>4, <2>5 DEF a, b
    <2> QED
      BY <2>1, <2>6
  <1> HIDE DEF T
  <1>9. c \in T
    BY <1>7, <1>8, BoundedInduction
  <1>10. SubSeq(message, 1, c * size) = message
    <2>1. c * size = Len(message)
      BY <1>1 DEF size
    <2> QED
      BY <2>1
  <1> QED
    BY <1>5, <1>6, <1>9, <1>10 DEF T, chunks, size

\* Nothing is lost on the way to the rounds of sha1_hash and md5_hash: the words of
\* the chunks hold the padded bytes, and the message is what precedes the last byte
\* that is not zero before the length field.
LEMMA InputIsRecovered ==
    ASSUME NEW bytes \in Seq(Byte), NEW bigEndian \in BOOLEAN
    PROVE  Recovered(Digested(bytes, bigEndian), bigEndian) = bytes
  <1> DEFINE message == pad_bytes(bytes, bigEndian)
             chunks == Chunks(message)
             words == Digested(bytes, bigEndian)
             n == Len(bytes)
             z == Zeros(n)
  <1>1. PICK c \in Nat : Len(message) = ChunkSize * c
    BY PaddingFillsChunks
  <1>2. message \in Seq(Byte)
    BY PaddedBytes
  <1>3. /\ n \in Nat /\ z \in Nat /\ FieldSize \in Nat
        /\ Len(message) = n + 1 + z + FieldSize
        /\ \A k \in 1 .. n : message[k] = bytes[k]
        /\ message[n + 1] = Marker
        /\ \A k \in n + 2 .. n + 1 + z : message[k] = 0
    <2>1. /\ z \in 0 .. ChunkSize - 1
          /\ Len(message) = n + 1 + z + FieldSize
          /\ \A k \in 1 .. n : message[k] = bytes[k]
          /\ message[n + 1] = Marker
          /\ \A k \in n + 2 .. n + 1 + z : message[k] = 0
      BY PaddedParts, Zenon
    <2>2. n \in Nat /\ ChunkSize \in Nat /\ FieldSize \in Nat
      BY Sizes
    <2> HIDE DEF n, z, message
    <2>3. z \in Nat
      BY <2>1, <2>2
    <2> QED
      BY <2>1, <2>2, <2>3, Zenon
  <1>4. words = [i \in DOMAIN chunks |-> to_ints(chunks[i], bigEndian)]
    BY DEF Digested
  <1> HIDE DEF message
  <1>5. /\ chunks \in Seq(Seq(Byte)) /\ Len(chunks) = c
        /\ \A i \in 1 .. c : Len(chunks[i]) = ChunkSize
        /\ FlattenSeq(chunks) = message
    BY <1>1, <1>2, ChunksJoin
  <1> HIDE DEF chunks, words, z
  <1>6. [i \in DOMAIN words |-> from_ints(words[i], bigEndian)] = chunks
    <2>1. DOMAIN words = 1 .. c /\ DOMAIN chunks = 1 .. c
      BY <1>4, <1>5
    <2>2. ASSUME NEW i \in 1 .. c PROVE from_ints(words[i], bigEndian) = chunks[i]
      <3>1. chunks[i] \in Seq(Byte) /\ Len(chunks[i]) = ChunkSize
        BY <1>5, ElementOfSeq
      <3>2. words[i] = to_ints(chunks[i], bigEndian)
        BY <1>4, <2>1
      <3> QED
        BY <3>1, <3>2, ChunkIsKept
    <2>3. chunks = [i \in 1 .. c |-> chunks[i]]
      BY <1>5
    <2> QED
      BY <2>1, <2>2, <2>3, Zenon
  <1> DEFINE K == {k \in 1 .. Len(message) - FieldSize : message[k] # 0}
  <1>7. Recovered(words, bigEndian) = SubSeq(message, 1, Max(K) - 1)
    BY <1>5, <1>6, Zenon DEF Recovered
  <1>8. Max(K) = n + 1
    <2>1. n + 1 \in K
      BY <1>3 DEF Marker
    <2>2. ASSUME NEW k \in K PROVE n + 1 >= k
      <3>1. k \in 1 .. n + 1 + z /\ message[k] # 0
        BY <1>3
      <3>2. ~ (k \in n + 2 .. n + 1 + z)
        BY <1>3, <3>1
      <3> QED
        BY <1>3, <3>1, <3>2
    <2>3. K \subseteq Int
      BY <1>3
    <2> HIDE DEF K, n
    <2>4. ASSUME NEW x \in K, \A y \in K : x >= y PROVE x = n + 1
      BY <1>3, <2>1, <2>2, <2>3, <2>4
    <2> QED
      BY <2>1, <2>2, <2>4 DEF Max
  <1> HIDE DEF K
  <1>9. SubSeq(message, 1, (n + 1) - 1) = bytes
    <2>1. (n + 1) - 1 = n /\ n <= Len(message)
      BY <1>3
    <2>2. SubSeq(message, 1, n) \in Seq(Byte) /\ Len(SubSeq(message, 1, n)) = n
      BY <1>2, <1>3, <2>1
    <2>3. \A k \in 1 .. n : SubSeq(message, 1, n)[k] = bytes[k]
      BY <1>2, <1>3, <2>1
    <2> QED
      BY <2>1, <2>2, <2>3
  <1> QED
    BY <1>7, <1>8, <1>9 DEF words

-----------------------------------------------------------------------------
(* Numbers and strings in a document.                                       *)

\* The value of the first digits of a number.
Counts(f, digits) ==
    /\ f[0] = 0
    /\ \A k \in 1 .. Len(digits) : f[k] = 10 * f[k - 1] + (digits[k] - Zero)

\* The number that digits stand for is built up digit by digit.
LEMMA NumberUnfolds ==
    ASSUME NEW digits \in Seq(Digits)
    PROVE  \E f \in [0 .. Len(digits) -> Nat] :
               Counts(f, digits) /\ Number(digits) = f[Len(digits)]
  <1> DEFINE n == Len(digits)
             At(k) == digits[k] - Zero
             step == [x \in (1 .. n) \X Nat |-> 10 * x[2] + At(x[1])]
             Unfolded(g) == g = [k \in 0 .. n |-> IF k = 0 THEN 0 ELSE 10 * g[k - 1] + At(k)]
             chosen == CHOOSE g : Unfolded(g)
  <1>0. n \in Nat
    OBVIOUS
  <1>1. \A k \in 1 .. n : At(k) \in Nat
    BY DEF Digits, Zero
  <1>2. step \in [(1 .. n) \X Nat -> Nat]
    <2> HIDE DEF At
    <2> QED
      BY <1>1
  <1>3. PICK f \in [0 .. n -> Nat] : Iterates(f, n, 0, step)
    <2> HIDE DEF step
    <2> QED
      BY <1>0, <1>2, Iteration
  <1>4. f[0] = 0 /\ \A k \in 1 .. n : f[k] = 10 * f[k - 1] + At(k)
    <2>1. ASSUME NEW k \in 1 .. n PROVE f[k] = 10 * f[k - 1] + At(k)
      <3>1. k - 1 \in 0 .. n
        BY <1>0
      <3>2. <<k, f[k - 1]>> \in (1 .. n) \X Nat
        BY <1>3, <3>1
      <3> HIDE DEF At
      <3> QED
        BY <1>3, <3>2 DEF Iterates
    <2> QED
      BY <1>3, <2>1 DEF Iterates
  <1>5. Counts(f, digits)
    BY <1>4 DEF Counts
  <1>6. Number(digits) = chosen[n]
    BY DEF Number
  <1> HIDE DEF At, step, n
  <1>7. Unfolded(f)
    <2>1. \A k \in 0 .. n : f[k] = IF k = 0 THEN 0 ELSE 10 * f[k - 1] + At(k)
      BY <1>0, <1>4
    <2> QED
      BY <1>3, <2>1
  <1>8. Unfolded(chosen)
    <2> HIDE DEF Unfolded
    <2> QED
      BY <1>7, Zenon
  <1> HIDE DEF chosen
  <1>9. \A k \in 0 .. n : chosen[k] = IF k = 0 THEN 0 ELSE 10 * chosen[k - 1] + At(k)
    BY <1>8
  <1> DEFINE T == {k \in 0 .. n : chosen[k] = f[k]}
  <1>10. 0 \in T
    BY <1>0, <1>4, <1>9
  <1>11. \A k \in 0 .. n : k < n /\ k \in T => k + 1 \in T
    <2> SUFFICES ASSUME NEW k \in 0 .. n, k < n, k \in T PROVE k + 1 \in T
      BY Zenon
    <2>1. k + 1 \in 1 .. n /\ k + 1 \in 0 .. n /\ (k + 1) - 1 = k /\ k + 1 # 0
      BY <1>0
    <2>2. chosen[k + 1] = 10 * chosen[k] + At(k + 1) /\ f[k + 1] = 10 * f[k] + At(k + 1)
      BY <1>4, <1>9, <2>1
    <2> QED
      BY <2>1, <2>2
  <1> HIDE DEF T
  <1>12. n \in T
    BY <1>0, <1>10, <1>11, BoundedInduction
  <1> QED
    BY <1>3, <1>5, <1>6, <1>12 DEF T, n

\* Digits from pos on, that end before next.
DigitsAt(s, pos, next) ==
    /\ next \in pos + 1 .. Len(s)
    /\ s[next] \notin Digits
    /\ \A q \in pos .. next - 1 : s[q] \in Digits

NumberAt(s, pos, next) == Number(SubSeq(s, pos, next - 1))

\* What is taken for the digits of a number are digits.
LEMMA DigitsBetween ==
    ASSUME NEW s \in Seq(Byte), NEW pos \in Nat \ {0}, NEW next, DigitsAt(s, pos, next)
    PROVE  /\ SubSeq(s, pos, next - 1) \in Seq(Digits)
           /\ Len(SubSeq(s, pos, next - 1)) = next - pos
           /\ NumberAt(s, pos, next) \in Nat
  <1> DEFINE t == SubSeq(s, pos, next - 1)
  <1>1. next \in Nat /\ next > pos /\ next <= Len(s) /\ Len(s) \in Nat
    BY DEF DigitsAt
  <1>2. t \in Seq(Byte) /\ Len(t) = next - pos /\ \A k \in 1 .. next - pos : t[k] = s[k + pos - 1]
    BY <1>1
  <1> HIDE DEF t
  <1>3. \A k \in 1 .. next - pos : t[k] \in Digits
    <2> SUFFICES ASSUME NEW k \in 1 .. next - pos PROVE t[k] \in Digits
      BY Zenon
    <2>1. k + pos - 1 \in pos .. next - 1
      BY <1>1
    <2> QED
      BY <1>2, <2>1 DEF DigitsAt
  <1>4. t \in Seq(Digits)
    BY <1>1, <1>2, <1>3
  <1>5. Number(t) \in Nat
    <2>1. PICK f \in [0 .. Len(t) -> Nat] : Number(t) = f[Len(t)]
      BY <1>4, NumberUnfolds
    <2> QED
      BY <1>1, <1>2, <2>1
  <1> QED
    BY <1>2, <1>4, <1>5 DEF t, NumberAt

\* What parse_integer_value accepts, and how it fails when no byte follows the digits.
LEMMA IntegerValueRead ==
    ASSUME NEW s \in Seq(Byte), NEW pos \in Nat \ {0}, NEW zeros \in BOOLEAN,
           ~ Failed(parse_integer_value(s, pos, zeros))
    PROVE  \E next \in Nat :
               /\ DigitsAt(s, pos, next)
               /\ zeros \/ s[pos] # Zero \/ next = pos + 1
               /\ NumberAt(s, pos, next) <= MaxInt
               /\ parse_integer_value(s, pos, zeros) = Ok(NumberAt(s, pos, next), next)
  <1> DEFINE after == AfterDigits(s, pos)
             next == Min(after)
             r == parse_integer_value(s, pos, zeros)
  <1>1. after # {}
    BY DEF parse_integer_value, Err, Failed
  <1>2. after \subseteq Nat /\ Len(s) \in Nat
    BY DEF AfterDigits
  <1>3. next \in after /\ \A q \in after : next <= q
    <2> HIDE DEF after
    <2>1. \E x \in after : \A y \in after : x <= y
      BY <1>1, <1>2, LeastOf
    <2> QED
      BY <2>1, Zenon DEF Min
  <1> HIDE DEF next
  <1>4. /\ next \in Nat /\ next \in pos .. Len(s) /\ s[next] \notin Digits
        /\ \A q \in pos .. next - 1 : s[q] \in Digits
    BY <1>2, <1>3 DEF AfterDigits
  <1> HIDE DEF after
  <1>5. /\ next # pos
        /\ zeros \/ s[pos] # Zero \/ ~ (next > pos + 1)
        /\ ~ (NumberAt(s, pos, next) > MaxInt)
        /\ r = Ok(NumberAt(s, pos, next), next)
    <2>1. r = IF next = pos THEN Err("EmptyInteger")
              ELSE IF ~ zeros /\ s[pos] = Zero /\ next > pos + 1
                   THEN Err("IntegerWithLeadingZeros")
              ELSE IF NumberAt(s, pos, next) > MaxInt THEN Err("IllegalInteger")
              ELSE Ok(NumberAt(s, pos, next), next)
      BY <1>1 DEF parse_integer_value, NumberAt, after, next
    <2>2. ~ Failed(r)
      OBVIOUS
    <2> HIDE DEF r
    <2> QED
      BY <2>1, <2>2 DEF Err, Failed
  <1>6. DigitsAt(s, pos, next)
    BY <1>2, <1>4, <1>5 DEF DigitsAt
  <1>7. NumberAt(s, pos, next) \in Nat
    BY <1>6, DigitsBetween
  <1> QED
    BY <1>4, <1>5, <1>6, <1>7, BencodeAssumption

\* parse_integer_value on digits, of a number that i64 holds, that something follows.
LEMMA IntegerValueReads ==
    ASSUME NEW s \in Seq(Byte), NEW pos \in Nat \ {0}, NEW zeros \in BOOLEAN, NEW next,
           DigitsAt(s, pos, next), zeros \/ s[pos] # Zero \/ next = pos + 1,
           NumberAt(s, pos, next) <= MaxInt
    PROVE  parse_integer_value(s, pos, zeros) = Ok(NumberAt(s, pos, next), next)
  <1> DEFINE after == AfterDigits(s, pos)
  <1>1. next \in Nat /\ next > pos /\ next <= Len(s) /\ Len(s) \in Nat
    BY DEF DigitsAt
  <1>2. next \in after /\ after # {} /\ after \subseteq Nat
    BY <1>1 DEF AfterDigits, DigitsAt
  <1>3. ASSUME NEW q \in after PROVE next <= q
    BY <1>1 DEF AfterDigits, DigitsAt
  <1> HIDE DEF after
  <1>4. Min(after) = next
    <2>1. ASSUME NEW x \in after, \A y \in after : x <= y PROVE x = next
      BY <1>1, <1>2, <1>3, <2>1
    <2> QED
      BY <1>2, <1>3, <2>1, Zenon DEF Min
  <1>5. ~ (NumberAt(s, pos, next) > MaxInt) /\ next # pos /\ (zeros \/ s[pos] # Zero \/ ~ (next > pos + 1))
    BY <1>1, DigitsBetween, BencodeAssumption
  <1> QED
    BY <1>2, <1>4, <1>5 DEF parse_integer_value, NumberAt, after

\* Digits up to the end of the document could go on.
LEMMA DigitsToTheEnd ==
    ASSUME NEW s, NEW pos, NEW zeros, \A q \in pos .. Len(s) : s[q] \in Digits
    PROVE  parse_integer_value(s, pos, zeros) = Err("InsufficientContents")
  BY DEF parse_integer_value, AfterDigits

\* An integer from pos on, whose end mark is at next.
IsNegative(s, pos) == Available(s, pos + 1) /\ s[pos + 1] = Minus

\* An integer begins at pos, its digits at start, and its end mark is at next.
IntegerAt(s, pos, start, next) ==
    /\ start = IF IsNegative(s, pos) THEN pos + 2 ELSE pos + 1
    /\ DigitsAt(s, start, next)
    /\ s[next] = EndMark
    /\ s[start] # Zero \/ next = start + 1
    /\ NumberAt(s, start, next) <= MaxInt
    /\ IsNegative(s, pos) => NumberAt(s, start, next) # 0

IntegerOf(s, pos, start, next) ==
    Ok(Integer(IF IsNegative(s, pos) THEN - NumberAt(s, start, next)
               ELSE NumberAt(s, start, next)), next + 1)

\* What parse_integer has read when it succeeds ...
LEMMA IntegerRead ==
    ASSUME NEW s \in Seq(Byte), NEW pos \in Nat \ {0}, ~ Failed(parse_integer(s, pos))
    PROVE  \E start \in Nat, next \in Nat :
               /\ IntegerAt(s, pos, start, next)
               /\ parse_integer(s, pos) = IntegerOf(s, pos, start, next)
  <1> DEFINE start == IF IsNegative(s, pos) THEN pos + 2 ELSE pos + 1
             r == parse_integer_value(s, start, FALSE)
             negative == IsNegative(s, pos)
  <1>1. start \in Nat \ {0} /\ negative \in BOOLEAN
    BY DEF IsNegative
  <1>2. parse_integer(s, pos) =
            IF Failed(r) THEN r
            ELSE IF negative /\ r.value = 0 THEN Err("IllegalInteger")
            ELSE IF s[r.pos] # EndMark THEN Err("UnterminatedValue")
            ELSE Ok(Integer(IF negative THEN - r.value ELSE r.value), r.pos + 1)
    BY DEF parse_integer, Try, IsNegative
  <1> HIDE DEF start
  <1>3. ~ Failed(r)
    <2> HIDE DEF r
    <2> QED
      BY <1>2, Zenon
  <1>4. PICK next \in Nat :
            /\ DigitsAt(s, start, next)
            /\ s[start] # Zero \/ next = start + 1
            /\ NumberAt(s, start, next) <= MaxInt
            /\ r = Ok(NumberAt(s, start, next), next)
    BY <1>1, <1>3, IntegerValueRead
  <1> HIDE DEF r, negative
  <1>5. r.value = NumberAt(s, start, next) /\ r.pos = next
    BY <1>4 DEF Ok
  <1>6. /\ ~ (negative /\ r.value = 0) /\ s[r.pos] = EndMark
        /\ parse_integer(s, pos) =
                Ok(Integer(IF negative THEN - r.value ELSE r.value), r.pos + 1)
    BY <1>2, <1>3 DEF Err, Failed
  <1> QED
    BY <1>1, <1>4, <1>5, <1>6, Zenon DEF IntegerAt, IntegerOf, start, negative

\* ... and what makes it succeed.
LEMMA IntegerReads ==
    ASSUME NEW s \in Seq(Byte), NEW pos \in Nat \ {0}, NEW start, NEW next,
           IntegerAt(s, pos, start, next)
    PROVE  parse_integer(s, pos) = IntegerOf(s, pos, start, next)
  <1> DEFINE r == parse_integer_value(s, start, FALSE)
             negative == IsNegative(s, pos)
  <1>1. start \in Nat \ {0} /\ start = IF negative THEN pos + 2 ELSE pos + 1
    BY DEF IntegerAt
  <1>2. r = Ok(NumberAt(s, start, next), next)
    BY <1>1, IntegerValueReads DEF IntegerAt
  <1>3. parse_integer(s, pos) =
            IF Failed(r) THEN r
            ELSE IF negative /\ r.value = 0 THEN Err("IllegalInteger")
            ELSE IF s[r.pos] # EndMark THEN Err("UnterminatedValue")
            ELSE Ok(Integer(IF negative THEN - r.value ELSE r.value), r.pos + 1)
    BY <1>1 DEF parse_integer, Try, IsNegative
  <1> HIDE DEF r
  <1>4. r.value = NumberAt(s, start, next) /\ r.pos = next /\ ~ Failed(r)
    BY <1>2 DEF Ok, Failed
  <1>5. ~ (negative /\ r.value = 0) /\ s[r.pos] = EndMark
    BY <1>4 DEF IntegerAt
  <1> HIDE DEF negative
  <1>6. parse_integer(s, pos) = Ok(Integer(IF negative THEN - r.value ELSE r.value), r.pos + 1)
    BY <1>3, <1>4, <1>5
  <1> QED
    BY <1>4, <1>6 DEF IntegerOf, negative

\* A string from pos on, whose colon is at next.
StringAt(s, pos, next) ==
    /\ DigitsAt(s, pos, next)
    /\ s[next] = Colon
    /\ NumberAt(s, pos, next) <= MaxInt
    /\ next + NumberAt(s, pos, next) <= Len(s)

BytesOf(s, pos, next) == SubSeq(s, next + 1, next + NumberAt(s, pos, next))
StringOf(s, pos, next) ==
    Ok(ByteString(BytesOf(s, pos, next)), next + NumberAt(s, pos, next) + 1)

\* What parse_string has read when it succeeds ...
LEMMA StringRead ==
    ASSUME NEW s \in Seq(Byte), NEW pos \in Nat \ {0}, ~ Failed(parse_string(s, pos))
    PROVE  \E next \in Nat :
               StringAt(s, pos, next) /\ parse_string(s, pos) = StringOf(s, pos, next)
  <1> DEFINE r == parse_integer_value(s, pos, TRUE)
  <1>1. parse_string(s, pos) =
            IF Failed(r) THEN r
            ELSE IF s[r.pos] # Colon THEN Err("StringMissingSeparator")
            ELSE IF r.pos + r.value > Len(s) THEN Err("InsufficientContents")
            ELSE Ok(ByteString(SubSeq(s, r.pos + 1, r.pos + r.value)), r.pos + r.value + 1)
    BY DEF parse_string, Try
  <1>2. ~ Failed(r)
    <2> HIDE DEF r
    <2> QED
      BY <1>1, Zenon
  <1>3. PICK next \in Nat :
            /\ DigitsAt(s, pos, next)
            /\ NumberAt(s, pos, next) <= MaxInt
            /\ r = Ok(NumberAt(s, pos, next), next)
    BY <1>2, IntegerValueRead
  <1> HIDE DEF r
  <1>4. r.value = NumberAt(s, pos, next) /\ r.pos = next
    BY <1>3 DEF Ok
  <1>5. /\ s[r.pos] = Colon /\ ~ (r.pos + r.value > Len(s))
        /\ parse_string(s, pos) =
              Ok(ByteString(SubSeq(s, r.pos + 1, r.pos + r.value)), r.pos + r.value + 1)
    BY <1>1, <1>2 DEF Err, Failed
  <1>6. next + NumberAt(s, pos, next) <= Len(s)
    BY <1>3, <1>4, <1>5, DigitsBetween
  <1> QED
    BY <1>3, <1>4, <1>5, <1>6 DEF StringAt, StringOf, BytesOf

\* ... and what it answers once a length and a colon were read.
LEMMA StringReads ==
    ASSUME NEW s \in Seq(Byte), NEW pos \in Nat \ {0}, NEW next, DigitsAt(s, pos, next),
           NumberAt(s, pos, next) <= MaxInt, s[next] = Colon
    PROVE  parse_string(s, pos) =
               IF next + NumberAt(s, pos, next) <= Len(s) THEN StringOf(s, pos, next)
               ELSE Err("InsufficientContents")
  <1> DEFINE r == parse_integer_value(s, pos, TRUE)
  <1>1. parse_string(s, pos) =
            IF Failed(r) THEN r
            ELSE IF s[r.pos] # Colon THEN Err("StringMissingSeparator")
            ELSE IF r.pos + r.value > Len(s) THEN Err("InsufficientContents")
            ELSE Ok(ByteString(SubSeq(s, r.pos + 1, r.pos + r.value)), r.pos + r.value + 1)
    BY DEF parse_string, Try
  <1>2. r = Ok(NumberAt(s, pos, next), next)
    BY IntegerValueReads
  <1> HIDE DEF r
  <1>3. r.value = NumberAt(s, pos, next) /\ r.pos = next /\ ~ Failed(r)
    BY <1>2 DEF Ok, Failed
  <1>4. next \in Nat /\ NumberAt(s, pos, next) \in Nat /\ Len(s) \in Nat
    BY DigitsBetween DEF DigitsAt
  <1> QED
    BY <1>1, <1>3, <1>4 DEF StringOf, BytesOf

\* A string that was read lies within the document, and has as many bytes as its length says.
LEMMA StringProperties ==
    ASSUME NEW s \in Seq(Byte), NEW pos \in Nat \ {0}, NEW next, StringAt(s, pos, next)
    PROVE  /\ next \in Nat /\ next > pos /\ NumberAt(s, pos, next) \in Nat
           /\ BytesOf(s, pos, next) \in Seq(Byte)
           /\ Len(BytesOf(s, pos, next)) = NumberAt(s, pos, next)
           /\ next + NumberAt(s, pos, next) + 1 \in Nat
           /\ next + NumberAt(s, pos, next) + 1 > pos
           /\ next + NumberAt(s, pos, next) <= Len(s)
  <1>1. next \in Nat /\ next > pos /\ NumberAt(s, pos, next) \in Nat /\ Len(s) \in Nat
    BY DigitsBetween DEF StringAt, DigitsAt
  <1> DEFINE n == NumberAt(s, pos, next)
  <1>2. n \in Nat /\ next + n <= Len(s)
    BY <1>1 DEF StringAt
  <1> HIDE DEF n
  <1>3. SubSeq(s, next + 1, next + n) \in Seq(Byte) /\ Len(SubSeq(s, next + 1, next + n)) = n
    BY <1>1, <1>2
  <1> QED
    BY <1>1, <1>2, <1>3 DEF BytesOf, n

-----------------------------------------------------------------------------
(* The parser.  Every call is made further on in the document, or for a     *)
(* value instead of what begins with it: so the recursion has an end.       *)

\* How much is left to read; a call for a list or a dictionary has its next value to read.
Measure(s, c) ==
    (IF c.pos <= Len(s) THEN 2 * (Len(s) + 1 - c.pos) ELSE 0)
        + (IF c.parse = "value" THEN 0 ELSE 1)

\* What is read ends after it began.
Advances(r, pos) == ~ Failed(r) => r.pos \in Nat /\ r.pos > pos

\* g and h answer the calls that are made for one of this measure alike.
AgreeBelow(s, g, h, n) ==
    \A d \in Calls : Measure(s, d) < n => h[d] = g[d] /\ Advances(g[d], d.pos)

\* The calls that the parser makes are calls.
LEMMA CallTypes ==
    ASSUME NEW pos \in Nat \ {0}
    PROVE  /\ ValueAt(pos) \in Calls /\ ValueAt(pos).pos = pos /\ ValueAt(pos).parse = "value"
           /\ ElementsFrom(pos) \in Calls /\ ElementsFrom(pos).pos = pos
           /\ ElementsFrom(pos).parse = "list"
           /\ \A last \in Seq(Seq(Byte)) :
                 /\ ItemsFrom(pos, last) \in Calls /\ ItemsFrom(pos, last).pos = pos
                 /\ ItemsFrom(pos, last).parse = "dictionary" /\ ItemsFrom(pos, last).last = last
  BY DEF Calls, ValueAt, ElementsFrom, ItemsFrom

\* There are three kinds of calls.
LEMMA CallForms ==
    ASSUME NEW c \in Calls
    PROVE  /\ c.pos \in Nat \ {0}
           /\ \/ c.parse = "value"
              \/ c.parse = "list"
              \/ c.parse = "dictionary" /\ c.last \in Seq(Seq(Byte))
  BY DEF Calls

\* The measure of a call is bounded by the document.
LEMMA MeasureOf ==
    ASSUME NEW s \in Seq(Byte), NEW c \in Calls
    PROVE  /\ Measure(s, c) \in 0 .. 2 * Len(s) + 1
           /\ c.pos <= Len(s) => Measure(s, c) = 2 * (Len(s) + 1 - c.pos)
                                                   + (IF c.parse = "value" THEN 0 ELSE 1)
           /\ c.pos > Len(s) => Measure(s, c) <= 1
  BY CallForms DEF Measure

\* A call that is further on, or for the value that is first, is below.
LEMMA CallsBelow ==
    ASSUME NEW s \in Seq(Byte), NEW c \in Calls, Available(s, c.pos), NEW d \in Calls,
           d.pos > c.pos \/ (d.pos = c.pos /\ d.parse = "value" /\ c.parse # "value")
    PROVE  Measure(s, d) < Measure(s, c)
  <1>1. c.pos \in Nat /\ d.pos \in Nat /\ Len(s) \in Nat /\ c.pos <= Len(s)
    BY CallForms DEF Available
  <1>2. Measure(s, c) = 2 * (Len(s) + 1 - c.pos) + (IF c.parse = "value" THEN 0 ELSE 1)
    BY <1>1, MeasureOf
  <1>3. CASE d.pos <= Len(s)
    <2>1. Measure(s, d) = 2 * (Len(s) + 1 - d.pos) + (IF d.parse = "value" THEN 0 ELSE 1)
      BY <1>3, MeasureOf
    <2> QED
      BY <1>1, <1>2, <2>1
  <1>4. CASE d.pos > Len(s)
    <2>1. Measure(s, d) <= 1 /\ Measure(s, d) \in Int
      BY <1>4, MeasureOf
    <2> QED
      BY <1>1, <1>2, <2>1
  <1> QED
    BY <1>1, <1>3, <1>4

\* A call depends only on calls of a smaller measure, and reads forward if these do.
LEMMA StepIsLocal ==
    ASSUME NEW s \in Seq(Byte), NEW c \in Calls, NEW g, NEW h,
           AgreeBelow(s, g, h, Measure(s, c))
    PROVE  Step(s, h, c) = Step(s, g, c) /\ Advances(Step(s, g, c), c.pos)
  <1> DEFINE pos == c.pos
             Good(x, y) == x = y /\ Advances(y, pos)
  <1>0. pos \in Nat \ {0} /\ Len(s) \in Nat
    BY CallForms
  <1>1. ASSUME NEW d \in Calls, Available(s, pos),
               d.pos > pos \/ (d.pos = pos /\ d.parse = "value" /\ c.parse # "value")
        PROVE  h[d] = g[d] /\ Advances(g[d], d.pos)
    BY <1>1, CallsBelow DEF AgreeBelow
  <1>2. CASE c.parse = "value"
    <2>1. Step(s, h, c) = parse_value(s, h, pos) /\ Step(s, g, c) = parse_value(s, g, pos)
      BY <1>2 DEF Step
    <2> SUFFICES Good(parse_value(s, h, pos), parse_value(s, g, pos))
      BY <2>1
    <2>2. CASE ~ Available(s, pos)
      BY <2>2 DEF parse_value, Err, Failed, Advances
    <2>3. CASE Available(s, pos)
      <3>1. Good(parse_integer(s, pos), parse_integer(s, pos))
        <4>1. ASSUME ~ Failed(parse_integer(s, pos))
              PROVE  parse_integer(s, pos).pos \in Nat /\ parse_integer(s, pos).pos > pos
          <5>1. PICK start \in Nat, next \in Nat :
                    /\ IntegerAt(s, pos, start, next)
                    /\ parse_integer(s, pos) = IntegerOf(s, pos, start, next)
            BY <1>0, <4>1, IntegerRead
          <5>2. start > pos /\ next > start
            BY <1>0, <5>1 DEF IntegerAt, DigitsAt
          <5>3. parse_integer(s, pos).pos = next + 1
            BY <5>1 DEF IntegerOf, Ok
          <5> QED
            BY <1>0, <5>2, <5>3
        <4> QED
          BY <4>1 DEF Advances
      <3>2. Good(parse_string(s, pos), parse_string(s, pos))
        <4>1. ASSUME ~ Failed(parse_string(s, pos))
              PROVE  parse_string(s, pos).pos \in Nat /\ parse_string(s, pos).pos > pos
          <5>1. PICK next \in Nat :
                    StringAt(s, pos, next) /\ parse_string(s, pos) = StringOf(s, pos, next)
            BY <1>0, <4>1, StringRead
          <5>2. parse_string(s, pos).pos = next + NumberAt(s, pos, next) + 1
            BY <5>1 DEF StringOf, Ok
          <5> QED
            BY <1>0, <5>1, <5>2, StringProperties
        <4> QED
          BY <4>1 DEF Advances
      <3>3. Good(parse_list(h, pos), parse_list(g, pos))
        <4> DEFINE d == ElementsFrom(pos + 1)
        <4>1. h[d] = g[d] /\ Advances(g[d], pos + 1)
          <5>1. d \in Calls /\ d.pos = pos + 1
            BY <1>0, CallTypes
          <5> QED
            BY <1>0, <1>1, <2>3, <5>1
        <4> HIDE DEF d
        <4>2. parse_list(h, pos) = parse_list(g, pos)
          BY <4>1 DEF parse_list, d
        <4>3. Advances(parse_list(g, pos), pos)
          BY <1>0, <4>1 DEF parse_list, d, Try, Advances, Ok
        <4> QED
          BY <4>2, <4>3
      <3>4. Good(parse_dictionary(h, pos), parse_dictionary(g, pos))
        <4> DEFINE d == ItemsFrom(pos + 1, <<>>)
        <4>1. h[d] = g[d] /\ Advances(g[d], pos + 1)
          <5>1. <<>> \in Seq(Seq(Byte))
            OBVIOUS
          <5>2. d \in Calls /\ d.pos = pos + 1
            <6>1. pos + 1 \in Nat \ {0}
              BY <1>0
            <6> HIDE DEF pos
            <6> QED
              BY <5>1, <6>1, CallTypes
          <5> QED
            BY <1>0, <1>1, <2>3, <5>2
        <4> HIDE DEF d
        <4>2. parse_dictionary(h, pos) = parse_dictionary(g, pos)
          BY <4>1 DEF parse_dictionary, d
        <4>3. Advances(parse_dictionary(g, pos), pos)
          BY <1>0, <4>1 DEF parse_dictionary, d, Try, Advances, Ok
        <4> QED
          BY <4>2, <4>3
      <3>5. Good(Err("UnknownType"), Err("UnknownType"))
        BY DEF Err, Failed, Advances
      <3> QED
        BY <2>3, <3>1, <3>2, <3>3, <3>4, <3>5
           DEF parse_value, IntegerMark, ListMark, DictionaryMark, Digits
    <2> QED
      BY <2>2, <2>3
  <1>3. CASE c.parse = "list"
    <2>1. Step(s, h, c) = Elements(s, h, pos) /\ Step(s, g, c) = Elements(s, g, pos)
      BY <1>3 DEF Step
    <2> SUFFICES Good(Elements(s, h, pos), Elements(s, g, pos))
      BY <2>1
    <2>2. CASE ~ Available(s, pos)
      BY <2>2 DEF Elements, Err, Failed, Advances
    <2>3. CASE Available(s, pos) /\ s[pos] = EndMark
      <3>1. Elements(s, h, pos) = Ok(<<>>, pos + 1) /\ Elements(s, g, pos) = Ok(<<>>, pos + 1)
        BY <2>3 DEF Elements
      <3>2. Advances(Ok(<<>>, pos + 1), pos)
        BY <1>0 DEF Ok, Failed, Advances
      <3> QED
        BY <3>1, <3>2
    <2>4. CASE Available(s, pos) /\ s[pos] # EndMark
      <3> DEFINE v == g[ValueAt(pos)]
                 d == ElementsFrom(v.pos)
      <3>1. h[ValueAt(pos)] = v /\ Advances(v, pos)
        <4>1. ValueAt(pos) \in Calls /\ ValueAt(pos).pos = pos /\ ValueAt(pos).parse = "value"
          BY <1>0, CallTypes
        <4>2. c.parse # "value"
          BY <1>3
        <4> QED
          BY <1>1, <2>4, <4>1, <4>2
      <3> HIDE DEF v
      <3>2. CASE Failed(v)
        BY <2>4, <3>1, <3>2 DEF Elements, Try, Advances, v
      <3>3. CASE ~ Failed(v)
        <4>1. v.pos \in Nat /\ v.pos > pos
          BY <3>1, <3>3 DEF Advances
        <4>2. h[d] = g[d] /\ Advances(g[d], v.pos)
          <5>1. v.pos \in Nat \ {0}
            BY <1>0, <4>1
          <5>2. d \in Calls /\ d.pos = v.pos
            BY <5>1, CallTypes
          <5> QED
            BY <1>0, <1>1, <2>4, <4>1, <5>2
        <4> DEFINE rest == g[d]
        <4>3. Elements(s, g, pos) = IF Failed(rest) THEN rest
                                    ELSE Ok(<<v.value>> \o rest.value, rest.pos)
          BY <2>4, <3>3 DEF Elements, Try, v
        <4>4. Elements(s, h, pos) = IF Failed(h[d]) THEN h[d]
                                    ELSE Ok(<<v.value>> \o h[d].value, h[d].pos)
          BY <2>4, <3>1, <3>3 DEF Elements, Try
        <4> HIDE DEF d
        <4>5. Elements(s, h, pos) = Elements(s, g, pos)
          BY <4>2, <4>3, <4>4
        <4> HIDE DEF rest
        <4>6. Advances(Elements(s, g, pos), pos)
          <5>1. Advances(rest, v.pos)
            BY <4>2 DEF rest
          <5>2. CASE Failed(rest)
            BY <4>3, <5>2 DEF Advances
          <5>3. CASE ~ Failed(rest)
            <6>1. Elements(s, g, pos).pos = rest.pos
              BY <4>3, <5>3 DEF Ok
            <6> QED
              BY <1>0, <4>1, <5>1, <5>3, <6>1 DEF Advances
          <5> QED
            BY <5>2, <5>3
        <4> QED
          BY <4>5, <4>6
      <3> QED
        BY <3>2, <3>3
    <2> QED
      BY <2>2, <2>3, <2>4
  <1>4. CASE c.parse = "dictionary" /\ c.last \in Seq(Seq(Byte))
    <2> DEFINE last == c.last
    <2>1. Step(s, h, c) = Items(s, h, pos, last) /\ Step(s, g, c) = Items(s, g, pos, last)
      BY <1>4 DEF Step
    <2> SUFFICES Good(Items(s, h, pos, last), Items(s, g, pos, last))
      BY <2>1
    <2> HIDE DEF last
    <2>2. CASE ~ Available(s, pos)
      BY <2>2 DEF Items, Err, Failed, Advances
    <2>3. CASE Available(s, pos) /\ s[pos] = EndMark
      <3>1. Items(s, h, pos, last) = Ok(<<>>, pos + 1) /\ Items(s, g, pos, last) = Ok(<<>>, pos + 1)
        BY <2>3 DEF Items
      <3>2. Advances(Ok(<<>>, pos + 1), pos)
        BY <1>0 DEF Ok, Failed, Advances
      <3> QED
        BY <3>1, <3>2
    <2>4. CASE Available(s, pos) /\ s[pos] # EndMark
      <3> DEFINE r == parse_string(s, pos)
                 key == r.value.bytes
      <3>1. CASE Failed(r)
        BY <2>4, <3>1 DEF Items, Try, Advances
      <3>2. CASE last = <<key>> \/ (last # <<>> /\ ~ InOrder(last[1], key))
        BY <2>4, <3>1, <3>2 DEF Items, Try, Advances, Err, Failed
      <3>3. CASE ~ Failed(r) /\ ~ (last = <<key>> \/ (last # <<>> /\ ~ InOrder(last[1], key)))
        <4>1. r.pos \in Nat /\ r.pos > pos /\ key \in Seq(Byte)
          <5>1. PICK next \in Nat : StringAt(s, pos, next) /\ r = StringOf(s, pos, next)
            BY <1>0, <3>3, StringRead
          <5>2. r.pos = next + NumberAt(s, pos, next) + 1 /\ key = BytesOf(s, pos, next)
            BY <5>1 DEF StringOf, Ok, ByteString
          <5> QED
            BY <1>0, <5>1, <5>2, StringProperties
        <4>2. \A P : Items(s, P, pos, last) =
                  Try(P[ValueAt(r.pos)], LAMBDA v :
                      Try(P[ItemsFrom(v.pos, <<key>>)], LAMBDA rest :
                          Ok(Insert(rest.value, key, v.value), rest.pos)))
          BY <2>4, <3>3 DEF Items, Try
        <4> HIDE DEF r, key
        <4> DEFINE v == g[ValueAt(r.pos)]
                   d == ItemsFrom(v.pos, <<key>>)
        <4>3. h[ValueAt(r.pos)] = v /\ Advances(v, r.pos)
          <5>1. ValueAt(r.pos) \in Calls /\ ValueAt(r.pos).pos = r.pos
            BY <1>0, <4>1, CallTypes
          <5> QED
            BY <1>0, <1>1, <2>4, <4>1, <5>1
        <4> HIDE DEF v
        <4>4. CASE Failed(v)
          BY <4>2, <4>3, <4>4 DEF Try, Advances, v
        <4>5. CASE ~ Failed(v)
          <5>1. v.pos \in Nat /\ v.pos > pos
            BY <1>0, <4>1, <4>3, <4>5 DEF Advances
          <5>2. h[d] = g[d] /\ Advances(g[d], v.pos)
            <6>1. <<key>> \in Seq(Seq(Byte)) /\ v.pos \in Nat \ {0}
              BY <1>0, <4>1, <5>1
            <6>2. d \in Calls /\ d.pos = v.pos
              BY <6>1, CallTypes
            <6> QED
              BY <1>0, <1>1, <2>4, <5>1, <6>2
          <5> DEFINE rest == g[d]
          <5>3. Items(s, g, pos, last) = IF Failed(rest) THEN rest
                                         ELSE Ok(Insert(rest.value, key, v.value), rest.pos)
            BY <4>2, <4>5 DEF Try, v
          <5>4. Items(s, h, pos, last) = IF Failed(h[d]) THEN h[d]
                                         ELSE Ok(Insert(h[d].value, key, v.value), h[d].pos)
            BY <4>2, <4>3, <4>5 DEF Try
          <5> HIDE DEF d
          <5>5. Items(s, h, pos, last) = Items(s, g, pos, last)
            BY <5>2, <5>3, <5>4
          <5> HIDE DEF rest
          <5>6. Advances(Items(s, g, pos, last), pos)
            <6>1. Advances(rest, v.pos)
              BY <5>2 DEF rest
            <6>2. CASE Failed(rest)
              BY <5>3, <6>2 DEF Advances
            <6>3. CASE ~ Failed(rest)
              <7>1. Items(s, g, pos, last).pos = rest.pos
                BY <5>3, <6>3 DEF Ok
              <7> QED
                BY <1>0, <5>1, <6>1, <6>3, <7>1 DEF Advances
            <6> QED
              BY <6>2, <6>3
          <5> QED
            BY <5>5, <5>6
        <4> QED
          BY <4>4, <4>5
      <3> QED
        BY <3>1, <3>2, <3>3
    <2> QED
      BY <2>2, <2>3, <2>4
  <1> QED
    BY <1>2, <1>3, <1>4, CallForms

\* P answers every call as the code does.
Answers(s, P) ==
    \A c \in Calls : P[c] = Step(s, P, c) /\ Advances(P[c], c.pos)

\* The recursion is well founded: the parser function exists.
LEMMA ParserAnswers ==
    ASSUME NEW s \in Seq(Byte)
    PROVE  Answers(s, Parser(s))
  <1> DEFINE D(n) == {c \in Calls : Measure(s, c) < n}
             Good(n, g) == \A c \in D(n) : g[c] = Step(s, g, c) /\ Advances(g[c], c.pos)
             N == 2 * Len(s) + 2
             T == {n \in 0 .. N : \E g : Good(n, g)}
  <1>0. N \in Nat /\ \A c \in Calls : Measure(s, c) \in Nat /\ Measure(s, c) < N
    BY MeasureOf
  <1>1. 0 \in T
    BY <1>0
  <1>2. ASSUME NEW n \in 0 .. N, n < N, n \in T PROVE n + 1 \in T
    <2>1. PICK g : Good(n, g)
      BY <1>2
    <2> DEFINE h == [c \in Calls |-> IF Measure(s, c) < n THEN g[c] ELSE Step(s, g, c)]
    <2>2. ASSUME NEW c \in D(n + 1) PROVE h[c] = Step(s, h, c) /\ Advances(h[c], c.pos)
      <3>1. \A d \in Calls : Measure(s, d) < Measure(s, c) => Measure(s, d) < n
        BY <1>0
      <3>2. AgreeBelow(s, g, h, Measure(s, c))
        BY <2>1, <3>1 DEF AgreeBelow
      <3> HIDE DEF h
      <3>3. Step(s, h, c) = Step(s, g, c) /\ Advances(Step(s, g, c), c.pos)
        BY <3>2, StepIsLocal
      <3>4. h[c] = Step(s, g, c)
        BY <2>1 DEF h
      <3> QED
        BY <3>3, <3>4
    <2> HIDE DEF h
    <2>3. Good(n + 1, h)
      BY <2>2
    <2> HIDE DEF Good
    <2> QED
      BY <1>0, <1>2, <2>3
  <1> HIDE DEF T
  <1>3. N \in T
    BY <1>0, <1>1, <1>2, BoundedInduction
  <1>4. PICK g : Good(N, g)
    BY <1>3 DEF T
  <1> DEFINE Unfolded(P) == P = [c \in Calls |-> Step(s, P, c)]
             f == [c \in Calls |-> g[c]]
             chosen == CHOOSE P : Unfolded(P)
  <1>5. ASSUME NEW c \in Calls PROVE f[c] = Step(s, f, c)
    <2>1. AgreeBelow(s, g, f, Measure(s, c))
      BY <1>0, <1>4 DEF AgreeBelow
    <2> HIDE DEF f
    <2>2. Step(s, f, c) = Step(s, g, c)
      BY <2>1, StepIsLocal
    <2>3. f[c] = g[c] /\ g[c] = Step(s, g, c)
      BY <1>0, <1>4 DEF f
    <2> QED
      BY <2>2, <2>3
  <1>6. Unfolded(f)
    <2>1. f = [c \in Calls |-> f[c]]
      OBVIOUS
    <2> HIDE DEF f
    <2> QED
      BY <1>5, <2>1, Zenon
  <1> HIDE DEF f
  <1>7. Unfolded(chosen)
    <2> HIDE DEF Unfolded
    <2> QED
      BY <1>6, Zenon
  <1>8. Parser(s) = chosen
    BY DEF Parser
  <1> HIDE DEF chosen
  <1>9. \A c \in Calls : chosen[c] = Step(s, chosen, c)
    BY <1>7
  <1> DEFINE U == {n \in 0 .. N : \A c \in Calls : Measure(s, c) < n => Advances(chosen[c], c.pos)}
  <1>10. 0 \in U
    BY <1>0
  <1>11. ASSUME NEW n \in 0 .. N, n < N, n \in U PROVE n + 1 \in U
    <2>1. ASSUME NEW c \in Calls, Measure(s, c) < n + 1 PROVE Advances(chosen[c], c.pos)
      <3>1. AgreeBelow(s, chosen, chosen, Measure(s, c))
        BY <1>0, <1>11, <2>1 DEF AgreeBelow
      <3> QED
        BY <1>9, <3>1, StepIsLocal
    <2> QED
      BY <1>0, <1>11, <2>1
  <1> HIDE DEF U
  <1>12. N \in U
    BY <1>0, <1>10, <1>11, BoundedInduction
  <1>13. \A c \in Calls : Advances(chosen[c], c.pos)
    BY <1>0, <1>12 DEF U
  <1> QED
    BY <1>8, <1>9, <1>13 DEF Answers

-----------------------------------------------------------------------------
(* A document that lacks its end.                                           *)

\* t is the first bytes of s.
IsCut(s, t) == Len(t) <= Len(s) /\ \A k \in 1 .. Len(t) : t[k] = s[k]

\* What was read before the cut is read, and otherwise the end is missed.
Survives(r, q, t) == q = IF r.pos <= Len(t) + 1 THEN r ELSE Err("InsufficientContents")

\* What lies before the cut is as it was.
LEMMA CutSlice ==
    ASSUME NEW s \in Seq(Byte), NEW t \in Seq(Byte), IsCut(s, t), NEW a \in Nat \ {0},
           NEW b \in Nat, b <= Len(t)
    PROVE  SubSeq(t, a, b) = SubSeq(s, a, b)
  <1>1. Len(t) <= Len(s) /\ \A k \in 1 .. Len(t) : t[k] = s[k]
    BY DEF IsCut
  <1>2. CASE a <= b
    <2>1. /\ SubSeq(t, a, b) \in Seq(Byte) /\ Len(SubSeq(t, a, b)) = b - a + 1
          /\ \A k \in 1 .. b - a + 1 : SubSeq(t, a, b)[k] = t[k + a - 1]
      BY <1>2
    <2>2. /\ SubSeq(s, a, b) \in Seq(Byte) /\ Len(SubSeq(s, a, b)) = b - a + 1
          /\ \A k \in 1 .. b - a + 1 : SubSeq(s, a, b)[k] = s[k + a - 1]
      BY <1>1, <1>2
    <2>3. \A k \in 1 .. b - a + 1 : t[k + a - 1] = s[k + a - 1]
      BY <1>1
    <2> DEFINE u == SubSeq(t, a, b)
               v == SubSeq(s, a, b)
    <2>4. /\ u \in Seq(Byte) /\ v \in Seq(Byte) /\ Len(u) = Len(v)
          /\ \A k \in 1 .. Len(u) : u[k] = v[k]
      BY <2>1, <2>2, <2>3
    <2> HIDE DEF u, v
    <2>5. u = v
      BY <2>4
    <2> QED
      BY <2>5 DEF u, v
  <1>3. CASE ~ (a <= b)
    BY <1>3
  <1> QED
    BY <1>2, <1>3

\* Digits that end before the cut are read as before; otherwise the end is missed.
LEMMA CutDigits ==
    ASSUME NEW s \in Seq(Byte), NEW t \in Seq(Byte), IsCut(s, t), NEW pos \in Nat \ {0},
           NEW next, DigitsAt(s, pos, next)
    PROVE  /\ next <= Len(t) => DigitsAt(t, pos, next) /\ NumberAt(t, pos, next) = NumberAt(s, pos, next)
           /\ ~ (next <= Len(t)) =>
                \A zeros : parse_integer_value(t, pos, zeros) = Err("InsufficientContents")
  <1>1. /\ next \in Nat /\ next > pos /\ next <= Len(s) /\ s[next] \notin Digits
        /\ \A q \in pos .. next - 1 : s[q] \in Digits
    BY DEF DigitsAt
  <1>2. Len(t) \in Nat /\ Len(t) <= Len(s) /\ \A k \in 1 .. Len(t) : t[k] = s[k]
    BY DEF IsCut
  <1>3. ASSUME next <= Len(t)
        PROVE  DigitsAt(t, pos, next) /\ NumberAt(t, pos, next) = NumberAt(s, pos, next)
    <2>1. DigitsAt(t, pos, next)
      BY <1>1, <1>2, <1>3 DEF DigitsAt
    <2>2. next - 1 \in Nat /\ next - 1 <= Len(t)
      BY <1>1, <1>2, <1>3
    <2>3. SubSeq(t, pos, next - 1) = SubSeq(s, pos, next - 1)
      BY <2>2, CutSlice
    <2> QED
      BY <2>1, <2>3 DEF NumberAt
  <1>4. ASSUME ~ (next <= Len(t)), NEW zeros
        PROVE  parse_integer_value(t, pos, zeros) = Err("InsufficientContents")
    <2>1. \A q \in pos .. Len(t) : t[q] \in Digits
      BY <1>1, <1>2, <1>4
    <2> QED
      BY <2>1, DigitsToTheEnd
  <1> QED
    BY <1>3, <1>4

\* The same for parse_integer ...
LEMMA CutInteger ==
    ASSUME NEW s \in Seq(Byte), NEW t \in Seq(Byte), IsCut(s, t), NEW pos \in Nat \ {0},
           Available(t, pos), ~ Failed(parse_integer(s, pos))
    PROVE  Survives(parse_integer(s, pos), parse_integer(t, pos), t)
  <1>1. PICK start \in Nat, next \in Nat :
            /\ IntegerAt(s, pos, start, next)
            /\ parse_integer(s, pos) = IntegerOf(s, pos, start, next)
    BY IntegerRead
  <1>2. /\ start = IF IsNegative(s, pos) THEN pos + 2 ELSE pos + 1
        /\ start \in Nat \ {0} /\ DigitsAt(s, start, next) /\ next > start
    BY <1>1 DEF IntegerAt, DigitsAt
  <1>3. parse_integer(s, pos).pos = next + 1
    BY <1>1 DEF IntegerOf, Ok
  <1>4. Len(t) \in Nat /\ Len(t) <= Len(s) /\ \A k \in 1 .. Len(t) : t[k] = s[k]
    BY DEF IsCut
  <1> DEFINE from == IF IsNegative(t, pos) THEN pos + 2 ELSE pos + 1
  <1> HIDE DEF from
  <1>5. parse_integer_value(t, from, FALSE) = Err("InsufficientContents")
            => parse_integer(t, pos) = Err("InsufficientContents")
    <2>1. Failed(parse_integer_value(t, from, FALSE))
              => parse_integer(t, pos) = parse_integer_value(t, from, FALSE)
      BY DEF parse_integer, IsNegative, Try, from
    <2>2. Failed(Err("InsufficientContents"))
      BY DEF Err, Failed
    <2> QED
      BY <2>1, <2>2
  <1>6. CASE pos + 1 <= Len(t)
    <2>1. IsNegative(t, pos) <=> IsNegative(s, pos)
      BY <1>4, <1>6 DEF IsNegative, Available
    <2>2. from = start
      BY <1>2, <2>1 DEF from
    <2>3. CASE next <= Len(t)
      <3>1. DigitsAt(t, start, next) /\ NumberAt(t, start, next) = NumberAt(s, start, next)
        BY <1>2, <2>3, CutDigits
      <3>2. t[next] = s[next] /\ t[start] = s[start]
        BY <1>2, <1>4, <2>3
      <3>3. IntegerAt(t, pos, start, next)
        BY <1>1, <2>1, <3>1, <3>2 DEF IntegerAt
      <3>4. parse_integer(t, pos) = IntegerOf(t, pos, start, next)
        BY <3>3, IntegerReads
      <3>5. IntegerOf(t, pos, start, next) = IntegerOf(s, pos, start, next)
        BY <2>1, <3>1 DEF IntegerOf
      <3>6. next + 1 <= Len(t) + 1
        BY <1>4, <2>3
      <3> QED
        BY <1>1, <1>3, <3>4, <3>5, <3>6 DEF Survives
    <2>4. CASE ~ (next <= Len(t))
      <3>1. parse_integer_value(t, from, FALSE) = Err("InsufficientContents")
        BY <1>2, <2>2, <2>4, CutDigits
      <3>2. ~ (next + 1 <= Len(t) + 1)
        BY <1>4, <2>4
      <3> QED
        BY <1>3, <1>5, <3>1, <3>2 DEF Survives
    <2> QED
      BY <2>3, <2>4
  <1>7. CASE ~ (pos + 1 <= Len(t))
    <2>1. from = pos + 1
      BY <1>7 DEF IsNegative, Available, from
    <2>2. \A q \in from .. Len(t) : t[q] \in Digits
      BY <1>4, <1>7, <2>1
    <2>3. parse_integer_value(t, from, FALSE) = Err("InsufficientContents")
      BY <2>2, DigitsToTheEnd
    <2>4. ~ (next + 1 <= Len(t) + 1)
      BY <1>2, <1>4, <1>7
    <2> QED
      BY <1>3, <1>5, <2>3, <2>4 DEF Survives
  <1> QED
    BY <1>6, <1>7

\* ... and for parse_string.
LEMMA CutString ==
    ASSUME NEW s \in Seq(Byte), NEW t \in Seq(Byte), IsCut(s, t), NEW pos \in Nat \ {0},
           ~ Failed(parse_string(s, pos))
    PROVE  Survives(parse_string(s, pos), parse_string(t, pos), t)
  <1>1. PICK next \in Nat : StringAt(s, pos, next) /\ parse_string(s, pos) = StringOf(s, pos, next)
    BY StringRead
  <1> DEFINE n == NumberAt(s, pos, next)
  <1>2. /\ next > pos /\ n \in Nat /\ next + n <= Len(s)
        /\ DigitsAt(s, pos, next) /\ s[next] = Colon /\ n <= MaxInt
    BY <1>1, StringProperties DEF StringAt
  <1>3. parse_string(s, pos).pos = next + n + 1
    BY <1>1 DEF StringOf, Ok
  <1>4. Len(t) \in Nat /\ Len(t) <= Len(s) /\ \A k \in 1 .. Len(t) : t[k] = s[k]
    BY DEF IsCut
  <1>5. CASE next <= Len(t)
    <2>1. DigitsAt(t, pos, next) /\ NumberAt(t, pos, next) = n
      BY <1>2, <1>5, CutDigits
    <2>2. t[next] = Colon
      BY <1>2, <1>4, <1>5
    <2>3. parse_string(t, pos) = IF next + n <= Len(t) THEN StringOf(t, pos, next)
                                 ELSE Err("InsufficientContents")
      BY <1>2, <2>1, <2>2, StringReads
    <2>4. ASSUME next + n <= Len(t) PROVE StringOf(t, pos, next) = StringOf(s, pos, next)
      <3> HIDE DEF n
      <3>1. SubSeq(t, next + 1, next + n) = SubSeq(s, next + 1, next + n)
        <4>1. next + n \in Nat /\ next + 1 \in Nat \ {0}
          BY <1>2
        <4> QED
          BY <2>4, <4>1, CutSlice
      <3>2. BytesOf(t, pos, next) = BytesOf(s, pos, next)
        BY <2>1, <3>1 DEF BytesOf, n
      <3> QED
        BY <2>1, <3>2 DEF StringOf, n
    <2> HIDE DEF n
    <2>5. next + n + 1 <= Len(t) + 1 <=> next + n <= Len(t)
      BY <1>2, <1>4
    <2> QED
      BY <1>1, <1>3, <2>3, <2>4, <2>5 DEF Survives
  <1>6. CASE ~ (next <= Len(t))
    <2>1. parse_integer_value(t, pos, TRUE) = Err("InsufficientContents")
      BY <1>2, <1>6, CutDigits
    <2>2. Failed(Err("InsufficientContents"))
      BY DEF Err, Failed
    <2>3. parse_string(t, pos) = Err("InsufficientContents")
      BY <2>1, <2>2 DEF parse_string, Try
    <2> HIDE DEF n
    <2>4. ~ (next + n + 1 <= Len(t) + 1)
      BY <1>2, <1>4, <1>6
    <2> QED
      BY <1>3, <2>3, <2>4 DEF Survives
  <1> QED
    BY <1>5, <1>6

\* The same for every call, if it holds of those of a smaller measure.
LEMMA CutCall ==
    ASSUME NEW s \in Seq(Byte), NEW t \in Seq(Byte), IsCut(s, t), NEW P, NEW Q,
           Answers(s, P), Answers(t, Q), NEW c \in Calls, ~ Failed(P[c]),
           \A d \in Calls : Measure(s, d) < Measure(s, c) /\ ~ Failed(P[d]) => Survives(P[d], Q[d], t)
    PROVE  Survives(P[c], Q[c], t)
  <1> DEFINE pos == c.pos
  <1>1. pos \in Nat \ {0} /\ Len(s) \in Nat /\ Len(t) \in Nat
    BY CallForms
  <1>2. P[c] = Step(s, P, c) /\ Q[c] = Step(t, Q, c) /\ P[c].pos \in Nat /\ P[c].pos > pos
    BY DEF Answers, Advances
  <1>3. Len(t) <= Len(s) /\ \A k \in 1 .. Len(t) : t[k] = s[k]
    BY DEF IsCut
  <1>4. Available(s, pos)
    <2> SUFFICES ASSUME ~ Available(s, pos) PROVE Step(s, P, c) = Err("InsufficientContents")
      BY <1>2 DEF Err, Failed
    <2>1. CASE c.parse = "value"
      BY <2>1 DEF Step, parse_value
    <2>2. CASE c.parse = "list"
      BY <2>2 DEF Step, Elements
    <2>3. CASE c.parse = "dictionary"
      BY <2>3 DEF Step, Items
    <2> QED
      BY <2>1, <2>2, <2>3, CallForms
  <1>5. CASE ~ Available(t, pos)
    <2>1. Q[c] = Err("InsufficientContents")
      BY <1>2, <1>5, CallForms DEF Step, parse_value, Elements, Items
    <2>2. ~ (P[c].pos <= Len(t) + 1)
      BY <1>1, <1>2, <1>5 DEF Available
    <2> QED
      BY <2>1, <2>2 DEF Survives
  <1>6. CASE Available(t, pos)
    <2>1. t[pos] = s[pos]
      BY <1>1, <1>3, <1>6 DEF Available
    <2>2. ASSUME NEW d \in Calls, ~ Failed(P[d]),
                 d.pos > pos \/ (d.pos = pos /\ d.parse = "value" /\ c.parse # "value")
          PROVE  Survives(P[d], Q[d], t) /\ P[d].pos \in Nat /\ P[d].pos > d.pos
      BY <1>4, <2>2, CallsBelow DEF Answers, Advances
    <2>3. Failed(Err("InsufficientContents")) /\ ~ Failed(P[c])
      BY DEF Err, Failed
    <2>4. CASE c.parse = "value"
      <3>1. P[c] = parse_value(s, P, pos) /\ Q[c] = parse_value(t, Q, pos)
        BY <1>2, <2>4 DEF Step
      <3>2. CASE s[pos] = IntegerMark
        <4>1. P[c] = parse_integer(s, pos) /\ Q[c] = parse_integer(t, pos)
          BY <1>4, <1>6, <2>1, <3>1, <3>2
             DEF parse_value, IntegerMark, ListMark, DictionaryMark, Digits
        <4> QED
          BY <1>1, <1>6, <2>3, <4>1, CutInteger
      <3>3. CASE s[pos] = ListMark
        <4>1. P[c] = parse_list(P, pos) /\ Q[c] = parse_list(Q, pos)
          BY <1>4, <1>6, <2>1, <3>1, <3>3
             DEF parse_value, IntegerMark, ListMark, DictionaryMark, Digits
        <4> DEFINE d == ElementsFrom(pos + 1)
        <4>2. ~ Failed(P[d]) /\ P[c].pos = P[d].pos
          BY <2>3, <4>1 DEF parse_list, Try, Ok
        <4>3. Survives(P[d], Q[d], t)
          <5>1. pos + 1 \in Nat \ {0} /\ pos + 1 > pos
            BY <1>1
          <5>2. d \in Calls /\ d.pos > pos
            BY <5>1, CallTypes
          <5> QED
            BY <2>2, <4>2, <5>2
        <4> QED
          BY <2>3, <4>1, <4>2, <4>3 DEF parse_list, Try, Survives
      <3>4. CASE s[pos] = DictionaryMark
        <4>1. P[c] = parse_dictionary(P, pos) /\ Q[c] = parse_dictionary(Q, pos)
          BY <1>4, <1>6, <2>1, <3>1, <3>4
             DEF parse_value, IntegerMark, ListMark, DictionaryMark, Digits
        <4> DEFINE d == ItemsFrom(pos + 1, <<>>)
        <4>2. ~ Failed(P[d]) /\ P[c].pos = P[d].pos
          BY <2>3, <4>1 DEF parse_dictionary, Try, Ok
        <4>3. Survives(P[d], Q[d], t)
          <5>1. pos + 1 \in Nat \ {0} /\ pos + 1 > pos /\ <<>> \in Seq(Seq(Byte))
            BY <1>1
          <5>2. d \in Calls /\ d.pos > pos
            <6> HIDE DEF pos
            <6> QED
              BY <5>1, CallTypes
          <5> QED
            BY <2>2, <4>2, <5>2
        <4> QED
          BY <2>3, <4>1, <4>2, <4>3 DEF parse_dictionary, Try, Survives
      <3>5. CASE s[pos] \in Digits
        <4>1. P[c] = parse_string(s, pos) /\ Q[c] = parse_string(t, pos)
          BY <1>4, <1>6, <2>1, <3>1, <3>5
             DEF parse_value, IntegerMark, ListMark, DictionaryMark, Digits
        <4> QED
          BY <1>1, <2>3, <4>1, CutString
      <3>6. CASE /\ s[pos] # IntegerMark /\ s[pos] # ListMark /\ s[pos] # DictionaryMark
                 /\ s[pos] \notin Digits
        <4>1. P[c] = Err("UnknownType")
          BY <1>4, <3>1, <3>6 DEF parse_value
        <4> QED
          BY <2>3, <4>1 DEF Err, Failed
      <3> QED
        BY <3>2, <3>3, <3>4, <3>5, <3>6
    <2>5. CASE c.parse = "list"
      <3>1. P[c] = Elements(s, P, pos) /\ Q[c] = Elements(t, Q, pos)
        BY <1>2, <2>5 DEF Step
      <3>2. CASE s[pos] = EndMark
        <4>1. P[c] = Ok(<<>>, pos + 1) /\ Q[c] = Ok(<<>>, pos + 1)
          BY <1>4, <1>6, <2>1, <3>1, <3>2 DEF Elements
        <4>2. pos + 1 <= Len(t) + 1 /\ Ok(<<>>, pos + 1).pos = pos + 1
          BY <1>1, <1>6 DEF Available, Ok
        <4> QED
          BY <4>1, <4>2 DEF Survives
      <3>3. CASE s[pos] # EndMark
        <4> DEFINE v == P[ValueAt(pos)]
                   d == ElementsFrom(v.pos)
                   rest == P[d]
        <4>1. /\ ~ Failed(v) /\ ~ Failed(rest)
              /\ P[c] = Ok(<<v.value>> \o rest.value, rest.pos)
          BY <1>4, <2>3, <3>1, <3>3 DEF Elements, Try
        <4>2. Q[c] = Try(Q[ValueAt(pos)], LAMBDA w :
                       Try(Q[ElementsFrom(w.pos)], LAMBDA other :
                           Ok(<<w.value>> \o other.value, other.pos)))
          BY <1>6, <2>1, <3>1, <3>3 DEF Elements
        <4>3. Survives(v, Q[ValueAt(pos)], t) /\ v.pos \in Nat /\ v.pos > pos
          <5>1. ValueAt(pos) \in Calls /\ ValueAt(pos).pos = pos /\ ValueAt(pos).parse = "value"
            BY <1>1, CallTypes
          <5>2. c.parse # "value"
            BY <2>5
          <5> HIDE DEF pos
          <5> QED
            BY <2>2, <4>1, <5>1, <5>2
        <4> HIDE DEF v
        <4>4. Survives(rest, Q[d], t) /\ rest.pos \in Nat /\ rest.pos > v.pos
          <5>1. v.pos \in Nat \ {0}
            BY <1>1, <4>3
          <5>2. d \in Calls /\ d.pos = v.pos
            BY <5>1, CallTypes
          <5> HIDE DEF d, pos
          <5> QED
            BY <2>2, <4>1, <4>3, <5>2
        <4>5. P[c].pos = rest.pos
          BY <4>1 DEF Ok
        <4> HIDE DEF d, rest
        <4>6. CASE v.pos <= Len(t) + 1
          <5>1. Q[ValueAt(pos)] = v
            BY <4>3, <4>6 DEF Survives
          <5>2. Q[c] = IF Failed(Q[d]) THEN Q[d] ELSE Ok(<<v.value>> \o Q[d].value, Q[d].pos)
            BY <4>1, <4>2, <5>1 DEF Try, d
          <5> QED
            BY <2>3, <4>1, <4>4, <4>5, <5>2 DEF Survives
        <4>7. CASE ~ (v.pos <= Len(t) + 1)
          <5>1. Q[ValueAt(pos)] = Err("InsufficientContents")
            BY <4>3, <4>7 DEF Survives
          <5>2. Q[c] = Err("InsufficientContents")
            BY <2>3, <4>2, <5>1 DEF Try
          <5>3. ~ (rest.pos <= Len(t) + 1)
            BY <1>1, <4>3, <4>4, <4>7
          <5> QED
            BY <4>5, <5>2, <5>3 DEF Survives
        <4> QED
          BY <4>6, <4>7
      <3> QED
        BY <3>2, <3>3
    <2>6. CASE c.parse = "dictionary" /\ c.last \in Seq(Seq(Byte))
      <3> DEFINE last == c.last
      <3>1. P[c] = Items(s, P, pos, last) /\ Q[c] = Items(t, Q, pos, last)
        BY <1>2, <2>6 DEF Step
      <3> HIDE DEF last
      <3>2. CASE s[pos] = EndMark
        <4>1. P[c] = Ok(<<>>, pos + 1) /\ Q[c] = Ok(<<>>, pos + 1)
          BY <1>4, <1>6, <2>1, <3>1, <3>2 DEF Items
        <4>2. pos + 1 <= Len(t) + 1 /\ Ok(<<>>, pos + 1).pos = pos + 1
          BY <1>1, <1>6 DEF Available, Ok
        <4> QED
          BY <4>1, <4>2 DEF Survives
      <3>3. CASE s[pos] # EndMark
        <4> DEFINE r == parse_string(s, pos)
                   key == r.value.bytes
        <4>1. \A u, R : Available(u, pos) /\ u[pos] # EndMark =>
                Items(u, R, pos, last) =
                Try(parse_string(u, pos), LAMBDA x :
                    LET k == x.value.bytes
                    IN  IF last = <<k>> THEN Err("DuplicateDictionaryKey")
                        ELSE IF last # <<>> /\ ~ InOrder(last[1], k)
                             THEN Err("DictionaryKeysOutOfOrder")
                        ELSE Try(R[ValueAt(x.pos)], LAMBDA w :
                                 Try(R[ItemsFrom(w.pos, <<k>>)], LAMBDA other :
                                     Ok(Insert(other.value, k, w.value), other.pos))))
          BY DEF Items
        <4>2. /\ ~ Failed(r) /\ last # <<key>> /\ ~ (last # <<>> /\ ~ InOrder(last[1], key))
              /\ P[c] = Try(P[ValueAt(r.pos)], LAMBDA w :
                            Try(P[ItemsFrom(w.pos, <<key>>)], LAMBDA other :
                                Ok(Insert(other.value, key, w.value), other.pos)))
          <5>1. P[c] = IF Failed(r) THEN r
                       ELSE IF last = <<key>> THEN Err("DuplicateDictionaryKey")
                       ELSE IF last # <<>> /\ ~ InOrder(last[1], key)
                            THEN Err("DictionaryKeysOutOfOrder")
                       ELSE Try(P[ValueAt(r.pos)], LAMBDA w :
                                Try(P[ItemsFrom(w.pos, <<key>>)], LAMBDA other :
                                    Ok(Insert(other.value, key, w.value), other.pos)))
            BY <1>4, <3>1, <3>3, <4>1 DEF Try
          <5>2. Failed(Err("DuplicateDictionaryKey")) /\ Failed(Err("DictionaryKeysOutOfOrder"))
            BY DEF Err, Failed
          <5> HIDE DEF r
          <5> QED
            BY <2>3, <5>1, <5>2
        <4>3. Survives(r, parse_string(t, pos), t)
          BY <1>1, <4>2, CutString
        <4>4. r.pos \in Nat /\ r.pos > pos /\ key \in Seq(Byte)
          <5>1. PICK next \in Nat : StringAt(s, pos, next) /\ r = StringOf(s, pos, next)
            BY <1>1, <4>2, StringRead
          <5>2. r.pos = next + NumberAt(s, pos, next) + 1 /\ key = BytesOf(s, pos, next)
            BY <5>1 DEF StringOf, Ok, ByteString
          <5> QED
            BY <1>1, <5>1, <5>2, StringProperties
        <4> HIDE DEF r, key
        <4> DEFINE v == P[ValueAt(r.pos)]
                   d == ItemsFrom(v.pos, <<key>>)
                   rest == P[d]
        <4>5. /\ ~ Failed(v) /\ ~ Failed(rest)
              /\ P[c] = Ok(Insert(rest.value, key, v.value), rest.pos)
          BY <2>3, <4>2 DEF Try
        <4>6. Survives(v, Q[ValueAt(r.pos)], t) /\ v.pos \in Nat /\ v.pos > r.pos
          <5>1. r.pos \in Nat \ {0}
            BY <1>1, <4>4
          <5>2. ValueAt(r.pos) \in Calls /\ ValueAt(r.pos).pos = r.pos
            BY <5>1, CallTypes
          <5> HIDE DEF pos
          <5> QED
            BY <2>2, <4>4, <4>5, <5>2
        <4> HIDE DEF v
        <4>7. Survives(rest, Q[d], t) /\ rest.pos \in Nat /\ rest.pos > v.pos
          <5>1. v.pos \in Nat \ {0} /\ v.pos > pos /\ <<key>> \in Seq(Seq(Byte))
            BY <1>1, <4>4, <4>6
          <5>2. d \in Calls /\ d.pos = v.pos
            BY <5>1, CallTypes
          <5> HIDE DEF d, pos
          <5> QED
            BY <2>2, <4>5, <5>1, <5>2
        <4>8. P[c].pos = rest.pos
          BY <4>5 DEF Ok
        <4> HIDE DEF d, rest
        <4>9. CASE ~ (r.pos <= Len(t) + 1)
          <5>1. parse_string(t, pos) = Err("InsufficientContents")
            BY <4>3, <4>9 DEF Survives
          <5>2. Q[c] = Err("InsufficientContents")
            BY <1>6, <2>1, <2>3, <3>1, <3>3, <4>1, <5>1 DEF Try
          <5>3. ~ (rest.pos <= Len(t) + 1)
            BY <1>1, <4>4, <4>6, <4>7, <4>9
          <5> QED
            BY <4>8, <5>2, <5>3 DEF Survives
        <4>10. CASE r.pos <= Len(t) + 1
          <5>1. parse_string(t, pos) = r
            BY <4>3, <4>10 DEF Survives
          <5>2. Q[c] = Try(Q[ValueAt(r.pos)], LAMBDA w :
                           Try(Q[ItemsFrom(w.pos, <<key>>)], LAMBDA other :
                               Ok(Insert(other.value, key, w.value), other.pos)))
            <6>1. ~ Failed(parse_string(t, pos)) /\ key = parse_string(t, pos).value.bytes
              BY <4>2, <5>1 DEF key
            <6> QED
              BY <1>6, <2>1, <3>1, <3>3, <4>1, <4>2, <5>1, <6>1 DEF Try
          <5>3. CASE v.pos <= Len(t) + 1
            <6>1. Q[ValueAt(r.pos)] = v
              BY <4>6, <5>3 DEF Survives
            <6>2. Q[c] = IF Failed(Q[d]) THEN Q[d]
                         ELSE Ok(Insert(Q[d].value, key, v.value), Q[d].pos)
              BY <4>5, <5>2, <6>1 DEF Try, d
            <6> QED
              BY <2>3, <4>5, <4>7, <4>8, <6>2 DEF Survives
          <5>4. CASE ~ (v.pos <= Len(t) + 1)
            <6>1. Q[ValueAt(r.pos)] = Err("InsufficientContents")
              BY <4>6, <5>4 DEF Survives
            <6>2. Q[c] = Err("InsufficientContents")
              BY <2>3, <5>2, <6>1 DEF Try
            <6>3. ~ (rest.pos <= Len(t) + 1)
              BY <1>1, <4>6, <4>7, <5>4
            <6> QED
              BY <4>8, <6>2, <6>3 DEF Survives
          <5> QED
            BY <5>3, <5>4
        <4> QED
          BY <4>9, <4>10
      <3> QED
        BY <3>2, <3>3
    <2> QED
      BY <2>4, <2>5, <2>6, CallForms
  <1> QED
    BY <1>5, <1>6

\* Whatever is read in a document is read, or its end is missed, in any cut of it.
LEMMA CutAnswers ==
    ASSUME NEW s \in Seq(Byte), NEW t \in Seq(Byte), IsCut(s, t)
    PROVE  \A c \in Calls : ~ Failed(Parser(s)[c]) => Survives(Parser(s)[c], Parser(t)[c], t)
  <1> DEFINE P == Parser(s)
             Q == Parser(t)
             N == 2 * Len(s) + 2
             T == {n \in 0 .. N : \A c \in Calls :
                       Measure(s, c) < n /\ ~ Failed(P[c]) => Survives(P[c], Q[c], t)}
  <1>0. N \in Nat /\ \A c \in Calls : Measure(s, c) \in Nat /\ Measure(s, c) < N
    BY MeasureOf
  <1>1. Answers(s, P) /\ Answers(t, Q)
    BY ParserAnswers
  <1> HIDE DEF P, Q
  <1>2. 0 \in T
    BY <1>0
  <1>3. ASSUME NEW n \in 0 .. N, n < N, n \in T PROVE n + 1 \in T
    <2>1. ASSUME NEW c \in Calls, Measure(s, c) < n + 1, ~ Failed(P[c])
          PROVE  Survives(P[c], Q[c], t)
      <3>1. \A d \in Calls : Measure(s, d) < Measure(s, c) /\ ~ Failed(P[d])
                               => Survives(P[d], Q[d], t)
        BY <1>0, <1>3, <2>1
      <3> QED
        BY <1>1, <2>1, <3>1, CutCall
    <2> QED
      BY <1>0, <1>3, <2>1
  <1> HIDE DEF T
  <1>4. N \in T
    BY <1>0, <1>2, <1>3, BoundedInduction
  <1> QED
    BY <1>0, <1>4 DEF T, P, Q

\* No proper part of an accepted document is accepted or refused for another reason.
LEMMA EndIsMissed ==
    ASSUME NEW s \in Seq(Byte), ~ Failed(deserialize(s)), NEW n \in 0 .. Len(s) - 1
    PROVE  deserialize(SubSeq(s, 1, n)).error = "InsufficientContents"
  <1> DEFINE t == SubSeq(s, 1, n)
             r == Parser(s)[ValueAt(1)]
             q == Parser(t)[ValueAt(1)]
  <1>1. Len(s) \in Nat /\ n \in Nat /\ n < Len(s)
    OBVIOUS
  <1>2. t \in Seq(Byte) /\ Len(t) = n /\ \A k \in 1 .. n : t[k] = s[k]
    BY <1>1
  <1> HIDE DEF t
  <1>3. ~ Failed(r) /\ r.pos = Len(s) + 1
    BY DEF deserialize, Try, Err, Failed
  <1>4. Survives(r, q, t)
    <2>1. ValueAt(1) \in Calls
      BY CallTypes
    <2>2. IsCut(s, t)
      BY <1>1, <1>2 DEF IsCut
    <2> QED
      BY <1>2, <1>3, <2>1, <2>2, CutAnswers
  <1> HIDE DEF r
  <1>5. q = Err("InsufficientContents")
    BY <1>1, <1>2, <1>3, <1>4 DEF Survives
  <1>6. deserialize(t).error = "InsufficientContents"
    BY <1>5 DEF deserialize, Try, Err, Failed
  <1> QED
    BY <1>6 DEF t

-----------------------------------------------------------------------------
(* Decimal numbers.                                                         *)

AppendsLast(S) == \A a, b \in Seq(S), x \in S : Append(a \o b, x) = a \o Append(b, x)

\* Append is concatenation at the end.
LEMMA AppendAssociates ==
    ASSUME NEW S
    PROVE  AppendsLast(S)
  BY DEF AppendsLast

\* A sequence of one element.
LEMMA SingleElement ==
    ASSUME NEW S, NEW e \in Seq(S), Len(e) = 1
    PROVE  e = <<e[1]>> /\ e[1] \in S
  BY SeqEqual

\* g writes the numbers up to n.
Spells(g, n) ==
    \A m \in 0 .. n :
        g[m] = IF m < 10 THEN <<Zero + m>> ELSE Append(g[m \div 10], Zero + (m % 10))

\* The last digit of a number, and the number without it.
LEMMA DigitBounds ==
    ASSUME NEW m \in Nat
    PROVE  /\ m < 10 => Zero + m \in Digits
           /\ Zero + (m % 10) \in Digits
           /\ m \div 10 \in Nat /\ m = 10 * (m \div 10) + (m % 10) /\ m % 10 \in 0 .. 9
           /\ m >= 10 => m \div 10 < m /\ m \div 10 > 0
  BY DEF Zero, Digits

\* The recursion of DigitsOf is on smaller numbers, so its function exists ...
LEMMA SpellingExists ==
    ASSUME NEW n \in Nat
    PROVE  \E g \in [0 .. n -> Seq(Digits)] : Spells(g, n)
  <1> DEFINE S == {m \in Nat : \E g \in [0 .. m -> Seq(Digits)] : Spells(g, m)}
             First(m) == <<Zero + m>>
  <1>1. 0 \in S
    <2> DEFINE g == [m \in 0 .. 0 |-> <<Zero>>]
    <2>1. Zero \in Digits /\ Zero + 0 = Zero
      BY DEF Zero, Digits
    <2>2. <<Zero>> \in Seq(Digits)
      BY <2>1
    <2>3. g \in [0 .. 0 -> Seq(Digits)] /\ g[0] = <<Zero>>
      BY <2>2
    <2> HIDE DEF g
    <2>4. \A m \in 0 .. 0 : m = 0 /\ m < 10
      OBVIOUS
    <2>5. Spells(g, 0)
      BY <2>1, <2>3, <2>4 DEF Spells
    <2> QED
      BY <2>3, <2>5
  <1>2. ASSUME NEW m \in Nat, m \in S PROVE m + 1 \in S
    <2>1. PICK g \in [0 .. m -> Seq(Digits)] : Spells(g, m)
      BY <1>2
    <2> DEFINE k == m + 1
               x == IF k < 10 THEN <<Zero + k>> ELSE Append(g[k \div 10], Zero + (k % 10))
               h == [j \in 0 .. k |-> IF j = k THEN x ELSE g[j]]
    <2>0. k \in Nat /\ k > m /\ ~ (k \in 0 .. m) /\ \A j \in 0 .. k : j # k => j \in 0 .. m
      OBVIOUS
    <2>2. x \in Seq(Digits)
      <3>1. CASE k < 10
        <4>1. Zero + k \in Digits
          BY <3>1, DigitBounds
        <4> QED
          BY <3>1, <4>1
      <3>2. CASE ~ (k < 10)
        <4>1. k >= 10
          BY <3>2
        <4>2. k \div 10 \in 0 .. m /\ Zero + (k % 10) \in Digits
          <5> HIDE DEF k
          <5>1. k \div 10 \in Nat /\ k \div 10 < k /\ Zero + (k % 10) \in Digits
            BY <2>0, <4>1, DigitBounds
          <5>2. k \div 10 # k /\ k \div 10 \in 0 .. k
            BY <2>0, <5>1
          <5> QED
            BY <2>0, <5>1, <5>2
        <4> HIDE DEF k
        <4>3. g[k \div 10] \in Seq(Digits)
          BY <4>2
        <4>4. Append(g[k \div 10], Zero + (k % 10)) \in Seq(Digits)
          BY <4>2, <4>3
        <4> QED
          BY <3>2, <4>4
      <3> QED
        BY <3>1, <3>2
    <2> HIDE DEF k
    <2>3. h \in [0 .. k -> Seq(Digits)]
      <3> HIDE DEF x
      <3> QED
        BY <2>0, <2>2
    <2>4. h[k] = x /\ \A j \in 0 .. m : h[j] = g[j]
      BY <2>0 DEF k
    <2>5. ASSUME NEW j \in 0 .. k
          PROVE  h[j] = IF j < 10 THEN <<Zero + j>> ELSE Append(h[j \div 10], Zero + (j % 10))
      <3>1. ASSUME j >= 10 PROVE h[j \div 10] = g[j \div 10]
        <4>0. j \in Nat
          BY <2>0
        <4>1. j \div 10 \in Nat /\ j \div 10 < j
          BY <3>1, <4>0, DigitBounds
        <4>2. j \div 10 \in 0 .. m
          <5>1. j \div 10 \in 0 .. k /\ j \div 10 # k
            BY <2>0, <4>1
          <5> QED
            BY <2>0, <5>1
        <4> QED
          BY <2>4, <4>2
      <3> HIDE DEF h
      <3>2. CASE j = k
        BY <2>0, <2>4, <3>1, <3>2
      <3>3. CASE j # k
        <4>1. j \in 0 .. m
          BY <2>0, <3>3
        <4>2. h[j] = g[j]
          BY <2>4, <4>1
        <4>3. g[j] = IF j < 10 THEN <<Zero + j>> ELSE Append(g[j \div 10], Zero + (j % 10))
          BY <2>1, <4>1 DEF Spells
        <4>4. j < 10 \/ j >= 10
          BY <4>1
        <4> QED
          BY <3>1, <4>2, <4>3, <4>4
      <3> QED
        BY <3>2, <3>3
    <2> HIDE DEF h
    <2>6. Spells(h, k)
      BY <2>5 DEF Spells
    <2> QED
      BY <2>0, <2>3, <2>6 DEF k
  <1> HIDE DEF S
  <1>3. Nat \subseteq S
    BY <1>1, <1>2, SetInduction
  <1> QED
    BY <1>3 DEF S

\* ... up to any number there is only one ...
LEMMA SpellingIsUnique ==
    ASSUME NEW a \in Nat, NEW b \in Nat, a <= b, NEW g, NEW h, Spells(g, a), Spells(h, b)
    PROVE  g[a] = h[a]
  <1> DEFINE T == {k \in 0 .. a : \A m \in 0 .. k : g[m] = h[m]}
  <1>1. ASSUME NEW m \in 0 .. a, m >= 10 => g[m \div 10] = h[m \div 10] PROVE g[m] = h[m]
    <2>1. m \in 0 .. b /\ (m < 10 \/ m >= 10)
      OBVIOUS
    <2> QED
      BY <1>1, <2>1 DEF Spells
  <1>2. 0 \in T
    BY <1>1
  <1>3. ASSUME NEW k \in 0 .. a, k < a, k \in T PROVE k + 1 \in T
    <2>1. k + 1 \in 0 .. a /\ k + 1 \in Nat /\ \A m \in 0 .. k + 1 : m = k + 1 \/ m \in 0 .. k
      BY <1>3
    <2>2. ASSUME k + 1 >= 10 PROVE (k + 1) \div 10 \in 0 .. k
      <3>1. (k + 1) \div 10 \in Nat /\ (k + 1) \div 10 < k + 1
        BY <2>1, <2>2, DigitBounds
      <3> QED
        BY <2>1, <3>1
    <2>3. g[k + 1] = h[k + 1]
      BY <1>1, <1>3, <2>1, <2>2
    <2> QED
      BY <1>3, <2>1, <2>3
  <1> HIDE DEF T
  <1>4. a \in T
    BY <1>2, <1>3, BoundedInduction
  <1> QED
    BY <1>4 DEF T

\* ... and DigitsOf is its last value.
LEMMA DigitsSpell ==
    ASSUME NEW n \in Nat, NEW g, Spells(g, n)
    PROVE  DigitsOf(n) = g[n]
  <1> DEFINE Unfolded(f) == f = [m \in 0 .. n |-> IF m < 10 THEN <<Zero + m>>
                                                  ELSE Append(f[m \div 10], Zero + (m % 10))]
             chosen == CHOOSE f : Unfolded(f)
             h == [m \in 0 .. n |-> g[m]]
  <1>1. Unfolded(h)
    <2>1. ASSUME NEW m \in 0 .. n
          PROVE  h[m] = IF m < 10 THEN <<Zero + m>> ELSE Append(h[m \div 10], Zero + (m % 10))
      <3>1. ASSUME m >= 10 PROVE h[m \div 10] = g[m \div 10]
        <4>1. m \div 10 \in 0 .. n
          BY <3>1, DigitBounds
        <4> QED
          BY <4>1
      <3>2. h[m] = g[m]
        OBVIOUS
      <3> HIDE DEF h
      <3>3. m < 10 \/ m >= 10
        OBVIOUS
      <3> QED
        BY <3>1, <3>2, <3>3 DEF Spells
    <2>2. h = [m \in 0 .. n |-> h[m]]
      OBVIOUS
    <2> HIDE DEF h
    <2>3. [m \in 0 .. n |-> h[m]] = [m \in 0 .. n |-> IF m < 10 THEN <<Zero + m>>
                                                  ELSE Append(h[m \div 10], Zero + (m % 10))]
      BY <2>1
    <2> QED
      BY <2>2, <2>3
  <1> HIDE DEF h
  <1>2. Unfolded(chosen)
    <2> HIDE DEF Unfolded
    <2> QED
      BY <1>1, Zenon
  <1>3. DigitsOf(n) = chosen[n]
    BY DEF DigitsOf
  <1> HIDE DEF chosen
  <1>4. Spells(chosen, n)
    BY <1>2 DEF Spells
  <1>5. chosen[n] = g[n]
    BY <1>4, SpellingIsUnique
  <1> QED
    BY <1>3, <1>5

\* A number is written as the number without its last digit, and then that digit.
LEMMA DigitsOfUnfolds ==
    ASSUME NEW n \in Nat
    PROVE  /\ DigitsOf(n) \in Seq(Digits)
           /\ n < 10 => DigitsOf(n) = <<Zero + n>>
           /\ n >= 10 => DigitsOf(n) = Append(DigitsOf(n \div 10), Zero + (n % 10))
  <1>1. PICK g \in [0 .. n -> Seq(Digits)] : Spells(g, n)
    BY SpellingExists
  <1>2. DigitsOf(n) = g[n] /\ n \in 0 .. n
    BY <1>1, DigitsSpell
  <1>3. ASSUME n >= 10 PROVE DigitsOf(n \div 10) = g[n \div 10]
    <2> DEFINE m == n \div 10
    <2>1. m \in Nat /\ m < n
      BY <1>3, DigitBounds
    <2> HIDE DEF m
    <2>2. Spells(g, m)
      <3>1. \A k \in 0 .. m : k \in 0 .. n
        BY <2>1
      <3> QED
        BY <1>1, <3>1, Zenon DEF Spells
    <2>3. DigitsOf(m) = g[m]
      BY <2>1, <2>2, DigitsSpell
    <2> QED
      BY <2>3 DEF m
  <1>4. g[n] = IF n < 10 THEN <<Zero + n>> ELSE Append(g[n \div 10], Zero + (n % 10))
    BY <1>1, <1>2 DEF Spells
  <1>5. g[n] \in Seq(Digits)
    BY <1>1, <1>2
  <1>6. ~ (n < 10 /\ n >= 10)
    OBVIOUS
  <1> QED
    BY <1>2, <1>3, <1>4, <1>5, <1>6

\* One digit more makes ten times the number and that digit.
LEMMA NumberOfAppend ==
    ASSUME NEW digits \in Seq(Digits), NEW d \in Digits
    PROVE  /\ Number(<<>>) = 0 /\ Number(<<d>>) = d - Zero
           /\ Number(Append(digits, d)) = 10 * Number(digits) + (d - Zero)
           /\ Number(digits) \in Nat
  <1>1. ASSUME NEW e \in Seq(Digits)
        PROVE  /\ Number(Append(e, d)) = 10 * Number(e) + (d - Zero)
               /\ Number(e) \in Nat
    <2> DEFINE n == Len(e)
               t == Append(e, d)
    <2>1. /\ n \in Nat /\ t \in Seq(Digits) /\ Len(t) = n + 1 /\ t[n + 1] = d
          /\ \A k \in 1 .. n : t[k] = e[k]
      BY AppendProperties
    <2> HIDE DEF t
    <2>2. PICK f \in [0 .. n -> Nat] : Counts(f, e) /\ Number(e) = f[n]
      BY NumberUnfolds
    <2>3. PICK g \in [0 .. Len(t) -> Nat] : Counts(g, t) /\ Number(t) = g[Len(t)]
      BY <2>1, NumberUnfolds
    <2> DEFINE T == {k \in 0 .. n : g[k] = f[k]}
    <2>4. 0 \in T
      BY <2>1, <2>2, <2>3 DEF Counts
    <2>5. \A k \in 0 .. n : k < n /\ k \in T => k + 1 \in T
      <3> SUFFICES ASSUME NEW k \in 0 .. n, k < n, k \in T PROVE k + 1 \in T
        BY Zenon
      <3>1. k + 1 \in 1 .. n /\ k + 1 \in 1 .. Len(t) /\ k + 1 \in 0 .. n /\ (k + 1) - 1 = k
        BY <2>1
      <3>2. f[k + 1] = 10 * f[k] + (e[k + 1] - Zero) /\ g[k + 1] = 10 * g[k] + (t[k + 1] - Zero)
        BY <2>2, <2>3, <3>1 DEF Counts
      <3> QED
        BY <2>1, <3>1, <3>2
    <2> HIDE DEF T
    <2>6. n \in T
      <3> HIDE DEF n
      <3> QED
        BY <2>1, <2>4, <2>5, BoundedInduction, Zenon
    <2>7. g[n + 1] = 10 * g[n] + (d - Zero)
      <3>1. n + 1 \in 1 .. Len(t) /\ (n + 1) - 1 = n
        BY <2>1
      <3> QED
        BY <2>1, <2>3, <3>1 DEF Counts
    <2>8. f[n] \in Nat
      <3> HIDE DEF n
      <3> QED
        BY <2>1, <2>2
    <2>9. Number(t) = 10 * Number(e) + (d - Zero)
      BY <2>1, <2>2, <2>3, <2>6, <2>7 DEF T
    <2> QED
      BY <2>2, <2>8, <2>9 DEF t
  <1>2. Number(<<>>) = 0
    <2>1. <<>> \in Seq(Digits) /\ Len(<<>>) = 0
      OBVIOUS
    <2>2. PICK f : Counts(f, <<>>) /\ Number(<<>>) = f[Len(<<>>)]
      BY <2>1, NumberUnfolds
    <2> QED
      BY <2>1, <2>2 DEF Counts
  <1>3. Number(<<d>>) = d - Zero
    <2>1. <<>> \in Seq(Digits) /\ Append(<<>>, d) = <<d>>
      OBVIOUS
    <2>2. Number(Append(<<>>, d)) = 10 * Number(<<>>) + (d - Zero)
      BY <1>1, <2>1
    <2>3. d - Zero \in Int
      BY DEF Digits, Zero
    <2> QED
      BY <1>2, <2>1, <2>2, <2>3
  <1> QED
    BY <1>1, <1>2, <1>3

\* The digits of a number are read as it, and only those of 0 begin with a zero.
LEMMA DigitsAreRead ==
    ASSUME NEW n \in Nat
    PROVE  /\ DigitsOf(n) \in Seq(Digits) /\ Len(DigitsOf(n)) \in Nat \ {0}
           /\ Number(DigitsOf(n)) = n
           /\ DigitsOf(n)[1] # Zero \/ Len(DigitsOf(n)) = 1
  <1> DEFINE Good(k) == LET d == DigitsOf(k) IN
                            /\ Len(d) \in Nat \ {0} /\ Number(d) = k
                            /\ d[1] # Zero \/ (k = 0 /\ Len(d) = 1)
             T == {m \in 0 .. n : \A k \in 0 .. m : Good(k)}
  <1>1. ASSUME NEW m \in Nat, m < 10 PROVE Good(m)
    <2>1. DigitsOf(m) = <<Zero + m>> /\ Zero + m \in Digits
      BY <1>1, DigitsOfUnfolds, DigitBounds
    <2>2. Number(<<Zero + m>>) = (Zero + m) - Zero
      <3>1. <<>> \in Seq(Digits)
        OBVIOUS
      <3> QED
        BY <2>1, <3>1, NumberOfAppend
    <2>3. (Zero + m) - Zero = m /\ (Zero + m = Zero => m = 0)
      BY DEF Zero
    <2>4. Len(<<Zero + m>>) = 1 /\ <<Zero + m>>[1] = Zero + m
      OBVIOUS
    <2> QED
      BY <2>1, <2>2, <2>3, <2>4
  <1>2. ASSUME NEW m \in Nat, m >= 10, Good(m \div 10) PROVE Good(m)
    <2> DEFINE q == m \div 10
               r == m % 10
               d == DigitsOf(q)
               t == Append(d, Zero + r)
    <2>1. /\ q \in Nat /\ q > 0 /\ r \in 0 .. 9 /\ m = 10 * q + r /\ Zero + r \in Digits
      BY <1>2, DigitBounds
    <2>2. DigitsOf(m) = t
      BY <1>2, DigitsOfUnfolds
    <2> HIDE DEF q, r
    <2>3. d \in Seq(Digits) /\ Len(d) \in Nat \ {0} /\ Number(d) = q /\ (d[1] # Zero \/ q = 0)
      BY <1>2, <2>1, DigitsOfUnfolds DEF q
    <2> HIDE DEF d
    <2>4. Number(t) = 10 * Number(d) + ((Zero + r) - Zero)
      BY <2>1, <2>3, NumberOfAppend
    <2>5. (Zero + r) - Zero = r
      BY <2>1 DEF Zero
    <2>6. Number(t) = m
      BY <2>1, <2>3, <2>4, <2>5
    <2>7. Len(t) = Len(d) + 1 /\ t[1] = d[1]
      <3>1. 1 \in 1 .. Len(d)
        BY <2>3
      <3> QED
        BY <2>1, <2>3, <3>1, AppendProperties
    <2>8. Len(t) \in Nat \ {0} /\ t[1] # Zero
      BY <2>1, <2>3, <2>7
    <2> HIDE DEF t
    <2> QED
      BY <2>2, <2>6, <2>8
  <1> HIDE DEF Good
  <1>3. 0 \in T
    BY <1>1
  <1>4. ASSUME NEW k \in 0 .. n, k < n, k \in T PROVE k + 1 \in T
    <2>1. k + 1 \in 0 .. n /\ k + 1 \in Nat /\ \A m \in 0 .. k + 1 : m = k + 1 \/ m \in 0 .. k
      BY <1>4
    <2>2. Good(k + 1)
      <3>1. CASE k + 1 < 10
        BY <1>1, <2>1, <3>1
      <3>2. CASE k + 1 >= 10
        <4>1. (k + 1) \div 10 \in Nat /\ (k + 1) \div 10 < k + 1
          BY <2>1, <3>2, DigitBounds
        <4>2. (k + 1) \div 10 \in 0 .. k
          BY <2>1, <4>1
        <4> QED
          BY <1>2, <1>4, <2>1, <3>2, <4>2
      <3> QED
        BY <2>1, <3>1, <3>2
    <2> QED
      BY <1>4, <2>1, <2>2
  <1> HIDE DEF T
  <1>5. n \in T
    BY <1>3, <1>4, BoundedInduction
  <1>6. Good(n)
    BY <1>5 DEF T
  <1> QED
    BY <1>6, DigitsOfUnfolds DEF Good

\* Digits are those of the number that they are, after zeros.
LEMMA ZerosLead ==
    ASSUME NEW digits \in Seq(Digits), Len(digits) > 0
    PROVE  \E zs \in Seq({Zero}) : digits = zs \o DigitsOf(Number(digits))
  <1> DEFINE Good(e) == \E zs \in Seq({Zero}) : e = zs \o DigitsOf(Number(e))
             S == {n \in Nat : \A e \in Seq(Digits) : Len(e) = n + 1 => Good(e)}
  <1>0. Zero \in Digits /\ \A x \in Digits : x - Zero \in 0 .. 9 /\ Zero + (x - Zero) = x
    BY DEF Zero, Digits
  <1>1. ASSUME NEW x \in Digits PROVE Number(<<x>>) = x - Zero /\ DigitsOf(x - Zero) = <<x>>
    <2>1. x - Zero \in Nat /\ x - Zero < 10 /\ Zero + (x - Zero) = x
      BY <1>0
    <2>2. <<>> \in Seq(Digits)
      OBVIOUS
    <2> QED
      BY <2>1, <2>2, DigitsOfUnfolds, NumberOfAppend
  <1>2. 0 \in S
    <2>1. ASSUME NEW e \in Seq(Digits), Len(e) = 1 PROVE Good(e)
      <3>1. e = <<e[1]>> /\ e[1] \in Digits
        BY <2>1, SingleElement
      <3>2. DigitsOf(Number(e)) = e
        BY <1>1, <3>1
      <3>3. <<>> \in Seq({Zero}) /\ e = <<>> \o e
        OBVIOUS
      <3> QED
        BY <3>2, <3>3
    <2> QED
      BY <2>1
  <1>3. ASSUME NEW n \in Nat, n \in S PROVE n + 1 \in S
    <2>1. ASSUME NEW e \in Seq(Digits), Len(e) = (n + 1) + 1 PROVE Good(e)
      <3> DEFINE f == SubSeq(e, 1, n + 1)
                 x == e[(n + 1) + 1]
                 N == Number(f)
      <3>1. f \in Seq(Digits) /\ Len(f) = n + 1 /\ x \in Digits /\ e = Append(f, x)
        BY <2>1
      <3> HIDE DEF f, x
      <3>2. PICK zs \in Seq({Zero}) : f = zs \o DigitsOf(N)
        BY <1>3, <3>1
      <3>3. N \in Nat /\ Number(e) = 10 * N + (x - Zero) /\ x - Zero \in 0 .. 9
        BY <1>0, <3>1, NumberOfAppend
      <3>4. zs \in Seq(Digits)
        BY <1>0
      <3> HIDE DEF N
      <3>5. CASE N = 0
        <4>1. DigitsOf(N) = <<Zero>>
          BY <3>5, DigitsOfUnfolds DEF Zero
        <4>2. f \in Seq({Zero})
          BY <3>2, <4>1
        <4>3. DigitsOf(Number(e)) = <<x>>
          <5>1. Number(e) = x - Zero
            BY <3>3, <3>5
          <5> QED
            BY <1>1, <3>1, <5>1
        <4>4. e = f \o <<x>>
          BY <3>1
        <4> QED
          BY <4>2, <4>3, <4>4
      <3>6. CASE N # 0
        <4>1. Number(e) >= 10 /\ Number(e) \div 10 = N /\ Number(e) % 10 = x - Zero /\ Number(e) \in Nat
          <5> DEFINE y == x - Zero
                     m == Number(e)
          <5>1. y \in 0 .. 9 /\ m = 10 * N + y /\ N \in Nat \ {0}
            BY <3>3, <3>6
          <5> HIDE DEF y, m
          <5>2. m >= 10 /\ m \div 10 = N /\ m % 10 = y /\ m \in Nat
            BY <5>1
          <5> QED
            BY <5>2 DEF y, m
        <4>2. DigitsOf(Number(e)) = Append(DigitsOf(N), x)
          BY <1>0, <3>1, <4>1, DigitsOfUnfolds
        <4> DEFINE d == DigitsOf(N)
        <4>3. d \in Seq(Digits)
          BY <3>3, DigitsOfUnfolds
        <4> HIDE DEF d
        <4>4. Append(zs \o d, x) = zs \o Append(d, x)
          <5>1. AppendsLast(Digits)
            BY AppendAssociates, Zenon
          <5> QED
            BY <3>1, <3>4, <4>3, <5>1, Zenon DEF AppendsLast
        <4> QED
          BY <3>1, <3>2, <4>2, <4>4 DEF d
      <3> QED
        BY <3>5, <3>6
    <2> HIDE DEF Good
    <2> QED
      BY <2>1
  <1> HIDE DEF S
  <1>4. Nat \subseteq S
    BY <1>2, <1>3, SetInduction
  <1>5. Len(digits) - 1 \in S /\ (Len(digits) - 1) + 1 = Len(digits)
    BY <1>4
  <1> QED
    BY <1>5 DEF S

\* Without leading zeros they are exactly those digits.
LEMMA NoZerosLead ==
    ASSUME NEW digits \in Seq(Digits), Len(digits) > 0, digits[1] # Zero \/ Len(digits) = 1
    PROVE  digits = DigitsOf(Number(digits))
  <1> DEFINE d == DigitsOf(Number(digits))
  <1>1. d \in Seq(Digits) /\ Len(d) \in Nat \ {0}
    <2>1. Zero \in Digits
      BY DEF Zero, Digits
    <2>2. Number(digits) \in Nat
      BY <2>1, NumberOfAppend
    <2> QED
      BY <2>2, DigitsAreRead
  <1>2. PICK zs \in Seq({Zero}) : digits = zs \o d
    BY ZerosLead
  <1> HIDE DEF d
  <1>3. zs \in Seq(Digits)
    BY DEF Zero, Digits
  <1>4. CASE Len(zs) = 0
    BY <1>1, <1>2, <1>3, <1>4 DEF d
  <1>5. CASE Len(zs) # 0
    <2>1. Len(zs) \in Nat /\ 1 \in 1 .. Len(zs) /\ zs[1] = Zero
      BY <1>5
    <2>2. digits[1] = Zero /\ Len(digits) = Len(zs) + Len(d)
      BY <1>1, <1>2, <1>3, <2>1, ConcatProperties
    <2> QED
      BY <1>1, <2>1, <2>2
  <1> QED
    BY <1>4, <1>5

-----------------------------------------------------------------------------
(* The order of keys.                                                       *)

\* a ends at k or has the smaller byte there, and is b up to it.
DifferAt(a, b, k) ==
    /\ k \in 1 .. Len(b) /\ k <= Len(a) + 1
    /\ \A j \in 1 .. k - 1 : a[j] = b[j]
    /\ k <= Len(a) => a[k] < b[k]

\* Bytes are ordered as numbers.
LEMMA ByteOrder ==
    \A x, y, z \in Byte : ~ (x < x) /\ (x < y /\ y < z => x < z)
  BY DEF Byte

\* A byte string is less than another if it is so at the first place where they differ.
LEMMA LessAt ==
    ASSUME NEW a \in Seq(Byte), NEW b \in Seq(Byte)
    PROVE  Less(a, b) <=> \E k \in Nat : DifferAt(a, b, k)
  <1>0. Len(a) \in Nat /\ Len(b) \in Nat /\ DOMAIN a = 1 .. Len(a) /\ DOMAIN b = 1 .. Len(b)
    OBVIOUS
  <1>1. ASSUME IsStrictPrefix(a, b) PROVE \E k \in Nat : DifferAt(a, b, k)
    <2>1. Len(a) <= Len(b) /\ SubSeq(a, 1, Len(a)) = SubSeq(b, 1, Len(a)) /\ a # b
      BY <1>1 DEF IsStrictPrefix, IsPrefix
    <2>2. \A j \in 1 .. Len(a) : a[j] = b[j]
      <3> SUFFICES ASSUME NEW j \in 1 .. Len(a) PROVE a[j] = b[j]
        BY Zenon
      <3>1. SubSeq(a, 1, Len(a))[j] = a[j] /\ SubSeq(b, 1, Len(a))[j] = b[j]
        BY <1>0, <2>1
      <3> QED
        BY <2>1, <3>1
    <2>3. Len(a) # Len(b)
      BY <2>1, <2>2, SeqEqual
    <2>4. DifferAt(a, b, Len(a) + 1)
      <3>1. /\ (Len(a) + 1) - 1 = Len(a) /\ ~ (Len(a) + 1 <= Len(a))
            /\ Len(a) + 1 \in 1 .. Len(b) /\ Len(a) + 1 <= Len(a) + 1
        <4> DEFINE m == Len(a)
                   n == Len(b)
        <4>1. m \in Nat /\ n \in Nat /\ m <= n /\ m # n
          BY <1>0, <2>1, <2>3
        <4> HIDE DEF m, n
        <4>2. (m + 1) - 1 = m /\ ~ (m + 1 <= m) /\ m + 1 \in 1 .. n /\ m + 1 <= m + 1
          BY <4>1
        <4> QED
          BY <4>2 DEF m, n
      <3> QED
        BY <2>2, <3>1, Zenon DEF DifferAt
    <2> QED
      BY <1>0, <2>4
  <1>2. ASSUME NEW k \in DOMAIN a \cap DOMAIN b, a[k] < b[k], \A j \in 1 .. k - 1 : a[j] = b[j]
        PROVE  \E i \in Nat : DifferAt(a, b, i)
    <2>1. k \in Nat /\ DifferAt(a, b, k)
      BY <1>0, <1>2 DEF DifferAt
    <2> QED
      BY <2>1
  <1>3. ASSUME NEW k \in Nat, DifferAt(a, b, k) PROVE Less(a, b)
    <2>1. CASE k <= Len(a)
      <3>1. k \in DOMAIN a \cap DOMAIN b /\ a[k] < b[k] /\ \A j \in 1 .. k - 1 : a[j] = b[j]
        BY <1>0, <1>3, <2>1 DEF DifferAt
      <3> QED
        BY <3>1 DEF Less
    <2>2. CASE ~ (k <= Len(a))
      <3>1. k = Len(a) + 1 /\ Len(a) < Len(b) /\ k - 1 = Len(a)
        BY <1>0, <1>3, <2>2 DEF DifferAt
      <3>2. \A j \in 1 .. Len(a) : a[j] = b[j]
        BY <1>3, <3>1 DEF DifferAt
      <3> DEFINE u == SubSeq(a, 1, Len(a))
                 v == SubSeq(b, 1, Len(a))
      <3>3. /\ u \in Seq(Byte) /\ v \in Seq(Byte) /\ Len(u) = Len(a) /\ Len(v) = Len(a)
            /\ \A j \in 1 .. Len(a) : u[j] = a[j] /\ v[j] = b[j]
        BY <1>0, <3>1
      <3> HIDE DEF u, v
      <3>4. u = v
        BY <3>2, <3>3, SeqEqual
      <3>5. IsStrictPrefix(a, b)
        BY <1>0, <3>1, <3>4 DEF IsStrictPrefix, IsPrefix, u, v
      <3> QED
        BY <3>5 DEF Less
    <2> QED
      BY <2>1, <2>2
  <1> QED
    BY <1>1, <1>2, <1>3 DEF Less

\* The order of keys is one: asymmetric and transitive.
LEMMA LessIsOrder ==
    ASSUME NEW a \in Seq(Byte), NEW b \in Seq(Byte), Less(a, b)
    PROVE  /\ ~ Less(b, a) /\ a # b
           /\ \A c \in Seq(Byte) : Less(b, c) => Less(a, c)
  <1>0. Len(a) \in Nat /\ Len(b) \in Nat
    OBVIOUS
  <1>1. PICK k \in Nat : DifferAt(a, b, k)
    BY LessAt
  <1>2. ASSUME NEW c \in Seq(Byte), NEW l \in Nat, DifferAt(b, c, l)
        PROVE  \E i \in Nat : DifferAt(a, c, i)
    <2>0. /\ k \in 1 .. Len(b) /\ k <= Len(a) + 1 /\ (k <= Len(a) => a[k] < b[k])
          /\ l \in 1 .. Len(c) /\ l <= Len(b) + 1 /\ (l <= Len(b) => b[l] < c[l])
          /\ Len(c) \in Nat
      BY <1>1, <1>2 DEF DifferAt
    <2>1. \A j \in 1 .. k - 1 : a[j] = b[j]
      BY <1>1 DEF DifferAt
    <2>2. \A j \in 1 .. l - 1 : b[j] = c[j]
      BY <1>2 DEF DifferAt
    <2>3. CASE k < l
      <3>1. k \in 1 .. l - 1 /\ b[k] = c[k]
        BY <2>0, <2>2, <2>3
      <3>2. \A j \in 1 .. k - 1 : a[j] = c[j]
        BY <2>0, <2>1, <2>2, <2>3
      <3>3. DifferAt(a, c, k)
        BY <2>0, <2>3, <3>1, <3>2 DEF DifferAt
      <3> QED
        BY <3>3
    <2>4. CASE l < k
      <3>1. l \in 1 .. k - 1 /\ a[l] = b[l] /\ l <= Len(a) + 1 /\ l <= Len(b)
        BY <1>0, <2>0, <2>1, <2>4
      <3>2. \A j \in 1 .. l - 1 : a[j] = c[j]
        BY <2>0, <2>1, <2>2, <2>4
      <3>3. DifferAt(a, c, l)
        BY <2>0, <2>4, <3>1, <3>2 DEF DifferAt
      <3> QED
        BY <3>3
    <2>5. CASE k = l
      <3>1. \A j \in 1 .. k - 1 : a[j] = c[j]
        BY <2>1, <2>2, <2>5
      <3>2. b[k] < c[k] /\ k \in 1 .. Len(c)
        BY <2>0, <2>5
      <3>3. ASSUME k <= Len(a) PROVE a[k] < c[k]
        <4>1. a[k] \in Byte /\ b[k] \in Byte /\ c[k] \in Byte
          BY <2>0, <3>2, <3>3, ElementOfSeq
        <4> QED
          BY <2>0, <3>2, <3>3, <4>1, ByteOrder
      <3>4. DifferAt(a, c, k)
        BY <2>0, <3>1, <3>2, <3>3 DEF DifferAt
      <3> QED
        BY <3>4
    <2> QED
      BY <2>3, <2>4, <2>5
  <1>3. \A i \in Nat : ~ DifferAt(a, a, i)
    <2> SUFFICES ASSUME NEW i \in Nat, DifferAt(a, a, i) PROVE FALSE
      BY Zenon
    <2>1. i \in 1 .. Len(a) /\ a[i] < a[i]
      BY DEF DifferAt
    <2>2. a[i] \in Byte
      BY <2>1
    <2> QED
      BY <2>1, <2>2, ByteOrder
  <1>4. \A c \in Seq(Byte) : Less(b, c) => Less(a, c)
    BY <1>2, LessAt
  <1>5. ~ Less(a, a)
    BY <1>3, LessAt
  <1> QED
    BY <1>4, <1>5

\* A key before all others is inserted at the front.
LEMMA InsertFirst ==
    ASSUME NEW V, NEW map \in Seq([key : Seq(Byte), value : V]), NEW key \in Seq(Byte), NEW value,
           \A k \in DOMAIN map : Less(key, map[k].key)
    PROVE  Insert(map, key, value) = <<[key |-> key, value |-> value]>> \o map
  <1> DEFINE S == {k \in DOMAIN map : Less(map[k].key, key)}
             e == [key |-> key, value |-> value]
  <1>1. S = {}
    <2> SUFFICES ASSUME NEW k \in DOMAIN map PROVE ~ Less(map[k].key, key)
      OBVIOUS
    <2>1. map[k] \in [key : Seq(Byte), value : V]
      <3>1. k \in 1 .. Len(map)
        OBVIOUS
      <3> QED
        BY <3>1, ElementOfSeq
    <2>2. map[k].key \in Seq(Byte)
      BY <2>1
    <2> QED
      BY <2>2, LessIsOrder
  <1>2. Cardinality(S) = 0
    BY <1>1, FS_EmptySet
  <1> HIDE DEF e, S
  <1>3. Insert(map, key, value) = InsertAt(map, 1, e)
    <2>1. 1 + 0 = 1
      OBVIOUS
    <2> QED
      BY <1>2, <2>1 DEF Insert, S, e
  <1>4. SubSeq(map, 1, 1 - 1) = <<>> /\ SubSeq(map, 1, Len(map)) = map
    OBVIOUS
  <1>5. <<>> \o <<e>> = <<e>>
    OBVIOUS
  <1> QED
    BY <1>3, <1>4, <1>5 DEF InsertAt, e

-----------------------------------------------------------------------------
(* What the encoder may leave out.                                          *)

NoZeros(s) == [k \in DOMAIN s |-> IF s[k] = Zero THEN <<>> ELSE <<s[k]>>]

\* WithoutZeros goes through a sequence of bytes one by one.
ZerosApart ==
    \A a, b \in Seq(Byte) :
        /\ WithoutZeros(a) \in Seq(Byte)
        /\ WithoutZeros(a \o b) = WithoutZeros(a) \o WithoutZeros(b)

\* Zeros can be left out of a concatenation part by part.
LEMMA ZerosByPart == ZerosApart
  <1> SUFFICES ASSUME NEW a \in Seq(Byte), NEW b \in Seq(Byte)
               PROVE  /\ WithoutZeros(a) \in Seq(Byte)
                      /\ WithoutZeros(a \o b) = WithoutZeros(a) \o WithoutZeros(b)
    BY DEF ZerosApart
  <1>1. ASSUME NEW s \in Seq(Byte)
        PROVE  /\ NoZeros(s) \in Seq(Seq(Byte)) /\ Len(NoZeros(s)) = Len(s)
               /\ \A k \in 1 .. Len(s) : NoZeros(s)[k] = IF s[k] = Zero THEN <<>> ELSE <<s[k]>>
               /\ WithoutZeros(s) = FlattenSeq(NoZeros(s))
    <2>1. \A k \in 1 .. Len(s) : (IF s[k] = Zero THEN <<>> ELSE <<s[k]>>) \in Seq(Byte)
      <3> SUFFICES ASSUME NEW k \in 1 .. Len(s) PROVE <<>> \in Seq(Byte) /\ <<s[k]>> \in Seq(Byte)
        BY Zenon
      <3>1. s[k] \in Byte
        OBVIOUS
      <3> HIDE DEF Byte
      <3> QED
        BY <3>1
    <2>2. NoZeros(s) = [k \in 1 .. Len(s) |-> IF s[k] = Zero THEN <<>> ELSE <<s[k]>>]
      BY DEF NoZeros
    <2>3. Len(s) \in Nat
      OBVIOUS
    <2>4. NoZeros(s) \in Seq(Seq(Byte)) /\ Len(NoZeros(s)) = Len(s)
      BY <2>1, <2>2, <2>3, IsASeq
    <2>5. WithoutZeros(s) = FlattenSeq(NoZeros(s))
      BY DEF WithoutZeros, NoZeros
    <2> QED
      BY <2>2, <2>4, <2>5
  <1> DEFINE c == a \o b
             x == NoZeros(a) \o NoZeros(b)
             y == NoZeros(c)
  <1>2. /\ c \in Seq(Byte) /\ Len(c) = Len(a) + Len(b) /\ Len(a) \in Nat /\ Len(b) \in Nat
        /\ \A k \in 1 .. Len(a) + Len(b) : c[k] = IF k <= Len(a) THEN a[k] ELSE b[k - Len(a)]
    BY ConcatProperties
  <1> HIDE DEF c
  <1>3. /\ x \in Seq(Seq(Byte)) /\ Len(x) = Len(a) + Len(b)
        /\ \A k \in 1 .. Len(a) + Len(b) :
              x[k] = IF k <= Len(a) THEN NoZeros(a)[k] ELSE NoZeros(b)[k - Len(a)]
    <2>1. /\ NoZeros(a) \in Seq(Seq(Byte)) /\ Len(NoZeros(a)) = Len(a)
          /\ NoZeros(b) \in Seq(Seq(Byte)) /\ Len(NoZeros(b)) = Len(b)
      BY <1>1
    <2> DEFINE p == NoZeros(a)
               q == NoZeros(b)
    <2> HIDE DEF p, q
    <2>2. /\ p \o q \in Seq(Seq(Byte)) /\ Len(p \o q) = Len(p) + Len(q)
          /\ \A k \in 1 .. Len(p) + Len(q) :
                (p \o q)[k] = IF k <= Len(p) THEN p[k] ELSE q[k - Len(p)]
      BY <2>1, ConcatProperties DEF p, q
    <2> QED
      BY <2>1, <2>2 DEF p, q
  <1> HIDE DEF x
  <1>4. y \in Seq(Seq(Byte)) /\ Len(y) = Len(a) + Len(b)
    BY <1>1, <1>2
  <1>5. ASSUME NEW k \in 1 .. Len(a) + Len(b) PROVE x[k] = y[k]
    <2>1. y[k] = IF c[k] = Zero THEN <<>> ELSE <<c[k]>>
      BY <1>1, <1>2
    <2>2. CASE k <= Len(a)
      <3>1. k \in 1 .. Len(a)
        BY <1>2, <2>2
      <3>2. NoZeros(a)[k] = IF a[k] = Zero THEN <<>> ELSE <<a[k]>>
        BY <1>1, <3>1
      <3>3. x[k] = NoZeros(a)[k] /\ c[k] = a[k]
        BY <1>2, <1>3, <2>2
      <3> QED
        BY <2>1, <3>2, <3>3, Zenon
    <2>3. CASE ~ (k <= Len(a))
      <3>1. k - Len(a) \in 1 .. Len(b)
        BY <1>2, <2>3
      <3>2. NoZeros(b)[k - Len(a)] = IF b[k - Len(a)] = Zero THEN <<>> ELSE <<b[k - Len(a)]>>
        BY <1>1, <3>1
      <3>3. x[k] = NoZeros(b)[k - Len(a)] /\ c[k] = b[k - Len(a)]
        BY <1>2, <1>3, <2>3
      <3> QED
        BY <2>1, <3>2, <3>3, Zenon
    <2> QED
      BY <2>2, <2>3
  <1> HIDE DEF y
  <1>6. x = y
    BY <1>3, <1>4, <1>5, SeqEqual
  <1>7. FlattenSeq(x) = FlattenSeq(NoZeros(a)) \o FlattenSeq(NoZeros(b))
    <2>1. FlattensParts(Byte)
      BY FlattenConcat
    <2>2. NoZeros(a) \in Seq(Seq(Byte)) /\ NoZeros(b) \in Seq(Seq(Byte))
      BY <1>1
    <2> QED
      BY <2>1, <2>2, Zenon DEF FlattensParts, x
  <1>8. WithoutZeros(c) = FlattenSeq(y) /\ WithoutZeros(a) = FlattenSeq(NoZeros(a))
        /\ WithoutZeros(b) = FlattenSeq(NoZeros(b))
    BY <1>1, <1>2 DEF y
  <1>9. WithoutZeros(c) = WithoutZeros(a) \o WithoutZeros(b)
    BY <1>6, <1>7, <1>8, Zenon
  <1>10. WithoutZeros(a) \in Seq(Byte)
    BY <1>1, <1>8, FlattenType
  <1> QED
    BY <1>9, <1>10 DEF c

\* Without zeros nothing is left of zeros.
LEMMA OnlyZeros ==
    ASSUME NEW zs \in Seq({Zero})
    PROVE  WithoutZeros(zs) = <<>>
  <1> DEFINE n == Len(zs)
             y == NoZeros(zs)
  <1>1. n \in Nat /\ y = [k \in 1 .. n |-> <<>>]
    <2>1. DOMAIN zs = 1 .. n /\ \A k \in 1 .. n : zs[k] = Zero
      OBVIOUS
    <2>2. n \in Nat
      OBVIOUS
    <2> HIDE DEF n
    <2> QED
      BY <2>1, <2>2 DEF NoZeros
  <1> HIDE DEF n, y
  <1>2. y \in Seq(Seq(Byte)) /\ Len(y) = n /\ \A k \in 1 .. n : y[k] = <<>>
    <2>1. <<>> \in Seq(Byte)
      OBVIOUS
    <2> HIDE DEF Byte
    <2> QED
      BY <1>1, <2>1, IsASeq
  <1>3. PICK f \in [0 .. n -> Seq(Byte)] : Joins(f, y) /\ FlattenSeq(y) = f[n]
    BY <1>2, FlattenJoins
  <1> DEFINE T == {k \in 0 .. n : f[k] = <<>>}
  <1>4. 0 \in T
    BY <1>1, <1>3 DEF Joins
  <1>5. \A k \in 0 .. n : k < n /\ k \in T => k + 1 \in T
    <2> SUFFICES ASSUME NEW k \in 0 .. n, k < n, k \in T PROVE k + 1 \in T
      BY Zenon
    <2>1. k + 1 \in 1 .. n /\ k + 1 \in 0 .. n /\ (k + 1) - 1 = k
      BY <1>1
    <2>2. f[k + 1] = f[k] \o y[k + 1]
      BY <1>2, <1>3, <2>1 DEF Joins
    <2>3. y[k + 1] = <<>> /\ f[k] = <<>> /\ <<>> \o <<>> = <<>>
      BY <1>2, <2>1
    <2>4. f[k + 1] = <<>>
      BY <2>2, <2>3, Zenon
    <2> QED
      BY <2>1, <2>4
  <1> HIDE DEF T
  <1>6. n \in T
    BY <1>1, <1>4, <1>5, BoundedInduction
  <1> QED
    BY <1>3, <1>6 DEF T, y, NoZeros, WithoutZeros

\* What is written for what was read: the same, but for zeros before a colon.
Shrinks(read, written) ==
    /\ WithoutZeros(written) = WithoutZeros(read)
    /\ Len(written) <= Len(read)
    /\ (Len(written) = Len(read) \/ Colon \notin ToSet(read)) => written = read

\* A rewriting may leave everything as it is.
LEMMA ShrinksToItself ==
    ASSUME NEW a \in Seq(Byte)
    PROVE  Shrinks(a, a)
  BY DEF Shrinks

\* Parts can be rewritten one by one.
LEMMA ShrinksByPart ==
    ASSUME NEW a \in Seq(Byte), NEW b \in Seq(Byte), NEW c \in Seq(Byte), NEW d \in Seq(Byte),
           Shrinks(a, b), Shrinks(c, d)
    PROVE  Shrinks(a \o c, b \o d)
  <1>1. WithoutZeros(b \o d) = WithoutZeros(a \o c)
    <2>1. /\ WithoutZeros(b \o d) = WithoutZeros(b) \o WithoutZeros(d)
          /\ WithoutZeros(a \o c) = WithoutZeros(a) \o WithoutZeros(c)
      BY ZerosByPart, Zenon DEF ZerosApart
    <2>2. WithoutZeros(b) = WithoutZeros(a) /\ WithoutZeros(d) = WithoutZeros(c)
      BY DEF Shrinks
    <2> QED
      BY <2>1, <2>2
  <1>2. /\ Len(a) \in Nat /\ Len(b) \in Nat /\ Len(c) \in Nat /\ Len(d) \in Nat
        /\ Len(a \o c) = Len(a) + Len(c) /\ Len(b \o d) = Len(b) + Len(d)
    BY LenProperties, ConcatProperties
  <1>3. Len(b) <= Len(a) /\ Len(d) <= Len(c)
    BY DEF Shrinks
  <1>4. Len(b \o d) <= Len(a \o c)
    BY <1>2, <1>3
  <1>5. ASSUME Len(b \o d) = Len(a \o c) PROVE b \o d = a \o c
    <2>1. Len(b) = Len(a) /\ Len(d) = Len(c)
      BY <1>2, <1>3, <1>5
    <2> QED
      BY <2>1 DEF Shrinks
  <1>6. ASSUME Colon \notin ToSet(a \o c) PROVE b \o d = a \o c
    <2>1. ASSUME NEW k \in 1 .. Len(a), a[k] = Colon PROVE FALSE
      <3>1. k \in 1 .. Len(a) + Len(c) /\ k <= Len(a)
        BY <1>2
      <3>2. (a \o c)[k] = a[k] /\ k \in DOMAIN (a \o c)
        BY <1>2, <3>1, ConcatProperties
      <3> QED
        BY <1>6, <2>1, <3>2 DEF ToSet
    <2>2. ASSUME NEW k \in 1 .. Len(c), c[k] = Colon PROVE FALSE
      <3>1. Len(a) + k \in 1 .. Len(a) + Len(c) /\ ~ (Len(a) + k <= Len(a)) /\ (Len(a) + k) - Len(a) = k
        BY <1>2
      <3>2. (a \o c)[Len(a) + k] = c[k] /\ Len(a) + k \in DOMAIN (a \o c)
        BY <1>2, <3>1, ConcatProperties
      <3> QED
        BY <1>6, <2>2, <3>2 DEF ToSet
    <2>3. Colon \notin ToSet(a) /\ Colon \notin ToSet(c)
      <3>1. DOMAIN a = 1 .. Len(a) /\ DOMAIN c = 1 .. Len(c)
        OBVIOUS
      <3> QED
        BY <2>1, <2>2, <3>1 DEF ToSet
    <2> QED
      BY <2>3 DEF Shrinks
  <1> QED
    BY <1>1, <1>4, <1>5, <1>6 DEF Shrinks

\* Zeros can be left out in front of something with a colon.
LEMMA ShrinksByZeros ==
    ASSUME NEW zs \in Seq({Zero}), NEW a \in Seq(Byte), Colon \in ToSet(a)
    PROVE  Shrinks(zs \o a, a)
  <1>0. zs \in Seq(Byte)
    BY DEF Zero, Byte
  <1>1. WithoutZeros(zs \o a) = WithoutZeros(a)
    <2>1. WithoutZeros(zs \o a) = <<>> \o WithoutZeros(a) /\ WithoutZeros(a) \in Seq(Byte)
      BY <1>0, ZerosByPart, OnlyZeros, Zenon DEF ZerosApart
    <2> DEFINE x == WithoutZeros(a)
    <2>2. \A y \in Seq(Byte) : <<>> \o y = y
      OBVIOUS
    <2> QED
      BY <2>1, <2>2, Zenon
  <1>2. Len(zs \o a) = Len(zs) + Len(a) /\ Len(zs) \in Nat /\ Len(a) \in Nat
    BY <1>0, LenProperties, ConcatProperties
  <1>3. Colon \in ToSet(zs \o a)
    <2>1. PICK k \in 1 .. Len(a) : a[k] = Colon
      <3>1. DOMAIN a = 1 .. Len(a)
        OBVIOUS
      <3> QED
        BY <3>1 DEF ToSet
    <2>2. Len(zs) + k \in 1 .. Len(zs) + Len(a) /\ ~ (Len(zs) + k <= Len(zs)) /\ (Len(zs) + k) - Len(zs) = k
      BY <1>2
    <2>3. (zs \o a)[Len(zs) + k] = a[k] /\ Len(zs) + k \in DOMAIN (zs \o a)
      BY <1>0, <1>2, <2>2, ConcatProperties
    <2> QED
      BY <2>1, <2>3 DEF ToSet
  <1>4. ASSUME Len(a) = Len(zs \o a) PROVE a = zs \o a
    <2>1. Len(zs) = 0
      BY <1>2, <1>4
    <2>2. zs = <<>> /\ <<>> \o a = a
      BY <1>0, <2>1
    <2> QED
      BY <2>2
  <1>5. Len(a) <= Len(zs \o a)
    BY <1>2
  <1> QED
    BY <1>1, <1>3, <1>4, <1>5 DEF Shrinks

-----------------------------------------------------------------------------
(* What was read, call by call.                                             *)

\* A call that P answers with a value, and that is made for c.
MadeFor(s, P, c, d) ==
    /\ d \in Calls /\ ~ Failed(P[d]) /\ Measure(s, d) < Measure(s, c)
    /\ d.pos \in Nat \ {0} /\ d.pos >= c.pos
    /\ P[d].pos \in Nat /\ P[d].pos > d.pos

ElementsCalls(s, P, c, d, e) ==
    /\ d = ValueAt(c.pos) /\ MadeFor(s, P, c, d)
    /\ e = ElementsFrom(P[d].pos) /\ MadeFor(s, P, c, e)
    /\ P[c] = Ok(<<P[d].value>> \o P[e].value, P[e].pos)

\* What a successful step of the loop of parse_list has read.
LEMMA ElementsRead ==
    ASSUME NEW s \in Seq(Byte), NEW P, Answers(s, P), NEW c \in Calls, c.parse = "list",
           ~ Failed(P[c])
    PROVE  /\ Available(s, c.pos)
           /\ \/ s[c.pos] = EndMark /\ P[c] = Ok(<<>>, c.pos + 1)
              \/ s[c.pos] # EndMark /\ \E d, e : ElementsCalls(s, P, c, d, e)
  <1> DEFINE pos == c.pos
             d == ValueAt(pos)
             e == ElementsFrom(P[d].pos)
  <1>0. pos \in Nat \ {0}
    BY CallForms
  <1>1. P[c] = Elements(s, P, pos)
    BY DEF Answers, Step
  <1>2. Available(s, pos)
    BY <1>1 DEF Elements, Err, Failed
  <1>3. CASE s[pos] = EndMark
    BY <1>1, <1>2, <1>3 DEF Elements
  <1>4. CASE s[pos] # EndMark
    <2>1. ~ Failed(P[d]) /\ ~ Failed(P[e]) /\ P[c] = Ok(<<P[d].value>> \o P[e].value, P[e].pos)
      BY <1>1, <1>2, <1>4 DEF Elements, Try
    <2>2. d \in Calls /\ d.pos = pos /\ d.parse = "value"
      BY <1>0, CallTypes
    <2>3. P[d].pos \in Nat /\ P[d].pos > pos
      BY <2>1, <2>2 DEF Answers, Advances
    <2> HIDE DEF d
    <2>4. MadeFor(s, P, c, d)
      BY <1>0, <1>2, <2>1, <2>2, <2>3, CallsBelow DEF MadeFor
    <2>5. P[d].pos \in Nat \ {0}
      BY <1>0, <2>3
    <2>6. e \in Calls /\ e.pos = P[d].pos
      BY <2>5, CallTypes
    <2> HIDE DEF e
    <2>7. P[e].pos \in Nat /\ P[e].pos > e.pos
      BY <2>1, <2>6 DEF Answers, Advances
    <2>8. MadeFor(s, P, c, e)
      BY <1>0, <1>2, <2>1, <2>3, <2>5, <2>6, <2>7, CallsBelow DEF MadeFor
    <2>9. ElementsCalls(s, P, c, d, e)
      BY <2>1, <2>4, <2>8 DEF ElementsCalls, d, e
    <2> QED
      BY <1>2, <1>4, <2>9
  <1> QED
    BY <1>2, <1>3, <1>4

ItemsCalls(s, P, c, next, d, e) ==
    LET key == BytesOf(s, c.pos, next)
    IN  /\ StringAt(s, c.pos, next)
        /\ c.last # <<>> => Less(c.last[1], key)
        /\ d = ValueAt(next + NumberAt(s, c.pos, next) + 1) /\ MadeFor(s, P, c, d)
        /\ e = ItemsFrom(P[d].pos, <<key>>) /\ MadeFor(s, P, c, e) /\ e.last = <<key>>
        /\ P[c] = Ok(Insert(P[e].value, key, P[d].value), P[e].pos)

\* What a successful step of the loop of parse_dictionary has read.
LEMMA ItemsRead ==
    ASSUME NEW s \in Seq(Byte), NEW P, Answers(s, P), NEW c \in Calls, c.parse = "dictionary",
           ~ Failed(P[c])
    PROVE  /\ Available(s, c.pos)
           /\ \/ s[c.pos] = EndMark /\ P[c] = Ok(<<>>, c.pos + 1)
              \/ s[c.pos] # EndMark /\ \E next \in Nat : \E d, e : ItemsCalls(s, P, c, next, d, e)
  <1> DEFINE pos == c.pos
             last == c.last
             r == parse_string(s, pos)
             key == r.value.bytes
             d == ValueAt(r.pos)
             e == ItemsFrom(P[d].pos, <<key>>)
  <1>0. pos \in Nat \ {0}
    BY CallForms
  <1>1. P[c] = Items(s, P, pos, last)
    BY DEF Answers, Step
  <1>2. Available(s, pos)
    <2> SUFFICES ASSUME ~ Available(s, pos) PROVE P[c] = Err("InsufficientContents")
      BY DEF Err, Failed
    <2> QED
      BY <1>1 DEF Items
  <1> HIDE DEF last
  <1>3. CASE s[pos] = EndMark
    BY <1>1, <1>2, <1>3 DEF Items
  <1>4. CASE s[pos] # EndMark
    <2>1. /\ ~ Failed(r) /\ last # <<key>> /\ ~ (last # <<>> /\ ~ InOrder(last[1], key))
          /\ P[c] = Try(P[d], LAMBDA v :
                        Try(P[ItemsFrom(v.pos, <<key>>)], LAMBDA rest :
                            Ok(Insert(rest.value, key, v.value), rest.pos)))
      <3>1. P[c] = IF Failed(r) THEN r
                   ELSE IF last = <<key>> THEN Err("DuplicateDictionaryKey")
                   ELSE IF last # <<>> /\ ~ InOrder(last[1], key)
                        THEN Err("DictionaryKeysOutOfOrder")
                   ELSE Try(P[d], LAMBDA v :
                            Try(P[ItemsFrom(v.pos, <<key>>)], LAMBDA rest :
                                Ok(Insert(rest.value, key, v.value), rest.pos)))
        BY <1>1, <1>2, <1>4 DEF Items, Try
      <3>2. Failed(Err("DuplicateDictionaryKey")) /\ Failed(Err("DictionaryKeysOutOfOrder"))
        BY DEF Err, Failed
      <3> HIDE DEF r, d
      <3> QED
        BY <3>1, <3>2
    <2>2. PICK next \in Nat : StringAt(s, pos, next) /\ r = StringOf(s, pos, next)
      BY <1>0, <2>1, StringRead
    <2>3. r.pos = next + NumberAt(s, pos, next) + 1 /\ key = BytesOf(s, pos, next)
      BY <2>2 DEF StringOf, Ok, ByteString
    <2>4. r.pos \in Nat \ {0} /\ r.pos > pos /\ key \in Seq(Byte)
      BY <1>0, <2>2, <2>3, StringProperties
    <2> HIDE DEF r, key
    <2>5. ~ Failed(P[d]) /\ ~ Failed(P[e]) /\ P[c] = Ok(Insert(P[e].value, key, P[d].value), P[e].pos)
      <3> HIDE DEF d
      <3> QED
        BY <2>1 DEF Try
    <2>6. d \in Calls /\ d.pos = r.pos
      BY <2>4, CallTypes
    <2>7. P[d].pos \in Nat /\ P[d].pos > r.pos
      BY <2>5, <2>6 DEF Answers, Advances
    <2>8. d = ValueAt(r.pos)
      OBVIOUS
    <2> HIDE DEF d
    <2>9. MadeFor(s, P, c, d)
      BY <1>0, <1>2, <2>4, <2>5, <2>6, <2>7, CallsBelow DEF MadeFor
    <2>10. P[d].pos \in Nat \ {0} /\ P[d].pos > pos /\ <<key>> \in Seq(Seq(Byte))
      BY <1>0, <2>4, <2>7
    <2>11. e \in Calls /\ e.pos = P[d].pos /\ e.last = <<key>>
      BY <2>10, CallTypes
    <2>12. e = ItemsFrom(P[d].pos, <<key>>)
      OBVIOUS
    <2> HIDE DEF e
    <2>13. P[e].pos \in Nat /\ P[e].pos > e.pos
      BY <2>5, <2>11 DEF Answers, Advances
    <2>14. MadeFor(s, P, c, e)
      BY <1>0, <1>2, <2>5, <2>10, <2>11, <2>13, CallsBelow DEF MadeFor
    <2>15. ItemsCalls(s, P, c, next, d, e)
      BY <2>1, <2>2, <2>3, <2>5, <2>8, <2>9, <2>11, <2>12, <2>14 DEF ItemsCalls, InOrder, last
    <2> QED
      BY <1>2, <1>4, <2>15
  <1> QED
    BY <1>2, <1>3, <1>4

ListCalls(s, P, c, d) ==
    /\ s[c.pos] = ListMark
    /\ d = ElementsFrom(c.pos + 1) /\ MadeFor(s, P, c, d) /\ d.parse = "list"
    /\ P[c] = Ok(List(P[d].value), P[d].pos)

DictionaryCalls(s, P, c, d) ==
    /\ s[c.pos] = DictionaryMark
    /\ d = ItemsFrom(c.pos + 1, <<>>) /\ MadeFor(s, P, c, d) /\ d.parse = "dictionary"
    /\ d.last = <<>>
    /\ P[c] = Ok(Dictionary(P[d].value), P[d].pos)

\* What a successful parse_value has read.
LEMMA ValueRead ==
    ASSUME NEW s \in Seq(Byte), NEW P, Answers(s, P), NEW c \in Calls, c.parse = "value",
           ~ Failed(P[c])
    PROVE  /\ Available(s, c.pos)
           /\ \/ /\ s[c.pos] = IntegerMark
                 /\ \E start, next \in Nat : /\ IntegerAt(s, c.pos, start, next)
                                             /\ P[c] = IntegerOf(s, c.pos, start, next)
              \/ /\ s[c.pos] \in Digits
                 /\ \E next \in Nat : StringAt(s, c.pos, next) /\ P[c] = StringOf(s, c.pos, next)
              \/ \E d : ListCalls(s, P, c, d)
              \/ \E d : DictionaryCalls(s, P, c, d)
  <1> DEFINE pos == c.pos
  <1>0. pos \in Nat \ {0} /\ pos + 1 \in Nat \ {0} /\ pos + 1 > pos
    BY CallForms
  <1>1. P[c] = parse_value(s, P, pos)
    BY DEF Answers, Step
  <1>2. Available(s, pos)
    BY <1>1 DEF parse_value, Err, Failed
  <1> HIDE DEF pos
  <1>3. CASE s[pos] = IntegerMark
    <2>1. P[c] = parse_integer(s, pos)
      BY <1>1, <1>2, <1>3 DEF parse_value, IntegerMark, ListMark, DictionaryMark, Digits
    <2>2. \E start, next \in Nat : IntegerAt(s, pos, start, next) /\ P[c] = IntegerOf(s, pos, start, next)
      BY <1>0, <2>1, IntegerRead
    <2> QED
      BY <1>2, <1>3, <2>2 DEF pos
  <1>4. CASE s[pos] \in Digits
    <2>1. P[c] = parse_string(s, pos)
      BY <1>1, <1>2, <1>4 DEF parse_value, IntegerMark, ListMark, DictionaryMark, Digits
    <2>2. \E next \in Nat : StringAt(s, pos, next) /\ P[c] = StringOf(s, pos, next)
      BY <1>0, <2>1, StringRead
    <2> QED
      BY <1>2, <1>4, <2>2 DEF pos
  <1>5. CASE s[pos] = ListMark
    <2> DEFINE d == ElementsFrom(pos + 1)
    <2>1. P[c] = parse_list(P, pos)
      BY <1>1, <1>2, <1>5 DEF parse_value, IntegerMark, ListMark, DictionaryMark, Digits
    <2>2. ~ Failed(P[d]) /\ P[c] = Ok(List(P[d].value), P[d].pos)
      BY <2>1 DEF parse_list, Try
    <2>3. d \in Calls /\ d.pos = pos + 1 /\ d.parse = "list"
      BY <1>0, CallTypes
    <2> HIDE DEF d
    <2>4. P[d].pos \in Nat /\ P[d].pos > d.pos
      BY <2>2, <2>3 DEF Answers, Advances
    <2>5. MadeFor(s, P, c, d)
      BY <1>0, <1>2, <2>2, <2>3, <2>4, CallsBelow DEF MadeFor, pos
    <2>6. ListCalls(s, P, c, d)
      BY <1>5, <2>2, <2>3, <2>5 DEF ListCalls, d, pos
    <2> QED
      BY <1>2, <2>6 DEF pos
  <1>6. CASE s[pos] = DictionaryMark
    <2> DEFINE d == ItemsFrom(pos + 1, <<>>)
    <2>1. P[c] = parse_dictionary(P, pos)
      BY <1>1, <1>2, <1>6 DEF parse_value, IntegerMark, ListMark, DictionaryMark, Digits
    <2>2. ~ Failed(P[d]) /\ P[c] = Ok(Dictionary(P[d].value), P[d].pos)
      BY <2>1 DEF parse_dictionary, Try
    <2>3. d \in Calls /\ d.pos = pos + 1 /\ d.parse = "dictionary" /\ d.last = <<>>
      <3>1. <<>> \in Seq(Seq(Byte))
        OBVIOUS
      <3> DEFINE p == pos + 1
      <3> HIDE DEF p
      <3>2. \A last \in Seq(Seq(Byte)) :
                /\ ItemsFrom(p, last) \in Calls /\ ItemsFrom(p, last).pos = p
                /\ ItemsFrom(p, last).parse = "dictionary" /\ ItemsFrom(p, last).last = last
        BY <1>0, CallTypes DEF p
      <3> QED
        BY <3>1, <3>2 DEF p
    <2> HIDE DEF d
    <2>4. P[d].pos \in Nat /\ P[d].pos > d.pos
      BY <2>2, <2>3 DEF Answers, Advances
    <2>5. MadeFor(s, P, c, d)
      BY <1>0, <1>2, <2>2, <2>3, <2>4, CallsBelow DEF MadeFor, pos
    <2>6. DictionaryCalls(s, P, c, d)
      BY <1>6, <2>2, <2>3, <2>5 DEF DictionaryCalls, d, pos
    <2> QED
      BY <1>2, <2>6 DEF pos
  <1>7. CASE /\ s[pos] # IntegerMark /\ s[pos] # ListMark /\ s[pos] # DictionaryMark
             /\ s[pos] \notin Digits
    BY <1>1, <1>2, <1>7 DEF parse_value, Err, Failed
  <1> QED
    BY <1>3, <1>4, <1>5, <1>6, <1>7

\* The values that calls of a smaller measure have read.
ReadBelow(s, P, n) ==
    {P[ValueAt(p)].value :
        p \in {q \in Nat \ {0} : ~ Failed(P[ValueAt(q)]) /\ Measure(s, ValueAt(q)) < n}}

Pairs(D) == [key : Seq(Byte), value : D]

\* A value whose parts, if it has any, are in D.
MadeOf(v, D) ==
    \/ \E n \in Int : v = Integer(n)
    \/ \E b \in Seq(Byte) : v = ByteString(b)
    \/ \E w \in Seq(D) : v = List(w)
    \/ \E m \in Seq(Pairs(D)) : v = Dictionary(m)

\* The types of what is read; and the keys that are still read come after the last.
WellRead(s, P, c) ==
    LET D == ReadBelow(s, P, Measure(s, c))
        v == P[c].value
    IN  /\ c.parse = "value" => MadeOf(v, D)
        /\ c.parse = "list" => v \in Seq(D)
        /\ c.parse = "dictionary" =>
              /\ v \in Seq(Pairs(D))
              /\ c.last # <<>> => \A k \in DOMAIN v : Less(c.last[1], v[k].key)

\* A larger measure leaves room for more values ...
LEMMA MoreBelow ==
    ASSUME NEW s, NEW P, NEW m \in Int, NEW n \in Int, m <= n, s \in Seq(Byte)
    PROVE  ReadBelow(s, P, m) \subseteq ReadBelow(s, P, n)
  <1> SUFFICES ASSUME NEW q \in Nat \ {0}, Measure(s, ValueAt(q)) < m
               PROVE  Measure(s, ValueAt(q)) < n
    BY DEF ReadBelow
  <1>1. Measure(s, ValueAt(q)) \in Int
    BY CallTypes, MeasureOf
  <1> QED
    BY <1>1

\* ... and what is made of some values is made of more.
LEMMA MoreParts ==
    ASSUME NEW D, NEW E, D \subseteq E
    PROVE  /\ Seq(D) \subseteq Seq(E) /\ Seq(Pairs(D)) \subseteq Seq(Pairs(E))
           /\ \A v : MadeOf(v, D) => MadeOf(v, E)
  <1>1. Pairs(D) \subseteq Pairs(E)
    BY DEF Pairs
  <1> HIDE DEF Pairs
  <1>2. Seq(D) \subseteq Seq(E) /\ Seq(Pairs(D)) \subseteq Seq(Pairs(E))
    BY <1>1, SeqMonotonic
  <1> QED
    BY <1>2 DEF MadeOf

ItemRead(s, P, c, next, d, e) ==
    LET key == BytesOf(s, c.pos, next)
    IN  /\ key \in Seq(Byte)
        /\ P[c] = Ok(<<[key |-> key, value |-> P[d].value]>> \o P[e].value, P[e].pos)

\* An item that is read comes before those that follow it.
LEMMA ItemIsFirst ==
    ASSUME NEW s \in Seq(Byte), NEW P, NEW c \in Calls, c.parse = "dictionary",
           NEW next \in Nat, NEW d, NEW e, ItemsCalls(s, P, c, next, d, e), NEW D,
           P[e].value \in Seq(Pairs(D)),
           \A k \in DOMAIN P[e].value : Less(e.last[1], P[e].value[k].key)
    PROVE  ItemRead(s, P, c, next, d, e)
  <1> DEFINE key == BytesOf(s, c.pos, next)
             rest == P[e].value
  <1>1. key \in Seq(Byte)
    BY CallForms, StringProperties DEF ItemsCalls
  <1>2. e.last[1] = key
    <2>1. e.last = <<key>>
      BY Zenon DEF ItemsCalls
    <2> HIDE DEF key
    <2> QED
      BY <2>1
  <1>3. P[c] = Ok(Insert(rest, key, P[d].value), P[e].pos)
    BY Zenon DEF ItemsCalls
  <1> HIDE DEF key, rest
  <1>4. rest \in Seq([key : Seq(Byte), value : D]) /\ \A k \in DOMAIN rest : Less(key, rest[k].key)
    BY <1>2 DEF Pairs, rest
  <1>5. Insert(rest, key, P[d].value) = <<[key |-> key, value |-> P[d].value]>> \o rest
    BY <1>1, <1>4, InsertFirst
  <1> QED
    BY <1>1, <1>3, <1>5, Zenon DEF ItemRead, key, rest

\* A call gives a value of its kind, if those of a smaller measure do.
LEMMA CallIsWellRead ==
    ASSUME NEW s \in Seq(Byte), NEW P, Answers(s, P), NEW c \in Calls, ~ Failed(P[c]),
           \A d \in Calls : Measure(s, d) < Measure(s, c) /\ ~ Failed(P[d]) => WellRead(s, P, d)
    PROVE  WellRead(s, P, c)
  <1> DEFINE D == ReadBelow(s, P, Measure(s, c))
  <1>1. \A d \in Calls : Measure(s, d) \in Int
    BY MeasureOf
  <1>2. ASSUME NEW d, MadeFor(s, P, c, d)
        PROVE  /\ WellRead(s, P, d) /\ d \in Calls
               /\ ReadBelow(s, P, Measure(s, d)) \subseteq D
               /\ d = ValueAt(d.pos) => P[d].value \in D
    <2>1. d \in Calls /\ WellRead(s, P, d) /\ Measure(s, d) < Measure(s, c)
      BY <1>2 DEF MadeFor
    <2>2. ReadBelow(s, P, Measure(s, d)) \subseteq D
      BY <1>1, <2>1, MoreBelow
    <2>3. ASSUME d = ValueAt(d.pos) PROVE P[d].value \in D
      BY <1>2, <2>3 DEF MadeFor, ReadBelow
    <2> QED
      BY <2>1, <2>2, <2>3
  <1>3. CASE c.parse = "list"
    <2>1. CASE P[c] = Ok(<<>>, c.pos + 1)
      BY <1>3, <2>1 DEF WellRead, Ok
    <2>2. ASSUME NEW d, NEW e, ElementsCalls(s, P, c, d, e) PROVE WellRead(s, P, c)
      <3>1. /\ d = ValueAt(c.pos) /\ MadeFor(s, P, c, d)
            /\ e = ElementsFrom(P[d].pos) /\ MadeFor(s, P, c, e)
            /\ P[c].value = <<P[d].value>> \o P[e].value
        <4>1. P[c] = Ok(<<P[d].value>> \o P[e].value, P[e].pos)
          BY <2>2 DEF ElementsCalls
        <4>2. P[c].value = <<P[d].value>> \o P[e].value
          BY <4>1 DEF Ok
        <4> QED
          BY <2>2, <4>2, Zenon DEF ElementsCalls
      <3>2. d.pos = c.pos
        BY <3>1 DEF ValueAt
      <3>3. P[d].value \in D
        BY <1>2, <3>1, <3>2
      <3>4. e.parse = "list"
        BY <3>1 DEF ElementsFrom
      <3>5. P[e].value \in Seq(D)
        <4>1. P[e].value \in Seq(ReadBelow(s, P, Measure(s, e)))
          BY <1>2, <3>1, <3>4 DEF WellRead
        <4>2. ReadBelow(s, P, Measure(s, e)) \subseteq D
          BY <1>2, <3>1
        <4> HIDE DEF D
        <4> QED
          BY <4>1, <4>2, MoreParts
      <3> HIDE DEF D
      <3>6. P[c].value \in Seq(D)
        BY <3>1, <3>3, <3>5
      <3> QED
        BY <1>3, <3>6 DEF WellRead, D
    <2> QED
      BY <1>3, <2>1, <2>2, ElementsRead
  <1>4. CASE c.parse = "dictionary"
    <2> DEFINE last == c.last
    <2>0. last \in Seq(Seq(Byte))
      BY <1>4, CallForms
    <2>1. CASE P[c] = Ok(<<>>, c.pos + 1)
      BY <1>4, <2>1 DEF WellRead, Ok
    <2>2. ASSUME NEW next \in Nat, NEW d, NEW e, ItemsCalls(s, P, c, next, d, e)
          PROVE  WellRead(s, P, c)
      <3> DEFINE key == BytesOf(s, c.pos, next)
                 rest == P[e].value
                 item == [key |-> key, value |-> P[d].value]
      <3>1. /\ c.last # <<>> => Less(c.last[1], key)
            /\ MadeFor(s, P, c, d) /\ MadeFor(s, P, c, e) /\ e.last = <<key>>
            /\ e.parse = "dictionary" /\ d = ValueAt(d.pos)
        BY <2>2 DEF ItemsCalls, ItemsFrom, ValueAt
      <3>2. P[d].value \in D
        BY <1>2, <3>1
      <3>3. /\ rest \in Seq(Pairs(ReadBelow(s, P, Measure(s, e))))
            /\ \A k \in DOMAIN rest : Less(e.last[1], rest[k].key)
        <4>1. WellRead(s, P, e) /\ e.last # <<>>
          BY <1>2, <3>1
        <4> QED
          BY <3>1, <4>1 DEF WellRead
      <3>4. rest \in Seq(Pairs(D))
        <4>1. ReadBelow(s, P, Measure(s, e)) \subseteq D
          BY <1>2, <3>1
        <4> HIDE DEF D, rest
        <4> QED
          BY <3>3, <4>1, MoreParts
      <3>5. key \in Seq(Byte) /\ P[c].value = <<item>> \o rest
        <4>1. ItemRead(s, P, c, next, d, e)
          <5> DEFINE F == ReadBelow(s, P, Measure(s, e))
          <5>1. P[e].value \in Seq(Pairs(F)) /\ \A k \in DOMAIN P[e].value : Less(e.last[1], P[e].value[k].key)
            BY <3>3
          <5> HIDE DEF F, D, rest, item, key
          <5> QED
            BY <1>4, <2>2, <5>1, ItemIsFirst
        <4>2. P[c] = Ok(<<item>> \o rest, P[e].pos) /\ key \in Seq(Byte)
          BY <4>1, Zenon DEF ItemRead
        <4> HIDE DEF item, rest, key
        <4> QED
          BY <4>2 DEF Ok
      <3> HIDE DEF D, rest, key
      <3>6. item \in Pairs(D)
        BY <3>2, <3>5 DEF Pairs
      <3>7. item.key = key
        OBVIOUS
      <3> HIDE DEF item
      <3>8. P[c].value \in Seq(Pairs(D))
        <4> HIDE DEF Pairs
        <4> QED
          BY <3>4, <3>5, <3>6
      <3>9. ASSUME c.last # <<>>, NEW k \in DOMAIN P[c].value
            PROVE  Less(c.last[1], P[c].value[k].key)
        <4>1. c.last[1] \in Seq(Byte) /\ Less(c.last[1], key)
          <5>1. last # <<>> => last[1] \in Seq(Byte)
            BY <2>0
          <5> QED
            BY <3>1, <3>9, <5>1
        <4>2. k = 1 \/ (k - 1 \in DOMAIN rest /\ P[c].value[k] = rest[k - 1])
          <5>1. /\ <<item>> \in Seq(Pairs(D)) /\ Len(<<item>>) = 1
                /\ rest \in Seq(Pairs(D)) /\ Len(rest) \in Nat /\ DOMAIN rest = 1 .. Len(rest)
            BY <3>4, <3>6
          <5>2. /\ k \in 1 .. 1 + Len(rest)
                /\ P[c].value[k] = IF k <= 1 THEN <<item>>[k] ELSE rest[k - 1]
            BY <3>5, <3>9, <5>1, ConcatProperties
          <5> QED
            BY <5>1, <5>2
        <4>3. CASE k = 1
          <5>1. P[c].value[k] = item
            BY <3>4, <3>5, <3>6, <4>3
          <5> QED
            BY <3>7, <4>1, <5>1
        <4>4. CASE k - 1 \in DOMAIN rest /\ P[c].value[k] = rest[k - 1]
          <5>1. e.last[1] = key
            BY <3>1
          <5>2. Less(key, rest[k - 1].key)
            BY <3>3, <4>4, <5>1
          <5>3. rest[k - 1] \in Pairs(D)
            <6> HIDE DEF Pairs
            <6> QED
              BY <3>4, <4>4
          <5>4. rest[k - 1].key \in Seq(Byte)
            BY <5>3 DEF Pairs
          <5>5. Less(c.last[1], rest[k - 1].key)
            BY <3>5, <4>1, <5>2, <5>4, LessIsOrder
          <5> QED
            BY <4>4, <5>5
        <4> QED
          BY <4>2, <4>3, <4>4
      <3> QED
        BY <1>4, <3>8, <3>9 DEF WellRead, D
    <2> QED
      BY <1>4, <2>1, <2>2, ItemsRead
  <1>5. CASE c.parse = "value"
    <2>0. c.pos \in Nat \ {0}
      BY CallForms
    <2> SUFFICES MadeOf(P[c].value, D)
      BY <1>5 DEF WellRead
    <2> HIDE DEF D
    <2>1. ASSUME NEW start \in Nat, NEW next \in Nat, IntegerAt(s, c.pos, start, next),
                 P[c] = IntegerOf(s, c.pos, start, next)
          PROVE  MadeOf(P[c].value, D)
      <3> DEFINE n == NumberAt(s, start, next)
                 m == IF IsNegative(s, c.pos) THEN - n ELSE n
      <3>1. start \in Nat \ {0} /\ DigitsAt(s, start, next)
        BY <2>0, <2>1 DEF IntegerAt
      <3>2. n \in Nat
        BY <3>1, DigitsBetween
      <3> HIDE DEF n
      <3>3. m \in Int
        BY <3>2
      <3>4. P[c].value = Integer(m)
        BY <2>1 DEF IntegerOf, Ok, n
      <3> HIDE DEF m
      <3> QED
        BY <3>3, <3>4 DEF MadeOf
    <2>2. ASSUME NEW next \in Nat, StringAt(s, c.pos, next), P[c] = StringOf(s, c.pos, next)
          PROVE  MadeOf(P[c].value, D)
      <3> DEFINE b == BytesOf(s, c.pos, next)
      <3>1. b \in Seq(Byte)
        BY <2>0, <2>2, StringProperties
      <3>2. P[c].value = ByteString(b)
        BY <2>2 DEF StringOf, Ok
      <3> HIDE DEF b
      <3> QED
        BY <3>1, <3>2 DEF MadeOf
    <2>3. ASSUME NEW d, ListCalls(s, P, c, d) PROVE MadeOf(P[c].value, D)
      <3>1. P[d].value \in Seq(ReadBelow(s, P, Measure(s, d)))
        BY <1>2, <2>3 DEF ListCalls, WellRead
      <3>2. ReadBelow(s, P, Measure(s, d)) \subseteq D
        BY <1>2, <2>3 DEF ListCalls
      <3>3. P[d].value \in Seq(D)
        BY <3>1, <3>2, MoreParts
      <3>4. P[c].value = List(P[d].value)
        BY <2>3 DEF ListCalls, Ok
      <3> QED
        BY <3>3, <3>4 DEF MadeOf
    <2>4. ASSUME NEW d, DictionaryCalls(s, P, c, d) PROVE MadeOf(P[c].value, D)
      <3>1. P[d].value \in Seq(Pairs(ReadBelow(s, P, Measure(s, d))))
        BY <1>2, <2>4 DEF DictionaryCalls, WellRead
      <3>2. ReadBelow(s, P, Measure(s, d)) \subseteq D
        BY <1>2, <2>4 DEF DictionaryCalls
      <3>3. P[d].value \in Seq(Pairs(D))
        BY <3>1, <3>2, MoreParts
      <3>4. P[c].value = Dictionary(P[d].value)
        BY <2>4 DEF DictionaryCalls, Ok
      <3> QED
        BY <3>3, <3>4 DEF MadeOf
    <2> QED
      BY <1>5, <2>1, <2>2, <2>3, <2>4, ValueRead
  <1> QED
    BY <1>3, <1>4, <1>5, CallForms

\* Whatever is read has its type, and dictionaries have their keys in order.
LEMMA AllIsWellRead ==
    ASSUME NEW s \in Seq(Byte), NEW P, Answers(s, P)
    PROVE  \A c \in Calls : ~ Failed(P[c]) => WellRead(s, P, c)
  <1> DEFINE N == 2 * Len(s) + 2
             T == {n \in 0 .. N : \A c \in Calls : Measure(s, c) < n /\ ~ Failed(P[c]) => WellRead(s, P, c)}
  <1>0. N \in Nat /\ \A c \in Calls : Measure(s, c) \in Nat /\ Measure(s, c) < N
    BY MeasureOf
  <1>1. 0 \in T
    BY <1>0
  <1>2. ASSUME NEW n \in 0 .. N, n < N, n \in T PROVE n + 1 \in T
    <2>1. ASSUME NEW c \in Calls, Measure(s, c) < n + 1, ~ Failed(P[c]) PROVE WellRead(s, P, c)
      <3>1. \A d \in Calls : Measure(s, d) < Measure(s, c) /\ ~ Failed(P[d]) => WellRead(s, P, d)
        BY <1>0, <1>2, <2>1
      <3> QED
        BY <2>1, <3>1, CallIsWellRead
    <2> QED
      BY <1>0, <1>2, <2>1
  <1> HIDE DEF T
  <1>3. N \in T
    BY <1>0, <1>1, <1>2, BoundedInduction
  <1> QED
    BY <1>0, <1>3 DEF T
-----------------------------------------------------------------------------
(* The encoder.                                                             *)

ElementsWritten(E, w) == FlattenSeq([k \in DOMAIN w |-> E[w[k]]])
ItemsWritten(E, m) ==
    FlattenSeq([k \in DOMAIN m |-> EncodeBytes(m[k].key) \o E[m[k].value]])

\* The encoder on each kind of value.
LEMMA EncodingsOf ==
    ASSUME NEW E
    PROVE  /\ \A n : EncodeValue(E, Integer(n)) =
                  (<<IntegerMark>> \o (IF n < 0 THEN <<Minus>> \o DigitsOf(- n) ELSE DigitsOf(n)))
                      \o <<EndMark>>
           /\ \A b : EncodeValue(E, ByteString(b)) = EncodeBytes(b)
           /\ \A w : EncodeValue(E, List(w)) = (<<ListMark>> \o ElementsWritten(E, w)) \o <<EndMark>>
           /\ \A m : EncodeValue(E, Dictionary(m)) =
                  (<<DictionaryMark>> \o ItemsWritten(E, m)) \o <<EndMark>>
  BY DEF EncodeValue, Integer, ByteString, List, Dictionary, ElementsWritten, ItemsWritten

\* What is written for a value depends only on what is written for its parts.
LEMMA EncodingIsLocal ==
    ASSUME NEW g, NEW h, NEW D, \A v \in D : g[v] = h[v], NEW v, MadeOf(v, D)
    PROVE  EncodeValue(g, v) = EncodeValue(h, v)
  <1>1. ASSUME NEW n \in Int, v = Integer(n) PROVE EncodeValue(g, v) = EncodeValue(h, v)
    BY <1>1, EncodingsOf
  <1>2. ASSUME NEW b, v = ByteString(b) PROVE EncodeValue(g, v) = EncodeValue(h, v)
    BY <1>2, EncodingsOf
  <1>3. ASSUME NEW w \in Seq(D), v = List(w) PROVE EncodeValue(g, v) = EncodeValue(h, v)
    <2>1. \A k \in DOMAIN w : w[k] \in D
      OBVIOUS
    <2>2. [k \in DOMAIN w |-> g[w[k]]] = [k \in DOMAIN w |-> h[w[k]]]
      BY <2>1
    <2>3. ElementsWritten(g, w) = ElementsWritten(h, w)
      BY <2>2 DEF ElementsWritten
    <2> QED
      BY <1>3, <2>3, EncodingsOf
  <1>4. ASSUME NEW m \in Seq(Pairs(D)), v = Dictionary(m) PROVE EncodeValue(g, v) = EncodeValue(h, v)
    <2>1. \A k \in DOMAIN m : m[k] \in Pairs(D)
      <3> HIDE DEF Pairs
      <3> QED
        OBVIOUS
    <2>2. \A k \in DOMAIN m : m[k].value \in D
      BY <2>1 DEF Pairs
    <2>3. [k \in DOMAIN m |-> EncodeBytes(m[k].key) \o g[m[k].value]] =
          [k \in DOMAIN m |-> EncodeBytes(m[k].key) \o h[m[k].value]]
      BY <2>2
    <2>4. ItemsWritten(g, m) = ItemsWritten(h, m)
      BY <2>3 DEF ItemsWritten
    <2> QED
      BY <1>4, <2>4, EncodingsOf
  <1> QED
    BY <1>1, <1>2, <1>3, <1>4 DEF MadeOf

\* E is the recursive function of Encode.
Encodes(s, E) ==
    /\ \A v \in ValuesIn(s) : E[v] = EncodeValue(E, v)
    /\ \A v : Encode(v, s) = E[v]

\* The values somewhere in the document are those the calls for values return.
LEMMA ValuesAreRead ==
    ASSUME NEW s \in Seq(Byte)
    PROVE  ValuesIn(s) = ReadBelow(s, Parser(s), 2 * Len(s) + 2)
  <1> DEFINE P == Parser(s)
  <1>1. ValuesIn(s) = {P[ValueAt(p)].value : p \in {q \in 1 .. Len(s) : ~ Failed(P[ValueAt(q)])}}
    BY DEF ValuesIn
  <1>2. Answers(s, P)
    BY ParserAnswers
  <1> HIDE DEF P
  <1>3. ASSUME NEW q \in Nat \ {0}, ~ Failed(P[ValueAt(q)]) PROVE q \in 1 .. Len(s)
    <2>1. ValueAt(q) \in Calls /\ ValueAt(q).pos = q /\ ValueAt(q).parse = "value"
      BY CallTypes
    <2>2. Available(s, q)
      BY <1>2, <1>3, <2>1, ValueRead
    <2> QED
      BY <2>2 DEF Available
  <1>4. ASSUME NEW q \in Nat \ {0} PROVE Measure(s, ValueAt(q)) < 2 * Len(s) + 2
    <2>1. ValueAt(q) \in Calls
      BY CallTypes
    <2> QED
      BY <2>1, MeasureOf
  <1>5. {q \in 1 .. Len(s) : ~ Failed(P[ValueAt(q)])} =
        {q \in Nat \ {0} : ~ Failed(P[ValueAt(q)]) /\ Measure(s, ValueAt(q)) < 2 * Len(s) + 2}
    BY <1>3, <1>4
  <1> QED
    BY <1>1, <1>5, Zenon DEF ReadBelow, P

\* A value was read by more calls than its parts were, so the encoder's recursion ends.
LEMMA EncodingExists ==
    ASSUME NEW s \in Seq(Byte)
    PROVE  \E E : Encodes(s, E)
  <1> DEFINE P == Parser(s)
             N == 2 * Len(s) + 2
             D(n) == ReadBelow(s, P, n)
             V == ValuesIn(s)
             Good(n, g) == \A v \in D(n) : g[v] = EncodeValue(g, v)
             T == {n \in 0 .. N : \E g : Good(n, g)}
  <1>0. N \in Nat /\ Answers(s, P) /\ V = D(N)
    BY ParserAnswers, ValuesAreRead
  <1> HIDE DEF P, V
  <1>1. 0 \in T
    <2>1. ASSUME NEW q \in Nat \ {0}, Measure(s, ValueAt(q)) < 0 PROVE FALSE
      BY <2>1, CallTypes, MeasureOf
    <2>2. D(0) = {}
      BY <2>1 DEF ReadBelow
    <2> QED
      BY <1>0, <2>2
  <1>2. ASSUME NEW n \in 0 .. N, NEW v \in D(n + 1) PROVE MadeOf(v, D(n))
    <2>1. PICK q \in Nat \ {0} : /\ ~ Failed(P[ValueAt(q)]) /\ Measure(s, ValueAt(q)) < n + 1
                                 /\ v = P[ValueAt(q)].value
      BY <1>2 DEF ReadBelow
    <2> DEFINE c == ValueAt(q)
    <2>2. c \in Calls /\ c.parse = "value" /\ Measure(s, c) \in Int
      BY CallTypes, MeasureOf
    <2> HIDE DEF c
    <2>3. MadeOf(v, D(Measure(s, c)))
      BY <1>0, <2>1, <2>2, AllIsWellRead DEF WellRead, c
    <2>4. D(Measure(s, c)) \subseteq D(n)
      <3>1. Measure(s, c) <= n
        BY <2>1, <2>2 DEF c
      <3> QED
        BY <2>2, <3>1, MoreBelow
    <2> HIDE DEF D
    <2> QED
      BY <2>3, <2>4, MoreParts
  <1>3. ASSUME NEW n \in 0 .. N, n < N, n \in T PROVE n + 1 \in T
    <2>1. PICK g : Good(n, g)
      BY <1>3
    <2> DEFINE h == [v \in D(n + 1) |-> EncodeValue(g, v)]
    <2>2. \A v \in D(n) : v \in D(n + 1) /\ h[v] = g[v]
      <3>1. D(n) \subseteq D(n + 1)
        <4>1. n \in Int /\ n + 1 \in Int /\ n <= n + 1
          OBVIOUS
        <4> QED
          BY <4>1, MoreBelow
      <3> HIDE DEF D
      <3> QED
        BY <2>1, <3>1
    <2>3. ASSUME NEW v \in D(n + 1) PROVE h[v] = EncodeValue(h, v)
      <3>1. MadeOf(v, D(n))
        BY <2>3, <1>2
      <3>2. h[v] = EncodeValue(g, v)
        BY <2>3
      <3> HIDE DEF h, D
      <3>3. EncodeValue(g, v) = EncodeValue(h, v)
        BY <2>2, <3>1, EncodingIsLocal
      <3> QED
        BY <3>2, <3>3
    <2> HIDE DEF h
    <2>4. Good(n + 1, h)
      BY <2>3
    <2> HIDE DEF Good
    <2> QED
      BY <1>0, <1>3, <2>4
  <1> HIDE DEF T
  <1>4. N \in T
    <2> HIDE DEF N
    <2> QED
      BY <1>0, <1>1, <1>3, BoundedInduction
  <1>5. PICK g : Good(N, g)
    BY <1>4 DEF T
  <1> DEFINE Unfolded(E) == E = [w \in V |-> EncodeValue(E, w)]
             f == [w \in V |-> g[w]]
             chosen == CHOOSE E : Unfolded(E)
  <1>6. ASSUME NEW v \in V PROVE f[v] = EncodeValue(f, v)
    <2>1. f[v] = EncodeValue(g, v)
      BY <1>0, <1>5
    <2>2. MadeOf(v, V)
      <3>1. D(N) \subseteq D(N + 1)
        <4>1. N \in Int /\ N + 1 \in Int /\ N <= N + 1
          BY <1>0
        <4> HIDE DEF N
        <4> QED
          BY <4>1, MoreBelow
      <3>2. v \in D(N + 1) /\ N \in 0 .. N
        BY <1>0, <1>6, <3>1
      <3>3. MadeOf(v, D(N))
        <4> HIDE DEF N
        <4> QED
          BY <1>2, <3>2
      <3> QED
        BY <1>0, <3>3
    <2>3. \A w \in V : g[w] = f[w]
      OBVIOUS
    <2> HIDE DEF f
    <2>4. EncodeValue(g, v) = EncodeValue(f, v)
      BY <2>2, <2>3, EncodingIsLocal
    <2> QED
      BY <2>1, <2>4
  <1>7. Unfolded(f)
    <2>1. f = [w \in V |-> f[w]]
      OBVIOUS
    <2> HIDE DEF f
    <2> QED
      BY <1>6, <2>1, Zenon
  <1> HIDE DEF f
  <1>8. Unfolded(chosen)
    <2> HIDE DEF Unfolded
    <2> QED
      BY <1>7, Zenon
  <1>9. \A v : Encode(v, s) = chosen[v]
    BY DEF Encode, V
  <1> HIDE DEF chosen
  <1>10. \A v \in V : chosen[v] = EncodeValue(chosen, v)
    BY <1>8
  <1> QED
    BY <1>9, <1>10 DEF Encodes, V

-----------------------------------------------------------------------------
(* What the parser answers to what was written.                             *)

\* The bytes e are those of u from p on.
Stands(u, p, e) ==
    /\ p + Len(e) <= Len(u) + 1
    /\ \A k \in 1 .. Len(e) : u[p + k - 1] = e[k]

BothStand(u, p, a, b) ==
    /\ Stands(u, p, a) /\ Stands(u, p + Len(a), b)
    /\ p + Len(a) \in Nat \ {0} /\ Len(a \o b) = Len(a) + Len(b)

\* If a concatenation stands somewhere, its parts stand there one after the other.
LEMMA StandsByPart ==
    ASSUME NEW u \in Seq(Byte), NEW p \in Nat \ {0}, NEW a \in Seq(Byte), NEW b \in Seq(Byte),
           Stands(u, p, a \o b)
    PROVE  BothStand(u, p, a, b)
  <1>1. /\ Len(a \o b) = Len(a) + Len(b) /\ Len(a) \in Nat /\ Len(b) \in Nat
        /\ \A k \in 1 .. Len(a) + Len(b) : (a \o b)[k] = IF k <= Len(a) THEN a[k] ELSE b[k - Len(a)]
    BY ConcatProperties
  <1> DEFINE m == Len(a)
             n == Len(b)
             ab == a \o b
  <1>2. /\ p + (m + n) <= Len(u) + 1
        /\ \A k \in 1 .. m + n : u[p + k - 1] = ab[k]
        /\ \A k \in 1 .. m + n : ab[k] = IF k <= m THEN a[k] ELSE b[k - m]
        /\ m \in Nat /\ n \in Nat /\ Len(u) \in Nat
    BY <1>1 DEF Stands
  <1> HIDE DEF m, n, ab
  <1>3. ASSUME NEW k \in 1 .. m PROVE u[p + k - 1] = a[k]
    BY <1>2, <1>3
  <1>4. ASSUME NEW k \in 1 .. n PROVE u[(p + m) + k - 1] = b[k]
    <2>1. m + k \in 1 .. m + n /\ ~ (m + k <= m) /\ (m + k) - m = k /\ p + (m + k) - 1 = (p + m) + k - 1
      BY <1>2, <1>4
    <2>2. u[p + (m + k) - 1] = ab[m + k] /\ ab[m + k] = b[(m + k) - m]
      BY <1>2, <2>1
    <2> QED
      BY <2>1, <2>2
  <1>5. p + m <= Len(u) + 1 /\ (p + m) + n <= Len(u) + 1 /\ p + m \in Nat \ {0}
    BY <1>2
  <1> QED
    BY <1>1, <1>3, <1>4, <1>5 DEF Stands, BothStand, m, n

\* One byte that stands somewhere.
LEMMA StandsAlone ==
    ASSUME NEW u \in Seq(Byte), NEW p \in Nat \ {0}, NEW x \in Byte, Stands(u, p, <<x>>)
    PROVE  Available(u, p) /\ u[p] = x /\ Len(<<x>>) = 1
  BY DEF Stands, Available

\* What stands somewhere is the part of the document there.
LEMMA StandsWhole ==
    ASSUME NEW u \in Seq(Byte), NEW p \in Nat \ {0}, NEW e \in Seq(Byte), Stands(u, p, e),
           NEW q, q = p + Len(e)
    PROVE  SubSeq(u, p, q - 1) = e
  <1> DEFINE n == Len(e)
             hi == q - 1
             t == SubSeq(u, p, hi)
  <1>1. n \in Nat /\ Len(u) \in Nat /\ p + n <= Len(u) + 1 /\ \A k \in 1 .. n : u[p + k - 1] = e[k]
    BY DEF Stands
  <1> HIDE DEF n
  <1>2. hi \in Int /\ hi = p + n - 1 /\ hi <= Len(u) /\ p \in Int
    BY <1>1 DEF n
  <1> HIDE DEF hi
  <1>3. /\ t \in Seq(Byte) /\ Len(t) = n
        /\ \A k \in 1 .. n : t[k] = u[p + k - 1]
    <2>1. \A i \in p .. hi : u[i] \in Byte
      BY <1>1, <1>2, ElementOfSeq
    <2>2. /\ t \in Seq(Byte) /\ Len(t) = IF p <= hi THEN hi - p + 1 ELSE 0
          /\ \A k \in 1 .. hi - p + 1 : t[k] = u[p + k - 1]
      BY <1>2, <2>1, SubSeqProperties
    <2>3. hi - p + 1 = n /\ (~ (p <= hi) => n = 0)
      BY <1>1, <1>2
    <2> HIDE DEF t
    <2> QED
      BY <2>2, <2>3
  <1> HIDE DEF t
  <1>4. \A k \in 1 .. n : t[k] = e[k]
    BY <1>1, <1>3
  <1> QED
    BY <1>3, <1>4, SeqEqual DEF n, t

\* Digits that something else follows are found by parse_integer_value.
LEMMA DigitsStand ==
    ASSUME NEW u \in Seq(Byte), NEW p \in Nat \ {0}, NEW ds \in Seq(Digits), Len(ds) > 0,
           Stands(u, p, ds), NEW x \in Byte, x \notin Digits, Stands(u, p + Len(ds), <<x>>)
    PROVE  /\ DigitsAt(u, p, p + Len(ds)) /\ NumberAt(u, p, p + Len(ds)) = Number(ds)
           /\ u[p] = ds[1] /\ ds[1] \in Digits /\ Available(u, p) /\ u[p + Len(ds)] = x
  <1> DEFINE n == Len(ds)
  <1>1. ds \in Seq(Byte) /\ n \in Nat /\ n > 0
    <2>1. Digits \subseteq Byte
      BY DEF Digits, Byte
    <2> QED
      BY <2>1, SeqMonotonic
  <1>2. NumberAt(u, p, p + n) = Number(ds)
    <2> DEFINE q == p + n
    <2>1. SubSeq(u, p, q - 1) = ds
      BY <1>1, StandsWhole
    <2> HIDE DEF q
    <2>2. NumberAt(u, p, q) = Number(ds)
      BY <2>1, Zenon DEF NumberAt
    <2> QED
      BY <2>2 DEF q
  <1>3. \A k \in 1 .. n : ds[k] \in Digits
    OBVIOUS
  <1>4. p + n <= Len(u) /\ u[p + n] = x
    <2>1. p + n \in Nat \ {0}
      BY <1>1
    <2> HIDE DEF n
    <2> QED
      BY <2>1, StandsAlone DEF Available, n
  <1>5. \A k \in 1 .. n : u[p + k - 1] = ds[k]
    BY DEF Stands
  <1> HIDE DEF n
  <1>6. ASSUME NEW q \in p .. (p + n) - 1 PROVE u[q] \in Digits
    <2>1. q - p + 1 \in 1 .. n /\ p + (q - p + 1) - 1 = q
      BY <1>1, <1>6
    <2> QED
      BY <1>3, <1>5, <2>1
  <1>7. p + n \in p + 1 .. Len(u) /\ p <= Len(u) /\ 1 \in 1 .. n /\ p + 1 - 1 = p
    <2>1. Len(u) \in Nat
      OBVIOUS
    <2> QED
      BY <1>1, <1>4, <2>1
  <1>8. u[p] = ds[1] /\ ds[1] \in Digits
    BY <1>3, <1>5, <1>7
  <1>9. DigitsAt(u, p, p + n)
    <2> DEFINE q == p + n
    <2>1. /\ q \in p + 1 .. Len(u) /\ u[q] = x
          /\ \A i \in p .. q - 1 : u[i] \in Digits
      BY <1>4, <1>6, <1>7
    <2> HIDE DEF q
    <2>2. DigitsAt(u, p, q)
      BY <2>1, Zenon DEF DigitsAt
    <2> QED
      BY <2>2 DEF q
  <1> QED
    BY <1>2, <1>4, <1>7, <1>8, <1>9 DEF Available, n

\* What is written for a string: its length, a colon, its bytes.
LEMMA EncodedBytes ==
    ASSUME NEW b \in Seq(Byte)
    PROVE  /\ EncodeBytes(b) \in Seq(Byte) /\ DigitsOf(Len(b)) \in Seq(Byte)
           /\ EncodeBytes(b) = DigitsOf(Len(b)) \o (<<Colon>> \o b) /\ <<Colon>> \o b \in Seq(Byte)
           /\ Len(EncodeBytes(b)) \in Nat /\ Len(EncodeBytes(b)) > 0
  <1> DEFINE ds == DigitsOf(Len(b))
  <1>1. ds \in Seq(Digits) /\ Len(ds) \in Nat \ {0}
    BY DigitsAreRead
  <1>2. ds \in Seq(Byte) /\ <<Colon>> \in Seq(Byte)
    <2>1. Digits \subseteq Byte /\ Colon \in Byte
      BY DEF Digits, Byte, Colon
    <2> QED
      BY <1>1, <2>1, SeqMonotonic
  <1>3. EncodeBytes(b) = (ds \o <<Colon>>) \o b
    BY DEF EncodeBytes
  <1> HIDE DEF ds
  <1>4. (ds \o <<Colon>>) \o b = ds \o (<<Colon>> \o b)
    <2>1. Associates(Byte)
      BY Associative
    <2>2. b \in Seq(Byte) /\ <<Colon>> \in Seq(Byte) /\ ds \in Seq(Byte)
      BY <1>2
    <2> QED
      BY <2>1, <2>2, Zenon DEF Associates
  <1>5. <<Colon>> \o b \in Seq(Byte) /\ ds \o (<<Colon>> \o b) \in Seq(Byte)
    BY <1>2
  <1>6. Len(ds \o (<<Colon>> \o b)) = Len(ds) + Len(<<Colon>> \o b) /\ Len(<<Colon>> \o b) \in Nat
    BY <1>2, <1>5
  <1> QED
    BY <1>1, <1>2, <1>3, <1>4, <1>5, <1>6 DEF ds

\* parse_string reads what is written for a string.
LEMMA StringStands ==
    ASSUME NEW u \in Seq(Byte), NEW p \in Nat \ {0}, NEW b \in Seq(Byte), Len(b) <= MaxInt,
           Stands(u, p, EncodeBytes(b))
    PROVE  /\ parse_string(u, p) = Ok(ByteString(b), p + Len(EncodeBytes(b)))
           /\ u[p] \in Digits /\ Available(u, p)
  <1> DEFINE n == Len(b)
             ds == DigitsOf(n)
             next == p + Len(ds)
  <1>1. /\ ds \in Seq(Digits) /\ Len(ds) \in Nat \ {0} /\ Number(ds) = n /\ ds \in Seq(Byte)
        /\ n \in Nat
    <2>1. n \in Nat /\ ds \in Seq(Byte)
      BY EncodedBytes
    <2> HIDE DEF n
    <2> QED
      BY <2>1, DigitsAreRead
  <1>2. Colon \in Byte /\ Colon \notin Digits
    BY DEF Colon, Byte, Digits
  <1>3. Stands(u, p, ds \o (<<Colon>> \o b)) /\ <<Colon>> \o b \in Seq(Byte)
    BY EncodedBytes
  <1>4. EncodeBytes(b) = ds \o (<<Colon>> \o b)
    BY EncodedBytes
  <1> HIDE DEF ds, n
  <1>5. /\ Stands(u, p, ds) /\ Stands(u, next, <<Colon>> \o b) /\ next \in Nat \ {0}
        /\ Len(EncodeBytes(b)) = Len(ds) + Len(<<Colon>> \o b)
    <2>1. BothStand(u, p, ds, <<Colon>> \o b)
      BY <1>1, <1>3, StandsByPart
    <2> QED
      BY <1>4, <2>1, Zenon DEF BothStand, next
  <1> HIDE DEF next
  <1>6. /\ Stands(u, next, <<Colon>>) /\ Stands(u, next + 1, b)
        /\ Len(<<Colon>> \o b) = 1 + n
    <2>1. <<Colon>> \in Seq(Byte) /\ Len(<<Colon>>) = 1
      BY <1>2
    <2>2. BothStand(u, next, <<Colon>>, b)
      BY <1>5, <2>1, StandsByPart
    <2> QED
      BY <2>1, <2>2, Zenon DEF BothStand, n
  <1>7. DigitsAt(u, p, next) /\ NumberAt(u, p, next) = n /\ u[p] \in Digits /\ Available(u, p) /\ u[next] = Colon
    BY <1>1, <1>2, <1>5, <1>6, DigitsStand DEF next
  <1>8. next + 1 + n <= Len(u) + 1 /\ Len(u) \in Nat
    BY <1>6 DEF Stands, n
  <1>9. next + n <= Len(u)
    BY <1>1, <1>5, <1>8
  <1>10. parse_string(u, p) = StringOf(u, p, next)
    BY <1>7, <1>9, StringReads DEF n
  <1>11. SubSeq(u, next + 1, next + n) = b
    <2> DEFINE q == (next + 1) + n
    <2>1. SubSeq(u, next + 1, q - 1) = b
      BY <1>5, <1>6, StandsWhole DEF n
    <2>2. q - 1 = next + n
      BY <1>1, <1>5
    <2> HIDE DEF q
    <2> QED
      BY <2>1, <2>2, Zenon
  <1>12. next + n + 1 = p + Len(EncodeBytes(b))
    <2> DEFINE l == Len(ds)
               m == Len(<<Colon>> \o b)
    <2>1. l \in Nat /\ Len(EncodeBytes(b)) = l + m /\ m = 1 + n /\ next = p + l
      BY <1>1, <1>5, <1>6 DEF next
    <2> HIDE DEF l, m
    <2> QED
      BY <1>1, <2>1
  <1> QED
    BY <1>7, <1>10, <1>11, <1>12 DEF StringOf, BytesOf

EncodedInteger(m) ==
    (<<IntegerMark>> \o (IF m < 0 THEN <<Minus>> \o DigitsOf(- m) ELSE DigitsOf(m))) \o <<EndMark>>

\* parse_integer reads the digits of a number between its mark and its end.
LEMMA IntegerStandsAt ==
    ASSUME NEW u \in Seq(Byte), NEW p \in Nat \ {0}, NEW start \in Nat \ {0}, NEW n \in Nat,
           n <= MaxInt, start = IF IsNegative(u, p) THEN p + 2 ELSE p + 1,
           IsNegative(u, p) => n # 0,
           Stands(u, start, DigitsOf(n)), Stands(u, start + Len(DigitsOf(n)), <<EndMark>>)
    PROVE  parse_integer(u, p) = Ok(Integer(IF IsNegative(u, p) THEN - n ELSE n),
                                    start + Len(DigitsOf(n)) + 1)
  <1> DEFINE ds == DigitsOf(n)
             next == start + Len(ds)
  <1>1. /\ ds \in Seq(Digits) /\ Len(ds) \in Nat \ {0} /\ Number(ds) = n
        /\ ds[1] # Zero \/ Len(ds) = 1
    BY DigitsAreRead
  <1>2. EndMark \in Byte /\ EndMark \notin Digits
    BY DEF EndMark, Byte, Digits
  <1> HIDE DEF ds
  <1>3. /\ DigitsAt(u, start, next) /\ NumberAt(u, start, next) = n
        /\ u[start] = ds[1] /\ u[next] = EndMark
    BY <1>1, <1>2, DigitsStand DEF ds
  <1>4. u[start] # Zero \/ next = start + 1
    BY <1>1, <1>3
  <1> HIDE DEF next
  <1>5. IntegerAt(u, p, start, next)
    BY <1>3, <1>4 DEF IntegerAt
  <1>6. parse_integer(u, p) = IntegerOf(u, p, start, next)
    BY <1>5, IntegerReads
  <1>7. parse_integer(u, p) = Ok(Integer(IF IsNegative(u, p) THEN - n ELSE n), next + 1)
    BY <1>3, <1>6, Zenon DEF IntegerOf
  <1> QED
    BY <1>7 DEF next, ds

\* What is written for an integer is some bytes.
LEMMA EncodedIntegers ==
    ASSUME NEW m \in Int
    PROVE  /\ EncodedInteger(m) \in Seq(Byte)
           /\ DigitsOf(m) \in Seq(Byte) \/ m < 0
           /\ DigitsOf(- m) \in Seq(Byte) \/ m >= 0
           /\ Len(EncodedInteger(m)) \in Nat /\ Len(EncodedInteger(m)) > 0
  <1> DEFINE n == IF m < 0 THEN - m ELSE m
             ds == DigitsOf(n)
             B == IF m < 0 THEN <<Minus>> \o ds ELSE ds
  <1>1. n \in Nat
    OBVIOUS
  <1> HIDE DEF n
  <1>2. ds \in Seq(Byte) /\ \A x \in {Minus, IntegerMark, EndMark} : <<x>> \in Seq(Byte)
    <2>1. ds \in Seq(Digits) /\ Digits \subseteq Byte /\ {Minus, IntegerMark, EndMark} \subseteq Byte
      BY <1>1, DigitsAreRead DEF Digits, Byte, Minus, IntegerMark, EndMark
    <2> QED
      BY <2>1, SeqMonotonic
  <1>3. EncodedInteger(m) = (<<IntegerMark>> \o B) \o <<EndMark>>
    BY DEF EncodedInteger, n
  <1> HIDE DEF ds
  <1>4. B \in Seq(Byte)
    BY <1>2
  <1> HIDE DEF B
  <1>5. <<IntegerMark>> \o B \in Seq(Byte)
    BY <1>2, <1>4
  <1>6. (<<IntegerMark>> \o B) \o <<EndMark>> \in Seq(Byte) /\ Len((<<IntegerMark>> \o B) \o <<EndMark>>) > 0
    BY <1>2, <1>5
  <1> QED
    BY <1>2, <1>3, <1>6 DEF ds, n

\* parse_integer reads what is written for an integer, with its sign.
LEMMA IntegerStands ==
    ASSUME NEW u \in Seq(Byte), NEW p \in Nat \ {0}, NEW m \in Int, m <= MaxInt, - m <= MaxInt,
           Stands(u, p, EncodedInteger(m))
    PROVE  /\ parse_integer(u, p) = Ok(Integer(m), p + Len(EncodedInteger(m)))
           /\ u[p] = IntegerMark /\ Available(u, p)
  <1> DEFINE n == IF m < 0 THEN - m ELSE m
             ds == DigitsOf(n)
             B == IF m < 0 THEN <<Minus>> \o ds ELSE ds
             q == p + 1
             r == q + Len(B)
             A == <<IntegerMark>> \o B
  <1>1. n \in Nat /\ n <= MaxInt
    OBVIOUS
  <1> HIDE DEF n
  <1>2. /\ ds \in Seq(Digits) /\ Len(ds) \in Nat \ {0} /\ ds \in Seq(Byte)
        /\ \A x \in {Minus, IntegerMark, EndMark} : <<x>> \in Seq(Byte) /\ x \in Byte /\ x \notin Digits
    <2>1. /\ ds \in Seq(Digits) /\ Len(ds) \in Nat \ {0} /\ Digits \subseteq Byte
          /\ \A x \in {Minus, IntegerMark, EndMark} : x \in Byte /\ x \notin Digits
      BY <1>1, DigitsAreRead DEF Digits, Byte, Minus, IntegerMark, EndMark
    <2> QED
      BY <2>1, SeqMonotonic
  <1>3. EncodedInteger(m) = A \o <<EndMark>>
    BY DEF EncodedInteger, n
  <1> HIDE DEF ds
  <1>4. B \in Seq(Byte) /\ A \in Seq(Byte)
    BY <1>2
  <1>5. BothStand(u, p, A, <<EndMark>>)
    <2> HIDE DEF A
    <2> QED
      BY <1>2, <1>3, <1>4, StandsByPart
  <1>6. BothStand(u, p, <<IntegerMark>>, B)
    <2>1. Stands(u, p, A)
      BY <1>5 DEF BothStand
    <2> HIDE DEF B
    <2> QED
      BY <1>2, <1>4, <2>1, StandsByPart
  <1>7. Len(<<IntegerMark>>) = 1 /\ Len(<<Minus>>) = 1 /\ Len(<<EndMark>>) = 1
    OBVIOUS
  <1>8. Stands(u, p, <<IntegerMark>>) /\ Stands(u, q, B) /\ q \in Nat \ {0} /\ Len(A) = 1 + Len(B)
    BY <1>6, <1>7, Zenon DEF BothStand
  <1>9. u[p] = IntegerMark /\ Available(u, p)
    BY <1>2, <1>8, StandsAlone
  <1>10. Len(B) \in Nat /\ Len(EncodedInteger(m)) = Len(A) + 1
    <2>1. Len(B) \in Nat
      BY <1>4
    <2> QED
      BY <1>3, <1>5, <1>7, <2>1, Zenon DEF BothStand
  <1>11. Stands(u, r, <<EndMark>>)
    <2>1. Stands(u, p + Len(A), <<EndMark>>)
      BY <1>5 DEF BothStand
    <2>2. p + Len(A) = r
      <3>1. Len(A) = 1 + Len(B) /\ Len(B) \in Nat /\ r = q + Len(B) /\ q = p + 1
        BY <1>8, <1>10
      <3> HIDE DEF A, B, r, q
      <3> QED
        BY <3>1
    <2> QED
      BY <2>1, <2>2
  <1>12. r + 1 = p + Len(EncodedInteger(m))
    <2>1. /\ Len(A) = 1 + Len(B) /\ Len(B) \in Nat /\ Len(EncodedInteger(m)) = Len(A) + 1
          /\ r = q + Len(B) /\ q = p + 1
      BY <1>8, <1>10
    <2> HIDE DEF A, B, r, q
    <2> QED
      BY <2>1
  <1>13. CASE m < 0
    <2> DEFINE start == q + 1
    <2>1. BothStand(u, q, <<Minus>>, ds)
      BY <1>2, <1>8, <1>13, StandsByPart
    <2>2. Stands(u, q, <<Minus>>) /\ Stands(u, start, ds) /\ Len(B) = 1 + Len(ds) /\ start \in Nat \ {0}
      BY <1>7, <1>13, <2>1, Zenon DEF BothStand
    <2>3. IsNegative(u, p)
      BY <1>2, <1>8, <2>2, StandsAlone DEF IsNegative
    <2>4. r = start + Len(ds)
      <3>1. /\ Len(B) = 1 + Len(ds) /\ Len(ds) \in Nat
            /\ r = q + Len(B) /\ start = q + 1 /\ q \in Nat
        BY <1>2, <1>8, <2>2
      <3> HIDE DEF B, r, start, q
      <3> QED
        BY <3>1
    <2>5. start = p + 2 /\ n # 0 /\ - n = m
      BY <1>13 DEF n
    <2> HIDE DEF q, r, start
    <2>6. parse_integer(u, p) = Ok(Integer(- n), r + 1)
      BY <1>1, <1>11, <2>2, <2>3, <2>4, <2>5, IntegerStandsAt DEF ds
    <2> QED
      BY <1>9, <1>12, <2>5, <2>6
  <1>14. CASE ~ (m < 0)
    <2>1. B = ds /\ n = m
      BY <1>14 DEF n
    <2>2. u[q] \in Digits
      <3>1. Stands(u, q, ds) /\ Stands(u, q + Len(ds), <<EndMark>>) /\ q \in Nat \ {0}
        BY <1>8, <1>11, <2>1
      <3> HIDE DEF q
      <3> QED
        BY <1>2, <3>1, DigitsStand
    <2>3. ~ IsNegative(u, p)
      BY <1>2, <2>2 DEF IsNegative
    <2> HIDE DEF B
    <2>4. r = q + Len(ds)
      BY <2>1
    <2>5. q = p + 1
      OBVIOUS
    <2> HIDE DEF q, r
    <2>6. parse_integer(u, p) = Ok(Integer(n), r + 1)
      BY <1>1, <1>8, <1>11, <2>1, <2>3, <2>4, <2>5, IntegerStandsAt DEF ds
    <2> QED
      BY <1>9, <1>12, <2>1, <2>6
  <1> QED
    BY <1>13, <1>14

\* The loops of parse_list and parse_dictionary end at the end mark ...
LEMMA EndAnswered ==
    ASSUME NEW u \in Seq(Byte), NEW Q, Answers(u, Q), NEW c \in Calls, c.parse # "value",
           Stands(u, c.pos, <<EndMark>>)
    PROVE  Q[c] = Ok(<<>>, c.pos + 1)
  <1>1. Available(u, c.pos) /\ u[c.pos] = EndMark
    <2>1. c.pos \in Nat \ {0} /\ EndMark \in Byte
      BY CallForms DEF EndMark, Byte
    <2> DEFINE p == c.pos
    <2> HIDE DEF p
    <2> QED
      BY <2>1, StandsAlone DEF p
  <1>2. CASE c.parse = "list"
    <2>1. Q[c] = Elements(u, Q, c.pos)
      BY <1>2 DEF Answers, Step
    <2> QED
      BY <1>1, <2>1 DEF Elements
  <1>3. CASE c.parse = "dictionary"
    <2>1. Q[c] = Items(u, Q, c.pos, c.last)
      BY <1>3 DEF Answers, Step
    <2> QED
      BY <1>1, <2>1 DEF Items
  <1> QED
    BY <1>2, <1>3, CallForms

\* ... go on after an element ...
LEMMA ElementAnswered ==
    ASSUME NEW u \in Seq(Byte), NEW Q, Answers(u, Q), NEW c \in Calls, c.parse = "list",
           Available(u, c.pos), u[c.pos] # EndMark, NEW v, NEW w, NEW p, NEW q,
           Q[ValueAt(c.pos)] = Ok(v, p), Q[ElementsFrom(p)] = Ok(w, q)
    PROVE  Q[c] = Ok(<<v>> \o w, q)
  <1> DEFINE d == Q[ValueAt(c.pos)]
             e == Q[ElementsFrom(d.pos)]
  <1>1. ~ Failed(d) /\ d.value = v /\ d.pos = p
    BY DEF Ok, Failed
  <1>2. Q[c] = Elements(u, Q, c.pos)
    BY DEF Answers, Step
  <1> HIDE DEF d
  <1>3. Q[c] = Try(e, LAMBDA rest : Ok(<<d.value>> \o rest.value, rest.pos))
    BY <1>1, <1>2 DEF Elements, Try, d
  <1>4. ~ Failed(e) /\ e.value = w /\ e.pos = q
    BY <1>1 DEF Ok, Failed
  <1> HIDE DEF e
  <1> QED
    BY <1>1, <1>3, <1>4 DEF Try

\* ... and after an item whose key comes after the last.
LEMMA ItemAnswered ==
    ASSUME NEW u \in Seq(Byte), NEW Q, Answers(u, Q), NEW c \in Calls, c.parse = "dictionary",
           Available(u, c.pos), u[c.pos] # EndMark, NEW key \in Seq(Byte), NEW n,
           parse_string(u, c.pos) = Ok(ByteString(key), n),
           c.last # <<>> => Less(c.last[1], key),
           NEW v, NEW m, NEW p, NEW q,
           Q[ValueAt(n)] = Ok(v, p), Q[ItemsFrom(p, <<key>>)] = Ok(m, q)
    PROVE  Q[c] = Ok(Insert(m, key, v), q)
  <1> DEFINE r == parse_string(u, c.pos)
             d == Q[ValueAt(n)]
             e == Q[ItemsFrom(p, <<key>>)]
             last == c.last
  <1>1. ~ Failed(r) /\ r.value.bytes = key /\ r.pos = n
    BY DEF Ok, Failed, ByteString
  <1>2. ~ Failed(d) /\ d.value = v /\ d.pos = p
    BY DEF Ok, Failed
  <1>3. ~ Failed(e) /\ e.value = m /\ e.pos = q
    BY DEF Ok, Failed
  <1>4. Q[c] = Items(u, Q, c.pos, last)
    BY DEF Answers, Step
  <1>5. last # <<key>>
    <2>1. SUFFICES ASSUME last = <<key>> PROVE FALSE
      OBVIOUS
    <2>2. last # <<>> /\ last[1] = key
      BY <2>1
    <2>3. Less(key, key)
      BY <2>2
    <2> QED
      BY <2>3, LessIsOrder
  <1>6. ~ (last # <<>> /\ ~ InOrder(last[1], key))
    BY DEF InOrder
  <1> HIDE DEF r, d, e, last
  <1>7. Q[c] = Try(Q[ValueAt(r.pos)], LAMBDA x :
                   Try(Q[ItemsFrom(x.pos, <<key>>)], LAMBDA rest :
                       Ok(Insert(rest.value, key, x.value), rest.pos)))
    BY <1>1, <1>4, <1>5, <1>6 DEF Items, Try, r
  <1>8. Q[c] = Try(Q[ItemsFrom(d.pos, <<key>>)], LAMBDA rest :
                   Ok(Insert(rest.value, key, d.value), rest.pos))
    BY <1>1, <1>2, <1>7 DEF Try, d
  <1>9. Q[c] = Ok(Insert(e.value, key, d.value), e.pos)
    BY <1>2, <1>3, <1>8 DEF Try, e
  <1> QED
    BY <1>2, <1>3, <1>9

\* The kinds of a value: what makes a call of this kind.
LEMMA ValueAnswered ==
    ASSUME NEW u \in Seq(Byte), NEW Q, Answers(u, Q), NEW p \in Nat \ {0}, Available(u, p)
    PROVE  /\ u[p] = IntegerMark => Q[ValueAt(p)] = parse_integer(u, p)
           /\ u[p] \in Digits => Q[ValueAt(p)] = parse_string(u, p)
           /\ \A w, q : u[p] = ListMark /\ Q[ElementsFrom(p + 1)] = Ok(w, q)
                            => Q[ValueAt(p)] = Ok(List(w), q)
           /\ \A m, q : u[p] = DictionaryMark /\ Q[ItemsFrom(p + 1, <<>>)] = Ok(m, q)
                            => Q[ValueAt(p)] = Ok(Dictionary(m), q)
  <1> DEFINE c == ValueAt(p)
  <1>1. c \in Calls /\ c.pos = p /\ c.parse = "value"
    BY CallTypes
  <1> HIDE DEF c
  <1>2. Q[c] = parse_value(u, Q, p)
    BY <1>1 DEF Answers, Step
  <1>3. /\ u[p] = IntegerMark => Q[c] = parse_integer(u, p)
        /\ u[p] \in Digits => Q[c] = parse_string(u, p)
        /\ u[p] = ListMark => Q[c] = parse_list(Q, p)
        /\ u[p] = DictionaryMark => Q[c] = parse_dictionary(Q, p)
    BY <1>2 DEF parse_value, IntegerMark, ListMark, DictionaryMark, Digits
  <1>4. ASSUME NEW w, NEW q, u[p] = ListMark, Q[ElementsFrom(p + 1)] = Ok(w, q)
        PROVE  Q[c] = Ok(List(w), q)
    <2> DEFINE e == Q[ElementsFrom(p + 1)]
    <2>1. ~ Failed(e) /\ e.value = w /\ e.pos = q
      BY <1>4 DEF Ok, Failed
    <2> HIDE DEF e
    <2> QED
      BY <1>3, <1>4, <2>1 DEF parse_list, Try, e
  <1>5. ASSUME NEW m, NEW q, u[p] = DictionaryMark, Q[ItemsFrom(p + 1, <<>>)] = Ok(m, q)
        PROVE  Q[c] = Ok(Dictionary(m), q)
    <2> DEFINE e == Q[ItemsFrom(p + 1, <<>>)]
    <2>1. ~ Failed(e) /\ e.value = m /\ e.pos = q
      BY <1>5 DEF Ok, Failed
    <2> HIDE DEF e
    <2> QED
      BY <1>3, <1>5, <2>1 DEF parse_dictionary, Try, e
  <1> QED
    BY <1>3, <1>4, <1>5 DEF c

-----------------------------------------------------------------------------
(* The document is written again, call by call.                             *)

ReadInParts(s, a, b, c) ==
    /\ SubSeq(s, a, c - 1) = SubSeq(s, a, b - 1) \o SubSeq(s, b, c - 1)
    /\ SubSeq(s, a, b - 1) \in Seq(Byte) /\ SubSeq(s, b, c - 1) \in Seq(Byte)

\* A part of the document is two parts, one after the other.
LEMMA Slices ==
    ASSUME NEW s \in Seq(Byte), NEW a \in Nat \ {0}, NEW b \in Nat, NEW c \in Nat,
           a <= b, b <= c, c <= Len(s) + 1
    PROVE  ReadInParts(s, a, b, c)
  <1> DEFINE i == b - 1
             j == c - 1
  <1>1. /\ i \in Int /\ j \in Int /\ a \in Int /\ i + 1 = b
        /\ i <= Len(s) /\ j <= Len(s) /\ a <= i + 1 /\ i <= j /\ Len(s) \in Nat
    OBVIOUS
  <1> HIDE DEF i, j
  <1>2. \A k \in a .. j : s[k] \in Byte
    BY <1>1, ElementOfSeq
  <1>3. \A k \in a .. i : s[k] \in Byte
    BY <1>1, <1>2
  <1>4. SubSeq(s, a, i) \in Seq(Byte) /\ SubSeq(s, i + 1, j) \in Seq(Byte)
    <2>1. SubSeq(s, a, i) \in Seq(Byte)
      BY <1>1, <1>3, SubSeqProperties
    <2>2. \A k \in i + 1 .. j : s[k] \in Byte
      BY <1>1, <1>2
    <2>3. SubSeq(s, i + 1, j) \in Seq(Byte)
      BY <1>1, <2>2, SubSeqProperties
    <2> QED
      BY <2>1, <2>3
  <1>5. SubSeq(s, a, i) \o SubSeq(s, i + 1, j) = SubSeq(s, a, j)
    BY <1>1, ConcatAdjacentSubSeq
  <1> QED
    BY <1>1, <1>4, <1>5 DEF ReadInParts, i, j

\* A part of one byte.
LEMMA SliceOfOne ==
    ASSUME NEW s \in Seq(Byte), NEW a \in Nat \ {0}, a <= Len(s), NEW b, b = a + 1
    PROVE  SubSeq(s, a, b - 1) = <<s[a]>> /\ s[a] \in Byte
  <1>1. b - 1 = a /\ s[a] \in Byte
    BY ElementOfSeq
  <1>2. /\ SubSeq(s, a, a) \in Seq(Byte) /\ Len(SubSeq(s, a, a)) = 1
        /\ SubSeq(s, a, a)[1] = s[a]
    <2>1. \A k \in a .. a : s[k] \in Byte
      BY <1>1
    <2>2. /\ SubSeq(s, a, a) \in Seq(Byte) /\ Len(SubSeq(s, a, a)) = IF a <= a THEN a - a + 1 ELSE 0
          /\ \A k \in 1 .. a - a + 1 : SubSeq(s, a, a)[k] = s[a + k - 1]
      BY <2>1, SubSeqProperties
    <2>3. a <= a /\ a - a + 1 = 1 /\ 1 \in 1 .. a - a + 1 /\ a + 1 - 1 = a
      OBVIOUS
    <2> QED
      BY <2>2, <2>3
  <1>3. SubSeq(s, a, a) = <<s[a]>>
    BY <1>2, SingleElement
  <1> QED
    BY <1>1, <1>3

\* Two parts that follow each other can be rewritten one by one.
LEMMA ShrinksTogether ==
    ASSUME NEW s \in Seq(Byte), NEW a \in Nat \ {0}, NEW b \in Nat, NEW c \in Nat,
           a <= b, b <= c, c <= Len(s) + 1, NEW x \in Seq(Byte), NEW y \in Seq(Byte),
           Shrinks(SubSeq(s, a, b - 1), x), Shrinks(SubSeq(s, b, c - 1), y)
    PROVE  Shrinks(SubSeq(s, a, c - 1), x \o y)
  <1>1. ReadInParts(s, a, b, c)
    BY Slices
  <1> DEFINE A == SubSeq(s, a, b - 1)
             B == SubSeq(s, b, c - 1)
  <1>2. A \in Seq(Byte) /\ B \in Seq(Byte) /\ SubSeq(s, a, c - 1) = A \o B
    BY <1>1 DEF ReadInParts
  <1>3. Shrinks(A, x) /\ Shrinks(B, y)
    OBVIOUS
  <1> HIDE DEF A, B
  <1>4. Shrinks(A \o B, x \o y)
    BY <1>2, <1>3, ShrinksByPart
  <1> QED
    BY <1>2, <1>4

\* An element of D is written before the elements w.
ElementsJoin(E, D, w) ==
    /\ ElementsWritten(E, w) \in Seq(Byte) /\ ElementsWritten(E, <<>>) = <<>>
    /\ \A v \in D : ElementsWritten(E, <<v>> \o w) = E[v] \o ElementsWritten(E, w)

\* What is written for a list begins with what is written for its first element.
LEMMA ElementsInBytes ==
    ASSUME NEW D, NEW E, \A x \in D : E[x] \in Seq(Byte), NEW w \in Seq(D)
    PROVE  ElementsJoin(E, D, w)
  <1> DEFINE ss == [k \in DOMAIN w |-> E[w[k]]]
  <1>1. DOMAIN w = 1 .. Len(w) /\ Len(w) \in Nat /\ \A k \in 1 .. Len(w) : w[k] \in D
    OBVIOUS
  <1>2. ss \in Seq(Seq(Byte)) /\ Len(ss) = Len(w)
    BY <1>1
  <1>3. ElementsWritten(E, w) = FlattenSeq(ss)
    BY DEF ElementsWritten
  <1>4. ASSUME NEW v \in D PROVE ElementsWritten(E, <<v>> \o w) = E[v] \o ElementsWritten(E, w)
    <2> DEFINE vw == <<v>> \o w
               tt == [k \in DOMAIN vw |-> E[vw[k]]]
    <2>1. /\ DOMAIN vw = 1 .. 1 + Len(w) /\ vw \in Seq(D) /\ vw[1] = v
          /\ \A k \in 1 .. Len(w) : vw[k + 1] = w[k]
      BY <1>1
    <2>2. E[v] \in Seq(Byte)
      OBVIOUS
    <2> HIDE DEF vw
    <2>3. <<E[v]>> \o ss \in Seq(Seq(Byte)) /\ Len(<<E[v]>> \o ss) = 1 + Len(w)
      BY <1>2, <2>2
    <2>4. tt \in Seq(Seq(Byte)) /\ Len(tt) = 1 + Len(w)
      <3>1. \A k \in 1 .. 1 + Len(w) : E[vw[k]] \in Seq(Byte)
        BY <2>1
      <3> QED
        BY <1>1, <2>1, <3>1
    <2>5. ASSUME NEW k \in 1 .. 1 + Len(w) PROVE tt[k] = (<<E[v]>> \o ss)[k]
      <3>1. tt[k] = E[vw[k]]
        BY <2>1
      <3> HIDE DEF tt
      <3>2. (<<E[v]>> \o ss)[k] = IF k = 1 THEN E[v] ELSE ss[k - 1]
        <4> HIDE DEF ss
        <4> QED
          BY <1>1, <1>2, <2>2
      <3>3. CASE k = 1
        BY <2>1, <3>1, <3>2, <3>3
      <3>4. CASE k # 1
        <4>1. k - 1 \in 1 .. Len(w) /\ (k - 1) + 1 = k
          BY <1>1, <3>4
        <4>2. ss[k - 1] = E[w[k - 1]] /\ vw[k] = w[k - 1]
          BY <1>1, <2>1, <4>1
        <4> QED
          BY <3>1, <3>2, <3>4, <4>2
      <3> QED
        BY <3>3, <3>4
    <2> HIDE DEF tt, ss
    <2>6. tt = <<E[v]>> \o ss
      BY <2>3, <2>4, <2>5, SeqEqual
    <2>7. ElementsWritten(E, vw) = FlattenSeq(tt)
      BY DEF ElementsWritten, tt
    <2>8. FlattenSeq(<<E[v]>> \o ss) = E[v] \o FlattenSeq(ss)
      BY <1>2, <2>2, FlattenCons
    <2> QED
      BY <1>3, <2>6, <2>7, <2>8 DEF vw
  <1>5. ElementsWritten(E, <<>>) = <<>>
    <2>1. [k \in DOMAIN <<>> |-> E[<<>>[k]]] = <<>>
      OBVIOUS
    <2> QED
      BY <2>1, FlattenEmpty, Zenon DEF ElementsWritten
  <1> HIDE DEF ss
  <1>6. FlattenSeq(ss) \in Seq(Byte)
    BY <1>2, FlattenType
  <1> QED
    BY <1>3, <1>4, <1>5, <1>6 DEF ElementsJoin

\* A key and its value are written before the items m.
ItemsJoin(E, D, m) ==
    /\ ItemsWritten(E, m) \in Seq(Byte) /\ ItemsWritten(E, <<>>) = <<>>
    /\ \A key \in Seq(Byte), v \in D :
          ItemsWritten(E, <<[key |-> key, value |-> v]>> \o m) =
              (EncodeBytes(key) \o E[v]) \o ItemsWritten(E, m)

\* What is written for a dictionary begins with its first key and that key's value.
LEMMA ItemsInBytes ==
    ASSUME NEW D, NEW E, \A x \in D : E[x] \in Seq(Byte), NEW m \in Seq(Pairs(D))
    PROVE  ItemsJoin(E, D, m)
  <1> DEFINE F == [x \in Pairs(D) |-> EncodeBytes(x.key) \o E[x.value]]
  <1>1. ASSUME NEW x \in Pairs(D) PROVE F[x] = EncodeBytes(x.key) \o E[x.value] /\ F[x] \in Seq(Byte)
    <2>1. x.key \in Seq(Byte) /\ x.value \in D
      BY <1>1 DEF Pairs
    <2>2. EncodeBytes(x.key) \in Seq(Byte) /\ E[x.value] \in Seq(Byte)
      BY <2>1, EncodedBytes
    <2>3. F[x] = EncodeBytes(x.key) \o E[x.value]
      OBVIOUS
    <2> HIDE DEF F
    <2> QED
      BY <2>2, <2>3
  <1> HIDE DEF F
  <1>2. ASSUME NEW w \in Seq(Pairs(D)) PROVE ItemsWritten(E, w) = ElementsWritten(F, w)
    <2>1. \A k \in DOMAIN w : w[k] \in Pairs(D)
      OBVIOUS
    <2>2. \A k \in DOMAIN w : EncodeBytes(w[k].key) \o E[w[k].value] = F[w[k]]
      BY <1>1, <2>1
    <2>3. [k \in DOMAIN w |-> EncodeBytes(w[k].key) \o E[w[k].value]] = [k \in DOMAIN w |-> F[w[k]]]
      BY <2>2, Zenon
    <2> QED
      BY <2>3, Zenon DEF ItemsWritten, ElementsWritten
  <1>3. \A x \in Pairs(D) : F[x] \in Seq(Byte)
    BY <1>1
  <1>4. /\ ElementsWritten(F, m) \in Seq(Byte) /\ ElementsWritten(F, <<>>) = <<>>
        /\ \A x \in Pairs(D) : ElementsWritten(F, <<x>> \o m) = F[x] \o ElementsWritten(F, m)
    <2>1. ElementsJoin(F, Pairs(D), m)
      BY <1>3, ElementsInBytes
    <2> QED
      BY <2>1, Zenon DEF ElementsJoin
  <1>5. <<>> \in Seq(Pairs(D)) /\ \A x \in Pairs(D) : <<x>> \o m \in Seq(Pairs(D))
    OBVIOUS
  <1>6. ASSUME NEW key \in Seq(Byte), NEW v \in D
        PROVE  ItemsWritten(E, <<[key |-> key, value |-> v]>> \o m) =
                   (EncodeBytes(key) \o E[v]) \o ItemsWritten(E, m)
    <2> DEFINE x == [key |-> key, value |-> v]
    <2>1. x \in Pairs(D) /\ x.key = key /\ x.value = v
      BY DEF Pairs
    <2> HIDE DEF x
    <2>2. ItemsWritten(E, <<x>> \o m) = F[x] \o ElementsWritten(F, m)
      BY <1>2, <1>4, <1>5, <2>1
    <2>3. F[x] = EncodeBytes(key) \o E[v]
      BY <1>1, <2>1
    <2>4. ItemsWritten(E, <<x>> \o m) = (EncodeBytes(key) \o E[v]) \o ItemsWritten(E, m)
      BY <1>2, <2>2, <2>3
    <2> QED
      BY <2>4 DEF x
  <1> QED
    BY <1>2, <1>4, <1>5, <1>6 DEF ItemsJoin

\* What is written for what a call has read, with the end mark of a list or dictionary.
Written(E, c, v) ==
    CASE c.parse = "value" -> E[v]
      [] c.parse = "list" -> ElementsWritten(E, v) \o <<EndMark>>
      [] c.parse = "dictionary" -> ItemsWritten(E, v) \o <<EndMark>>

\* The call c, made at p.
Moved(c, p) == [parse |-> c.parse, pos |-> p, last |-> c.last]

\* Wherever the bytes e stand, c reads the value v from them.
ReadsBack(c, v, e) ==
    \A u \in Seq(Byte), p \in Nat \ {0} :
        Stands(u, p, e) => Parser(u)[Moved(c, p)] = Ok(v, p + Len(e))

\* What was read by c is written as bytes that read back as the same value.
Rewritten(s, P, E, c) ==
    LET v == P[c].value
        e == Written(E, c, v)
    IN  /\ e \in Seq(Byte)
        /\ P[c].pos <= Len(s) + 1
        /\ Shrinks(SubSeq(s, c.pos, P[c].pos - 1), e)
        /\ c.parse = "value" => Len(e) > 0 /\ e[1] # EndMark
        /\ ReadsBack(c, v, e)

\* The last key matters only to the calls of a dictionary.
IgnoresLast(P, c, p) ==
    /\ c.parse = "value" => P[c] = P[ValueAt(c.pos)] /\ P[Moved(c, p)] = P[ValueAt(p)]
    /\ c.parse = "list" => P[Moved(c, p)] = P[ElementsFrom(p)]
    /\ c.parse = "dictionary" => Moved(c, p) = ItemsFrom(p, c.last)
    /\ Moved(c, p) \in Calls /\ Moved(c, p).pos = p
    /\ Moved(c, p).parse = c.parse /\ Moved(c, p).last = c.last

\* A call for a value or in a list is the same whatever last key it carries.
LEMMA LastIsIgnored ==
    ASSUME NEW s, NEW P, Answers(s, P), NEW c \in Calls, NEW p \in Nat \ {0}
    PROVE  IgnoresLast(P, c, p)
  <1> DEFINE d == Moved(c, p)
  <1>1. d \in Calls /\ d.pos = p /\ d.parse = c.parse /\ d.last = c.last
    BY DEF Moved, Calls
  <1>2. c.pos \in Nat \ {0}
    BY CallForms
  <1>3. \A a, b \in Calls : a.parse # "dictionary" /\ a.parse = b.parse /\ a.pos = b.pos => P[a] = P[b]
    <2> SUFFICES ASSUME NEW a \in Calls, NEW b \in Calls, a.parse # "dictionary", a.parse = b.parse,
                        a.pos = b.pos
                 PROVE  Step(s, P, a) = Step(s, P, b)
      BY DEF Answers
    <2>1. a.parse = "value" \/ a.parse = "list"
      BY CallForms
    <2> QED
      BY <2>1 DEF Step
  <1>4. c.parse = "dictionary" => Moved(c, p) = ItemsFrom(p, c.last)
    BY DEF Moved, ItemsFrom
  <1> HIDE DEF d
  <1>5. c.parse = "value" => P[c] = P[ValueAt(c.pos)] /\ P[d] = P[ValueAt(p)]
    BY <1>1, <1>2, <1>3, CallTypes
  <1>6. c.parse = "list" => P[d] = P[ElementsFrom(p)]
    BY <1>1, <1>3, CallTypes
  <1> QED
    BY <1>1, <1>4, <1>5, <1>6 DEF IgnoresLast, d

\* The first byte of what stands somewhere.
LEMMA FirstStands ==
    ASSUME NEW u \in Seq(Byte), NEW p \in Nat \ {0}, NEW x \in Seq(Byte), Len(x) > 0, Stands(u, p, x)
    PROVE  Available(u, p) /\ u[p] = x[1]
  <1> DEFINE n == Len(x)
  <1>1. n \in Nat /\ n > 0 /\ Len(u) \in Nat /\ p + n <= Len(u) + 1 /\ \A k \in 1 .. n : u[p + k - 1] = x[k]
    BY DEF Stands
  <1> HIDE DEF n
  <1>2. 1 \in 1 .. n /\ p + 1 - 1 = p /\ p <= Len(u)
    BY <1>1
  <1> QED
    BY <1>1, <1>2 DEF Available

\* What is read with the end mark alone.
LEMMA EndRewritten ==
    ASSUME NEW s \in Seq(Byte), NEW P, NEW E, NEW c \in Calls, c.parse # "value",
           Available(s, c.pos), s[c.pos] = EndMark, P[c] = Ok(<<>>, c.pos + 1)
    PROVE  Rewritten(s, P, E, c)
  <1> DEFINE pos == c.pos
             e == <<EndMark>>
  <1>1. /\ pos \in Nat \ {0} /\ pos <= Len(s) /\ s[pos] = EndMark /\ P[c].pos = pos + 1
        /\ P[c].value = <<>> /\ EndMark \in Byte
    BY CallForms DEF Available, Ok, EndMark, Byte
  <1> HIDE DEF pos
  <1>2. e \in Seq(Byte) /\ <<>> \o e = e /\ Len(e) = 1
    BY <1>1
  <1> HIDE DEF e
  <1>3. Written(E, c, <<>>) = e
    <2>1. ElementsWritten(E, <<>>) = <<>> /\ ItemsWritten(E, <<>>) = <<>>
      <3>1. <<>> \in Seq({}) /\ <<>> \in Seq(Pairs({}))
        OBVIOUS
      <3> QED
        <4>1. ElementsJoin(E, {}, <<>>) /\ ItemsJoin(E, {}, <<>>)
          BY <3>1, ElementsInBytes, ItemsInBytes
        <4> QED
          BY <4>1, Zenon DEF ElementsJoin, ItemsJoin
    <2>2. CASE c.parse = "list"
      BY <1>2, <2>1, <2>2 DEF Written, e
    <2>3. CASE c.parse = "dictionary"
      BY <1>2, <2>1, <2>3 DEF Written, e
    <2> QED
      BY <2>2, <2>3, CallForms
  <1>4. Shrinks(SubSeq(s, pos, P[c].pos - 1), e)
    <2>1. SubSeq(s, pos, P[c].pos - 1) = e
      <3> DEFINE b == P[c].pos
      <3>1. b = pos + 1
        BY <1>1
      <3> HIDE DEF b
      <3> QED
        BY <1>1, <3>1, SliceOfOne DEF e, b
    <2> QED
      BY <1>2, <2>1, ShrinksToItself
  <1>5. ReadsBack(c, <<>>, e)
    <2> SUFFICES ASSUME NEW u \in Seq(Byte), NEW p \in Nat \ {0}, Stands(u, p, e)
                 PROVE  Parser(u)[Moved(c, p)] = Ok(<<>>, p + Len(e))
      BY DEF ReadsBack
    <2>1. Answers(u, Parser(u))
      BY ParserAnswers
    <2>2. Moved(c, p) \in Calls /\ Moved(c, p).pos = p /\ Moved(c, p).parse # "value"
      <3>1. IgnoresLast(Parser(u), c, p)
        BY <2>1, LastIsIgnored
      <3> QED
        BY <3>1 DEF IgnoresLast
    <2> DEFINE a == Moved(c, p)
    <2> HIDE DEF a
    <2>3. Parser(u)[a] = Ok(<<>>, p + 1)
      BY <2>1, <2>2, EndAnswered DEF e, a
    <2> QED
      BY <1>2, <2>3 DEF a
  <1> QED
    BY <1>1, <1>2, <1>3, <1>4, <1>5 DEF Rewritten, pos

\* An element and the elements after it are rewritten as the list they are.
LEMMA ElementRewritten ==
    ASSUME NEW s \in Seq(Byte), NEW P, NEW E, NEW c \in Calls, c.parse = "list",
           NEW d, NEW e, ElementsCalls(s, P, c, d, e),
           Rewritten(s, P, E, d), Rewritten(s, P, E, e),
           NEW D, \A x \in D : E[x] \in Seq(Byte), P[d].value \in D, P[e].value \in Seq(D)
    PROVE  Rewritten(s, P, E, c)
  <1> DEFINE v == P[d].value
             w == P[e].value
             x == E[v]
             y == ElementsWritten(E, w)
             z == y \o <<EndMark>>
  <1>1. /\ c.pos \in Nat \ {0} /\ d \in Calls /\ e \in Calls
        /\ d.parse = "value" /\ d.pos = c.pos /\ e.parse = "list" /\ e.pos = P[d].pos
        /\ P[d].pos \in Nat /\ P[d].pos > c.pos /\ P[e].pos \in Nat /\ P[e].pos > P[d].pos
    BY CallForms DEF ElementsCalls, MadeFor, ValueAt, ElementsFrom
  <1>2. P[c] = Ok(<<v>> \o w, P[e].pos)
    BY DEF ElementsCalls
  <1>3. P[c].value = <<v>> \o w /\ P[c].pos = P[e].pos
    BY <1>2 DEF Ok
  <1>4. v \in D /\ w \in Seq(D) /\ x \in Seq(Byte)
    OBVIOUS
  <1>5. Written(E, d, v) = x /\ Written(E, e, w) = z
    BY <1>1 DEF Written
  <1> HIDE DEF v, w
  <1>6. y \in Seq(Byte) /\ ElementsWritten(E, <<v>> \o w) = x \o y
    <2>1. ElementsJoin(E, D, w)
      BY <1>4, ElementsInBytes
    <2> QED
      BY <1>4, <2>1, Zenon DEF ElementsJoin
  <1> HIDE DEF x, y
  <1>7. <<EndMark>> \in Seq(Byte) /\ z \in Seq(Byte)
    <2>1. EndMark \in Byte
      BY DEF EndMark, Byte
    <2> QED
      BY <1>6, <2>1
  <1>8. Written(E, c, <<v>> \o w) = x \o z /\ x \o z \in Seq(Byte)
    <2>1. Written(E, c, <<v>> \o w) = (x \o y) \o <<EndMark>>
      BY <1>6 DEF Written
    <2>2. Associates(Byte)
      BY Associative
    <2>3. (x \o y) \o <<EndMark>> = x \o z
      BY <1>4, <1>6, <1>7, <2>2, Zenon DEF Associates
    <2> HIDE DEF z
    <2>4. x \o z \in Seq(Byte)
      BY <1>4, <1>7
    <2> QED
      BY <2>1, <2>3, <2>4, Zenon
  <1> HIDE DEF z
  <1>9. /\ Shrinks(SubSeq(s, c.pos, P[d].pos - 1), x) /\ Len(x) > 0 /\ x[1] # EndMark
        /\ ReadsBack(d, v, x)
    BY <1>1, <1>5, Zenon DEF Rewritten, v
  <1>10. /\ Shrinks(SubSeq(s, P[d].pos, P[e].pos - 1), z) /\ P[e].pos <= Len(s) + 1
         /\ ReadsBack(e, w, z)
    BY <1>1, <1>5, Zenon DEF Rewritten, w
  <1>11. Shrinks(SubSeq(s, c.pos, P[c].pos - 1), x \o z)
    <2> DEFINE a == c.pos
               b == P[d].pos
               f == P[e].pos
    <2>1. a \in Nat \ {0} /\ b \in Nat /\ f \in Nat /\ a <= b /\ b <= f /\ f <= Len(s) + 1
      BY <1>1, <1>10
    <2>2. Shrinks(SubSeq(s, a, b - 1), x) /\ Shrinks(SubSeq(s, b, f - 1), z)
      BY <1>9, <1>10
    <2> HIDE DEF a, b, f
    <2>3. Shrinks(SubSeq(s, a, f - 1), x \o z)
      BY <1>4, <1>7, <2>1, <2>2, ShrinksTogether
    <2> QED
      BY <1>3, <2>3 DEF a, f
  <1>12. ReadsBack(c, <<v>> \o w, x \o z)
    <2> SUFFICES ASSUME NEW u \in Seq(Byte), NEW p \in Nat \ {0}, Stands(u, p, x \o z)
                 PROVE  Parser(u)[Moved(c, p)] = Ok(<<v>> \o w, p + Len(x \o z))
      BY DEF ReadsBack
    <2> DEFINE Q == Parser(u)
               q == p + Len(x)
               a == Moved(c, p)
    <2>1. BothStand(u, p, x, z)
      BY <1>4, <1>7, StandsByPart
    <2>2. Stands(u, p, x) /\ Stands(u, q, z) /\ q \in Nat \ {0} /\ Len(x \o z) = Len(x) + Len(z)
      BY <2>1 DEF BothStand
    <2>3. Available(u, p) /\ u[p] # EndMark
      BY <1>4, <1>9, <2>2, FirstStands
    <2> HIDE DEF q
    <2>4. Q[Moved(d, p)] = Ok(v, q) /\ Q[Moved(e, q)] = Ok(w, q + Len(z))
      BY <1>9, <1>10, <2>2 DEF ReadsBack, q
    <2>5. Answers(u, Q)
      BY ParserAnswers
    <2> HIDE DEF Q
    <2>6. Q[ValueAt(p)] = Ok(v, q)
      <3>1. IgnoresLast(Q, d, p)
        BY <1>1, <2>5, LastIsIgnored
      <3> QED
        BY <1>1, <2>4, <3>1, Zenon DEF IgnoresLast
    <2>7. Q[ElementsFrom(q)] = Ok(w, q + Len(z))
      <3>1. IgnoresLast(Q, e, q)
        BY <1>1, <2>2, <2>5, LastIsIgnored
      <3> QED
        BY <1>1, <2>4, <3>1, Zenon DEF IgnoresLast
    <2>8. a \in Calls /\ a.pos = p /\ a.parse = "list"
      <3>1. IgnoresLast(Q, c, p)
        BY <2>5, LastIsIgnored
      <3> QED
        BY <3>1, Zenon DEF IgnoresLast
    <2> HIDE DEF a
    <2>9. Q[a] = Ok(<<v>> \o w, q + Len(z))
      BY <2>3, <2>5, <2>6, <2>7, <2>8, ElementAnswered
    <2>10. q + Len(z) = p + Len(x \o z)
      <3>1. Len(x) \in Nat /\ Len(z) \in Nat
        BY <1>4, <1>7
      <3> QED
        BY <2>2, <3>1 DEF q
    <2> QED
      BY <2>9, <2>10 DEF Q, a
  <1> QED
    BY <1>1, <1>3, <1>8, <1>10, <1>11, <1>12 DEF Rewritten

\* A string is rewritten, without the leading zeros of its length.
LEMMA BytesRewritten ==
    ASSUME NEW s \in Seq(Byte), NEW pos \in Nat \ {0}, NEW next, StringAt(s, pos, next),
           NEW end, end = next + NumberAt(s, pos, next) + 1
    PROVE  /\ Shrinks(SubSeq(s, pos, end - 1), EncodeBytes(BytesOf(s, pos, next)))
           /\ Len(BytesOf(s, pos, next)) <= MaxInt
  <1> DEFINE n == NumberAt(s, pos, next)
             b == BytesOf(s, pos, next)
             ds == DigitsOf(n)
             A == SubSeq(s, pos, next - 1)
             t == <<Colon>> \o b
             read == SubSeq(s, pos, end - 1)
  <1>1. /\ next \in Nat /\ next > pos /\ n \in Nat /\ b \in Seq(Byte) /\ Len(b) = n
        /\ next + n <= Len(s) /\ n <= MaxInt /\ s[next] = Colon
    BY StringProperties DEF StringAt
  <1>2. A \in Seq(Digits) /\ Len(A) = next - pos
    BY DigitsBetween DEF StringAt
  <1>3. n = Number(A) /\ b = SubSeq(s, next + 1, next + n)
    BY DEF NumberAt, BytesOf
  <1> HIDE DEF n, b
  <1>4. /\ next \in Nat \ {0} /\ next + 1 \in Nat /\ end \in Nat /\ next <= Len(s)
        /\ pos <= next /\ next <= next + 1 /\ next + 1 <= end /\ next <= end /\ end <= Len(s) + 1
        /\ end = next + n + 1
    BY <1>1 DEF n
  <1>5. read = A \o SubSeq(s, next, end - 1)
    <2>1. ReadInParts(s, pos, next, end)
      BY <1>1, <1>4, Slices
    <2> QED
      BY <2>1 DEF ReadInParts
  <1>6. SubSeq(s, next, end - 1) = t
    <2> DEFINE m == next + 1
    <2>1. m \in Nat /\ m = next + 1
      BY <1>4
    <2>2. SubSeq(s, m, end - 1) = b
      <3>1. end - 1 = next + n
        BY <1>1, <1>4
      <3> QED
        BY <1>3, <3>1
    <2> HIDE DEF m
    <2>3. ReadInParts(s, next, m, end)
      BY <1>4, <2>1, Slices
    <2>4. SubSeq(s, next, m - 1) = <<Colon>>
      BY <1>1, <1>4, <2>1, SliceOfOne
    <2> QED
      BY <2>2, <2>3, <2>4 DEF ReadInParts
  <1> HIDE DEF read
  <1>7. PICK zs \in Seq({Zero}) : A = zs \o ds
    <2>1. Len(A) > 0
      BY <1>1, <1>2
    <2> HIDE DEF A
    <2>2. \E zs \in Seq({Zero}) : A = zs \o DigitsOf(Number(A))
      BY <1>2, <2>1, ZerosLead
    <2> QED
      BY <1>3, <2>2
  <1>8. zs \in Seq(Byte)
    <2>1. {Zero} \subseteq Byte
      BY DEF Zero, Byte
    <2> QED
      BY <2>1, SeqMonotonic
  <1> HIDE DEF A, ds
  <1>9. EncodeBytes(b) = ds \o t /\ ds \in Seq(Byte) /\ t \in Seq(Byte) /\ EncodeBytes(b) \in Seq(Byte)
    BY <1>1, EncodedBytes DEF ds
  <1>10. Colon \in ToSet(EncodeBytes(b))
    <2>1. Colon \in Byte
      BY DEF Colon, Byte
    <2>2. t[1] = Colon /\ Len(t) \in Nat /\ Len(t) > 0
      BY <1>1, <2>1
    <2> HIDE DEF t
    <2>3. Len(ds) \in Nat /\ Len(ds \o t) = Len(ds) + Len(t)
      BY <1>9
    <2>4. Len(ds) + 1 \in 1 .. Len(ds \o t)
      BY <2>2, <2>3
    <2>5. (ds \o t)[Len(ds) + 1] = t[1]
      BY <1>9, <2>2
    <2>6. Len(ds) + 1 \in DOMAIN (ds \o t)
      BY <1>9, <2>4
    <2> QED
      BY <1>9, <2>2, <2>5, <2>6 DEF ToSet
  <1> HIDE DEF t
  <1>11. read = zs \o EncodeBytes(b)
    <2>1. Associates(Byte)
      BY Associative
    <2>2. (zs \o ds) \o t = zs \o (ds \o t)
      BY <1>8, <1>9, <2>1, Zenon DEF Associates
    <2> QED
      BY <1>5, <1>6, <1>7, <1>9, <2>2, Zenon
  <1>12. Shrinks(zs \o EncodeBytes(b), EncodeBytes(b))
    BY <1>9, <1>10, ShrinksByZeros
  <1>13. Len(b) <= MaxInt
    BY <1>1
  <1> QED
    BY <1>11, <1>12, <1>13, Zenon DEF read, b

\* A key, its value and the items after it are rewritten as the dictionary they are.
LEMMA ItemRewritten ==
    ASSUME NEW s \in Seq(Byte), NEW P, NEW E, NEW c \in Calls, c.parse = "dictionary",
           NEW next \in Nat, NEW d, NEW e, ItemsCalls(s, P, c, next, d, e),
           Rewritten(s, P, E, d), Rewritten(s, P, E, e),
           NEW D, \A x \in D : E[x] \in Seq(Byte), P[d].value \in D, P[e].value \in Seq(Pairs(D)),
           ItemRead(s, P, c, next, d, e)
    PROVE  Rewritten(s, P, E, c)
  <1> DEFINE key == BytesOf(s, c.pos, next)
             v == P[d].value
             m == P[e].value
             item == [key |-> key, value |-> v]
             k == EncodeBytes(key)
             x == E[v]
             y == ItemsWritten(E, m)
             z == y \o <<EndMark>>
             xz == x \o z
  <1>1. /\ StringAt(s, c.pos, next) /\ d = ValueAt(next + NumberAt(s, c.pos, next) + 1)
        /\ e = ItemsFrom(P[d].pos, <<key>>) /\ MadeFor(s, P, c, d) /\ MadeFor(s, P, c, e)
        /\ c.last # <<>> => Less(c.last[1], key)
        /\ P[c] = Ok(Insert(m, key, v), P[e].pos)
    BY Zenon DEF ItemsCalls
  <1>2. key \in Seq(Byte) /\ P[c] = Ok(<<item>> \o m, P[e].pos)
    BY Zenon DEF ItemRead
  <1>3. P[c].value = <<item>> \o m /\ P[c].pos = P[e].pos /\ Insert(m, key, v) = <<item>> \o m
    <2>1. P[c].value = <<item>> \o m /\ P[c].pos = P[e].pos
      BY <1>2 DEF Ok
    <2>2. P[c].value = Insert(m, key, v)
      BY <1>1 DEF Ok
    <2> QED
      BY <2>1, <2>2
  <1>4. /\ d.parse = "value" /\ d.pos = next + NumberAt(s, c.pos, next) + 1
        /\ e.parse = "dictionary" /\ e.pos = P[d].pos /\ e.last = <<key>>
    BY <1>1 DEF ValueAt, ItemsFrom
  <1>5. /\ c.pos \in Nat \ {0} /\ d \in Calls /\ e \in Calls /\ d.pos \in Nat /\ d.pos > c.pos
        /\ P[d].pos \in Nat /\ P[d].pos > d.pos /\ P[e].pos \in Nat /\ P[e].pos > P[d].pos
    <2>1. c.pos \in Nat \ {0}
      BY CallForms
    <2>2. d.pos \in Nat /\ d.pos > c.pos
      BY <1>1, <1>4, <2>1, StringProperties
    <2> QED
      BY <1>1, <1>4, <2>1, <2>2 DEF MadeFor
  <1>6. v \in D /\ m \in Seq(Pairs(D)) /\ x \in Seq(Byte) /\ k \in Seq(Byte)
    BY <1>2, EncodedBytes
  <1>7. Written(E, d, v) = x /\ Written(E, e, m) = z
    BY <1>4 DEF Written
  <1>8. Shrinks(SubSeq(s, c.pos, d.pos - 1), k) /\ Len(key) <= MaxInt
    BY <1>1, <1>4, <1>5, BytesRewritten
  <1> HIDE DEF key, v, m
  <1>9. y \in Seq(Byte) /\ ItemsWritten(E, <<item>> \o m) = (k \o x) \o y
    <2>1. ItemsJoin(E, D, m)
      BY <1>6, ItemsInBytes
    <2> QED
      BY <1>2, <1>6, <2>1, Zenon DEF ItemsJoin
  <1> HIDE DEF item, k, x, y
  <1>10. <<EndMark>> \in Seq(Byte) /\ z \in Seq(Byte)
    <2>1. EndMark \in Byte
      BY DEF EndMark, Byte
    <2> QED
      BY <1>9, <2>1
  <1>11. xz \in Seq(Byte) /\ k \o xz \in Seq(Byte)
    <2> HIDE DEF z
    <2>1. xz \in Seq(Byte)
      BY <1>6, <1>10
    <2> HIDE DEF xz
    <2> QED
      BY <1>6, <2>1
  <1>12. Written(E, c, <<item>> \o m) = k \o xz
    <2>1. Written(E, c, <<item>> \o m) = ((k \o x) \o y) \o <<EndMark>>
      BY <1>9 DEF Written
    <2>2. Associates(Byte) /\ k \o x \in Seq(Byte)
      BY <1>6, Associative
    <2>3. ((k \o x) \o y) \o <<EndMark>> = (k \o x) \o z
      BY <1>9, <1>10, <2>2, Zenon DEF Associates
    <2>4. (k \o x) \o z = k \o xz
      <3> HIDE DEF z
      <3>1. Associates(Byte) /\ k \in Seq(Byte) /\ x \in Seq(Byte) /\ z \in Seq(Byte)
        BY <1>6, <1>10, <2>2
      <3> QED
        BY <3>1, Zenon DEF Associates
    <2> QED
      BY <2>1, <2>3, <2>4, Zenon
  <1> HIDE DEF z
  <1>13. /\ Shrinks(SubSeq(s, d.pos, P[d].pos - 1), x) /\ ReadsBack(d, v, x)
    BY <1>7, Zenon DEF Rewritten, v
  <1>14. /\ Shrinks(SubSeq(s, P[d].pos, P[e].pos - 1), z) /\ P[e].pos <= Len(s) + 1
         /\ ReadsBack(e, m, z)
    BY <1>4, <1>7, Zenon DEF Rewritten, m
  <1>15. Shrinks(SubSeq(s, c.pos, P[c].pos - 1), k \o xz)
    <2> DEFINE a == c.pos
               f == d.pos
               g == P[d].pos
               h == P[e].pos
    <2>1. /\ a \in Nat \ {0} /\ f \in Nat \ {0} /\ g \in Nat /\ h \in Nat
          /\ a <= f /\ f <= g /\ g <= h /\ f <= h /\ h <= Len(s) + 1
      BY <1>5, <1>14
    <2>2. /\ Shrinks(SubSeq(s, a, f - 1), k) /\ Shrinks(SubSeq(s, f, g - 1), x)
          /\ Shrinks(SubSeq(s, g, h - 1), z)
      BY <1>8, <1>13, <1>14
    <2> HIDE DEF a, f, g, h
    <2>3. Shrinks(SubSeq(s, f, h - 1), xz)
      BY <1>6, <1>10, <2>1, <2>2, ShrinksTogether
    <2> HIDE DEF xz
    <2>4. Shrinks(SubSeq(s, a, h - 1), k \o xz)
      BY <1>6, <1>11, <2>1, <2>2, <2>3, ShrinksTogether
    <2> QED
      BY <1>3, <2>4 DEF a, h
  <1>16. ReadsBack(c, <<item>> \o m, k \o xz)
    <2> SUFFICES ASSUME NEW u \in Seq(Byte), NEW p \in Nat \ {0}, Stands(u, p, k \o xz)
                 PROVE  Parser(u)[Moved(c, p)] = Ok(<<item>> \o m, p + Len(k \o xz))
      BY DEF ReadsBack
    <2> DEFINE Q == Parser(u)
               q == p + Len(k)
               r == q + Len(x)
               a == Moved(c, p)
    <2>1. /\ Stands(u, p, k) /\ Stands(u, q, xz) /\ q \in Nat \ {0} /\ Len(k \o xz) = Len(k) + Len(xz)
      <3> HIDE DEF xz
      <3>1. BothStand(u, p, k, xz)
        BY <1>6, <1>11, StandsByPart
      <3> QED
        BY <3>1, Zenon DEF BothStand
    <2> HIDE DEF q
    <2>2. Stands(u, q, x) /\ Stands(u, r, z) /\ r \in Nat \ {0} /\ Len(xz) = Len(x) + Len(z)
      <3>1. BothStand(u, q, x, z)
        BY <1>6, <1>10, <2>1, StandsByPart
      <3> QED
        BY <3>1, Zenon DEF BothStand
    <2> HIDE DEF r
    <2>3. parse_string(u, p) = Ok(ByteString(key), q) /\ Available(u, p) /\ u[p] # EndMark
      <3>1. /\ parse_string(u, p) = Ok(ByteString(key), p + Len(EncodeBytes(key)))
            /\ u[p] \in Digits /\ Available(u, p)
        BY <1>2, <1>8, <2>1, StringStands DEF k
      <3>2. EndMark \notin Digits
        BY DEF EndMark, Digits
      <3> QED
        BY <3>1, <3>2 DEF k, q
    <2>4. Q[Moved(d, q)] = Ok(v, r) /\ Q[Moved(e, r)] = Ok(m, r + Len(z))
      BY <1>13, <1>14, <2>1, <2>2 DEF ReadsBack, r
    <2>5. Answers(u, Q)
      BY ParserAnswers
    <2> HIDE DEF Q
    <2>6. Q[ValueAt(q)] = Ok(v, r)
      <3>1. IgnoresLast(Q, d, q)
        BY <1>5, <2>1, <2>5, LastIsIgnored
      <3> QED
        BY <1>4, <2>4, <3>1, Zenon DEF IgnoresLast
    <2>7. Q[ItemsFrom(r, <<key>>)] = Ok(m, r + Len(z))
      <3>1. IgnoresLast(Q, e, r)
        BY <1>5, <2>2, <2>5, LastIsIgnored
      <3>2. Moved(e, r) = ItemsFrom(r, <<key>>)
        BY <1>4, <3>1, Zenon DEF IgnoresLast
      <3> QED
        BY <2>4, <3>2, Zenon
    <2>8. a \in Calls /\ a.pos = p /\ a.parse = "dictionary" /\ a.last = c.last
      <3>1. IgnoresLast(Q, c, p)
        BY <2>5, LastIsIgnored
      <3> QED
        BY <3>1, Zenon DEF IgnoresLast
    <2> HIDE DEF a
    <2>9. Q[a] = Ok(Insert(m, key, v), r + Len(z))
      <3>1. a.last # <<>> => Less(a.last[1], key)
        BY <1>1, <2>8
      <3> QED
        BY <1>2, <2>3, <2>5, <2>6, <2>7, <2>8, <3>1, ItemAnswered
    <2>10. r + Len(z) = p + Len(k \o xz)
      <3>1. Len(x) \in Nat /\ Len(z) \in Nat /\ Len(k) \in Nat
        BY <1>6, <1>10
      <3> HIDE DEF xz
      <3> QED
        BY <2>1, <2>2, <3>1 DEF q, r
    <2> QED
      BY <1>3, <2>9, <2>10, Zenon DEF Q, a
  <1> QED
    <2>1. k \o xz \in Seq(Byte) /\ P[c].pos <= Len(s) + 1 /\ c.parse # "value"
      BY <1>3, <1>11, <1>14
    <2> HIDE DEF xz
    <2> QED
      BY <1>3, <1>12, <1>15, <1>16, <2>1, Zenon DEF Rewritten

\* The value of a call is made from what the call d reads after the mark.
Wraps(c, value, mark, d, inner) ==
    \A u \in Seq(Byte), p \in Nat \ {0}, q \in Nat :
        Available(u, p) /\ u[p] = mark /\ Parser(u)[Moved(d, p + 1)] = Ok(inner, q)
            => Parser(u)[Moved(c, p)] = Ok(value, q)

\* A mark and what is within it are rewritten together.
LEMMA MarkRewritten ==
    ASSUME NEW s \in Seq(Byte), NEW P, NEW E, NEW c \in Calls, c.parse = "value",
           Available(s, c.pos), NEW mark \in Byte, s[c.pos] = mark, mark # EndMark,
           NEW d, MadeFor(s, P, c, d), d.pos = c.pos + 1, P[c].pos = P[d].pos,
           Rewritten(s, P, E, d),
           E[P[c].value] = <<mark>> \o Written(E, d, P[d].value),
           Wraps(c, P[c].value, mark, d, P[d].value)
    PROVE  Rewritten(s, P, E, c)
  <1> DEFINE v == P[c].value
             w == P[d].value
             z == Written(E, d, w)
             e == <<mark>> \o z
  <1>1. /\ c.pos \in Nat \ {0} /\ c.pos <= Len(s) /\ d.pos \in Nat \ {0}
        /\ P[d].pos \in Nat /\ P[d].pos > d.pos
    BY CallForms DEF MadeFor, Available
  <1>2. /\ z \in Seq(Byte) /\ P[d].pos <= Len(s) + 1
        /\ Shrinks(SubSeq(s, d.pos, P[d].pos - 1), z) /\ ReadsBack(d, w, z)
    BY Zenon DEF Rewritten
  <1>3. Written(E, c, v) = e
    BY DEF Written
  <1>4. Wraps(c, v, mark, d, w)
    OBVIOUS
  <1> HIDE DEF v, w, z
  <1>5. <<mark>> \in Seq(Byte) /\ Len(<<mark>>) = 1 /\ e \in Seq(Byte) /\ Len(e) > 0 /\ e[1] = mark
    BY <1>2
  <1>6. Shrinks(SubSeq(s, c.pos, P[c].pos - 1), e)
    <2> DEFINE a == c.pos
               b == d.pos
               f == P[d].pos
    <2>1. /\ a \in Nat \ {0} /\ b \in Nat /\ f \in Nat /\ a <= b /\ b <= f /\ f <= Len(s) + 1
          /\ b = a + 1 /\ a <= Len(s)
      BY <1>1, <1>2
    <2>2. Shrinks(SubSeq(s, b, f - 1), z) /\ s[a] = mark
      BY <1>2
    <2> HIDE DEF a, b, f
    <2>3. Shrinks(SubSeq(s, a, b - 1), <<mark>>)
      <3>1. SubSeq(s, a, b - 1) = <<mark>>
        BY <2>1, <2>2, SliceOfOne
      <3> QED
        BY <1>5, <3>1, ShrinksToItself
    <2>4. Shrinks(SubSeq(s, a, f - 1), e)
      BY <1>2, <1>5, <2>1, <2>2, <2>3, ShrinksTogether
    <2> QED
      BY <2>4 DEF a, f
  <1>7. ReadsBack(c, v, e)
    <2> SUFFICES ASSUME NEW u \in Seq(Byte), NEW p \in Nat \ {0}, Stands(u, p, e)
                 PROVE  Parser(u)[Moved(c, p)] = Ok(v, p + Len(e))
      BY DEF ReadsBack
    <2> DEFINE q == p + 1
    <2>1. BothStand(u, p, <<mark>>, z)
      BY <1>2, <1>5, StandsByPart
    <2>2. Stands(u, p, <<mark>>) /\ Stands(u, q, z) /\ q \in Nat \ {0} /\ Len(e) = 1 + Len(z)
      BY <1>5, <2>1, Zenon DEF BothStand
    <2>3. Available(u, p) /\ u[p] = mark
      BY <2>2, StandsAlone
    <2> HIDE DEF q
    <2>4. Parser(u)[Moved(d, q)] = Ok(w, q + Len(z))
      BY <1>2, <2>2 DEF ReadsBack
    <2>5. q + Len(z) \in Nat /\ q + Len(z) = p + Len(e)
      <3>1. Len(z) \in Nat
        BY <1>2
      <3> HIDE DEF e
      <3> QED
        BY <2>2, <3>1 DEF q
    <2> DEFINE r == q + Len(z)
    <2> HIDE DEF r
    <2>6. Parser(u)[Moved(c, p)] = Ok(v, r)
      <3>1. Parser(u)[Moved(d, p + 1)] = Ok(w, r) /\ r \in Nat
        BY <2>4, <2>5 DEF q, r
      <3> QED
        BY <1>4, <2>3, <3>1, Zenon DEF Wraps
    <2> QED
      BY <2>5, <2>6 DEF r
  <1> HIDE DEF e
  <1> QED
    <2>1. P[c].pos <= Len(s) + 1 /\ Len(e) > 0 /\ e[1] # EndMark
      BY <1>2, <1>5
    <2> QED
      BY <1>3, <1>5, <1>6, <1>7, <2>1, Zenon DEF Rewritten, v

\* A list is rewritten if its elements are ...
LEMMA ListRewritten ==
    ASSUME NEW s \in Seq(Byte), NEW P, NEW E, NEW c \in Calls, c.parse = "value",
           Available(s, c.pos), NEW d, ListCalls(s, P, c, d), Rewritten(s, P, E, d),
           NEW D, \A x \in D : E[x] \in Seq(Byte), P[d].value \in Seq(D),
           E[P[c].value] = EncodeValue(E, P[c].value)
    PROVE  Rewritten(s, P, E, c)
  <1> DEFINE w == P[d].value
             y == ElementsWritten(E, w)
  <1>1. /\ s[c.pos] = ListMark /\ MadeFor(s, P, c, d) /\ d = ElementsFrom(c.pos + 1)
        /\ d.parse = "list" /\ P[c] = Ok(List(w), P[d].pos)
    BY DEF ListCalls
  <1>2. P[c].value = List(w) /\ P[c].pos = P[d].pos
    BY <1>1 DEF Ok
  <1>3. d.pos = c.pos + 1 /\ d \in Calls /\ w \in Seq(D)
    BY <1>1 DEF ElementsFrom, MadeFor
  <1> HIDE DEF w
  <1>4. y \in Seq(Byte)
    BY <1>3, ElementsInBytes DEF ElementsJoin
  <1>5. ListMark \in Byte /\ ListMark # EndMark /\ EndMark \in Byte
    BY DEF ListMark, EndMark, Byte
  <1>6. E[List(w)] = <<ListMark>> \o Written(E, d, w)
    <2>1. E[List(w)] = (<<ListMark>> \o y) \o <<EndMark>>
      BY <1>2, EncodingsOf
    <2>2. Written(E, d, w) = y \o <<EndMark>>
      BY <1>1 DEF Written
    <2>3. <<ListMark>> \in Seq(Byte) /\ <<EndMark>> \in Seq(Byte) /\ Associates(Byte)
      BY <1>5, Associative
    <2> HIDE DEF y
    <2>4. (<<ListMark>> \o y) \o <<EndMark>> = <<ListMark>> \o (y \o <<EndMark>>)
      BY <1>4, <2>3, Zenon DEF Associates
    <2> QED
      BY <2>1, <2>2, <2>4, Zenon DEF y
  <1>7. Wraps(c, List(w), ListMark, d, w)
    <2> SUFFICES ASSUME NEW u \in Seq(Byte), NEW p \in Nat \ {0}, NEW q \in Nat,
                        Available(u, p), u[p] = ListMark, Parser(u)[Moved(d, p + 1)] = Ok(w, q)
                 PROVE  Parser(u)[Moved(c, p)] = Ok(List(w), q)
      BY DEF Wraps
    <2> DEFINE Q == Parser(u)
    <2>1. Answers(u, Q)
      BY ParserAnswers
    <2>2. Q[Moved(d, p + 1)] = Ok(w, q) /\ p + 1 \in Nat \ {0}
      OBVIOUS
    <2> HIDE DEF Q
    <2>3. IgnoresLast(Q, d, p + 1) /\ IgnoresLast(Q, c, p)
      BY <1>3, <2>1, <2>2, LastIsIgnored
    <2>4. Q[ElementsFrom(p + 1)] = Ok(w, q) /\ Q[Moved(c, p)] = Q[ValueAt(p)]
      BY <1>1, <2>2, <2>3, Zenon DEF IgnoresLast
    <2>5. Q[ValueAt(p)] = Ok(List(w), q)
      BY <2>1, <2>4, ValueAnswered
    <2> QED
      BY <2>4, <2>5 DEF Q
  <1> QED
    BY <1>1, <1>2, <1>3, <1>5, <1>6, <1>7, MarkRewritten DEF w

\* ... and a dictionary if its items are.
LEMMA DictionaryRewritten ==
    ASSUME NEW s \in Seq(Byte), NEW P, NEW E, NEW c \in Calls, c.parse = "value",
           Available(s, c.pos), NEW d, DictionaryCalls(s, P, c, d), Rewritten(s, P, E, d),
           NEW D, \A x \in D : E[x] \in Seq(Byte), P[d].value \in Seq(Pairs(D)),
           E[P[c].value] = EncodeValue(E, P[c].value)
    PROVE  Rewritten(s, P, E, c)
  <1> DEFINE m == P[d].value
             y == ItemsWritten(E, m)
  <1>1. /\ s[c.pos] = DictionaryMark /\ MadeFor(s, P, c, d) /\ d = ItemsFrom(c.pos + 1, <<>>)
        /\ d.parse = "dictionary" /\ d.last = <<>> /\ P[c] = Ok(Dictionary(m), P[d].pos)
    BY DEF DictionaryCalls
  <1>2. P[c].value = Dictionary(m) /\ P[c].pos = P[d].pos
    BY <1>1 DEF Ok
  <1>3. d.pos = c.pos + 1 /\ d \in Calls
    BY <1>1 DEF ItemsFrom, MadeFor
  <1>4. y \in Seq(Byte)
    <2>1. ItemsJoin(E, D, m)
      BY ItemsInBytes
    <2> QED
      BY <2>1, Zenon DEF ItemsJoin
  <1> HIDE DEF m
  <1>5. DictionaryMark \in Byte /\ DictionaryMark # EndMark /\ EndMark \in Byte
    BY DEF DictionaryMark, EndMark, Byte
  <1>6. E[Dictionary(m)] = <<DictionaryMark>> \o Written(E, d, m)
    <2>1. E[Dictionary(m)] = (<<DictionaryMark>> \o y) \o <<EndMark>>
      BY <1>2, EncodingsOf
    <2>2. Written(E, d, m) = y \o <<EndMark>>
      BY <1>1 DEF Written
    <2>3. <<DictionaryMark>> \in Seq(Byte) /\ <<EndMark>> \in Seq(Byte) /\ Associates(Byte)
      BY <1>5, Associative
    <2> HIDE DEF y
    <2>4. (<<DictionaryMark>> \o y) \o <<EndMark>> = <<DictionaryMark>> \o (y \o <<EndMark>>)
      BY <1>4, <2>3, Zenon DEF Associates
    <2> QED
      BY <2>1, <2>2, <2>4, Zenon DEF y
  <1>7. Wraps(c, Dictionary(m), DictionaryMark, d, m)
    <2> SUFFICES ASSUME NEW u \in Seq(Byte), NEW p \in Nat \ {0}, NEW q \in Nat,
                        Available(u, p), u[p] = DictionaryMark,
                        Parser(u)[Moved(d, p + 1)] = Ok(m, q)
                 PROVE  Parser(u)[Moved(c, p)] = Ok(Dictionary(m), q)
      BY DEF Wraps
    <2> DEFINE Q == Parser(u)
    <2>1. Answers(u, Q)
      BY ParserAnswers
    <2>2. Q[Moved(d, p + 1)] = Ok(m, q) /\ p + 1 \in Nat \ {0}
      OBVIOUS
    <2> HIDE DEF Q
    <2>3. IgnoresLast(Q, d, p + 1) /\ IgnoresLast(Q, c, p)
      BY <1>3, <2>1, <2>2, LastIsIgnored
    <2>4. Q[ItemsFrom(p + 1, <<>>)] = Ok(m, q) /\ Q[Moved(c, p)] = Q[ValueAt(p)]
      BY <1>1, <2>2, <2>3, Zenon DEF IgnoresLast
    <2>5. Q[ValueAt(p)] = Ok(Dictionary(m), q)
      BY <2>1, <2>4, ValueAnswered
    <2> QED
      BY <2>4, <2>5 DEF Q
  <1> QED
    BY <1>1, <1>2, <1>3, <1>5, <1>6, <1>7, MarkRewritten DEF m

\* An integer is rewritten to itself: parse_integer allows no leading zeros and no -0.
LEMMA IntegerRewritten ==
    ASSUME NEW s \in Seq(Byte), NEW P, NEW E, NEW c \in Calls, c.parse = "value",
           Available(s, c.pos), s[c.pos] = IntegerMark, NEW start \in Nat, NEW next \in Nat,
           IntegerAt(s, c.pos, start, next), P[c] = IntegerOf(s, c.pos, start, next),
           E[P[c].value] = EncodeValue(E, P[c].value)
    PROVE  Rewritten(s, P, E, c)
  <1> DEFINE pos == c.pos
             n == NumberAt(s, start, next)
             m == IF IsNegative(s, pos) THEN - n ELSE n
             A == SubSeq(s, start, next - 1)
             e == EncodedInteger(m)
             read == SubSeq(s, pos, P[c].pos - 1)
  <1>1. /\ pos \in Nat \ {0} /\ pos <= Len(s) /\ s[pos] = IntegerMark
        /\ start = IF IsNegative(s, pos) THEN pos + 2 ELSE pos + 1
        /\ DigitsAt(s, start, next) /\ s[next] = EndMark /\ (s[start] # Zero \/ next = start + 1)
        /\ n <= MaxInt /\ (IsNegative(s, pos) => n # 0)
    BY CallForms DEF Available, IntegerAt
  <1>2. start \in Nat \ {0} /\ start > pos /\ next > start /\ next <= Len(s)
    <2>1. start \in Nat \ {0} /\ start > pos
      BY <1>1
    <2>2. next \in start + 1 .. Len(s)
      <3>1. DigitsAt(s, start, next)
        BY <1>1
      <3> QED
        BY <3>1, Zenon DEF DigitsAt
    <2>3. Len(s) \in Nat
      OBVIOUS
    <2> QED
      BY <2>1, <2>2, <2>3
  <1>3. A \in Seq(Digits) /\ Len(A) = next - start /\ n \in Nat /\ n = Number(A)
    <2>1. DigitsAt(s, start, next)
      BY <1>1
    <2>2. A \in Seq(Digits) /\ Len(A) = next - start /\ n \in Nat
      BY <1>2, <2>1, DigitsBetween
    <2>3. n = Number(A)
      BY Zenon DEF NumberAt
    <2> QED
      BY <2>2, <2>3
  <1>4. P[c].value = Integer(m) /\ P[c].pos = next + 1
    BY DEF IntegerOf, Ok
  <1>5. A[1] # Zero \/ Len(A) = 1
    <2>1. CASE next = start + 1
      BY <1>2, <1>3, <2>1
    <2>2. CASE s[start] # Zero
      <3> DEFINE i == next - 1
      <3>1. i \in Nat /\ start <= i /\ i <= Len(s) /\ 1 \in 1 .. i - start + 1 /\ start + 1 - 1 = start
        BY <1>2
      <3> HIDE DEF i
      <3>2. \A k \in start .. i : s[k] \in Byte
        BY <1>2, <3>1, ElementOfSeq
      <3>3. SubSeq(s, start, i)[1] = s[start]
        <4>1. \A k \in 1 .. i - start + 1 : SubSeq(s, start, i)[k] = s[start + k - 1]
          BY <1>2, <3>1, <3>2, SubSeqProperties
        <4> QED
          BY <3>1, <4>1
      <3> QED
        BY <2>2, <3>3 DEF i
    <2> QED
      BY <1>1, <2>1, <2>2
  <1>6. A = DigitsOf(n)
    <2>1. Len(A) > 0
      BY <1>2, <1>3
    <2> HIDE DEF A, n
    <2> QED
      BY <1>3, <1>5, <2>1, NoZerosLead
  <1>7. m \in Int /\ m <= MaxInt /\ - m <= MaxInt /\ (m < 0 <=> IsNegative(s, pos))
        /\ n = IF m < 0 THEN - m ELSE m
    <2>1. MaxInt \in Nat
      BY BencodeAssumption
    <2>2. n \in Nat /\ n <= MaxInt
      BY <1>1, <1>3
    <2>3. IsNegative(s, pos) => n # 0
      BY <1>1
    <2> HIDE DEF n
    <2>4. CASE IsNegative(s, pos)
      BY <2>1, <2>2, <2>3, <2>4
    <2>5. CASE ~ IsNegative(s, pos)
      BY <2>1, <2>2, <2>5
    <2> QED
      BY <2>4, <2>5
  <1> HIDE DEF n, m
  <1>8. read = e
    <2> DEFINE end == next + 1
               B == SubSeq(s, start, next - 1) \o <<EndMark>>
    <2>1. /\ end \in Nat /\ start <= next /\ next <= end /\ start <= end /\ pos <= start
          /\ end <= Len(s) + 1 /\ end = next + 1 /\ next \in Nat \ {0}
      <3>1. pos \in Nat \ {0} /\ Len(s) \in Nat
        BY <1>1
      <3> HIDE DEF pos
      <3> QED
        BY <1>2, <3>1
    <2> HIDE DEF end
    <2>2. SubSeq(s, start, end - 1) = A \o <<EndMark>>
      <3>1. ReadInParts(s, start, next, end)
        BY <1>2, <2>1, Slices
      <3>2. SubSeq(s, next, end - 1) = <<EndMark>>
        <4>1. SubSeq(s, next, end - 1) = <<s[next]>>
          BY <1>2, <2>1, SliceOfOne
        <4> QED
          BY <1>1, <4>1
      <3> QED
        BY <3>1, <3>2 DEF ReadInParts
    <2>3. ReadInParts(s, pos, start, end)
      BY <1>1, <1>2, <2>1, Slices
    <2>4. SubSeq(s, pos, start - 1) = IF m < 0 THEN <<IntegerMark>> \o <<Minus>> ELSE <<IntegerMark>>
      <3> DEFINE f == pos + 1
      <3>1. f \in Nat \ {0} /\ f = pos + 1 /\ f <= Len(s) /\ pos <= f
        BY <1>1, <1>2
      <3> HIDE DEF f
      <3>2. SubSeq(s, pos, f - 1) = <<IntegerMark>>
        BY <1>1, <3>1, SliceOfOne
      <3>3. CASE ~ (m < 0)
        <4>1. start = f
          BY <1>1, <1>7, <3>1, <3>3
        <4> QED
          BY <3>2, <3>3, <4>1
      <3>4. CASE m < 0
        <4>1. start = f + 1 /\ s[f] = Minus /\ f <= start /\ start <= Len(s) + 1
          BY <1>1, <1>2, <1>7, <3>1, <3>4 DEF IsNegative
        <4>2. SubSeq(s, f, start - 1) = <<Minus>>
          BY <3>1, <4>1, SliceOfOne
        <4>3. ReadInParts(s, pos, f, start)
          BY <1>1, <3>1, <4>1, Slices
        <4> QED
          BY <3>2, <3>4, <4>2, <4>3 DEF ReadInParts
      <3> QED
        BY <3>3, <3>4
    <2>5. read = SubSeq(s, pos, start - 1) \o (A \o <<EndMark>>)
      BY <1>4, <2>1, <2>2, <2>3 DEF ReadInParts, end
    <2>6. /\ A \in Seq(Byte) /\ <<EndMark>> \in Seq(Byte) /\ <<IntegerMark>> \in Seq(Byte)
          /\ <<Minus>> \in Seq(Byte)
      <3>1. /\ A \in Seq(Digits) /\ Digits \subseteq Byte /\ EndMark \in Byte /\ IntegerMark \in Byte
            /\ Minus \in Byte
        BY <1>3 DEF Digits, Byte, EndMark, IntegerMark, Minus
      <3> QED
        BY <3>1, SeqMonotonic
    <2>7. Associates(Byte)
      BY Associative
    <2> HIDE DEF A, read
    <2>8. CASE ~ (m < 0)
      <3>1. e = (<<IntegerMark>> \o A) \o <<EndMark>>
        BY <1>6, <1>7, <2>8 DEF EncodedInteger
      <3>2. read = <<IntegerMark>> \o (A \o <<EndMark>>)
        BY <2>4, <2>5, <2>8
      <3>3. (<<IntegerMark>> \o A) \o <<EndMark>> = <<IntegerMark>> \o (A \o <<EndMark>>)
        BY <2>6, <2>7, Zenon DEF Associates
      <3> QED
        BY <3>1, <3>2, <3>3, Zenon
    <2>9. CASE m < 0
      <3> DEFINE i == <<IntegerMark>>
                 j == <<Minus>>
                 t == <<EndMark>>
      <3>1. e = (i \o (j \o A)) \o t
        BY <1>6, <1>7, <2>9 DEF EncodedInteger
      <3>2. read = (i \o j) \o (A \o t)
        BY <2>4, <2>5, <2>9
      <3> HIDE DEF i, j, t
      <3>3. i \in Seq(Byte) /\ j \in Seq(Byte) /\ t \in Seq(Byte) /\ A \in Seq(Byte)
        BY <2>6 DEF i, j, t
      <3>4. i \o j \in Seq(Byte)
        BY <3>3
      <3>5. i \o (j \o A) = (i \o j) \o A
        BY <2>7, <3>3, Zenon DEF Associates
      <3>6. ((i \o j) \o A) \o t = (i \o j) \o (A \o t)
        BY <2>7, <3>3, <3>4, Zenon DEF Associates
      <3> QED
        BY <3>1, <3>2, <3>5, <3>6, Zenon
    <2> QED
      BY <2>8, <2>9
  <1>9. Written(E, c, Integer(m)) = e
    <2>1. E[Integer(m)] = e
      BY <1>4, EncodingsOf DEF EncodedInteger
    <2> QED
      BY <2>1 DEF Written
  <1>10. e \in Seq(Byte) /\ Len(e) > 0
    BY <1>7, EncodedIntegers
  <1>11. Shrinks(read, e)
    BY <1>8, <1>10, ShrinksToItself
  <1>12. e[1] # EndMark
    <2>1. Stands(e, 1, e)
      <3> HIDE DEF e
      <3> QED
        BY <1>10 DEF Stands
    <2>2. e[1] = IntegerMark
      BY <1>7, <1>10, <2>1, IntegerStands
    <2> QED
      BY <2>2 DEF IntegerMark, EndMark
  <1>13. ReadsBack(c, Integer(m), e)
    <2> SUFFICES ASSUME NEW u \in Seq(Byte), NEW p \in Nat \ {0}, Stands(u, p, e)
                 PROVE  Parser(u)[Moved(c, p)] = Ok(Integer(m), p + Len(e))
      BY DEF ReadsBack
    <2> DEFINE Q == Parser(u)
    <2>1. Answers(u, Q)
      BY ParserAnswers
    <2> HIDE DEF Q
    <2>2. parse_integer(u, p) = Ok(Integer(m), p + Len(e)) /\ u[p] = IntegerMark /\ Available(u, p)
      BY <1>7, IntegerStands
    <2>3. Q[ValueAt(p)] = parse_integer(u, p)
      BY <2>1, <2>2, ValueAnswered
    <2>4. IgnoresLast(Q, c, p)
      BY <2>1, LastIsIgnored
    <2> QED
      BY <2>2, <2>3, <2>4, Zenon DEF IgnoresLast, Q
  <1> HIDE DEF e
  <1> QED
    <2>1. P[c].pos <= Len(s) + 1
      BY <1>2, <1>4
    <2> QED
      BY <1>4, <1>9, <1>10, <1>11, <1>12, <1>13, <2>1, Zenon DEF Rewritten, read, pos

\* A value that is a string is rewritten.
LEMMA StringRewritten ==
    ASSUME NEW s \in Seq(Byte), NEW P, NEW E, NEW c \in Calls, c.parse = "value",
           NEW next \in Nat, StringAt(s, c.pos, next), P[c] = StringOf(s, c.pos, next),
           E[P[c].value] = EncodeValue(E, P[c].value)
    PROVE  Rewritten(s, P, E, c)
  <1> DEFINE b == BytesOf(s, c.pos, next)
             end == next + NumberAt(s, c.pos, next) + 1
             e == EncodeBytes(b)
  <1>1. P[c].value = ByteString(b) /\ P[c].pos = end
    BY DEF StringOf, Ok
  <1>2. b \in Seq(Byte) /\ end <= Len(s) + 1 /\ c.pos \in Nat \ {0}
    <2>1. c.pos \in Nat \ {0}
      BY CallForms
    <2>2. /\ b \in Seq(Byte) /\ next \in Nat /\ NumberAt(s, c.pos, next) \in Nat
          /\ next + NumberAt(s, c.pos, next) <= Len(s)
      BY <2>1, StringProperties
    <2> QED
      BY <2>1, <2>2
  <1>3. Shrinks(SubSeq(s, c.pos, end - 1), e) /\ Len(b) <= MaxInt
    BY <1>2, BytesRewritten
  <1> HIDE DEF b, end
  <1>4. e \in Seq(Byte) /\ Len(e) > 0
    BY <1>2, EncodedBytes
  <1>5. Written(E, c, ByteString(b)) = e
    <2>1. E[ByteString(b)] = e
      BY <1>1, EncodingsOf
    <2> QED
      BY <2>1 DEF Written
  <1>6. e[1] # EndMark
    <2>1. Stands(e, 1, e)
      <3> HIDE DEF e
      <3> QED
        BY <1>4 DEF Stands
    <2>2. e[1] \in Digits
      BY <1>2, <1>3, <1>4, <2>1, StringStands
    <2> HIDE DEF e
    <2> QED
      BY <2>2 DEF Digits, EndMark
  <1>7. ReadsBack(c, ByteString(b), e)
    <2> SUFFICES ASSUME NEW u \in Seq(Byte), NEW p \in Nat \ {0}, Stands(u, p, e)
                 PROVE  Parser(u)[Moved(c, p)] = Ok(ByteString(b), p + Len(e))
      BY DEF ReadsBack
    <2> DEFINE Q == Parser(u)
    <2>1. Answers(u, Q)
      BY ParserAnswers
    <2> HIDE DEF Q
    <2>2. parse_string(u, p) = Ok(ByteString(b), p + Len(e)) /\ u[p] \in Digits /\ Available(u, p)
      BY <1>2, <1>3, StringStands
    <2>3. Q[ValueAt(p)] = parse_string(u, p)
      BY <2>1, <2>2, ValueAnswered
    <2>4. IgnoresLast(Q, c, p)
      BY <2>1, LastIsIgnored
    <2> QED
      BY <2>2, <2>3, <2>4, Zenon DEF IgnoresLast, Q
  <1> HIDE DEF e
  <1> QED
    BY <1>1, <1>2, <1>3, <1>4, <1>5, <1>6, <1>7, Zenon DEF Rewritten

\* E writes the values of the document s.
WritesAll(s, P, E) == \A v \in ReadBelow(s, P, 2 * Len(s) + 2) : E[v] = EncodeValue(E, v)

\* What a call has read is rewritten, if that is so for calls of a smaller measure.
LEMMA CallRewritten ==
    ASSUME NEW s \in Seq(Byte), NEW P, Answers(s, P), NEW E, WritesAll(s, P, E),
           NEW c \in Calls, ~ Failed(P[c]),
           \A d \in Calls : Measure(s, d) < Measure(s, c) /\ ~ Failed(P[d]) => Rewritten(s, P, E, d)
    PROVE  Rewritten(s, P, E, c)
  <1> DEFINE D == ReadBelow(s, P, Measure(s, c))
  <1>1. ASSUME NEW x \in D PROVE E[x] \in Seq(Byte)
    <2>1. PICK q \in Nat \ {0} : /\ ~ Failed(P[ValueAt(q)])
                                 /\ Measure(s, ValueAt(q)) < Measure(s, c)
                                 /\ x = P[ValueAt(q)].value
      BY <1>1 DEF ReadBelow
    <2>2. ValueAt(q) \in Calls /\ ValueAt(q).parse = "value"
      BY CallTypes
    <2>3. Rewritten(s, P, E, ValueAt(q))
      BY <2>1, <2>2
    <2>4. Written(E, ValueAt(q), x) \in Seq(Byte)
      BY <2>1, <2>3 DEF Rewritten
    <2> QED
      BY <2>2, <2>4 DEF Written
  <1>2. ASSUME NEW d, MadeFor(s, P, c, d)
        PROVE  /\ Rewritten(s, P, E, d)
               /\ d.parse = "list" => P[d].value \in Seq(D)
               /\ d.parse = "dictionary" => P[d].value \in Seq(Pairs(D))
               /\ d = ValueAt(d.pos) => P[d].value \in D
    <2>1. d \in Calls /\ ~ Failed(P[d]) /\ Measure(s, d) < Measure(s, c) /\ d.pos \in Nat \ {0}
      BY <1>2 DEF MadeFor
    <2>2. Rewritten(s, P, E, d)
      BY <2>1
    <2>3. WellRead(s, P, d)
      BY <2>1, AllIsWellRead
    <2>4. ReadBelow(s, P, Measure(s, d)) \subseteq D
      <3>1. Measure(s, d) \in Int /\ Measure(s, c) \in Int /\ Measure(s, d) <= Measure(s, c)
        BY <2>1, MeasureOf
      <3> QED
        BY <3>1, MoreBelow
    <2>5. d = ValueAt(d.pos) => P[d].value \in D
      BY <2>1 DEF ReadBelow
    <2> HIDE DEF D
    <2>6. d.parse = "list" => P[d].value \in Seq(D)
      BY <2>3, <2>4, MoreParts DEF WellRead
    <2>7. d.parse = "dictionary" => P[d].value \in Seq(Pairs(D))
      BY <2>3, <2>4, MoreParts DEF WellRead
    <2> QED
      BY <2>2, <2>5, <2>6, <2>7
  <1>3. CASE c.parse = "list"
    <2>1. CASE s[c.pos] = EndMark /\ P[c] = Ok(<<>>, c.pos + 1)
      <3>1. Available(s, c.pos)
        BY <1>3, ElementsRead
      <3> QED
        BY <1>3, <2>1, <3>1, EndRewritten
    <2>2. ASSUME NEW d, NEW e, ElementsCalls(s, P, c, d, e) PROVE Rewritten(s, P, E, c)
      <3>1. /\ MadeFor(s, P, c, d) /\ MadeFor(s, P, c, e) /\ d = ValueAt(d.pos) /\ e.parse = "list"
        BY <2>2 DEF ElementsCalls, ValueAt, ElementsFrom
      <3>2. /\ Rewritten(s, P, E, d) /\ Rewritten(s, P, E, e)
            /\ P[d].value \in D /\ P[e].value \in Seq(D)
        BY <1>2, <3>1
      <3> HIDE DEF D
      <3> QED
        BY <1>1, <1>3, <2>2, <3>2, ElementRewritten
    <2> QED
      BY <1>3, <2>1, <2>2, ElementsRead
  <1>4. CASE c.parse = "dictionary"
    <2>1. CASE s[c.pos] = EndMark /\ P[c] = Ok(<<>>, c.pos + 1)
      <3>1. Available(s, c.pos)
        BY <1>4, ItemsRead
      <3> QED
        BY <1>4, <2>1, <3>1, EndRewritten
    <2>2. ASSUME NEW next \in Nat, NEW d, NEW e, ItemsCalls(s, P, c, next, d, e)
          PROVE  Rewritten(s, P, E, c)
      <3>1. /\ MadeFor(s, P, c, d) /\ MadeFor(s, P, c, e) /\ d = ValueAt(d.pos)
            /\ e.parse = "dictionary" /\ e.last # <<>> /\ e \in Calls /\ ~ Failed(P[e])
        BY <2>2 DEF ItemsCalls, ValueAt, ItemsFrom, MadeFor
      <3>2. /\ Rewritten(s, P, E, d) /\ Rewritten(s, P, E, e)
            /\ P[d].value \in D /\ P[e].value \in Seq(Pairs(D))
        BY <1>2, <3>1
      <3>3. \A k \in DOMAIN P[e].value : Less(e.last[1], P[e].value[k].key)
        <4>1. WellRead(s, P, e)
          BY <3>1, AllIsWellRead
        <4> QED
          BY <3>1, <4>1 DEF WellRead
      <3> HIDE DEF D
      <3>4. ItemRead(s, P, c, next, d, e)
        BY <1>4, <2>2, <3>2, <3>3, ItemIsFirst
      <3> QED
        BY <1>1, <1>4, <2>2, <3>2, <3>4, ItemRewritten
    <2> QED
      BY <1>4, <2>1, <2>2, ItemsRead
  <1>5. CASE c.parse = "value"
    <2>0. Available(s, c.pos)
      BY <1>5, ValueRead
    <2>1. E[P[c].value] = EncodeValue(E, P[c].value)
      <3>1. c.pos \in Nat \ {0}
        BY CallForms
      <3>2. IgnoresLast(P, c, c.pos)
        BY <3>1, LastIsIgnored
      <3>3. P[c] = P[ValueAt(c.pos)]
        BY <1>5, <3>2 DEF IgnoresLast
      <3>4. Measure(s, ValueAt(c.pos)) < 2 * Len(s) + 2
        <4>1. ValueAt(c.pos) \in Calls
          BY <3>1, CallTypes
        <4> QED
          BY <4>1, MeasureOf
      <3>5. P[c].value \in ReadBelow(s, P, 2 * Len(s) + 2)
        BY <3>1, <3>3, <3>4 DEF ReadBelow
      <3> QED
        BY <3>5 DEF WritesAll
    <2>2. ASSUME s[c.pos] = IntegerMark, NEW start \in Nat, NEW next \in Nat,
                 IntegerAt(s, c.pos, start, next), P[c] = IntegerOf(s, c.pos, start, next)
          PROVE  Rewritten(s, P, E, c)
      BY <1>5, <2>0, <2>1, <2>2, IntegerRewritten
    <2>3. ASSUME NEW next \in Nat, StringAt(s, c.pos, next), P[c] = StringOf(s, c.pos, next)
          PROVE  Rewritten(s, P, E, c)
      BY <1>5, <2>1, <2>3, StringRewritten
    <2>4. ASSUME NEW d, ListCalls(s, P, c, d) PROVE Rewritten(s, P, E, c)
      <3>1. MadeFor(s, P, c, d) /\ d.parse = "list"
        BY <2>4 DEF ListCalls
      <3>2. Rewritten(s, P, E, d) /\ P[d].value \in Seq(D)
        BY <1>2, <3>1
      <3> HIDE DEF D
      <3> QED
        BY <1>1, <1>5, <2>0, <2>1, <2>4, <3>2, ListRewritten
    <2>5. ASSUME NEW d, DictionaryCalls(s, P, c, d) PROVE Rewritten(s, P, E, c)
      <3>1. MadeFor(s, P, c, d) /\ d.parse = "dictionary"
        BY <2>5 DEF DictionaryCalls
      <3>2. Rewritten(s, P, E, d) /\ P[d].value \in Seq(Pairs(D))
        BY <1>2, <3>1
      <3> HIDE DEF D
      <3> QED
        BY <1>1, <1>5, <2>0, <2>1, <2>5, <3>2, DictionaryRewritten
    <2> QED
      BY <1>5, <2>2, <2>3, <2>4, <2>5, ValueRead
  <1> QED
    BY <1>3, <1>4, <1>5, CallForms

\* What any call has read is rewritten, by induction on the measure.
LEMMA AllIsRewritten ==
    ASSUME NEW s \in Seq(Byte), NEW P, Answers(s, P), NEW E, WritesAll(s, P, E)
    PROVE  \A c \in Calls : ~ Failed(P[c]) => Rewritten(s, P, E, c)
  <1> DEFINE N == 2 * Len(s) + 2
             T == {n \in 0 .. N : \A c \in Calls :
                      Measure(s, c) < n /\ ~ Failed(P[c]) => Rewritten(s, P, E, c)}
  <1>0. N \in Nat /\ \A c \in Calls : Measure(s, c) \in Nat /\ Measure(s, c) < N
    BY MeasureOf
  <1>1. 0 \in T
    BY <1>0
  <1>2. ASSUME NEW n \in 0 .. N, n < N, n \in T PROVE n + 1 \in T
    <2>1. ASSUME NEW c \in Calls, Measure(s, c) < n + 1, ~ Failed(P[c]) PROVE Rewritten(s, P, E, c)
      <3>1. \A d \in Calls : Measure(s, d) < Measure(s, c) /\ ~ Failed(P[d]) => Rewritten(s, P, E, d)
        BY <1>0, <1>2, <2>1
      <3> QED
        BY <2>1, <3>1, CallRewritten
    <2> QED
      BY <1>0, <1>2, <2>1
  <1> HIDE DEF T
  <1>3. N \in T
    BY <1>0, <1>1, <1>2, BoundedInduction
  <1> QED
    BY <1>0, <1>3 DEF T

\* What is encoded of an accepted document is read again as its value, and is the
\* document but for zeros.
LEMMA DocumentIsRewritten ==
    ASSUME NEW s \in Seq(Byte), ~ Failed(deserialize(s)), NEW e, e = Encode(deserialize(s).value, s)
    PROVE  /\ deserialize(e) = Ok(deserialize(s).value, Len(e) + 1)
           /\ Shrinks(s, e)
  <1> DEFINE P == Parser(s)
             c == ValueAt(1)
             v == P[c].value
  <1>1. ~ Failed(P[c]) /\ P[c].pos = Len(s) + 1 /\ deserialize(s) = P[c]
    BY DEF deserialize, Try, Err, Failed
  <1>2. c \in Calls /\ c.pos = 1 /\ c.parse = "value"
    BY CallTypes
  <1>3. PICK E : Encodes(s, E)
    BY EncodingExists
  <1>4. e = E[v]
    BY <1>1, <1>3 DEF Encodes
  <1>5. WritesAll(s, P, E)
    BY <1>3, ValuesAreRead DEF Encodes, WritesAll
  <1>6. Answers(s, P)
    BY ParserAnswers
  <1> HIDE DEF P, c
  <1>7. Rewritten(s, P, E, c)
    BY <1>1, <1>2, <1>5, <1>6, AllIsRewritten
  <1> HIDE DEF v
  <1>8. /\ e \in Seq(Byte) /\ Len(e) > 0 /\ ReadsBack(c, v, e)
        /\ Shrinks(SubSeq(s, c.pos, P[c].pos - 1), e)
    <2>1. Written(E, c, v) = e
      BY <1>2, <1>4 DEF Written
    <2> QED
      BY <1>2, <1>7, <2>1, Zenon DEF Rewritten, v
  <1>9. Shrinks(s, e)
    <2>1. SubSeq(s, c.pos, P[c].pos - 1) = s
      <3>1. Stands(s, 1, s) /\ P[c].pos = 1 + Len(s)
        BY <1>1 DEF Stands
      <3>2. \A q : q = 1 + Len(s) => SubSeq(s, 1, q - 1) = s
        BY <3>1, StandsWhole
      <3> QED
        BY <1>2, <3>1, <3>2, Zenon
    <2> QED
      BY <1>8, <2>1
  <1>10. Parser(e)[ValueAt(1)] = Ok(v, 1 + Len(e))
    <2>1. Stands(e, 1, e)
      BY <1>8 DEF Stands
    <2>2. Parser(e)[Moved(c, 1)] = Ok(v, 1 + Len(e))
      BY <1>8, <2>1 DEF ReadsBack
    <2>3. Moved(c, 1) = ValueAt(1)
      BY DEF Moved, ValueAt, c
    <2> QED
      BY <2>2, <2>3
  <1>11. deserialize(e) = Ok(v, Len(e) + 1)
    <2> DEFINE r == Parser(e)[ValueAt(1)]
    <2>1. Len(e) \in Nat
      BY <1>8
    <2>2. r = Ok(v, Len(e) + 1)
      BY <1>10, <2>1
    <2>3. ~ Failed(r) /\ r.pos = Len(e) + 1
      BY <2>2 DEF Ok, Failed
    <2>4. deserialize(e) = Try(r, LAMBDA a : IF a.pos # Len(e) + 1 THEN Err("UnconsumedContents") ELSE a)
      BY DEF deserialize
    <2> HIDE DEF r
    <2> QED
      BY <2>2, <2>3, <2>4 DEF Try
  <1> QED
    BY <1>1, <1>9, <1>11 DEF v

-----------------------------------------------------------------------------
(* The document.                                                            *)

ReadBytes == contents \in Seq(Byte)

\* Every document is a sequence of bytes.
LEMMA BytesAreRead == Spec => []ReadBytes
  <1>1. Init => ReadBytes
    BY DEF Init, ReadBytes
  <1>2. ReadBytes /\ [Next]_vars => ReadBytes'
    <2> SUFFICES ASSUME ReadBytes, [Next]_vars PROVE ReadBytes'
      OBVIOUS
    <2>1. CASE \E f \in Fragments : ReadMore(f)
      BY <2>1, InfoHashAssumption DEF ReadMore, ReadBytes
    <2>2. CASE UNCHANGED vars
      BY <2>2 DEF vars, ReadBytes
    <2> QED
      BY <2>1, <2>2 DEF Next
  <1> QED
    BY <1>1, <1>2, PTL DEF Spec

\* Whatever document is read, what is digested of it determines it, in either byte
\* order: for chunks, words and a length field of any size.
THEOREM DigestLosesNothing == Spec => []DigestInputIsRecoverable
  <1>1. ReadBytes => DigestInputIsRecoverable
    BY InputIsRecovered DEF ReadBytes, DigestInputIsRecoverable
  <1> QED
    BY <1>1, BytesAreRead, PTL

\* No part of an accepted document is accepted, or refused for another reason than
\* that it lacks its end: the readers of a document notice that it was cut short.
THEOREM NoPartIsAccepted == Spec => []TruncationIsNoticed
  <1>1. ReadBytes => TruncationIsNoticed
    BY EndIsMissed DEF ReadBytes, TruncationIsNoticed, Accepted
  <1> QED
    BY <1>1, BytesAreRead, PTL

\* The encoder writes every value that the parser can accept so that it is parsed as
\* the same value, to the last byte.
THEOREM EncoderLosesNothing == Spec => []EncodingIsParsed
  <1>1. ReadBytes => EncodingIsParsed
    BY DocumentIsRewritten DEF ReadBytes, EncodingIsParsed, Accepted, Reencoded, Value
  <1> QED
    BY <1>1, BytesAreRead, PTL

\* The bytes of the info hash, which come from the encoder, are those that were read,
\* in their order, but for bytes '0', of which some may be missing if a colon occurs.
THEOREM WhatWasReadIsHashed == Spec => []HashedAsRead
  <1>1. ReadBytes => HashedAsRead
    <2> SUFFICES ASSUME ReadBytes, Accepted PROVE Shrinks(contents, Reencoded)
      BY DEF HashedAsRead, Shrinks
    <2> QED
      BY DocumentIsRewritten DEF ReadBytes, Accepted, Reencoded, Value
  <1> QED
    BY <1>1, BytesAreRead, PTL
===============================================================================
