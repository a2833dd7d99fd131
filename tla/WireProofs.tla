------------------------------ MODULE WireProofs ------------------------------
(***************************************************************************)
(* Reading a connection, for every set of messages, every number of frames *)
(* and wherever the network cuts the stream.                               *)
(***************************************************************************)
EXTENDS Wire, Recursion

-----------------------------------------------------------------------------
(* Numbers and their bytes.                                                 *)

\* The bytes of a number.
LEMMA Digits ==
    ASSUME NEW n \in U32
    PROVE  \E a, b, c, d \in Byte :
              to_be_bytes(n) = <<a, b, c, d>> /\ from_be_bytes(<<a, b, c, d>>) = n
<1>1. PICK a, b, c, d : /\ a = n \div 16777216 /\ b = (n \div 65536) % 256
                        /\ c = (n \div 256) % 256 /\ d = n % 256
  BY SMT
<1>2. n \in Nat /\ a < 256
  BY <1>1, SMT DEF U32
<1>3. ASSUME NEW m \in Nat
      PROVE  \E q \in Nat, r \in Byte : q = m \div 256 /\ r = m % 256 /\ m = 256 * q + r
  <2> DEFINE q == m \div 256
             r == m % 256
  <2>1. q \in Nat /\ r \in Byte
    BY SMT DEF Byte
  <2>2. q = m \div 256 /\ r = m % 256
    OBVIOUS
  <2> HIDE DEF q, r
  <2>3. m = 256 * q + r
    BY <2>1, <2>2, SMT DEF Byte
  <2> QED
    BY <2>1, <2>2, <2>3, SMT
<1>4. PICK q1 \in Nat : q1 = n \div 256 /\ n = 256 * q1 + d /\ d \in Byte
  BY <1>1, <1>2, <1>3, SMT
<1>5. PICK q2 \in Nat : q2 = q1 \div 256 /\ q1 = 256 * q2 + c /\ c \in Byte
  BY <1>1, <1>3, <1>4, SMT
<1>6. n \div 65536 = q2
  BY <1>4, <1>5, SMT DEF Byte
<1>7. PICK q3 \in Nat : q3 = q2 \div 256 /\ q2 = 256 * q3 + b /\ b \in Byte
  BY <1>1, <1>3, <1>5, <1>6, SMT
<1>8. a = q3
  BY <1>1, <1>4, <1>5, <1>7, SMT DEF Byte
<1>9. a \in Byte /\ to_be_bytes(n) = <<a, b, c, d>>
  BY <1>1, <1>2, <1>8, SMT DEF Byte, to_be_bytes
<1>10. n = 16777216 * a + 65536 * b + 256 * c + d
  BY <1>1, <1>2, <1>4, <1>5, <1>7, <1>8, SMT DEF Byte
<1>11. from_be_bytes(<<a, b, c, d>>) = n
  BY <1>10, SMT DEF from_be_bytes
<1>12. b \in Byte /\ c \in Byte /\ d \in Byte
  BY <1>4, <1>5, <1>7, SMT
<1> QED
  BY <1>9, <1>11, <1>12, Zenon

\* from_be_bytes reads what to_be_bytes wrote.
LEMMA FourBytes ==
    ASSUME NEW n \in U32
    PROVE  /\ to_be_bytes(n) \in Seq(Byte) /\ Len(to_be_bytes(n)) = 4
           /\ from_be_bytes(to_be_bytes(n)) = n
<1>1. PICK a \in Byte, b \in Byte, c \in Byte, d \in Byte :
        to_be_bytes(n) = <<a, b, c, d>> /\ from_be_bytes(<<a, b, c, d>>) = n
  BY Digits
<1> QED
  BY <1>1

\* Four bytes are a u32.
LEMMA NumberOfBytes ==
    ASSUME NEW s \in Seq(Byte), Len(s) = 4
    PROVE  from_be_bytes(s) \in U32
<1>1. ASSUME NEW a \in Byte, NEW b \in Byte, NEW c \in Byte, NEW d \in Byte
      PROVE  from_be_bytes(<<a, b, c, d>>) \in U32
  <2>1. /\ 16777216 * a + 65536 * b + 256 * c + d \in Nat
        /\ (16777216 * a + 65536 * b + 256 * c + d) \div 16777216 = a
        /\ a < 256
    BY SMT DEF Byte
  <2>2. 16777216 * a + 65536 * b + 256 * c + d \in U32
    BY <2>1, SMT DEF U32
  <2> QED
    BY <2>2, SMT DEF from_be_bytes
<1>2. s[1] \in Byte /\ s[2] \in Byte /\ s[3] \in Byte /\ s[4] \in Byte
  <2>1. 1 \in 1 .. Len(s) /\ 2 \in 1 .. Len(s) /\ 3 \in 1 .. Len(s) /\ 4 \in 1 .. Len(s)
    OBVIOUS
  <2> QED
    BY <2>1, ElementOfSeq, Zenon
<1>3. s = <<s[1], s[2], s[3], s[4]>>
  OBVIOUS
<1> QED
  BY <1>1, <1>2, <1>3, Zenon

\* Zero is a u32.
LEMMA SmallNumbers == 0 \in U32
BY SMT DEF U32

-----------------------------------------------------------------------------
(* Messages and their payloads.                                             *)

LEMMA Ids ==
    /\ DOMAIN MessageId = {"choke", "unchoke", "interested", "notInterested", "have", "bitfield",
                           "request", "piece", "cancel"}
    /\ \A t \in DOMAIN MessageId : MessageId[t] \in 0 .. 8 /\ TypeOf(MessageId[t]) = t
    /\ \A n \in 0 .. 8 : TypeOf(n) \in DOMAIN MessageId
<1>1. DOMAIN MessageId = {"choke", "unchoke", "interested", "notInterested", "have", "bitfield",
                          "request", "piece", "cancel"}
  BY DEF MessageId
<1>2. /\ \A t \in DOMAIN MessageId : MessageId[t] \in 0 .. 8
      /\ \A t, u \in DOMAIN MessageId : MessageId[t] = MessageId[u] => t = u
      /\ \A n \in 0 .. 8 : \E t \in DOMAIN MessageId : MessageId[t] = n
  BY DEF MessageId
<1>3. \A n \in 0 .. 8 : TypeOf(n) \in DOMAIN MessageId /\ MessageId[TypeOf(n)] = n
  BY <1>2, Zenon DEF TypeOf
<1> QED
  BY <1>1, <1>2, <1>3

\* The fields of each type of message, and that it has no others.
LEMMA Fields ==
    ASSUME NEW m \in AnyMessage
    PROVE  /\ m.type = "have" => m = [type |-> "have", index |-> m.index] /\ m.index \in U32
           /\ m.type = "bitfield" => m = [type |-> "bitfield", bytes |-> m.bytes] /\ m.bytes \in Seq(Byte)
           /\ m.type = "piece" =>
                /\ m = [type |-> "piece", index |-> m.index, begin |-> m.begin, bytes |-> m.bytes]
                /\ m.index \in U32 /\ m.begin \in U32 /\ m.bytes \in Seq(Byte)
           /\ m.type \in {"request", "cancel"} =>
                /\ m = [type |-> m.type, index |-> m.index, begin |-> m.begin, length |-> m.length]
                /\ m.index \in U32 /\ m.begin \in U32 /\ m.length \in U32
           /\ m.type \in Bare => m = [type |-> m.type]
           /\ m.type \in Bare \cup {"have", "bitfield", "piece", "request", "cancel"}
BY DEF AnyMessage, Bare

\* Two numbers one after the other, and what follows them.
Three(s, t, u) == s \o t \o u

Parts(V, w, s, t, u) ==
    /\ w \in Seq(V) /\ Len(w) = 8 + Len(u)
    /\ SubSeq(w, 1, 4) = s
    /\ SubSeq(w, 5, 8) = t
    /\ SubSeq(w, 9, Len(w)) = u

\* The parts of a concatenation can be cut out of it again.
LEMMA Concatenated ==
    ASSUME NEW V, NEW s \in Seq(V), NEW t \in Seq(V), NEW u \in Seq(V), Len(s) = 4, Len(t) = 4,
           NEW w, w = Three(s, t, u)
    PROVE  Parts(V, w, s, t, u)
<1> DEFINE v == s \o t
<1>1. /\ v \in Seq(V) /\ Len(v) = 8
      /\ \A i \in 1 .. 8 : v[i] = IF i <= 4 THEN s[i] ELSE t[i - 4]
  <2>1. /\ v \in Seq(V) /\ Len(v) = Len(s) + Len(t)
        /\ \A i \in 1 .. Len(s) + Len(t) : v[i] = IF i <= Len(s) THEN s[i] ELSE t[i - Len(s)]
    BY ConcatProperties
  <2> HIDE DEF v
  <2> QED
    BY <2>1
<1>0. w = v \o u
  BY DEF Three
<1> HIDE DEF v
<1>2. w \in Seq(V) /\ Len(w) = 8 + Len(u) /\ Len(u) \in Nat
  <2>1. v \o u \in Seq(V) /\ Len(v \o u) = Len(v) + Len(u)
    BY <1>1, ConcatProperties
  <2>2. Len(u) \in Nat
    OBVIOUS
  <2> QED
    BY <1>1, <1>0, <2>1, <2>2
<1>3. /\ \A i \in 1 .. 4 : w[i] = s[i]
      /\ \A i \in 5 .. 8 : w[i] = t[i - 4]
      /\ \A i \in 9 .. 8 + Len(u) : w[i] = u[i - 8]
  <2>1. \A i \in 1 .. Len(v) + Len(u) : (v \o u)[i] = IF i <= Len(v) THEN v[i] ELSE u[i - Len(v)]
    BY <1>1, ConcatProperties
  <2>2. \A i \in 1 .. Len(v) + Len(u) : w[i] = IF i <= Len(v) THEN v[i] ELSE u[i - Len(v)]
    BY <1>0, <2>1
  <2> QED
    BY <1>1, <1>2, <2>2
<1>4. SubSeq(w, 1, 4) = s
  BY <1>2, <1>3
<1>5. SubSeq(w, 5, 8) = t
  BY <1>2, <1>3
<1>6. SubSeq(w, 9, Len(w)) = u
  BY <1>2, <1>3
<1> QED
  BY <1>2, <1>4, <1>5, <1>6 DEF Parts

\* A payload w of two numbers and u.
Numbers(w, i, j, u) ==
    /\ w \in Seq(Byte) /\ Len(w) = 8 + Len(u)
    /\ from_be_bytes(SubSeq(w, 1, 4)) = i
    /\ from_be_bytes(SubSeq(w, 5, 8)) = j
    /\ SubSeq(w, 9, Len(w)) = u

\* Two numbers and what follows them are read as they were written.
LEMMA NumbersThen ==
    ASSUME NEW i \in U32, NEW j \in U32, NEW u \in Seq(Byte),
           NEW w, w = Three(to_be_bytes(i), to_be_bytes(j), u)
    PROVE  Numbers(w, i, j, u)
<1>1. ASSUME NEW s \in Seq(Byte), NEW t \in Seq(Byte), Len(s) = 4, Len(t) = 4,
             from_be_bytes(s) = i, from_be_bytes(t) = j, w = Three(s, t, u)
      PROVE  Numbers(w, i, j, u)
  <2>1. Parts(Byte, w, s, t, u)
    BY <1>1, Concatenated, Zenon
  <2>2. from_be_bytes(SubSeq(w, 1, 4)) = i /\ from_be_bytes(SubSeq(w, 5, 8)) = j
    BY <1>1, <2>1, Zenon DEF Parts
  <2> QED
    BY <2>1, <2>2, Zenon DEF Parts, Numbers
<1>2. /\ to_be_bytes(i) \in Seq(Byte) /\ Len(to_be_bytes(i)) = 4
      /\ from_be_bytes(to_be_bytes(i)) = i
  BY FourBytes
<1>3. /\ to_be_bytes(j) \in Seq(Byte) /\ Len(to_be_bytes(j)) = 4
      /\ from_be_bytes(to_be_bytes(j)) = j
  BY FourBytes
<1> QED
  BY <1>1, <1>2, <1>3, Zenon

\* The payload of a message has the length that the reader expects.
LEMMA PayloadSize ==
    ASSUME NEW m \in AnyMessage
    PROVE  /\ Payload(m) \in Seq(Byte)
           /\ m.type = "piece" => Len(Payload(m)) = 8 + Len(m.bytes)
           /\ m.type \notin Variable => Len(Payload(m)) = Expected(m.type)
<1>1. CASE m.type = "have"
  BY <1>1, Fields, FourBytes DEF Payload, Variable, Expected
<1>2. CASE m.type = "bitfield"
  BY <1>2, Fields DEF Payload, Variable
<1>3. CASE m.type = "piece"
  <2>1. Payload(m) = Three(to_be_bytes(m.index), to_be_bytes(m.begin), m.bytes)
    BY <1>3 DEF Payload, Three
  <2>2. m.index \in U32 /\ m.begin \in U32 /\ m.bytes \in Seq(Byte)
    BY <1>3, Fields
  <2>3. Numbers(Payload(m), m.index, m.begin, m.bytes)
    BY <2>1, <2>2, NumbersThen, Zenon
  <2> QED
    BY <1>3, <2>3 DEF Variable, Numbers
<1>4. CASE m.type \in {"request", "cancel"}
  <2>1. Payload(m) = Three(to_be_bytes(m.index), to_be_bytes(m.begin), to_be_bytes(m.length))
    BY <1>4 DEF Payload, Three
  <2>2. Payload(m) \in Seq(Byte) /\ Len(Payload(m)) = 8 + 4
    <3>1. m.index \in U32 /\ m.begin \in U32 /\ to_be_bytes(m.length) \in Seq(Byte)
      BY <1>4, Fields, FourBytes
    <3>2. Numbers(Payload(m), m.index, m.begin, to_be_bytes(m.length))
      BY <2>1, <3>1, NumbersThen, Zenon
    <3>3. Len(to_be_bytes(m.length)) = 4
      BY <1>4, Fields, FourBytes
    <3> QED
      BY <3>2, <3>3, Zenon DEF Numbers
  <2>3. Expected(m.type) = 12
    BY <1>4 DEF Expected
  <2> QED
    BY <1>4, <2>2, <2>3
<1>5. CASE m.type \in Bare
  <2>1. Payload(m) = <<>> /\ Expected(m.type) = 0
    BY <1>5 DEF Payload, Expected, Bare
  <2> QED
    BY <1>5, <2>1 DEF Bare, Variable
<1> QED
  BY <1>1, <1>2, <1>3, <1>4, <1>5, Fields, Zenon

\* What is decoded is what was encoded (message.rs:86-140 and 160-220).
LEMMA Decoded ==
    ASSUME NEW m \in AnyMessage, m.type \in DOMAIN MessageId
    PROVE  Decode(m.type, Payload(m)) = m
<1>1. CASE m.type = "have"
  BY <1>1, Fields, FourBytes DEF Payload, Decode
<1>2. CASE m.type = "bitfield"
  BY <1>2, Fields DEF Payload, Decode
<1>3. CASE m.type = "piece"
  <2>1. Payload(m) = Three(to_be_bytes(m.index), to_be_bytes(m.begin), m.bytes)
    BY <1>3 DEF Payload, Three
  <2>2. m.index \in U32 /\ m.begin \in U32 /\ m.bytes \in Seq(Byte)
    BY <1>3, Fields
  <2>3. Numbers(Payload(m), m.index, m.begin, m.bytes)
    BY <2>1, <2>2, NumbersThen, Zenon
  <2>4. DecodePiece(Payload(m)) =
          [type |-> "piece", index |-> m.index, begin |-> m.begin, bytes |-> m.bytes]
    BY <2>3, Zenon DEF DecodePiece, Numbers
  <2> QED
    BY <1>3, <2>4, Fields DEF Decode
<1>4. CASE m.type \in {"request", "cancel"}
  <2>1. Payload(m) = Three(to_be_bytes(m.index), to_be_bytes(m.begin), to_be_bytes(m.length))
    BY <1>4 DEF Payload, Three
  <2>2. /\ from_be_bytes(SubSeq(Payload(m), 1, 4)) = m.index
        /\ from_be_bytes(SubSeq(Payload(m), 5, 8)) = m.begin
        /\ SubSeq(Payload(m), 9, Len(Payload(m))) = to_be_bytes(m.length)
        /\ Len(Payload(m)) = 12
    <3>1. m.index \in U32 /\ m.begin \in U32 /\ to_be_bytes(m.length) \in Seq(Byte)
      BY <1>4, Fields, FourBytes
    <3>2. Numbers(Payload(m), m.index, m.begin, to_be_bytes(m.length))
      BY <2>1, <3>1, NumbersThen, Zenon
    <3>3. Len(to_be_bytes(m.length)) = 4 /\ 8 + 4 = 12
      BY <1>4, Fields, FourBytes
    <3> QED
      BY <3>2, <3>3, Zenon DEF Numbers
  <2>3. Decode(m.type, Payload(m)) =
          [type |-> m.type, index |-> m.index, begin |-> m.begin, length |-> m.length]
    BY <1>4, <2>2, Fields, FourBytes DEF Decode
  <2> QED
    BY <1>4, <2>3, Fields
<1>5. CASE m.type \in Bare
  <2>1. Decode(m.type, Payload(m)) = [type |-> m.type]
    BY <1>5 DEF Decode, Bare
  <2> QED
    BY <1>5, <2>1, Fields
<1> QED
  BY <1>1, <1>2, <1>3, <1>4, <1>5, Fields, Zenon

\* Whatever bytes are decoded, a message comes of them.
LEMMA DecodeTyped ==
    ASSUME NEW t \in DOMAIN MessageId, NEW s \in Seq(Byte),
           t \notin Variable => Len(s) = Expected(t),
           t = "piece" => Len(s) >= 8
    PROVE  Decode(t, s) \in AnyMessage
<1>1. ASSUME NEW i \in Nat, NEW j \in Nat, 1 <= i, j = i + 3, j <= Len(s)
      PROVE  from_be_bytes(SubSeq(s, i, j)) \in U32
  <2>1. SubSeq(s, i, j) \in Seq(Byte) /\ Len(SubSeq(s, i, j)) = 4
    BY <1>1
  <2> QED
    BY <2>1, NumberOfBytes
<1>2. CASE t = "have"
  BY <1>2, NumberOfBytes DEF Decode, AnyMessage, Expected, Variable
<1>3. CASE t = "bitfield"
  BY <1>3 DEF Decode, AnyMessage
<1>4. CASE t = "piece"
  <2>1. from_be_bytes(SubSeq(s, 1, 4)) \in U32 /\ from_be_bytes(SubSeq(s, 5, 8)) \in U32
    BY <1>1, <1>4
  <2>2. SubSeq(s, 9, Len(s)) \in Seq(Byte)
    BY <1>4
  <2> QED
    BY <1>4, <2>1, <2>2 DEF Decode, DecodePiece, AnyMessage
<1>5. CASE t \in {"request", "cancel"}
  <2>1. Len(s) = 12
    BY <1>5 DEF Expected, Variable
  <2>2. /\ from_be_bytes(SubSeq(s, 1, 4)) \in U32 /\ from_be_bytes(SubSeq(s, 5, 8)) \in U32
        /\ from_be_bytes(SubSeq(s, 9, 12)) \in U32
    BY <1>1, <2>1
  <2> QED
    BY <1>5, <2>2 DEF Decode, AnyMessage
<1>6. CASE t \in Bare
  <2>2. Decode(t, s) = [type |-> t]
    BY <1>6 DEF Decode, Bare
  <2> QED
    BY <1>6, <2>2 DEF AnyMessage
<1> QED
  BY <1>2, <1>3, <1>4, <1>5, <1>6, Ids DEF Bare

-----------------------------------------------------------------------------
(* Frames and what is left of them.                                         *)

\* The frames that the peer may send, as the guards of PeerSends say.
Allowed ==
    {f \in [pad : Pads, message : Messages] :
        /\ f.pad < 0 => Len(Payload(f.message)) + f.pad >= 0
        /\ f.pad > 0 => f.message.type \in DOMAIN MessageId \ Variable}

\* The payload of a frame as it is written, and what was added to it.
Written(f) == Padded(Payload(f.message), f.pad)
Zeros(f) == [k \in 1 .. f.pad |-> 0]

\* The size of a frame, and the bytes it starts with.
Size(f) == 1 + Len(Written(f))

\* What a frame consists of, and what it is padded with.
LEMMA FrameType ==
    ASSUME NEW f \in Allowed
    PROVE  /\ f.message \in AnyMessage
           /\ f.pad \in Int
           /\ f.pad > 0 => f.message.type \in DOMAIN MessageId \ Variable
           /\ Payload(f.message) \in Seq(Byte)
           /\ Written(f) \in Seq(Byte)
           /\ Len(Written(f)) = Len(Payload(f.message)) + f.pad
           /\ Size(f) \in U32
           /\ f.pad >= 0 =>
                /\ Zeros(f) \in Seq(Byte) /\ Len(Zeros(f)) = f.pad
                /\ Written(f) = Payload(f.message) \o Zeros(f)
           /\ IdOf(f.message) \in Byte
<1>1. f.message \in Messages /\ f.pad \in Pads
  BY Zenon DEF Allowed
<1>2. f.message \in AnyMessage /\ f.pad \in Int
  BY <1>1, WireAssumption, Zenon
<1>3. f.pad > 0 => f.message.type \in DOMAIN MessageId \ Variable
  BY Zenon DEF Allowed
<1>4. f.pad < 0 => Len(Payload(f.message)) + f.pad >= 0
  BY Zenon DEF Allowed
<1>5. Payload(f.message) \in Seq(Byte)
  BY <1>2, PayloadSize, Zenon
<1> DEFINE s == Payload(f.message)
           p == f.pad
           l == Len(s)
<1>6. (1 + l + p) \div 16777216 < 256
  BY <1>1, LengthsFit, SMT
<1>7. IdOf(f.message) \in Byte
  <2>1. CASE f.message.type \in DOMAIN MessageId
    <3>1. MessageId[f.message.type] \in 0 .. 8
      BY <2>1, Ids, Zenon
    <3> HIDE DEF s, p, l
    <3>2. IdOf(f.message) = MessageId[f.message.type]
      BY <2>1, Zenon DEF IdOf
    <3> QED
      BY <3>1, <3>2, SMT DEF Byte
  <2>2. CASE f.message.type \notin DOMAIN MessageId
    <3>1. IdOf(f.message) = 9
      BY <2>2, Zenon DEF IdOf
    <3> QED
      BY <3>1, SMT DEF Byte
  <2> QED
    BY <2>1, <2>2, Zenon
<1> SUFFICES
      /\ Padded(s, p) \in Seq(Byte) /\ Len(Padded(s, p)) = l + p
      /\ 1 + Len(Padded(s, p)) \in U32
      /\ p >= 0 =>
           /\ [k \in 1 .. p |-> 0] \in Seq(Byte) /\ Len([k \in 1 .. p |-> 0]) = p
           /\ Padded(s, p) = s \o [k \in 1 .. p |-> 0]
  BY <1>2, <1>3, <1>5, <1>7, Zenon DEF Written, Zeros, Size
<1>8. s \in Seq(Byte) /\ p \in Int /\ l \in Nat /\ (p < 0 => l + p >= 0)
  BY <1>2, <1>4, <1>5
<1>9. l = Len(s)
  OBVIOUS
<1> HIDE DEF s, p, l
<1>10. ASSUME p >= 0
       PROVE  /\ [k \in 1 .. p |-> 0] \in Seq(Byte) /\ Len([k \in 1 .. p |-> 0]) = p
              /\ Padded(s, p) = s \o [k \in 1 .. p |-> 0]
  <2> DEFINE z == [k \in 1 .. p |-> 0]
  <2>1. p \in Nat /\ 0 \in Byte
    BY <1>8, <1>10 DEF Byte
  <2>2. z \in Seq(Byte) /\ Len(z) = p
    BY <2>1
  <2>3. ~ (p < 0)
    BY <2>1
  <2> HIDE DEF z
  <2>4. Padded(s, p) = s \o z
    BY <2>3, Zenon DEF Padded, z
  <2> QED
    BY <2>2, <2>4, Zenon DEF z
<1>11. Padded(s, p) \in Seq(Byte) /\ Len(Padded(s, p)) = l + p
  <2>1. CASE p < 0
    <3>1. 0 <= l + p /\ l + p <= l /\ l + p \in Int
      BY <1>8, <2>1
    <3>2. SubSeq(s, 1, l + p) \in Seq(Byte) /\ Len(SubSeq(s, 1, l + p)) = l + p
      BY <1>8, <1>9, <3>1
    <3> QED
      BY <1>9, <2>1, <3>2 DEF Padded
  <2>2. CASE p >= 0
    <3> DEFINE z == [k \in 1 .. p |-> 0]
    <3>1. z \in Seq(Byte) /\ Len(z) = p /\ Padded(s, p) = s \o z
      BY <1>10, <2>2
    <3> HIDE DEF z
    <3>2. s \o z \in Seq(Byte) /\ Len(s \o z) = Len(s) + Len(z)
      BY <1>8, <3>1, ConcatProperties
    <3> QED
      BY <1>9, <3>1, <3>2
  <2> QED
    BY <1>8, <2>1, <2>2
<1>12. 1 + Len(Padded(s, p)) \in U32
  <2> DEFINE n == Len(Padded(s, p))
  <2>1. n = l + p
    BY <1>11
  <2> HIDE DEF n
  <2>2. 1 + n = 1 + l + p /\ 1 + n \in Nat
    BY <1>8, <2>1
  <2>3. 1 + n \in U32
    BY <1>6, <2>2, SMT DEF U32
  <2> QED
    BY <2>3, Zenon DEF n
<1> QED
  BY <1>10, <1>11, <1>12, Zenon

-----------------------------------------------------------------------------
(* A stream of which the end of the connection may have cut off a part.     *)

\* The stream s holds e or, once the connection has ended, what it begins with.
Holds(s, ended, e) ==
    \E n \in 0 .. Len(e) : s = SubSeq(e, 1, n) /\ (~ ended => n = Len(e))

\* Of a connection that was not cut off everything is held.
LEMMA HoldsAll ==
    ASSUME NEW V, NEW e \in Seq(V), NEW s
    PROVE  Holds(s, FALSE, e) <=> s = e
<1>1. SubSeq(e, 1, Len(e)) = e /\ Len(e) \in 0 .. Len(e)
  OBVIOUS
<1> QED
  BY <1>1, Zenon DEF Holds

\* What is held is no longer than what was sent ...
LEMMA HoldsType ==
    ASSUME NEW V, NEW e \in Seq(V), NEW s, NEW c, Holds(s, c, e)
    PROVE  s \in Seq(V) /\ Len(s) <= Len(e)
BY DEF Holds

\* ... and is its beginning.
LEMMA HoldsPrefix ==
    ASSUME NEW V, NEW e \in Seq(V), NEW s, NEW c, Holds(s, c, e)
    PROVE  IsPrefix(s, e)
BY DEF Holds, IsPrefix

\* A connection may be cut off anywhere.
LEMMA HoldsEnded ==
    ASSUME NEW V, NEW e \in Seq(V), NEW s, NEW c, Holds(s, c, e), NEW a \in Nat, a <= Len(s)
    PROVE  Holds(SubSeq(s, 1, a), TRUE, e)
<1>1. PICK n \in 0 .. Len(e) : s = SubSeq(e, 1, n)
  BY DEF Holds
<1>2. Len(s) = n /\ a \in 0 .. Len(e)
  BY <1>1
<1>3. SubSeq(s, 1, a) = SubSeq(e, 1, a)
  BY <1>1, <1>2
<1> QED
  BY <1>2, <1>3 DEF Holds

\* What is sent later is held behind what is there.
LEMMA HoldsMore ==
    ASSUME NEW V, NEW e \in Seq(V), NEW s, Holds(s, FALSE, e), NEW x \in Seq(V)
    PROVE  Holds(s \o x, FALSE, e \o x)
<1>1. s = e
  BY HoldsAll, Zenon
<1>2. e \o x \in Seq(V)
  OBVIOUS
<1> QED
  BY <1>1, <1>2, HoldsAll

\* What a read of w bytes takes from a stream that holds f and then b, if f has
\* w bytes, and what it leaves.
LEMMA HoldsRead ==
    ASSUME NEW V, NEW f \in Seq(V), NEW b \in Seq(V), NEW s, NEW c, Holds(s, c, f \o b),
           NEW w \in Nat, w = Len(f), w <= Len(s)
    PROVE  /\ SubSeq(s, 1, w) = f
           /\ Holds(SubSeq(s, w + 1, Len(s)), c, b)
<1> DEFINE e == f \o b
           m == Len(b)
<1>1. /\ e \in Seq(V) /\ Len(e) = w + m /\ m \in Nat
      /\ \A i \in 1 .. w : e[i] = f[i]
      /\ \A i \in 1 .. m : e[w + i] = b[i]
  <2>1. /\ e \in Seq(V) /\ Len(e) = Len(f) + Len(b)
        /\ \A i \in 1 .. Len(f) + Len(b) : e[i] = IF i <= Len(f) THEN f[i] ELSE b[i - Len(f)]
    BY ConcatProperties
  <2>2. m \in Nat
    OBVIOUS
  <2> HIDE DEF e
  <2>3. \A i \in 1 .. m : w + i \in 1 .. Len(f) + Len(b) /\ ~ (w + i <= Len(f)) /\ (w + i) - Len(f) = i
    BY <2>2
  <2>4. \A i \in 1 .. m : e[w + i] = b[i]
    BY <2>1, <2>3
  <2> QED
    BY <2>1, <2>2, <2>4
<1>2. Holds(s, c, e)
  OBVIOUS
<1> HIDE DEF e
<1>3. PICK n \in 0 .. w + m : s = SubSeq(e, 1, n) /\ (~ c => n = w + m)
  BY <1>1, <1>2 DEF Holds
<1>4. Len(s) = n /\ w <= n /\ \A i \in 1 .. n : s[i] = e[i]
  BY <1>1, <1>3
<1>5. SubSeq(s, 1, w) = f
  BY <1>1, <1>3, <1>4
<1>6. SubSeq(s, w + 1, n) = SubSeq(b, 1, n - w)
  <2>1. n - w \in 0 .. m /\ n \in Nat
    BY <1>1, <1>4
  <2>2. \A i \in 1 .. n - w : w + i \in 1 .. n /\ i \in 1 .. m
    BY <1>1, <1>4
  <2>3. \A i \in 1 .. n - w : s[w + i] = b[i]
    BY <1>1, <1>4, <2>2
  <2>4. s \in Seq(V)
    BY <1>1, <1>3
  <2> QED
    BY <1>1, <1>4, <2>1, <2>3, <2>4
<1>7. n - w \in 0 .. m /\ (~ c => n - w = m)
  BY <1>1, <1>3, <1>4
<1>8. SubSeq(s, w + 1, Len(s)) = SubSeq(b, 1, n - w)
  BY <1>4, <1>6
<1>9. Holds(SubSeq(s, w + 1, Len(s)), c, b)
  BY <1>7, <1>8, Zenon DEF Holds
<1> QED
  BY <1>5, <1>9

-----------------------------------------------------------------------------
(* The frames that are still to be read.                                    *)

\* All frames but the first k, as they are written.
Rest(fs, k) == FlattenSeq([j \in 1 .. Len(fs) - k |-> Encode(fs[k + j])])

\* What follows the length of a frame: its id and its payload.
AfterLength(f, rest) == <<IdOf(f.message)>> \o (Written(f) \o rest)

\* A frame is its length, and then its id and payload unless it is a keepAlive.
LEMMA Encoded ==
    ASSUME NEW f \in Allowed
    PROVE  /\ Encode(f) \in Seq(Byte)
           /\ f.message.type = "keepAlive" => Encode(f) = to_be_bytes(0)
           /\ f.message.type # "keepAlive" =>
                \A rest \in Seq(Byte) :
                    Encode(f) \o rest = to_be_bytes(Size(f)) \o AfterLength(f, rest)
<1>1. /\ Written(f) \in Seq(Byte) /\ Size(f) \in U32 /\ IdOf(f.message) \in Byte
  BY FrameType, Zenon
<1>2. to_be_bytes(Size(f)) \in Seq(Byte) /\ to_be_bytes(0) \in Seq(Byte)
  BY <1>1, FourBytes, SmallNumbers, Zenon
<1>3. CASE f.message.type = "keepAlive"
  BY <1>2, <1>3, Zenon DEF Encode
<1>4. CASE f.message.type # "keepAlive"
  <2> DEFINE h == to_be_bytes(Size(f))
             i == <<IdOf(f.message)>>
             p == Written(f)
  <2>1. Encode(f) = h \o i \o p
    BY <1>4 DEF Encode, Written, Size
  <2>2. h \in Seq(Byte) /\ i \in Seq(Byte) /\ p \in Seq(Byte)
    BY <1>1, <1>2
  <2>3. \A rest : AfterLength(f, rest) = i \o (p \o rest)
    BY DEF AfterLength
  <2> HIDE DEF h, i, p
  <2>4. h \o i \in Seq(Byte) /\ (h \o i) \o p \in Seq(Byte)
    BY <2>2
  <2>5. ASSUME NEW rest \in Seq(Byte)
        PROVE  ((h \o i) \o p) \o rest = h \o (i \o (p \o rest))
    <3>1. p \o rest \in Seq(Byte)
      BY <2>2
    <3>2. ((h \o i) \o p) \o rest = (h \o i) \o (p \o rest)
      <4> DEFINE hi == h \o i
      <4>1. hi \in Seq(Byte)
        BY <2>4, Zenon
      <4> HIDE DEF hi
      <4>2. Associates(Byte)
        BY Associative, Zenon
      <4>3. (hi \o p) \o rest = hi \o (p \o rest)
        BY <2>2, <4>1, <4>2, Zenon DEF Associates
      <4> QED
        BY <4>3, Zenon DEF hi
    <3>3. (h \o i) \o (p \o rest) = h \o (i \o (p \o rest))
      <4> DEFINE pr == p \o rest
      <4>1. Associates(Byte) /\ pr \in Seq(Byte)
        BY <3>1, Associative, Zenon
      <4> HIDE DEF pr
      <4>2. (h \o i) \o pr = h \o (i \o pr)
        BY <2>2, <4>1, Zenon DEF Associates
      <4> QED
        BY <4>2, Zenon DEF pr
    <3> QED
      BY <3>2, <3>3, Zenon
  <2> QED
    BY <1>4, <2>1, <2>3, <2>4, <2>5, Zenon DEF h
<1> QED
  BY <1>3, <1>4, Zenon

\* The frames after the k-th are bytes.
LEMMA RestType ==
    ASSUME NEW fs \in Seq(Allowed), NEW k \in Nat
    PROVE  /\ Rest(fs, k) \in Seq(Byte)
           /\ [j \in 1 .. Len(fs) - k |-> Encode(fs[k + j])] \in Seq(Seq(Byte))
<1> DEFINE n == Len(fs) - k
           ss == [j \in 1 .. n |-> Encode(fs[k + j])]
<1>1. ASSUME NEW j \in 1 .. n PROVE Encode(fs[k + j]) \in Seq(Byte)
  <2>1. k + j \in 1 .. Len(fs)
    OBVIOUS
  <2>2. fs[k + j] \in Allowed
    BY <2>1, ElementOfSeq, Zenon
  <2> QED
    BY <2>2, Encoded, Zenon
<1>2. ss \in Seq(Seq(Byte))
  <2> DEFINE g(j) == Encode(fs[k + j])
             B == Seq(Byte)
  <2>1. \A j \in 1 .. n : g(j) \in B
    BY <1>1, Zenon
  <2>2. n \in Int
    OBVIOUS
  <2> HIDE DEF g, B, n
  <2>3. [j \in 1 .. n |-> g(j)] \in Seq(B)
    <3>1. CASE n \in Nat
      BY <2>1, <3>1
    <3>2. CASE n \notin Nat
      <4>1. 1 .. n = {}
        BY <2>2, <3>2
      <4>2. [j \in {} |-> g(j)] = <<>> /\ <<>> \in Seq(B)
        OBVIOUS
      <4> QED
        BY <4>1, <4>2, Zenon
    <3> QED
      BY <3>1, <3>2
  <2> QED
    BY <2>3, Zenon DEF g, B
<1>3. FlattenSeq(ss) \in Seq(Byte)
  BY <1>2, FlattenType, Zenon
<1> QED
  BY <1>2, <1>3, Zenon DEF Rest

\* After the last frame there is nothing.
LEMMA RestNone ==
    ASSUME NEW fs \in Seq(Allowed), NEW k \in Nat, Len(fs) <= k
    PROVE  Rest(fs, k) = <<>>
<1> DEFINE g(j) == Encode(fs[k + j])
<1>1. 1 .. Len(fs) - k = {}
  OBVIOUS
<1>2. Rest(fs, k) = FlattenSeq([j \in 1 .. Len(fs) - k |-> g(j)])
  BY Zenon DEF Rest
<1> HIDE DEF g
<1>3. [j \in {} |-> g(j)] = <<>>
  OBVIOUS
<1> QED
  BY <1>1, <1>2, <1>3, FlattenEmpty, Zenon

\* The next frame is the first of the rest.
LEMMA RestNext ==
    ASSUME NEW fs \in Seq(Allowed), NEW k \in Nat, k < Len(fs)
    PROVE  /\ fs[k + 1] \in Allowed
           /\ Rest(fs, k + 1) \in Seq(Byte)
           /\ Rest(fs, k) = Encode(fs[k + 1]) \o Rest(fs, k + 1)
<1> DEFINE n == Len(fs) - (k + 1)
           g(j) == Encode(fs[j])
           ss == [j \in 1 .. n |-> g((k + 1) + j)]
           tt == [j \in 1 .. Len(fs) - k |-> g(k + j)]
           B == Seq(Byte)
<1>1. k + 1 \in Nat /\ k + 1 \in 1 .. Len(fs) /\ n \in Nat /\ Len(fs) - k = n + 1
  OBVIOUS
<1>2. fs[k + 1] \in Allowed /\ g(k + 1) \in B
  BY <1>1, ElementOfSeq, Encoded, Zenon
<1>3. Rest(fs, k + 1) \in B /\ ss \in Seq(B) /\ tt \in Seq(B)
  BY <1>1, RestType, Zenon
<1>4. Rest(fs, k + 1) = FlattenSeq(ss) /\ Rest(fs, k) = FlattenSeq(tt)
  BY Zenon DEF Rest
<1>5. tt = <<g(k + 1)>> \o ss
  <2> HIDE DEF g, B
  <2>1. Len(ss) = n /\ Len(tt) = n + 1
    BY <1>1
  <2>2. \A j \in 1 .. n + 1 : tt[j] = g(k + j)
    BY <1>1
  <2>3. \A j \in 1 .. n : ss[j] = g((k + 1) + j)
    BY <1>1
  <2> DEFINE e == g(k + 1)
             uu == <<e>> \o ss
  <2>4. e \in B
    BY <1>2
  <2> HIDE DEF e, ss, tt, n
  <2>5. uu \in Seq(B) /\ Len(uu) = n + 1 /\ uu[1] = e /\ \A j \in 1 .. n : uu[j + 1] = ss[j]
    <3>1. <<e>> \in Seq(B) /\ Len(<<e>>) = 1 /\ <<e>>[1] = e
      BY <2>4
    <3>2. /\ uu \in Seq(B) /\ Len(uu) = 1 + n
          /\ \A i \in 1 .. 1 + n : uu[i] = IF i <= 1 THEN <<e>>[i] ELSE ss[i - 1]
      BY <1>3, <2>1, <3>1, ConcatProperties
    <3> HIDE DEF uu
    <3>3. 1 \in 1 .. 1 + n /\ 1 + n = n + 1
      BY <1>1
    <3>4. ASSUME NEW j \in 1 .. n PROVE uu[j + 1] = ss[j]
      <4>1. j + 1 \in 1 .. 1 + n /\ ~ (j + 1 <= 1) /\ (j + 1) - 1 = j
        BY <1>1
      <4> QED
        BY <3>2, <4>1
    <3>5. uu[1] = <<e>>[1]
      BY <3>2, <3>3
    <3> QED
      BY <3>1, <3>2, <3>3, <3>4, <3>5, Zenon
  <2> HIDE DEF uu
  <2>6. \A j \in 1 .. n + 1 : tt[j] = uu[j]
    <3> SUFFICES ASSUME NEW j \in 1 .. n + 1 PROVE tt[j] = uu[j]
      OBVIOUS
    <3>1. CASE j = 1
      BY <2>2, <2>5, <3>1 DEF e
    <3>2. CASE j # 1
      <4>1. j - 1 \in 1 .. n /\ (j - 1) + 1 = j /\ (k + 1) + (j - 1) = k + j
        BY <1>1, <3>2
      <4>2. tt[j] = g(k + j) /\ ss[j - 1] = g((k + 1) + (j - 1))
        BY <2>2, <2>3, <4>1
      <4>3. uu[(j - 1) + 1] = ss[j - 1]
        BY <2>5, <4>1
      <4> QED
        BY <4>1, <4>2, <4>3
    <3> QED
      BY <3>1, <3>2
  <2>7. tt = uu
    BY <1>3, <2>1, <2>5, <2>6, SeqEqual
  <2> QED
    BY <2>7, Zenon DEF uu, e
<1>6. FlattenSeq(<<g(k + 1)>> \o ss) = g(k + 1) \o FlattenSeq(ss)
  <2> HIDE DEF g, ss
  <2> QED
    BY <1>2, <1>3, FlattenCons
<1> QED
  BY <1>2, <1>3, <1>4, <1>5, <1>6, Zenon

\* A frame that is sent is the last of the rest.
LEMMA RestSent ==
    ASSUME NEW fs \in Seq(Allowed), NEW f \in Allowed, NEW k \in Nat, k <= Len(fs)
    PROVE  Rest(Append(fs, f), k) = Rest(fs, k) \o Encode(f)
<1> DEFINE n == Len(fs) - k
           g(j) == Encode(fs[j])
           h(j) == Encode(Append(fs, f)[j])
           ss == [j \in 1 .. n |-> g(k + j)]
           tt == [j \in 1 .. Len(Append(fs, f)) - k |-> h(k + j)]
           B == Seq(Byte)
           e == Encode(f)
<1>1. /\ n \in Nat /\ Append(fs, f) \in Seq(Allowed) /\ Len(Append(fs, f)) - k = n + 1
      /\ k + (n + 1) = Len(fs) + 1
  OBVIOUS
<1>2. e \in B /\ Rest(fs, k) \in B /\ ss \in Seq(B) /\ tt \in Seq(B)
  BY <1>1, RestType, Encoded, Zenon
<1>3. Rest(fs, k) = FlattenSeq(ss) /\ Rest(Append(fs, f), k) = FlattenSeq(tt)
  BY Zenon DEF Rest
<1>4. \A j \in 1 .. n : h(k + j) = g(k + j)
  <2>1. \A j \in 1 .. n : Append(fs, f)[k + j] = fs[k + j]
    BY AppendProperties
  <2> QED
    BY <2>1, Zenon
<1>5. h(k + (n + 1)) = e
  <2>1. Append(fs, f)[Len(fs) + 1] = f
    BY AppendProperties
  <2>2. Append(fs, f)[k + (n + 1)] = f
    BY <1>1, <2>1, Zenon
  <2> QED
    BY <2>2, Zenon
<1>6. tt = Append(ss, e)
  <2> HIDE DEF g, h, B, e
  <2>1. Len(ss) = n /\ Len(tt) = n + 1
    BY <1>1
  <2>2. \A j \in 1 .. n + 1 : tt[j] = h(k + j)
    BY <1>1
  <2>3. \A j \in 1 .. n : ss[j] = g(k + j)
    BY <1>1
  <2> HIDE DEF ss, tt, n
  <2> DEFINE uu == Append(ss, e)
  <2>4. /\ uu \in Seq(B) /\ Len(uu) = n + 1 /\ uu[n + 1] = e
        /\ \A j \in 1 .. n : uu[j] = ss[j]
    BY <1>2, <2>1, AppendProperties
  <2> HIDE DEF uu
  <2>5. \A j \in 1 .. n + 1 : tt[j] = uu[j]
    <3> SUFFICES ASSUME NEW j \in 1 .. n + 1 PROVE tt[j] = uu[j]
      OBVIOUS
    <3>1. CASE j = n + 1
      BY <1>5, <2>2, <2>4, <3>1
    <3>2. CASE j # n + 1
      <4>1. j \in 1 .. n
        BY <1>1, <3>2
      <4> QED
        BY <1>4, <2>2, <2>3, <2>4, <4>1
    <3> QED
      BY <3>1, <3>2
  <2>6. tt = uu
    BY <1>2, <2>1, <2>4, <2>5, SeqEqual
  <2> QED
    BY <2>6, Zenon DEF uu
<1>7. FlattenSeq(Append(ss, e)) = FlattenSeq(ss) \o e
  <2> HIDE DEF ss, e
  <2> QED
    BY <1>2, FlattenAppend
<1> QED
  BY <1>3, <1>6, <1>7, Zenon

-----------------------------------------------------------------------------
(* The inductive invariant.                                                 *)

\* The bytes of a handshake, one element for each of its fields, and of frames.
Element(h) == Byte \cup {h.length, h.protocol, "flags", h.hash, "peer id"}

Arrived(n, s) == n \in Nat /\ n <= Len(s)

\* The payload that `consume` finds has the size that its id tells.
BodyFits ==
    /\ body \in Seq(Byte)
    /\ id \notin Variable => Len(body) = Expected(id)

Types ==
    /\ hello \in Handshakes
    /\ frames \in Seq(Allowed)
    /\ Len(frames) <= MaxFrames
    /\ stream \in Seq(Element(hello))
    /\ Arrived(arrived, stream)
    /\ closed \in BOOLEAN
    /\ at \in Awaiting \cup {"errored", "panicked"}
    /\ total \in Nat
    /\ at \in {"id", "payload", "extra"} => total > 0
    /\ id \in DOMAIN MessageId
    /\ returned \in Seq(AnyMessage)
    /\ at \notin {"handshake", "errored"} => stream \in Seq(Byte)
    /\ at = "extra" => BodyFits

AtHandshake ==
    at = "handshake" =>
        returned = <<>> /\ Holds(stream, closed, HandshakeFields(hello) \o Rest(frames, 0))

\* The frame f is being read, and rest follows it.
InFrame(f, rest) ==
    /\ f.message.type # "keepAlive"
    /\ total = Size(f)
    /\ at = "id" => Holds(stream, closed, AfterLength(f, rest))
    /\ at # "id" => f.message.type = id
    /\ at = "payload" => Holds(stream, closed, Written(f) \o rest)
    /\ at = "extra" /\ f.pad >= 0 =>
         body = Payload(f.message) /\ Holds(stream, closed, Zeros(f) \o rest)

\* The reader is where the frames say, until one of them was too short.
InStep ==
    \A k \in Nat : k = Len(returned) /\ Whole(k) =>
        /\ at = "length" => Holds(stream, closed, Rest(frames, k))
        /\ at \in {"id", "payload", "extra"} =>
             /\ k < Len(frames)
             /\ \E f \in {frames[k + 1]}, rest \in {Rest(frames, k + 1)} : InFrame(f, rest)

Delivered ==
    \A k \in DOMAIN returned : Whole(k) => k <= Len(frames) /\ returned[k] = frames[k].message

WInv == Types /\ AtHandshake /\ InStep /\ Delivered /\ FailsForAReason

\* The invariant's types are those of TypeOK.
LEMMA TypesSuffice == Types => TypeOK
<1>1. arrived \in Nat /\ arrived <= Len(stream) /\ stream \in Seq(Element(hello))
        => arrived \in 0 .. Len(stream)
  OBVIOUS
<1> QED
  BY <1>1, Zenon DEF Types, TypeOK, Arrived

\* The handshake has the length that is read.
LEMMA Fields5 ==
    /\ HandshakeFields(hello) \in Seq(Element(hello))
    /\ Len(HandshakeFields(hello)) = HandshakeLength
BY DEF HandshakeFields, Element, HandshakeLength

\* Bytes may stand in the stream, whatever the handshake.
LEMMA BytesAreElements ==
    ASSUME NEW s \in Seq(Byte), NEW h
    PROVE  s \in Seq(Element(h))
<1> DEFINE E == Element(h)
<1>1. \A x \in Byte : x \in E
  BY Zenon DEF Element
<1> HIDE DEF E
<1>2. s \in Seq(E)
  BY <1>1
<1> QED
  BY <1>2, Zenon DEF E

\* The invariant holds at the start.
LEMMA WInit == Init => WInv
<1> SUFFICES ASSUME Init PROVE WInv
  OBVIOUS
<1>1. HandshakeFields(hello) \in Seq(Element(hello)) /\ <<>> \in Seq(Byte)
  BY Fields5
<1>2. frames \in Seq(Allowed) /\ Len(frames) = 0 /\ returned \in Seq(AnyMessage) /\ MaxFrames >= 0
  BY WireAssumption DEF Init
<1>3. Types
  <2>1. Arrived(arrived, stream)
    BY <1>1 DEF Init, Arrived
  <2>2. "choke" \in DOMAIN MessageId
    BY Ids
  <2>3. at = "handshake" /\ total = 0 /\ 0 \in Nat
    BY DEF Init
  <2>4. at \notin {"id", "payload", "extra"} /\ at # "extra" /\ at \in Awaiting
    BY <2>3 DEF Awaiting
  <2>5. Len(frames) <= MaxFrames
    BY <1>2, WireAssumption
  <2> QED
    BY <1>1, <1>2, <2>1, <2>2, <2>3, <2>4, <2>5 DEF Init, Types
<1>4. AtHandshake
  <2>1. Rest(frames, 0) = <<>>
    <3>1. 0 \in Nat /\ Len(frames) <= 0
      BY <1>2
    <3> QED
      BY <1>2, <3>1, RestNone, Zenon
  <2>2. HandshakeFields(hello) \o <<>> = HandshakeFields(hello)
    BY <1>1
  <2>3. Holds(stream, FALSE, HandshakeFields(hello))
    BY <1>1, HoldsAll, Zenon DEF Init
  <2> QED
    BY <2>1, <2>2, <2>3, Zenon DEF Init, AtHandshake
<1>5. InStep
  BY Zenon DEF Init, InStep
<1>6. Delivered
  BY DEF Init, Delivered
<1>7. FailsForAReason
  BY DEF Init, FailsForAReason, Awaiting
<1> QED
  BY <1>3, <1>4, <1>5, <1>6, <1>7 DEF WInv

-----------------------------------------------------------------------------
(* The steps of the peer and of the network.                                *)

LEMMA LongerStream ==
    ASSUME NEW V, NEW s \in Seq(V), NEW x \in Seq(V), NEW n, Arrived(n, s)
    PROVE  s \o x \in Seq(V) /\ Arrived(n, s \o x)
<1>1. s \o x \in Seq(V) /\ Len(s \o x) = Len(s) + Len(x) /\ Len(s) \in Nat /\ Len(x) \in Nat
  OBVIOUS
<1> DEFINE l == Len(s)
           m == Len(x)
           k == Len(s \o x)
<1>2. k = l + m /\ l \in Nat /\ m \in Nat /\ n \in Nat /\ n <= l
  BY <1>1 DEF Arrived
<1> HIDE DEF l, m, k
<1>3. n <= k
  BY <1>2
<1> QED
  BY <1>1, <1>2, <1>3, Zenon DEF Arrived, k

\* A frame more keeps those before.
LEMMA OneMore ==
    ASSUME NEW V, NEW fs \in Seq(V), NEW N \in Nat, Len(fs) < N, NEW f \in V
    PROVE  /\ Append(fs, f) \in Seq(V) /\ Len(Append(fs, f)) <= N
           /\ \A j \in DOMAIN fs : j \in DOMAIN Append(fs, f) /\ Append(fs, f)[j] = fs[j]
OBVIOUS

\* The frames are those there were, and perhaps more.
Extended ==
    \A j \in DOMAIN frames : j \in DOMAIN frames' /\ frames'[j] = frames[j]

\* If all frames are whole, those before one more were.
LEMMA MoreFrames ==
    ASSUME Extended, hello' = hello
    PROVE  /\ \A k : Whole(k)' => Whole(k)
           /\ frames' \in Seq(Allowed) /\ frames \in Seq(Allowed) => (Conforming' => Conforming)
<1>1. \A k : Whole(k)' => Whole(k)
  BY Zenon DEF Whole, Extended
<1>2. ASSUME frames' \in Seq(Allowed), frames \in Seq(Allowed), Conforming'
      PROVE  Conforming
  <2>1. \A j \in DOMAIN frames : j \in DOMAIN frames'
    BY Zenon DEF Extended
  <2>2. \A j \in DOMAIN frames : Understood(frames[j].message)
    <3>1. \A j \in DOMAIN frames' : Understood(frames'[j].message)
      BY <1>2, Zenon DEF Conforming
    <3> QED
      BY <3>1, Zenon DEF Extended
  <2>3. Whole(Len(frames))
    <3>1. DOMAIN frames' = 1 .. Len(frames') /\ DOMAIN frames = 1 .. Len(frames)
      BY <1>2
    <3>2. \A j \in 1 .. Len(frames') : j \in DOMAIN frames' => frames'[j].pad >= 0
      BY <1>2, Zenon DEF Conforming, Whole
    <3>3. \A j \in DOMAIN frames : frames[j].pad >= 0
      BY <3>1, <3>2, Zenon DEF Extended
    <3> QED
      BY <3>1, <3>3, Zenon DEF Whole
  <2>4. hello = [length |-> 19, protocol |-> P_STR, hash |-> InfoHash]
    BY <1>2, Zenon DEF Conforming
  <2> QED
    BY <2>2, <2>3, <2>4, Zenon DEF Conforming
<1> QED
  BY <1>1, <1>2, Zenon

\* Frames that the reader has not reached.
LEMMA FlowSent ==
    ASSUME NEW V, NEW e \in Seq(V), NEW rest \in Seq(V), NEW x \in Seq(V), NEW s,
           Holds(s, FALSE, e \o rest)
    PROVE  Holds(s \o x, FALSE, e \o (rest \o x))
<1>1. (e \o rest) \o x = e \o (rest \o x)
  <2>1. Associates(V)
    BY Associative, Zenon
  <2> QED
    BY <2>1, Zenon DEF Associates
<1>2. e \o rest \in Seq(V)
  OBVIOUS
<1> DEFINE w == e \o rest
<1> HIDE DEF w
<1>3. Holds(s \o x, FALSE, w \o x)
  BY <1>2, HoldsMore, Zenon DEF w
<1> QED
  BY <1>1, <1>3, Zenon DEF w

\* Whatever comes after a frame follows its bytes.
LEMMA IdAndPayload ==
    ASSUME NEW f \in Allowed
    PROVE  \E e \in Seq(Byte) : \A t \in Seq(Byte) : AfterLength(f, t) = e \o t
<1> DEFINE i == <<IdOf(f.message)>>
           p == Written(f)
<1>1. p \in Seq(Byte) /\ IdOf(f.message) \in Byte
  BY FrameType, Zenon
<1>2. i \in Seq(Byte)
  BY <1>1
<1>3. \A t : AfterLength(f, t) = i \o (p \o t)
  BY Zenon DEF AfterLength
<1> HIDE DEF i, p
<1>4. Associates(Byte)
  BY Associative, Zenon
<1>5. i \o p \in Seq(Byte)
  BY <1>1, <1>2
<1>6. ASSUME NEW t \in Seq(Byte) PROVE AfterLength(f, t) = (i \o p) \o t
  <2>1. (i \o p) \o t = i \o (p \o t)
    BY <1>1, <1>2, <1>4, Zenon DEF Associates
  <2> QED
    BY <1>3, <2>1, Zenon
<1> QED
  BY <1>5, <1>6, Zenon

\* The peer writes a frame behind those it has written.
LEMMA WPeerSends ==
    ASSUME WInv, NEW m \in Messages, NEW pad \in Pads, PeerSends([pad |-> pad, message |-> m])
    PROVE  WInv'
<1> DEFINE f == [pad |-> pad, message |-> m]
<1>1. f \in Allowed
  BY Zenon DEF PeerSends, Allowed
<1>2. /\ ~ closed /\ Len(frames) < MaxFrames
      /\ frames' = Append(frames, f) /\ stream' = stream \o Encode(f)
      /\ UNCHANGED <<hello, arrived, closed, at, total, id, body, returned>>
  BY Zenon DEF PeerSends, reading
<1> HIDE DEF f
<1>3. Types /\ AtHandshake /\ InStep /\ Delivered /\ FailsForAReason
  BY Zenon DEF WInv
<1>4. Encode(f) \in Seq(Byte)
  BY <1>1, Encoded, Zenon
<1>5. frames \in Seq(Allowed) /\ frames' \in Seq(Allowed) /\ Len(frames') <= MaxFrames /\ Extended
  <2>1. frames \in Seq(Allowed) /\ MaxFrames \in Nat
    BY <1>3, WireAssumption, Zenon DEF Types
  <2>2. /\ Append(frames, f) \in Seq(Allowed) /\ Len(Append(frames, f)) <= MaxFrames
        /\ \A j \in DOMAIN frames : j \in DOMAIN Append(frames, f) /\ Append(frames, f)[j] = frames[j]
    BY <1>1, <1>2, <2>1, OneMore
  <2> QED
    BY <1>2, <2>1, <2>2, Zenon DEF Extended
<1>6. Types'
  <2>1. stream' \in Seq(Element(hello)) /\ Arrived(arrived, stream')
    <3>1. Encode(f) \in Seq(Element(hello))
      BY <1>4, BytesAreElements, Zenon
    <3>2. stream \in Seq(Element(hello)) /\ Arrived(arrived, stream)
      BY <1>3, Zenon DEF Types
    <3> QED
      BY <1>2, <3>1, <3>2, LongerStream, Zenon
  <2>2. at \notin {"handshake", "errored"} => stream' \in Seq(Byte)
    <3>1. ASSUME stream \in Seq(Byte) PROVE stream \o Encode(f) \in Seq(Byte)
      BY <1>4, <3>1
    <3> QED
      BY <1>2, <1>3, <3>1, Zenon DEF Types
  <2> QED
    BY <1>2, <1>3, <1>5, <2>1, <2>2, Zenon DEF Types, BodyFits
<1>7. AtHandshake'
  <2> SUFFICES ASSUME at = "handshake"
               PROVE  Holds(stream', closed', HandshakeFields(hello') \o Rest(frames', 0))
    BY <1>2, <1>3, Zenon DEF AtHandshake
  <2> DEFINE V == Element(hello)
             h == HandshakeFields(hello)
             r == Rest(frames, 0)
             x == Encode(f)
  <2>1. Rest(frames', 0) = r \o x
    <3>1. 0 \in Nat /\ 0 <= Len(frames)
      BY <1>5
    <3> QED
      BY <1>1, <1>2, <1>5, <3>1, RestSent, Zenon
  <2>2. h \in Seq(V) /\ r \in Seq(V) /\ x \in Seq(V)
    <3>1. 0 \in Nat
      OBVIOUS
    <3> QED
      BY <1>4, <1>5, <3>1, Fields5, RestType, BytesAreElements, Zenon
  <2>3. closed = FALSE
    BY <1>2, <1>3, Zenon DEF Types
  <2>4. Holds(stream, FALSE, h \o r)
    BY <1>3, <2>3, Zenon DEF AtHandshake
  <2> HIDE DEF V, h, r, x
  <2>5. Holds(stream \o x, FALSE, h \o (r \o x))
    BY <2>2, <2>4, FlowSent, Zenon
  <2> QED
    BY <1>2, <2>1, <2>3, <2>5, Zenon DEF h, x
<1>8. InStep'
  <2> SUFFICES ASSUME NEW k \in Nat, k = Len(returned), Whole(k)'
               PROVE  /\ at = "length" => Holds(stream', closed', Rest(frames', k))
                      /\ at \in {"id", "payload", "extra"} =>
                           /\ k < Len(frames')
                           /\ \E g \in {frames'[k + 1]}, rest \in {Rest(frames', k + 1)} :
                                  InFrame(g, rest)'
    BY <1>2, Zenon DEF InStep
  <2> DEFINE x == Encode(f)
  <2>1. Whole(k)
    BY <1>2, <1>5, MoreFrames, Zenon
  <2>2. closed = FALSE /\ closed' = FALSE
    BY <1>2, <1>3, Zenon DEF Types
  <2>3. x \in Seq(Byte) /\ stream' = stream \o x
    BY <1>2, <1>4, Zenon
  <2> HIDE DEF x
  <2>4. ASSUME NEW j \in Nat, j <= Len(frames)
        PROVE  Rest(frames', j) = Rest(frames, j) \o x
    BY <1>1, <1>2, <1>5, <2>4, RestSent, Zenon DEF x
  <2>5. CASE at = "length"
    <3>1. k <= Len(frames)
      <4>1. CASE k = 0
        BY <1>5, <4>1
      <4>2. CASE k # 0
        <5>1. k \in DOMAIN returned
          BY <1>3, <4>2 DEF Types
        <5> QED
          BY <1>3, <2>1, <5>1, Zenon DEF Delivered
      <4> QED
        BY <4>1, <4>2
    <3>2. Holds(stream, FALSE, Rest(frames, k)) /\ Rest(frames, k) \in Seq(Byte)
      BY <1>3, <1>5, <2>1, <2>2, <2>5, RestType, Zenon DEF InStep
    <3>3. Holds(stream \o x, FALSE, Rest(frames, k) \o x)
      BY <2>3, <3>2, HoldsMore, Zenon
    <3> QED
      BY <2>2, <2>3, <2>4, <2>5, <3>1, <3>3, Zenon
  <2>6. CASE at \in {"id", "payload", "extra"}
    <3>1. k < Len(frames) /\ \E g \in {frames[k + 1]}, rest \in {Rest(frames, k + 1)} : InFrame(g, rest)
      BY <1>3, <2>1, <2>6, Zenon DEF InStep
    <3>2. PICK g, rest : g = frames[k + 1] /\ rest = Rest(frames, k + 1) /\ InFrame(g, rest)
      BY <3>1, Zenon
    <3>3. /\ k + 1 \in Nat /\ k + 1 <= Len(frames) /\ k + 1 \in DOMAIN frames
          /\ k < Len(Append(frames, f))
      BY <1>1, <1>5, <3>1
    <3>4. Rest(frames', k + 1) = rest \o x /\ frames'[k + 1] = g /\ k < Len(frames')
      BY <1>2, <1>5, <2>4, <3>2, <3>3, Zenon DEF Extended
    <3>5. g \in Allowed /\ rest \in Seq(Byte)
      BY <1>5, <3>1, <3>2, RestNext, Zenon
    <3>6. ASSUME NEW e \in Seq(Byte), Holds(stream, closed, e \o rest)
          PROVE  Holds(stream', closed', e \o (rest \o x))
      BY <2>2, <2>3, <3>5, <3>6, FlowSent, Zenon
    <3>7. InFrame(g, rest \o x)'
      <4>1. Written(g) \in Seq(Byte) /\ (g.pad >= 0 => Zeros(g) \in Seq(Byte))
        BY <3>5, FrameType, Zenon
      <4>2. at = "id" => Holds(stream', closed', AfterLength(g, rest \o x))
        <5>1. PICK e \in Seq(Byte) : \A t \in Seq(Byte) : AfterLength(g, t) = e \o t
          BY <3>5, IdAndPayload, Zenon
        <5>2. rest \o x \in Seq(Byte)
          BY <2>3, <3>5
        <5> QED
          BY <3>2, <3>5, <3>6, <5>1, <5>2, Zenon DEF InFrame
      <4>3. at = "payload" => Holds(stream', closed', Written(g) \o (rest \o x))
        BY <3>2, <3>6, <4>1, Zenon DEF InFrame
      <4>4. at = "extra" /\ g.pad >= 0 => Holds(stream', closed', Zeros(g) \o (rest \o x))
        BY <3>2, <3>6, <4>1, Zenon DEF InFrame
      <4> QED
        BY <1>2, <3>2, <4>2, <4>3, <4>4, Zenon DEF InFrame
    <3> QED
      BY <2>6, <3>4, <3>7, Zenon
  <2> QED
    BY <2>5, <2>6, Zenon
<1>9. Delivered'
  <2> SUFFICES ASSUME NEW k \in DOMAIN returned, Whole(k)'
               PROVE  k <= Len(frames') /\ returned[k] = frames'[k].message
    BY <1>2, Zenon DEF Delivered
  <2>1. Whole(k)
    BY <1>2, <1>5, MoreFrames, Zenon
  <2>2. k <= Len(frames) /\ returned[k] = frames[k].message
    BY <1>3, <2>1, Zenon DEF Delivered
  <2>3. k \in DOMAIN frames /\ k <= Len(Append(frames, f))
    BY <1>1, <1>3, <1>5, <2>2 DEF Types
  <2> QED
    BY <1>2, <1>5, <2>2, <2>3, Zenon DEF Extended
<1>10. FailsForAReason'
  <2>1. Conforming' => Conforming
    BY <1>2, <1>5, MoreFrames, Zenon
  <2> QED
    BY <1>2, <1>3, <2>1, Zenon DEF FailsForAReason
<1> QED
  BY <1>6, <1>7, <1>8, <1>9, <1>10, Zenon DEF WInv

\* Bytes arrive and nothing else changes.
LEMMA WArrive ==
    ASSUME WInv, Arrive
    PROVE  WInv'
<1>1. /\ arrived < Len(stream) /\ arrived' = arrived + 1
      /\ UNCHANGED <<hello, frames, stream, closed, at, total, id, body, returned>>
  BY Zenon DEF Arrive, reading
<1>2. Types /\ AtHandshake /\ InStep /\ Delivered /\ FailsForAReason
  BY Zenon DEF WInv
<1>3. Arrived(arrived', stream)
  <2>1. ASSUME NEW a, NEW l \in Nat, a \in Nat, a < l, NEW b, b = a + 1
        PROVE  b \in Nat /\ b <= l
    BY <2>1
  <2>2. Len(stream) \in Nat
    BY <1>2 DEF Types
  <2> QED
    BY <1>1, <1>2, <2>1, <2>2, Zenon DEF Types, Arrived
<1>4. Types'
  BY <1>1, <1>2, <1>3, Zenon DEF Types, BodyFits
<1>5. AtHandshake' /\ InStep' /\ Delivered' /\ FailsForAReason'
  BY <1>1, <1>2, Zenon DEF AtHandshake, InStep, InFrame, Delivered, FailsForAReason, Whole, Conforming
<1> QED
  BY <1>4, <1>5, Zenon DEF WInv

\* The part of a stream that has arrived has arrived.
LEMMA Shorter ==
    ASSUME NEW V, NEW s \in Seq(V), NEW a, Arrived(a, s)
    PROVE  SubSeq(s, 1, a) \in Seq(V) /\ Arrived(a, SubSeq(s, 1, a))
BY DEF Arrived

\* The connection ends: what had not arrived is cut off.
LEMMA WClose ==
    ASSUME WInv, Close
    PROVE  WInv'
<1>1. /\ closed' = TRUE /\ stream' = SubSeq(stream, 1, arrived)
      /\ UNCHANGED <<hello, frames, arrived, at, total, id, body, returned>>
  BY Zenon DEF Close, reading
<1>2. Types /\ AtHandshake /\ InStep /\ Delivered /\ FailsForAReason
  BY Zenon DEF WInv
<1>3. stream \in Seq(Element(hello)) /\ Arrived(arrived, stream) /\ frames \in Seq(Allowed)
  BY <1>2, Zenon DEF Types
<1>4. Types'
  <2>1. stream' \in Seq(Element(hello)) /\ Arrived(arrived, stream')
    BY <1>1, <1>3, Shorter, Zenon
  <2>2. stream \in Seq(Byte) => stream' \in Seq(Byte)
    BY <1>1, <1>3, Shorter, Zenon
  <2> QED
    BY <1>1, <1>2, <2>1, <2>2, Zenon DEF Types, BodyFits
<1>5. ASSUME NEW V, NEW e \in Seq(V), Holds(stream, closed, e)
      PROVE  Holds(stream', TRUE, e)
  <2>1. arrived \in Nat /\ arrived <= Len(stream)
    BY <1>3, Zenon DEF Arrived
  <2> QED
    BY <1>1, <1>5, <2>1, HoldsEnded, Zenon
<1>6. AtHandshake'
  <2>1. HandshakeFields(hello) \o Rest(frames, 0) \in Seq(Element(hello))
    <3> DEFINE V == Element(hello)
               h == HandshakeFields(hello)
               r == Rest(frames, 0)
    <3>1. 0 \in Nat
      OBVIOUS
    <3>2. h \in Seq(V) /\ r \in Seq(V)
      BY <1>3, <3>1, Fields5, RestType, BytesAreElements, Zenon
    <3> HIDE DEF V, h, r
    <3>3. h \o r \in Seq(V)
      BY <3>2
    <3> QED
      BY <3>3, Zenon DEF V, h, r
  <2> QED
    BY <1>1, <1>2, <1>5, <2>1, Zenon DEF AtHandshake
<1>7. InStep'
  <2> SUFFICES ASSUME NEW k \in Nat, k = Len(returned), Whole(k)
               PROVE  /\ at = "length" => Holds(stream', TRUE, Rest(frames, k))
                      /\ at \in {"id", "payload", "extra"} =>
                           /\ k < Len(frames)
                           /\ \E g \in {frames[k + 1]}, rest \in {Rest(frames, k + 1)} :
                                  InFrame(g, rest)'
    BY <1>1, Zenon DEF InStep, Whole
  <2>1. CASE at = "length"
    BY <1>2, <1>3, <1>5, <2>1, RestType, Zenon DEF InStep
  <2>2. CASE at \in {"id", "payload", "extra"}
    <3>1. k < Len(frames) /\ \E g \in {frames[k + 1]}, rest \in {Rest(frames, k + 1)} : InFrame(g, rest)
      BY <1>2, <2>2, Zenon DEF InStep
    <3>2. PICK g, rest : g = frames[k + 1] /\ rest = Rest(frames, k + 1) /\ InFrame(g, rest)
      BY <3>1, Zenon
    <3>3. g \in Allowed /\ rest \in Seq(Byte)
      BY <1>3, <3>1, <3>2, RestNext, Zenon
    <3>4. ASSUME NEW e \in Seq(Byte), Holds(stream, closed, e \o rest)
          PROVE  Holds(stream', TRUE, e \o rest)
      <4>1. e \o rest \in Seq(Byte)
        BY <3>3
      <4> QED
        BY <1>5, <3>4, <4>1, Zenon
    <3>5. Written(g) \in Seq(Byte) /\ (g.pad >= 0 => Zeros(g) \in Seq(Byte))
      BY <3>3, FrameType, Zenon
    <3>6. at = "id" => Holds(stream', TRUE, AfterLength(g, rest))
      <4>1. PICK e \in Seq(Byte) : \A t \in Seq(Byte) : AfterLength(g, t) = e \o t
        BY <3>3, IdAndPayload, Zenon
      <4> QED
        BY <3>2, <3>3, <3>4, <4>1, Zenon DEF InFrame
    <3>7. InFrame(g, rest)'
      BY <1>1, <3>2, <3>4, <3>5, <3>6, Zenon DEF InFrame
    <3> QED
      BY <2>2, <3>1, <3>2, <3>7, Zenon
  <2> QED
    BY <2>1, <2>2, Zenon
<1>8. Delivered' /\ FailsForAReason'
  BY <1>1, <1>2, Zenon DEF Delivered, FailsForAReason, Whole
<1> QED
  BY <1>4, <1>6, <1>7, <1>8, Zenon DEF WInv

\* The reader gives up where the stream has ended.
LEMMA WReadFails ==
    ASSUME WInv, ReadFails
    PROVE  WInv'
<1>1. /\ closed /\ at' = "errored"
      /\ UNCHANGED <<hello, frames, stream, arrived, closed, total, id, body, returned>>
  BY Zenon DEF ReadFails, reading
<1>2. Types /\ Delivered
  BY Zenon DEF WInv
<1>3. at' \in Awaiting \cup {"errored", "panicked"} /\ at' \notin {"handshake", "length"}
      /\ at' \notin {"id", "payload", "extra"} /\ at' # "extra"
  BY <1>1
<1>4. Types'
  BY <1>1, <1>2, <1>3, Zenon DEF Types
<1>5. AtHandshake' /\ InStep' /\ Delivered' /\ FailsForAReason'
  BY <1>1, <1>2, <1>3, Zenon DEF AtHandshake, InStep, Delivered, FailsForAReason, Whole
<1> QED
  BY <1>4, <1>5, Zenon DEF WInv

-----------------------------------------------------------------------------
(* The steps of the reader.                                                 *)

LEMMA WantedType ==
    ASSUME Types
    PROVE  /\ Wanted \in Nat
           /\ at \in {"id", "payload", "extra"} => payload_length \in Nat
<1>1. at \in {"id", "payload", "extra"} => payload_length \in Nat
  BY DEF Types, payload_length
<1>2. \A t : Expected(t) \in Nat
  BY DEF Expected
<1>3. at = "extra" => Extra \in Nat
  BY <1>1, <1>2 DEF Extra
<1> HIDE DEF Types
<1>4. Wanted \in Nat
  BY <1>1, <1>2, <1>3 DEF Wanted, HandshakeLength
<1> QED
  BY <1>1, <1>4

\* Reading takes bytes from the front of what has arrived.
LEMMA Taken ==
    ASSUME NEW V, NEW s \in Seq(V), NEW n, Arrived(n, s), NEW w \in Nat, w <= n
    PROVE  /\ w <= Len(s)
           /\ SubSeq(s, 1, w) \in Seq(V) /\ Len(SubSeq(s, 1, w)) = w
           /\ SubSeq(s, w + 1, Len(s)) \in Seq(V)
           /\ Arrived(n - w, SubSeq(s, w + 1, Len(s)))
<1> DEFINE l == Len(s)
<1>1. l \in Nat /\ n \in Nat /\ n <= l
  BY DEF Arrived
<1>2. w <= l
  BY <1>1
<1>3. SubSeq(s, 1, w) \in Seq(V) /\ Len(SubSeq(s, 1, w)) = w
  BY <1>1, <1>2
<1>4. SubSeq(s, w + 1, l) \in Seq(V) /\ Len(SubSeq(s, w + 1, l)) = l - w
  BY <1>1, <1>2
<1>5. n - w \in Nat /\ n - w <= l - w
  BY <1>1, <1>2
<1> HIDE DEF l
<1>6. Arrived(n - w, SubSeq(s, w + 1, l))
  BY <1>4, <1>5, Zenon DEF Arrived
<1> QED
  BY <1>2, <1>3, <1>4, <1>6, Zenon DEF l

\* What every read_exact does: the state it leaves, and what it returns.
LEMMA ReadType ==
    ASSUME Types, NEW stage, Read(stage)
    PROVE  /\ at = stage /\ Wanted \in Nat /\ Wanted <= Len(stream)
           /\ UNCHANGED <<hello, frames, closed>>
           /\ stream' \in Seq(Element(hello)) /\ Arrived(arrived', stream')
           /\ stream \in Seq(Byte) =>
                stream' \in Seq(Byte) /\ Bytes \in Seq(Byte) /\ Len(Bytes) = Wanted
<1>1. /\ at = stage /\ arrived >= Wanted
      /\ stream' = SubSeq(stream, Wanted + 1, Len(stream)) /\ arrived' = arrived - Wanted
      /\ UNCHANGED <<hello, frames, closed>>
  BY Zenon DEF Read
<1>2. stream \in Seq(Element(hello)) /\ Arrived(arrived, stream)
  BY Zenon DEF Types
<1>3. Wanted \in Nat
  BY WantedType, Zenon
<1>4. Wanted <= arrived
  <2>1. ASSUME NEW a \in Nat, NEW w \in Nat, a >= w PROVE w <= a
    BY <2>1
  <2> QED
    BY <1>1, <1>2, <1>3, <2>1, Zenon DEF Arrived
<1>5. /\ Wanted <= Len(stream) /\ stream' \in Seq(Element(hello)) /\ Arrived(arrived', stream')
  BY <1>1, <1>2, <1>3, <1>4, Taken, Zenon
<1>6. ASSUME stream \in Seq(Byte)
      PROVE  stream' \in Seq(Byte) /\ Bytes \in Seq(Byte) /\ Len(Bytes) = Wanted
  BY <1>1, <1>2, <1>3, <1>4, <1>6, Taken, Zenon DEF Bytes
<1> QED
  BY <1>1, <1>3, <1>5, <1>6, Zenon

\* A read_exact of what comes first in the stream.
LEMMA ReadTakes ==
    ASSUME Types, NEW stage, Read(stage), NEW V, NEW f \in Seq(V), NEW b \in Seq(V),
           Holds(stream, closed, f \o b), Wanted = Len(f)
    PROVE  Bytes = f /\ Holds(stream', closed', b)
<1>1. stream' = SubSeq(stream, Wanted + 1, Len(stream)) /\ closed' = closed
  BY Zenon DEF Read
<1>2. Wanted \in Nat /\ Wanted <= Len(stream)
  BY ReadType, Zenon
<1>3. SubSeq(stream, 1, Wanted) = f /\ Holds(SubSeq(stream, Wanted + 1, Len(stream)), closed, b)
  BY <1>2, HoldsRead
<1> QED
  BY <1>1, <1>3, Zenon DEF Bytes

\* The handshake is taken whole.
LEMMA WReadHandshake ==
    ASSUME WInv, ReadHandshake
    PROVE  WInv'
<1>1. Types /\ AtHandshake /\ Delivered
  BY Zenon DEF WInv
<1>2. /\ Read("handshake") /\ at = "handshake"
      /\ at' = IF Bytes[1] = 19 /\ Bytes[2] = P_STR /\ Bytes[4] = InfoHash
               THEN "length" ELSE "errored"
      /\ UNCHANGED <<total, id, body, returned>>
  BY Zenon DEF ReadHandshake, Read, reading
<1>3. /\ UNCHANGED <<hello, frames, closed>>
      /\ stream' \in Seq(Element(hello)) /\ Arrived(arrived', stream')
  BY <1>1, <1>2, ReadType, Zenon
<1>4. frames \in Seq(Allowed) /\ 0 \in Nat
  BY <1>1 DEF Types
<1>5. Rest(frames, 0) \in Seq(Byte)
  BY <1>4, RestType, Zenon
<1>6. Bytes = HandshakeFields(hello) /\ Holds(stream', closed', Rest(frames, 0))
  <2>1. Wanted = Len(HandshakeFields(hello)) /\ HandshakeFields(hello) \in Seq(Element(hello))
    <3>1. Wanted = HandshakeLength
      BY <1>2 DEF Wanted
    <3> QED
      BY <3>1, Fields5, Zenon
  <2>2. Holds(stream, closed, HandshakeFields(hello) \o Rest(frames, 0))
    BY <1>1, <1>2, Zenon DEF AtHandshake
  <2>3. Rest(frames, 0) \in Seq(Element(hello))
    BY <1>5, BytesAreElements, Zenon
  <2> QED
    BY <1>1, <1>2, <2>1, <2>2, <2>3, ReadTakes, Zenon
<1>7. stream' \in Seq(Byte)
  BY <1>5, <1>6, HoldsType, Zenon
<1>8. at' \in {"length", "errored"}
  BY <1>2
<1>9. Types'
  <2>1. /\ at' \in Awaiting \cup {"errored", "panicked"}
        /\ at' \notin {"id", "payload", "extra"} /\ at' # "extra"
    BY <1>8 DEF Awaiting
  <2> QED
    BY <1>1, <1>2, <1>3, <1>7, <2>1, Zenon DEF Types
<1>10. AtHandshake'
  BY <1>8 DEF AtHandshake
<1>11. InStep'
  <2>1. returned = <<>> /\ Len(<<>>) = 0
    BY <1>1, <1>2 DEF AtHandshake
  <2>2. at' \notin {"id", "payload", "extra"}
    BY <1>8
  <2> QED
    BY <1>2, <1>3, <1>6, <2>1, <2>2, Zenon DEF InStep
<1>12. Delivered'
  BY <1>1, <1>2, <1>3, Zenon DEF Delivered, Whole
<1>13. FailsForAReason'
  <2> SUFFICES ASSUME Conforming, at' # "length" PROVE FALSE
    BY <1>3, <1>8, Zenon DEF FailsForAReason, Conforming, Whole, Awaiting
  <2>1. hello.length = 19 /\ hello.protocol = P_STR /\ hello.hash = InfoHash
    BY DEF Conforming
  <2>2. Bytes[1] = 19 /\ Bytes[2] = P_STR /\ Bytes[4] = InfoHash
    BY <1>6, <2>1 DEF HandshakeFields
  <2> QED
    BY <1>2, <2>2, Zenon
<1> QED
  BY <1>9, <1>10, <1>11, <1>12, <1>13, Zenon DEF WInv

\* No frame with an id has the length zero.
LEMMA SizeNotZero ==
    ASSUME NEW f \in Allowed
    PROVE  Size(f) # 0
<1> DEFINE n == Len(Written(f))
<1>1. Written(f) \in Seq(Byte)
  BY FrameType, Zenon
<1>2. n \in Nat
  BY <1>1
<1>3. Size(f) = 1 + n
  BY Zenon DEF Size
<1> HIDE DEF n
<1> QED
  BY <1>2, <1>3

\* Frames are whole up to the first that is too short.
LEMMA WholeBefore ==
    ASSUME NEW k \in Nat, Whole(k + 1)
    PROVE  Whole(k)
<1>1. \A j \in 1 .. k : j \in 1 .. k + 1
  OBVIOUS
<1> QED
  BY <1>1, Zenon DEF Whole

\* A call of read_message returns: what it says is what the next frame means, and
\* the stream goes on after that frame.
LEMMA Returns ==
    ASSUME returned \in Seq(AnyMessage), frames \in Seq(Allowed), Delivered,
           NEW r \in AnyMessage, returned' = Append(returned, r), at' = "length", frames' = frames,
           NEW j \in Nat, j = Len(returned),
           Whole(j + 1) =>
               /\ j < Len(frames) /\ frames[j + 1].message = r
               /\ Holds(stream', closed', Rest(frames, j + 1))
    PROVE  InStep' /\ Delivered'
<1>1. Len(returned') = j + 1 /\ returned'[j + 1] = r
  BY AppendProperties
<1>2. \A k \in DOMAIN returned' : k # j + 1 => k \in DOMAIN returned /\ returned'[k] = returned[k]
  BY AppendProperties
<1>3. InStep'
  <2>1. at' \notin {"id", "payload", "extra"}
    OBVIOUS
  <2> SUFFICES ASSUME Whole(j + 1) PROVE Holds(stream', closed', Rest(frames, j + 1))
    BY <1>1, <2>1, Zenon DEF InStep, Whole
  <2> QED
    BY Zenon
<1>4. Delivered'
  <2> SUFFICES ASSUME NEW k \in DOMAIN returned', Whole(k)
               PROVE  k <= Len(frames) /\ returned'[k] = frames[k].message
    BY Zenon DEF Delivered, Whole
  <2>1. CASE k = j + 1
    <3>1. j < Len(frames) => j + 1 <= Len(frames)
      OBVIOUS
    <3> QED
      BY <1>1, <2>1, <3>1, Zenon
  <2>2. CASE k # j + 1
    BY <1>2, <2>2, Zenon DEF Delivered
  <2> QED
    BY <2>1, <2>2
<1> QED
  BY <1>3, <1>4

\* A frame of length zero is a message of its own.
LEMMA WReadLength ==
    ASSUME WInv, ReadLength
    PROVE  WInv'
<1>1. Types /\ InStep /\ Delivered /\ FailsForAReason
  BY Zenon DEF WInv
<1>2. /\ Read("length") /\ at = "length"
      /\ total' = from_be_bytes(Bytes)
      /\ IF total' = 0
         THEN returned' = Append(returned, [type |-> "keepAlive"]) /\ at' = "length"
         ELSE at' = "id" /\ returned' = returned
      /\ UNCHANGED <<id, body>>
  BY Zenon DEF ReadLength, Read
<1>3. /\ frames \in Seq(Allowed) /\ returned \in Seq(AnyMessage) /\ stream \in Seq(Byte)
  BY <1>1, <1>2 DEF Types
<1>4. /\ UNCHANGED <<hello, frames, closed>>
      /\ stream' \in Seq(Element(hello)) /\ Arrived(arrived', stream')
      /\ stream' \in Seq(Byte) /\ Bytes \in Seq(Byte) /\ Len(Bytes) = Wanted
      /\ Wanted \in Nat /\ Wanted <= Len(stream)
  BY <1>1, <1>2, <1>3, ReadType, Zenon
<1>5. Wanted = 4
  BY <1>2 DEF Wanted
<1>6. total' \in Nat
  <2>1. from_be_bytes(Bytes) \in U32
    BY <1>4, <1>5, NumberOfBytes, Zenon
  <2> QED
    BY <1>2, <2>1, SMT DEF U32
<1>7. at' \in {"length", "id"}
  BY <1>2, Zenon
<1>8. [type |-> "keepAlive"] \in AnyMessage
  BY DEF AnyMessage, Bare
<1>9. returned' \in Seq(AnyMessage)
  <2>1. Append(returned, [type |-> "keepAlive"]) \in Seq(AnyMessage)
    BY <1>3, <1>8, AppendProperties
  <2> QED
    BY <1>2, <1>3, <2>1, Zenon
<1>10. Types'
  <2>1. at' \in Awaiting \cup {"errored", "panicked"} /\ at' # "extra"
    BY <1>7 DEF Awaiting
  <2>2. at' \in {"id", "payload", "extra"} => total' > 0
    <3>1. ASSUME NEW n \in Nat, n # 0 PROVE n > 0
      BY <3>1
    <3>2. at' = "id" => total' > 0
      <4>1. at' = "id" => total' # 0
        BY <1>2
      <4> QED
        BY <1>6, <3>1, <4>1, Zenon
    <3> QED
      BY <1>7, <3>2
  <2> QED
    BY <1>1, <1>2, <1>4, <1>6, <1>9, <2>1, <2>2, Zenon DEF Types
<1>11. AtHandshake'
  BY <1>7 DEF AtHandshake
<1>12. ASSUME NEW k \in Nat, k = Len(returned), Whole(k)
       PROVE  /\ k < Len(frames)
              /\ \E f \in {frames[k + 1]}, rest \in {Rest(frames, k + 1)} :
                    IF f.message.type = "keepAlive"
                    THEN total' = 0 /\ Holds(stream', closed', rest)
                    ELSE total' = Size(f) /\ Holds(stream', closed', AfterLength(f, rest))
  <2>1. Holds(stream, closed, Rest(frames, k))
    BY <1>1, <1>2, <1>12, Zenon DEF InStep
  <2>2. k < Len(frames)
    <3> SUFFICES ASSUME Len(frames) <= k PROVE FALSE
      BY <1>3
    <3>1. Rest(frames, k) = <<>> /\ <<>> \in Seq(Byte)
      BY <1>3, RestNone, EmptySeq, Zenon
    <3>2. Len(stream) <= Len(<<>>)
      BY <2>1, <3>1, HoldsType, Zenon
    <3> QED
      BY <1>3, <1>4, <1>5, <3>2
  <2>3. PICK f, rest : f = frames[k + 1] /\ rest = Rest(frames, k + 1)
    OBVIOUS
  <2>4. f \in Allowed /\ rest \in Seq(Byte) /\ Rest(frames, k) = Encode(f) \o rest
    BY <1>3, <2>2, <2>3, RestNext, Zenon
  <2>5. CASE f.message.type = "keepAlive"
    <3>1. Encode(f) = to_be_bytes(0)
      BY <2>4, <2>5, Encoded, Zenon
    <3>2. /\ to_be_bytes(0) \in Seq(Byte) /\ Len(to_be_bytes(0)) = 4
          /\ from_be_bytes(to_be_bytes(0)) = 0
      BY SmallNumbers, FourBytes, Zenon
    <3>3. Bytes = to_be_bytes(0) /\ Holds(stream', closed', rest)
      BY <1>1, <1>2, <1>5, <2>1, <2>4, <3>1, <3>2, ReadTakes, Zenon
    <3> QED
      BY <1>2, <2>2, <2>3, <2>5, <3>2, <3>3, Zenon
  <2>6. CASE f.message.type # "keepAlive"
    <3>1. Rest(frames, k) = to_be_bytes(Size(f)) \o AfterLength(f, rest)
      BY <2>4, <2>6, Encoded, Zenon
    <3>2. Size(f) \in U32
      BY <2>4, FrameType, Zenon
    <3>3. /\ to_be_bytes(Size(f)) \in Seq(Byte) /\ Len(to_be_bytes(Size(f))) = 4
          /\ from_be_bytes(to_be_bytes(Size(f))) = Size(f)
      BY <3>2, FourBytes, Zenon
    <3>4. AfterLength(f, rest) \in Seq(Byte)
      <4>1. PICK e \in Seq(Byte) : \A t \in Seq(Byte) : AfterLength(f, t) = e \o t
        BY <2>4, IdAndPayload, Zenon
      <4>2. e \o rest \in Seq(Byte)
        BY <2>4
      <4> QED
        BY <2>4, <4>1, <4>2, Zenon
    <3>5. Bytes = to_be_bytes(Size(f)) /\ Holds(stream', closed', AfterLength(f, rest))
      BY <1>1, <1>2, <1>5, <2>1, <3>1, <3>3, <3>4, ReadTakes, Zenon
    <3> QED
      BY <1>2, <2>2, <2>3, <2>6, <3>3, <3>5, Zenon
  <2> QED
    BY <2>5, <2>6, Zenon
<1>13. CASE total' = 0
  <2>1. returned' = Append(returned, [type |-> "keepAlive"]) /\ at' = "length"
    BY <1>2, <1>13
  <2>2. PICK j \in Nat : j = Len(returned)
    BY <1>3
  <2>3. ASSUME Whole(j + 1)
        PROVE  /\ j < Len(frames) /\ frames[j + 1].message = [type |-> "keepAlive"]
               /\ Holds(stream', closed', Rest(frames, j + 1))
    <3>1. Whole(j)
      BY <2>3, WholeBefore, Zenon
    <3>2. /\ j < Len(frames)
          /\ \E f \in {frames[j + 1]}, rest \in {Rest(frames, j + 1)} :
                IF f.message.type = "keepAlive"
                THEN total' = 0 /\ Holds(stream', closed', rest)
                ELSE total' = Size(f) /\ Holds(stream', closed', AfterLength(f, rest))
      BY <1>12, <2>2, <3>1, Zenon
    <3>3. frames[j + 1] \in Allowed
      BY <1>3, <3>2, RestNext, Zenon
    <3>4. Size(frames[j + 1]) # 0
      BY <3>3, SizeNotZero, Zenon
    <3>5. frames[j + 1].message.type = "keepAlive" /\ Holds(stream', closed', Rest(frames, j + 1))
      BY <1>13, <3>2, <3>4, Zenon
    <3>6. frames[j + 1].message \in AnyMessage
      BY <3>3, FrameType, Zenon
    <3>7. frames[j + 1].message = [type |-> "keepAlive"]
      <4>1. "keepAlive" \in Bare
        BY DEF Bare
      <4> QED
        BY <3>5, <3>6, <4>1, Fields, Zenon
    <3> QED
      BY <3>2, <3>5, <3>7, Zenon
  <2>4. InStep' /\ Delivered'
    BY <1>1, <1>3, <1>4, <1>8, <2>1, <2>2, <2>3, Returns, Zenon
  <2>5. FailsForAReason'
    BY <2>1 DEF FailsForAReason, Awaiting
  <2> QED
    BY <1>10, <1>11, <2>4, <2>5, Zenon DEF WInv
<1>14. CASE total' # 0
  <2>1. at' = "id" /\ returned' = returned
    BY <1>2, <1>14
  <2>2. InStep'
    <3> SUFFICES ASSUME NEW k \in Nat, k = Len(returned), Whole(k)
                 PROVE  /\ k < Len(frames)
                        /\ \E f \in {frames[k + 1]}, rest \in {Rest(frames, k + 1)} : InFrame(f, rest)'
      <4>1. at' # "length"
        BY <2>1
      <4> QED
        BY <1>4, <2>1, <4>1, Zenon DEF InStep, Whole
    <3>1. PICK f, rest :
            /\ k < Len(frames) /\ f = frames[k + 1] /\ rest = Rest(frames, k + 1)
            /\ f.message.type # "keepAlive" /\ total' = Size(f)
            /\ Holds(stream', closed', AfterLength(f, rest))
      BY <1>12, <1>14, Zenon
    <3>2. at' # "payload" /\ at' # "extra"
      BY <2>1
    <3>3. InFrame(f, rest)'
      BY <2>1, <3>1, <3>2, Zenon DEF InFrame
    <3> QED
      BY <3>1, <3>3, Zenon
  <2>3. Delivered'
    BY <1>1, <1>4, <2>1, Zenon DEF Delivered, Whole
  <2>4. FailsForAReason'
    BY <2>1 DEF FailsForAReason, Awaiting
  <2> QED
    BY <1>10, <1>11, <2>2, <2>3, <2>4, Zenon DEF WInv
<1> QED
  BY <1>13, <1>14, Zenon

\* A peer that writes what send_* writes writes whole frames.
LEMMA ConformingIsWhole ==
    ASSUME Conforming, frames \in Seq(Allowed)
    PROVE  \A k : Whole(k)
<1>1. DOMAIN frames = 1 .. Len(frames)
  OBVIOUS
<1> QED
  BY <1>1, Zenon DEF Conforming, Whole

\* The id after the length decides what is read next.
LEMMA WReadId ==
    ASSUME WInv, ReadId
    PROVE  WInv'
<1>1. Types /\ InStep /\ Delivered /\ FailsForAReason
  BY Zenon DEF WInv
<1>2. /\ Read("id") /\ at = "id"
      /\ IF Bytes[1] \in 0 .. 8
         THEN at' = "payload" /\ id' = TypeOf(Bytes[1])
         ELSE at' = "errored" /\ id' = id
      /\ UNCHANGED <<total, body, returned>>
  BY Zenon DEF ReadId, Read
<1>3. frames \in Seq(Allowed) /\ stream \in Seq(Byte) /\ returned \in Seq(AnyMessage)
  BY <1>1, <1>2 DEF Types
<1>4. /\ UNCHANGED <<hello, frames, closed>>
      /\ stream' \in Seq(Element(hello)) /\ Arrived(arrived', stream')
      /\ stream' \in Seq(Byte)
  BY <1>1, <1>2, <1>3, ReadType, Zenon
<1>5. at' \in {"payload", "errored"}
  BY <1>2, Zenon
<1>6. Types'
  <2>1. at' \in Awaiting \cup {"errored", "panicked"} /\ at' # "extra"
    BY <1>5 DEF Awaiting
  <2>2. total > 0
    BY <1>1, <1>2 DEF Types
  <2>3. id' \in DOMAIN MessageId
    BY <1>1, <1>2, Ids, Zenon DEF Types
  <2> QED
    BY <1>1, <1>2, <1>4, <2>1, <2>2, <2>3, Zenon DEF Types
<1>7. AtHandshake'
  BY <1>5 DEF AtHandshake
<1>8. ASSUME NEW k \in Nat, k = Len(returned), Whole(k)
      PROVE  /\ k < Len(frames)
             /\ \E f \in {frames[k + 1]}, rest \in {Rest(frames, k + 1)} :
                   /\ f.message.type # "keepAlive" /\ total = Size(f)
                   /\ at' = "errored" => f.message.type \notin DOMAIN MessageId
                   /\ at' = "payload" =>
                        f.message.type = id' /\ Holds(stream', closed', Written(f) \o rest)
  <2>1. /\ k < Len(frames)
        /\ \E f \in {frames[k + 1]}, rest \in {Rest(frames, k + 1)} : InFrame(f, rest)
    BY <1>1, <1>2, <1>8 DEF InStep
  <2>2. PICK f, rest : f = frames[k + 1] /\ rest = Rest(frames, k + 1) /\ InFrame(f, rest)
    BY <2>1, Zenon
  <2>3. f \in Allowed /\ rest \in Seq(Byte)
    BY <1>3, <2>1, <2>2, RestNext, Zenon
  <2> DEFINE i == IdOf(f.message)
             p == Written(f)
             pr == p \o rest
  <2>4. p \in Seq(Byte) /\ i \in Byte
    BY <2>3, FrameType, Zenon
  <2>5. Holds(stream, closed, <<i>> \o pr)
    BY <1>2, <2>2, Zenon DEF InFrame, AfterLength
  <2>6. (i \in 0 .. 8 => f.message.type \in DOMAIN MessageId /\ TypeOf(i) = f.message.type)
        /\ (i \notin 0 .. 8 => f.message.type \notin DOMAIN MessageId)
    <3>1. CASE f.message.type \in DOMAIN MessageId
      <4>1. i = MessageId[f.message.type]
        BY <3>1, Zenon DEF IdOf
      <4> QED
        BY <3>1, <4>1, Ids, Zenon
    <3>2. CASE f.message.type \notin DOMAIN MessageId
      <4>1. i = 9 /\ 9 \notin 0 .. 8
        BY <3>2 DEF IdOf
      <4> QED
        BY <3>2, <4>1, Zenon
    <3> QED
      BY <3>1, <3>2
  <2> HIDE DEF i, p
  <2>7. pr \in Seq(Byte) /\ <<i>> \in Seq(Byte) /\ Len(<<i>>) = 1 /\ <<i>>[1] = i
    BY <2>3, <2>4
  <2>8. Wanted = 1
    BY <1>2 DEF Wanted
  <2> HIDE DEF pr
  <2>9. Bytes = <<i>> /\ Holds(stream', closed', pr)
    BY <1>1, <1>2, <2>5, <2>7, <2>8, ReadTakes, Zenon
  <2>10. Bytes[1] = i
    BY <2>7, <2>9, Zenon
  <2>11. "errored" # "payload"
    OBVIOUS
  <2>12. /\ at' = "errored" => f.message.type \notin DOMAIN MessageId
         /\ at' = "payload" => f.message.type = id'
    BY <1>2, <2>6, <2>10, <2>11, Zenon
  <2> QED
    BY <2>1, <2>2, <2>9, <2>12, Zenon DEF InFrame, pr, p
<1>9. InStep'
  <2> SUFFICES ASSUME NEW k \in Nat, k = Len(returned), Whole(k), at' = "payload"
               PROVE  /\ k < Len(frames)
                      /\ \E f \in {frames[k + 1]}, rest \in {Rest(frames, k + 1)} : InFrame(f, rest)'
    <3>1. at' # "length" /\ (at' \in {"id", "payload", "extra"} => at' = "payload")
      BY <1>5
    <3> QED
      BY <1>2, <1>4, <3>1, Zenon DEF InStep, Whole
  <2>1. PICK f, rest :
          /\ k < Len(frames) /\ f = frames[k + 1] /\ rest = Rest(frames, k + 1)
          /\ f.message.type # "keepAlive" /\ total = Size(f)
          /\ f.message.type = id' /\ Holds(stream', closed', Written(f) \o rest)
    BY <1>8, Zenon
  <2>2. at' # "id" /\ at' # "extra"
    OBVIOUS
  <2>3. InFrame(f, rest)'
    BY <1>2, <2>1, <2>2, Zenon DEF InFrame
  <2> QED
    BY <2>1, <2>3, Zenon
<1>10. Delivered'
  BY <1>1, <1>2, <1>4, Zenon DEF Delivered, Whole
<1>11. FailsForAReason'
  <2> SUFFICES ASSUME Conforming, at' = "errored" PROVE FALSE
    <3>1. at' \notin Awaiting => at' = "errored"
      BY <1>5 DEF Awaiting
    <3> QED
      BY <1>4, <3>1, Zenon DEF FailsForAReason, Conforming, Whole
  <2>1. PICK k \in Nat : k = Len(returned)
    BY <1>3
  <2>2. Whole(k)
    BY <1>3, ConformingIsWhole, Zenon
  <2>3. k < Len(frames) /\ frames[k + 1].message.type # "keepAlive"
        /\ frames[k + 1].message.type \notin DOMAIN MessageId
    BY <1>8, <2>1, <2>2, Zenon
  <2>4. k + 1 \in DOMAIN frames
    BY <1>3, <2>3
  <2> QED
    BY <2>3, <2>4, Zenon DEF Conforming, Understood
<1> QED
  BY <1>6, <1>7, <1>9, <1>10, <1>11, Zenon DEF WInv

\* How much of a frame that is long enough is read as its payload, and how much
\* is left for `consume`.
LEMMA Shares ==
    ASSUME NEW f \in Allowed, f.pad >= 0, total = Size(f), id = f.message.type, id \in DOMAIN MessageId
    PROVE  /\ at = "payload" => Wanted = Len(Payload(f.message))
           /\ at = "extra" => Wanted = Len(Zeros(f))
<1> DEFINE l == Len(Payload(f.message))
           w == Len(Written(f))
           z == Len(Zeros(f))
           p == f.pad
           e == Expected(id)
<1>1. p \in Int /\ w = l + p /\ z = p /\ p >= 0
  BY FrameType, Zenon
<1>2. l \in Nat /\ e \in Nat
  <2>1. Payload(f.message) \in Seq(Byte)
    BY FrameType, Zenon
  <2>2. \A t : Expected(t) \in Nat
    BY DEF Expected
  <2> QED
    BY <2>1, <2>2
<1>3. id \in Variable => ~ (p > 0)
  BY FrameType, Zenon
<1>4. id \notin Variable => l = e
  <2>1. f.message \in AnyMessage
    BY FrameType, Zenon
  <2> QED
    BY <2>1, PayloadSize, Zenon
<1>5. payload_length = w
  <2>1. total = 1 + w
    BY Zenon DEF Size
  <2> HIDE DEF w
  <2>2. w \in Nat
    BY <1>1, <1>2
  <2> QED
    BY <2>1, <2>2 DEF payload_length
<1> HIDE DEF l, w, z, p, e
<1>6. CASE at = "payload"
  <2>1. Wanted = IF id \in Variable THEN w ELSE e
    BY <1>5, <1>6 DEF Wanted, e
  <2>2. Wanted = l
    BY <1>1, <1>2, <1>3, <1>4, <2>1
  <2>3. at # "extra"
    BY <1>6
  <2> QED
    BY <2>2, <2>3, Zenon DEF l
<1>7. CASE at = "extra"
  <2>1. Wanted = IF id \in Variable \/ w <= e THEN 0 ELSE w - e
    BY <1>5, <1>7 DEF Wanted, Extra, e
  <2>2. Wanted = z
    BY <1>1, <1>2, <1>3, <1>4, <2>1
  <2>3. at # "payload"
    BY <1>7
  <2> QED
    BY <2>2, <2>3, Zenon DEF z
<1> QED
  BY <1>6, <1>7, Zenon

\* The payload is that of the message, if the frame is whole.
LEMMA WReadPayload ==
    ASSUME WInv, ReadPayload
    PROVE  WInv'
<1>1. Types /\ InStep /\ Delivered /\ FailsForAReason
  BY Zenon DEF WInv
<1>2. /\ Read("payload") /\ at = "payload" /\ body' = Bytes /\ at' = "extra"
      /\ UNCHANGED <<total, id, returned>>
  BY Zenon DEF ReadPayload, Read
<1>3. frames \in Seq(Allowed) /\ stream \in Seq(Byte) /\ id \in DOMAIN MessageId
  BY <1>1, <1>2 DEF Types
<1>4. /\ UNCHANGED <<hello, frames, closed>>
      /\ stream' \in Seq(Element(hello)) /\ Arrived(arrived', stream')
      /\ stream' \in Seq(Byte) /\ Bytes \in Seq(Byte) /\ Len(Bytes) = Wanted
  BY <1>1, <1>2, <1>3, ReadType, Zenon
<1>5. Types'
  <2>1. at' \in Awaiting \cup {"errored", "panicked"}
    BY <1>2 DEF Awaiting
  <2>2. total > 0
    BY <1>1, <1>2 DEF Types
  <2>3. id \notin Variable => Len(Bytes) = Expected(id)
    <3>1. Wanted = IF id \in Variable THEN payload_length ELSE Expected(id)
      BY <1>2 DEF Wanted
    <3> QED
      BY <1>4, <3>1, Zenon
  <2> QED
    BY <1>1, <1>2, <1>4, <2>1, <2>2, <2>3, Zenon DEF Types, BodyFits
<1>6. AtHandshake'
  BY <1>2 DEF AtHandshake
<1>7. InStep'
  <2> SUFFICES ASSUME NEW k \in Nat, k = Len(returned), Whole(k)
               PROVE  /\ k < Len(frames)
                      /\ \E f \in {frames[k + 1]}, rest \in {Rest(frames, k + 1)} : InFrame(f, rest)'
    <3>1. at' # "length"
      BY <1>2
    <3> QED
      BY <1>2, <1>4, <3>1, Zenon DEF InStep, Whole
  <2>1. /\ k < Len(frames)
        /\ \E f \in {frames[k + 1]}, rest \in {Rest(frames, k + 1)} : InFrame(f, rest)
    BY <1>1, <1>2 DEF InStep
  <2>2. PICK f, rest : f = frames[k + 1] /\ rest = Rest(frames, k + 1) /\ InFrame(f, rest)
    BY <2>1, Zenon
  <2>3. f \in Allowed /\ rest \in Seq(Byte)
    BY <1>3, <2>1, <2>2, RestNext, Zenon
  <2>4. /\ f.message.type # "keepAlive" /\ total = Size(f) /\ f.message.type = id
        /\ Holds(stream, closed, Written(f) \o rest)
    BY <1>2, <2>2 DEF InFrame
  <2>5. ASSUME f.pad >= 0
        PROVE  Bytes = Payload(f.message) /\ Holds(stream', closed', Zeros(f) \o rest)
    <3> DEFINE p == Payload(f.message)
               z == Zeros(f)
               zr == z \o rest
    <3>1. p \in Seq(Byte) /\ z \in Seq(Byte) /\ Written(f) = p \o z
      BY <2>3, <2>5, FrameType, Zenon
    <3>2. Wanted = Len(p)
      BY <1>2, <1>3, <2>3, <2>4, <2>5, Shares, Zenon
    <3> HIDE DEF p, z
    <3>3. zr \in Seq(Byte)
      BY <2>3, <3>1
    <3>4. (p \o z) \o rest = p \o zr
      <4>1. Associates(Byte)
        BY Associative, Zenon
      <4> QED
        BY <2>3, <3>1, <4>1, Zenon DEF Associates
    <3>5. Holds(stream, closed, p \o zr)
      BY <2>4, <3>1, <3>4, Zenon
    <3> HIDE DEF zr
    <3>6. Bytes = p /\ Holds(stream', closed', zr)
      BY <1>1, <1>2, <3>1, <3>2, <3>3, <3>5, ReadTakes, Zenon
    <3> QED
      BY <3>6, Zenon DEF p, z, zr
  <2>6. at' # "id" /\ at' # "payload"
    BY <1>2
  <2>7. InFrame(f, rest)'
    BY <1>2, <2>4, <2>5, <2>6, Zenon DEF InFrame
  <2> QED
    BY <2>1, <2>2, <2>7, Zenon
<1>8. Delivered'
  BY <1>1, <1>2, <1>4, Zenon DEF Delivered, Whole
<1>9. FailsForAReason'
  BY <1>2 DEF FailsForAReason, Awaiting
<1> QED
  BY <1>5, <1>6, <1>7, <1>8, <1>9, Zenon DEF WInv

\* The rest of the frame is skipped, and its message is returned.
LEMMA WReadExtra ==
    ASSUME WInv, ReadExtra
    PROVE  WInv'
<1>1. Types /\ InStep /\ Delivered /\ FailsForAReason
  BY Zenon DEF WInv
<1>2. /\ Read("extra") /\ at = "extra"
      /\ \/ id = "bitfield" /\ body = <<>> /\ at' = "panicked" /\ returned' = returned
         \/ id = "piece" /\ TooSmall /\ at' = "errored" /\ returned' = returned
         \/ /\ id = "bitfield" => body # <<>>
            /\ id = "piece" => ~ TooSmall
            /\ at' = "length"
            /\ returned' = Append(returned, Decode(id, body))
      /\ UNCHANGED <<total, id, body>>
  BY Zenon DEF ReadExtra, Read, reading
<1>3. /\ frames \in Seq(Allowed) /\ stream \in Seq(Byte) /\ id \in DOMAIN MessageId
      /\ returned \in Seq(AnyMessage) /\ BodyFits
  BY <1>1, <1>2 DEF Types
<1>4. /\ UNCHANGED <<hello, frames, closed>>
      /\ stream' \in Seq(Element(hello)) /\ Arrived(arrived', stream')
      /\ stream' \in Seq(Byte)
  BY <1>1, <1>2, <1>3, ReadType, Zenon
<1>5. at' \in {"length", "errored", "panicked"}
  BY <1>2, Zenon
<1>6. AtHandshake'
  BY <1>5 DEF AtHandshake
<1>7. ASSUME NEW k \in Nat, k = Len(returned), Whole(k)
      PROVE  /\ k < Len(frames) /\ frames[k + 1] \in Allowed /\ frames[k + 1].message.type = id
             /\ frames[k + 1].pad >= 0 =>
                  body = Payload(frames[k + 1].message) /\ Holds(stream', closed', Rest(frames, k + 1))
  <2>1. /\ k < Len(frames)
        /\ \E f \in {frames[k + 1]}, rest \in {Rest(frames, k + 1)} : InFrame(f, rest)
    BY <1>1, <1>2, <1>7 DEF InStep
  <2>2. PICK f, rest : f = frames[k + 1] /\ rest = Rest(frames, k + 1) /\ InFrame(f, rest)
    BY <2>1, Zenon
  <2>3. f \in Allowed /\ rest \in Seq(Byte)
    BY <1>3, <2>1, <2>2, RestNext, Zenon
  <2>4. /\ total = Size(f) /\ f.message.type = id
        /\ f.pad >= 0 => body = Payload(f.message) /\ Holds(stream, closed, Zeros(f) \o rest)
    BY <1>2, <2>2 DEF InFrame
  <2>5. ASSUME f.pad >= 0 PROVE Holds(stream', closed', rest)
    <3>1. Zeros(f) \in Seq(Byte)
      BY <2>3, <2>5, FrameType, Zenon
    <3>2. Wanted = Len(Zeros(f))
      BY <1>2, <1>3, <2>3, <2>4, <2>5, Shares, Zenon
    <3> QED
      BY <1>1, <1>2, <2>3, <2>4, <2>5, <3>1, <3>2, ReadTakes, Zenon
  <2> QED
    BY <2>1, <2>2, <2>3, <2>4, <2>5, Zenon
<1>8. CASE at' = "length"
  <2>1. returned' = Append(returned, Decode(id, body)) /\ (id = "piece" => ~ TooSmall)
    BY <1>2, <1>8
  <2>2. Decode(id, body) \in AnyMessage
    <3>1. id = "piece" => Len(body) >= 8
      BY <1>3, <2>1 DEF TooSmall, BodyFits
    <3> QED
      BY <1>3, <3>1, DecodeTyped, Zenon DEF BodyFits
  <2>3. returned' \in Seq(AnyMessage)
    BY <1>3, <2>1, <2>2, AppendProperties, Zenon
  <2>4. PICK j \in Nat : j = Len(returned)
    BY <1>3
  <2>5. ASSUME Whole(j + 1)
        PROVE  /\ j < Len(frames) /\ frames[j + 1].message = Decode(id, body)
               /\ Holds(stream', closed', Rest(frames, j + 1))
    <3>1. Whole(j)
      BY <2>5, WholeBefore, Zenon
    <3>2. /\ j < Len(frames) /\ frames[j + 1] \in Allowed /\ frames[j + 1].message.type = id
          /\ frames[j + 1].pad >= 0 =>
               body = Payload(frames[j + 1].message) /\ Holds(stream', closed', Rest(frames, j + 1))
      BY <1>7, <2>4, <3>1, Zenon
    <3>3. frames[j + 1].pad >= 0
      <4>1. j + 1 \in 1 .. j + 1 /\ j + 1 \in DOMAIN frames
        BY <1>3, <3>2
      <4> QED
        BY <2>5, <4>1, Zenon DEF Whole
    <3>4. frames[j + 1].message \in AnyMessage
      BY <3>2, FrameType, Zenon
    <3>5. Decode(frames[j + 1].message.type, Payload(frames[j + 1].message)) = frames[j + 1].message
      BY <1>3, <3>2, <3>4, Decoded, Zenon
    <3> QED
      BY <3>2, <3>3, <3>5, Zenon
  <2>6. InStep' /\ Delivered'
    BY <1>1, <1>3, <1>4, <1>8, <2>1, <2>2, <2>4, <2>5, Returns, Zenon
  <2>7. Types'
    <3>1. at' \in Awaiting \cup {"errored", "panicked"} /\ at' \notin {"id", "payload", "extra"}
          /\ at' # "extra"
      BY <1>8 DEF Awaiting
    <3> QED
      BY <1>1, <1>2, <1>4, <2>3, <3>1, Zenon DEF Types
  <2>8. FailsForAReason'
    BY <1>8 DEF FailsForAReason, Awaiting
  <2> QED
    BY <1>6, <2>6, <2>7, <2>8, Zenon DEF WInv
<1>9. CASE at' # "length"
  <2>1. /\ returned' = returned
        /\ \/ id = "bitfield" /\ body = <<>>
           \/ id = "piece" /\ TooSmall
    BY <1>2, <1>9, Zenon
  <2>2. at' \in Awaiting \cup {"errored", "panicked"} /\ at' \notin {"id", "payload", "extra"}
        /\ at' # "extra"
    BY <1>5, <1>9
  <2>3. Types'
    BY <1>1, <1>2, <1>4, <2>1, <2>2, Zenon DEF Types
  <2>4. InStep' /\ Delivered'
    BY <1>1, <1>4, <1>9, <2>1, <2>2, Zenon DEF InStep, Delivered, Whole
  <2>5. FailsForAReason'
    <3> SUFFICES ASSUME Conforming PROVE FALSE
      BY <1>4, Zenon DEF FailsForAReason, Conforming, Whole
    <3>1. PICK k \in Nat : k = Len(returned)
      BY <1>3
    <3>2. \A j : Whole(j)
      BY <1>3, ConformingIsWhole, Zenon
    <3>3. /\ k < Len(frames) /\ frames[k + 1] \in Allowed /\ frames[k + 1].message.type = id
          /\ frames[k + 1].pad >= 0 => body = Payload(frames[k + 1].message)
      BY <1>7, <3>1, <3>2, Zenon
    <3>4. k + 1 \in DOMAIN frames /\ k + 1 \in 1 .. k + 1
      BY <1>3, <3>3
    <3>5. body = Payload(frames[k + 1].message)
      BY <3>2, <3>3, <3>4, Zenon DEF Whole
    <3> DEFINE m == frames[k + 1].message
    <3>6. m \in AnyMessage /\ m.type = id /\ Understood(m) /\ body = Payload(m)
      BY <3>3, <3>4, <3>5, FrameType, Zenon DEF Conforming
    <3> HIDE DEF m
    <3>7. CASE id = "bitfield"
      <4>1. body = <<>>
        BY <2>1, <3>7
      <4>2. body = m.bytes
        BY <3>6, <3>7 DEF Payload
      <4> QED
        BY <3>6, <3>7, <4>1, <4>2, Zenon DEF Understood
    <3>8. CASE id = "piece"
      <4>1. TooSmall
        BY <2>1, <3>8
      <4>2. Len(body) = 8 + Len(m.bytes)
        BY <3>6, <3>8, PayloadSize, Zenon
      <4>3. m.bytes \in Seq(Byte)
        BY <3>6, <3>8, Fields, Zenon
      <4> QED
        BY <4>1, <4>2, <4>3 DEF TooSmall
    <3> QED
      BY <2>1, <3>7, <3>8, Zenon
  <2> QED
    BY <1>6, <2>3, <2>4, <2>5, Zenon DEF WInv
<1> QED
  BY <1>8, <1>9, Zenon

-----------------------------------------------------------------------------
(* The theorems.                                                            *)

LEMMA WNext == WInv /\ [Next]_vars => WInv'
<1> SUFFICES ASSUME WInv, [Next]_vars PROVE WInv'
  OBVIOUS
<1>1. CASE \E m \in Messages, pad \in Pads : PeerSends([pad |-> pad, message |-> m])
  BY <1>1, WPeerSends, Zenon
<1>2. CASE Arrive
  BY <1>2, WArrive, Zenon
<1>3. CASE Close
  BY <1>3, WClose, Zenon
<1>4. CASE ReadHandshake
  BY <1>4, WReadHandshake, Zenon
<1>5. CASE ReadLength
  BY <1>5, WReadLength, Zenon
<1>6. CASE ReadId
  BY <1>6, WReadId, Zenon
<1>7. CASE ReadPayload
  BY <1>7, WReadPayload, Zenon
<1>8. CASE ReadExtra
  BY <1>8, WReadExtra, Zenon
<1>9. CASE ReadFails
  BY <1>9, WReadFails, Zenon
<1>10. CASE UNCHANGED vars
  BY <1>10, Zenon DEF vars, reading, WInv, Types, BodyFits, AtHandshake, InStep, InFrame, Delivered,
     FailsForAReason, Whole, Conforming
<1> QED
  BY <1>1, <1>2, <1>3, <1>4, <1>5, <1>6, <1>7, <1>8, <1>9, <1>10, Zenon DEF Next, TaskStep

\* The invariant that the properties follow from: where the reader is in the
\* frames, and what is left of them.
THEOREM ReaderKeepsPace == Spec => []WInv
BY WInit, WNext, PTL DEF Spec

\* The length of a payload is never computed from a length of zero.
THEOREM TypeCorrect == Spec => []TypeOK
<1>1. WInv => TypeOK
  BY TypesSuffice, Zenon DEF WInv
<1> QED
  BY <1>1, ReaderKeepsPace, PTL

\* The k-th call of read_message returns what the peer meant by its k-th frame,
\* wherever the network cut the stream, whatever the messages.
THEOREM WhatIsSentIsReturned == Spec => []ReturnsWhatWasSent
<1>1. WInv => ReturnsWhatWasSent
  <2> SUFFICES ASSUME WInv, NEW k \in DOMAIN returned, Whole(k)
               PROVE  k \in DOMAIN frames /\ returned[k] = frames[k].message
    BY Zenon DEF ReturnsWhatWasSent
  <2>1. k <= Len(frames) /\ returned[k] = frames[k].message
    BY Zenon DEF WInv, Delivered
  <2>2. frames \in Seq(Allowed) /\ returned \in Seq(AnyMessage)
    BY Zenon DEF WInv, Types
  <2>3. k \in DOMAIN frames
    BY <2>1, <2>2
  <2> QED
    BY <2>1, <2>3, Zenon
<1> QED
  BY <1>1, ReaderKeepsPace, PTL

\* Between two calls nothing of the next frame has been taken, and nothing of the
\* one before has been left.
THEOREM FramesAreNotMixed == Spec => []StopsAtTheNextFrame
<1>1. WInv => StopsAtTheNextFrame
  <2> SUFFICES ASSUME WInv, at = "length", NEW k, k = Len(returned), Whole(k)
               PROVE  IF closed THEN IsPrefix(stream, Rest(frames, k)) ELSE stream = Rest(frames, k)
    BY Zenon DEF StopsAtTheNextFrame, Rest
  <2>1. Types /\ InStep
    BY Zenon DEF WInv
  <2>2. frames \in Seq(Allowed) /\ k \in Nat /\ closed \in BOOLEAN
    BY <2>1 DEF Types
  <2>3. Rest(frames, k) \in Seq(Byte) /\ Holds(stream, closed, Rest(frames, k))
    BY <2>1, <2>2, RestType, Zenon DEF InStep
  <2>4. CASE closed
    BY <2>3, <2>4, HoldsPrefix, Zenon
  <2>5. CASE ~ closed
    <3>1. closed = FALSE
      BY <2>2, <2>5, Zenon
    <3> DEFINE r == Rest(frames, k)
    <3>2. r \in Seq(Byte) /\ Holds(stream, FALSE, r)
      BY <2>3, <3>1, Zenon
    <3> HIDE DEF r
    <3>3. stream = r
      BY <3>2, HoldsAll
    <3> QED
      BY <2>5, <3>3, Zenon DEF r
  <2> QED
    BY <2>4, <2>5, Zenon
<1> QED
  BY <1>1, ReaderKeepsPace, PTL

\* A peer that writes what the send_* functions write never makes the task fail.
THEOREM FailuresHaveAReason == Spec => []FailsForAReason
<1>1. WInv => FailsForAReason
  BY Zenon DEF WInv
<1> QED
  BY <1>1, ReaderKeepsPace, PTL
===============================================================================
