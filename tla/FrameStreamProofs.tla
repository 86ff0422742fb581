------------------------- MODULE FrameStreamProofs -------------------------
(***************************************************************************)
(* Theorems about BufferedWrite for every frame, key, writer size, bound and   *)
(* every place at which a socket write can fail: what is on the wire and in    *)
(* the buffer are the frames, and nothing outgrows the buffer.  And about       *)
(* FrameStream, for every way the bytes are cut into writes and reads: headers  *)
(* say what they were made from, and the frames read are the frames sent.       *)
(***************************************************************************)
EXTENDS FrameStream, DataInduction, SequenceTheorems, TLAPS

-----------------------------------------------------------------------------
(* Sequences of bytes.                                                       *)

LEMMA Joined ==
    ASSUME NEW a \in Seq(Byte), NEW b \in Seq(Byte)
    PROVE  a \o b \in Seq(Byte) /\ Len(a \o b) = Len(a) + Len(b)
  BY ConcatProperties

LEMMA Grouping ==
    ASSUME NEW a \in Seq(Byte), NEW b \in Seq(Byte), NEW c \in Seq(Byte)
    PROVE  (a \o b) \o c = a \o (b \o c)
  BY ConcatAssociative

\* What a cut leaves on either side is a sequence of bytes, and together it is
\* what was cut.
LEMMA CutAnywhere ==
    ASSUME NEW s \in Seq(Byte), NEW n \in 0..Len(s)
    PROVE  /\ SubSeq(s, 1, n) \in Seq(Byte) /\ Len(SubSeq(s, 1, n)) = n
           /\ SubSeq(s, n + 1, Len(s)) \in Seq(Byte) /\ Len(SubSeq(s, n + 1, Len(s))) = Len(s) - n
           /\ SubSeq(s, 1, n) \o SubSeq(s, n + 1, Len(s)) = s
           /\ \A i \in 1..n : SubSeq(s, 1, n)[i] = s[i]
           /\ \A i \in 1..(Len(s) - n) : SubSeq(s, n + 1, Len(s))[i] = s[n + i]
  <1>1. Len(s) \in Nat /\ n \in Nat /\ n <= Len(s)
    BY LenProperties
  <1>2. \A i \in 1..Len(s) : s[i] \in Byte
    BY ElementOfSeq
  <1>3. /\ SubSeq(s, 1, n) \in Seq(Byte) /\ Len(SubSeq(s, 1, n)) = n
        /\ \A i \in 1..n : SubSeq(s, 1, n)[i] = s[i]
    <2>1. \A i \in 1..n : s[i] \in Byte
      BY <1>1, <1>2
    <2>2. /\ SubSeq(s, 1, n) \in Seq(Byte)
          /\ Len(SubSeq(s, 1, n)) = IF 1 <= n THEN n - 1 + 1 ELSE 0
          /\ \A i \in 1..(n - 1 + 1) : SubSeq(s, 1, n)[i] = s[1 + i - 1]
      BY <1>1, <2>1, SubSeqProperties
    <2> QED
      BY <1>1, <2>2
  <1>4. /\ SubSeq(s, n + 1, Len(s)) \in Seq(Byte) /\ Len(SubSeq(s, n + 1, Len(s))) = Len(s) - n
        /\ \A i \in 1..(Len(s) - n) : SubSeq(s, n + 1, Len(s))[i] = s[n + i]
    <2>1. \A i \in (n + 1)..Len(s) : s[i] \in Byte
      BY <1>1, <1>2
    <2>2. /\ SubSeq(s, n + 1, Len(s)) \in Seq(Byte)
          /\ Len(SubSeq(s, n + 1, Len(s))) = IF n + 1 <= Len(s) THEN Len(s) - (n + 1) + 1 ELSE 0
          /\ \A i \in 1..(Len(s) - (n + 1) + 1) : SubSeq(s, n + 1, Len(s))[i] = s[n + 1 + i - 1]
      BY <1>1, <2>1, SubSeqProperties
    <2> QED
      BY <1>1, <2>2
  <1>5. SubSeq(s, 1, n) \o SubSeq(s, n + 1, Len(s)) = SubSeq(s, 1, Len(s))
    <2>1. 1 \in 1..(Len(s) + 1) /\ n \in (1 - 1)..Len(s) /\ Len(s) \in n..Len(s)
      BY <1>1
    <2> QED
      BY <2>1, ConcatAdjacentSubSeq
  <1>6. SubSeq(s, 1, Len(s)) = s
    BY SubSeqFull
  <1> QED
    BY <1>3, <1>4, <1>5, <1>6

\* A sequence that starts another is one of its beginnings.
LEMMA StartsIt ==
    ASSUME NEW a \in Seq(Byte), NEW b \in Seq(Byte)
    PROVE  \E n \in 0..Len(a \o b) : a = SubSeq(a \o b, 1, n)
  <1>1. Len(a) \in Nat /\ Len(b) \in Nat /\ a \o b \in Seq(Byte) /\ Len(a \o b) = Len(a) + Len(b)
    BY Joined, LenProperties
  <1>2. SubSeq(a \o b, 1, Len(a)) = a
    <2>1. CASE Len(a) = 0
      <3>1. a = <<>>
        BY <2>1, EmptySeq, <1>1
      <3>2. SubSeq(a \o b, 1, Len(a)) = <<>>
        BY <2>1, SubSeqEmpty
      <3> QED
        BY <3>1, <3>2
    <2>2. CASE Len(a) # 0
      <3>1. SubSeq(a \o b, 1, Len(a)) = SubSeq(a, 1, Len(a))
        BY <1>1, <2>2, SubSeqOfConcat1
      <3> QED
        BY <3>1, SubSeqFull
    <2> QED
      BY <2>1, <2>2
  <1>3. Len(a) \in 0..Len(a \o b)
    BY <1>1
  <1> QED
    BY <1>2, <1>3

LEMMA BytesOfLength ==
    ASSUME NEW n \in Nat, NEW s \in [1..n -> Byte]
    PROVE  s \in Seq(Byte) /\ Len(s) = n
  <1>1. s \in Seq(Byte)
    OBVIOUS
  <1> QED
    BY <1>1, LenProperties

-----------------------------------------------------------------------------
(* Headers and masking.                                                      *)

LEMMA BigEndianType ==
    ASSUME NEW n \in Nat, NEW w \in {0, 2, 8}
    PROVE  BigEndian(n, w) \in Seq(Byte) /\ Len(BigEndian(n, w)) = w
  <1> DEFINE n1 == n \div 256    n2 == n1 \div 256   n3 == n2 \div 256   n4 == n3 \div 256
             n5 == n4 \div 256   n6 == n5 \div 256   n7 == n6 \div 256
             eight == <<n7 % 256, n6 % 256, n5 % 256, n4 % 256, n3 % 256, n2 % 256, n1 % 256, n % 256>>
  <1>0. \A m \in Nat : m \div 256 \in Nat /\ m % 256 \in Byte
    BY DEF Byte
  <1>1. n1 \in Nat
    BY <1>0
  <1>2. n2 \in Nat
    BY <1>0, <1>1
  <1>3. n3 \in Nat
    BY <1>0, <1>2
  <1>4. n4 \in Nat
    BY <1>0, <1>3
  <1>5. n5 \in Nat
    BY <1>0, <1>4
  <1>6. n6 \in Nat
    BY <1>0, <1>5
  <1>7. n7 \in Nat
    BY <1>0, <1>6
  <1>8. /\ n7 % 256 \in Byte /\ n6 % 256 \in Byte /\ n5 % 256 \in Byte /\ n4 % 256 \in Byte
        /\ n3 % 256 \in Byte /\ n2 % 256 \in Byte /\ n1 % 256 \in Byte /\ n % 256 \in Byte
    BY <1>0, <1>1, <1>2, <1>3, <1>4, <1>5, <1>6, <1>7
  <1> HIDE DEF n1, n2, n3, n4, n5, n6, n7
  <1>9. \A i \in 1..8 : eight[i] \in Byte
    BY <1>8
  <1> HIDE DEF eight
  <1>10. BigEndian(n, w) = [i \in 1..w |-> eight[8 - w + i]]
    BY DEF BigEndian, eight, n1, n2, n3, n4, n5, n6, n7
  <1>11. \A i \in 1..w : eight[8 - w + i] \in Byte
    BY <1>9
  <1>12. [i \in 1..w |-> eight[8 - w + i]] \in [1..w -> Byte]
    BY <1>11
  <1>13. w \in Nat
    OBVIOUS
  <1> QED
    BY <1>10, <1>12, <1>13, BytesOfLength

\* The longest header has fourteen bytes, and every header the size that was
\* set aside for it.
\* What a header is made of.
Opening(f, n) ==
    <<128 * Bit(f.fin) + 16 * f.rsv + (f.opcode % 16), 128 * Bit(f.mask) + PayloadLength(n)>>
Width(n)    == ExtendedWidth(PayloadLength(n))
KeyPart(f)  == IF f.mask THEN f.key ELSE <<>>
KeySize(f)  == IF f.mask THEN 4 ELSE 0

LEMMA HeaderParts ==
    ASSUME NEW f \in SentFrame, Len(f.key) = 4, NEW n \in Nat
    PROVE  /\ Opening(f, n) \in Seq(Byte) /\ Len(Opening(f, n)) = 2
           /\ PayloadLength(n) \in 0..127 /\ Width(n) \in {0, 2, 8}
           /\ BigEndian(n, Width(n)) \in Seq(Byte) /\ Len(BigEndian(n, Width(n))) = Width(n)
           /\ KeyPart(f) \in Seq(Byte) /\ Len(KeyPart(f)) = KeySize(f) /\ KeySize(f) \in {0, 4}
           /\ HeaderFor(f, n) = (Opening(f, n) \o BigEndian(n, Width(n))) \o KeyPart(f)
  <1> DEFINE l == PayloadLength(n)
             w == Width(n)
  <1>1. /\ f.fin \in BOOLEAN /\ f.mask \in BOOLEAN /\ f.rsv \in 0..7 /\ f.opcode \in 0..255
        /\ f.key \in Seq(Byte)
    BY DEF SentFrame, Byte
  <1>o. f.opcode \in Nat
    <2>1. \A x \in 0..255 : x \in Nat
      OBVIOUS
    <2> QED
      BY <1>1, <2>1
  <1>2. l \in 0..127 /\ w \in {0, 2, 8}
    <2>1. l \in 0..127
      BY DEF PayloadLength
    <2>2. w \in {0, 2, 8}
      BY DEF Width, ExtendedWidth
    <2> QED
      BY <2>1, <2>2
  <1>3. Bit(f.fin) \in 0..1 /\ Bit(f.mask) \in 0..1
    BY <1>1 DEF Bit
  <1>4. (f.opcode % 16) \in 0..15
    BY <1>o
  <1>5. Opening(f, n) \in Seq(Byte) /\ Len(Opening(f, n)) = 2
    <2>1. 128 * Bit(f.fin) + 16 * f.rsv + (f.opcode % 16) \in Byte
      <3>1. \A b \in 0..1, v \in 0..7, o \in 0..15 : 128 * b + 16 * v + o \in Byte
        BY DEF Byte
      <3> QED
        BY <1>1, <1>3, <1>4, <3>1
    <2>2. 128 * Bit(f.mask) + l \in Byte
      <3>1. \A b \in 0..1, v \in 0..127 : 128 * b + v \in Byte
        BY DEF Byte
      <3> HIDE DEF l
      <3> QED
        BY <1>2, <1>3, <3>1
    <2> QED
      BY <2>1, <2>2 DEF Opening
  <1>6. BigEndian(n, w) \in Seq(Byte) /\ Len(BigEndian(n, w)) = w
    <2> HIDE DEF w
    <2> QED
      BY <1>2, BigEndianType
  <1>7. KeyPart(f) \in Seq(Byte) /\ Len(KeyPart(f)) = KeySize(f)
    BY <1>1, EmptySeq DEF KeyPart, KeySize
  <1>8. HeaderFor(f, n) = (Opening(f, n) \o BigEndian(n, w)) \o KeyPart(f)
    BY DEF HeaderFor, Opening, Width, KeyPart
  <1>9. KeySize(f) \in {0, 4}
    BY DEF KeySize
  <1> QED
    BY <1>2, <1>5, <1>6, <1>7, <1>8, <1>9

LEMMA HeaderType ==
    ASSUME NEW f \in SentFrame, Len(f.key) = 4
    PROVE  /\ Header(f) \in Seq(Byte)
           /\ Len(Header(f)) = HeaderSize(f)
           /\ HeaderSize(f) \in 2..14
  <1> DEFINE n == Len(f.payload)
             front == Opening(f, n)
             big == BigEndian(n, Width(n))
             key == KeyPart(f)
  <1>1. n \in Nat
    BY LenProperties DEF SentFrame
  <1>2. /\ front \in Seq(Byte) /\ Len(front) = 2 /\ Width(n) \in {0, 2, 8}
        /\ big \in Seq(Byte) /\ Len(big) = Width(n)
        /\ key \in Seq(Byte) /\ Len(key) = KeySize(f) /\ KeySize(f) \in {0, 4}
        /\ Header(f) = (front \o big) \o key
    BY <1>1, HeaderParts DEF Header
  <1>3. HeaderSize(f) = 2 + Width(n) + KeySize(f)
    BY DEF HeaderSize, Width, KeySize
  <1> HIDE DEF front, key, big, n
  <1>4. front \o big \in Seq(Byte) /\ Len(front \o big) = 2 + Width(n)
    BY <1>2, Joined
  <1>5. (front \o big) \o key \in Seq(Byte) /\ Len((front \o big) \o key) = 2 + Width(n) + KeySize(f)
    BY <1>2, <1>4, Joined
  <1>6. \A w \in {0, 2, 8}, k \in {0, 4} : 2 + w + k \in 2..14
    OBVIOUS
  <1>7. HeaderSize(f) \in 2..14
    BY <1>2, <1>3, <1>6
  <1>8. Header(f) \in Seq(Byte) /\ Len(Header(f)) = HeaderSize(f)
    BY <1>2, <1>3, <1>5, Zenon
  <1> QED
    BY <1>7, <1>8

\* Masked bytes are bytes, as many as there were.
LEMMA MaskedType ==
    ASSUME NEW p \in Seq(Byte), NEW key \in Seq(Byte), Len(key) = 4
    PROVE  /\ MaskedByRFC(p, key) \in Seq(Byte)
           /\ Len(MaskedByRFC(p, key)) = Len(p)
           /\ \A i \in 1..Len(p) : MaskedByRFC(p, key)[i] = Xor(p[i], key[((i - 1) % 4) + 1])
  <1>1. Len(p) \in Nat
    BY LenProperties
  <1>2. \A i \in 1..Len(p) : ((i - 1) % 4) + 1 \in 1..4
    BY <1>1
  <1>3. \A i \in 1..Len(p) : p[i] \in Byte /\ key[((i - 1) % 4) + 1] \in Byte
    BY <1>2, ElementOfSeq
  <1>4. \A i \in 1..Len(p) : Xor(p[i], key[((i - 1) % 4) + 1]) \in Byte
    BY <1>3, XorAssumption
  <1>5. MaskedByRFC(p, key) \in [1..Len(p) -> Byte]
    BY <1>4 DEF MaskedByRFC
  <1>6. MaskedByRFC(p, key) \in Seq(Byte)
    BY <1>1, <1>5
  <1>7. Len(MaskedByRFC(p, key)) = Len(p)
    BY <1>1, <1>5, <1>6, LenProperties
  <1> QED
    BY <1>6, <1>7 DEF MaskedByRFC

\* MaskPayload's blocks of eight bytes with the key twice, and its tail, mask
\* each byte with the byte of the key that RFC 6455 5.3 says.
THEOREM MaskPayloadIsRFC ==
    ASSUME NEW p \in Seq(Byte), NEW key \in Seq(Byte), Len(key) = 4
    PROVE  MaskPayload(p, key) = MaskedByRFC(p, key)
  <1> DEFINE blocks == 8 * (Len(p) \div 8)
             twice  == key \o key
  <1>1. Len(p) \in Nat /\ blocks \in Nat
    BY LenProperties
  <1>2. \A j \in 1..8 : twice[j] = IF j <= 4 THEN key[j] ELSE key[j - 4]
    <2>1. \A j \in 1..(Len(key) + Len(key)) :
              (key \o key)[j] = IF j <= Len(key) THEN key[j] ELSE key[j - Len(key)]
      BY ConcatProperties
    <2>2. Len(key) + Len(key) = 8
      OBVIOUS
    <2> QED
      BY <2>1, <2>2
  <1>3. ASSUME NEW i \in 1..Len(p)
        PROVE  /\ i <= blocks => twice[((i - 1) % 8) + 1] = key[((i - 1) % 4) + 1]
               /\ i > blocks  => (i - 1 - blocks) % 4 = (i - 1) % 4
    <2>1. i - 1 \in Nat
      BY <1>1
    <2>2. /\ ((i - 1) % 8) + 1 \in 1..8
          /\ ((i - 1) % 4) + 1 = IF ((i - 1) % 8) + 1 <= 4 THEN ((i - 1) % 8) + 1 ELSE ((i - 1) % 8) + 1 - 4
      BY <2>1
    <2>3. i > blocks => (i - 1 - blocks) % 4 = (i - 1) % 4
      <3>1. PICK k \in Nat : blocks = 8 * k
        BY <1>1
      <3> HIDE DEF blocks
      <3> QED
        BY <2>1, <3>1
    <2> HIDE DEF twice, blocks
    <2>j. PICK j : j = ((i - 1) % 8) + 1
      OBVIOUS
    <2>r. PICK r : r = ((i - 1) % 4) + 1
      OBVIOUS
    <2>4. j \in 1..8 /\ r = IF j <= 4 THEN j ELSE j - 4
      BY <2>2, <2>j, <2>r
    <2>5. twice[j] = IF j <= 4 THEN key[j] ELSE key[j - 4]
      BY <1>2, <2>4, Zenon
    <2>6. twice[j] = key[r]
      BY <2>4, <2>5, Zenon
    <2> QED
      BY <2>3, <2>j, <2>r, <2>6
  <1> HIDE DEF twice, blocks
  <1>4. MaskPayload(p, key) =
            [i \in 1..Len(p) |-> IF i <= blocks THEN Xor(p[i], twice[((i - 1) % 8) + 1])
                                 ELSE Xor(p[i], key[((i - 1 - blocks) % 4) + 1])]
    BY DEF MaskPayload, twice, blocks
  <1>5. \A i \in 1..Len(p) : (IF i <= blocks THEN Xor(p[i], twice[((i - 1) % 8) + 1])
                              ELSE Xor(p[i], key[((i - 1 - blocks) % 4) + 1]))
                             = Xor(p[i], key[((i - 1) % 4) + 1])
    <2> SUFFICES ASSUME NEW i \in 1..Len(p)
                 PROVE  (IF i <= blocks THEN Xor(p[i], twice[((i - 1) % 8) + 1])
                         ELSE Xor(p[i], key[((i - 1 - blocks) % 4) + 1]))
                        = Xor(p[i], key[((i - 1) % 4) + 1])
      OBVIOUS
    <2>1. CASE i <= blocks
      BY <1>3, <2>1
    <2>2. CASE ~(i <= blocks)
      <3>1. i > blocks
        BY <1>1, <2>2
      <3> QED
        BY <1>3, <2>2, <3>1
    <2> QED
      BY <2>1, <2>2
  <1> QED
    BY <1>4, <1>5 DEF MaskedByRFC

\* A payload may be cut and masked in two parts if the cut is on a whole key.
LEMMA MaskedInParts ==
    ASSUME NEW p \in Seq(Byte), NEW key \in Seq(Byte), Len(key) = 4,
           NEW n \in 0..Len(p), n % 4 = 0 \/ n = Len(p)
    PROVE  MaskedByRFC(SubSeq(p, 1, n), key) \o MaskedByRFC(SubSeq(p, n + 1, Len(p)), key)
             = MaskedByRFC(p, key)
  <1> DEFINE a == SubSeq(p, 1, n)
             b == SubSeq(p, n + 1, Len(p))
             ma == MaskedByRFC(a, key)
             mb == MaskedByRFC(b, key)
             mp == MaskedByRFC(p, key)
  <1>1. Len(p) \in Nat /\ n \in Nat /\ n <= Len(p)
    BY LenProperties
  <1>2. /\ a \in Seq(Byte) /\ Len(a) = n /\ \A i \in 1..n : a[i] = p[i]
        /\ b \in Seq(Byte) /\ Len(b) = Len(p) - n /\ \A i \in 1..(Len(p) - n) : b[i] = p[n + i]
    BY CutAnywhere
  <1>3. /\ ma \in Seq(Byte) /\ Len(ma) = n
        /\ \A i \in 1..n : ma[i] = Xor(a[i], key[((i - 1) % 4) + 1])
    <2>1. a \in Seq(Byte)
      BY <1>2
    <2> HIDE DEF a
    <2>2. /\ ma \in Seq(Byte) /\ Len(ma) = Len(a)
          /\ \A i \in 1..Len(a) : ma[i] = Xor(a[i], key[((i - 1) % 4) + 1])
      BY <2>1, MaskedType
    <2>3. Len(a) = n
      BY <1>2
    <2> QED
      BY <2>2, <2>3
  <1>4. /\ mb \in Seq(Byte) /\ Len(mb) = Len(p) - n
        /\ \A i \in 1..(Len(p) - n) : mb[i] = Xor(b[i], key[((i - 1) % 4) + 1])
    <2>1. b \in Seq(Byte)
      BY <1>2
    <2> HIDE DEF b
    <2>2. /\ mb \in Seq(Byte) /\ Len(mb) = Len(b)
          /\ \A i \in 1..Len(b) : mb[i] = Xor(b[i], key[((i - 1) % 4) + 1])
      BY <2>1, MaskedType
    <2>3. Len(b) = Len(p) - n
      BY <1>2
    <2> QED
      BY <2>2, <2>3
  <1>5. /\ mp \in Seq(Byte) /\ Len(mp) = Len(p)
        /\ \A i \in 1..Len(p) : mp[i] = Xor(p[i], key[((i - 1) % 4) + 1])
    BY MaskedType
  <1> HIDE DEF a, b, ma, mb, mp
  <1>6. /\ ma \o mb \in Seq(Byte) /\ Len(ma \o mb) = Len(p)
        /\ \A i \in 1..Len(p) : (ma \o mb)[i] = IF i <= n THEN ma[i] ELSE mb[i - n]
    <2>1. /\ ma \o mb \in Seq(Byte) /\ Len(ma \o mb) = Len(ma) + Len(mb)
          /\ \A i \in 1..(Len(ma) + Len(mb)) : (ma \o mb)[i] = IF i <= Len(ma) THEN ma[i] ELSE mb[i - Len(ma)]
      BY <1>3, <1>4, ConcatProperties
    <2> QED
      BY <1>1, <1>3, <1>4, <2>1
  <1>7. \A i \in 1..Len(p) : (ma \o mb)[i] = mp[i]
    <2> SUFFICES ASSUME NEW i \in 1..Len(p)
                 PROVE  (ma \o mb)[i] = mp[i]
      OBVIOUS
    <2>1. CASE i <= n
      <3>1. i \in 1..n
        BY <1>1, <2>1
      <3> QED
        BY <1>2, <1>3, <1>5, <1>6, <2>1, <3>1
    <2>2. CASE ~(i <= n)
      <3>1. i - n \in 1..(Len(p) - n) /\ n + (i - n) = i
        BY <1>1, <2>2
      <3>2. n # Len(p)
        BY <1>1, <2>2
      <3>3. (i - n - 1) % 4 = (i - 1) % 4
        <4>1. PICK k \in Nat : n = 4 * k
          <5>1. n = 4 * (n \div 4)
            BY <1>1, <3>2
          <5>2. n \div 4 \in Nat
            BY <1>1
          <5> QED
            BY <5>1, <5>2
        <4> QED
          BY <1>1, <4>1
      <3>4. mb[i - n] = Xor(b[i - n], key[((i - n - 1) % 4) + 1])
        BY <1>4, <3>1
      <3>5. b[i - n] = p[i]
        BY <1>2, <3>1
      <3> QED
        BY <1>5, <1>6, <2>2, <3>3, <3>4, <3>5
    <2> QED
      BY <2>1, <2>2
  <1>8. ma \o mb = mp
    BY <1>5, <1>6, <1>7, SeqEqual
  <1> QED
    BY <1>8 DEF a, b, ma, mb, mp

\* What masking makes of a part of the payload.
LEMMA CoveredType ==
    ASSUME NEW f \in SentFrame, Len(f.key) = 4, NEW p \in Seq(Byte)
    PROVE  /\ Covered(f, p) \in Seq(Byte) /\ Len(Covered(f, p)) = Len(p)
           /\ p = <<>> => Covered(f, p) = <<>>
  <1>1. f.key \in Seq(Byte)
    BY DEF SentFrame
  <1>2. Covered(f, p) \in Seq(Byte) /\ Len(Covered(f, p)) = Len(p)
    BY <1>1, MaskedType DEF Covered
  <1>3. p = <<>> => Covered(f, p) = <<>>
    BY <1>2, EmptySeq
  <1> QED
    BY <1>2, <1>3

LEMMA SealedType ==
    ASSUME NEW f \in SentFrame, Len(f.key) = 4
    PROVE  Sealed(f) \in Seq(Byte)
  <1>1. f.payload \in Seq(Byte)
    BY DEF SentFrame
  <1>2. Covered(f, f.payload) \in Seq(Byte)
    BY <1>1, CoveredType
  <1>3. Header(f) \in Seq(Byte)
    BY HeaderType
  <1> QED
    BY <1>2, <1>3, Joined DEF Sealed

-----------------------------------------------------------------------------
(* The invariant.                                                            *)

\* Type correctness and FitsInTheBuffer are inductive together with where a send
\* may be: a header is behind a flush or has been seen to fit, the whole payload
\* is left until the header is written, and no byte is handed over behind an error.
WhereTheSendIs ==
    /\ pc \in {"header", "sealed"} => left = frame.payload
    /\ pc = "sealed" => buf = <<>>
    /\ pc \in {"payload", "flush"} => ~werr

WriterInv ==
    /\ WriterTypeOK
    /\ size >= 14 /\ FitsInTheBuffer
    /\ WhereTheSendIs

LEMMA NoFrameType ==
    NoFrame \in SentFrame /\ Len(NoFrame.key) = 4
  <1>1. NoKey \in Seq(Byte) /\ Len(NoKey) = 4
    BY DEF NoKey, Byte
  <1>2. <<>> \in Seq(Byte)
    BY EmptySeq
  <1> QED
    BY <1>1, <1>2 DEF NoFrame, SentFrame, Byte

LEMMA PreparedType ==
    ASSUME WriterTypeOK, NEW f \in GivenFrame, NEW key \in Key
    PROVE  /\ Prepared(f, key) \in SentFrame /\ Len(Prepared(f, key).key) = 4
           /\ Prepared(f, key).payload = f.payload /\ f.payload \in Seq(Byte)
  <1>1. /\ f.fin \in BOOLEAN /\ f.rsv \in 0..7 /\ f.opcode \in Byte /\ f.payload \in Seq(Byte)
        /\ key \in Seq(Byte) /\ Len(key) = 4
    BY BufferedWriteAssumption
  <1>2. NoKey \in Seq(Byte) /\ Len(NoKey) = 4
    BY DEF NoKey, Byte
  <1>3. maskSendFrame \in BOOLEAN
    BY DEF WriterTypeOK
  <1>4. (f.fin \/ IsControlOpcode(f.opcode)) \in BOOLEAN
    BY <1>1
  <1>5. /\ (IF maskSendFrame THEN key ELSE NoKey) \in Seq(Byte)
        /\ Len(IF maskSendFrame THEN key ELSE NoKey) = 4
    BY <1>1, <1>2, <1>3
  <1> QED
    BY <1>1, <1>3, <1>4, <1>5 DEF Prepared, SentFrame

\* Whatever a flush comes to, no byte is lost or moved.
LEMMA FlushKeepsBytes ==
    ASSUME WriterInv, Flushed \/ FlushFails
    PROVE  /\ buf' \in Seq(Byte) /\ wire' \in Seq(Byte) /\ werr' \in BOOLEAN
           /\ size' = size /\ Len(buf') <= size
           /\ wire' \o buf' = wire \o buf
           /\ Flushed => buf' = <<>> /\ ~werr /\ ~werr'
           /\ FlushFails => werr'
  <1>1. /\ buf \in Seq(Byte) /\ wire \in Seq(Byte) /\ werr \in BOOLEAN
        /\ size \in Nat /\ Len(buf) \in Nat /\ Len(buf) <= size
    BY LenProperties DEF WriterInv, WriterTypeOK, FitsInTheBuffer
  <1>2. CASE Flushed
    <2>1. wire' = wire \o buf /\ buf' = <<>> /\ size' = size /\ ~werr /\ ~werr'
      BY <1>2 DEF Flushed
    <2>2. wire' \in Seq(Byte)
      BY <1>1, <2>1, Joined
    <2>3. wire' \o buf' = wire \o buf
      BY <2>1, <2>2, ConcatEmptySeq
    <2>4. buf' \in Seq(Byte) /\ Len(buf') = 0
      BY <2>1, EmptySeq
    <2>5. ~FlushFails
      BY <2>1 DEF FlushFails, FlushBroken, FlushRefused, writer
    <2>6. Len(buf') <= size
      BY <1>1, <2>4
    <2>7. werr' \in BOOLEAN
      BY <1>1, <1>2 DEF Flushed
    <2> QED
      BY <2>1, <2>2, <2>3, <2>4, <2>5, <2>6, <2>7
  <1>3. CASE FlushBroken
    <2>1. PICK n \in 0..Len(buf) : wire' = wire \o SubSeq(buf, 1, n) /\ buf' = SubSeq(buf, n + 1, Len(buf))
      BY <1>3 DEF FlushBroken
    <2>2. werr' /\ size' = size /\ ~werr
      BY <1>3 DEF FlushBroken
    <2>3. /\ SubSeq(buf, 1, n) \in Seq(Byte)
          /\ buf' \in Seq(Byte) /\ Len(buf') = Len(buf) - n
          /\ SubSeq(buf, 1, n) \o buf' = buf
      BY <1>1, <2>1, CutAnywhere
    <2>4. wire' \in Seq(Byte)
      BY <1>1, <2>1, <2>3, Joined
    <2>5. wire' \o buf' = wire \o buf
      <3> DEFINE a == SubSeq(buf, 1, n)
      <3>1. a \in Seq(Byte) /\ wire' = wire \o a /\ a \o buf' = buf
        BY <2>1, <2>3
      <3> HIDE DEF a
      <3>2. (wire \o a) \o buf' = wire \o (a \o buf')
        <4>1. wire \in Seq(Byte) /\ a \in Seq(Byte) /\ buf' \in Seq(Byte)
          BY <1>1, <2>3, <3>1
        <4> QED
          BY <4>1, Grouping
      <3> QED
        BY <3>1, <3>2
    <2>6. ~Flushed
      BY <2>2 DEF Flushed
    <2>7. Len(buf') <= size
      BY <1>1, <2>3
    <2> QED
      BY <2>2, <2>3, <2>4, <2>5, <2>6, <2>7
  <1>4. CASE FlushRefused
    BY <1>1, <1>4 DEF FlushRefused, writer, Flushed
  <1> QED
    BY <1>2, <1>3, <1>4 DEF FlushFails

\* A send that returns leaves nothing in hand.
LEMMA ReturnType ==
    ASSUME Return
    PROVE  /\ pc' = "idle" /\ frame' \in SentFrame /\ Len(frame'.key) = 4
           /\ left' \in Seq(Byte) /\ flushes' \in BOOLEAN
  BY NoFrameType, EmptySeq DEF Return, Goto

\* The next piece of a masked payload fits in the buffer and is cut on a whole
\* key, or is the last one.
LEMMA PieceFits ==
    ASSUME WriterInv
    PROVE  /\ Piece \in 0..Len(left) /\ Piece <= Available
           /\ Piece % 4 = 0 \/ Piece = Len(left)
  <1>1. /\ Len(left) \in Nat /\ Len(buf) \in Nat /\ size \in Nat /\ Len(buf) <= size
    BY LenProperties DEF WriterInv, WriterTypeOK, FitsInTheBuffer
  <1>2. Available \in Nat
    BY <1>1 DEF Available
  <1> DEFINE n == Least(Available, Len(left))
  <1>3. n \in Nat /\ n <= Available /\ n <= Len(left)
    BY <1>1, <1>2 DEF Least
  <1> HIDE DEF n
  <1>4. n - (n % 4) \in 0..n /\ (n - (n % 4)) % 4 = 0
    BY <1>3
  <1>5. Piece = IF n < Len(left) THEN n - (n % 4) ELSE n
    BY DEF Piece, n
  <1>6. CASE n < Len(left)
    BY <1>1, <1>2, <1>3, <1>4, <1>5, <1>6
  <1>7. CASE ~(n < Len(left))
    BY <1>1, <1>2, <1>3, <1>5, <1>7
  <1> QED
    BY <1>6, <1>7

LEMMA InvInitially == WriterInit => WriterInv
  <1> SUFFICES ASSUME WriterInit
               PROVE  WriterInv
    OBVIOUS
  <1>1. \A n \in WriterSize : FitWriter(n) \in Nat /\ FitWriter(n) >= 14
    BY BufferedWriteAssumption DEF FitWriter
  <1>2. size \in Nat /\ size >= 14
    BY <1>1 DEF WriterInit
  <1>3. Len(buf) = 0 /\ buf \in Seq(Byte) /\ wire \in Seq(Byte) /\ left \in Seq(Byte) /\ image \in Seq(Byte)
    BY EmptySeq DEF WriterInit
  <1>4. maskSendFrame \in BOOLEAN
    BY BufferedWriteAssumption DEF WriterInit
  <1>5. frame \in SentFrame /\ Len(frame.key) = 4
    BY NoFrameType DEF WriterInit
  <1>6. WriterTypeOK
    BY <1>2, <1>3, <1>4, <1>5 DEF WriterInit, WriterTypeOK
  <1>7. FitsInTheBuffer
    BY <1>2, <1>3 DEF FitsInTheBuffer
  <1>8. WhereTheSendIs
    BY DEF WriterInit, WhereTheSendIs
  <1> QED
    BY <1>2, <1>6, <1>7, <1>8 DEF WriterInv

LEMMA InvKept ==
    ASSUME WriterInv, [WriterNext]_writerVars
    PROVE  WriterInv'
  <1>1. /\ maskSendFrame \in BOOLEAN /\ werr \in BOOLEAN /\ flushes \in BOOLEAN
        /\ pc \in {"idle", "header", "sealed", "payload", "flush"}
        /\ buf \in Seq(Byte) /\ wire \in Seq(Byte) /\ left \in Seq(Byte) /\ image \in Seq(Byte)
        /\ frame \in SentFrame /\ Len(frame.key) = 4
        /\ sends \in Nat /\ renews \in Nat /\ size \in Nat
    BY DEF WriterInv, WriterTypeOK
  <1>2. size >= 14 /\ Len(buf) <= size /\ Len(buf) \in Nat /\ Len(left) \in Nat
    BY <1>1, LenProperties DEF WriterInv, FitsInTheBuffer
  <1>3. WhereTheSendIs
    BY DEF WriterInv
  <1>4. <<>> \in Seq(Byte) /\ Len(<<>>) = 0
    BY EmptySeq
  <1>5. ASSUME NEW f \in GivenFrame, NEW key \in Key, NEW flush \in BOOLEAN, StartSend(f, key, flush)
        PROVE  WriterInv'
    <2>1. frame' \in SentFrame /\ Len(frame'.key) = 4 /\ frame'.payload = f.payload /\ f.payload \in Seq(Byte)
      BY <1>5, PreparedType DEF StartSend, WriterInv
    <2>2. image' \in Seq(Byte)
      BY <1>1, <1>5, <2>1, SealedType, Joined DEF StartSend
    <2>3. WriterTypeOK'
      BY <1>1, <1>5, <2>1, <2>2 DEF StartSend, Goto, writer, WriterTypeOK
    <2>4. (size >= 14 /\ FitsInTheBuffer)'
      BY <1>2, <1>5 DEF StartSend, writer, FitsInTheBuffer
    <2>5. WhereTheSendIs'
      BY <1>5, <2>1 DEF StartSend, Goto, WhereTheSendIs
    <2> QED
      BY <2>3, <2>4, <2>5 DEF WriterInv
  <1>6. CASE FlushForHeader
    <2>1. /\ buf' \in Seq(Byte) /\ wire' \in Seq(Byte) /\ werr' \in BOOLEAN /\ size' = size /\ Len(buf') <= size
          /\ Flushed => buf' = <<>> /\ ~werr'
      BY <1>6, FlushKeepsBytes DEF FlushForHeader
    <2>2. (size >= 14 /\ FitsInTheBuffer)'
      BY <1>2, <2>1 DEF FitsInTheBuffer
    <2>3. CASE Flushed /\ Goto("sealed") /\ UNCHANGED hand
      <3>1. WriterTypeOK'
        BY <1>1, <1>6, <2>1, <2>3 DEF FlushForHeader, Goto, hand, WriterTypeOK
      <3>2. WhereTheSendIs'
        BY <1>3, <1>6, <2>1, <2>3 DEF FlushForHeader, Goto, hand, WhereTheSendIs
      <3> QED
        BY <2>2, <3>1, <3>2 DEF WriterInv
    <2>4. CASE Return
      <3>1. WriterTypeOK'
        BY <1>1, <1>6, <2>1, <2>4, ReturnType DEF FlushForHeader, WriterTypeOK
      <3>2. WhereTheSendIs'
        BY <2>4, ReturnType DEF WhereTheSendIs
      <3> QED
        BY <2>2, <3>1, <3>2 DEF WriterInv
    <2> QED
      BY <1>6, <2>3, <2>4 DEF FlushForHeader
  <1>7. CASE WriteHeader
    <2>1. CASE ~werr /\ Put(Header(frame)) /\ Goto("payload") /\ UNCHANGED hand
      <3>1. Header(frame) \in Seq(Byte) /\ Len(Header(frame)) = HeaderSize(frame) /\ HeaderSize(frame) \in 2..14
        BY <1>1, HeaderType
      <3>2. buf' \in Seq(Byte) /\ Len(buf') = Len(buf) + HeaderSize(frame)
        <4> DEFINE h == Header(frame)
        <4>1. h \in Seq(Byte) /\ Len(h) = HeaderSize(frame) /\ buf' = buf \o h
          BY <2>1, <3>1 DEF Put
        <4> HIDE DEF h
        <4>2. buf \o h \in Seq(Byte) /\ Len(buf \o h) = Len(buf) + Len(h)
          BY <1>1, <4>1, Joined
        <4> QED
          BY <4>1, <4>2
      <3>3. Len(buf) + HeaderSize(frame) <= size
        <4>1. CASE pc = "sealed"
          <5>1. Len(buf) = 0
            BY <1>3, <1>4, <4>1 DEF WhereTheSendIs
          <5>2. \A h \in 2..14 : size >= 14 /\ size \in Nat => 0 + h <= size
            OBVIOUS
          <5> QED
            BY <1>1, <1>2, <3>1, <5>1, <5>2
        <4>2. CASE pc = "header" /\ Available >= HeaderSize(frame)
          BY <1>1, <1>2, <3>1, <4>2 DEF Available
        <4> QED
          BY <1>7, <4>1, <4>2 DEF WriteHeader
      <3>4. (size >= 14 /\ FitsInTheBuffer)'
        BY <1>2, <2>1, <3>2, <3>3 DEF Put, FitsInTheBuffer
      <3>5. WriterTypeOK'
        BY <1>1, <1>7, <2>1, <3>2 DEF WriteHeader, Put, Goto, hand, WriterTypeOK
      <3>6. WhereTheSendIs'
        BY <2>1 DEF Put, Goto, WhereTheSendIs
      <3> QED
        BY <3>4, <3>5, <3>6 DEF WriterInv
    <2>2. CASE werr /\ Return /\ UNCHANGED writer
      <3>1. WriterTypeOK'
        BY <1>1, <1>7, <2>2, ReturnType DEF WriteHeader, writer, WriterTypeOK
      <3>2. WhereTheSendIs'
        BY <2>2, ReturnType DEF WhereTheSendIs
      <3>3. (size >= 14 /\ FitsInTheBuffer)'
        BY <1>2, <2>2 DEF writer, FitsInTheBuffer
      <3> QED
        BY <3>1, <3>2, <3>3 DEF WriterInv
    <2> QED
      BY <1>7, <2>1, <2>2 DEF WriteHeader
  <1>8. CASE WritePiece
    <2> DEFINE piece == SubSeq(left, 1, Piece)
    <2>1. Piece \in 0..Len(left) /\ Piece <= Available
      BY PieceFits
    <2>2. /\ piece \in Seq(Byte) /\ Len(piece) = Piece
          /\ left' \in Seq(Byte)
      BY <1>1, <1>8, <2>1, CutAnywhere DEF WritePiece
    <2> HIDE DEF piece
    <2>3. frame.key \in Seq(Byte)
      BY <1>1 DEF SentFrame
    <2>4. MaskPayload(piece, frame.key) \in Seq(Byte) /\ Len(MaskPayload(piece, frame.key)) = Piece
      <3>1. piece \in Seq(Byte) /\ frame.key \in Seq(Byte) /\ Len(frame.key) = 4
        BY <1>1, <2>2, <2>3
      <3>2. MaskPayload(piece, frame.key) = MaskedByRFC(piece, frame.key)
        BY <3>1, MaskPayloadIsRFC
      <3>3. /\ MaskedByRFC(piece, frame.key) \in Seq(Byte)
            /\ Len(MaskedByRFC(piece, frame.key)) = Len(piece)
        BY <3>1, MaskedType
      <3> QED
        BY <2>2, <3>2, <3>3
    <2>5. buf' = buf \o MaskPayload(piece, frame.key)
      BY <1>8 DEF WritePiece, Put, piece
    <2>6. buf' \in Seq(Byte) /\ Len(buf') = Len(buf) + Piece
      BY <1>1, <2>4, <2>5, Joined
    <2>7. Len(buf') <= size
      BY <1>1, <1>2, <2>1, <2>6 DEF Available
    <2>8. size' = size /\ werr' = werr /\ wire' = wire
      BY <1>8 DEF WritePiece, Put
    <2>9. (size >= 14 /\ FitsInTheBuffer)'
      BY <1>2, <2>7, <2>8 DEF FitsInTheBuffer
    <2>10. WriterTypeOK'
      BY <1>1, <1>8, <2>2, <2>6, <2>8 DEF WritePiece, WriterTypeOK
    <2>11. WhereTheSendIs'
      BY <1>3, <1>8, <2>8 DEF WritePiece, WhereTheSendIs
    <2> QED
      BY <2>9, <2>10, <2>11 DEF WriterInv
  <1>9. CASE FlushForPiece
    <2>1. /\ buf' \in Seq(Byte) /\ wire' \in Seq(Byte) /\ werr' \in BOOLEAN /\ size' = size /\ Len(buf') <= size
          /\ Flushed => buf' = <<>> /\ ~werr'
      BY <1>9, FlushKeepsBytes DEF FlushForPiece
    <2>2. (size >= 14 /\ FitsInTheBuffer)'
      BY <1>2, <2>1 DEF FitsInTheBuffer
    <2>3. CASE Flushed /\ UNCHANGED <<pc, hand>>
      <3>1. WriterTypeOK'
        BY <1>1, <1>9, <2>1, <2>3 DEF FlushForPiece, hand, WriterTypeOK
      <3>2. WhereTheSendIs'
        BY <1>9, <2>1, <2>3 DEF FlushForPiece, hand, WhereTheSendIs
      <3> QED
        BY <2>2, <3>1, <3>2 DEF WriterInv
    <2>4. CASE Return
      <3>1. WriterTypeOK'
        BY <1>1, <1>9, <2>1, <2>4, ReturnType DEF FlushForPiece, WriterTypeOK
      <3>2. WhereTheSendIs'
        BY <2>4, ReturnType DEF WhereTheSendIs
      <3> QED
        BY <2>2, <3>1, <3>2 DEF WriterInv
    <2> QED
      BY <1>9, <2>3, <2>4 DEF FlushForPiece
  <1>10. CASE WriteAndFlush
    <2> DEFINE n == Available
               part == SubSeq(left, 1, n)
               full == buf \o part
    <2>1. n \in 0..Len(left)
      BY <1>1, <1>2, <1>10 DEF WriteAndFlush, Available
    <2>2. /\ part \in Seq(Byte) /\ Len(part) = n
          /\ SubSeq(left, n + 1, Len(left)) \in Seq(Byte)
      BY <1>1, <2>1, CutAnywhere
    <2>3. full \in Seq(Byte) /\ Len(full) = size
      <3>1. full \in Seq(Byte) /\ Len(full) = Len(buf) + n
        <4> HIDE DEF n, part
        <4> QED
          BY <1>1, <2>2, Joined
      <3> QED
        BY <1>1, <1>2, <3>1 DEF Available
    <2>4. CASE /\ wire' = wire \o full /\ buf' = <<>>
               /\ left' = SubSeq(left, n + 1, Len(left))
               /\ UNCHANGED <<size, werr, pc, frame, flushes>>
      <3>1. wire' \in Seq(Byte) /\ left' \in Seq(Byte)
        <4> HIDE DEF full
        <4> QED
          BY <1>1, <2>2, <2>3, <2>4, Joined
      <3>2. WriterTypeOK'
        BY <1>1, <1>4, <1>10, <2>4, <3>1 DEF WriteAndFlush, WriterTypeOK
      <3>3. (size >= 14 /\ FitsInTheBuffer)'
        <4> HIDE DEF full, part, n
        <4>1. Len(buf') = 0 /\ size' = size
          BY <1>4, <2>4
        <4>2. 0 <= size
          BY <1>1
        <4> QED
          BY <1>2, <4>1, <4>2 DEF FitsInTheBuffer
      <3>4. WhereTheSendIs'
        BY <1>3, <1>10, <2>4 DEF WriteAndFlush, WhereTheSendIs
      <3> QED
        BY <3>2, <3>3, <3>4 DEF WriterInv
    <2>5. CASE /\ \E k \in 0..Len(full) :
                    /\ wire' = wire \o SubSeq(full, 1, k)
                    /\ buf' = SubSeq(full, k + 1, Len(full))
               /\ werr' = TRUE /\ Return /\ UNCHANGED size
      <3>1. PICK k \in 0..Len(full) : wire' = wire \o SubSeq(full, 1, k) /\ buf' = SubSeq(full, k + 1, Len(full))
        BY <2>5
      <3> HIDE DEF full
      <3>2. SubSeq(full, 1, k) \in Seq(Byte) /\ buf' \in Seq(Byte) /\ Len(buf') = Len(full) - k
        BY <2>3, <3>1, CutAnywhere
      <3>3. wire' \in Seq(Byte)
        BY <1>1, <3>1, <3>2, Joined
      <3>4. Len(buf') <= size
        BY <1>2, <2>3, <3>1, <3>2
      <3>5. WriterTypeOK'
        BY <1>1, <1>10, <2>5, <3>2, <3>3, ReturnType DEF WriteAndFlush, WriterTypeOK
      <3>6. (size >= 14 /\ FitsInTheBuffer)'
        BY <1>2, <2>5, <3>4 DEF FitsInTheBuffer
      <3>7. WhereTheSendIs'
        BY <2>5, ReturnType DEF WhereTheSendIs
      <3> QED
        BY <3>5, <3>6, <3>7 DEF WriterInv
    <2> QED
      BY <1>10, <2>4, <2>5 DEF WriteAndFlush
  <1>11. CASE WriteStraight
    <2>1. CASE wire' = wire \o left /\ left' = <<>> /\ UNCHANGED <<werr, pc, frame, flushes>>
      <3>1. wire' \in Seq(Byte)
        BY <1>1, <2>1, Joined
      <3>2. WriterTypeOK'
        BY <1>1, <1>4, <1>11, <2>1, <3>1 DEF WriteStraight, WriterTypeOK
      <3>3. (size >= 14 /\ FitsInTheBuffer)'
        BY <1>2, <1>11 DEF WriteStraight, FitsInTheBuffer
      <3>4. WhereTheSendIs'
        BY <1>3, <1>11, <2>1 DEF WriteStraight, WhereTheSendIs
      <3> QED
        BY <3>2, <3>3, <3>4 DEF WriterInv
    <2>2. CASE /\ \E k \in 0..Len(left) : wire' = wire \o SubSeq(left, 1, k)
               /\ werr' = TRUE /\ Return
      <3>1. PICK k \in 0..Len(left) : wire' = wire \o SubSeq(left, 1, k)
        BY <2>2
      <3>2. SubSeq(left, 1, k) \in Seq(Byte)
        BY <1>1, CutAnywhere
      <3>3. wire' \in Seq(Byte)
        BY <1>1, <3>1, <3>2, Joined
      <3>4. WriterTypeOK'
        BY <1>1, <1>11, <2>2, <3>3, ReturnType DEF WriteStraight, WriterTypeOK
      <3>5. (size >= 14 /\ FitsInTheBuffer)'
        BY <1>2, <1>11 DEF WriteStraight, FitsInTheBuffer
      <3>6. WhereTheSendIs'
        BY <2>2, ReturnType DEF WhereTheSendIs
      <3> QED
        BY <3>4, <3>5, <3>6 DEF WriterInv
    <2> QED
      BY <1>11, <2>1, <2>2 DEF WriteStraight
  <1>12. CASE WriteRest
    <2>1. buf' = buf \o left /\ left' = <<>> /\ size' = size /\ werr' = werr /\ wire' = wire
      BY <1>12 DEF WriteRest, Put
    <2>2. buf' \in Seq(Byte) /\ Len(buf') = Len(buf) + Len(left)
      BY <1>1, <2>1, Joined
    <2>3. Len(buf') <= size
      BY <1>1, <1>2, <1>12, <2>2 DEF WriteRest, Available
    <2>4. WriterTypeOK'
      BY <1>1, <1>4, <1>12, <2>1, <2>2 DEF WriteRest, WriterTypeOK
    <2>5. (size >= 14 /\ FitsInTheBuffer)'
      BY <1>2, <2>1, <2>3 DEF FitsInTheBuffer
    <2>6. WhereTheSendIs'
      BY <1>3, <1>12, <2>1 DEF WriteRest, WhereTheSendIs
    <2> QED
      BY <2>4, <2>5, <2>6 DEF WriterInv
  <1>13. CASE PayloadDone
    <2>1. (size >= 14 /\ FitsInTheBuffer)'
      BY <1>2, <1>13 DEF PayloadDone, writer, FitsInTheBuffer
    <2>2. CASE flushes /\ Goto("flush") /\ UNCHANGED hand
      <3>1. WriterTypeOK'
        BY <1>1, <1>13, <2>2 DEF PayloadDone, Goto, writer, hand, WriterTypeOK
      <3>2. WhereTheSendIs'
        BY <1>3, <1>13, <2>2 DEF PayloadDone, Goto, writer, WhereTheSendIs
      <3> QED
        BY <2>1, <3>1, <3>2 DEF WriterInv
    <2>3. CASE Return
      <3>1. WriterTypeOK'
        BY <1>1, <1>13, <2>3, ReturnType DEF PayloadDone, writer, WriterTypeOK
      <3>2. WhereTheSendIs'
        BY <2>3, ReturnType DEF WhereTheSendIs
      <3> QED
        BY <2>1, <3>1, <3>2 DEF WriterInv
    <2> QED
      BY <1>13, <2>2, <2>3 DEF PayloadDone
  <1>14. CASE Flush
    <2>1. /\ buf' \in Seq(Byte) /\ wire' \in Seq(Byte) /\ werr' \in BOOLEAN /\ size' = size /\ Len(buf') <= size
      BY <1>14, FlushKeepsBytes DEF Flush
    <2>2. Return
      BY <1>14 DEF Flush
    <2>3. WriterTypeOK'
      BY <1>1, <1>14, <2>1, <2>2, ReturnType DEF Flush, WriterTypeOK
    <2>4. (size >= 14 /\ FitsInTheBuffer)'
      BY <1>2, <2>1 DEF FitsInTheBuffer
    <2>5. WhereTheSendIs'
      BY <2>2, ReturnType DEF WhereTheSendIs
    <2> QED
      BY <2>3, <2>4, <2>5 DEF WriterInv
  <1>15. ASSUME NEW z \in WriterSize, RenewWriter(z)
         PROVE  WriterInv'
    <2>1. /\ buf' \in Seq(Byte) /\ wire' \in Seq(Byte) /\ werr' \in BOOLEAN
          /\ size' \in Nat /\ size' >= 14 /\ Len(buf') <= size'
      <3>1. CASE FlushFails
        BY <1>1, <1>2, <3>1, FlushKeepsBytes
      <3>2. CASE /\ wire' = wire \o buf /\ buf' = <<>>
                 /\ size' = FitWriter(z) /\ UNCHANGED werr
        <4>1. size' \in Nat /\ size' >= 14
          BY <3>2, BufferedWriteAssumption DEF FitWriter
        <4>2. wire' \in Seq(Byte)
          BY <1>1, <3>2, Joined
        <4>3. Len(buf') <= size'
          BY <1>4, <3>2, <4>1
        <4> QED
          BY <1>1, <1>4, <3>2, <4>1, <4>2, <4>3
      <3> QED
        BY <1>15, <3>1, <3>2 DEF RenewWriter
    <2>2. WriterTypeOK'
      BY <1>1, <1>15, <2>1 DEF RenewWriter, hand, WriterTypeOK
    <2>3. (size >= 14 /\ FitsInTheBuffer)'
      BY <2>1 DEF FitsInTheBuffer
    <2>4. WhereTheSendIs'
      BY <1>15 DEF RenewWriter, WhereTheSendIs
    <2> QED
      BY <2>2, <2>3, <2>4 DEF WriterInv
  <1>16. CASE UNCHANGED writerVars
    <2>1. WriterTypeOK'
      BY <1>1, <1>16 DEF writerVars, writer, hand, WriterTypeOK
    <2>2. (size >= 14 /\ FitsInTheBuffer)'
      BY <1>2, <1>16 DEF writerVars, writer, FitsInTheBuffer
    <2>3. WhereTheSendIs'
      BY <1>3, <1>16 DEF writerVars, writer, hand, WhereTheSendIs
    <2> QED
      BY <2>1, <2>2, <2>3 DEF WriterInv
  <1> QED
    BY <1>5, <1>6, <1>7, <1>8, <1>9, <1>10, <1>11, <1>12, <1>13, <1>14, <1>15, <1>16
       DEF WriterNext, WriterStep

\* Every variable of BufferedWrite keeps its type.
THEOREM WriterTypes == WriterSpec => []WriterTypeOK
  <1>1. WriterInv => WriterTypeOK
    BY DEF WriterInv
  <1> QED
    BY <1>1, InvInitially, InvKept, PTL DEF WriterSpec

\* FitsInTheBuffer, for every writer size: no header and no piece outgrows the
\* free space it is built in.
THEOREM NothingOutgrowsTheBuffer == WriterSpec => []FitsInTheBuffer
  <1>1. WriterInv => FitsInTheBuffer
    BY DEF WriterInv
  <1> QED
    BY <1>1, InvInitially, InvKept, PTL DEF WriterSpec

-----------------------------------------------------------------------------
(* No byte is lost, repeated or wrongly masked.                              *)

LEMMA Regrouped ==
    \A a, b, c, d \in Seq(Byte) : (a \o (b \o c)) \o d = (a \o b) \o (c \o d)
  <1> SUFFICES ASSUME NEW a \in Seq(Byte), NEW b \in Seq(Byte),
                      NEW c \in Seq(Byte), NEW d \in Seq(Byte)
               PROVE  (a \o (b \o c)) \o d = (a \o b) \o (c \o d)
    OBVIOUS
  <1>1. (a \o b) \o c = a \o (b \o c)
    BY Grouping
  <1> DEFINE ab == a \o b
  <1>2. ab \in Seq(Byte)
    BY Joined
  <1> HIDE DEF ab
  <1>3. (ab \o c) \o d = ab \o (c \o d)
    BY <1>2, Grouping
  <1> QED
    BY <1>1, <1>3 DEF ab

LEMMA NothingJoined ==
    ASSUME NEW a \in Seq(Byte)
    PROVE  a \o <<>> = a /\ <<>> \o a = a
  BY ConcatEmptySeq

\* What is still to come, by the place of the send.
LEMMA RestAt ==
    /\ pc \in {"header", "sealed"} => Rest = Sealed(frame)
    /\ pc = "payload" => Rest = Covered(frame, left)
    /\ pc \in {"idle", "flush"} => Rest = <<>>
    /\ pc' \in {"header", "sealed"} => Rest' = Sealed(frame')
    /\ pc' = "payload" => Rest' = Covered(frame', left')
    /\ pc' \in {"idle", "flush"} => Rest' = <<>>
  BY DEF Rest

LEMMA RestType ==
    ASSUME WriterInv
    PROVE  Rest \in Seq(Byte)
  <1>1. /\ frame \in SentFrame /\ Len(frame.key) = 4 /\ left \in Seq(Byte)
        /\ pc \in {"idle", "header", "sealed", "payload", "flush"}
    BY DEF WriterInv, WriterTypeOK
  <1>2. Sealed(frame) \in Seq(Byte)
    BY <1>1, SealedType
  <1>3. Covered(frame, left) \in Seq(Byte)
    BY <1>1, CoveredType
  <1>4. <<>> \in Seq(Byte)
    BY EmptySeq
  <1> QED
    BY <1>1, <1>2, <1>3, <1>4, RestAt

\* A write that fails leaves a beginning of the frames, if what it leaves and
\* something more are the frames.
LEMMA BrokenHere ==
    ASSUME wire' \in Seq(Byte), buf' \in Seq(Byte), werr' = TRUE, NEW more \in Seq(Byte),
           (wire' \o buf') \o more = image, image' = image
    PROVE  BytesAreTheFrames'
  <1>1. wire' \o buf' \in Seq(Byte)
    BY Joined
  <1> DEFINE both == wire' \o buf'
  <1>2. \E n \in 0..Len(both \o more) : both = SubSeq(both \o more, 1, n)
    <2>1. both \in Seq(Byte)
      BY <1>1
    <2> HIDE DEF both
    <2> QED
      BY <2>1, StartsIt
  <1> QED
    BY <1>2 DEF BytesAreTheFrames

\* A broken writer that keeps its bytes keeps a beginning of the frames.
LEMMA BrokenBefore ==
    ASSUME BytesAreTheFrames, werr = TRUE, werr' = TRUE,
           wire' \o buf' = wire \o buf, image' = image
    PROVE  BytesAreTheFrames'
  BY DEF BytesAreTheFrames

LEMMA Unbroken ==
    ASSUME BytesAreTheFrames, werr = FALSE, werr' = FALSE,
           (wire' \o buf') \o Rest' = (wire \o buf) \o Rest, image' = image
    PROVE  BytesAreTheFrames'
  BY DEF BytesAreTheFrames

LEMMA FailedFlush ==
    ASSUME WriterInv, BytesAreTheFrames, FlushFails, image' = image
    PROVE  BytesAreTheFrames'
  <1>1. /\ buf' \in Seq(Byte) /\ wire' \in Seq(Byte) /\ werr' = TRUE
        /\ wire' \o buf' = wire \o buf
    BY FlushKeepsBytes
  <1>2. werr \in BOOLEAN
    BY DEF WriterInv, WriterTypeOK
  <1>3. CASE werr = TRUE
    BY <1>1, <1>3, BrokenBefore
  <1>4. CASE werr = FALSE
    <2>1. Rest \in Seq(Byte)
      BY RestType
    <2>2. (wire' \o buf') \o Rest = image
      BY <1>1, <1>4 DEF BytesAreTheFrames
    <2> QED
      BY <1>1, <2>1, <2>2, BrokenHere
  <1> QED
    BY <1>2, <1>3, <1>4

LEMMA DoneFlush ==
    ASSUME WriterInv, BytesAreTheFrames, Flushed, Rest' = Rest, image' = image
    PROVE  BytesAreTheFrames'
  <1>1. wire' \o buf' = wire \o buf
    BY FlushKeepsBytes
  <1>2. werr = FALSE /\ werr' = FALSE
    BY DEF Flushed, WriterInv, WriterTypeOK
  <1> QED
    BY <1>1, <1>2, Unbroken

LEMMA BytesKept ==
    ASSUME WriterInv, BytesAreTheFrames, [WriterNext]_writerVars
    PROVE  BytesAreTheFrames'
  <1>1. /\ buf \in Seq(Byte) /\ wire \in Seq(Byte) /\ left \in Seq(Byte) /\ werr \in BOOLEAN
        /\ pc \in {"idle", "header", "sealed", "payload", "flush"}
        /\ frame \in SentFrame /\ Len(frame.key) = 4
    BY DEF WriterInv, WriterTypeOK
  <1>2. WhereTheSendIs
    BY DEF WriterInv
  <1>3. wire \o buf \in Seq(Byte) /\ <<>> \in Seq(Byte)
    BY <1>1, Joined, EmptySeq
  <1>4. ~werr => (wire \o buf) \o Rest = image
    BY DEF BytesAreTheFrames
  <1>r. \A c, d \in Seq(Byte) : (wire \o (buf \o c)) \o d = (wire \o buf) \o (c \o d)
    BY <1>1, Regrouped
  <1>5. ASSUME NEW f \in GivenFrame, NEW key \in Key, NEW flush \in BOOLEAN, StartSend(f, key, flush)
        PROVE  BytesAreTheFrames'
    <2>1. pc = "idle" /\ pc' = "header" /\ wire' = wire /\ buf' = buf /\ werr' = werr
      BY <1>5 DEF StartSend, Goto, writer
    <2>2. image' = IF werr THEN image ELSE image \o Sealed(frame')
      BY <1>5 DEF StartSend
    <2>3. CASE werr = TRUE
      BY <2>1, <2>2, <2>3, BrokenBefore
    <2>4. CASE werr = FALSE
      <3>1. wire \o buf = image
        <4>1. Rest = <<>>
          BY <2>1, RestAt
        <4>2. (wire \o buf) \o <<>> = wire \o buf
          <5> DEFINE both == wire \o buf
          <5>1. both \in Seq(Byte)
            BY <1>3
          <5> HIDE DEF both
          <5>2. both \o <<>> = both
            BY <5>1, NothingJoined
          <5> QED
            BY <5>2 DEF both
        <4> QED
          BY <1>4, <2>4, <4>1, <4>2
      <3>2. Rest' = Sealed(frame')
        BY <2>1, RestAt
      <3>3. (wire' \o buf') \o Rest' = image'
        BY <2>1, <2>2, <2>4, <3>1, <3>2
      <3> QED
        BY <2>1, <2>4, <3>3 DEF BytesAreTheFrames
    <2> QED
      BY <1>1, <2>3, <2>4
  <1>6. CASE FlushForHeader
    <2>1. image' = image /\ pc = "header"
      BY <1>6 DEF FlushForHeader
    <2>2. CASE Flushed /\ Goto("sealed") /\ UNCHANGED hand
      <3>1. Rest' = Rest
        BY <2>1, <2>2, RestAt DEF Goto, hand
      <3> QED
        BY <2>1, <2>2, <3>1, DoneFlush
    <2>3. CASE FlushFails
      BY <2>1, <2>3, FailedFlush
    <2> QED
      BY <1>6, <2>2, <2>3 DEF FlushForHeader
  <1>7. CASE WriteHeader
    <2>1. image' = image /\ pc \in {"header", "sealed"}
      BY <1>7 DEF WriteHeader
    <2>2. CASE ~werr /\ Put(Header(frame)) /\ Goto("payload") /\ UNCHANGED hand
      <3> DEFINE front == Header(frame)
                 body == Covered(frame, left)
      <3>1. front \in Seq(Byte) /\ body \in Seq(Byte)
        BY <1>1, HeaderType, CoveredType
      <3>2. Rest = front \o body
        BY <1>2, <2>1, RestAt DEF Sealed, WhereTheSendIs
      <3>3. Rest' = body /\ buf' = buf \o front /\ wire' = wire /\ werr' = werr
        BY <2>2, RestAt DEF Goto, hand, Put
      <3> HIDE DEF front, body
      <3>4. (wire \o (buf \o front)) \o body = (wire \o buf) \o (front \o body)
        <4>1. wire \in Seq(Byte) /\ buf \in Seq(Byte) /\ front \in Seq(Byte) /\ body \in Seq(Byte)
          BY <1>1, <3>1
        <4> QED
          BY <1>r, <4>1
      <3> QED
        BY <1>1, <2>1, <2>2, <3>2, <3>3, <3>4, Unbroken
    <2>3. CASE werr /\ Return /\ UNCHANGED writer
      <3>1. werr = TRUE /\ werr' = TRUE /\ wire' = wire /\ buf' = buf
        BY <1>1, <2>3 DEF writer
      <3> QED
        BY <2>1, <3>1, BrokenBefore
    <2> QED
      BY <1>7, <2>2, <2>3 DEF WriteHeader
  <1>8. CASE WritePiece
    <2> DEFINE piece == SubSeq(left, 1, Piece)
               after == SubSeq(left, Piece + 1, Len(left))
               out == MaskPayload(piece, frame.key)
               body == MaskedByRFC(after, frame.key)
    <2>1. frame.key \in Seq(Byte)
      BY <1>1 DEF SentFrame
    <2>2. Piece \in 0..Len(left) /\ (Piece % 4 = 0 \/ Piece = Len(left))
      BY PieceFits
    <2>3. piece \in Seq(Byte) /\ after \in Seq(Byte)
      BY <1>1, <2>2, CutAnywhere
    <2>4. MaskedByRFC(piece, frame.key) \o body = MaskedByRFC(left, frame.key)
      <3> DEFINE n == Piece
      <3>1. n \in 0..Len(left) /\ (n % 4 = 0 \/ n = Len(left))
        BY <2>2
      <3> HIDE DEF n
      <3>2. MaskedByRFC(SubSeq(left, 1, n), frame.key) \o MaskedByRFC(SubSeq(left, n + 1, Len(left)), frame.key)
              = MaskedByRFC(left, frame.key)
        BY <1>1, <2>1, <3>1, MaskedInParts
      <3> QED
        BY <3>2 DEF n
    <2> HIDE DEF piece, after
    <2>5. out = MaskedByRFC(piece, frame.key) /\ out \in Seq(Byte) /\ body \in Seq(Byte)
      <3>1. out = MaskedByRFC(piece, frame.key)
        BY <1>1, <2>1, <2>3, MaskPayloadIsRFC
      <3>2. MaskedByRFC(piece, frame.key) \in Seq(Byte) /\ body \in Seq(Byte)
        BY <1>1, <2>1, <2>3, MaskedType
      <3> QED
        BY <3>1, <3>2
    <2>6. /\ pc = "payload" /\ pc' = pc /\ frame.mask /\ frame' = frame /\ left' = after
          /\ buf' = buf \o out /\ wire' = wire /\ werr' = werr /\ image' = image
      BY <1>8 DEF WritePiece, Put, piece, after
    <2>7. Rest = out \o body
      BY <2>4, <2>5, <2>6, RestAt DEF Covered
    <2>8. Rest' = body
      BY <2>6, RestAt DEF Covered
    <2>9. werr = FALSE
      BY <1>1, <1>2, <2>6 DEF WhereTheSendIs
    <2> HIDE DEF out, body
    <2>10. (wire \o (buf \o out)) \o body = (wire \o buf) \o (out \o body)
      <3>1. wire \in Seq(Byte) /\ buf \in Seq(Byte) /\ out \in Seq(Byte) /\ body \in Seq(Byte)
        BY <1>1, <2>5
      <3> QED
        BY <1>r, <3>1
    <2> QED
      BY <2>6, <2>7, <2>8, <2>9, <2>10, Unbroken
  <1>9. CASE FlushForPiece
    <2>1. image' = image /\ pc = "payload"
      BY <1>9 DEF FlushForPiece
    <2>2. CASE Flushed /\ UNCHANGED <<pc, hand>>
      <3>1. Rest' = Rest
        BY <2>1, <2>2, RestAt DEF hand
      <3> QED
        BY <2>1, <2>2, <3>1, DoneFlush
    <2>3. CASE FlushFails
      BY <2>1, <2>3, FailedFlush
    <2> QED
      BY <1>9, <2>2, <2>3 DEF FlushForPiece
  <1>10. CASE WriteAndFlush
    <2> DEFINE n == Available
               part == SubSeq(left, 1, n)
               after == SubSeq(left, n + 1, Len(left))
               full == buf \o part
    <2>1. n \in 0..Len(left)
      <3>1. Len(left) \in Nat /\ Len(buf) \in Nat /\ size \in Nat /\ Len(buf) <= size
        BY <1>1, LenProperties DEF WriterInv, WriterTypeOK, FitsInTheBuffer
      <3> QED
        BY <1>10, <3>1 DEF WriteAndFlush, Available
    <2>2. part \in Seq(Byte) /\ after \in Seq(Byte) /\ part \o after = left
      BY <1>1, <2>1, CutAnywhere
    <2>3. pc = "payload" /\ ~frame.mask /\ image' = image
      BY <1>10 DEF WriteAndFlush
    <2>4. werr = FALSE
      BY <1>1, <1>2, <2>3 DEF WhereTheSendIs
    <2>5. CASE /\ wire' = wire \o full /\ buf' = <<>> /\ left' = after
               /\ UNCHANGED <<size, werr, pc, frame, flushes>>
      <3>1. wire' = wire \o full /\ buf' = <<>> /\ left' = after /\ werr' = werr
            /\ pc' = pc /\ frame' = frame
        BY <2>5
      <3>2. Rest = part \o after /\ Rest' = after
        BY <2>2, <2>3, <3>1, RestAt DEF Covered
      <3> HIDE DEF part, after
      <3>3. full \in Seq(Byte)
        BY <1>1, <2>2, Joined
      <3>4. (wire \o full) \o after = (wire \o buf) \o (part \o after)
        <4>1. wire \in Seq(Byte) /\ buf \in Seq(Byte) /\ part \in Seq(Byte) /\ after \in Seq(Byte)
          BY <1>1, <2>2
        <4> QED
          BY <1>r, <4>1
      <3> HIDE DEF full
      <3>5. (wire \o full) \o <<>> = wire \o full
        <4> DEFINE all == wire \o full
        <4>1. all \in Seq(Byte)
          BY <1>1, <3>3, Joined
        <4> HIDE DEF all
        <4>2. all \o <<>> = all
          BY <4>1, NothingJoined
        <4> QED
          BY <4>2 DEF all
      <3>6. (wire' \o buf') \o Rest' = (wire \o buf) \o Rest
        BY <3>1, <3>2, <3>4, <3>5
      <3> QED
        BY <2>3, <2>4, <3>1, <3>6, Unbroken
    <2>6. CASE /\ \E k \in 0..Len(full) :
                    /\ wire' = wire \o SubSeq(full, 1, k)
                    /\ buf' = SubSeq(full, k + 1, Len(full))
               /\ werr' = TRUE /\ Return /\ UNCHANGED size
      <3>1. PICK k \in 0..Len(full) : wire' = wire \o SubSeq(full, 1, k) /\ buf' = SubSeq(full, k + 1, Len(full))
        BY <2>6
      <3>2. werr' = TRUE
        BY <2>6
      <3>3. Rest = part \o after
        BY <2>2, <2>3, RestAt DEF Covered
      <3> HIDE DEF part, after
      <3>4. full \in Seq(Byte)
        BY <1>1, <2>2, Joined
      <3>5. (wire \o full) \o after = (wire \o buf) \o (part \o after)
        <4>1. wire \in Seq(Byte) /\ buf \in Seq(Byte) /\ part \in Seq(Byte) /\ after \in Seq(Byte)
          BY <1>1, <2>2
        <4> QED
          BY <1>r, <4>1
      <3> HIDE DEF full
      <3> DEFINE gone == SubSeq(full, 1, k)
      <3>6. gone \in Seq(Byte) /\ buf' \in Seq(Byte) /\ gone \o buf' = full /\ wire' = wire \o gone
        BY <3>1, <3>4, CutAnywhere
      <3> HIDE DEF gone
      <3>7. wire' \in Seq(Byte)
        BY <1>1, <3>6, Joined
      <3>8. (wire \o gone) \o buf' = wire \o (gone \o buf')
        <4> DEFINE kept == buf'
        <4>1. wire \in Seq(Byte) /\ gone \in Seq(Byte) /\ kept \in Seq(Byte)
          BY <1>1, <3>6
        <4> HIDE DEF kept
        <4>2. (wire \o gone) \o kept = wire \o (gone \o kept)
          BY <4>1, Grouping
        <4> QED
          BY <4>2 DEF kept
      <3>9. (wire' \o buf') \o after = image
        BY <1>4, <2>4, <3>3, <3>5, <3>6, <3>8
      <3> QED
        BY <2>2, <2>3, <3>2, <3>6, <3>7, <3>9, BrokenHere
    <2> QED
      BY <1>10, <2>5, <2>6 DEF WriteAndFlush
  <1>11. CASE WriteStraight
    <2>1. pc = "payload" /\ ~frame.mask /\ image' = image /\ buf = <<>> /\ buf' = <<>>
      BY <1>11 DEF WriteStraight
    <2>2. werr = FALSE
      BY <1>1, <1>2, <2>1 DEF WhereTheSendIs
    <2>3. Rest = left
      BY <2>1, RestAt DEF Covered
    <2>4. wire \o buf = wire
      BY <1>1, <2>1, NothingJoined
    <2>5. CASE wire' = wire \o left /\ left' = <<>> /\ UNCHANGED <<werr, pc, frame, flushes>>
      <3>1. Rest' = <<>>
        BY <2>1, <2>5, RestAt DEF Covered
      <3>2. wire' \in Seq(Byte) /\ wire' \o <<>> = wire'
        BY <1>1, <2>5, Joined, NothingJoined
      <3>3. (wire' \o buf') \o Rest' = (wire \o buf) \o Rest
        BY <2>1, <2>3, <2>4, <2>5, <3>1, <3>2
      <3> QED
        BY <2>1, <2>2, <2>5, <3>3, Unbroken
    <2>6. CASE /\ \E k \in 0..Len(left) : wire' = wire \o SubSeq(left, 1, k)
               /\ werr' = TRUE /\ Return
      <3>1. PICK k \in 0..Len(left) : wire' = wire \o SubSeq(left, 1, k)
        BY <2>6
      <3> DEFINE gone == SubSeq(left, 1, k)
                 after == SubSeq(left, k + 1, Len(left))
      <3>2. gone \in Seq(Byte) /\ after \in Seq(Byte) /\ gone \o after = left /\ wire' = wire \o gone
        BY <1>1, <3>1, CutAnywhere
      <3> HIDE DEF gone, after
      <3>3. wire' \in Seq(Byte)
        BY <1>1, <3>2, Joined
      <3>4. wire' \o buf' = wire'
        BY <2>1, <3>3, NothingJoined
      <3>5. (wire \o gone) \o after = wire \o (gone \o after)
        <4>1. wire \in Seq(Byte) /\ gone \in Seq(Byte) /\ after \in Seq(Byte)
          BY <1>1, <3>2
        <4> QED
          BY <4>1, Grouping
      <3>6. (wire' \o buf') \o after = image
        BY <1>4, <2>2, <2>3, <2>4, <3>2, <3>4, <3>5
      <3> QED
        BY <1>3, <2>1, <2>6, <3>2, <3>3, <3>6, BrokenHere
    <2> QED
      BY <1>11, <2>5, <2>6 DEF WriteStraight
  <1>12. CASE WriteRest
    <2>1. /\ pc = "payload" /\ pc' = pc /\ ~frame.mask /\ frame' = frame /\ left' = <<>>
          /\ buf' = buf \o left /\ wire' = wire /\ werr' = werr /\ image' = image
      BY <1>12 DEF WriteRest, Put
    <2>2. werr = FALSE
      BY <1>1, <1>2, <2>1 DEF WhereTheSendIs
    <2>3. Rest = left /\ Rest' = <<>>
      BY <2>1, RestAt DEF Covered
    <2>4. (wire \o (buf \o left)) \o <<>> = (wire \o buf) \o (left \o <<>>)
      BY <1>1, <1>3, Regrouped
    <2>5. left \o <<>> = left
      BY <1>1, NothingJoined
    <2>6. (wire' \o buf') \o Rest' = (wire \o buf) \o Rest
      BY <2>1, <2>3, <2>4, <2>5
    <2> QED
      BY <2>1, <2>2, <2>6, Unbroken
  <1>13. CASE PayloadDone
    <2>1. pc = "payload" /\ left = <<>> /\ image' = image /\ wire' = wire /\ buf' = buf /\ werr' = werr
      BY <1>13 DEF PayloadDone, writer
    <2>2. pc' \in {"idle", "flush"}
      BY <1>13 DEF PayloadDone, Goto, Return
    <2>3. Rest = <<>> /\ Rest' = <<>>
      BY <1>1, <1>3, <2>1, <2>2, RestAt, CoveredType
    <2>4. werr = FALSE
      BY <1>1, <1>2, <2>1 DEF WhereTheSendIs
    <2> QED
      BY <2>1, <2>3, <2>4, Unbroken
  <1>14. CASE Flush
    <2>1. pc = "flush" /\ pc' = "idle" /\ image' = image
      BY <1>14 DEF Flush, Return, Goto
    <2>2. Rest' = Rest
      BY <2>1, RestAt
    <2> QED
      BY <1>14, <2>1, <2>2, DoneFlush, FailedFlush DEF Flush
  <1>15. ASSUME NEW z \in WriterSize, RenewWriter(z)
         PROVE  BytesAreTheFrames'
    <2>1. pc = "idle" /\ pc' = pc /\ image' = image
      BY <1>15 DEF RenewWriter
    <2>2. Rest = <<>> /\ Rest' = <<>>
      BY <2>1, RestAt
    <2>3. CASE FlushFails
      BY <2>1, <2>3, FailedFlush
    <2>4. CASE /\ ~werr /\ wire' = wire \o buf /\ buf' = <<>> /\ UNCHANGED werr
      <3>1. wire' \in Seq(Byte)
        BY <1>3, <2>4
      <3>2. wire' \o buf' = wire \o buf
        BY <2>4, <3>1, NothingJoined
      <3>3. werr = FALSE /\ werr' = FALSE
        BY <1>1, <2>4
      <3> QED
        BY <2>1, <2>2, <3>2, <3>3, Unbroken
    <2> QED
      BY <1>15, <2>3, <2>4 DEF RenewWriter
  <1>16. CASE UNCHANGED writerVars
    <2>1. wire' = wire /\ buf' = buf /\ werr' = werr /\ image' = image /\ pc' = pc
          /\ frame' = frame /\ left' = left
      BY <1>16 DEF writerVars, writer, hand
    <2>2. Rest' = Rest
      BY <2>1 DEF Rest
    <2> QED
      BY <1>1, <2>1, <2>2, BrokenBefore, Unbroken
  <1> QED
    BY <1>5, <1>6, <1>7, <1>8, <1>9, <1>10, <1>11, <1>12, <1>13, <1>14, <1>15, <1>16
       DEF WriterNext, WriterStep

\* BytesAreTheFrames, for every frame, key, writer size and failing write: what
\* the socket took and the buffer holds are the frames in order, each masked as
\* if in one piece, or a beginning of them once the writer is broken.
THEOREM NoByteIsLost == WriterSpec => []BytesAreTheFrames
  <1>1. WriterInit => BytesAreTheFrames
    <2>1. ASSUME WriterInit
          PROVE  BytesAreTheFrames
      <3>1. wire = <<>> /\ buf = <<>> /\ image = <<>> /\ werr = FALSE /\ Rest = <<>>
        BY <2>1, RestAt DEF WriterInit
      <3>2. <<>> \o <<>> = <<>>
        BY EmptySeq, NothingJoined
      <3> QED
        BY <3>1, <3>2 DEF BytesAreTheFrames
    <2> QED
      BY <2>1
  <1> QED
    BY <1>1, InvInitially, InvKept, BytesKept, PTL DEF WriterSpec

\* NothingAfterABrokenWrite, for every way a send can go on behind an error:
\* whatever is called, the socket gets no byte behind the one that failed.
THEOREM NeverBehindABrokenWrite == WriterSpec => NothingAfterABrokenWrite
  <1>1. ASSUME WriterInv, [WriterNext]_writerVars
        PROVE  [werr => UNCHANGED wire]_writerVars
    <2> SUFFICES ASSUME werr
                 PROVE  wire' = wire
      OBVIOUS
    <2>1. pc \notin {"payload", "flush"}
      BY <1>1 DEF WriterInv, WhereTheSendIs
    <2>2. ~Flushed /\ (FlushFails => wire' = wire)
      BY DEF Flushed, FlushFails, FlushBroken, FlushRefused, writer
    <2>3. ASSUME NEW f \in GivenFrame, NEW key \in Key, NEW flush \in BOOLEAN, StartSend(f, key, flush)
          PROVE  wire' = wire
      BY <2>3 DEF StartSend, writer
    <2>4. CASE FlushForHeader
      BY <2>2, <2>4 DEF FlushForHeader
    <2>5. CASE WriteHeader
      BY <2>5 DEF WriteHeader, Put, writer
    <2>6. ASSUME NEW z \in WriterSize, RenewWriter(z)
          PROVE  wire' = wire
      BY <2>2, <2>6 DEF RenewWriter
    <2>7. CASE WriterStep
      BY <2>1, <2>4, <2>5, <2>7
         DEF WriterStep, WritePiece, FlushForPiece, WriteAndFlush, WriteStraight, WriteRest, PayloadDone, Flush
    <2>8. CASE UNCHANGED writerVars
      BY <2>8 DEF writerVars, writer
    <2> QED
      BY <1>1, <2>3, <2>6, <2>7, <2>8 DEF WriterNext
  <1> QED
    BY <1>1, InvInitially, InvKept, PTL DEF WriterSpec, NothingAfterABrokenWrite

-----------------------------------------------------------------------------
(* Headers read back.                                                        *)

\* Two sequences joined are cut apart where the first ends.
MadeOf(d, n, a, b) == d = a \o b /\ n = Len(a)
CutsTo(d, n, a, b) == SubSeq(d, 1, n) = a /\ SubSeq(d, n + 1, Len(d)) = b

LEMMA Halves ==
    ASSUME NEW a \in Seq(Byte), NEW b \in Seq(Byte), NEW d, NEW n, MadeOf(d, n, a, b)
    PROVE  CutsTo(d, n, a, b)
  <1> DEFINE m == Len(a) + Len(b)
  <1>0. n = Len(a) /\ d = a \o b
    BY DEF MadeOf
  <1>1. PICK c \in Seq(Byte) : c = a \o b /\ Len(c) = m /\ n \in 0..Len(c)
    <2>1. a \o b \in Seq(Byte) /\ Len(a \o b) = Len(a) + Len(b)
      BY Joined
    <2>2. Len(a) \in Nat /\ Len(b) \in Nat
      BY LenProperties
    <2>3. n \in 0..Len(a \o b)
      BY <1>0, <2>1, <2>2
    <2> QED
      BY <2>1, <2>3
  <1>2. \A i \in 1..(Len(a) + Len(b)) : c[i] = IF i <= Len(a) THEN a[i] ELSE b[i - Len(a)]
    BY <1>1, ConcatProperties
  <1>3. /\ SubSeq(c, 1, n) \in Seq(Byte) /\ Len(SubSeq(c, 1, n)) = n
        /\ SubSeq(c, n + 1, m) \in Seq(Byte) /\ Len(SubSeq(c, n + 1, m)) = m - n
        /\ \A i \in 1..n : SubSeq(c, 1, n)[i] = c[i]
        /\ \A i \in 1..(m - n) : SubSeq(c, n + 1, m)[i] = c[n + i]
    <2>1. /\ SubSeq(c, 1, n) \in Seq(Byte) /\ Len(SubSeq(c, 1, n)) = n
          /\ SubSeq(c, n + 1, Len(c)) \in Seq(Byte) /\ Len(SubSeq(c, n + 1, Len(c))) = Len(c) - n
          /\ \A i \in 1..n : SubSeq(c, 1, n)[i] = c[i]
          /\ \A i \in 1..(Len(c) - n) : SubSeq(c, n + 1, Len(c))[i] = c[n + i]
      BY <1>1, CutAnywhere
    <2> QED
      BY <1>1, <2>1, Zenon
  <1>4. PICK p, q \in Nat : p = Len(a) /\ q = Len(b) /\ n = p /\ m = p + q
    BY <1>0, LenProperties
  <1> HIDE DEF m
  <1>5. SubSeq(c, 1, n) = a
    <2>1. ASSUME NEW i \in 1..n PROVE SubSeq(c, 1, n)[i] = a[i]
      <3>1. i \in 1..(Len(a) + Len(b)) /\ i <= Len(a)
        BY <1>4
      <3>2. c[i] = a[i]
        BY <1>2, <3>1
      <3> QED
        BY <1>3, <3>2
    <2> QED
      BY <1>3, <1>4, <2>1, SeqEqual
  <1>6. SubSeq(c, n + 1, m) = b
    <2>1. ASSUME NEW i \in 1..q PROVE SubSeq(c, n + 1, m)[i] = b[i]
      <3>1. p + i \in 1..(Len(a) + Len(b)) /\ ~(p + i <= Len(a)) /\ (p + i) - Len(a) = i
        BY <1>4
      <3>2. c[p + i] = b[i]
        BY <1>2, <3>1
      <3>3. i \in 1..(m - n) /\ n + i = p + i
        BY <1>4
      <3> QED
        BY <1>3, <3>2, <3>3
    <2>2. PICK e : e = SubSeq(c, n + 1, m)
      OBVIOUS
    <2>3. e \in Seq(Byte) /\ Len(e) = m - n /\ \A i \in 1..q : e[i] = b[i]
      BY <1>3, <2>1, <2>2, Zenon
    <2>4. Len(e) = Len(b) /\ Len(e) = q
      BY <1>4, <2>3
    <2>5. e = b
      BY <2>3, <2>4, SeqEqual
    <2> QED
      BY <2>2, <2>5, Zenon
  <1>7. c = d
    BY <1>0, <1>1, Zenon
  <1>8. SubSeq(c, n + 1, Len(c)) = b
    BY <1>1, <1>6, Zenon
  <1>9. CutsTo(c, n, a, b)
    BY <1>5, <1>8, Zenon DEF CutsTo
  <1> QED
    BY <1>7, <1>9, Zenon

\* v holds what the first bytes of b are worth, up to n of them.
Worth(b, n, v) == v = [i \in 0..n |-> IF i = 0 THEN 0 ELSE v[i - 1] * 256 + b[i]]

LEMMA WorthExists ==
    ASSUME NEW b \in Seq(Byte)
    PROVE  \E v : Worth(b, Len(b), v)
  <1>b. \A y \in Byte : y \in Nat
    BY DEF Byte
  <1> DEFINE T == {n \in Nat : n <= Len(b) => \E v \in [0..n -> Nat] : Worth(b, n, v)}
  <1>1. 0 \in T
    <2> DEFINE v == [i \in 0..0 |-> 0]
    <2>1. v \in [0..0 -> Nat]
      OBVIOUS
    <2>2. Worth(b, 0, v)
      BY DEF Worth
    <2> QED
      BY <2>1, <2>2
  <1>2. ASSUME NEW n \in T PROVE n + 1 \in T
    <2>1. n \in Nat /\ n + 1 \in Nat /\ (n <= Len(b) => \E v \in [0..n -> Nat] : Worth(b, n, v))
      OBVIOUS
    <2>2. ASSUME n + 1 <= Len(b) PROVE \E v \in [0..(n + 1) -> Nat] : Worth(b, n + 1, v)
      <3>1. PICK v \in [0..n -> Nat] : Worth(b, n, v)
        BY <2>1, <2>2
      <3>2. b[n + 1] \in Nat
        <4>1. n + 1 \in 1..Len(b)
          BY <2>1, <2>2
        <4> QED
          <5>1. b[n + 1] \in Byte
            BY <4>1, ElementOfSeq
          <5> HIDE DEF T
          <5> QED
            BY <1>b, <5>1, Zenon
      <3> DEFINE u == [i \in 0..(n + 1) |-> IF i = n + 1 THEN v[n] * 256 + b[n + 1] ELSE v[i]]
      <3>3. v[n] \in Nat /\ \A i \in 0..n : v[i] = IF i = 0 THEN 0 ELSE v[i - 1] * 256 + b[i]
        BY <2>1, <3>1 DEF Worth
      <3>4. u \in [0..(n + 1) -> Nat]
        <4>1. v[n] * 256 + b[n + 1] \in Nat
          BY <3>2, <3>3
        <4>2. \A i \in 0..(n + 1) : i = n + 1 \/ i \in 0..n
          BY <2>1
        <4> QED
          BY <3>1, <4>1, <4>2
      <3>5. ASSUME NEW i \in 0..(n + 1) PROVE u[i] = IF i = 0 THEN 0 ELSE u[i - 1] * 256 + b[i]
        <4>1. CASE i = n + 1
          <5>1. i # 0 /\ i - 1 \in 0..(n + 1) /\ i - 1 # n + 1 /\ i - 1 = n
            BY <2>1, <4>1
          <5>2. u[i - 1] = v[n] /\ u[i] = v[n] * 256 + b[i]
            BY <4>1, <5>1
          <5> QED
            BY <5>1, <5>2
        <4>2. CASE i # n + 1
          <5>1. i \in 0..n /\ u[i] = v[i] /\ (i # 0 => u[i - 1] = v[i - 1])
            BY <2>1, <4>2
          <5> QED
            BY <3>3, <5>1
        <4> QED
          BY <4>1, <4>2
      <3>6. Worth(b, n + 1, u)
        <4>1. DOMAIN u = 0..(n + 1) /\ u = [i \in 0..(n + 1) |-> u[i]]
          OBVIOUS
        <4> HIDE DEF u
        <4> QED
          BY <3>5, <4>1 DEF Worth
      <3> QED
        BY <3>4, <3>6
    <2> QED
      BY <2>1, <2>2
  <1>3. T = Nat
    <2>1. T \in SUBSET Nat
      OBVIOUS
    <2> HIDE DEF T
    <2> QED
      BY <1>1, <1>2, <2>1, SetInduction
  <1>4. Len(b) \in T
    BY <1>3, LenProperties
  <1> QED
    BY <1>4

LEMMA WorthOf ==
    ASSUME NEW b \in Seq(Byte)
    PROVE  \E v : /\ v[0] = 0 /\ \A i \in 1..Len(b) : v[i] = v[i - 1] * 256 + b[i]
                  /\ FromBigEndian(b) = v[Len(b)]
  <1> DEFINE V == CHOOSE v : Worth(b, Len(b), v)
  <1>1. Worth(b, Len(b), V)
    BY WorthExists
  <1>2. FromBigEndian(b) = V[Len(b)]
    BY DEF FromBigEndian, Worth
  <1> HIDE DEF V
  <1>3. Len(b) \in Nat
    BY LenProperties
  <1>4. \A i \in 0..Len(b) : V[i] = IF i = 0 THEN 0 ELSE V[i - 1] * 256 + b[i]
    BY <1>1 DEF Worth
  <1>5. V[0] = 0 /\ \A i \in 1..Len(b) : V[i] = V[i - 1] * 256 + b[i]
    BY <1>3, <1>4
  <1> QED
    BY <1>2, <1>5

\* The highest of the eight digits of a number below 2^63 is all that is left.
LEMMA TopDigit ==
    ASSUME NEW a \in Nat, NEW b \in Nat, a < 32768, a = b * 256 + (a % 256)
    PROVE  (b % 256) = b
  <1>1. (a % 256) \in 0..255
    OBVIOUS
  <1>2. b < 256
    BY <1>1
  <1> QED
    BY <1>2

\* w bytes are enough for length n.
Suffices(n, w) == IsLength(n) /\ (w = 2 => n <= 65535)

\* A length is read back from its bytes, two if they suffice, or eight.
LEMMA LengthBack ==
    ASSUME NEW n \in Nat, NEW w \in {2, 8}, Suffices(n, w)
    PROVE  FromBigEndian(BigEndian(n, w)) = n
  <1>n. n \in Nat
    OBVIOUS
  <1>10. BigEndian(n, w) \in Seq(Byte) /\ Len(BigEndian(n, w)) = w
    <2>1. w \in {0, 2, 8}
      OBVIOUS
    <2> QED
      BY <2>1, BigEndianType
  <1> DEFINE n1 == n \div 256    n2 == n1 \div 256   n3 == n2 \div 256   n4 == n3 \div 256
             n5 == n4 \div 256   n6 == n5 \div 256   n7 == n6 \div 256
             eight == <<n7 % 256, n6 % 256, n5 % 256, n4 % 256, n3 % 256, n2 % 256, n1 % 256, n % 256>>
  <1>0. \A m \in Nat : m \div 256 \in Nat /\ m = (m \div 256) * 256 + (m % 256) /\ (m % 256) \in 0..255
    OBVIOUS
  <1>d. \A m \in Nat : m \div 65536 = (m \div 256) \div 256
    OBVIOUS
  <1>1. n1 \in Nat /\ n = n1 * 256 + (n % 256)
    BY <1>n, <1>0
  <1>2. n2 \in Nat /\ n1 = n2 * 256 + (n1 % 256) /\ n2 = n \div 65536
    BY <1>n, <1>0, <1>1, <1>d
  <1>3. n3 \in Nat /\ n2 = n3 * 256 + (n2 % 256)
    BY <1>0, <1>2
  <1>4. n4 \in Nat /\ n3 = n4 * 256 + (n3 % 256) /\ n4 = n2 \div 65536
    BY <1>0, <1>2, <1>3, <1>d
  <1>5. n5 \in Nat /\ n4 = n5 * 256 + (n4 % 256)
    BY <1>0, <1>4
  <1>6. n6 \in Nat /\ n5 = n6 * 256 + (n5 % 256) /\ n6 = n4 \div 65536
    BY <1>0, <1>4, <1>5, <1>d
  <1>7. n7 \in Nat /\ n6 = n7 * 256 + (n6 % 256)
    BY <1>0, <1>6
  <1>8. n6 < 32768
    BY <1>2, <1>4, <1>6 DEF Suffices, IsLength
  <1>b. BigEndian(n, w) = [i \in 1..w |-> eight[8 - w + i]]
    BY DEF BigEndian
  <1> HIDE DEF n1, n2, n3, n4, n5, n6, n7
  <1>9. (n7 % 256) = n7
    <2> HIDE DEF eight
    <2> QED
      BY <1>6, <1>7, <1>8, TopDigit
  <1>11. PICK v : /\ v[0] = 0 /\ \A i \in 1..w : v[i] = v[i - 1] * 256 + BigEndian(n, w)[i]
                  /\ FromBigEndian(BigEndian(n, w)) = v[w]
    BY <1>10, WorthOf
  <1>12. \A i \in 1..w : v[i] = v[i - 1] * 256 + eight[8 - w + i]
    <2> HIDE DEF eight
    <2>1. ASSUME NEW i \in 1..w PROVE BigEndian(n, w)[i] = eight[8 - w + i]
      BY <1>b
    <2> QED
      BY <1>11, <2>1
  <1>13. CASE w = 2
    <2>1. v[1] = v[0] * 256 + (n1 % 256) /\ v[2] = v[1] * 256 + (n % 256)
      <3>1. eight[7] = n1 % 256 /\ eight[8] = n % 256
        OBVIOUS
      <3> HIDE DEF eight
      <3>2. v[1] = v[0] * 256 + eight[7] /\ v[2] = v[1] * 256 + eight[8]
        BY <1>12, <1>13
      <3> QED
        BY <3>1, <3>2
    <2>2. n1 < 256
      BY <1>1, <1>13, <1>n DEF Suffices
    <2>3. n1 % 256 = n1
      BY <1>1, <2>2
    <2> QED
      BY <1>1, <1>11, <1>13, <2>1, <2>3
  <1>14. CASE w = 8
    <2>1. /\ eight[1] = n7 % 256 /\ eight[2] = n6 % 256 /\ eight[3] = n5 % 256 /\ eight[4] = n4 % 256
          /\ eight[5] = n3 % 256 /\ eight[6] = n2 % 256 /\ eight[7] = n1 % 256 /\ eight[8] = n % 256
      OBVIOUS
    <2> HIDE DEF eight
    <2>2. /\ v[1] = v[0] * 256 + eight[1] /\ v[2] = v[1] * 256 + eight[2]
          /\ v[3] = v[2] * 256 + eight[3] /\ v[4] = v[3] * 256 + eight[4]
          /\ v[5] = v[4] * 256 + eight[5] /\ v[6] = v[5] * 256 + eight[6]
          /\ v[7] = v[6] * 256 + eight[7] /\ v[8] = v[7] * 256 + eight[8]
      BY <1>12, <1>14
    <2>3. v[1] = n7
      BY <1>7, <1>9, <1>11, <2>1, <2>2
    <2>4. v[2] = n6
      BY <1>7, <2>1, <2>2, <2>3
    <2>5. v[3] = n5
      BY <1>6, <2>1, <2>2, <2>4
    <2>6. v[4] = n4
      BY <1>5, <2>1, <2>2, <2>5
    <2>7. v[5] = n3
      BY <1>4, <2>1, <2>2, <2>6
    <2>8. v[6] = n2
      BY <1>3, <2>1, <2>2, <2>7
    <2>9. v[7] = n1
      BY <1>2, <2>1, <2>2, <2>8
    <2>10. v[8] = n
      BY <1>1, <2>1, <2>2, <2>9
    <2> QED
      BY <1>11, <1>14, <2>10
  <1> QED
    BY <1>13, <1>14

\* The first two bytes of a header, read back.
FirstFor(f, n) ==
    [fin |-> f.fin, rsv |-> f.rsv, opcode |-> f.opcode % 16, mask |-> f.mask, len |-> PayloadLength(n)]

LEMMA FirstBack ==
    ASSUME NEW f \in SentFrame, Len(f.key) = 4, NEW n \in Nat
    PROVE  FirstOf(Opening(f, n)) = FirstFor(f, n)
  <1> DEFINE a == 128 * Bit(f.fin) + 16 * f.rsv + (f.opcode % 16)
             b == 128 * Bit(f.mask) + PayloadLength(n)
  <1>1. f.fin \in BOOLEAN /\ f.mask \in BOOLEAN /\ f.rsv \in 0..7 /\ f.opcode \in Nat
    <2>1. \A x \in Byte : x \in Nat
      BY DEF Byte
    <2> QED
      BY <2>1 DEF SentFrame
  <1>2. PayloadLength(n) \in 0..127
    BY HeaderParts
  <1>3. (f.opcode % 16) \in 0..15
    BY <1>1
  <1>5. \A l \in 0..127, k \in 0..1 : (128 * k + l) \div 128 = k /\ (128 * k + l) % 128 = l
    OBVIOUS
  <1>6. Bit(f.fin) \in 0..1 /\ Bit(f.mask) \in 0..1
    BY <1>1 DEF Bit
  <1>7. a \div 128 = Bit(f.fin) /\ ((a \div 16) % 8) = f.rsv /\ (a % 16) = (f.opcode % 16)
    <2>1. PICK k \in 0..1, v \in 0..7, o \in 0..15 :
              k = Bit(f.fin) /\ v = f.rsv /\ o = (f.opcode % 16)
      BY <1>1, <1>3, <1>6, Zenon
    <2>2. a = 128 * k + 16 * v + o
      BY <2>1
    <2> HIDE DEF a
    <2>3. a \div 128 = k /\ ((a \div 16) % 8) = v /\ (a % 16) = o
      <3>1. /\ (128 * k + 16 * v + o) \div 128 = k
            /\ ((128 * k + 16 * v + o) \div 16) % 8 = v
            /\ (128 * k + 16 * v + o) % 16 = o
        OBVIOUS
      <3> QED
        BY <2>2, <3>1
    <2> QED
      BY <2>1, <2>3, Zenon
  <1>8. b \div 128 = Bit(f.mask) /\ (b % 128) = PayloadLength(n)
    BY <1>2, <1>5, <1>6
  <1>9. Opening(f, n)[1] = a /\ Opening(f, n)[2] = b
    BY DEF Opening
  <1> HIDE DEF a, b
  <1>10. (a \div 128 = 1) = f.fin /\ (b \div 128 = 1) = f.mask
    BY <1>1, <1>7, <1>8 DEF Bit
  <1> QED
    BY <1>7, <1>8, <1>9, <1>10 DEF FirstOf, FirstFor

\* A whole header, cut after its first two bytes, is read back.
HeaderBack(f, n, h) ==
    /\ h \in Seq(Byte) /\ Len(h) \in 2..14
    /\ FirstOf(SubSeq(h, 1, 2)) = FirstFor(f, n)
    /\ SubSeq(h, 3, Len(h)) \in Seq(Byte)
    /\ Len(SubSeq(h, 3, Len(h))) = RestHeaderLength(FirstFor(f, n))
    /\ Len(h) = 2 + RestHeaderLength(FirstFor(f, n))
    /\ DeclaredLength(FirstFor(f, n), SubSeq(h, 3, Len(h))) = n
    /\ KeyIn(FirstFor(f, n), SubSeq(h, 3, Len(h))) = IF f.mask THEN f.key ELSE NoKey

LEMMA HeadersReadBack ==
    ASSUME NEW f \in SentFrame, Len(f.key) = 4, NEW n \in Nat, IsLength(n)
    PROVE  HeaderBack(f, n, HeaderFor(f, n))
  <1> DEFINE w     == Width(n)
             front == Opening(f, n)
             big   == BigEndian(n, w)
             key   == KeyPart(f)
             rest  == big \o key
             h     == HeaderFor(f, n)
             first == FirstFor(f, n)
  <1>1. /\ front \in Seq(Byte) /\ Len(front) = 2 /\ w \in {0, 2, 8}
        /\ big \in Seq(Byte) /\ Len(big) = w
        /\ key \in Seq(Byte) /\ Len(key) = KeySize(f) /\ KeySize(f) \in {0, 4}
        /\ h = (front \o big) \o key
    BY HeaderParts
  <1>2. first.len = PayloadLength(n) /\ first.mask = f.mask
    BY DEF FirstFor
  <1>3. RestHeaderLength(first) = w + KeySize(f)
    BY <1>2 DEF RestHeaderLength, Width, KeySize
  <1>4. FirstOf(front) = first
    BY FirstBack
  <1>5. /\ (first.len \in {126, 127}) = (w # 0)
        /\ w # 0 => w \in {2, 8} /\ Suffices(n, w)
        /\ w = 0 => first.len = n
        /\ ExtendedWidth(first.len) = w
    BY <1>2 DEF Width, PayloadLength, ExtendedWidth, Suffices
  <1>6. w # 0 => FromBigEndian(big) = n
    <2> HIDE DEF w
    <2> QED
      BY <1>5, LengthBack
  <1> HIDE DEF w, front, big, key, h, first
  <1>7. rest \in Seq(Byte) /\ Len(rest) = w + KeySize(f)
    BY <1>1, Joined
  <1>8. h = front \o rest
    BY <1>1, Grouping
  <1>9. h \in Seq(Byte) /\ Len(h) = 2 + Len(rest) /\ Len(h) = Len(front) + Len(rest)
    <2> HIDE DEF rest
    <2>1. front \o rest \in Seq(Byte) /\ Len(front \o rest) = Len(front) + Len(rest)
      BY <1>1, <1>7, Joined
    <2>2. h \in Seq(Byte) /\ Len(h) = Len(front) + Len(rest)
      BY <1>8, <2>1, Zenon
    <2> QED
      BY <1>1, <2>2
  <1>10. SubSeq(h, 1, 2) = front /\ SubSeq(h, 3, Len(h)) = rest
    <2> HIDE DEF rest
    <2>1. MadeOf(h, 2, front, rest)
      BY <1>1, <1>8, Zenon DEF MadeOf
    <2>2. CutsTo(h, 2, front, rest)
      BY <1>1, <1>7, <2>1, Halves
    <2>3. 2 + 1 = 3
      OBVIOUS
    <2> QED
      BY <2>2, <2>3, Zenon DEF CutsTo
  <1>13. CutsTo(rest, w, big, key)
    <2>1. MadeOf(rest, w, big, key)
      BY <1>1, Zenon DEF MadeOf
    <2> HIDE DEF rest
    <2> QED
      BY <1>1, <2>1, Halves
  <1>11. DeclaredLength(first, rest) = n
    <2>1. SubSeq(rest, 1, w) = big
      BY <1>13, Zenon DEF CutsTo
    <2> HIDE DEF rest
    <2> QED
      BY <1>5, <1>6, <2>1 DEF DeclaredLength
  <1>12. KeyIn(first, rest) = IF f.mask THEN f.key ELSE NoKey
    <2>1. CASE f.mask
      <3>1. KeySize(f) = 4 /\ key = f.key
        BY <2>1 DEF KeySize, key, KeyPart
      <3>2. SubSeq(rest, w + 1, Len(rest)) = key
        BY <1>13, Zenon DEF CutsTo
      <3> HIDE DEF rest
      <3>3. Len(rest) - 3 = w + 1
        BY <1>1, <1>7, <3>1
      <3>4. KeyIn(first, rest) = SubSeq(rest, Len(rest) - 3, Len(rest))
        BY <1>2, <2>1 DEF KeyIn
      <3> QED
        BY <2>1, <3>1, <3>2, <3>3, <3>4
    <2>2. CASE ~f.mask
      BY <1>2, <2>2 DEF KeyIn
    <2> QED
      BY <2>1, <2>2
  <1> HIDE DEF rest
  <1>14. Len(h) \in 2..14
    <2>1. \A x \in {0, 2, 8}, k \in {0, 4} : 2 + (x + k) \in 2..14
      OBVIOUS
    <2> QED
      BY <1>1, <1>7, <1>9, <2>1
  <1>15. HeaderBack(f, n, h)
    BY <1>3, <1>4, <1>7, <1>9, <1>10, <1>11, <1>12, <1>14 DEF HeaderBack, first
  <1> QED
    BY <1>15 DEF h

-----------------------------------------------------------------------------
(* The stream: writer, socket and reader together.                           *)

\* What the writer sees of a step of the whole stream.
LEMMA WriterMoves == [Next]_vars => [WriterNext]_writerVars
  BY DEF Next, vars, Send, Write, Renew, Read, Cut, Finished, WriterNext

\* A frame that is not masked has no key.
Keyless(f) == ~f.mask => f.key = NoKey

\* The frame in hand is kept, given up, or a new one.
LEMMA FrameMoves ==
    ASSUME [Next]_vars
    PROVE  \/ frame' = frame
           \/ frame' = NoFrame
           \/ \E f \in GivenFrame, key \in Key : frame' = Prepared(f, key)
  <1>1. [WriterNext]_writerVars
    BY WriterMoves
  <1>2. ASSUME NEW f \in GivenFrame, NEW key \in Key, NEW flush \in BOOLEAN, StartSend(f, key, flush)
        PROVE  frame' = Prepared(f, key)
    BY <1>2 DEF StartSend
  <1>3. ASSUME WriterStep PROVE frame' = frame \/ frame' = NoFrame
    BY <1>3 DEF WriterStep, FlushForHeader, WriteHeader, WritePiece, FlushForPiece, WriteAndFlush,
                WriteStraight, WriteRest, PayloadDone, Flush, Return, hand
  <1>4. ASSUME NEW s \in WriterSize, RenewWriter(s) PROVE frame' = frame
    BY <1>4 DEF RenewWriter, hand
  <1>5. ASSUME UNCHANGED writerVars PROVE frame' = frame
    BY <1>5 DEF writerVars, hand
  <1> QED
    BY <1>1, <1>2, <1>3, <1>4, <1>5 DEF WriterNext

LEMMA KeylessAlways ==
    /\ Init => Keyless(frame)
    /\ Keyless(frame) /\ [Next]_vars => Keyless(frame)'
  <1>1. Keyless(NoFrame)
    BY DEF Keyless, NoFrame
  <1>2. \A f, key : Keyless(Prepared(f, key))
    BY DEF Keyless, Prepared
  <1>3. Init => Keyless(frame)
    BY <1>1 DEF Init, WriterInit
  <1>4. ASSUME Keyless(frame), [Next]_vars PROVE Keyless(frame')
    BY <1>1, <1>2, <1>4, FrameMoves
  <1> QED
    BY <1>3, <1>4 DEF Keyless

LEMMA LengthsSurviveHere ==
    ASSUME WriterInv, Keyless(frame)
    PROVE  LengthsSurvive
  <1>1. frame \in SentFrame /\ Len(frame.key) = 4
    BY DEF WriterInv, WriterTypeOK
  <1>2. ASSUME NEW n \in Length
        PROVE  LET h     == HeaderFor(frame, n)
                   first == FirstOf(SubSeq(h, 1, 2))
                   rest  == SubSeq(h, 3, Len(h))
               IN  /\ Len(h) <= FitWriter(0)
                   /\ Len(rest) = RestHeaderLength(first)
                   /\ DeclaredLength(first, rest) = n
                   /\ KeyIn(first, rest) = frame.key
    <2> DEFINE h == HeaderFor(frame, n)
    <2>1. n \in Nat /\ IsLength(n)
      BY FrameStreamAssumption DEF IsLength
    <2>2. HeaderBack(frame, n, h)
      BY <1>1, <2>1, HeadersReadBack
    <2>3. (IF frame.mask THEN frame.key ELSE NoKey) = frame.key
      BY DEF Keyless
    <2>4. Len(h) \in 2..14 /\ FitWriter(0) = 14
      BY <2>2 DEF HeaderBack, FitWriter
    <2>5. Len(h) <= FitWriter(0)
      <3>1. \A x \in 2..14 : x <= 14
        OBVIOUS
      <3> QED
        BY <2>4, <3>1, Zenon
    <2> HIDE DEF h
    <2>6. /\ Len(SubSeq(h, 3, Len(h))) = RestHeaderLength(FirstOf(SubSeq(h, 1, 2)))
          /\ DeclaredLength(FirstOf(SubSeq(h, 1, 2)), SubSeq(h, 3, Len(h))) = n
          /\ KeyIn(FirstOf(SubSeq(h, 1, 2)), SubSeq(h, 3, Len(h))) = frame.key
      BY <2>2, <2>3, Zenon DEF HeaderBack
    <2> QED
      BY <2>5, <2>6 DEF h
  <1> QED
    BY <1>2 DEF LengthsSurvive

\* LengthsSurvive, for every length below 2^63, every frame and every key: the
\* header an accepted frame gets fits the smallest writer, and the reader finds
\* the length and the key in it again.
THEOREM EveryLengthSurvives == Spec => []LengthsSurvive
  <1>1. Init => WriterInv /\ Keyless(frame)
    BY InvInitially, KeylessAlways DEF Init
  <1>2. WriterInv /\ Keyless(frame) /\ [Next]_vars => (WriterInv /\ Keyless(frame))'
    BY WriterMoves, InvKept, KeylessAlways
  <1>3. WriterInv /\ Keyless(frame) => LengthsSurvive
    BY LengthsSurviveHere
  <1> QED
    BY <1>1, <1>2, <1>3, PTL DEF Spec

-----------------------------------------------------------------------------
(* A frame read back, byte for byte.                                         *)

\* From off on, d has the bytes of a, at least up to the one at n.
HasAt(d, off, a, n) ==
    /\ off \in Nat /\ n \in Nat /\ n <= Len(a) /\ off + n <= Len(d)
    /\ \A j \in 1..n : d[off + j] = a[j]

\* The bytes from lo + 1 to n of what d has there, which are those of a.
SameCut(d, off, a, lo, n) ==
    /\ SubSeq(d, off + lo + 1, off + n) = SubSeq(a, lo + 1, n)
    /\ SubSeq(a, lo + 1, n) \in Seq(Byte) /\ Len(SubSeq(a, lo + 1, n)) = n - lo

LEMMA CutsAgree ==
    ASSUME NEW a \in Seq(Byte), NEW d \in Seq(Byte), NEW off, NEW n \in Nat, NEW lo \in 0..n,
           HasAt(d, off, a, n)
    PROVE  SameCut(d, off, a, lo, n)
  <1>1. /\ off \in Nat /\ n \in Nat /\ lo \in Nat /\ lo <= n
        /\ \A j \in 1..n : d[off + j] = a[j]
    BY DEF HasAt
  <1>2. PICK la \in Nat, ld \in Nat : la = Len(a) /\ ld = Len(d) /\ n <= la /\ off + n <= ld
    BY LenProperties DEF HasAt
  <1>3. /\ \A i \in (lo + 1)..n : a[i] \in Byte
        /\ \A i \in (off + lo + 1)..(off + n) : d[i] \in Byte
    <2>1. ASSUME NEW i \in (lo + 1)..n PROVE a[i] \in Byte
      <3>1. i \in 1..Len(a)
        BY <1>1, <1>2
      <3> QED
        BY <3>1, ElementOfSeq
    <2>2. ASSUME NEW i \in (off + lo + 1)..(off + n) PROVE d[i] \in Byte
      <3>1. i \in 1..Len(d)
        BY <1>1, <1>2
      <3> QED
        BY <3>1, ElementOfSeq
    <2> QED
      BY <2>1, <2>2
  <1>4. PICK c : c = SubSeq(a, lo + 1, n)
    OBVIOUS
  <1>5. PICK e : e = SubSeq(d, off + lo + 1, off + n)
    OBVIOUS
  <1>6. c \in Seq(Byte) /\ Len(c) = n - lo /\ \A i \in 1..(n - lo) : c[i] = a[lo + i]
    <2>1. /\ c \in Seq(Byte)
          /\ Len(c) = IF lo + 1 <= n THEN n - (lo + 1) + 1 ELSE 0
          /\ \A i \in 1..(n - (lo + 1) + 1) : c[i] = a[(lo + 1) + i - 1]
      BY <1>1, <1>3, <1>4, SubSeqProperties
    <2> QED
      BY <1>1, <2>1
  <1>7. e \in Seq(Byte) /\ Len(e) = n - lo /\ \A i \in 1..(n - lo) : e[i] = d[off + lo + i]
    <2> DEFINE x == off + lo + 1
               y == off + n
    <2>1. /\ e \in Seq(Byte)
          /\ Len(e) = IF x <= y THEN y - x + 1 ELSE 0
          /\ \A i \in 1..(y - x + 1) : e[i] = d[x + i - 1]
      <3>1. x \in Int /\ y \in Int /\ e = SubSeq(d, x, y) /\ \A i \in x..y : d[i] \in Byte
        BY <1>1, <1>3, <1>5
      <3> HIDE DEF x, y
      <3> QED
        BY <3>1, SubSeqProperties
    <2> QED
      BY <1>1, <2>1
  <1>8. ASSUME NEW i \in 1..(n - lo) PROVE e[i] = c[i]
    <2>1. lo + i \in 1..n /\ off + lo + i = off + (lo + i)
      BY <1>1
    <2>2. d[off + (lo + i)] = a[lo + i]
      BY <1>1, <2>1
    <2> QED
      BY <1>6, <1>7, <2>1, <2>2
  <1>9. e = c
    BY <1>6, <1>7, <1>8, SeqEqual
  <1> QED
    BY <1>4, <1>5, <1>6, <1>9, Zenon DEF SameCut

\* A frame that can be given to the peer.
Sendable(f) ==
    /\ f \in SentFrame /\ Len(f.key) = 4
    /\ Keyless(f) /\ f.opcode \in 0..15 /\ IsLength(Len(f.payload))

\* The parts of it that the reader tells apart.
HeadLen(f) == Len(Header(f))
HeadOf(f)  == FirstFor(f, Len(f.payload))
RestOf(f)  == SubSeq(Sealed(f), 3, HeadLen(f))
BodyOf(f)  == SubSeq(Sealed(f), HeadLen(f) + 1, Len(Sealed(f)))

\* Masking twice with one key undoes it.
LEMMA UnmaskedAgain ==
    ASSUME NEW p \in Seq(Byte), NEW key \in Seq(Byte), Len(key) = 4
    PROVE  MaskPayload(MaskedByRFC(p, key), key) = p
  <1>1. PICK q : q = MaskedByRFC(p, key)
    OBVIOUS
  <1>2. /\ q \in Seq(Byte) /\ Len(q) = Len(p)
        /\ \A i \in 1..Len(p) : q[i] = Xor(p[i], key[((i - 1) % 4) + 1])
    BY <1>1, MaskedType
  <1>3. PICK r : r = MaskedByRFC(q, key)
    OBVIOUS
  <1>4. /\ r \in Seq(Byte) /\ Len(r) = Len(q)
        /\ \A i \in 1..Len(q) : r[i] = Xor(q[i], key[((i - 1) % 4) + 1])
    BY <1>2, <1>3, MaskedType
  <1>5. MaskPayload(q, key) = r
    BY <1>2, <1>3, MaskPayloadIsRFC
  <1>6. ASSUME NEW i \in 1..Len(r) PROVE r[i] = p[i]
    <2>1. Len(p) \in Nat /\ i \in 1..Len(p) /\ i \in 1..Len(q)
      BY <1>2, <1>4, LenProperties
    <2>2. ((i - 1) % 4) + 1 \in 1..4
      <3>1. i - 1 \in Nat
        BY <2>1
      <3> QED
        BY <3>1
    <2>3. PICK b : b = key[((i - 1) % 4) + 1]
      OBVIOUS
    <2>4. b \in Byte /\ p[i] \in Byte
      BY <2>1, <2>2, <2>3, ElementOfSeq
    <2>5. q[i] = Xor(p[i], b) /\ r[i] = Xor(q[i], b)
      BY <1>2, <1>4, <2>1, <2>3
    <2> QED
      BY <2>4, <2>5, XorAssumption
  <1>7. r = p
    BY <1>2, <1>4, <1>6, SeqEqual
  <1> QED
    BY <1>1, <1>5, <1>7

\* What the reader needs to know of one frame's bytes.
Readable(f) ==
    /\ Sealed(f) \in Seq(Byte)
    /\ HeadLen(f) \in 2..14 /\ Len(f.payload) \in Nat
    /\ Len(Sealed(f)) = HeadLen(f) + Len(f.payload)
    /\ RestHeaderLength(HeadOf(f)) = HeadLen(f) - 2
    /\ FirstOf(SubSeq(Sealed(f), 1, 2)) = HeadOf(f)
    /\ DeclaredLength(HeadOf(f), RestOf(f)) = Len(f.payload)
    /\ Opened(HeadOf(f), KeyIn(HeadOf(f), RestOf(f)), BodyOf(f)) = f

LEMMA OpenedAgain ==
    ASSUME NEW f, Sendable(f)
    PROVE  Opened(HeadOf(f), f.key, Covered(f, f.payload)) = f
  <1>1. /\ f \in SentFrame /\ Len(f.key) = 4 /\ f.opcode \in 0..15
        /\ f.key \in Seq(Byte) /\ f.payload \in Seq(Byte) /\ f.mask \in BOOLEAN
    BY DEF Sendable, SentFrame
  <1>2. HeadOf(f).fin = f.fin /\ HeadOf(f).rsv = f.rsv /\ HeadOf(f).mask = f.mask
    BY DEF HeadOf, FirstFor
  <1>3. HeadOf(f).opcode = f.opcode
    <2>1. \A x \in 0..15 : x % 16 = x
      OBVIOUS
    <2>2. HeadOf(f).opcode = f.opcode % 16
      BY DEF HeadOf, FirstFor
    <2> QED
      BY <1>1, <2>1, <2>2
  <1>4. (IF f.mask THEN MaskPayload(Covered(f, f.payload), f.key) ELSE Covered(f, f.payload)) = f.payload
    <2>1. CASE f.mask
      <3>1. Covered(f, f.payload) = MaskedByRFC(f.payload, f.key)
        BY <2>1 DEF Covered
      <3>2. MaskPayload(MaskedByRFC(f.payload, f.key), f.key) = f.payload
        BY <1>1, UnmaskedAgain
      <3> QED
        BY <2>1, <3>1, <3>2, Zenon
    <2>2. CASE ~f.mask
      BY <2>2 DEF Covered
    <2> QED
      BY <2>1, <2>2
  <1>5. f = [fin |-> f.fin, rsv |-> f.rsv, opcode |-> f.opcode, mask |-> f.mask,
             key |-> f.key, payload |-> f.payload]
    BY <1>1 DEF SentFrame
  <1>6. Opened(HeadOf(f), f.key, Covered(f, f.payload)) =
           [fin |-> HeadOf(f).fin, rsv |-> HeadOf(f).rsv, opcode |-> HeadOf(f).opcode,
            mask |-> HeadOf(f).mask, key |-> f.key,
            payload |-> IF HeadOf(f).mask THEN MaskPayload(Covered(f, f.payload), f.key)
                        ELSE Covered(f, f.payload)]
    BY Zenon DEF Opened
  <1> QED
    BY <1>2, <1>3, <1>4, <1>5, <1>6, Zenon

LEMMA FramesAreReadable ==
    ASSUME NEW f, Sendable(f)
    PROVE  Readable(f)
  <1> DEFINE h == Header(f)
             c == Covered(f, f.payload)
             s == Sealed(f)
             n == Len(f.payload)
  <1>1. /\ f \in SentFrame /\ Len(f.key) = 4 /\ IsLength(n) /\ n \in Nat
        /\ f.key \in Seq(Byte) /\ f.payload \in Seq(Byte)
        /\ (IF f.mask THEN f.key ELSE NoKey) = f.key
    BY LenProperties DEF Sendable, SentFrame, Keyless
  <1>2. HeaderBack(f, n, h)
    BY <1>1, HeadersReadBack DEF Header
  <1>3. c \in Seq(Byte) /\ Len(c) = n
    BY <1>1, CoveredType
  <1>4. s = h \o c
    BY DEF Sealed
  <1>5. /\ h \in Seq(Byte) /\ Len(h) \in 2..14
        /\ FirstOf(SubSeq(h, 1, 2)) = HeadOf(f)
        /\ SubSeq(h, 3, Len(h)) \in Seq(Byte)
        /\ Len(h) = 2 + RestHeaderLength(HeadOf(f))
        /\ Len(SubSeq(h, 3, Len(h))) = RestHeaderLength(HeadOf(f))
        /\ DeclaredLength(HeadOf(f), SubSeq(h, 3, Len(h))) = n
        /\ KeyIn(HeadOf(f), SubSeq(h, 3, Len(h))) = f.key
    BY <1>1, <1>2, Zenon DEF HeaderBack, HeadOf
  <1>6. Opened(HeadOf(f), f.key, c) = f
    BY OpenedAgain
  <1> HIDE DEF h, c, s, n
  <1>7. h \o c \in Seq(Byte) /\ Len(h \o c) = Len(h) + Len(c)
    BY <1>3, <1>5, Joined
  <1>8. s \in Seq(Byte) /\ Len(s) = Len(h) + n
    BY <1>3, <1>4, <1>7, Zenon
  <1>9. PICK k \in 2..14 : k = Len(h)
    BY <1>5
  <1>10. HasAt(s, 0, h, k) /\ HasAt(s, 0, h, 2)
    <2>1. ASSUME NEW j \in 1..k PROVE s[0 + j] = h[j]
      <3>1. j \in 1..(Len(h) + Len(c)) /\ j <= Len(h) /\ 0 + j = j
        BY <1>1, <1>3, <1>9 DEF n
      <3>2. (h \o c)[j] = IF j <= Len(h) THEN h[j] ELSE c[j - Len(h)]
        BY <1>3, <1>5, <3>1, ConcatProperties
      <3> QED
        BY <1>4, <3>1, <3>2, Zenon
    <2>2. k <= Len(h) /\ 0 + k <= Len(s) /\ 2 <= k /\ n \in Nat
      BY <1>1, <1>8, <1>9 DEF n
    <2> QED
      BY <1>8, <1>9, <2>1, <2>2 DEF HasAt
  <1>11. SubSeq(s, 1, 2) = SubSeq(h, 1, 2) /\ SubSeq(s, 3, k) = SubSeq(h, 3, k)
    <2>1. SameCut(s, 0, h, 0, 2) /\ SameCut(s, 0, h, 2, k)
      BY <1>5, <1>8, <1>9, <1>10, CutsAgree
    <2>2. 0 + 0 + 1 = 1 /\ 0 + 2 = 2 /\ 0 + 1 = 1 /\ 0 + 2 + 1 = 3 /\ 2 + 1 = 3 /\ 0 + k = k
      BY <1>9
    <2> QED
      BY <2>1, <2>2, Zenon DEF SameCut
  <1>12. SubSeq(s, k + 1, Len(s)) = c
    <2>1. MadeOf(s, k, h, c)
      BY <1>4, <1>9, Zenon DEF MadeOf
    <2>2. CutsTo(s, k, h, c)
      BY <1>3, <1>5, <2>1, Halves
    <2> QED
      BY <2>2 DEF CutsTo
  <1>13. HeadLen(f) = k /\ RestOf(f) = SubSeq(h, 3, k) /\ BodyOf(f) = c
    BY <1>9, <1>11, <1>12, Zenon DEF HeadLen, RestOf, BodyOf, h, s
  <1>14. SubSeq(h, 3, Len(h)) = RestOf(f)
    BY <1>9, <1>13, Zenon
  <1>15. RestHeaderLength(HeadOf(f)) = k - 2
    <2>1. RestHeaderLength(HeadOf(f)) \in Nat
      BY <1>5, LenProperties, Zenon
    <2> QED
      BY <1>5, <1>9, <2>1
  <1>16. /\ s \in Seq(Byte) /\ HeadLen(f) \in 2..14 /\ n \in Nat /\ Len(s) = HeadLen(f) + n
         /\ RestHeaderLength(HeadOf(f)) = HeadLen(f) - 2
    BY <1>1, <1>8, <1>9, <1>13, <1>15, Zenon DEF n
  <1>17. /\ FirstOf(SubSeq(s, 1, 2)) = HeadOf(f)
         /\ DeclaredLength(HeadOf(f), RestOf(f)) = n
         /\ Opened(HeadOf(f), KeyIn(HeadOf(f), RestOf(f)), BodyOf(f)) = f
    BY <1>5, <1>6, <1>11, <1>13, <1>14, Zenon
  <1> QED
    BY <1>16, <1>17, Zenon DEF Readable, s, n

-----------------------------------------------------------------------------
(* The frames read are the frames sent.                                      *)

\* Where the frames given start in the bytes of all of them: p[i] bytes go
\* before frame i + 1.
Layout(p, g, bytes) ==
    /\ p \in [0..Len(g) -> Nat] /\ p[0] = 0 /\ p[Len(g)] = Len(bytes)
    /\ \A i \in 1..Len(g) :
          /\ p[i] = p[i - 1] + Len(Sealed(g[i]))
          /\ p[i] <= Len(bytes)
          /\ HasAt(bytes, p[i - 1], Sealed(g[i]), Len(Sealed(g[i])))

GivenOK ==
    /\ given \in Seq(SentFrame)
    /\ \A i \in 1..Len(given) : Sendable(given[i])

\* What the socket has taken is a beginning of the frames' bytes.
LEMMA WireBegins ==
    ASSUME WriterInv, BytesAreTheFrames
    PROVE  HasAt(image, 0, wire, Len(wire))
  <1>1. wire \in Seq(Byte) /\ buf \in Seq(Byte) /\ image \in Seq(Byte) /\ Rest \in Seq(Byte)
    BY RestType DEF WriterInv, WriterTypeOK
  <1>2. \E more \in Seq(Byte) : \E n \in 0..Len(image) :
            wire \o more = SubSeq(image, 1, n)
    <2>1. CASE werr
      BY <1>1, <2>1 DEF BytesAreTheFrames
    <2>2. CASE ~werr
      <3>1. (wire \o buf) \o Rest = image
        BY <2>2 DEF BytesAreTheFrames
      <3>2. wire \o (buf \o Rest) = image /\ buf \o Rest \in Seq(Byte)
        <4>1. (wire \o buf) \o Rest = wire \o (buf \o Rest)
          BY <1>1, Grouping
        <4>2. buf \o Rest \in Seq(Byte)
          BY <1>1, Joined
        <4> QED
          BY <3>1, <4>1, <4>2, Zenon
      <3>3. SubSeq(image, 1, Len(image)) = image /\ Len(image) \in 0..Len(image)
        BY <1>1, SubSeqFull, LenProperties
      <3> QED
        BY <3>2, <3>3
    <2> QED
      BY <2>1, <2>2
  <1>3. PICK more \in Seq(Byte) : \E n \in 0..Len(image) : wire \o more = SubSeq(image, 1, n)
    BY <1>2
  <1>4. PICK n \in 0..Len(image) : wire \o more = SubSeq(image, 1, n)
    BY <1>3
  <1>5. PICK c \in Seq(Byte) : /\ c = SubSeq(image, 1, n) /\ Len(c) = n
                               /\ \A i \in 1..n : c[i] = image[i]
    BY <1>1, CutAnywhere
  <1>6. PICK lw \in Nat, li \in Nat, lm \in Nat : lw = Len(wire) /\ li = Len(image) /\ lm = Len(more)
    BY <1>1, LenProperties
  <1>7. /\ Len(wire \o more) = lw + lm
        /\ \A i \in 1..(lw + lm) : (wire \o more)[i] = IF i <= lw THEN wire[i] ELSE more[i - lw]
    BY <1>1, <1>6, ConcatProperties
  <1>8. c = wire \o more
    BY <1>4, <1>5, Zenon
  <1>9. n = lw + lm /\ n <= li /\ n \in Nat
    BY <1>4, <1>5, <1>6, <1>7, <1>8
  <1>10. ASSUME NEW j \in 1..lw PROVE image[0 + j] = wire[j]
    <2>1. j \in 1..n /\ j \in 1..(lw + lm) /\ j <= lw /\ 0 + j = j
      BY <1>9
    <2>2. (wire \o more)[j] = wire[j]
      BY <1>7, <2>1
    <2>3. c[j] = image[j]
      BY <1>5, <2>1
    <2> QED
      BY <1>8, <2>1, <2>2, <2>3, Zenon
  <1> QED
    BY <1>6, <1>9, <1>10 DEF HasAt

\* The bytes the reader takes are those of the frame it is in.
LEMMA BytesOfFrame ==
    ASSUME NEW bytes \in Seq(Byte), NEW arrived \in Seq(Byte), HasAt(bytes, 0, arrived, Len(arrived)),
           NEW s \in Seq(Byte), NEW b, HasAt(bytes, b, s, Len(s)),
           NEW n \in 0..Len(s), b + n <= Len(arrived)
    PROVE  HasAt(arrived, b, s, n)
  <1>1. /\ b \in Nat /\ \A j \in 1..Len(s) : bytes[b + j] = s[j]
        /\ \A j \in 1..Len(arrived) : bytes[0 + j] = arrived[j]
    BY DEF HasAt
  <1>2. PICK ls \in Nat, la \in Nat : ls = Len(s) /\ la = Len(arrived) /\ n <= ls /\ b + n <= la /\ n \in Nat
    BY LenProperties
  <1>3. ASSUME NEW j \in 1..n PROVE arrived[b + j] = s[j]
    <2>1. j \in 1..Len(s) /\ b + j \in 1..Len(arrived) /\ 0 + (b + j) = b + j
      BY <1>1, <1>2
    <2>2. bytes[b + j] = s[j]
      BY <1>1, <2>1
    <2>3. bytes[0 + (b + j)] = arrived[b + j]
      BY <1>1, <2>1
    <2> QED
      BY <2>1, <2>2, <2>3
  <1> QED
    BY <1>1, <1>2, <1>3 DEF HasAt

\* The reader behind the first Len(read) frames, or inside the next one.
Current == given[Len(read) + 1]

ReaderAt(p) ==
    /\ Len(read) \in 0..Len(given)
    /\ read = SubSeq(given, 1, Len(read))
    /\ taken \in Nat /\ taken <= Len(wire)
    /\ rpc \in {"first", "rest", "payload", "stopped"}
    /\ rpc = "first" => taken = p[Len(read)]
    /\ rpc \in {"rest", "payload"} => Len(read) < Len(given)
    /\ rpc = "rest" => /\ taken = p[Len(read)] + 2
                       /\ head = [first |-> HeadOf(Current), rest |-> <<>>]
    /\ rpc = "payload" => /\ taken = p[Len(read)] + HeadLen(Current)
                          /\ head = [first |-> HeadOf(Current), rest |-> RestOf(Current)]

Settled(p) ==
    /\ WriterInv /\ BytesAreTheFrames /\ GivenOK
    /\ Layout(p, given, image) /\ ReaderAt(p)

\* The frame the reader is in, or about to be in, among all the bytes.
LEMMA FrameHere ==
    ASSUME NEW p, Settled(p), Len(read) < Len(given)
    PROVE  /\ Len(read) \in Nat /\ Len(read) + 1 \in 1..Len(given)
           /\ Sendable(Current) /\ Readable(Current)
           /\ p[Len(read)] \in Nat
           /\ HasAt(image, p[Len(read)], Sealed(Current), Len(Sealed(Current)))
           /\ p[Len(read) + 1] = p[Len(read)] + HeadLen(Current) + Len(Current.payload)
           /\ p[Len(read) + 1] <= Len(image)
  <1>1. PICK k \in Nat, g \in Nat : k = Len(read) /\ g = Len(given) /\ k < g
    <2>1. Len(given) \in Nat
      BY LenProperties DEF Settled, GivenOK
    <2>2. Len(read) \in 0..Len(given)
      BY DEF Settled, ReaderAt
    <2> QED
      BY <2>1, <2>2
  <1>2. k + 1 \in 1..Len(given) /\ (k + 1) - 1 = k /\ k \in 0..Len(given)
    BY <1>1
  <1>3. Sendable(Current)
    BY <1>1, <1>2 DEF Settled, GivenOK, Current
  <1>4. Readable(Current)
    BY <1>3, FramesAreReadable
  <1>5. p \in [0..Len(given) -> Nat] /\ \A i \in 1..Len(given) :
          /\ p[i] = p[i - 1] + Len(Sealed(given[i])) /\ p[i] <= Len(image)
          /\ HasAt(image, p[i - 1], Sealed(given[i]), Len(Sealed(given[i])))
    BY DEF Settled, Layout
  <1>6. p[k] \in Nat
    BY <1>2, <1>5
  <1>7. /\ p[k + 1] = p[k] + Len(Sealed(Current)) /\ p[k + 1] <= Len(image)
        /\ HasAt(image, p[k], Sealed(Current), Len(Sealed(Current)))
    BY <1>1, <1>2, <1>5, Zenon DEF Current
  <1>8. /\ Len(Sealed(Current)) = HeadLen(Current) + Len(Current.payload)
        /\ HeadLen(Current) \in Nat /\ Len(Current.payload) \in Nat
    <2>1. \A x \in 2..14 : x \in Nat
      OBVIOUS
    <2> QED
      BY <1>4, <2>1, Zenon DEF Readable
  <1>9. p[k + 1] = p[k] + HeadLen(Current) + Len(Current.payload)
    BY <1>6, <1>7, <1>8
  <1> QED
    BY <1>1, <1>2, <1>3, <1>4, <1>6, <1>7, <1>9, Zenon

\* Bytes lo + 1 to n of the frame, taken from the socket.
LEMMA BytesTaken ==
    ASSUME NEW p, Settled(p), Len(read) < Len(given),
           NEW n \in Nat, n <= Len(Sealed(Current)), NEW lo \in 0..n, p[Len(read)] + n <= Len(wire)
    PROVE  SubSeq(wire, p[Len(read)] + lo + 1, p[Len(read)] + n) = SubSeq(Sealed(Current), lo + 1, n)
  <1>1. /\ Sealed(Current) \in Seq(Byte)
        /\ HasAt(image, p[Len(read)], Sealed(Current), Len(Sealed(Current)))
    BY FrameHere DEF Readable
  <1>2. wire \in Seq(Byte) /\ image \in Seq(Byte)
    BY DEF Settled, WriterInv, WriterTypeOK
  <1>3. HasAt(image, 0, wire, Len(wire))
    BY WireBegins DEF Settled
  <1>4. n \in 0..Len(Sealed(Current))
    BY <1>1, LenProperties
  <1> DEFINE s == Sealed(Current)  b == p[Len(read)]
  <1> HIDE DEF s, b
  <1>5. s \in Seq(Byte) /\ HasAt(image, b, s, Len(s)) /\ n \in 0..Len(s) /\ b + n <= Len(wire)
    BY <1>1, <1>4, Zenon DEF s, b
  <1>6. HasAt(wire, b, s, n)
    BY <1>2, <1>3, <1>5, BytesOfFrame
  <1>7. SameCut(wire, b, s, lo, n)
    BY <1>2, <1>5, <1>6, CutsAgree
  <1> QED
    BY <1>7 DEF SameCut, s, b

\* A reader behind all the frames given has all the bytes there are.
LEMMA NothingBehind ==
    ASSUME NEW p, Settled(p), Len(read) = Len(given)
    PROVE  p[Len(read)] = Len(image) /\ Len(wire) <= Len(image)
  <1>1. HasAt(image, 0, wire, Len(wire)) /\ wire \in Seq(Byte) /\ image \in Seq(Byte)
    BY WireBegins DEF Settled, WriterInv, WriterTypeOK
  <1>2. Len(wire) <= Len(image)
    BY <1>1, LenProperties DEF HasAt
  <1> QED
    BY <1>2 DEF Settled, Layout

\* One frame more: its bytes go behind those of the others.
LEMMA LayoutGrows ==
    ASSUME NEW p, NEW g \in Seq(SentFrame), \A i \in 1..Len(g) : Sendable(g[i]),
           NEW bytes \in Seq(Byte), Layout(p, g, bytes), NEW x \in SentFrame, Sendable(x)
    PROVE  \E q : /\ Layout(q, Append(g, x), bytes \o Sealed(x))
                  /\ \A i \in 0..Len(g) : q[i] = p[i]
  <1> DEFINE s == Sealed(x)
             all == bytes \o s
             gs == Append(g, x)
  <1>1. PICK n \in Nat, lb \in Nat, ls \in Nat : n = Len(g) /\ lb = Len(bytes) /\ ls = Len(s) /\ s \in Seq(Byte)
    BY LenProperties, FramesAreReadable DEF Readable
  <1> HIDE DEF s
  <1>2. /\ all \in Seq(Byte) /\ Len(all) = lb + ls
        /\ \A i \in 1..(lb + ls) : all[i] = IF i <= lb THEN bytes[i] ELSE s[i - lb]
    BY <1>1, ConcatProperties
  <1>3. Len(gs) = n + 1 /\ gs[n + 1] = x /\ \A i \in 1..n : gs[i] = g[i]
    BY <1>1, AppendProperties
  <1>4. /\ p \in [0..n -> Nat] /\ p[0] = 0 /\ p[n] = lb
        /\ \A i \in 1..n : /\ p[i] = p[i - 1] + Len(Sealed(g[i])) /\ p[i] <= lb
                           /\ HasAt(bytes, p[i - 1], Sealed(g[i]), Len(Sealed(g[i])))
    BY <1>1 DEF Layout
  <1> HIDE DEF all, gs
  <1> DEFINE q == [i \in 0..(n + 1) |-> IF i = n + 1 THEN lb + ls ELSE p[i]]
  <1>5. /\ q \in [0..(n + 1) -> Nat] /\ q[n + 1] = lb + ls
        /\ \A i \in 0..n : q[i] = p[i]
    <2>1. \A i \in 0..(n + 1) : i # n + 1 => i \in 0..n
      OBVIOUS
    <2>2. \A i \in 0..n : i \in 0..(n + 1) /\ i # n + 1
      OBVIOUS
    <2>3. \A i \in 0..n : p[i] \in Nat
      BY <1>4
    <2>4. lb + ls \in Nat /\ n + 1 \in 0..(n + 1)
      OBVIOUS
    <2> QED
      BY <2>1, <2>2, <2>3, <2>4
  <1> HIDE DEF q
  <1>6. ASSUME NEW off, NEW a \in Seq(Byte), HasAt(bytes, off, a, Len(a))
        PROVE  HasAt(all, off, a, Len(a))
    <2>1. /\ off \in Nat /\ Len(a) \in Nat /\ off + Len(a) <= lb
          /\ \A j \in 1..Len(a) : bytes[off + j] = a[j]
      BY <1>1, <1>6 DEF HasAt
    <2>2. PICK la \in Nat : la = Len(a)
      BY <2>1
    <2>3. ASSUME NEW j \in 1..la PROVE all[off + j] = a[j]
      <3>1. off + j \in 1..(lb + ls) /\ off + j <= lb
        BY <2>1, <2>2
      <3>2. all[off + j] = bytes[off + j]
        BY <1>2, <3>1
      <3> QED
        BY <2>1, <2>2, <3>2
    <2>4. off + la <= lb + ls
      BY <2>1, <2>2
    <2> QED
      BY <1>2, <2>1, <2>2, <2>3, <2>4 DEF HasAt
  <1>7. HasAt(all, lb, s, Len(s))
    <2>1. ASSUME NEW j \in 1..ls PROVE all[lb + j] = s[j]
      <3>1. lb + j \in 1..(lb + ls) /\ ~(lb + j <= lb) /\ (lb + j) - lb = j
        OBVIOUS
      <3>2. all[lb + j] = s[(lb + j) - lb]
        BY <1>2, <3>1
      <3> QED
        BY <3>1, <3>2
    <2> QED
      BY <1>1, <1>2, <2>1 DEF HasAt
  <1>8. ASSUME NEW i \in 1..(n + 1)
        PROVE  /\ q[i] = q[i - 1] + Len(Sealed(gs[i])) /\ q[i] <= lb + ls
               /\ HasAt(all, q[i - 1], Sealed(gs[i]), Len(Sealed(gs[i])))
    <2>1. CASE i = n + 1
      <3>1. i - 1 = n /\ n \in 0..n
        BY <2>1
      <3>2. q[i - 1] = lb
        BY <1>4, <1>5, <3>1
      <3>3. Sealed(gs[i]) = s
        BY <1>3, <2>1 DEF s
      <3>4. q[i] = lb + ls /\ q[i] <= lb + ls
        BY <1>5, <2>1
      <3> QED
        BY <1>1, <1>7, <3>2, <3>3, <3>4
    <2>2. CASE i # n + 1
      <3>1. i \in 1..n /\ i - 1 \in 0..n /\ i \in 0..n
        BY <2>2
      <3>2. gs[i] = g[i] /\ q[i] = p[i] /\ q[i - 1] = p[i - 1]
        BY <1>3, <1>5, <3>1
      <3>3. Sealed(g[i]) \in Seq(Byte)
        BY <1>1, <3>1, FramesAreReadable DEF Readable
      <3>4. HasAt(all, p[i - 1], Sealed(g[i]), Len(Sealed(g[i])))
        BY <1>4, <1>6, <3>1, <3>3
      <3>5. p[i] = p[i - 1] + Len(Sealed(g[i])) /\ p[i] \in Nat /\ p[i] <= lb
        BY <1>4, <3>1
      <3>6. p[i] <= lb + ls
        BY <3>5
      <3> QED
        BY <3>2, <3>4, <3>5, <3>6, Zenon
    <2> QED
      BY <2>1, <2>2
  <1>9. q[0] = 0
    BY <1>4, <1>5
  <1>10. Layout(q, gs, all)
    BY <1>2, <1>3, <1>5, <1>8, <1>9 DEF Layout
  <1>11. \A i \in 0..Len(g) : q[i] = p[i]
    BY <1>1, <1>5
  <1>12. Layout(q, Append(g, x), bytes \o Sealed(x))
    BY <1>10 DEF gs, all, s
  <1> QED
    BY <1>11, <1>12, Zenon

LEMMA SameBeginning ==
    ASSUME NEW S, NEW g \in Seq(S), NEW x \in S, NEW k \in 0..Len(g)
    PROVE  SubSeq(Append(g, x), 1, k) = SubSeq(g, 1, k)
  <1>1. PICK n \in Nat : n = Len(g) /\ k \in Nat /\ k <= n
    BY LenProperties
  <1>h. PICK h : h = Append(g, x)
    OBVIOUS
  <1>2. h = Append(g, x) /\ \A i \in 1..n : h[i] = g[i]
    <2>1. \A i \in 1..Len(g) : Append(g, x)[i] = g[i]
      BY AppendProperties
    <2> QED
      BY <1>1, <1>h, <2>1, Zenon
  <1>3. \A i \in 1..k : i \in 1..n
    BY <1>1
  <1>4. \A i \in 1..k : g[i] \in S /\ h[i] \in S
    BY <1>1, <1>2, <1>3, ElementOfSeq
  <1>5. 1 \in Int /\ k \in Int /\ k - 1 + 1 = k
    BY <1>1
  <1>6. /\ SubSeq(g, 1, k) \in Seq(S) /\ Len(SubSeq(g, 1, k)) = (IF 1 <= k THEN k - 1 + 1 ELSE 0)
        /\ \A i \in 1..(k - 1 + 1) : SubSeq(g, 1, k)[i] = g[1 + i - 1]
    BY <1>4, <1>5, SubSeqProperties
  <1>7. /\ SubSeq(h, 1, k) \in Seq(S) /\ Len(SubSeq(h, 1, k)) = (IF 1 <= k THEN k - 1 + 1 ELSE 0)
        /\ \A i \in 1..(k - 1 + 1) : SubSeq(h, 1, k)[i] = h[1 + i - 1]
    BY <1>4, <1>5, SubSeqProperties
  <1>8. Len(SubSeq(g, 1, k)) = k /\ Len(SubSeq(h, 1, k)) = k
    BY <1>1, <1>6, <1>7
  <1>9. ASSUME NEW i \in 1..k PROVE SubSeq(h, 1, k)[i] = SubSeq(g, 1, k)[i]
    <2>1. 1 + i - 1 = i /\ i \in 1..(k - 1 + 1) /\ i \in 1..n
      BY <1>1
    <2> QED
      BY <1>2, <1>6, <1>7, <2>1
  <1>10. SubSeq(h, 1, k) = SubSeq(g, 1, k)
    BY <1>6, <1>7, <1>8, <1>9, SeqEqual
  <1> QED
    BY <1>2, <1>10, Zenon

\* The socket keeps what it has taken.
LEMMA WireGrows ==
    ASSUME WriterInv, WriterStep \/ \E z \in WriterSize : RenewWriter(z)
    PROVE  wire' = wire \/ \E x \in Seq(Byte) : wire' = wire \o x
  <1>1. /\ wire \in Seq(Byte) /\ buf \in Seq(Byte) /\ left \in Seq(Byte)
        /\ size \in Nat /\ Len(buf) <= size
    BY DEF WriterInv, WriterTypeOK, FitsInTheBuffer
  <1>2. ASSUME Flushed \/ FlushFails
        PROVE  wire' = wire \/ \E x \in Seq(Byte) : wire' = wire \o x
    <2>1. ASSUME NEW n \in 0..Len(buf) PROVE SubSeq(buf, 1, n) \in Seq(Byte)
      BY <1>1, CutAnywhere
    <2> QED
      BY <1>1, <1>2, <2>1 DEF Flushed, FlushFails, FlushBroken, FlushRefused, writer
  <1>3. CASE WriteAndFlush
    <2> DEFINE full == buf \o SubSeq(left, 1, Available)
    <2>1. Available \in 0..Len(left)
      <3>1. PICK lb \in Nat, ll \in Nat : lb = Len(buf) /\ ll = Len(left)
        BY <1>1, LenProperties
      <3>2. Available = size - lb /\ Available < ll
        BY <1>3, <3>1 DEF WriteAndFlush, Available
      <3> QED
        BY <1>1, <3>1, <3>2
    <2>2. SubSeq(left, 1, Available) \in Seq(Byte)
      BY <1>1, <2>1, CutAnywhere
    <2>3. full \in Seq(Byte)
      BY <1>1, <2>2, Joined
    <2>4. wire' = wire \o full \/ \E k \in 0..Len(full) : wire' = wire \o SubSeq(full, 1, k)
      BY <1>3 DEF WriteAndFlush
    <2> HIDE DEF full
    <2>5. ASSUME NEW k \in 0..Len(full) PROVE SubSeq(full, 1, k) \in Seq(Byte)
      BY <2>3, CutAnywhere
    <2> QED
      BY <2>3, <2>4, <2>5, Zenon
  <1>4. CASE WriteStraight
    <2>1. wire' = wire \o left \/ \E k \in 0..Len(left) : wire' = wire \o SubSeq(left, 1, k)
      BY <1>4 DEF WriteStraight
    <2>2. ASSUME NEW k \in 0..Len(left) PROVE SubSeq(left, 1, k) \in Seq(Byte)
      BY <1>1, CutAnywhere
    <2> QED
      BY <1>1, <2>1, <2>2, Zenon
  <1>5. CASE FlushForHeader \/ FlushForPiece \/ Flush
    BY <1>2, <1>5 DEF FlushForHeader, FlushForPiece, Flush
  <1>6. CASE WriteHeader \/ WritePiece \/ WriteRest \/ PayloadDone
    BY <1>6 DEF WriteHeader, WritePiece, WriteRest, PayloadDone, Put, writer
  <1>7. ASSUME NEW z \in WriterSize, RenewWriter(z)
        PROVE  wire' = wire \/ \E x \in Seq(Byte) : wire' = wire \o x
    BY <1>1, <1>2, <1>7 DEF RenewWriter
  <1> QED
    BY <1>3, <1>4, <1>5, <1>6, <1>7 DEF WriterStep

LEMMA ImageStays ==
    ASSUME WriterStep \/ \E z \in WriterSize : RenewWriter(z)
    PROVE  image' = image
  BY DEF WriterStep, FlushForHeader, WriteHeader, WritePiece, FlushForPiece, WriteAndFlush,
         WriteStraight, WriteRest, PayloadDone, Flush, RenewWriter

\* As long as it does not read itself, the reader is where it was.
LEMMA ReaderStays ==
    ASSUME NEW p, NEW q, ReaderAt(p), given \in Seq(SentFrame), UNCHANGED readerVars,
           \A i \in 0..Len(given) : q[i] = p[i],
           given' = given \/ \E x \in SentFrame : given' = Append(given, x),
           Len(wire) \in Nat, Len(wire') \in Nat, Len(wire) <= Len(wire')
    PROVE  ReaderAt(q)'
  <1>1. PICK k \in Nat, n \in Nat : k = Len(read) /\ n = Len(given) /\ k <= n
    <2>1. Len(given) \in Nat /\ Len(read) \in 0..Len(given)
      BY LenProperties DEF ReaderAt
    <2> QED
      BY <2>1
  <1>2. /\ rpc' = rpc /\ taken' = taken /\ head' = head /\ read' = read
        /\ q[k] = p[k]
    BY <1>1 DEF readerVars
  <1>3. /\ Len(given') \in Nat /\ n <= Len(given')
        /\ \A i \in 1..n : given'[i] = given[i]
        /\ SubSeq(given', 1, k) = SubSeq(given, 1, k)
    <2>1. CASE given' = given
      BY <1>1, <2>1
    <2>2. ASSUME NEW x \in SentFrame, given' = Append(given, x)
          PROVE  /\ Len(given') \in Nat /\ n <= Len(given')
                 /\ \A i \in 1..n : given'[i] = given[i]
                 /\ SubSeq(given', 1, k) = SubSeq(given, 1, k)
      <3>1. /\ given' \in Seq(SentFrame) /\ Len(given') = n + 1
            /\ \A i \in 1..n : given'[i] = given[i]
        BY <1>1, <2>2, AppendProperties
      <3>2. SubSeq(given', 1, k) = SubSeq(given, 1, k)
        <4>1. k \in 0..Len(given)
          BY <1>1
        <4>2. SubSeq(Append(given, x), 1, k) = SubSeq(given, 1, k)
          BY <4>1, SameBeginning
        <4> QED
          BY <2>2, <4>2, Zenon
      <3> QED
        BY <3>1, <3>2
    <2> QED
      BY <2>1, <2>2
  <1>4. k < n => Current' = Current
    BY <1>1, <1>2, <1>3 DEF Current
  <1>5. Len(read') \in 0..Len(given') /\ read' = SubSeq(given', 1, Len(read'))
    <2>1. read = SubSeq(given, 1, k)
      BY <1>1 DEF ReaderAt
    <2>2. k \in 0..Len(given')
      BY <1>1, <1>3
    <2> QED
      BY <1>1, <1>2, <1>3, <2>1, <2>2, Zenon
  <1>6. taken' \in Nat /\ taken' <= Len(wire') /\ rpc' \in {"first", "rest", "payload", "stopped"}
    BY <1>2 DEF ReaderAt
  <1>7. rpc' = "first" => taken' = q[k]
    BY <1>1, <1>2, Zenon DEF ReaderAt
  <1>8. rpc' \in {"rest", "payload"} => k < Len(given') /\ k < n
    BY <1>1, <1>2, <1>3 DEF ReaderAt
  <1>9. rpc' = "rest" => taken' = q[k] + 2 /\ head' = [first |-> HeadOf(Current'), rest |-> <<>>]
    <2>1. ASSUME rpc = "rest"
          PROVE  taken = p[k] + 2 /\ head = [first |-> HeadOf(Current), rest |-> <<>>] /\ k < n
      BY <1>1, <2>1 DEF ReaderAt
    <2> QED
      BY <1>2, <1>4, <2>1, Zenon
  <1>10. rpc' = "payload" => /\ taken' = q[k] + HeadLen(Current')
                             /\ head' = [first |-> HeadOf(Current'), rest |-> RestOf(Current')]
    <2>1. ASSUME rpc = "payload"
          PROVE  /\ taken = p[k] + HeadLen(Current)
                 /\ head = [first |-> HeadOf(Current), rest |-> RestOf(Current)] /\ k < n
      BY <1>1, <2>1 DEF ReaderAt
    <2> QED
      BY <1>2, <1>4, <2>1, Zenon
  <1>11. k = Len(read')
    BY <1>1, <1>2
  <1> QED
    BY <1>5, <1>6, <1>7, <1>8, <1>9, <1>10, <1>11, Zenon DEF ReaderAt

\* How much of a frame is there.
LEMMA FrameSize ==
    ASSUME NEW p, Settled(p), Len(read) < Len(given)
    PROVE  \E b \in Nat, h \in Nat, n \in Nat :
              /\ h >= 2
              /\ b = p[Len(read)] /\ h = HeadLen(Current) /\ n = Len(Current.payload)
              /\ Len(Sealed(Current)) = h + n /\ p[Len(read) + 1] = b + h + n
              /\ b + h + n <= Len(image)
  <1>1. HeadLen(Current) \in Nat /\ HeadLen(Current) >= 2
    <2>1. \A x \in 2..14 : x \in Nat /\ x >= 2
      OBVIOUS
    <2> QED
      BY <2>1, FrameHere, Zenon DEF Readable
  <1> QED
    BY <1>1, FrameHere, Zenon DEF Readable

\* The first two bytes of the next frame.
LEMMA FirstRead ==
    ASSUME NEW p, Settled(p), NEW max \in Limit, ReadFirst(wire, max)
    PROVE  /\ Len(read) < Len(given)
           /\ taken' = p[Len(read)] + 2 /\ taken' <= Len(wire) /\ taken' \in Nat
           /\ head' = [first |-> HeadOf(Current), rest |-> <<>>]
  <1>1. /\ rpc = "first" /\ Here(wire, 2) /\ taken' = taken + 2
        /\ head' = [first |-> FirstOf(Bytes(wire, 2)), rest |-> <<>>]
    BY DEF ReadFirst
  <1>2. /\ taken \in Nat /\ taken = p[Len(read)] /\ Len(read) \in 0..Len(given)
        /\ given \in Seq(SentFrame) /\ wire \in Seq(Byte)
    BY <1>1 DEF Settled, ReaderAt, GivenOK, WriterInv, WriterTypeOK
  <1>3. Len(given) \in Nat /\ Len(wire) \in Nat
    BY <1>2, LenProperties
  <1>4. taken + 2 <= Len(wire)
    BY <1>1 DEF Here
  <1>5. Len(read) < Len(given)
    <2>1. ASSUME Len(read) = Len(given) PROVE FALSE
      <3>1. taken = Len(image) /\ Len(wire) <= Len(image)
        BY <1>2, <2>1, NothingBehind
      <3> QED
        BY <1>2, <1>3, <1>4, <3>1
    <2> QED
      BY <1>2, <1>3, <2>1
  <1>6. SubSeq(wire, taken + 1, taken + 2) = SubSeq(Sealed(Current), 1, 2)
    <2>1. PICK b \in Nat, h \in Nat, n \in Nat :
              h >= 2 /\ b = p[Len(read)] /\ Len(Sealed(Current)) = h + n
      BY <1>5, FrameSize
    <2>2. 2 <= Len(Sealed(Current)) /\ b + 2 <= Len(wire) /\ 0 \in 0..2 /\ 2 \in Nat
      BY <1>2, <1>4, <2>1
    <2>3. SubSeq(wire, p[Len(read)] + 0 + 1, p[Len(read)] + 2) = SubSeq(Sealed(Current), 0 + 1, 2)
      BY <1>5, <2>1, <2>2, BytesTaken
    <2>4. p[Len(read)] + 0 + 1 = taken + 1 /\ 0 + 1 = 1
      BY <1>2
    <2> QED
      BY <1>2, <2>3, <2>4, Zenon
  <1>7. FirstOf(Bytes(wire, 2)) = HeadOf(Current)
    <2>1. Readable(Current)
      BY <1>5, FrameHere
    <2> QED
      BY <1>6, <2>1, Zenon DEF Bytes, Readable
  <1> QED
    BY <1>1, <1>2, <1>4, <1>5, <1>7

\* The rest of its header.
LEMMA RestRead ==
    ASSUME NEW p, Settled(p), ReadRest(wire)
    PROVE  /\ Len(read) < Len(given)
           /\ taken' = p[Len(read)] + HeadLen(Current) /\ taken' <= Len(wire) /\ taken' \in Nat
           /\ head' = [first |-> HeadOf(Current), rest |-> RestOf(Current)]
  <1>1. /\ rpc = "rest" /\ Here(wire, Wanted) /\ taken' = taken + Wanted
        /\ head' = [head EXCEPT !.rest = Bytes(wire, Wanted)]
    BY DEF ReadRest
  <1>2. /\ taken \in Nat /\ taken = p[Len(read)] + 2 /\ Len(read) < Len(given)
        /\ head = [first |-> HeadOf(Current), rest |-> <<>>] /\ wire \in Seq(Byte)
    BY <1>1 DEF Settled, ReaderAt, WriterInv, WriterTypeOK
  <1>3. Readable(Current)
    BY <1>2, FrameHere
  <1>4. PICK b \in Nat, h \in Nat, n \in Nat :
              h >= 2 /\ b = p[Len(read)] /\ h = HeadLen(Current) /\ Len(Sealed(Current)) = h + n
    BY <1>2, FrameSize, Zenon
  <1>5. Wanted = h - 2
    <2>1. Wanted = RestHeaderLength(head.first)
      BY <1>1 DEF Wanted
    <2>2. head.first = HeadOf(Current)
      BY <1>2
    <2> QED
      BY <1>3, <1>4, <2>1, <2>2, Zenon DEF Readable
  <1>6. Len(wire) \in Nat /\ taken + Wanted <= Len(wire)
    BY <1>1, <1>2, LenProperties DEF Here
  <1>7. taken + Wanted = b + h /\ b + h <= Len(wire) /\ taken + 1 = b + 2 + 1
    <2>1. taken = b + 2 /\ Wanted = h - 2 /\ b \in Nat /\ h \in Nat
      BY <1>2, <1>4, <1>5, Zenon
    <2> QED
      BY <1>6, <2>1
  <1>8. SubSeq(wire, taken + 1, taken + Wanted) = SubSeq(Sealed(Current), 3, h)
    <2>1. h <= Len(Sealed(Current)) /\ 2 \in 0..h /\ h \in Nat
      BY <1>4
    <2>2. SubSeq(wire, p[Len(read)] + 2 + 1, p[Len(read)] + h) = SubSeq(Sealed(Current), 2 + 1, h)
      BY <1>2, <1>4, <1>7, <2>1, BytesTaken
    <2>3. 2 + 1 = 3
      OBVIOUS
    <2> QED
      BY <1>4, <1>7, <2>2, <2>3, Zenon
  <1>9. Bytes(wire, Wanted) = RestOf(Current)
    BY <1>4, <1>8, Zenon DEF Bytes, RestOf
  <1>10. head' = [first |-> HeadOf(Current), rest |-> RestOf(Current)]
    <2>1. \A x, y, z : [[first |-> x, rest |-> y] EXCEPT !.rest = z] = [first |-> x, rest |-> z]
      OBVIOUS
    <2> QED
      BY <1>1, <1>2, <1>9, <2>1, Zenon
  <1>11. taken' = p[Len(read)] + HeadLen(Current) /\ taken' <= Len(wire) /\ taken' \in Nat
    BY <1>1, <1>4, <1>7
  <1> QED
    BY <1>2, <1>10, <1>11

\* Its payload, and the frame is the one that was sent.
LEMMA PayloadRead ==
    ASSUME NEW p, Settled(p), ReadPayload(wire)
    PROVE  /\ Len(read) < Len(given)
           /\ taken' = p[Len(read) + 1] /\ taken' <= Len(wire) /\ taken' \in Nat
           /\ read' = Append(read, Current)
  <1>1. /\ rpc = "payload" /\ Here(wire, Wanted) /\ taken' = taken + Wanted
        /\ read' = Append(read, Opened(head.first, KeyIn(head.first, head.rest), Bytes(wire, Wanted)))
    BY DEF ReadPayload
  <1>2. /\ taken \in Nat /\ taken = p[Len(read)] + HeadLen(Current) /\ Len(read) < Len(given)
        /\ head = [first |-> HeadOf(Current), rest |-> RestOf(Current)] /\ wire \in Seq(Byte)
    BY <1>1 DEF Settled, ReaderAt, WriterInv, WriterTypeOK
  <1>3. Readable(Current)
    BY <1>2, FrameHere
  <1>4. PICK b \in Nat, h \in Nat, n \in Nat :
              /\ h >= 2 /\ b = p[Len(read)] /\ h = HeadLen(Current) /\ n = Len(Current.payload)
              /\ Len(Sealed(Current)) = h + n /\ p[Len(read) + 1] = b + h + n
              /\ b + h + n <= Len(image)
    BY <1>2, FrameSize
  <1>5. head.first = HeadOf(Current) /\ head.rest = RestOf(Current)
    BY <1>2
  <1>6. Wanted = n
    <2>1. Wanted = DeclaredLength(head.first, head.rest)
      BY <1>1 DEF Wanted, PayloadWanted
    <2> QED
      BY <1>3, <1>4, <1>5, <2>1, Zenon DEF Readable
  <1>7. Len(wire) \in Nat /\ taken + Wanted <= Len(wire)
    BY <1>1, <1>2, LenProperties DEF Here
  <1>8. /\ taken + Wanted = b + (h + n) /\ b + (h + n) <= Len(wire) /\ taken + 1 = b + h + 1
        /\ b + h + n = b + (h + n) /\ b + (h + n) \in Nat
    <2>1. taken = b + h /\ Wanted = n /\ b \in Nat /\ h \in Nat /\ n \in Nat
      BY <1>2, <1>4, <1>6, Zenon
    <2> QED
      BY <1>7, <2>1
  <1>9. SubSeq(wire, taken + 1, taken + Wanted) = SubSeq(Sealed(Current), h + 1, Len(Sealed(Current)))
    <2>1. h + n <= Len(Sealed(Current)) /\ h \in 0..(h + n) /\ h + n \in Nat
      BY <1>4
    <2>2. SubSeq(wire, p[Len(read)] + h + 1, p[Len(read)] + (h + n)) = SubSeq(Sealed(Current), h + 1, h + n)
      <3>1. p[Len(read)] + (h + n) <= Len(wire)
        BY <1>4, <1>8, Zenon
      <3> QED
        BY <1>2, <2>1, <3>1, BytesTaken
    <2> QED
      BY <1>4, <1>8, <2>2, Zenon
  <1>10. Bytes(wire, Wanted) = BodyOf(Current)
    BY <1>4, <1>9, Zenon DEF Bytes, BodyOf
  <1>11. Opened(head.first, KeyIn(head.first, head.rest), Bytes(wire, Wanted)) = Current
    BY <1>3, <1>5, <1>10, Zenon DEF Readable
  <1>12. taken' = p[Len(read) + 1] /\ taken' <= Len(wire) /\ taken' \in Nat
    BY <1>1, <1>4, <1>8
  <1> QED
    BY <1>1, <1>2, <1>11, <1>12

LEMMA OneMoreOfIt ==
    ASSUME NEW S, NEW g \in Seq(S), NEW k \in Nat, k < Len(g), NEW r, r = SubSeq(g, 1, k)
    PROVE  /\ r \in Seq(S) /\ Len(r) = k
           /\ Append(r, g[k + 1]) = SubSeq(g, 1, k + 1) /\ Len(Append(r, g[k + 1])) = k + 1
  <1>1. PICK n \in Nat : n = Len(g) /\ k < n
    BY LenProperties
  <1>2. \A i \in 1..(k + 1) : g[i] \in S
    <2>1. \A i \in 1..(k + 1) : i \in 1..Len(g)
      BY <1>1
    <2> QED
      BY <2>1, ElementOfSeq
  <1>3. \A i \in 1..k : i \in 1..(k + 1)
    OBVIOUS
  <1>4. 1 \in Int /\ k \in Int /\ k + 1 \in Int /\ k - 1 + 1 = k /\ (k + 1) - 1 + 1 = k + 1
        /\ 1 <= k + 1 /\ (IF 1 <= k THEN k - 1 + 1 ELSE 0) = k
    OBVIOUS
  <1>5. r \in Seq(S) /\ Len(r) = k /\ \A i \in 1..k : r[i] = g[i]
    <2>1. /\ SubSeq(g, 1, k) \in Seq(S)
          /\ Len(SubSeq(g, 1, k)) = (IF 1 <= k THEN k - 1 + 1 ELSE 0)
          /\ \A i \in 1..(k - 1 + 1) : SubSeq(g, 1, k)[i] = g[1 + i - 1]
      BY <1>2, <1>3, <1>4, SubSeqProperties
    <2>2. \A i \in 1..k : i \in 1..(k - 1 + 1) /\ 1 + i - 1 = i
      OBVIOUS
    <2> QED
      BY <1>4, <2>1, <2>2, Zenon
  <1>6. PICK c : c = SubSeq(g, 1, k + 1)
    OBVIOUS
  <1>7. c \in Seq(S) /\ Len(c) = k + 1 /\ \A i \in 1..(k + 1) : c[i] = g[i]
    <2>1. /\ SubSeq(g, 1, k + 1) \in Seq(S)
          /\ Len(SubSeq(g, 1, k + 1)) = (IF 1 <= k + 1 THEN (k + 1) - 1 + 1 ELSE 0)
          /\ \A i \in 1..((k + 1) - 1 + 1) : SubSeq(g, 1, k + 1)[i] = g[1 + i - 1]
      BY <1>2, <1>4, SubSeqProperties
    <2>2. \A i \in 1..(k + 1) : i \in 1..((k + 1) - 1 + 1) /\ 1 + i - 1 = i
      OBVIOUS
    <2> QED
      BY <1>4, <1>6, <2>1, <2>2, Zenon
  <1>8. k + 1 \in 1..(k + 1)
    OBVIOUS
  <1>9. g[k + 1] \in S
    BY <1>2, <1>8
  <1>10. PICK a : a = Append(r, g[k + 1])
    OBVIOUS
  <1>11. a \in Seq(S) /\ Len(a) = k + 1 /\ a[k + 1] = g[k + 1] /\ \A i \in 1..k : a[i] = r[i]
    <2>1. /\ Append(r, g[k + 1]) \in Seq(S) /\ Len(Append(r, g[k + 1])) = Len(r) + 1
          /\ \A i \in 1..Len(r) : Append(r, g[k + 1])[i] = r[i]
          /\ Append(r, g[k + 1])[Len(r) + 1] = g[k + 1]
      BY <1>5, <1>9, AppendProperties
    <2> QED
      BY <1>5, <1>10, <2>1, Zenon
  <1>12. ASSUME NEW i \in 1..(k + 1) PROVE a[i] = c[i]
    <2>1. i = k + 1 \/ i \in 1..k
      OBVIOUS
    <2> QED
      BY <1>5, <1>7, <1>11, <2>1
  <1>13. a = c
    BY <1>7, <1>11, <1>12, SeqEqual
  <1> QED
    BY <1>5, <1>6, <1>7, <1>10, <1>13, Zenon

\* Whatever the reader gets, it is behind whole frames, or inside the next.
LEMMA ReadKeeps ==
    ASSUME NEW p, Settled(p), Read
    PROVE  ReaderAt(p)'
  <1>1. /\ wire' = wire /\ given' = given /\ ReaderStep(wire)
    BY DEF Read, writerVars, writer
  <1>2. /\ given \in Seq(SentFrame) /\ Len(read) \in 0..Len(given)
        /\ read = SubSeq(given, 1, Len(read))
    BY DEF Settled, GivenOK, ReaderAt
  <1>3. PICK k \in Nat, n \in Nat : k = Len(read) /\ n = Len(given) /\ k <= n
    <2>1. Len(given) \in Nat /\ \A m \in Nat : \A x \in 0..m : x \in Nat /\ x <= m
      BY <1>2, LenProperties
    <2>2. Len(read) \in Nat /\ Len(read) <= Len(given)
      BY <1>2, <2>1, Zenon
    <2> QED
      BY <2>1, <2>2, Zenon
  <1>4. read' = read => Current' = Current
    BY <1>1, Zenon DEF Current
  <1>5. ASSUME NEW max \in Limit, ReadFirst(wire, max)
        PROVE  ReaderAt(p)'
    <2>1. /\ k < n
          /\ taken' = p[k] + 2 /\ taken' <= Len(wire) /\ taken' \in Nat
          /\ head' = [first |-> HeadOf(Current), rest |-> <<>>]
      BY <1>3, <1>5, FirstRead, Zenon
    <2>2. rpc' = "rest" /\ read' = read
      BY <1>5 DEF ReadFirst
    <2>3. Len(read') \in 0..Len(given') /\ read' = SubSeq(given', 1, Len(read'))
      BY <1>1, <1>2, <2>2, Zenon
    <2>4. Len(read') < Len(given') /\ taken' = p[Len(read')] + 2 /\ taken' \in Nat /\ taken' <= Len(wire')
          /\ head' = [first |-> HeadOf(Current'), rest |-> <<>>]
      BY <1>1, <1>3, <1>4, <2>1, <2>2, Zenon
    <2>5. rpc' # "first" /\ rpc' # "payload" /\ rpc' \in {"first", "rest", "payload", "stopped"}
      BY <2>2
    <2> QED
      BY <2>3, <2>4, <2>5, Zenon DEF ReaderAt
  <1>6. CASE ReadRest(wire)
    <2>1. /\ k < n
          /\ taken' = p[k] + HeadLen(Current) /\ taken' <= Len(wire) /\ taken' \in Nat
          /\ head' = [first |-> HeadOf(Current), rest |-> RestOf(Current)]
      BY <1>3, <1>6, RestRead, Zenon
    <2>2. read' = read /\ rpc' \in {"stopped", "payload"}
      BY <1>6 DEF ReadRest
    <2>3. Len(read') \in 0..Len(given') /\ read' = SubSeq(given', 1, Len(read'))
      BY <1>1, <1>2, <2>2, Zenon
    <2>4. Len(read') < Len(given') /\ taken' = p[Len(read')] + HeadLen(Current')
          /\ taken' \in Nat /\ taken' <= Len(wire')
          /\ head' = [first |-> HeadOf(Current'), rest |-> RestOf(Current')]
      BY <1>1, <1>3, <1>4, <2>1, <2>2, Zenon
    <2>5. rpc' # "first" /\ rpc' # "rest" /\ rpc' \in {"first", "rest", "payload", "stopped"}
      BY <2>2
    <2> QED
      BY <2>3, <2>4, <2>5, Zenon DEF ReaderAt
  <1>7. CASE ReadPayload(wire)
    <2>1. /\ k < n
          /\ taken' = p[k + 1] /\ taken' <= Len(wire) /\ taken' \in Nat
          /\ read' = Append(read, Current)
      BY <1>3, <1>7, PayloadRead, Zenon
    <2>2. rpc' = "first"
      BY <1>7 DEF ReadPayload, NextFrame
    <2>3. /\ Append(read, given[k + 1]) = SubSeq(given, 1, k + 1)
          /\ Len(Append(read, given[k + 1])) = k + 1
      <3>1. k < Len(given) /\ read = SubSeq(given, 1, k)
        BY <1>2, <1>3, <2>1, Zenon
      <3> QED
        BY <1>2, <3>1, OneMoreOfIt
    <2>4. read' = SubSeq(given, 1, k + 1) /\ Len(read') = k + 1
      BY <1>3, <2>1, <2>3, Zenon DEF Current
    <2>5. k + 1 \in 0..n
      BY <2>1
    <2>6. Len(read') \in 0..Len(given') /\ read' = SubSeq(given', 1, Len(read'))
          /\ taken' = p[Len(read')] /\ taken' \in Nat /\ taken' <= Len(wire')
      BY <1>1, <1>3, <2>1, <2>4, <2>5, Zenon
    <2>7. rpc' # "rest" /\ rpc' # "payload" /\ rpc' \in {"first", "rest", "payload", "stopped"}
      BY <2>2
    <2> QED
      BY <2>6, <2>7, Zenon DEF ReaderAt
  <1> QED
    BY <1>1, <1>5, <1>6, <1>7 DEF ReaderStep

LEMMA CutKeeps ==
    ASSUME NEW p, Settled(p), Cut
    PROVE  ReaderAt(p)'
  <1>1. /\ wire' = wire /\ given' = given /\ read' = read /\ taken' = Len(wire)
        /\ rpc' = IF rpc = "first" /\ taken' = taken THEN "first" ELSE "stopped"
    BY DEF Cut, ReadCutShort, writerVars, writer
  <1>2. Len(wire) \in Nat
    BY LenProperties DEF Settled, WriterInv, WriterTypeOK
  <1>3. taken' \in Nat /\ taken' <= Len(wire')
    BY <1>1, <1>2
  <1>4. Len(read') \in 0..Len(given') /\ read' = SubSeq(given', 1, Len(read'))
    BY <1>1, Zenon DEF Settled, ReaderAt
  <1>5. /\ rpc' # "rest" /\ rpc' # "payload" /\ rpc' \in {"first", "rest", "payload", "stopped"}
        /\ rpc' = "first" => rpc = "first" /\ taken' = taken
    BY <1>1
  <1>6. rpc' = "first" => taken' = p[Len(read')]
    BY <1>1, <1>5, Zenon DEF Settled, ReaderAt
  <1> QED
    BY <1>3, <1>4, <1>5, <1>6, Zenon DEF ReaderAt

\* A frame given to a writer that works is one that can be read back.
LEMMA GivenIsSendable ==
    ASSUME WriterTypeOK, NEW f \in GivenFrame, NEW key \in Key
    PROVE  /\ Sendable(AsRead(Prepared(f, key)))
           /\ Sealed(AsRead(Prepared(f, key))) = Sealed(Prepared(f, key))
  <1> DEFINE g == Prepared(f, key)
             r == AsRead(g)
  <1>1. g \in SentFrame /\ Len(g.key) = 4 /\ g.payload = f.payload
    BY PreparedType
  <1>2. Keyless(g)
    BY DEF Keyless, Prepared
  <1>3. IsLength(Len(g.payload))
    BY <1>1, FrameStreamAssumption
  <1> HIDE DEF g
  <1>4. g.opcode \in Byte
    BY <1>1 DEF SentFrame
  <1>5. (g.opcode % 16) \in 0..15 /\ (g.opcode % 16) % 16 = g.opcode % 16 /\ (g.opcode % 16) \in Byte
    <2>1. \A x \in Byte : (x % 16) \in 0..15 /\ ((x % 16) % 16) = (x % 16)
      BY DEF Byte
    <2>2. \A x \in 0..15 : x \in Byte
      BY DEF Byte
    <2> QED
      BY <1>4, <2>1, <2>2, Zenon
  <1>6. /\ r \in SentFrame /\ r.key = g.key /\ r.payload = g.payload /\ r.mask = g.mask
        /\ r.fin = g.fin /\ r.rsv = g.rsv /\ r.opcode = g.opcode % 16
    BY <1>1, <1>5 DEF AsRead, SentFrame
  <1> HIDE DEF r
  <1>7. Sendable(r)
    BY <1>1, <1>2, <1>3, <1>5, <1>6, Zenon DEF Sendable, Keyless
  <1>8. HeaderFor(r, Len(r.payload)) = HeaderFor(g, Len(g.payload))
    BY <1>5, <1>6, Zenon DEF HeaderFor
  <1>9. Covered(r, r.payload) = Covered(g, g.payload)
    BY <1>6, Zenon DEF Covered
  <1>10. Sealed(r) = Sealed(g)
    BY <1>8, <1>9, Zenon DEF Sealed, Header
  <1> QED
    BY <1>7, <1>10 DEF r, g

StreamInv == Keyless(frame) /\ \E p : Settled(p)

LEMMA StreamInitially == Init => StreamInv
  <1>1. ASSUME Init
        PROVE  StreamInv
    <2> DEFINE p == [i \in 0..0 |-> 0]
    <2>1. /\ wire = <<>> /\ buf = <<>> /\ image = <<>> /\ werr = FALSE /\ given = <<>> /\ read = <<>>
          /\ rpc = "first" /\ taken = 0 /\ pc = "idle"
      BY <1>1 DEF Init, WriterInit, ReaderInit
    <2>2. WriterInv /\ Keyless(frame)
      BY <1>1, InvInitially, KeylessAlways DEF Init
    <2>3. BytesAreTheFrames
      <3>1. Rest = <<>>
        BY <2>1, RestAt
      <3>2. <<>> \o <<>> = <<>>
        BY EmptySeq, NothingJoined
      <3> QED
        BY <2>1, <3>1, <3>2 DEF BytesAreTheFrames
    <2>4. GivenOK
      <3>1. Len(<<>>) = 0 /\ <<>> \in Seq(SentFrame)
        BY EmptySeq
      <3> QED
        BY <2>1, <3>1 DEF GivenOK
    <2>5. Len(given) = 0 /\ Len(read) = 0 /\ Len(image) = 0 /\ Len(wire) = 0
      BY <2>1, EmptySeq
    <2>6. p \in [0..0 -> Nat] /\ p[0] = 0
      OBVIOUS
    <2>7. Layout(p, given, image)
      <3> HIDE DEF p
      <3>1. \A i \in 1..0 : FALSE
        OBVIOUS
      <3> QED
        BY <2>5, <2>6, <3>1 DEF Layout
    <2>8. ReaderAt(p)
      <3> HIDE DEF p
      <3>1. SubSeq(given, 1, 0) = <<>>
        BY SubSeqEmpty
      <3>2. 0 \in 0..0 /\ 0 \in Nat /\ 0 <= 0
        OBVIOUS
      <3> QED
        BY <2>1, <2>5, <2>6, <3>1, <3>2 DEF ReaderAt
    <2> QED
      BY <2>2, <2>3, <2>4, <2>7, <2>8 DEF StreamInv, Settled
  <1> QED
    BY <1>1

LEMMA StreamKept ==
    ASSUME StreamInv, [Next]_vars
    PROVE  StreamInv'
  <1>1. PICK p : Settled(p)
    BY DEF StreamInv
  <1>2. /\ WriterInv /\ BytesAreTheFrames /\ GivenOK /\ Layout(p, given, image) /\ ReaderAt(p)
        /\ Keyless(frame)
    BY <1>1 DEF Settled, StreamInv
  <1>3. WriterInv' /\ BytesAreTheFrames' /\ Keyless(frame)'
    BY <1>2, WriterMoves, InvKept, BytesKept, KeylessAlways
  <1>4. /\ WriterTypeOK /\ given \in Seq(SentFrame) /\ \A i \in 1..Len(given) : Sendable(given[i])
        /\ image \in Seq(Byte) /\ wire \in Seq(Byte) /\ wire' \in Seq(Byte)
        /\ Len(wire) \in Nat /\ Len(wire') \in Nat
    BY <1>2, <1>3, LenProperties DEF WriterInv, WriterTypeOK, GivenOK
  <1>5. ASSUME NEW q, ReaderAt(q)', Layout(q, given', image'), GivenOK'
        PROVE  StreamInv'
    BY <1>3, <1>5 DEF StreamInv, Settled
  <1>6. \A i \in 0..Len(given) : p[i] = p[i]
    OBVIOUS
  <1>7. ASSUME given' = given, image' = image, ReaderAt(p)'
        PROVE  StreamInv'
    <2>1. Layout(p, given', image') /\ GivenOK'
      BY <1>2, <1>7, Zenon DEF GivenOK
    <2> QED
      BY <1>5, <1>7, <2>1
  <1>8. ASSUME given' = given, image' = image, UNCHANGED readerVars, Len(wire) <= Len(wire')
        PROVE  StreamInv'
    <2>1. ReaderAt(p)'
      BY <1>2, <1>4, <1>6, <1>8, ReaderStays
    <2> QED
      BY <1>7, <1>8, <2>1
  <1>9. ASSUME NEW f \in GivenFrame, NEW key \in Key, NEW flush \in BOOLEAN, StartSend(f, key, flush),
               given' = IF werr THEN given ELSE Append(given, AsRead(frame')), UNCHANGED readerVars
        PROVE  StreamInv'
    <2>1. /\ frame' = Prepared(f, key) /\ wire' = wire
          /\ image' = IF werr THEN image ELSE image \o Sealed(frame')
      BY <1>9 DEF StartSend, writer
    <2>2. Len(wire) <= Len(wire')
      BY <1>4, <2>1
    <2>3. CASE werr
      <3>1. given' = given /\ image' = image
        BY <1>9, <2>1, <2>3, Zenon
      <3> QED
        BY <1>8, <1>9, <2>2, <3>1
    <2>4. CASE ~werr
      <3> DEFINE x == AsRead(Prepared(f, key))
      <3>1. Sendable(x) /\ Sealed(x) = Sealed(Prepared(f, key))
        BY <1>4, GivenIsSendable
      <3>2. x \in SentFrame
        BY <3>1 DEF Sendable
      <3> HIDE DEF x
      <3>3. given' = Append(given, x) /\ image' = image \o Sealed(x)
        BY <1>9, <2>1, <2>4, <3>1, Zenon DEF x
      <3>4. PICK q : /\ Layout(q, Append(given, x), image \o Sealed(x))
                     /\ \A i \in 0..Len(given) : q[i] = p[i]
        BY <1>2, <1>4, <3>1, <3>2, LayoutGrows
      <3>5. Layout(q, given', image')
        BY <3>3, <3>4, Zenon
      <3>6. \E y \in SentFrame : given' = Append(given, y)
        BY <3>2, <3>3, Zenon
      <3>7. ReaderAt(q)'
        BY <1>2, <1>4, <1>9, <2>2, <3>4, <3>6, ReaderStays
      <3>8. GivenOK'
        <4>1. PICK n \in Nat : n = Len(given)
          BY <1>4, LenProperties
        <4>2. PICK g : g = Append(given, x)
          OBVIOUS
        <4>3. /\ g \in Seq(SentFrame) /\ Len(g) = n + 1 /\ g[n + 1] = x
              /\ \A i \in 1..n : g[i] = given[i]
          <5>1. /\ Append(given, x) \in Seq(SentFrame)
                /\ Len(Append(given, x)) = Len(given) + 1
                /\ \A i \in 1..Len(given) : Append(given, x)[i] = given[i]
                /\ Append(given, x)[Len(given) + 1] = x
            BY <1>4, <3>2, AppendProperties
          <5> QED
            BY <4>1, <4>2, <5>1, Zenon
        <4>4. ASSUME NEW i \in 1..(n + 1) PROVE Sendable(g[i])
          <5>1. i = n + 1 \/ i \in 1..n
            OBVIOUS
          <5> QED
            BY <1>4, <3>1, <4>1, <4>3, <5>1, Zenon
        <4>5. g = given'
          BY <3>3, <4>2, Zenon
        <4> QED
          BY <4>3, <4>4, <4>5, Zenon DEF GivenOK
      <3> QED
        BY <1>5, <3>5, <3>7, <3>8
    <2> QED
      BY <2>3, <2>4
  <1>10. ASSUME WriterStep \/ \E z \in WriterSize : RenewWriter(z), given' = given, UNCHANGED readerVars
         PROVE  StreamInv'
    <2>1. image' = image
      BY <1>10, ImageStays
    <2>2. wire' = wire \/ \E x \in Seq(Byte) : wire' = wire \o x
      BY <1>2, <1>10, WireGrows
    <2>3. Len(wire) <= Len(wire')
      <3>1. CASE wire' = wire
        BY <1>4, <3>1
      <3>2. ASSUME NEW x \in Seq(Byte), wire' = wire \o x PROVE Len(wire) <= Len(wire')
        <4>1. Len(wire \o x) = Len(wire) + Len(x) /\ Len(x) \in Nat
          BY <1>4, Joined, LenProperties
        <4>2. Len(wire') = Len(wire) + Len(x)
          BY <3>2, <4>1, Zenon
        <4> QED
          BY <1>4, <4>1, <4>2
      <3> QED
        BY <2>2, <3>1, <3>2
    <2> QED
      BY <1>8, <1>10, <2>1, <2>3
  <1>11. CASE Send
    BY <1>9, <1>11 DEF Send
  <1>12. CASE Write
    BY <1>10, <1>12 DEF Write
  <1>13. CASE Renew
    BY <1>10, <1>13 DEF Renew
  <1>14. CASE Read
    <2>1. ReaderAt(p)'
      BY <1>1, <1>14, ReadKeeps
    <2> QED
      BY <1>7, <1>14, <2>1 DEF Read, writerVars
  <1>15. CASE Cut
    <2>1. ReaderAt(p)'
      BY <1>1, <1>15, CutKeeps
    <2> QED
      BY <1>7, <1>15, <2>1 DEF Cut, writerVars
  <1>16. CASE UNCHANGED vars
    <2>1. given' = given /\ image' = image /\ UNCHANGED readerVars /\ wire' = wire
      BY <1>16 DEF vars, writerVars, writer
    <2>2. Len(wire) <= Len(wire')
      BY <1>4, <2>1
    <2> QED
      BY <1>8, <2>1, <2>2
  <1>17. CASE Finished
    BY <1>16, <1>17 DEF Finished
  <1> QED
    BY <1>11, <1>12, <1>13, <1>14, <1>15, <1>16, <1>17 DEF Next

\* What the invariant says of the frames: those read are those given, and the
\* reader does not wait inside one that is there.
LEMMA StreamMeans ==
    ASSUME StreamInv
    PROVE  FramesReadAreFramesSent
  <1>1. PICK p : Settled(p)
    BY DEF StreamInv
  <1>2. /\ Len(read) \in 0..Len(given) /\ read = SubSeq(given, 1, Len(read)) /\ given \in Seq(SentFrame)
        /\ rpc \in {"first", "rest", "payload", "stopped"} /\ taken \in Nat
    BY <1>1 DEF Settled, ReaderAt, GivenOK
  <1>3. Len(given) \in Nat
    BY <1>2, LenProperties
  <1>4. Len(read) <= Len(given)
    BY <1>2, <1>3
  <1>5. ASSUME wire = image, rpc # "stopped", Len(read) # Len(given)
        PROVE  Here(wire, Wanted)
    <2>1. Len(read) < Len(given)
      BY <1>2, <1>3, <1>5
    <2>2. PICK b \in Nat, h \in Nat, n \in Nat :
              /\ h >= 2 /\ b = p[Len(read)] /\ h = HeadLen(Current) /\ n = Len(Current.payload)
              /\ b + h + n <= Len(image)
      BY <1>1, <2>1, FrameSize
    <2>3. Readable(Current)
      BY <1>1, <2>1, FrameHere
    <2>4. Len(image) = Len(wire) /\ Len(wire) \in Nat
      BY <1>1, <1>5, LenProperties DEF Settled, WriterInv, WriterTypeOK
    <2>5. ReaderAt(p)
      BY <1>1 DEF Settled
    <2>6. CASE rpc = "first"
      <3>1. Wanted = 2 /\ taken = b
        BY <2>2, <2>5, <2>6, Zenon DEF Wanted, ReaderAt
      <3>2. b + 2 <= Len(wire)
        BY <2>2, <2>4
      <3>3. taken + Wanted <= Len(wire)
        BY <3>1, <3>2, Zenon
      <3> QED
        BY <3>3 DEF Here
    <2>7. CASE rpc = "rest"
      <3>1. taken = b + 2 /\ head = [first |-> HeadOf(Current), rest |-> <<>>]
        BY <2>2, <2>5, <2>7, Zenon DEF ReaderAt
      <3>2. Wanted = RestHeaderLength(head.first)
        BY <2>7 DEF Wanted
      <3>3. head.first = HeadOf(Current)
        BY <3>1
      <3>4. Wanted = h - 2
        BY <2>2, <2>3, <3>2, <3>3, Zenon DEF Readable
      <3>5. taken = b + 2 /\ b + h <= Len(wire)
        <4>1. b + h + n <= Len(wire) /\ b \in Nat /\ h \in Nat /\ n \in Nat /\ taken = b + 2
          BY <2>2, <2>4, <3>1, Zenon
        <4> QED
          BY <2>4, <4>1
      <3>6. taken + Wanted <= Len(wire)
        BY <2>2, <2>4, <3>4, <3>5
      <3> QED
        BY <3>6 DEF Here
    <2>8. CASE rpc = "payload"
      <3>1. taken = b + h /\ head = [first |-> HeadOf(Current), rest |-> RestOf(Current)]
        BY <2>2, <2>5, <2>8, Zenon DEF ReaderAt
      <3>2. Wanted = DeclaredLength(head.first, head.rest)
        BY <2>8 DEF Wanted, PayloadWanted
      <3>3. head.first = HeadOf(Current) /\ head.rest = RestOf(Current)
        BY <3>1
      <3>4. Wanted = n
        BY <2>2, <2>3, <3>2, <3>3, Zenon DEF Readable
      <3>5. taken + Wanted <= Len(wire)
        BY <2>2, <2>4, <3>1, <3>4
      <3> QED
        BY <3>5 DEF Here
    <2> QED
      BY <1>2, <1>5, <2>6, <2>7, <2>8
  <1> QED
    BY <1>2, <1>4, <1>5, Zenon DEF FramesReadAreFramesSent

\* FramesReadAreFramesSent, for every frame, key, writer size, limit, failing
\* write and deadline, and every way the bytes are cut into writes and reads: what
\* the reader returns is what was sent, in order, and a frame that has arrived
\* completely is not waited for.
THEOREM TheStreamIsRead == Spec => []FramesReadAreFramesSent
  <1>1. StreamInv /\ [Next]_vars => StreamInv'
    BY StreamKept
  <1>2. StreamInv => FramesReadAreFramesSent
    BY StreamMeans
  <1> QED
    BY <1>1, <1>2, StreamInitially, PTL DEF Spec

=============================================================================
