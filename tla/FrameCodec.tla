----------------------------- MODULE FrameCodec -----------------------------
(***************************************************************************)
(* A frame as bytes: the header appendSealedHeader writes (Frame.go), the      *)
(* masking both directions share, and what getFrameFromReader makes of the     *)
(* bytes (FrameRead.go).  A byte is a number; the three RSV bits are kept      *)
(* together as a number below 8.  A sent frame is                              *)
(* [fin, rsv, opcode, mask, key, payload]; opcode is the whole byte of the      *)
(* struct field, of which the header has room for four bits.                   *)
(***************************************************************************)
EXTENDS Integers, Sequences, Opcodes

CONSTANT Xor(_, _)       \* Go's ^ on two bytes

Byte == 0..255

\* ^ keeps to a byte, and doing it twice undoes it.
ASSUME XorAssumption ==
    \A a, b \in Byte : Xor(a, b) \in Byte /\ Xor(Xor(a, b), b) = a

NoKey == <<0, 0, 0, 0>>

Least(a, b) == IF a < b THEN a ELSE b

-----------------------------------------------------------------------------
(* Lengths.                                                                  *)

\* Mutant: 65536 counted among the lengths of 16 bits.
PayloadLength65536(n) == IF n <= 125 THEN n ELSE IF n <= 65536 THEN 126 ELSE 127

\* The seven bit length field for a payload of n bytes.
PayloadLength(n) == IF n <= 125 THEN n ELSE IF n <= 65535 THEN 126 ELSE 127

\* The width of the extended length that follows length field l.
ExtendedWidth(l) == CASE l = 126 -> 2 [] l = 127 -> 8 [] OTHER -> 0

HeaderSize(f) == 2 + ExtendedWidth(PayloadLength(Len(f.payload))) + (IF f.mask THEN 4 ELSE 0)

\* n in w bytes, of at most eight, the most significant first; what does not fit
\* is cut off.
BigEndian(n, w) ==
    LET n1 == n \div 256    n2 == n1 \div 256   n3 == n2 \div 256   n4 == n3 \div 256
        n5 == n4 \div 256   n6 == n5 \div 256   n7 == n6 \div 256
        eight == <<n7 % 256, n6 % 256, n5 % 256, n4 % 256, n3 % 256, n2 % 256, n1 % 256, n % 256>>
    IN  [i \in 1..w |-> eight[8 - w + i]]

FromBigEndian(bytes) ==
    LET value[i \in 0..Len(bytes)] == IF i = 0 THEN 0 ELSE value[i - 1] * 256 + bytes[i]
    IN  value[Len(bytes)]

-----------------------------------------------------------------------------
(* Writing.                                                                  *)

Bit(b) == IF b THEN 1 ELSE 0

\* The header of a frame whose payload is n bytes long.
HeaderFor(f, n) ==
    <<128 * Bit(f.fin) + 16 * f.rsv + (f.opcode % 16), 128 * Bit(f.mask) + PayloadLength(n)>>
        \o BigEndian(n, ExtendedWidth(PayloadLength(n)))
        \o (IF f.mask THEN f.key ELSE <<>>)

Header(f) == HeaderFor(f, Len(f.payload))

\* Eight bytes at a time with the key twice, then the tail from key[0].
MaskPayload(payload, key) ==
    LET blocks == 8 * (Len(payload) \div 8)
        twice  == key \o key
    IN  [i \in 1..Len(payload) |->
            IF i <= blocks THEN Xor(payload[i], twice[((i - 1) % 8) + 1])
            ELSE Xor(payload[i], key[((i - 1 - blocks) % 4) + 1])]

-----------------------------------------------------------------------------
(* Reading.                                                                  *)

\* The two bytes every header starts with.
FirstOf(b) ==
    [fin |-> b[1] \div 128 = 1, rsv |-> (b[1] \div 16) % 8, opcode |-> b[1] % 16,
     mask |-> b[2] \div 128 = 1, len |-> b[2] % 128]

RestHeaderLength(first) == ExtendedWidth(first.len) + (IF first.mask THEN 4 ELSE 0)

\* GetMaxPayloadLength, of a header whose remaining bytes are rest.
DeclaredLength(first, rest) ==
    IF first.len \in {126, 127} THEN FromBigEndian(SubSeq(rest, 1, ExtendedWidth(first.len)))
    ELSE first.len

\* Mutant: the key looked for in front of the extended length.
KeyFirst(first, rest) == IF first.mask THEN SubSeq(rest, 1, 4) ELSE NoKey

KeyIn(first, rest) ==
    IF first.mask THEN SubSeq(rest, Len(rest) - 3, Len(rest)) ELSE NoKey

\* The frame made of a header and the bytes behind it, unmasked.
Opened(first, key, bytes) ==
    [fin |-> first.fin, rsv |-> first.rsv, opcode |-> first.opcode, mask |-> first.mask,
     key |-> key, payload |-> IF first.mask THEN MaskPayload(bytes, key) ELSE bytes]

-----------------------------------------------------------------------------
(* The reference: RFC 6455 5.3 masks octet i with octet i mod 4 of the key.    *)

MaskedByRFC(payload, key) ==
    [i \in 1..Len(payload) |-> Xor(payload[i], key[((i - 1) % 4) + 1])]

\* What bytes go out as, and a frame as the wire should carry it.
Covered(f, bytes) == IF f.mask THEN MaskedByRFC(bytes, f.key) ELSE bytes

Sealed(f) == Header(f) \o Covered(f, f.payload)

=============================================================================
