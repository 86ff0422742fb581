---------------------------- MODULE MCFrameStream ----------------------------
EXTENDS FrameStream

\* Exclusive or, bit by bit.
XorBit(a, b, w) == w * (((a \div w) + (b \div w)) % 2)
XorByte(a, b) ==
    XorBit(a, b, 1) + XorBit(a, b, 2) + XorBit(a, b, 4) + XorBit(a, b, 8)
        + XorBit(a, b, 16) + XorBit(a, b, 32) + XorBit(a, b, 64) + XorBit(a, b, 128)

F(opcode, fin, rsv, n) ==
    [fin |-> fin, rsv |-> rsv, opcode |-> opcode, payload |-> [i \in 1..n |-> i % 5]]

\* Empty, a block and a tail in more than one piece, one that needs
\* an extended length.
Frames ==
    {F(OpcodePing, FALSE, 0, 0), F(OpcodeContinuation, TRUE, 4, 11), F(OpcodeText, FALSE, 0, 127)}

Keys == {<<17, 34, 68, 136>>}

\* Replaced by the smallest, and two bytes more than a whole number of keys.
Sizes == {3, 18}

Lengths == {0, 1, 125, 126, 127, 255, 256, 65535, 65536, 65537, 16777216, 2147483647}

=============================================================================
