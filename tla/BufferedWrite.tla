---------------------------- MODULE BufferedWrite ----------------------------
(***************************************************************************)
(* How a frame gets through the bufio.Writer of a Conn, byte by byte           *)
(* (ConnectionWrite.go): the header sealed into the writer's free space, the    *)
(* payload copied there and masked a piece at a time, or written from the       *)
(* caller's slice when it is not masked, the flushes in between, a socket       *)
(* write that fails part of the way, and a writer replaced by another.          *)
(*                                                                           *)
(* The caller holds writeLocker for a whole frame (ConnWrite shows that), so    *)
(* one frame is in hand at a time.  Each write to the socket is a step of its    *)
(* own, which is where a reader at the other end sees part of a frame.  Which    *)
(* frames are refused before the writer sees them is ConnWrite's subject.       *)
(***************************************************************************)
EXTENDS FrameCodec

CONSTANTS
    GivenFrame,    \* the frames the application sends: [fin, rsv, opcode, payload]
    Key,           \* the masking keys the random source may return
    Masks,         \* the values of maskSendFrame: TRUE for a client
    WriterSize,    \* sizes of the writers given to NewConn and RenewWriter
    MaxSends,      \* bound: frames sent
    MaxRenews      \* bound: calls of RenewWriter

ASSUME BufferedWriteAssumption ==
    /\ \A f \in GivenFrame : f.fin \in BOOLEAN /\ f.rsv \in 0..7 /\ f.opcode \in Byte
                             /\ f.payload \in Seq(Byte)
    /\ \A k \in Key : k \in Seq(Byte) /\ Len(k) = 4
    /\ Masks \subseteq BOOLEAN
    /\ WriterSize \subseteq Nat /\ MaxSends \in Nat /\ MaxRenews \in Nat

VARIABLES
    maskSendFrame,
    size,      \* the writer's buffer: how much it holds,
    buf,       \* and the bytes in it
    werr,      \* its sticky error
    wire,      \* every byte the socket has taken
    pc,        \* where the send is
    frame,     \* the frame in hand, as prepareSendFrame left it
    left,      \* of its payload, what has not been handed to the writer
    flushes,   \* whether this send flushes (SendFrame) or leaves it to another
    image,     \* history: what the frames given so far are as bytes
    sends,
    renews

writer     == <<size, buf, werr, wire>>
hand       == <<frame, left, flushes>>
writerVars == <<maskSendFrame, writer, pc, hand, image, sends, renews>>

NoFrame == [fin |-> TRUE, rsv |-> 0, opcode |-> 0, mask |-> FALSE, key |-> NoKey, payload |-> <<>>]

-----------------------------------------------------------------------------
(* The bufio.Writer.                                                         *)

Available == size - Len(buf)

\* Mutant: the sticky error is not looked at.
FlushedAnyway ==
    /\ wire' = wire \o buf /\ buf' = <<>>
    /\ UNCHANGED <<size, werr>>

\* The socket takes all of the buffer, or some of it and an error: bufio keeps what
\* was not written, and never writes again.
Flushed ==
    /\ ~werr
    /\ wire' = wire \o buf /\ buf' = <<>>
    /\ UNCHANGED <<size, werr>>

FlushBroken ==
    /\ ~werr /\ buf # <<>>
    /\ \E n \in 0..Len(buf) :
          /\ wire' = wire \o SubSeq(buf, 1, n)
          /\ buf' = SubSeq(buf, n + 1, Len(buf))
    /\ werr' = TRUE
    /\ UNCHANGED size

FlushRefused == werr /\ UNCHANGED writer

FlushFails == FlushBroken \/ FlushRefused

Put(bytes) ==
    /\ buf' = buf \o bytes
    /\ UNCHANGED <<size, werr, wire>>

-----------------------------------------------------------------------------
(* One frame.                                                                *)

Goto(p) == pc' = p

\* The send returns, with or without an error.
Return == Goto("idle") /\ frame' = NoFrame /\ left' = <<>> /\ flushes' = FALSE

\* prepareSendFrame: a client's frame gets a fresh key, a control frame FIN.
Prepared(f, key) ==
    [fin |-> f.fin \/ IsControlOpcode(f.opcode), rsv |-> f.rsv, opcode |-> f.opcode,
     mask |-> maskSendFrame, key |-> IF maskSendFrame THEN key ELSE NoKey,
     payload |-> f.payload]

\* A send begins.  With a broken writer it will get nowhere, and adds nothing
\* to what the wire should carry.
StartSend(f, key, flush) ==
    /\ pc = "idle" /\ sends < MaxSends
    /\ frame' = Prepared(f, key)
    /\ left' = f.payload
    /\ flushes' = flush
    /\ image' = IF werr THEN image ELSE image \o Sealed(frame')
    /\ sends' = sends + 1
    /\ Goto("header")
    /\ UNCHANGED <<maskSendFrame, writer, renews>>

\* writeFrameHeader: the header goes into the free space, flushed first when it
\* does not fit.  A broken writer refuses the flush or the write.
FlushForHeader ==
    /\ pc = "header" /\ Available < HeaderSize(frame)
    /\ \/ Flushed /\ Goto("sealed") /\ UNCHANGED hand
       \/ FlushFails /\ Return
    /\ UNCHANGED <<maskSendFrame, image, sends, renews>>

WriteHeader ==
    /\ pc = "sealed" \/ (pc = "header" /\ Available >= HeaderSize(frame))
    /\ \/ ~werr /\ Put(Header(frame)) /\ Goto("payload") /\ UNCHANGED hand
       \/ werr /\ Return /\ UNCHANGED writer
    /\ UNCHANGED <<maskSendFrame, image, sends, renews>>

\* Mutant: pieces of any length.
PieceOfAnyLength == Least(Available, Len(left))

\* Mutant: the last piece cut to whole keys like the others.
PieceAlwaysWhole == Least(Available, Len(left)) - (Least(Available, Len(left)) % 4)

\* The length of the next masked piece: whole keys, unless it is the last one.
Piece ==
    LET n == Least(Available, Len(left))
    IN  IF n < Len(left) THEN n - (n % 4) ELSE n

WritePiece ==
    /\ pc = "payload" /\ frame.mask /\ left # <<>> /\ Piece > 0
    /\ Put(MaskPayload(SubSeq(left, 1, Piece), frame.key))
    /\ left' = SubSeq(left, Piece + 1, Len(left))
    /\ UNCHANGED <<maskSendFrame, pc, frame, flushes, image, sends, renews>>

FlushForPiece ==
    /\ pc = "payload" /\ frame.mask /\ left # <<>> /\ Piece = 0
    /\ \/ Flushed /\ UNCHANGED <<pc, hand>>
       \/ FlushFails /\ Return
    /\ UNCHANGED <<maskSendFrame, image, sends, renews>>

\* bufio's Write of an unmasked payload: fill the buffer and flush it,
WriteAndFlush ==
    /\ pc = "payload" /\ ~frame.mask /\ Len(left) > Available /\ buf # <<>>
    /\ LET n == Available
           full == buf \o SubSeq(left, 1, n)
       IN  \/ /\ wire' = wire \o full /\ buf' = <<>>
              /\ left' = SubSeq(left, n + 1, Len(left))
              /\ UNCHANGED <<size, werr, pc, frame, flushes>>
           \/ /\ \E k \in 0..Len(full) :
                    /\ wire' = wire \o SubSeq(full, 1, k)
                    /\ buf' = SubSeq(full, k + 1, Len(full))
              /\ werr' = TRUE /\ Return /\ UNCHANGED size
    /\ UNCHANGED <<maskSendFrame, image, sends, renews>>

\* write what is longer than an empty buffer straight from the caller's slice,
WriteStraight ==
    /\ pc = "payload" /\ ~frame.mask /\ Len(left) > Available /\ buf = <<>>
    /\ \/ wire' = wire \o left /\ left' = <<>> /\ UNCHANGED <<werr, pc, frame, flushes>>
       \/ /\ \E k \in 0..Len(left) : wire' = wire \o SubSeq(left, 1, k)
          /\ werr' = TRUE /\ Return
    /\ UNCHANGED <<maskSendFrame, size, buf, image, sends, renews>>

\* and keep what fits.
WriteRest ==
    /\ pc = "payload" /\ ~frame.mask /\ left # <<>> /\ Len(left) <= Available
    /\ Put(left)
    /\ left' = <<>>
    /\ UNCHANGED <<maskSendFrame, pc, frame, flushes, image, sends, renews>>

\* bufferedWriteFrame returns; sendFrame flushes.
PayloadDone ==
    /\ pc = "payload" /\ left = <<>>
    /\ \/ flushes /\ Goto("flush") /\ UNCHANGED hand
       \/ ~flushes /\ Return
    /\ UNCHANGED <<maskSendFrame, writer, image, sends, renews>>

Flush ==
    /\ pc = "flush"
    /\ Flushed \/ FlushFails
    /\ Return
    /\ UNCHANGED <<maskSendFrame, image, sends, renews>>

-----------------------------------------------------------------------------
(* Writers.                                                                  *)

\* Mutant: a writer of any size is taken as it is.
FitAnyWriter(s) == s

\* fitWriter: minWriterSize is the longest header.
FitWriter(s) == IF s >= 14 THEN s ELSE 14

\* The new writer is empty: what the application wrote to it before is its own.
RenewWriter(s) ==
    /\ pc = "idle" /\ renews < MaxRenews
    /\ \/ /\ ~werr
          /\ wire' = wire \o buf /\ buf' = <<>>
          /\ size' = FitWriter(s)
          /\ UNCHANGED werr
       \/ FlushFails
    /\ renews' = renews + 1
    /\ UNCHANGED <<maskSendFrame, pc, hand, image, sends>>

-----------------------------------------------------------------------------

WriterInit ==
    /\ maskSendFrame \in Masks
    /\ size \in {FitWriter(s) : s \in WriterSize}
    /\ buf = <<>> /\ werr = FALSE /\ wire = <<>>
    /\ pc = "idle" /\ frame = NoFrame /\ left = <<>> /\ flushes = FALSE
    /\ image = <<>>
    /\ sends = 0 /\ renews = 0

\* The steps of a send that has begun.
WriterStep ==
    \/ FlushForHeader \/ WriteHeader
    \/ WritePiece \/ FlushForPiece
    \/ WriteAndFlush \/ WriteStraight \/ WriteRest
    \/ PayloadDone \/ Flush

WriterNext ==
    \/ \E f \in GivenFrame, key \in Key, flush \in BOOLEAN : StartSend(f, key, flush)
    \/ WriterStep
    \/ \E s \in WriterSize : RenewWriter(s)

WriterSpec == WriterInit /\ [][WriterNext]_writerVars

-----------------------------------------------------------------------------

SentFrame == [fin : BOOLEAN, rsv : 0..7, opcode : Byte, mask : BOOLEAN,
              key : Seq(Byte), payload : Seq(Byte)]

WriterTypeOK ==
    /\ maskSendFrame \in BOOLEAN /\ werr \in BOOLEAN /\ flushes \in BOOLEAN
    /\ pc \in {"idle", "header", "sealed", "payload", "flush"}
    /\ buf \in Seq(Byte) /\ wire \in Seq(Byte) /\ left \in Seq(Byte) /\ image \in Seq(Byte)
    /\ frame \in SentFrame /\ Len(frame.key) = 4
    /\ sends \in Nat /\ renews \in Nat /\ size \in Nat

\* Neither a header nor a masked piece is ever longer than the writer's free
\* space, which is what lets writeFrameHeader and writeFramePayload build them
\* there without an allocation, the smallest writers included.
FitsInTheBuffer == Len(buf) <= size

\* What is still to come of the frame in hand.
Rest ==
    CASE pc \in {"header", "sealed"} -> Sealed(frame)
      [] pc = "payload" -> Covered(frame, left)
      [] OTHER -> <<>>

\* The socket and the buffer together hold the frames given so far, whole, in
\* order and masked as if in one piece; with a broken writer, a beginning of
\* them: no byte is lost, repeated or masked with the wrong part of its key,
\* whatever the writer's size, wherever the pieces are cut and however often
\* the writer is replaced.
BytesAreTheFrames ==
    IF werr THEN \E n \in 0..Len(image) : wire \o buf = SubSeq(image, 1, n)
    ELSE wire \o buf \o Rest = image

\* A socket that took part of a frame is never written to again: what follows
\* would be read as the rest of that frame.
NothingAfterABrokenWrite == [][werr => UNCHANGED wire]_writerVars

=============================================================================
