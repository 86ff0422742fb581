----------------------------- MODULE FrameStream -----------------------------
(***************************************************************************)
(* One direction of a connection as bytes: a sender's frames through its       *)
(* writer (BufferedWrite), the socket, and the reader at the other end          *)
(* (FrameReader), which sees whatever part of a frame has been written.         *)
(***************************************************************************)
EXTENDS BufferedWrite, FrameReader

CONSTANT Length       \* payload lengths at which the header's encodings are tried

\* A length is an int: below 2^63, which is more than TLC's numbers reach.
IsLength(n) == n \in Nat /\ ((n \div 65536) \div 65536) \div 65536 < 32768

ASSUME FrameStreamAssumption ==
    /\ \A n \in Length : IsLength(n)
    /\ \A f \in GivenFrame : IsLength(Len(f.payload))

VARIABLE given        \* history: the frames given to a writer that was not broken

vars == <<writerVars, readerVars, given>>

Init == WriterInit /\ ReaderInit /\ given = <<>>

\* What the peer should make of f: the header has four bits for the opcode.
AsRead(f) == [f EXCEPT !.opcode = f.opcode % 16]

Send ==
    /\ \E f \in GivenFrame, key \in Key, flush \in BOOLEAN : StartSend(f, key, flush)
    /\ given' = IF werr THEN given ELSE Append(given, AsRead(frame'))
    /\ UNCHANGED readerVars

Write == WriterStep /\ UNCHANGED <<readerVars, given>>

Renew == (\E s \in WriterSize : RenewWriter(s)) /\ UNCHANGED <<readerVars, given>>

Read == ReaderStep(wire) /\ UNCHANGED <<writerVars, given>>

Cut == ReadCutShort(wire) /\ UNCHANGED <<writerVars, given>>

\* Every send within the bound was made, and the reader waits for more.
Finished ==
    /\ pc = "idle" /\ sends = MaxSends
    /\ rpc # "stopped" => ~Here(wire, Wanted)
    /\ UNCHANGED vars

Next == Send \/ Write \/ Renew \/ Read \/ Cut \/ Finished

\* A send that has begun goes on, since a socket write returns.  Nobody has to
\* send, to read, or to renew a writer.
Spec == Init /\ [][Next]_vars /\ WF_vars(Write)

-----------------------------------------------------------------------------

\* What the reader returns are the frames that were sent, every field and every
\* payload byte, in order and from the first, however they were cut into
\* writes and reads, and also after a deadline that passed between two frames.
\* Once every byte of the frames is on the wire, the reader has all of them or
\* goes on: it never waits inside a frame that has been written completely.
FramesReadAreFramesSent ==
    /\ Len(read) <= Len(given)
    /\ read = SubSeq(given, 1, Len(read))
    /\ wire = image /\ rpc # "stopped" /\ ~Here(wire, Wanted) => Len(read) = Len(given)

\* Had the frame in hand n bytes of payload, for every n where the encoding
\* changes and up to the largest tried: its header fits the smallest writer, and
\* gives the reader back its own length, the payload's, and the key.
LengthsSurvive ==
    \A n \in Length :
        LET h     == HeaderFor(frame, n)
            first == FirstOf(SubSeq(h, 1, 2))
            rest  == SubSeq(h, 3, Len(h))
        IN  /\ Len(h) <= FitWriter(0)
            /\ Len(rest) = RestHeaderLength(first)
            /\ DeclaredLength(first, rest) = n
            /\ KeyIn(first, rest) = frame.key

\* Every send returns, with an error if need be: the loop over a masked payload
\* always gets room for another piece, with the smallest writer too.
EverySendReturns == (pc # "idle") ~> (pc = "idle")

=============================================================================
