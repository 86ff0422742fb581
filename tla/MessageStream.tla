--------------------------- MODULE MessageStream ---------------------------
(***************************************************************************)
(* What one side of a WebSocket connection promises its peer, whatever its  *)
(* goroutines, locks and buffers do: one stream of frames in which the       *)
(* fragments of a message follow each other with only control frames between *)
(* (RFC 6455 5.4), control frames are whole and short (5.5), and neither a    *)
(* data frame nor another close follows a close (5.5.1).  A sender may give   *)
(* a message up, which leaves it unterminated.                                *)
(***************************************************************************)
EXTENDS Opcodes, Sequences, Functions

CONSTANTS Source,     \* who sends messages
          NoMessage   \* no message is in progress

VARIABLES frames,     \* the stream so far
          open,       \* the message in progress, and its frames so far
          closed      \* a close is in the stream

\* One record per frame: whose, which of its messages, which part of it.
Frame == [op : Opcode, fin : BOOLEAN, fits : BOOLEAN,
          from : Source, call : Nat \ {0}, seq : Nat \ {0}]

Progress(f) == [from |-> f.from, call |-> f.call, seq |-> f.seq]

TypeOK ==
    /\ frames \in Seq(Frame)
    /\ open \in [from : Source, call : Nat \ {0}, seq : Nat \ {0}] \cup {NoMessage}
    /\ closed \in BOOLEAN

Init == frames = <<>> /\ open = NoMessage /\ closed = FALSE

\* A whole control frame of at most 125 bytes, at any moment.
SendControl(f) ==
    /\ IsControlOpcode(f.op) /\ f.fin /\ f.fits
    /\ f.op = OpcodeClose => ~closed
    /\ closed' = (closed \/ f.op = OpcodeClose)
    /\ UNCHANGED open

\* After an unfinished frame the message stays open, or its sender gives it up.
Proceed(f) == open' \in IF f.fin THEN {NoMessage} ELSE {Progress(f), NoMessage}

OpenMessage(f) ==
    /\ ~closed
    /\ open = NoMessage
    /\ f.op \in {OpcodeText, OpcodeBinary} /\ f.seq = 1
    /\ Proceed(f)
    /\ UNCHANGED closed

ContinueMessage(f) ==
    /\ ~closed
    /\ f.op = OpcodeContinuation
    /\ f.seq > 1
    /\ open = [from |-> f.from, call |-> f.call, seq |-> f.seq - 1]
    /\ Proceed(f)
    /\ UNCHANGED closed

Send(f) ==
    /\ frames' = Append(frames, f)
    /\ SendControl(f) \/ OpenMessage(f) \/ ContinueMessage(f)

GiveUp == open' = NoMessage /\ UNCHANGED <<frames, closed>>

\* The frame a step appends is one of the frames it ends with: named so, and
\* not as any member of the infinite Frame, a step can be evaluated.
Next == (\E f \in Range(frames') : f \in Frame /\ Send(f)) \/ GiveUp

Spec == Init /\ [][Next]_<<frames, open, closed>>
=============================================================================
