----------------------------- MODULE FrameReader -----------------------------
(***************************************************************************)
(* getFrameFromReader (FrameRead.go): three io.ReadFull on one bufio.Reader,    *)
(* the first two bytes of the header, the rest of it, the payload, with the    *)
(* declared length judged before the payload is allocated.  A ReadFull that     *)
(* ends early (a read deadline, the end of the stream) has consumed what was    *)
(* there.  The caller reads on after a deadline that passed between two frames,  *)
(* and never after an error inside one, as LISTENER_README.md demands.           *)
(*                                                                           *)
(* Every action takes the bytes that have arrived so far; taken is how many of  *)
(* them the reader has consumed.                                              *)
(***************************************************************************)
EXTENDS FrameCodec

CONSTANTS
    Limit,       \* values of maxByteLength the caller passes, 0 for none
    MaxCuts      \* bound: reads that end early

ASSUME FrameReaderAssumption == Limit \subseteq Nat /\ MaxCuts \in Nat

VARIABLES
    rpc,       \* which ReadFull GetNextFrame is in: "first", "rest" or "payload",
               \* "stopped" when the caller has given up
    taken,     \* bytes consumed
    limit,     \* maxByteLength of the call in progress
    head,      \* its header, as far as it is read: [first, rest]
    read,      \* history: the frames returned
    cuts

readerVars == <<rpc, taken, limit, head, read, cuts>>

NoHead == [first |-> FirstOf(<<0, 0>>), rest |-> <<>>]

\* The next n bytes that io.ReadFull waits for.
Here(arrived, n)  == taken + n <= Len(arrived)
Bytes(arrived, n) == SubSeq(arrived, taken + 1, taken + n)

\* The bytes the ReadFull in progress wants.
PayloadWanted(h) == DeclaredLength(h.first, h.rest)

Wanted ==
    CASE rpc = "first"   -> 2
      [] rpc = "rest"    -> RestHeaderLength(head.first)
      [] OTHER           -> PayloadWanted(head)

NextFrame == rpc' = "first" /\ limit' = 0 /\ head' = NoHead

\* GetNextFrame is called, and gets the first two bytes.
ReadFirst(arrived, max) ==
    /\ rpc = "first" /\ Here(arrived, 2)
    /\ limit' = max
    /\ head' = [first |-> FirstOf(Bytes(arrived, 2)), rest |-> <<>>]
    /\ taken' = taken + 2
    /\ rpc' = "rest"
    /\ UNCHANGED <<read, cuts>>

OverLimit(h) == limit > 0 /\ PayloadWanted(h) > limit

\* The rest of the header, which may be empty; the payload's length is judged.
\* A refused frame's payload stays unread.
ReadRest(arrived) ==
    /\ rpc = "rest" /\ Here(arrived, Wanted)
    /\ LET h == [head EXCEPT !.rest = Bytes(arrived, Wanted)]
       IN  /\ head' = h
           /\ rpc' = IF OverLimit(h) THEN "stopped" ELSE "payload"
    /\ taken' = taken + Wanted
    /\ UNCHANGED <<limit, read, cuts>>

ReadPayload(arrived) ==
    /\ rpc = "payload" /\ Here(arrived, Wanted)
    /\ read' = Append(read, Opened(head.first, KeyIn(head.first, head.rest), Bytes(arrived, Wanted)))
    /\ taken' = taken + Wanted
    /\ NextFrame
    /\ UNCHANGED cuts

\* The deadline passes, or the stream ends, while io.ReadFull waits for more.
ReadCutShort(arrived) ==
    /\ rpc # "stopped" /\ ~Here(arrived, Wanted) /\ cuts < MaxCuts
    /\ taken' = Len(arrived)
    /\ rpc' = IF rpc = "first" /\ taken' = taken THEN "first" ELSE "stopped"
    /\ cuts' = cuts + 1
    /\ UNCHANGED <<limit, head, read>>

ReaderInit ==
    /\ rpc = "first" /\ taken = 0 /\ limit = 0 /\ head = NoHead
    /\ read = <<>> /\ cuts = 0

ReaderStep(arrived) ==
    \/ \E max \in Limit : ReadFirst(arrived, max)
    \/ ReadRest(arrived) \/ ReadPayload(arrived)

=============================================================================
