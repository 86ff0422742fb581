----------------------------- MODULE ConnWrite -----------------------------
(***************************************************************************)
(* The sending half of one Conn: every goroutine that may write to it, the   *)
(* two locks they take, and the writer the frames go through.                *)
(*                                                                           *)
(* A Sender makes the application's calls one after another: SendText,       *)
(* SendBinary and SendData (one message cut into chunks), a long data         *)
(* transmission (Start, Transmit.., End, Release), SendClose, SendPing,      *)
(* SendPong and SendFrame of a control frame, RenewWriter.  A Pinger runs    *)
(* StartPingLoop.  writeLocker and dataFramesWriteLocker hold their owner.   *)
(* A step that takes writeLocker and the step that works under it are two    *)
(* actions, since the work is a socket write and may block.                  *)
(*                                                                           *)
(* The bufio.Writer (outside this repository) is a sequence and a mark: out  *)
(* is every frame handed to it, in order, of which the first `sent` have     *)
(* left for the socket.  bufio's error is sticky: after a write that failed  *)
(* every later Write and Flush fails without touching the socket.            *)
(*                                                                           *)
(* A call that is refused before it takes a lock or changes anything         *)
(* (invalid UTF-8 in SendText, a continuation opcode in SendData and Start,  *)
(* an oversize payload given to SendClose, SendPing or SendPong, an empty    *)
(* chunk given to TransmitData) is a stuttering step and has no action.      *)
(***************************************************************************)
EXTENDS Opcodes, Sequences, FiniteSets

CONSTANTS
    Sender,      \* goroutines that make the application's calls
    Pinger,      \* goroutines that run StartPingLoop
    NoOne,       \* the owner of a free lock
    Masked,      \* maskSendFrame: TRUE for a client, which draws a masking key per frame
    MsgOpcode,   \* opcodes the application passes to SendData and Start
    ControlOp,   \* opcodes the application passes to the control senders
    MaxCalls,    \* bound: calls a Sender makes
    MaxPings,    \* bound: pings a Pinger sends
    MaxFrames,   \* bound: frames of one message
    Faults       \* what may go wrong: "key" (random source), "write" (socket),
                 \* "payload" (a ping loop's payload function returns too much)

Goroutine == Sender \cup Pinger

ASSUME ConnWriteAssumption ==
    /\ NoOne \notin Goroutine
    /\ Sender \cap Pinger = {}
    /\ Masked \in BOOLEAN
    /\ MsgOpcode \subseteq Opcode \ {OpcodeContinuation}
    /\ ControlOp \subseteq {OpcodeClose, OpcodePing, OpcodePong}
    /\ MaxCalls \in Nat /\ MaxPings \in Nat
    /\ MaxFrames \in Nat \ {0}
    /\ Faults \subseteq {"key", "write", "payload"}

VARIABLES
    pc,                            \* where each goroutine is
    job,                           \* the call each goroutine is making
    result,                        \* what each goroutine's calls returned, oldest first
    writeLocker,                   \* owner of the lock around the writer and closeSent
    dataFramesWriteLocker,         \* owner of the lock around a message
    closeSent,
    currentTransmitDataMsgOpcode,
    currentTransmitDataMsgOpened,
    out,                           \* frames handed to the writer, in order
    sent,                          \* how many of them are on the wire
    werr                           \* the writer's sticky error

conn   == <<writeLocker, dataFramesWriteLocker>>
stream == <<currentTransmitDataMsgOpcode, currentTransmitDataMsgOpened>>
writer == <<out, sent, werr>>
vars   == <<pc, job, result, conn, closeSent, stream, writer>>

-----------------------------------------------------------------------------
(* Control points.                                                           *)

\* Waiting for writeLocker, and the work each wait leads to.
Body == [wantChunk    |-> "chunk",    wantFlush |-> "flush",
         wantControl  |-> "control",  wantRenew |-> "renew",
         wantFragment |-> "fragment", wantEnd   |-> "end"]

HoldsWriter == {"chunk", "flush", "control", "renew", "fragment", "end"}
InStream    == {"stream", "wantFragment", "fragment", "wantEnd", "end", "ended"}
HoldsData   == InStream \cup {"wantChunk", "chunk", "wantFlush", "flush"}
PC          == {"idle", "dataLock", "startLock", "tick", "sleep", "stopped"}
                   \cup DOMAIN Body \cup HoldsWriter \cup HoldsData

Outcome == {"nil", "ErrCloseAlreadySent", "ErrControlFramePayloadTooLong",
            "ErrNotDataFrameOpcode", "keyErr", "writeErr", "stickyErr", "abandoned"}

\* A frame, labelled with the goroutine and the call it belongs to and its
\* place in that call's message; fits: a payload of 125 bytes or less.
Frame == [op : Opcode, fin : BOOLEAN, fits : BOOLEAN,
          from : Goroutine, call : Nat \ {0}, seq : Nat \ {0}]

Job    == [op : Opcode, fits : BOOLEAN, left : Nat, seq : Nat, err : Outcome]
NewJob(op, fits, left) == [op |-> op, fits |-> fits, left |-> left, seq |-> 0, err |-> "nil"]
NoJob  == NewJob(0, TRUE, 0)
Result == [frames : Nat, err : Outcome]

\* The frame g has in hand: its job's opcode, as the next frame of its call.
FrameOf(g, fin) ==
    [op |-> job[g].op, fin |-> fin, fits |-> job[g].fits,
     from |-> g, call |-> Len(result[g]) + 1, seq |-> job[g].seq + 1]

-----------------------------------------------------------------------------
(* The writer: bufio.Writer, and the functions of ConnectionWrite.go on it.  *)

BufferAndSpill(f) ==
    /\ out' = Append(out, f)
    /\ sent' \in sent..Len(out')
    /\ UNCHANGED werr

BufferAndFlush(f) ==
    /\ out' = Append(out, f)
    /\ sent' = Len(out')
    /\ UNCHANGED werr

\* The socket took less than it was given: the frame is never complete on the
\* wire, and the writer is broken from here on.
BufferAndBreak(f) ==
    /\ out' = Append(out, f)
    /\ sent' \in sent..Len(out)
    /\ werr' = TRUE

ValidateIgnoringData(f) ==
    IF closeSent /\ f.op = OpcodeClose THEN "ErrCloseAlreadySent"
    ELSE IF IsControlOpcode(f.op) /\ ~f.fits THEN "ErrControlFramePayloadTooLong"
    ELSE "nil"

ValidateSendFrame(f) ==
    IF closeSent /\ (IsDataOpcode(f.op) \/ f.op = OpcodeClose) THEN "ErrCloseAlreadySent"
    ELSE IF IsControlOpcode(f.op) /\ ~f.fits THEN "ErrControlFramePayloadTooLong"
    ELSE "nil"

\* Everything that stops a frame before the writer takes a byte of it: the
\* validation, then a client's masking key, then the writer's sticky error.
Refused(f, err) ==
    \/ err = ValidateSendFrame(f) /\ err # "nil"
    \/ /\ ValidateSendFrame(f) = "nil"
       /\ \/ Masked /\ "key" \in Faults /\ err = "keyErr"
          \/ werr /\ err = "stickyErr"

Accepted(f) == ValidateSendFrame(f) = "nil" /\ ~werr

\* bufferedWriteFrame(f) returns err.  bufio may spill any part of what it holds.
BufferedWriteFrame(f, err) ==
    \/ Refused(f, err) /\ UNCHANGED writer
    \/ Accepted(f) /\ err = "nil" /\ BufferAndSpill(f)
    \/ Accepted(f) /\ "write" \in Faults /\ err = "writeErr" /\ BufferAndBreak(f)

\* sendFrame(f) returns err: bufferedWriteFrame, then Flush.
SendFrame(f, err) ==
    \/ Refused(f, err) /\ UNCHANGED writer
    \/ Accepted(f) /\ err = "nil" /\ BufferAndFlush(f)
    \/ Accepted(f) /\ "write" \in Faults /\ err = "writeErr" /\ BufferAndBreak(f)

\* Mutant: the flush bound before RenewWriter replaced the writer, so it flushes
\* a writer that holds nothing.
FlushStaleWriter(err) == err = "nil" /\ UNCHANGED writer

\* c.writer.Flush() returns err.
FlushWriter(err) ==
    \/ werr /\ err = "stickyErr" /\ UNCHANGED writer
    \/ ~werr /\ err = "nil" /\ sent' = Len(out) /\ UNCHANGED <<out, werr>>
    \/ /\ ~werr /\ "write" \in Faults /\ sent < Len(out) /\ err = "writeErr"
       /\ sent' \in sent..(Len(out) - 1) /\ werr' = TRUE /\ UNCHANGED out

-----------------------------------------------------------------------------
(* Steps shared by the calls.                                                *)

Goto(g, where) == pc' = [pc EXCEPT ![g] = where]

CanCall(g) == g \in Sender /\ pc[g] = "idle" /\ Len(result[g]) < MaxCalls

\* The goroutine takes writeLocker, in whatever call it waits for it.
LockWriter(g) ==
    /\ pc[g] \in DOMAIN Body
    /\ writeLocker = NoOne
    /\ writeLocker' = g
    /\ Goto(g, Body[pc[g]])
    /\ UNCHANGED <<job, result, dataFramesWriteLocker, closeSent, stream, writer>>

\* Mutant: an unlock on the way out of success only, in place of the defer.
UnlockOnSuccess(err) == writeLocker' = IF err = "nil" THEN NoOne ELSE writeLocker

\* The unlock of writeLocker, on every path out of the work.
UnlockWriter(err) == writeLocker' = NoOne

\* The call returns err after `frames` frames of its message were handed over.
\* StartPingLoop's trigger goes back to Loop, which sleeps or stops.
Return(g, frames, err) ==
    /\ result' = [result EXCEPT ![g] = Append(@, [frames |-> frames, err |-> err])]
    /\ job' = [job EXCEPT ![g] = NoJob]
    /\ Goto(g, IF g \in Sender THEN "idle" ELSE IF err = "nil" THEN "sleep" ELSE "stopped")

-----------------------------------------------------------------------------
(* SendData: the whole message under dataFramesWriteLocker, each frame and    *)
(* the last flush under writeLocker.                                          *)

SendData(g) ==
    /\ CanCall(g)
    /\ \E op \in MsgOpcode, n \in 1..MaxFrames :
          job' = [job EXCEPT ![g] = NewJob(op, TRUE, n)]
    /\ Goto(g, "dataLock")
    /\ UNCHANGED <<result, conn, closeSent, stream, writer>>

\* The lock, then newDataFrame, which refuses an opcode that carries no data:
\* that call unlocks again on its way out.
LockData(g) ==
    /\ pc[g] = "dataLock"
    /\ dataFramesWriteLocker = NoOne
    /\ \/ /\ IsDataOpcode(job[g].op)
          /\ dataFramesWriteLocker' = g
          /\ Goto(g, "wantChunk")
          /\ UNCHANGED <<job, result>>
       \/ /\ ~IsDataOpcode(job[g].op)
          /\ Return(g, 0, "ErrNotDataFrameOpcode")
          /\ UNCHANGED dataFramesWriteLocker
    /\ UNCHANGED <<writeLocker, closeSent, stream, writer>>

\* Mutant: an early return that leaves dataFramesWriteLocker locked.
FailDataKeepingLock(g, frames, err) ==
    /\ Return(g, frames, err)
    /\ UNCHANGED dataFramesWriteLocker

\* SendData returns: dataFramesWriteLocker is unlocked on every path.
ReturnData(g, frames, err) ==
    /\ Return(g, frames, err)
    /\ dataFramesWriteLocker' = NoOne

\* Mutant: FIN is looked at before the chunk is cut, a turn late, and the loop goes on
\* to cut chunks from a payload that has none left.
TurnAfterFin(left) == IF left = 0 THEN "wantFlush" ELSE "wantChunk"

\* Where the loop goes behind a chunk written with `left` to go: for fin := false; !fin.
AfterChunk(left) == IF left = 1 THEN "wantFlush" ELSE "wantChunk"

\* One turn of the loop: the chunk is the last when none is left after it, and
\* every frame after the first is a continuation.
WriteChunk(g) ==
    /\ pc[g] = "chunk"
    /\ \E err \in Outcome :
          /\ UnlockWriter(err)
          /\ BufferedWriteFrame(FrameOf(g, job[g].left = 1), err)
          /\ \/ err # "nil" /\ ReturnData(g, job[g].seq, err)
             \/ /\ err = "nil"
                /\ job' = [job EXCEPT ![g].op = OpcodeContinuation,
                                      ![g].seq = @ + 1, ![g].left = @ - 1]
                /\ Goto(g, AfterChunk(job[g].left))
                /\ UNCHANGED <<result, dataFramesWriteLocker>>
    /\ UNCHANGED <<closeSent, stream>>

FlushData(g) ==
    /\ pc[g] = "flush"
    /\ \E err \in Outcome : UnlockWriter(err) /\ FlushWriter(err) /\ ReturnData(g, job[g].seq, err)
    /\ UNCHANGED <<closeSent, stream>>

-----------------------------------------------------------------------------
(* SendClose, SendPing, SendPong and SendFrame of a control frame: SendFrame  *)
(* under writeLocker.  Only SendFrame itself lets an oversize payload get as   *)
(* far as validateSendFrame.                                                   *)

SendControl(g) ==
    /\ CanCall(g)
    /\ \E op \in ControlOp, fits \in BOOLEAN :
          job' = [job EXCEPT ![g] = NewJob(op, fits, 1)]
    /\ Goto(g, "wantControl")
    /\ UNCHANGED <<result, conn, closeSent, stream, writer>>

\* Mutant: the close counts as sent whether or not it was written.
ClosesOnAnyOutcome(g, err) == closeSent \/ job[g].op = OpcodeClose

\* closeSent after sendFrame: set only once the close is on the wire.
ClosedAfter(g, err) == closeSent \/ (job[g].op = OpcodeClose /\ err = "nil")

WriteControl(g) ==
    /\ pc[g] = "control"
    /\ \E err \in Outcome :
          /\ UnlockWriter(err)
          /\ SendFrame(FrameOf(g, TRUE), err)
          /\ closeSent' = ClosedAfter(g, err)
          /\ Return(g, IF err = "nil" THEN 1 ELSE 0, err)
    /\ UNCHANGED <<dataFramesWriteLocker, stream>>

-----------------------------------------------------------------------------
(* RenewWriter: flush the old writer under writeLocker, then replace it.  The  *)
(* frames it was handed are all on the wire, so the new writer starts empty    *)
(* where the old one ended.  The caller's writer is fresh.                     *)

RenewWriter(g) ==
    /\ CanCall(g)
    /\ Goto(g, "wantRenew")
    /\ UNCHANGED <<job, result, conn, closeSent, stream, writer>>

\* A failed flush leaves the old writer, and its error, in place.
ReplaceWriter(err) == FlushWriter(err)

Renew(g) ==
    /\ pc[g] = "renew"
    /\ \E err \in Outcome : UnlockWriter(err) /\ ReplaceWriter(err) /\ Return(g, 0, err)
    /\ UNCHANGED <<dataFramesWriteLocker, closeSent, stream>>

-----------------------------------------------------------------------------
(* A long data transmission.                                                  *)

\* Up to the unlock of writeLocker: closeSent is read under it, and the call
\* goes on to wait for dataFramesWriteLocker with what it read.
StartLongDataTransmission(g) ==
    /\ CanCall(g)
    /\ writeLocker = NoOne
    /\ \/ closeSent /\ Return(g, 0, "ErrCloseAlreadySent")
       \/ /\ ~closeSent
          /\ \E op \in {o \in MsgOpcode : IsDataOpcode(o)} :
                job' = [job EXCEPT ![g] = NewJob(op, TRUE, MaxFrames)]
          /\ Goto(g, "startLock")
          /\ UNCHANGED result
    /\ UNCHANGED <<conn, closeSent, stream, writer>>

ClaimTransmission(g) ==
    /\ pc[g] = "startLock"
    /\ dataFramesWriteLocker = NoOne
    /\ dataFramesWriteLocker' = g
    /\ currentTransmitDataMsgOpcode' = job[g].op
    /\ Goto(g, "stream")
    /\ UNCHANGED <<job, result, writeLocker, closeSent, currentTransmitDataMsgOpened, writer>>

\* The opcode of the stream's next frame.
NextOpcode == IF currentTransmitDataMsgOpened THEN OpcodeContinuation
              ELSE currentTransmitDataMsgOpcode

TransmitData(g) ==
    /\ pc[g] = "stream"
    /\ currentTransmitDataMsgOpcode # 0
    /\ job[g].left > 1
    /\ job' = [job EXCEPT ![g].op = NextOpcode, ![g].left = @ - 1]
    /\ Goto(g, "wantFragment")
    /\ UNCHANGED <<result, conn, closeSent, stream, writer>>

OpenedAfter(err) == currentTransmitDataMsgOpened \/ err = "nil"

\* The caller may retry a fragment that failed, End, or Release.
WriteFragment(g) ==
    /\ pc[g] = "fragment"
    /\ \E err \in Outcome :
          /\ UnlockWriter(err)
          /\ SendFrame(FrameOf(g, FALSE), err)
          /\ currentTransmitDataMsgOpened' = OpenedAfter(err)
          /\ job' = [job EXCEPT ![g].seq = IF err = "nil" THEN @ + 1 ELSE @]
    /\ Goto(g, "stream")
    /\ UNCHANGED <<result, dataFramesWriteLocker, closeSent, currentTransmitDataMsgOpcode>>

EndLongDataTransmission(g) ==
    /\ pc[g] = "stream"
    /\ currentTransmitDataMsgOpcode # 0
    /\ job' = [job EXCEPT ![g].op = NextOpcode]
    /\ Goto(g, "wantEnd")
    /\ UNCHANGED <<result, conn, closeSent, stream, writer>>

WriteEnd(g) ==
    /\ pc[g] = "end"
    /\ \E err \in Outcome :
          /\ UnlockWriter(err)
          /\ SendFrame(FrameOf(g, TRUE), err)
          /\ job' = [job EXCEPT ![g].seq = IF err = "nil" THEN @ + 1 ELSE @, ![g].err = err]
    /\ Goto(g, "ended")
    /\ UNCHANGED <<result, dataFramesWriteLocker, closeSent, stream>>

\* Mutant: Release forgets the flag, so the next transmission opens with a
\* continuation.
ReleaseKeepsOpened == currentTransmitDataMsgOpcode' = 0 /\ UNCHANGED currentTransmitDataMsgOpened

ResetTransmission == currentTransmitDataMsgOpcode' = 0 /\ currentTransmitDataMsgOpened' = FALSE

\* The deferred Release, after End or instead of it.
ReleaseLongDataTransmission(g) ==
    /\ pc[g] \in {"stream", "ended"}
    /\ ResetTransmission
    /\ ReturnData(g, job[g].seq, IF pc[g] = "ended" THEN job[g].err ELSE "abandoned")
    /\ UNCHANGED <<writeLocker, closeSent, writer>>

-----------------------------------------------------------------------------
(* StartPingLoop: Loop calls the trigger until it signals the stop channel.    *)
(* A payload function that returns more than 125 bytes stops the loop, since   *)
(* SendPing refuses to build the frame.                                        *)

\* Mutant: the loop does not look at closeSent.
MayPingUnchecked == TRUE

MayPing == ~closeSent

\* The trigger up to its SendPing: closeSent is read under writeLocker, and the
\* lock is free again before the ping is sent.
Trigger(g) ==
    /\ g \in Pinger
    /\ pc[g] = "tick"
    /\ writeLocker = NoOne
    /\ \/ /\ ~MayPing \/ "payload" \in Faults
          /\ Goto(g, "stopped")
          /\ UNCHANGED job
       \/ /\ MayPing
          /\ Len(result[g]) < MaxPings
          /\ job' = [job EXCEPT ![g] = NewJob(OpcodePing, TRUE, 1)]
          /\ Goto(g, "wantControl")
    /\ UNCHANGED <<result, conn, closeSent, stream, writer>>

Sleep(g) ==
    /\ pc[g] = "sleep"
    /\ Goto(g, "tick")
    /\ UNCHANGED <<job, result, conn, closeSent, stream, writer>>

-----------------------------------------------------------------------------

Init ==
    /\ pc = [g \in Goroutine |-> IF g \in Sender THEN "idle" ELSE "tick"]
    /\ job = [g \in Goroutine |-> NoJob]
    /\ result = [g \in Goroutine |-> <<>>]
    /\ writeLocker = NoOne
    /\ dataFramesWriteLocker = NoOne
    /\ closeSent = FALSE
    /\ currentTransmitDataMsgOpcode = 0
    /\ currentTransmitDataMsgOpened = FALSE
    /\ out = <<>>
    /\ sent = 0
    /\ werr = FALSE

\* Every goroutine is done, or out of the calls the bounds give it.
Finished ==
    /\ \A g \in Sender : pc[g] = "idle" /\ Len(result[g]) = MaxCalls
    /\ \A g \in Pinger : \/ pc[g] = "stopped"
                         \/ pc[g] = "tick" /\ ~closeSent /\ Len(result[g]) = MaxPings
    /\ UNCHANGED vars

Step(g) ==
    \/ LockWriter(g)
    \/ SendData(g) \/ LockData(g) \/ WriteChunk(g) \/ FlushData(g)
    \/ SendControl(g) \/ WriteControl(g)
    \/ RenewWriter(g) \/ Renew(g)
    \/ StartLongDataTransmission(g) \/ ClaimTransmission(g)
    \/ TransmitData(g) \/ WriteFragment(g)
    \/ EndLongDataTransmission(g) \/ WriteEnd(g)
    \/ ReleaseLongDataTransmission(g)
    \/ Trigger(g) \/ Sleep(g)

Next == (\E g \in Goroutine : Step(g)) \/ Finished

Spec == Init /\ [][Next]_vars

\* A step that is not the application's choice.  A goroutine has one at a time.
Progress(g) ==
    \/ LockWriter(g) \/ LockData(g) \/ ClaimTransmission(g)
    \/ WriteChunk(g) \/ FlushData(g) \/ WriteControl(g) \/ Renew(g)
    \/ WriteFragment(g) \/ WriteEnd(g)
    \/ Trigger(g) \/ Sleep(g)

\* sync.Mutex hands a lock to a goroutine that waited long enough, so a waiter
\* gets a lock that keeps coming free (strong fairness); code holding a lock runs
\* on, since a socket write ends with the peer's reading or with the write
\* deadline; Loop wakes up.  Nothing is assumed of the application.
Fairness == \A g \in Goroutine : SF_vars(Progress(g))

FairSpec == Spec /\ Fairness

-----------------------------------------------------------------------------
(* Properties.                                                                *)

IsClose(f) == f.op = OpcodeClose
Returned(f) == f.call <= Len(result[f.from])

\* The variables keep their types; in particular a SendData cuts no chunk beyond the
\* last (ConnectionDataFrame.go:103-118), and no flush, of whichever sender, accounts
\* for more frames than the writer was handed (ConnectionWrite.go:155-183).
TypeOK ==
    /\ pc \in [Goroutine -> PC]
    /\ job \in [Goroutine -> Job]
    /\ result \in [Goroutine -> Seq(Result)]
    /\ writeLocker \in Goroutine \cup {NoOne}
    /\ dataFramesWriteLocker \in Goroutine \cup {NoOne}
    /\ closeSent \in BOOLEAN
    /\ currentTransmitDataMsgOpcode \in Opcode
    /\ currentTransmitDataMsgOpened \in BOOLEAN
    /\ out \in Seq(Frame)
    /\ sent \in 0..Len(out)
    /\ werr \in BOOLEAN

\* Every path through every call, the error returns included, leaves each lock
\* with the one goroutine whose code is still inside it: no unlock is forgotten
\* and none is done for somebody else (sendData 93-122, Release 187-191).
LockDiscipline ==
    /\ \A g \in Goroutine : pc[g] \in HoldsWriter <=> writeLocker = g
    /\ \A g \in Goroutine : pc[g] \in HoldsData <=> dataFramesWriteLocker = g

\* RFC 6455 5.5.1 over any interleaving of senders: once a close frame has been
\* handed to the writer, neither a data frame nor a second close follows it
\* (validateSendFrame, ConnectionWrite.go:50-62), buffered frames included.
NothingFollowsClose ==
    \A i, j \in DOMAIN out :
        i < j /\ IsClose(out[i]) => ~IsDataOpcode(out[j].op) /\ ~IsClose(out[j])

\* closeSent is exactly "a close is on the wire": it is never set for a close
\* that failed, and never unset for one that went out (ConnectionWrite.go:178-181).
CloseSentIsTheWire ==
    closeSent <=> \E i \in 1..sent : IsClose(out[i])

\* A call that returned nil has all of its frames on the wire, once each and
\* ending with FIN: nothing stays behind in the buffer when RenewWriter swaps
\* the writer or another sender flushes in between (ConnectionDataFrame.go:73-75,
\* 102-122; ConnectionWrite.go:185-222).
NilMeansOnTheWire ==
    \A g \in Goroutine : \A k \in DOMAIN result[g] : result[g][k].err = "nil" =>
        LET mine == {i \in 1..sent : out[i].from = g /\ out[i].call = k}
            n    == result[g][k].frames
        IN  /\ Cardinality(mine) = n
            /\ {out[i].seq : i \in mine} = 1..n
            /\ n > 0 => \E i \in mine : out[i].seq = n /\ out[i].fin

\* With every sender back, frames are left in the buffer only by a broken
\* writer or a masking key that could not be drawn mid message: a SendData cut short
\* by a close has had its frames flushed ahead of that close
\* (ConnectionDataFrame.go:58-61).
NothingStranded ==
    (\A g \in Goroutine : pc[g] \in {"idle", "tick", "sleep", "stopped"}) =>
        \/ sent = Len(out)
        \/ werr
        \/ \E g \in Goroutine : \E k \in DOMAIN result[g] : result[g][k].err = "keyErr"

\* The ping loop reads closeSent, unlocks, and pings with what it read: a close
\* may go out in between, but only one ping of a loop follows it
\* (ConnectionPingLoop.go:49-64).
OnePingAfterClose ==
    \A g \in Pinger :
        Cardinality({j \in DOMAIN out : /\ out[j].from = g
                                        /\ \E i \in 1..(j - 1) : IsClose(out[i])}) <= 1

\* A control frame gets out (or is refused) while a transmission is open, and
\* even if it is never released (ConnectionDataFrame.go:57-60,
\* ConnectionLongDataTransmission.go:36-37).
ControlReturns ==
    \A g \in Goroutine : pc[g] = "wantControl" ~> pc[g] \in {"idle", "sleep", "stopped"}

\* Every ping loop ends once a close has gone out (ConnectionPingLoop.go:49-58).
PingLoopEnds == \A g \in Pinger : closeSent ~> pc[g] = "stopped"

\* As long as every transmission is released some time, a message sender gets
\* its turn and returns, a stream claims the connection, and no wait is for ever
\* (ConnectionLongDataTransmission.go:48-58, 65-68).
SendersReturn ==
    (\A g \in Sender : []<>(pc[g] \notin InStream)) =>
        \A g \in Sender : /\ pc[g] = "dataLock" ~> pc[g] = "idle"
                          /\ pc[g] = "startLock" ~> pc[g] = "stream"

-----------------------------------------------------------------------------
(* The frames handed to the writer are a stream as the peer expects it.      *)

\* The last data frame handed over, when it leaves its message unfinished and
\* its call has not returned.
MessageInProgress ==
    LET data == {i \in DOMAIN out : IsDataOpcode(out[i].op)}
        last == {i \in data : (\A k \in data : k <= i) /\ ~out[i].fin /\ ~Returned(out[i])}
    IN  IF last = {} THEN NoOne
        ELSE LET f == out[CHOOSE i \in last : TRUE]
             IN  [from |-> f.from, call |-> f.call, seq |-> f.seq]

Abstract == INSTANCE MessageStream WITH
    Source <- Goroutine, NoMessage <- NoOne, frames <- out,
    open <- MessageInProgress, closed <- \E i \in DOMAIN out : IsClose(out[i])

\* ConnWrite implements MessageStream: any interleaving of the callers, any
\* failure, shows the peer one legal stream.
ImplementsMessageStream == Abstract!Spec

=============================================================================
