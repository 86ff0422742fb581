-------------------------- MODULE ConnStreamProofs --------------------------
(***************************************************************************)
(* What the frames handed to the writer are, for every set of goroutines,     *)
(* every bound and every failure: ConnWrite implements MessageStream, a call   *)
(* that returned nil has its frames on the wire, no frame is left behind in    *)
(* the buffer, and a ping loop pings once at most behind a close.             *)
(***************************************************************************)
EXTENDS ConnWriteProofs, FiniteSetTheorems, FunctionTheorems

-----------------------------------------------------------------------------
(* The frame in hand.                                                        *)

Opening(op) == op \in {OpcodeText, OpcodeBinary}

\* A message opens with its opcode and goes on with continuations.
InOrder(g) == IF job[g].seq = 0 THEN Opening(job[g].op) ELSE job[g].op = OpcodeContinuation

\* The calls' frames come in order: for a transmission, whose opcode and flag are
\* the connection's and not the call's, because the flag stands exactly when a
\* frame of this very transmission was sent.
InHand(g) ==
    /\ pc[g] = "dataLock" => job[g].seq = 0 /\ job[g].op # OpcodeContinuation
    /\ pc[g] = "startLock" => job[g].seq = 0 /\ Opening(job[g].op)
    /\ pc[g] \in {"wantChunk", "chunk", "wantFragment", "fragment", "wantEnd", "end"} => InOrder(g)
    /\ pc[g] \in {"stream", "wantFragment", "fragment", "wantEnd", "end"} =>
          /\ Opening(currentTransmitDataMsgOpcode)
          /\ currentTransmitDataMsgOpened <=> job[g].seq > 0
    /\ pc[g] \in {"wantControl", "control"} => IsControlOpcode(job[g].op) /\ job[g].seq = 0

HandInv ==
    /\ \A g \in Goroutine : InHand(g)
    /\ (\A g \in Goroutine : pc[g] \notin InStream) => ~currentTransmitDataMsgOpened


\* A step of one goroutine leaves the others where they are.
Kept(h) == pc'[h] = pc[h] /\ job'[h] = job[h] /\ result'[h] = result[h]

LEMMA OthersKept ==
    ASSUME TypeOK, NEW g \in Goroutine, Step(g), NEW h \in Goroutine, h # g
    PROVE  Kept(h)
  <1>a. pc \in [Goroutine -> PC] /\ job \in [Goroutine -> Job] /\ result \in [Goroutine -> Seq(Result)]
    BY DEF TypeOK
  <1>ret. ASSUME NEW n, NEW err, Return(g, n, err) PROVE Kept(h)
    BY <1>a, <1>ret DEF Return, Goto, Kept
  <1>1. CASE LockWriter(g)
    BY <1>1, <1>a DEF LockWriter, Goto, Kept
  <1>2. CASE SendData(g)
    BY <1>2, <1>a DEF SendData, Goto, Kept
  <1>3. CASE LockData(g)
    BY <1>3, <1>a, <1>ret DEF LockData, Goto, Kept
  <1>4. CASE WriteChunk(g)
    BY <1>4, <1>a, <1>ret DEF WriteChunk, AfterChunk, ReturnData, Goto, Kept
  <1>5. CASE FlushData(g)
    BY <1>5, <1>ret DEF FlushData, ReturnData
  <1>6. CASE SendControl(g)
    BY <1>6, <1>a DEF SendControl, Goto, Kept
  <1>7. CASE WriteControl(g)
    BY <1>7, <1>ret DEF WriteControl
  <1>8. CASE RenewWriter(g)
    BY <1>8, <1>a DEF RenewWriter, Goto, Kept
  <1>9. CASE Renew(g)
    BY <1>9, <1>ret DEF Renew
  <1>10. CASE StartLongDataTransmission(g)
    BY <1>10, <1>a, <1>ret DEF StartLongDataTransmission, Goto, Kept
  <1>11. CASE ClaimTransmission(g)
    BY <1>11, <1>a DEF ClaimTransmission, Goto, Kept
  <1>12. CASE TransmitData(g)
    BY <1>12, <1>a DEF TransmitData, Goto, Kept
  <1>13. CASE WriteFragment(g)
    BY <1>13, <1>a DEF WriteFragment, Goto, Kept
  <1>14. CASE EndLongDataTransmission(g)
    BY <1>14, <1>a DEF EndLongDataTransmission, Goto, Kept
  <1>15. CASE WriteEnd(g)
    BY <1>15, <1>a DEF WriteEnd, Goto, Kept
  <1>16. CASE ReleaseLongDataTransmission(g)
    BY <1>16, <1>ret DEF ReleaseLongDataTransmission, ReturnData
  <1>17. CASE Trigger(g)
    BY <1>17, <1>a DEF Trigger, Goto, Kept
  <1>18. CASE Sleep(g)
    BY <1>18, <1>a DEF Sleep, Goto, Kept
  <1> QED
    BY <1>1, <1>2, <1>3, <1>4, <1>5, <1>6, <1>7, <1>8, <1>9, <1>10, <1>11, <1>12,
       <1>13, <1>14, <1>15, <1>16, <1>17, <1>18 DEF Step

\* The frame in hand of the goroutine that moves is enough: the connection's
\* opcode and flag change only when no other transmission can be looking at them.
LEMMA HandMove ==
    ASSUME LockDiscipline, HandInv, NEW g \in Goroutine, InHand(g)',
           \A h \in Goroutine : h # g => Kept(h),
           \/ UNCHANGED stream /\ (pc[g] \in InStream => pc'[g] \in InStream)
           \/ /\ dataFramesWriteLocker \in {g, NoOne}
              /\ pc'[g] \in InStream \/ ~currentTransmitDataMsgOpened'
    PROVE  HandInv'
  <1>1. ASSUME NEW h \in Goroutine, h # g PROVE InHand(h)'
    <2>1. Kept(h) /\ InHand(h)
      BY <1>1 DEF HandInv
    <2>2. CASE UNCHANGED stream
      BY <2>1, <2>2 DEF Kept, InHand, InOrder, stream
    <2>3. CASE dataFramesWriteLocker \in {g, NoOne}
      <3>1. pc[h] \notin HoldsData
        BY <1>1, <2>3, ConnWriteAssumption DEF LockDiscipline
      <3> QED
        BY <2>1, <3>1 DEF Kept, InHand, InOrder, HoldsData, InStream
    <2> QED
      BY <2>2, <2>3
  <1>2. ASSUME \A h \in Goroutine : pc'[h] \notin InStream PROVE ~currentTransmitDataMsgOpened'
    <2>1. CASE UNCHANGED stream /\ (pc[g] \in InStream => pc'[g] \in InStream)
      <3>1. \A h \in Goroutine : pc[h] \notin InStream
        BY <1>2, <2>1 DEF Kept
      <3> QED
        BY <2>1, <3>1 DEF HandInv, stream
    <2> QED
      BY <1>2, <2>1
  <1> QED
    BY <1>1, <1>2 DEF HandInv

LEMMA HandStep ==
    ASSUME TypeOK, LockDiscipline, DataInHand, HandInv, NEW g \in Goroutine, Step(g)
    PROVE  HandInv'
  <1>a. /\ pc \in [Goroutine -> PC] /\ job \in [Goroutine -> Job] /\ InHand(g)
        /\ job[g] \in Job /\ job[g].seq \in Nat
        /\ currentTransmitDataMsgOpcode \in Opcode /\ currentTransmitDataMsgOpened \in BOOLEAN
    BY DEF TypeOK, HandInv, Job
  <1>held. pc[g] \in HoldsData => dataFramesWriteLocker = g
    BY DEF LockDiscipline
  <1>kept. \A h \in Goroutine : h # g => Kept(h)
    BY OthersKept
  <1>codes. /\ OpcodeContinuation = 0 /\ OpcodeText = 1 /\ OpcodeBinary = 2
            /\ OpcodeClose = 8 /\ OpcodePing = 9 /\ OpcodePong = 10
    BY DEF OpcodeContinuation, OpcodeText, OpcodeBinary, OpcodeClose, OpcodePing, OpcodePong
  \* A step outside the streams ends where the frame in hand is as it should be.
  <1>out. ASSUME UNCHANGED stream, InHand(g)', pc[g] \notin InStream PROVE HandInv'
    BY <1>out, <1>kept, HandMove
  <1>ret. ASSUME NEW n, NEW err, Return(g, n, err) PROVE InHand(g)' /\ pc'[g] \notin InStream
    <2>1. pc'[g] \in {"idle", "sleep", "stopped"}
      BY <1>a, <1>ret DEF Return, Goto
    <2> QED
      BY <2>1 DEF InHand, InStream
  <1>1. CASE LockWriter(g)
    <2>1. /\ pc[g] \in DOMAIN Body /\ pc'[g] = Body[pc[g]] /\ job'[g] = job[g] /\ UNCHANGED stream
      BY <1>1, <1>a DEF LockWriter, Goto
    <2>2. InHand(g)' /\ (pc[g] \in InStream => pc'[g] \in InStream)
      BY <1>a, <2>1 DEF Body, InHand, InOrder, stream, InStream
    <2> QED
      BY <1>kept, <2>1, <2>2, HandMove
  <1>2. CASE SendData(g)
    <2>1. /\ pc'[g] = "dataLock" /\ pc[g] = "idle" /\ UNCHANGED stream
          /\ \E op \in MsgOpcode, n \in 1..MaxFrames : job'[g] = NewJob(op, TRUE, n)
      BY <1>2, <1>a DEF SendData, CanCall, Goto
    <2>2. job'[g].seq = 0 /\ job'[g].op # OpcodeContinuation
      <3>1. PICK op \in MsgOpcode, n \in 1..MaxFrames : job'[g] = NewJob(op, TRUE, n)
        BY <2>1
      <3> QED
        BY <3>1, ConnWriteAssumption DEF NewJob
    <2>3. InHand(g)' /\ pc[g] \notin InStream
      BY <2>1, <2>2 DEF InHand, InStream
    <2> QED
      BY <1>out, <2>1, <2>3
  <1>3. CASE LockData(g)
    <2>1. pc[g] = "dataLock" /\ pc[g] \notin InStream /\ UNCHANGED stream
      BY <1>3 DEF LockData, InStream
    <2>2. CASE IsDataOpcode(job[g].op)
      <3>1. pc'[g] = "wantChunk" /\ job'[g] = job[g]
        BY <1>3, <1>a, <2>2 DEF LockData, Goto
      <3>2. InHand(g)'
        BY <1>a, <1>codes, <2>1, <2>2, <3>1 DEF InHand, InOrder, Opening, IsDataOpcode
      <3> QED
        BY <1>out, <2>1, <3>2
    <2>3. CASE ~IsDataOpcode(job[g].op)
      BY <1>3, <1>out, <1>ret, <2>1, <2>3 DEF LockData
    <2> QED
      BY <2>2, <2>3
  <1>4. CASE WriteChunk(g)
    <2>1. pc[g] = "chunk" /\ pc[g] \notin InStream /\ UNCHANGED stream
      BY <1>4 DEF WriteChunk, AfterChunk, InStream
    <2>2. CASE \E err \in Outcome : ReturnData(g, job[g].seq, err)
      BY <1>out, <1>ret, <2>1, <2>2 DEF ReturnData
    <2>3. CASE /\ job' = [job EXCEPT ![g].op = OpcodeContinuation,
                                     ![g].seq = @ + 1, ![g].left = @ - 1]
               /\ Goto(g, IF job[g].left = 1 THEN "wantFlush" ELSE "wantChunk")
      <3>1. job'[g].op = OpcodeContinuation /\ job'[g].seq = job[g].seq + 1
        BY <1>a, <2>3 DEF Job
      <3>2. pc'[g] \in {"wantFlush", "wantChunk"}
        BY <1>a, <2>3 DEF Goto
      <3>3. InHand(g)'
        BY <1>a, <3>1, <3>2 DEF InHand, InOrder
      <3> QED
        BY <1>out, <2>1, <3>3
    <2> QED
      BY <1>4, <2>2, <2>3 DEF WriteChunk, AfterChunk
  <1>5. CASE FlushData(g)
    BY <1>5, <1>out, <1>ret DEF FlushData, ReturnData, InStream
  <1>6. CASE SendControl(g)
    <2>1. /\ pc'[g] = "wantControl" /\ pc[g] = "idle" /\ UNCHANGED stream
          /\ \E op \in ControlOp, fits \in BOOLEAN : job'[g] = NewJob(op, fits, 1)
      BY <1>6, <1>a DEF SendControl, CanCall, Goto
    <2>2. job'[g].seq = 0 /\ IsControlOpcode(job'[g].op)
      BY <2>1, ConnWriteAssumption DEF NewJob, IsControlOpcode
    <2>3. InHand(g)' /\ pc[g] \notin InStream
      BY <2>1, <2>2 DEF InHand, InStream
    <2> QED
      BY <1>out, <2>1, <2>3
  <1>7. CASE WriteControl(g)
    BY <1>7, <1>out, <1>ret DEF WriteControl, InStream
  <1>8. CASE RenewWriter(g)
    <2>1. pc'[g] = "wantRenew" /\ pc[g] = "idle" /\ UNCHANGED stream
      BY <1>8, <1>a DEF RenewWriter, CanCall, Goto
    <2>2. InHand(g)' /\ pc[g] \notin InStream
      BY <2>1 DEF InHand, InStream
    <2> QED
      BY <1>out, <2>1, <2>2
  <1>9. CASE Renew(g)
    BY <1>9, <1>out, <1>ret DEF Renew, InStream
  <1>10. CASE StartLongDataTransmission(g)
    <2>1. pc[g] \notin InStream /\ UNCHANGED stream
      BY <1>10 DEF StartLongDataTransmission, CanCall, InStream
    <2>2. CASE Return(g, 0, "ErrCloseAlreadySent")
      BY <1>out, <1>ret, <2>1, <2>2
    <2>3. CASE /\ \E op \in {o \in MsgOpcode : IsDataOpcode(o)} :
                     job' = [job EXCEPT ![g] = NewJob(op, TRUE, MaxFrames)]
               /\ Goto(g, "startLock")
      <3>1. /\ pc'[g] = "startLock"
            /\ \E op \in {o \in MsgOpcode : IsDataOpcode(o)} : job'[g] = NewJob(op, TRUE, MaxFrames)
        BY <1>a, <2>3 DEF Goto
      <3>2. job'[g].seq = 0 /\ Opening(job'[g].op)
        <4>1. PICK op \in MsgOpcode : IsDataOpcode(op) /\ job'[g] = NewJob(op, TRUE, MaxFrames)
          BY <3>1
        <4>2. Opening(op)
          BY <4>1, ConnWriteAssumption DEF Opening, IsDataOpcode
        <4> QED
          BY <4>1, <4>2 DEF NewJob
      <3>3. InHand(g)'
        BY <3>1, <3>2 DEF InHand
      <3> QED
        BY <1>out, <2>1, <3>3
    <2> QED
      BY <1>10, <2>2, <2>3 DEF StartLongDataTransmission
  <1>11. CASE ClaimTransmission(g)
    <2>1. /\ pc[g] = "startLock" /\ dataFramesWriteLocker = NoOne
          /\ pc'[g] = "stream" /\ job'[g] = job[g]
          /\ currentTransmitDataMsgOpcode' = job[g].op
          /\ UNCHANGED currentTransmitDataMsgOpened
      BY <1>11, <1>a DEF ClaimTransmission, Goto
    <2>2. ~currentTransmitDataMsgOpened
      <3>1. \A h \in Goroutine : pc[h] \notin HoldsData
        BY <2>1, ConnWriteAssumption DEF LockDiscipline
      <3> QED
        BY <3>1 DEF HandInv, HoldsData
    <2>3. InHand(g)' /\ pc'[g] \in InStream
      BY <1>a, <2>1, <2>2 DEF InHand, InStream
    <2> QED
      BY <1>kept, <2>1, <2>3, HandMove
  <1>12. CASE TransmitData(g)
    <2>1. /\ pc[g] = "stream" /\ pc'[g] = "wantFragment" /\ UNCHANGED stream
          /\ job'[g].op = NextOpcode /\ job'[g].seq = job[g].seq
      BY <1>12, <1>a DEF TransmitData, Goto, Job
    <2>2. InHand(g)' /\ pc'[g] \in InStream
      BY <1>a, <2>1 DEF InHand, InOrder, NextOpcode, stream, InStream
    <2> QED
      BY <1>kept, <2>1, <2>2, HandMove
  <1>13. CASE WriteFragment(g)
    <2>1. PICK err \in Outcome :
            /\ currentTransmitDataMsgOpened' = OpenedAfter(err)
            /\ job' = [job EXCEPT ![g].seq = IF err = "nil" THEN @ + 1 ELSE @]
      BY <1>13 DEF WriteFragment
    <2>2. /\ pc[g] = "fragment" /\ pc'[g] = "stream" /\ UNCHANGED currentTransmitDataMsgOpcode
      BY <1>13, <1>a DEF WriteFragment, Goto
    <2>3. job'[g].seq = IF err = "nil" THEN job[g].seq + 1 ELSE job[g].seq
      BY <1>a, <2>1 DEF Job
    <2>4. currentTransmitDataMsgOpened' <=> job'[g].seq > 0
      <3>1. CASE err = "nil"
        <4>1. currentTransmitDataMsgOpened' = TRUE
          BY <2>1, <3>1 DEF OpenedAfter
        <4>2. job'[g].seq > 0
          BY <1>a, <2>3, <3>1
        <4> QED
          BY <4>1, <4>2
      <3>2. CASE err # "nil"
        <4>1. currentTransmitDataMsgOpened' = currentTransmitDataMsgOpened
          BY <1>a, <2>1, <3>2 DEF OpenedAfter
        <4>2. currentTransmitDataMsgOpened <=> job[g].seq > 0
          BY <1>a, <2>2 DEF InHand
        <4>3. job'[g].seq = job[g].seq
          BY <2>3, <3>2
        <4> QED
          BY <4>1, <4>2, <4>3
      <3> QED
        BY <3>1, <3>2
    <2>5. InHand(g)' /\ pc'[g] \in InStream /\ pc[g] \in HoldsData
      BY <1>a, <2>2, <2>4 DEF InHand, InStream, HoldsData
    <2> QED
      BY <1>held, <1>kept, <2>5, HandMove
  <1>14. CASE EndLongDataTransmission(g)
    <2>1. /\ pc[g] = "stream" /\ pc'[g] = "wantEnd" /\ UNCHANGED stream
          /\ job'[g].op = NextOpcode /\ job'[g].seq = job[g].seq
      BY <1>14, <1>a DEF EndLongDataTransmission, Goto, Job
    <2>2. InHand(g)' /\ pc'[g] \in InStream
      BY <1>a, <2>1 DEF InHand, InOrder, NextOpcode, stream, InStream
    <2> QED
      BY <1>kept, <2>1, <2>2, HandMove
  <1>15. CASE WriteEnd(g)
    <2>1. pc'[g] = "ended" /\ UNCHANGED stream
      BY <1>15, <1>a DEF WriteEnd, Goto
    <2>2. InHand(g)' /\ pc'[g] \in InStream
      BY <2>1 DEF InHand, InStream
    <2> QED
      BY <1>kept, <2>1, <2>2, HandMove
  <1>16. CASE ReleaseLongDataTransmission(g)
    <2>1. InHand(g)' /\ ~currentTransmitDataMsgOpened' /\ pc[g] \in HoldsData
      BY <1>16, <1>ret DEF ReleaseLongDataTransmission, ReturnData, ResetTransmission, HoldsData, InStream
    <2> QED
      BY <1>held, <1>kept, <2>1, HandMove
  <1>17. CASE Trigger(g)
    <2>1. pc[g] = "tick" /\ pc[g] \notin InStream /\ UNCHANGED stream
      BY <1>17 DEF Trigger, InStream
    <2>2. \/ pc'[g] = "stopped"
          \/ pc'[g] = "wantControl" /\ job'[g] = NewJob(OpcodePing, TRUE, 1)
      BY <1>17, <1>a DEF Trigger, Goto
    <2>3. InHand(g)'
      <3>1. CASE pc'[g] = "stopped"
        BY <3>1 DEF InHand
      <3>2. CASE pc'[g] = "wantControl" /\ job'[g] = NewJob(OpcodePing, TRUE, 1)
        <4>1. job'[g].seq = 0 /\ IsControlOpcode(job'[g].op)
          BY <3>2 DEF NewJob, IsControlOpcode
        <4> QED
          BY <3>2, <4>1 DEF InHand
      <3> QED
        BY <2>2, <3>1, <3>2
    <2> QED
      BY <1>out, <2>1, <2>3
  <1>18. CASE Sleep(g)
    <2>1. pc[g] = "sleep" /\ pc'[g] = "tick" /\ UNCHANGED stream
      BY <1>18, <1>a DEF Sleep, Goto
    <2>2. InHand(g)' /\ pc[g] \notin InStream
      BY <2>1 DEF InHand, InStream
    <2> QED
      BY <1>out, <2>1, <2>2
  <1> QED
    BY <1>1, <1>2, <1>3, <1>4, <1>5, <1>6, <1>7, <1>8, <1>9, <1>10, <1>11, <1>12,
       <1>13, <1>14, <1>15, <1>16, <1>17, <1>18 DEF Step

LEMMA HandInvariant == Spec => []HandInv
  <1>1. Init => HandInv
    BY DEF Init, HandInv, InHand, InStream
  <1>2. TypeOK /\ LockDiscipline /\ DataInHand /\ HandInv /\ [Next]_vars => HandInv'
    <2> SUFFICES ASSUME TypeOK, LockDiscipline, DataInHand, HandInv, [Next]_vars PROVE HandInv'
      OBVIOUS
    <2>1. CASE UNCHANGED vars
      BY <2>1 DEF vars, stream, HandInv, InHand, InOrder
    <2>2. CASE \E g \in Goroutine : Step(g)
      BY <2>2, HandStep
    <2> QED
      BY <2>1, <2>2 DEF Next, Finished
  <1> QED
    BY <1>1, <1>2, TypeCorrect, LocksHeld, CloseInvariant, PTL DEF Spec

-----------------------------------------------------------------------------
(* What the writer was given of each call.                                   *)

Current(g) == Len(result[g]) + 1

Of(i, g, k) == out[i].from = g /\ out[i].call = k

\* Of its call k the writer has g's frames 1 to n, each once.
Whole(g, k, n) ==
    /\ \A i \in DOMAIN out : Of(i, g, k) => out[i].seq <= n
    /\ \A m \in 1..n : \E i \in DOMAIN out : Of(i, g, k) /\ out[i].seq = m
    /\ \A i, j \in DOMAIN out : Of(i, g, k) /\ Of(j, g, k) /\ out[i].seq = out[j].seq => i = j

\* The n-th is the message's last.
Ends(g, k, n) == \E i \in DOMAIN out : Of(i, g, k) /\ out[i].seq = n /\ out[i].fin

OnWire(g, k) == \A i \in DOMAIN out : Of(i, g, k) => i <= sent

\* The n-th is the last data frame of all, and leaves its message unfinished.
LastData(g, k, n) ==
    \E i \in DOMAIN out :
        /\ Of(i, g, k) /\ out[i].seq = n /\ IsDataOpcode(out[i].op) /\ ~out[i].fin
        /\ \A j \in DOMAIN out : IsDataOpcode(out[j].op) => j <= i

\* A frame belongs to a call that has returned, or to the message in progress.
Labels ==
    \A i \in DOMAIN out :
        \/ out[i].call <= Len(result[out[i].from])
        \/ /\ out[i].call = Current(out[i].from)
           /\ pc[out[i].from] \in HoldsData
           /\ IsDataOpcode(out[i].op)

Writing == HoldsData \ {"wantFlush", "flush", "ended"}

\* As far as a call has come its frames are there, unless the writer broke.
Underway(g) ==
    /\ pc[g] \in HoldsData /\ ~werr => Whole(g, Current(g), job[g].seq)
    /\ pc[g] \in Writing /\ ~werr /\ job[g].seq > 0 => LastData(g, Current(g), job[g].seq)
    /\ pc[g] \in {"wantFlush", "flush"} => Ends(g, Current(g), job[g].seq)
    /\ pc[g] = "ended" /\ job[g].err = "nil" =>
          /\ Whole(g, Current(g), job[g].seq)
          /\ Ends(g, Current(g), job[g].seq)
          /\ OnWire(g, Current(g))

\* A call that returned nil.
Complete(g, k, n) == Whole(g, k, n) /\ OnWire(g, k) /\ (n > 0 => Ends(g, k, n))

FrameInv ==
    /\ Labels
    /\ \A g \in Goroutine : Underway(g)
    /\ \A g \in Goroutine : \A k \in 1..Len(result[g]) :
          result[g][k].err = "nil" => Complete(g, k, result[g][k].frames)


\* One frame more: what was there stays where it was.
LEMMA OneMore ==
    ASSUME TypeOK, NEW f \in Frame, out' = Append(out, f)
    PROVE  /\ Len(out) \in Nat /\ DOMAIN out = 1..Len(out)
           /\ Len(out') = Len(out) + 1 /\ DOMAIN out' = 1..(Len(out) + 1)
           /\ out'[Len(out) + 1] = f
           /\ \A i \in DOMAIN out : out'[i] = out[i]
  BY DEF TypeOK

\* A step hands over nothing, or one frame of g's call k.
Hands(g, k) == \/ out' = out
               \/ \E f \in Frame : out' = Append(out, f) /\ f.from = g /\ f.call = k

\* What holds of one call is untouched by the frame of another.
LEMMA OtherCall ==
    ASSUME TypeOK, NEW g, NEW k, Hands(g, k), NEW h, NEW m, h # g \/ m # k
    PROVE  /\ \A i \in DOMAIN out' : Of(i, h, m)' => i \in DOMAIN out /\ Of(i, h, m) /\ out'[i] = out[i]
           /\ \A i \in DOMAIN out : i \in DOMAIN out' /\ out'[i] = out[i]
  <1>1. CASE out' = out
    BY <1>1 DEF Of
  <1>2. CASE out' # out
    <2>1. PICK f \in Frame : out' = Append(out, f) /\ f.from = g /\ f.call = k
      BY <1>2 DEF Hands
    <2>2. /\ Len(out) \in Nat /\ DOMAIN out = 1..Len(out) /\ DOMAIN out' = 1..(Len(out) + 1)
          /\ out'[Len(out) + 1] = f
          /\ \A i \in DOMAIN out : out'[i] = out[i]
      BY <2>1, OneMore
    <2>3. \A i \in DOMAIN out' : i \in DOMAIN out \/ i = Len(out) + 1
      BY <2>2
    <2>4. \A i \in DOMAIN out : i \in DOMAIN out'
      BY <2>2
    <2> QED
      BY <2>1, <2>2, <2>3, <2>4 DEF Of
  <1> QED
    BY <1>1, <1>2

LEMMA OtherCallKept ==
    ASSUME TypeOK, NEW g, NEW k, Hands(g, k), NEW h, NEW m, h # g \/ m # k, NEW n,
           sent' \in Nat, sent <= sent'
    PROVE  /\ Whole(h, m, n) => Whole(h, m, n)'
           /\ Ends(h, m, n) => Ends(h, m, n)'
           /\ OnWire(h, m) => OnWire(h, m)'
  <1>1. /\ \A i \in DOMAIN out' : Of(i, h, m)' => i \in DOMAIN out /\ Of(i, h, m) /\ out'[i] = out[i]
        /\ \A i \in DOMAIN out : i \in DOMAIN out' /\ out'[i] = out[i]
    BY OtherCall
  <1>2. \A i \in DOMAIN out : Of(i, h, m) => Of(i, h, m)'
    BY <1>1 DEF Of
  <1>3. sent \in Nat /\ DOMAIN out \subseteq Nat
    BY DEF TypeOK
  <1> QED
    BY <1>1, <1>2, <1>3 DEF Whole, Ends, OnWire

\* The next frame of the call.
LEMMA WholeGrows ==
    ASSUME TypeOK, NEW g, NEW k, NEW n \in Nat, Whole(g, k, n),
           NEW f \in Frame, f.from = g, f.call = k, f.seq = n + 1, out' = Append(out, f)
    PROVE  /\ Whole(g, k, n + 1)'
           /\ f.fin => Ends(g, k, n + 1)'
           /\ IsDataOpcode(f.op) /\ ~f.fin => LastData(g, k, n + 1)'
  <1>l. PICK l : l = Len(out) + 1
    OBVIOUS
  <1>1. /\ Len(out) \in Nat /\ DOMAIN out = 1..Len(out) /\ DOMAIN out' = 1..l
        /\ out'[l] = f /\ l \in DOMAIN out'
        /\ \A i \in DOMAIN out : out'[i] = out[i]
    <2>1. /\ Len(out) \in Nat /\ DOMAIN out = 1..Len(out) /\ DOMAIN out' = 1..(Len(out) + 1)
          /\ out'[Len(out) + 1] = f
          /\ \A i \in DOMAIN out : out'[i] = out[i]
      BY OneMore
    <2> QED
      BY <1>l, <2>1
  <1>2. \A i \in DOMAIN out' : i \in DOMAIN out \/ i = l
    BY <1>1, <1>l
  <1>3. Of(l, g, k)' /\ \A i \in DOMAIN out : Of(i, g, k)' <=> Of(i, g, k)
    BY <1>1 DEF Of
  <1>4. \A i \in DOMAIN out : out[i].seq \in Nat /\ (Of(i, g, k) => out[i].seq <= n)
    <2>1. \A i \in DOMAIN out : out[i] \in Frame
      BY DEF TypeOK
    <2> QED
      BY <2>1 DEF Frame, Whole
  <1>5. \A i \in DOMAIN out' : Of(i, g, k)' => out'[i].seq <= n + 1
    BY <1>1, <1>2, <1>3, <1>4
  <1>6. \A m \in 1..(n + 1) : \E i \in DOMAIN out' : Of(i, g, k)' /\ out'[i].seq = m
    <2> TAKE m \in 1..(n + 1)
    <2>1. CASE m = n + 1
      BY <1>1, <1>3, <2>1
    <2>2. CASE m \in 1..n
      <3>1. PICK i \in DOMAIN out : Of(i, g, k) /\ out[i].seq = m
        BY <2>2 DEF Whole
      <3>2. i \in DOMAIN out'
        BY <1>1, <1>l
      <3> QED
        BY <1>1, <1>3, <3>1, <3>2
    <2> QED
      BY <2>1, <2>2
  <1>7. \A i, j \in DOMAIN out' : Of(i, g, k)' /\ Of(j, g, k)' /\ out'[i].seq = out'[j].seq => i = j
    <2> TAKE i, j \in DOMAIN out'
    <2> HAVE Of(i, g, k)' /\ Of(j, g, k)' /\ out'[i].seq = out'[j].seq
    <2>1. ASSUME NEW q \in DOMAIN out, Of(q, g, k)' PROVE out'[q].seq # n + 1
      BY <1>1, <1>3, <1>4, <2>1
    <2>2. CASE i \in DOMAIN out /\ j \in DOMAIN out
      BY <1>1, <1>3, <2>2 DEF Whole
    <2>3. CASE i = l \/ j = l
      BY <1>1, <1>2, <2>1, <2>3
    <2> QED
      BY <1>2, <2>2, <2>3
  <1>8. f.fin => Ends(g, k, n + 1)'
    BY <1>1, <1>3 DEF Ends
  <1>9. IsDataOpcode(f.op) /\ ~f.fin => LastData(g, k, n + 1)'
    BY <1>1, <1>2, <1>3, <1>l DEF LastData
  <1> QED
    BY <1>5, <1>6, <1>7, <1>8, <1>9 DEF Whole

LEMMA LastDataKept ==
    ASSUME TypeOK, NEW g, NEW k, NEW n, LastData(g, k, n),
           \/ out' = out
           \/ \E f \in Frame : out' = Append(out, f) /\ ~IsDataOpcode(f.op)
    PROVE  LastData(g, k, n)'
  <1>1. CASE out' = out
    BY <1>1 DEF LastData, Of
  <1>2. CASE out' # out
    <2>1. PICK f \in Frame : out' = Append(out, f) /\ ~IsDataOpcode(f.op)
      BY <1>2
    <2>2. /\ Len(out) \in Nat /\ DOMAIN out = 1..Len(out) /\ DOMAIN out' = 1..(Len(out) + 1)
          /\ out'[Len(out) + 1] = f
          /\ \A i \in DOMAIN out : out'[i] = out[i]
      BY <2>1, OneMore
    <2>3. \A i \in DOMAIN out' : i \in DOMAIN out \/ i = Len(out) + 1
      BY <2>2
    <2>4. \A i \in DOMAIN out : i \in DOMAIN out'
      BY <2>2
    <2>5. PICK i \in DOMAIN out :
            /\ Of(i, g, k) /\ out[i].seq = n /\ IsDataOpcode(out[i].op) /\ ~out[i].fin
            /\ \A j \in DOMAIN out : IsDataOpcode(out[j].op) => j <= i
      BY DEF LastData
    <2>6. i \in DOMAIN out' /\ out'[i] = out[i] /\ Of(i, g, k)'
      BY <2>2, <2>4, <2>5 DEF Of
    <2>7. \A j \in DOMAIN out' : IsDataOpcode(out'[j].op) => j <= i
      BY <2>1, <2>2, <2>3, <2>5
    <2> QED
      BY <2>5, <2>6, <2>7 DEF LastData
  <1> QED
    BY <1>1, <1>2

\* Frames go to a writer that works, and data frames under the message lock.
Guarded(g) ==
    out' # out => ~werr /\ (IsDataOpcode(out'[Len(out')].op) => pc[g] \in HoldsData)

\* The call of g goes on, or it returns; what returns nil is complete.
GoesOn(g) ==
    /\ result'[g] = result[g]
    /\ pc[g] \in HoldsData => pc'[g] \in HoldsData
    /\ out' # out => pc'[g] \in HoldsData /\ IsDataOpcode(out'[Len(out')].op)

Returns(g, k) ==
    \E n \in Nat : \E err :
        /\ result'[g] = Append(result[g], [frames |-> n, err |-> err])
        /\ err = "nil" => Complete(g, k, n)'

\* A step of g keeps FrameInv if what it does to g's own call does.
LEMMA FrameMove ==
    ASSUME TypeOK, TypeOK', LockDiscipline, FrameInv, NEW g \in Goroutine,
           \A h \in Goroutine : h # g => Kept(h),
           NEW k, k = Current(g), Hands(g, k),
           Guarded(g), GoesOn(g) \/ Returns(g, k),
           sent <= sent', werr => werr',
           Underway(g)'
    PROVE  FrameInv'
  <1>a. /\ sent \in Nat /\ sent' \in Nat
        /\ \A h \in Goroutine : result[h] \in Seq(Result) /\ Len(result[h]) \in Nat
        /\ \A i \in DOMAIN out : out[i] \in Frame
    BY DEF TypeOK
  <1>b. k \in Nat \ {0} /\ k = Len(result[g]) + 1
    BY <1>a DEF Current
  <1>go. ASSUME GoesOn(g)
         PROVE  Len(result'[g]) = k - 1 /\ \A m \in 1..(k - 1) : result'[g][m] = result[g][m]
    BY <1>a, <1>b, <1>go DEF GoesOn
  <1>re. ASSUME Returns(g, k)
         PROVE  Len(result'[g]) = k /\ \A m \in 1..(k - 1) : result'[g][m] = result[g][m]
    <2>1. PICK r : result'[g] = Append(result[g], r)
      BY <1>re DEF Returns
    <2>2. result'[g] \in Seq(Result)
      BY DEF TypeOK
    <2> QED
      BY <1>a, <1>b, <2>1, <2>2
  <1>res. /\ Len(result'[g]) \in {k - 1, k}
          /\ GoesOn(g) => Len(result'[g]) = k - 1
          /\ Returns(g, k) => Len(result'[g]) = k
          /\ \A m \in 1..(k - 1) : result'[g][m] = result[g][m]
    BY <1>go, <1>re
  <1>oth. ASSUME NEW h \in Goroutine, NEW m, h # g \/ m # k, NEW n
          PROVE  /\ Whole(h, m, n) => Whole(h, m, n)'
                 /\ Ends(h, m, n) => Ends(h, m, n)'
                 /\ OnWire(h, m) => OnWire(h, m)'
    <2>1. Hands(g, k) /\ sent' \in Nat /\ sent <= sent'
      BY <1>a
    <2> QED
      BY <1>oth, <2>1, OtherCallKept
  <1>1. Labels'
    <2> SUFFICES ASSUME NEW i \in DOMAIN out'
                 PROVE  \/ out'[i].call <= Len(result'[out'[i].from])
                        \/ /\ out'[i].call = Len(result'[out'[i].from]) + 1
                           /\ pc'[out'[i].from] \in HoldsData
                           /\ IsDataOpcode(out'[i].op)
      BY DEF Labels, Current
    <2>1. CASE i \in DOMAIN out /\ out'[i] = out[i]
      <3>1. PICK h \in Goroutine : h = out[i].from
        BY <1>a, <2>1 DEF Frame
      <3>2. out[i].call \in Nat
        BY <1>a, <2>1 DEF Frame
      <3>3. \/ out[i].call <= Len(result[h])
            \/ out[i].call = Len(result[h]) + 1 /\ pc[h] \in HoldsData /\ IsDataOpcode(out[i].op)
        BY <2>1, <3>1 DEF FrameInv, Labels, Current
      <3>4. CASE h # g
        BY <2>1, <3>1, <3>3, <3>4 DEF Kept
      <3>5. CASE h = g
        <4>1. CASE GoesOn(g)
          BY <1>b, <1>res, <2>1, <3>1, <3>3, <3>5, <4>1 DEF GoesOn
        <4>2. CASE Returns(g, k)
          BY <1>b, <1>res, <2>1, <3>1, <3>2, <3>3, <3>5, <4>2
        <4> QED
          BY <4>1, <4>2
      <3> QED
        BY <3>4, <3>5
    <2>2. CASE out' # out /\ i = Len(out')
      <3>1. PICK f \in Frame : out' = Append(out, f) /\ f.from = g /\ f.call = k
        BY <2>2 DEF Hands
      <3>2. out'[i] = f
        BY <2>2, <3>1, OneMore
      <3> QED
        <4>1. CASE GoesOn(g)
          BY <1>b, <1>res, <2>2, <3>1, <3>2, <4>1 DEF GoesOn
        <4>2. CASE Returns(g, k)
          BY <1>b, <1>res, <3>1, <3>2, <4>2
        <4> QED
          BY <4>1, <4>2
    <2>3. (i \in DOMAIN out /\ out'[i] = out[i]) \/ (out' # out /\ i = Len(out'))
      <3>1. CASE out' # out
        <4>1. PICK f \in Frame : out' = Append(out, f)
          BY <3>1 DEF Hands
        <4> QED
          BY <3>1, <4>1, OneMore
      <3> QED
        BY <3>1
    <2> QED
      BY <2>1, <2>2, <2>3
  <1>2. ASSUME NEW h \in Goroutine, h # g PROVE Underway(h)'
    <2>1. Kept(h) /\ Underway(h) /\ Current(h)' = Current(h)
      BY <1>2 DEF FrameInv, Kept, Current
    <2>2. PICK m, n : m = Current(h) /\ n = job[h].seq
      OBVIOUS
    <2>3. pc[h] \in Writing => (LastData(h, m, n) => LastData(h, m, n)')
      <3>1. SUFFICES ASSUME pc[h] \in Writing, LastData(h, m, n) PROVE LastData(h, m, n)'
        OBVIOUS
      <3>2. pc[g] \notin HoldsData
        BY <1>2, <3>1 DEF LockDiscipline, Writing
      <3>3. out' = out \/ \E f \in Frame : out' = Append(out, f) /\ ~IsDataOpcode(f.op)
        <4>1. CASE out' # out
          <5>1. PICK f \in Frame : out' = Append(out, f)
            BY <4>1 DEF Hands
          <5>2. out'[Len(out')] = f
            BY <5>1, OneMore
          <5> QED
            BY <3>2, <4>1, <5>1, <5>2 DEF Guarded
        <4> QED
          BY <4>1
      <3> QED
        BY <3>1, <3>3, LastDataKept
    <2>4. /\ Whole(h, m, n) => Whole(h, m, n)'
          /\ Ends(h, m, n) => Ends(h, m, n)'
          /\ OnWire(h, m) => OnWire(h, m)'
      BY <1>2, <1>oth
    <2>5. m = Current(h)' /\ n = job'[h].seq
      BY <2>1, <2>2 DEF Kept
    <2>6. /\ pc'[h] \in HoldsData /\ ~werr' => Whole(h, m, n)'
          /\ pc'[h] \in Writing /\ ~werr' /\ n > 0 => LastData(h, m, n)'
          /\ pc'[h] \in {"wantFlush", "flush"} => Ends(h, m, n)'
          /\ pc'[h] = "ended" /\ job'[h].err = "nil" =>
                Whole(h, m, n)' /\ Ends(h, m, n)' /\ OnWire(h, m)'
      BY <2>1, <2>2, <2>3, <2>4 DEF Underway, Kept
    <2> QED
      BY <2>5, <2>6 DEF Underway
  <1>3. ASSUME NEW h \in Goroutine, NEW m \in 1..Len(result'[h]), result'[h][m].err = "nil"
        PROVE  Complete(h, m, result[h][m].frames)'
    <2>1. CASE m \in 1..Len(result[h]) /\ result'[h][m] = result[h][m] /\ (h # g \/ m # k)
      <3>1. PICK n : n = result[h][m].frames
        OBVIOUS
      <3>2. Complete(h, m, n)
        BY <1>3, <2>1, <3>1 DEF FrameInv
      <3>3. Complete(h, m, n)'
        BY <1>oth, <2>1, <3>2 DEF Complete
      <3> QED
        BY <2>1, <3>1, <3>3
    <2>2. CASE h = g /\ m = k /\ result'[g] # result[g]
      <3>a. PICK n \in Nat :
                \E err : /\ result'[g] = Append(result[g], [frames |-> n, err |-> err])
                         /\ err = "nil" => Complete(g, k, n)'
        BY <2>2 DEF GoesOn, Returns
      <3>1. PICK err : /\ result'[g] = Append(result[g], [frames |-> n, err |-> err])
                       /\ err = "nil" => Complete(g, k, n)'
        BY <3>a
      <3>2. result'[g][k] = [frames |-> n, err |-> err]
        BY <1>a, <1>b, <3>1
      <3>3. Complete(h, m, n)' /\ n = result'[h][m].frames
        BY <1>3, <2>2, <3>1, <3>2
      <3> QED
        BY <3>3
    <2>3. CASE h # g
      BY <2>1, <2>3 DEF Kept
    <2>4. CASE h = g
      <3>1. CASE m = k
        BY <1>a, <1>b, <1>res, <2>2, <2>4, <3>1
      <3>2. CASE m # k
        BY <1>a, <1>b, <1>res, <2>1, <2>4, <3>2
      <3> QED
        BY <3>1, <3>2
    <2> QED
      BY <2>3, <2>4
  <1> QED
    BY <1>1, <1>2, <1>3 DEF FrameInv

\* What a write or a flush may do, seen from the call it is made for.
LEMMA HandsOne ==
    ASSUME TypeOK, NEW g \in Goroutine, NEW fin \in BOOLEAN, NEW err,
           BufferedWriteFrame(FrameOf(g, fin), err) \/ SendFrame(FrameOf(g, fin), err),
           IsDataOpcode(job[g].op) => pc[g] \in HoldsData,
           NEW k, k = Current(g)
    PROVE  /\ Hands(g, k) /\ Guarded(g)
           /\ sent <= sent' /\ (werr => werr')
  <1>1. PICK f \in Frame : f = FrameOf(g, fin)
    BY FrameOfType
  <1>2. f.from = g /\ f.call = k /\ f.op = job[g].op
    BY <1>1 DEF FrameOf, Current
  <1>3. \/ UNCHANGED <<out, sent, werr>>
        \/ ~werr /\ out' = Append(out, f) /\ sent <= sent'
    BY <1>1, WriterEffect
  <1>4. sent \in Nat
    BY DEF TypeOK
  <1>5. CASE UNCHANGED <<out, sent, werr>>
    BY <1>4, <1>5 DEF Hands, Guarded
  <1>6. CASE ~werr /\ out' = Append(out, f) /\ sent <= sent'
    <2>1. out'[Len(out')] = f
      BY <1>6, OneMore
    <2> QED
      BY <1>2, <1>6, <2>1 DEF Hands, Guarded
  <1> QED
    BY <1>3, <1>5, <1>6

LEMMA FlushMarks ==
    ASSUME TypeOK, NEW err, FlushWriter(err)
    PROVE  /\ out' = out /\ sent <= sent' /\ (werr => werr')
           /\ err = "nil" => sent' = Len(out) /\ ~werr /\ ~werr'
  <1>1. sent \in Nat /\ sent <= Len(out) /\ Len(out) \in Nat
    BY DEF TypeOK
  <1> QED
    BY <1>1 DEF FlushWriter, writer

\* A call that has not taken the message lock has no frame in the writer.
LEMMA NoneYet ==
    ASSUME TypeOK, Labels, NEW g \in Goroutine, pc[g] \notin HoldsData, NEW k, k = Current(g)
    PROVE  Whole(g, k, 0) /\ OnWire(g, k)
  <1>1. k = Len(result[g]) + 1 /\ Len(result[g]) \in Nat
    BY DEF TypeOK, Current
  <1>2. \A i \in DOMAIN out : ~Of(i, g, k)
    BY <1>1 DEF Labels, Of
  <1> QED
    BY <1>2 DEF Whole, OnWire

\* Everything handed over is on the wire after a flush.
LEMMA AllOnWire ==
    ASSUME TypeOK', sent' = Len(out'), NEW g, NEW k
    PROVE  OnWire(g, k)'
  BY DEF OnWire, TypeOK

\* The steps that keep their call going, by what they do to it.
LEMMA CallGoesOn ==
    ASSUME TypeOK, TypeOK', LockDiscipline, FrameInv, NEW g \in Goroutine,
           \A h \in Goroutine : h # g => Kept(h), UNCHANGED result
    PROVE  /\ \* before the message lock is taken, or as it is
              /\ UNCHANGED writer /\ pc[g] \notin HoldsData
              /\ pc'[g] \in HoldsData => pc'[g] \in Writing /\ job'[g].seq = 0
              => FrameInv'
           /\ \* with the message lock, and no frame handed over
              /\ UNCHANGED writer /\ pc[g] \in HoldsData /\ pc'[g] \in HoldsData
              /\ job'[g].seq = job[g].seq
              /\ pc'[g] \in Writing => pc[g] \in Writing
              /\ pc'[g] \in {"wantFlush", "flush"} => pc[g] \in {"wantFlush", "flush"}
              /\ pc'[g] = "ended" => job'[g].err # "nil"
              => FrameInv'
  <1>a. /\ sent \in Nat /\ sent' \in Nat /\ job[g].seq \in Nat
    BY DEF TypeOK, Job
  <1>k. PICK k, n : k = Current(g) /\ k = Current(g)' /\ n = job'[g].seq
    BY DEF Current
  <1>same. UNCHANGED writer => /\ out' = out /\ werr' = werr /\ sent <= sent' /\ (werr => werr')
                               /\ Hands(g, k) /\ Guarded(g)
    BY <1>a DEF writer, Hands, Guarded
  <1>data. {"wantFlush", "flush", "ended"} \cap Writing = {} /\ Writing \subseteq HoldsData
           /\ {"wantFlush", "flush", "ended"} \subseteq HoldsData
    BY DEF Writing, HoldsData, InStream
  <1>1. ASSUME UNCHANGED writer, pc[g] \notin HoldsData,
               pc'[g] \in HoldsData => pc'[g] \in Writing /\ job'[g].seq = 0
        PROVE  FrameInv'
    <2>1. Whole(g, k, 0)
      BY <1>k, <1>1, NoneYet DEF FrameInv
    <2>2. Whole(g, k, 0)'
      BY <1>1, <2>1 DEF writer, Whole, Of
    <2>3. Underway(g)'
      BY <1>k, <1>1, <1>data, <2>2 DEF Underway
    <2>4. GoesOn(g)
      BY <1>1, <1>same DEF GoesOn
    <2> QED
      BY <1>k, <1>1, <1>same, <2>3, <2>4, FrameMove
  <1>2. ASSUME UNCHANGED writer, pc[g] \in HoldsData, pc'[g] \in HoldsData,
               job'[g].seq = job[g].seq,
               pc'[g] \in Writing => pc[g] \in Writing,
               pc'[g] \in {"wantFlush", "flush"} => pc[g] \in {"wantFlush", "flush"},
               pc'[g] = "ended" => job'[g].err # "nil"
        PROVE  FrameInv'
    <2>1. Underway(g) /\ n = job[g].seq
      BY <1>k, <1>2 DEF FrameInv
    <2>2. /\ Whole(g, k, n) => Whole(g, k, n)'
          /\ LastData(g, k, n) => LastData(g, k, n)'
          /\ Ends(g, k, n) => Ends(g, k, n)'
      BY <1>2 DEF writer, Whole, LastData, Ends, Of
    <2>3. /\ ~werr' => Whole(g, k, n)'
          /\ pc'[g] \in Writing /\ ~werr' /\ n > 0 => LastData(g, k, n)'
          /\ pc'[g] \in {"wantFlush", "flush"} => Ends(g, k, n)'
      BY <1>k, <1>2, <1>same, <2>1, <2>2 DEF Underway
    <2>4. Underway(g)'
      BY <1>k, <1>2, <2>3 DEF Underway
    <2>5. GoesOn(g)
      BY <1>2, <1>same DEF GoesOn
    <2> QED
      BY <1>k, <1>2, <1>same, <2>4, <2>5, FrameMove
  <1> QED
    BY <1>1, <1>2

\* The steps that hand a data frame over and keep their call going.
LEMMA CallHandsOver ==
    ASSUME TypeOK, TypeOK', LockDiscipline, FrameInv, NEW g \in Goroutine,
           \A h \in Goroutine : h # g => Kept(h), UNCHANGED result,
           NEW fin \in BOOLEAN, NEW f \in Frame, f = FrameOf(g, fin), IsDataOpcode(f.op),
           pc[g] \in HoldsData, pc'[g] \in HoldsData,
           ~werr, out' = Append(out, f), sent <= sent',
           \/ /\ werr' /\ pc'[g] \notin {"wantFlush", "flush"}
              /\ pc'[g] = "ended" => job'[g].err # "nil"
           \/ /\ job'[g].seq = job[g].seq + 1
              /\ ~fin => pc'[g] \in Writing
              /\ fin => pc'[g] \in {"wantFlush", "flush", "ended"}
              /\ pc'[g] = "ended" => sent' = Len(out')
    PROVE  FrameInv'
  <1>a. job[g].seq \in Nat
    BY DEF TypeOK, Job
  <1>k. PICK k, n : k = Current(g) /\ k = Current(g)' /\ n = job[g].seq
    BY DEF Current
  <1>f. f.from = g /\ f.call = k /\ f.seq = n + 1 /\ f.fin = fin
    BY <1>k DEF FrameOf, Current
  <1>data. {"wantFlush", "flush", "ended"} \cap Writing = {} /\ Writing \subseteq HoldsData
    BY DEF Writing
  <1>1. Hands(g, k) /\ out'[Len(out')] = f
    BY <1>f, OneMore DEF Hands
  <1>2. Guarded(g) /\ GoesOn(g) /\ (werr => werr')
    BY <1>1 DEF Guarded, GoesOn
  <1>3. CASE /\ werr' /\ pc'[g] \notin {"wantFlush", "flush"}
             /\ pc'[g] = "ended" => job'[g].err # "nil"
    <2>1. Underway(g)'
      BY <1>3 DEF Underway
    <2> QED
      BY <1>k, <1>1, <1>2, <2>1, FrameMove
  <1>4. CASE /\ job'[g].seq = job[g].seq + 1
             /\ ~fin => pc'[g] \in Writing
             /\ fin => pc'[g] \in {"wantFlush", "flush", "ended"}
             /\ pc'[g] = "ended" => sent' = Len(out')
    <2>1. Whole(g, k, n)
      BY <1>k DEF FrameInv, Underway
    <2>2. /\ Whole(g, k, n + 1)'
          /\ fin => Ends(g, k, n + 1)'
          /\ ~fin => LastData(g, k, n + 1)'
      BY <1>a, <1>k, <1>f, <2>1, WholeGrows
    <2>3. pc'[g] = "ended" => OnWire(g, k)'
      BY <1>4, AllOnWire
    <2>4. PICK m : m = n + 1
      OBVIOUS
    <2>5. m = job'[g].seq /\ Whole(g, k, m)'
      BY <1>k, <1>4, <2>2, <2>4
    <2>6. /\ pc'[g] \in Writing => LastData(g, k, m)'
          /\ pc'[g] \in {"wantFlush", "flush", "ended"} => Ends(g, k, m)'
      BY <1>data, <1>4, <2>2, <2>4
    <2>7. Underway(g)'
      BY <1>k, <2>3, <2>5, <2>6 DEF Underway
    <2> QED
      BY <1>k, <1>1, <1>2, <2>7, FrameMove
  <1> QED
    BY <1>3, <1>4

\* The steps that return.
LEMMA CallReturns ==
    ASSUME TypeOK, TypeOK', LockDiscipline, FrameInv, NEW g \in Goroutine,
           \A h \in Goroutine : h # g => Kept(h),
           NEW n \in Nat, NEW err, Return(g, n, err),
           NEW k, k = Current(g), Hands(g, k), Guarded(g), sent <= sent', werr => werr',
           err = "nil" => Complete(g, k, n)'
    PROVE  FrameInv'
  <1>1. pc'[g] \notin HoldsData /\ result'[g] = Append(result[g], [frames |-> n, err |-> err])
    BY DEF TypeOK, Return, Goto, HoldsData, InStream
  <1>2. Underway(g)'
    BY <1>1 DEF Underway, Writing, HoldsData, InStream
  <1>3. Returns(g, k)
    BY <1>1 DEF Returns
  <1> QED
    BY <1>2, <1>3, FrameMove

LEMMA FrameStep ==
    ASSUME TypeOK, TypeOK', LockDiscipline, DataInHand, HandInv, FrameInv,
           NEW g \in Goroutine, Step(g)
    PROVE  FrameInv'
  <1>a. /\ pc \in [Goroutine -> PC] /\ job \in [Goroutine -> Job] /\ InHand(g)
        /\ job[g] \in Job /\ job[g].seq \in Nat /\ sent \in Nat
    <2>1. job[g] \in Job /\ InHand(g)
      BY DEF TypeOK, HandInv
    <2>2. job[g].seq \in Nat
      BY <2>1 DEF Job
    <2> QED
      BY <2>1, <2>2 DEF TypeOK
  <1>k. PICK k : k = Current(g)
    OBVIOUS
  <1>kept. \A h \in Goroutine : h # g => Kept(h)
    BY OthersKept
  <1>none. out' = out => Hands(g, k) /\ Guarded(g)
    BY DEF Hands, Guarded
  <1>pcs. /\ {"idle", "dataLock", "startLock", "tick", "sleep", "stopped",
               "wantControl", "control", "wantRenew", "renew"} \cap HoldsData = {}
          /\ InStream \subseteq HoldsData /\ Writing \subseteq HoldsData
          /\ {"wantChunk", "chunk", "stream", "wantFragment", "fragment", "wantEnd", "end"} \subseteq Writing
          /\ {"wantFlush", "flush", "ended"} \subseteq HoldsData \ Writing
    BY DEF Writing, HoldsData, InStream
  \* The calls not yet in their message, and those that stay in it.
  <1>go. ASSUME UNCHANGED <<result, writer>>, pc[g] \notin HoldsData,
                pc'[g] \in HoldsData => pc'[g] \in Writing /\ job'[g].seq = 0
         PROVE  FrameInv'
    BY <1>go, <1>kept, CallGoesOn
  <1>on. ASSUME UNCHANGED <<result, writer>>, pc[g] \in HoldsData, pc'[g] \in HoldsData,
                job'[g].seq = job[g].seq,
                pc'[g] \in Writing => pc[g] \in Writing,
                pc'[g] \in {"wantFlush", "flush"} => pc[g] \in {"wantFlush", "flush"},
                pc'[g] = "ended" => job'[g].err # "nil"
         PROVE  FrameInv'
    BY <1>on, <1>kept, CallGoesOn
  <1>over. ASSUME UNCHANGED result, NEW fin \in BOOLEAN, IsDataOpcode(job[g].op), NEW err,
                  BufferedWriteFrame(FrameOf(g, fin), err) \/ SendFrame(FrameOf(g, fin), err),
                  pc[g] \in Writing, pc'[g] \in HoldsData,
                  err = "nil" => /\ job'[g].seq = job[g].seq + 1
                                 /\ ~fin => pc'[g] \in Writing
                                 /\ fin => pc'[g] \in {"wantFlush", "flush", "ended"}
                                 /\ pc'[g] = "ended" => sent' = Len(out'),
                  err # "nil" => /\ job'[g].seq = job[g].seq
                                 /\ pc'[g] \notin {"wantFlush", "flush"}
                                 /\ pc'[g] = "ended" => job'[g].err # "nil"
           PROVE  FrameInv'
    <2>1. PICK f \in Frame : f = FrameOf(g, fin)
      BY FrameOfType
    <2>2. IsDataOpcode(f.op) /\ pc[g] \in HoldsData
      BY <1>over, <1>pcs, <2>1 DEF FrameOf
    <2>3. \/ err # "nil" /\ UNCHANGED writer
          \/ ~werr /\ out' = Append(out, f) /\ sent <= sent' /\ (err = "nil" \/ werr')
      BY <1>over, <2>1, WriterEffect DEF writer
    <2>4. CASE err # "nil" /\ UNCHANGED writer
      BY <1>on, <1>over, <2>2, <2>4
    <2>5. CASE /\ ~werr /\ out' = Append(out, f) /\ sent <= sent'
               /\ err = "nil"
      BY <1>kept, <1>over, <2>1, <2>2, <2>5, CallHandsOver
    <2>6. CASE /\ ~werr /\ out' = Append(out, f) /\ sent <= sent'
               /\ err # "nil" /\ werr'
      BY <1>kept, <1>over, <2>1, <2>2, <2>6, CallHandsOver
    <2> QED
      BY <2>3, <2>4, <2>5, <2>6
  \* The calls that return.
  <1>ret. ASSUME NEW n \in Nat, NEW err, Return(g, n, err), Hands(g, k), Guarded(g),
                 sent <= sent', werr => werr', err = "nil" => Complete(g, k, n)'
          PROVE  FrameInv'
    BY <1>k, <1>kept, <1>ret, CallReturns
  <1>quit. ASSUME NEW n \in Nat, NEW err, Return(g, n, err), err # "nil", UNCHANGED writer
           PROVE  FrameInv'
    <2>1. out' = out /\ sent <= sent' /\ (werr => werr')
      BY <1>a, <1>quit DEF writer
    <2> QED
      BY <1>none, <1>quit, <1>ret, <2>1
  <1>1. CASE LockWriter(g)
    <2>1. /\ pc[g] \in DOMAIN Body /\ pc'[g] = Body[pc[g]] /\ job'[g] = job[g]
          /\ UNCHANGED <<result, writer>>
      BY <1>1, <1>a DEF LockWriter, Goto
    <2>2. \/ pc[g] \in {"wantControl", "wantRenew"} /\ pc'[g] \in {"control", "renew"}
          \/ pc[g] \in {"wantChunk", "wantFragment", "wantEnd"} /\ pc'[g] \in {"chunk", "fragment", "end"}
          \/ pc[g] = "wantFlush" /\ pc'[g] = "flush"
      BY <2>1 DEF Body
    <2>3. CASE pc[g] \in {"wantControl", "wantRenew"} /\ pc'[g] \in {"control", "renew"}
      BY <1>go, <1>pcs, <2>1, <2>3
    <2>4. CASE pc[g] \in {"wantChunk", "wantFragment", "wantEnd"} /\ pc'[g] \in {"chunk", "fragment", "end"}
      BY <1>on, <1>pcs, <2>1, <2>4
    <2>5. CASE pc[g] = "wantFlush" /\ pc'[g] = "flush"
      BY <1>on, <1>pcs, <2>1, <2>5
    <2> QED
      BY <2>2, <2>3, <2>4, <2>5
  <1>2. CASE SendData(g) \/ SendControl(g) \/ RenewWriter(g) \/ Trigger(g) \/ Sleep(g)
    <2>1. /\ pc[g] \in {"idle", "tick", "sleep"} /\ UNCHANGED <<result, writer>>
          /\ pc'[g] \in {"dataLock", "wantControl", "wantRenew", "stopped", "tick"}
      BY <1>2, <1>a DEF SendData, SendControl, RenewWriter, Trigger, Sleep, CanCall, Goto
    <2> QED
      BY <1>go, <1>pcs, <2>1
  <1>3. CASE LockData(g)
    <2>1. pc[g] = "dataLock" /\ UNCHANGED writer /\ job[g].seq = 0
      BY <1>3, <1>a DEF LockData, InHand
    <2>2. CASE IsDataOpcode(job[g].op)
      <3>1. pc'[g] = "wantChunk" /\ job'[g] = job[g] /\ UNCHANGED result
        BY <1>3, <1>a, <2>2 DEF LockData, Goto
      <3> QED
        BY <1>go, <1>pcs, <2>1, <3>1
    <2>3. CASE ~IsDataOpcode(job[g].op)
      <3>1. Return(g, 0, "ErrNotDataFrameOpcode")
        BY <1>3, <2>3 DEF LockData
      <3> QED
        BY <1>quit, <2>1, <3>1
    <2> QED
      BY <2>2, <2>3
  <1>4. CASE WriteChunk(g)
    <2> PICK err \in Outcome :
          /\ BufferedWriteFrame(FrameOf(g, job[g].left = 1), err)
          /\ \/ err # "nil" /\ ReturnData(g, job[g].seq, err)
             \/ /\ err = "nil"
                /\ job' = [job EXCEPT ![g].op = OpcodeContinuation,
                                      ![g].seq = @ + 1, ![g].left = @ - 1]
                /\ Goto(g, IF job[g].left = 1 THEN "wantFlush" ELSE "wantChunk")
                /\ UNCHANGED <<result, dataFramesWriteLocker>>
      BY <1>4 DEF WriteChunk, AfterChunk
    <2>1. PICK fin \in BOOLEAN : fin = (job[g].left = 1)
      OBVIOUS
    <2>2. pc[g] = "chunk" /\ IsDataOpcode(job[g].op) /\ BufferedWriteFrame(FrameOf(g, fin), err)
      BY <1>4, <2>1 DEF WriteChunk, AfterChunk, DataInHand
    <2>3. CASE err # "nil"
      <3>1. Return(g, job[g].seq, err)
        BY <2>3 DEF ReturnData
      <3>2. Hands(g, k) /\ Guarded(g) /\ sent <= sent' /\ (werr => werr')
        BY <1>k, <1>pcs, <2>2, HandsOne
      <3> QED
        BY <1>a, <1>ret, <2>3, <3>1, <3>2
    <2>4. CASE err = "nil"
      <3>1. job'[g].seq = job[g].seq + 1 /\ UNCHANGED result
        BY <1>a, <2>4 DEF Job
      <3>2. IF fin THEN pc'[g] = "wantFlush" ELSE pc'[g] = "wantChunk"
        BY <1>a, <2>1, <2>4 DEF Goto
      <3> QED
        BY <1>over, <1>pcs, <2>2, <2>4, <3>1, <3>2
    <2> QED
      BY <2>3, <2>4
  <1>5. CASE FlushData(g)
    <2>1. PICK err \in Outcome : FlushWriter(err) /\ Return(g, job[g].seq, err)
      BY <1>5 DEF FlushData, ReturnData
    <2>2. /\ out' = out /\ sent <= sent' /\ (werr => werr')
          /\ err = "nil" => sent' = Len(out) /\ ~werr /\ ~werr'
      BY <2>1, FlushMarks
    <2>3. PICK n : n = job[g].seq
      OBVIOUS
    <2>4. ASSUME err = "nil" PROVE Complete(g, k, n)'
      <3>1. pc[g] = "flush" /\ Underway(g)
        BY <1>5 DEF FlushData, FrameInv
      <3>2. Whole(g, k, n) /\ Ends(g, k, n)
        BY <1>k, <1>pcs, <2>2, <2>3, <2>4, <3>1 DEF Underway
      <3>3. Whole(g, k, n)' /\ Ends(g, k, n)'
        BY <2>2, <3>2 DEF Whole, Ends, Of
      <3>4. OnWire(g, k)'
        BY <2>2, <2>4, AllOnWire
      <3> QED
        BY <3>3, <3>4 DEF Complete
    <2> QED
      BY <1>a, <1>none, <1>ret, <2>1, <2>2, <2>3, <2>4
  <1>6. CASE WriteControl(g)
    <2>1. PICK err \in Outcome : /\ SendFrame(FrameOf(g, TRUE), err)
                                 /\ Return(g, IF err = "nil" THEN 1 ELSE 0, err)
      BY <1>6 DEF WriteControl
    <2>2. pc[g] = "control" /\ IsControlOpcode(job[g].op) /\ job[g].seq = 0 /\ pc[g] \notin HoldsData
      BY <1>6, <1>a, <1>pcs DEF WriteControl, InHand
    <2>3. ~IsDataOpcode(job[g].op)
      BY <2>2 DEF IsControlOpcode, IsDataOpcode, OpcodeContinuation, OpcodeText, OpcodeBinary,
                  OpcodeClose, OpcodePing, OpcodePong
    <2>4. Hands(g, k) /\ Guarded(g) /\ sent <= sent' /\ (werr => werr')
      BY <1>k, <2>1, <2>3, HandsOne
    <2>5. ASSUME err = "nil" PROVE Complete(g, k, 1)'
      <3>1. PICK f \in Frame : f = FrameOf(g, TRUE)
        BY FrameOfType
      <3>2. out' = Append(out, f) /\ sent' = Len(out')
        BY <2>1, <2>5, <3>1, SendFrameFlushes, OneMore
      <3>3. f.from = g /\ f.call = k /\ f.seq = 0 + 1 /\ f.fin
        BY <1>k, <2>2, <3>1 DEF FrameOf, Current
      <3>4. Whole(g, k, 0)
        BY <1>k, <2>2, NoneYet DEF FrameInv
      <3>5. Whole(g, k, 0 + 1)' /\ Ends(g, k, 0 + 1)'
        BY <3>2, <3>3, <3>4, WholeGrows
      <3>6. OnWire(g, k)' /\ 0 + 1 = 1
        BY <3>2, AllOnWire
      <3> QED
        BY <3>5, <3>6 DEF Complete
    <2>6. CASE err = "nil"
      BY <1>ret, <2>1, <2>4, <2>5, <2>6
    <2>7. CASE err # "nil"
      BY <1>ret, <2>1, <2>4, <2>7
    <2> QED
      BY <2>6, <2>7
  <1>7. CASE Renew(g)
    <2>1. PICK err \in Outcome : FlushWriter(err) /\ Return(g, 0, err)
      BY <1>7 DEF Renew, ReplaceWriter
    <2>2. out' = out /\ sent <= sent' /\ (werr => werr')
      BY <2>1, FlushMarks
    <2>3. Whole(g, k, 0) /\ OnWire(g, k)
      BY <1>7, <1>k, <1>pcs, NoneYet DEF Renew, FrameInv
    <2>4. Whole(g, k, 0)' /\ OnWire(g, k)'
      <3>1. sent' \in Nat /\ DOMAIN out \subseteq Nat
        BY DEF TypeOK
      <3> QED
        BY <1>a, <2>2, <2>3, <3>1 DEF Whole, OnWire, Of
    <2>5. Complete(g, k, 0)'
      BY <2>4 DEF Complete
    <2> QED
      BY <1>none, <1>ret, <2>1, <2>2, <2>5
  <1>8. CASE StartLongDataTransmission(g)
    <2>1. UNCHANGED writer /\ pc[g] \notin HoldsData
      BY <1>8, <1>pcs DEF StartLongDataTransmission, CanCall
    <2>2. CASE Return(g, 0, "ErrCloseAlreadySent")
      BY <1>quit, <2>1, <2>2
    <2>3. CASE Goto(g, "startLock") /\ UNCHANGED result
      <3>1. pc'[g] = "startLock"
        BY <1>a, <2>3 DEF Goto
      <3> QED
        BY <1>go, <1>pcs, <2>1, <2>3, <3>1
    <2> QED
      BY <1>8, <2>2, <2>3 DEF StartLongDataTransmission
  <1>9. CASE ClaimTransmission(g)
    <2>1. /\ pc[g] = "startLock" /\ pc'[g] = "stream" /\ job'[g] = job[g] /\ job[g].seq = 0
          /\ UNCHANGED <<result, writer>>
      BY <1>9, <1>a DEF ClaimTransmission, Goto, InHand
    <2> QED
      BY <1>go, <1>pcs, <2>1
  <1>10. CASE TransmitData(g) \/ EndLongDataTransmission(g)
    <2>1. /\ pc[g] = "stream" /\ pc'[g] \in {"wantFragment", "wantEnd"} /\ job'[g].seq = job[g].seq
          /\ UNCHANGED <<result, writer>>
      BY <1>10, <1>a DEF TransmitData, EndLongDataTransmission, Goto, Job
    <2> QED
      BY <1>on, <1>pcs, <2>1
  <1>11. CASE WriteFragment(g)
    <2>1. PICK err \in Outcome :
            /\ SendFrame(FrameOf(g, FALSE), err)
            /\ job' = [job EXCEPT ![g].seq = IF err = "nil" THEN @ + 1 ELSE @]
      BY <1>11 DEF WriteFragment
    <2>2. pc[g] = "fragment" /\ pc'[g] = "stream" /\ UNCHANGED result /\ IsDataOpcode(job[g].op)
      BY <1>11, <1>a DEF WriteFragment, Goto, DataInHand
    <2>3. job'[g].seq = IF err = "nil" THEN job[g].seq + 1 ELSE job[g].seq
      BY <1>a, <2>1 DEF Job
    <2> QED
      BY <1>over, <1>pcs, <2>1, <2>2, <2>3
  <1>12. CASE WriteEnd(g)
    <2>1. PICK err \in Outcome :
            /\ SendFrame(FrameOf(g, TRUE), err)
            /\ job' = [job EXCEPT ![g].seq = IF err = "nil" THEN @ + 1 ELSE @, ![g].err = err]
      BY <1>12 DEF WriteEnd
    <2>2. pc[g] = "end" /\ pc'[g] = "ended" /\ UNCHANGED result /\ IsDataOpcode(job[g].op)
      BY <1>12, <1>a DEF WriteEnd, Goto, DataInHand
    <2>3. /\ job'[g].seq = IF err = "nil" THEN job[g].seq + 1 ELSE job[g].seq
          /\ job'[g].err = err
      BY <1>a, <2>1 DEF Job
    <2>4. err = "nil" => sent' = Len(out')
      <3>1. PICK f \in Frame : f = FrameOf(g, TRUE)
        BY FrameOfType
      <3> QED
        BY <2>1, <3>1, SendFrameFlushes, OneMore
    <2> QED
      BY <1>over, <1>pcs, <2>1, <2>2, <2>3, <2>4
  <1>13. CASE ReleaseLongDataTransmission(g)
    <2>1. PICK err : /\ err = IF pc[g] = "ended" THEN job[g].err ELSE "abandoned"
                     /\ Return(g, job[g].seq, err)
      BY <1>13 DEF ReleaseLongDataTransmission, ReturnData
    <2>2. UNCHANGED writer
      BY <1>13 DEF ReleaseLongDataTransmission
    <2>3. CASE err # "nil"
      BY <1>a, <1>quit, <2>1, <2>2, <2>3
    <2>4. CASE err = "nil"
      <3>1. PICK n : n = job[g].seq
        OBVIOUS
      <3>2. pc[g] = "ended" /\ job[g].err = "nil" /\ Underway(g)
        BY <2>1, <2>4 DEF FrameInv
      <3>3. Whole(g, k, n) /\ Ends(g, k, n) /\ OnWire(g, k)
        BY <1>k, <3>1, <3>2 DEF Underway
      <3>4. Complete(g, k, n)'
        BY <2>2, <3>3 DEF Complete, Whole, Ends, OnWire, Of, writer
      <3>5. out' = out /\ sent <= sent' /\ (werr => werr') /\ n \in Nat
        BY <1>a, <2>2, <3>1 DEF writer
      <3> QED
        BY <1>none, <1>ret, <2>1, <3>1, <3>4, <3>5
    <2> QED
      BY <2>3, <2>4
  <1> QED
    BY <1>1, <1>2, <1>3, <1>4, <1>5, <1>6, <1>7, <1>8, <1>9, <1>10, <1>11, <1>12, <1>13 DEF Step

LEMMA FrameInvariant == Spec => [](TypeOK /\ LockDiscipline /\ DataInHand /\ CloseInv /\ HandInv /\ FrameInv)
  <1>1. Init => FrameInv
    BY DEF Init, FrameInv, Labels, Underway, Writing, HoldsData, InStream
  <1>2. TypeOK /\ TypeOK' /\ LockDiscipline /\ DataInHand /\ HandInv /\ FrameInv /\ [Next]_vars => FrameInv'
    <2> SUFFICES ASSUME TypeOK, TypeOK', LockDiscipline, DataInHand, HandInv, FrameInv, [Next]_vars
                 PROVE  FrameInv'
      OBVIOUS
    <2>1. CASE UNCHANGED vars
      BY <2>1 DEF vars, writer, FrameInv, Labels, Underway, Complete, Whole, Ends, OnWire, LastData,
                  Of, Current
    <2>2. CASE \E g \in Goroutine : Step(g)
      BY <2>2, FrameStep
    <2> QED
      BY <2>1, <2>2 DEF Next, Finished
  <1> QED
    BY <1>1, <1>2, TypeCorrect, LocksHeld, CloseInvariant, HandInvariant, PTL DEF Spec

\* Of a whole call on the wire, the frames and their places match one to one.
LEMMA WholeCounts ==
    ASSUME TypeOK, NEW g \in Goroutine, NEW k, NEW n \in Nat, Whole(g, k, n), OnWire(g, k)
    PROVE  LET mine == {i \in 1..sent : out[i].from = g /\ out[i].call = k}
           IN  /\ mine = {i \in DOMAIN out : Of(i, g, k)}
               /\ Cardinality(mine) = n
               /\ {out[i].seq : i \in mine} = 1..n
  <1> DEFINE mine == {i \in 1..sent : out[i].from = g /\ out[i].call = k}
             place == [i \in mine |-> out[i].seq]
  <1>1. mine = {i \in DOMAIN out : Of(i, g, k)}
    <2>1. DOMAIN out = 1..Len(out) /\ sent \in Nat /\ sent <= Len(out) /\ Len(out) \in Nat
      BY DEF TypeOK
    <2> QED
      BY <2>1 DEF Of, OnWire
  <1>2. \A i \in mine : out[i].seq \in 1..n
    <2>1. \A i \in DOMAIN out : out[i] \in Frame
      BY DEF TypeOK
    <2> QED
      BY <1>1, <2>1 DEF Whole, Frame
  <1>3. place \in Bijection(mine, 1..n)
    <2> HIDE DEF mine
    <2>1. place \in [mine -> 1..n]
      BY <1>2
    <2>2. \A i, j \in mine : place[i] = place[j] => i = j
      BY <1>1 DEF Whole
    <2>3. \A m \in 1..n : \E i \in mine : place[i] = m
      BY <1>1 DEF Whole
    <2> HIDE DEF place
    <2> QED
      BY <2>1, <2>2, <2>3, Fun_IsBij
  <1>4. Cardinality(mine) = n
    <2> HIDE DEF mine, place
    <2>1. ExistsBijection(1..n, mine)
      BY <1>3, Fun_BijInverse DEF ExistsBijection
    <2>2. IsFiniteSet(1..n) /\ Cardinality(1..n) = n
      BY FS_Interval
    <2> QED
      BY <2>1, <2>2, FS_Bijection
  <1>5. {out[i].seq : i \in mine} = 1..n
    <2>1. \A m \in 1..n : \E i \in mine : out[i].seq = m
      BY <1>1 DEF Whole
    <2> HIDE DEF mine
    <2> QED
      BY <1>2, <2>1
  <1> QED
    BY <1>1, <1>4, <1>5

\* Whatever other senders, swaps of the writer and failures come between, a call
\* that returned nil has every frame of its message on the wire, once, up to FIN.
THEOREM NilIsOnTheWire == Spec => []NilMeansOnTheWire
  <1>1. TypeOK /\ FrameInv => NilMeansOnTheWire
    <2> SUFFICES ASSUME TypeOK, FrameInv, NEW g \in Goroutine, NEW k \in DOMAIN result[g],
                        result[g][k].err = "nil"
                 PROVE  LET mine == {i \in 1..sent : out[i].from = g /\ out[i].call = k}
                            n    == result[g][k].frames
                        IN  /\ Cardinality(mine) = n
                            /\ {out[i].seq : i \in mine} = 1..n
                            /\ n > 0 => \E i \in mine : out[i].seq = n /\ out[i].fin
      BY DEF NilMeansOnTheWire
    <2> DEFINE mine == {i \in 1..sent : out[i].from = g /\ out[i].call = k}
               n    == result[g][k].frames
    <2>1. n \in Nat /\ k \in 1..Len(result[g])
      <3>1. result[g] \in Seq(Result)
        BY DEF TypeOK
      <3>2. k \in 1..Len(result[g]) /\ result[g][k] \in Result
        BY <3>1
      <3> QED
        BY <3>2 DEF Result
    <2>2. Complete(g, k, n)
      BY <2>1 DEF FrameInv
    <2> HIDE DEF n
    <2>3. /\ mine = {i \in DOMAIN out : Of(i, g, k)}
          /\ Cardinality(mine) = n /\ {out[i].seq : i \in mine} = 1..n
      BY <2>1, <2>2, WholeCounts DEF Complete
    <2>4. n > 0 => \E i \in mine : out[i].seq = n /\ out[i].fin
      BY <2>2, <2>3 DEF Complete, Ends
    <2> QED
      BY <2>3, <2>4 DEF n
  <1> QED
    BY <1>1, FrameInvariant, PTL

-----------------------------------------------------------------------------
(* Nothing stranded, and one ping behind a close.                            *)

Buffering == {"wantChunk", "chunk", "wantFlush", "flush"}

KeyFailed == \E g \in Goroutine : \E k \in 1..Len(result[g]) : result[g][k].err = "keyErr"

\* Frames wait in the buffer only for a SendData on its way to its flush: a close
\* flushes what was there, and after it nothing is buffered.
BufferInv ==
    ~werr => /\ closeSent => sent = Len(out)
             /\ \/ sent = Len(out)
                \/ \E g \in Goroutine : pc[g] \in Buffering
                \/ KeyFailed

Behind(g, j) == out[j].from = g /\ \E i \in 1..(j - 1) : IsClose(out[i])

\* A loop that pinged behind a close has not looked at closeSent since.
PingInv ==
    \A g \in Pinger : \A j \in DOMAIN out : Behind(g, j) =>
        /\ closeSent /\ pc[g] \notin {"wantControl", "control"}
        /\ \A k \in DOMAIN out : Behind(g, k) => k = j

\* What was returned stays returned.
LEMMA ResultsStay ==
    ASSUME TypeOK, TypeOK', NEW g \in Goroutine, Step(g)
    PROVE  /\ KeyFailed => KeyFailed'
           /\ \A n, err : Return(g, n, err) /\ err = "keyErr" => KeyFailed'
  <1>a. result \in [Goroutine -> Seq(Result)] /\ result' \in [Goroutine -> Seq(Result)]
    BY DEF TypeOK
  <1>grow. ASSUME NEW n, NEW err, Return(g, n, err)
           PROVE  /\ Len(result'[g]) = Len(result[g]) + 1
                  /\ result'[g][Len(result[g]) + 1].err = err
                  /\ \A k \in 1..Len(result[g]) : k \in 1..Len(result'[g]) /\ result'[g][k] = result[g][k]
    <2>1. result'[g] = Append(result[g], [frames |-> n, err |-> err])
      BY <1>a, <1>grow DEF Return
    <2> QED
      BY <1>a, <2>1
  <1>1. \/ result' = result
        \/ \E n, err : Return(g, n, err)
    BY DEF Step, LockWriter, SendData, LockData, WriteChunk, AfterChunk, FlushData, SendControl, WriteControl,
       RenewWriter, Renew, StartLongDataTransmission, ClaimTransmission, TransmitData, WriteFragment,
       EndLongDataTransmission, WriteEnd, ReleaseLongDataTransmission, Trigger, Sleep, ReturnData
  <1>2. KeyFailed => KeyFailed'
    <2>1. SUFFICES ASSUME NEW h \in Goroutine, NEW k \in 1..Len(result[h]), result[h][k].err = "keyErr"
                   PROVE  KeyFailed'
      BY DEF KeyFailed
    <2>2. CASE result' = result
      BY <2>1, <2>2 DEF KeyFailed
    <2>3. CASE \E n, err : Return(g, n, err)
      <3>1. CASE h = g
        BY <1>grow, <2>1, <2>3, <3>1 DEF KeyFailed
      <3>2. CASE h # g
        BY <2>1, <3>2, OthersKept DEF KeyFailed, Kept
      <3> QED
        BY <3>1, <3>2
    <2> QED
      BY <1>1, <2>2, <2>3
  <1>3. ASSUME NEW n, NEW err, Return(g, n, err), err = "keyErr" PROVE KeyFailed'
    <2>1. Len(result[g]) + 1 \in 1..Len(result'[g])
      BY <1>a, <1>3, <1>grow
    <2> QED
      BY <1>3, <1>grow, <2>1 DEF KeyFailed
  <1> QED
    BY <1>2, <1>3

\* The ways a step of g keeps BufferInv.
LEMMA BufferMove ==
    ASSUME BufferInv, NEW g \in Goroutine, \A h \in Goroutine : h # g => Kept(h),
           KeyFailed => KeyFailed',
           \/ werr'
           \/ sent' = Len(out')
           \/ ~closeSent' /\ pc'[g] \in Buffering
           \/ /\ UNCHANGED writer /\ (closeSent' => closeSent)
              /\ pc[g] \in Buffering => pc'[g] \in Buffering \/ KeyFailed'
    PROVE  BufferInv'
  <1> SUFFICES ASSUME ~werr'
               PROVE  /\ closeSent' => sent' = Len(out')
                      /\ \/ sent' = Len(out')
                         \/ \E h \in Goroutine : pc'[h] \in Buffering
                         \/ KeyFailed'
    BY DEF BufferInv
  <1>1. CASE sent' = Len(out')
    BY <1>1
  <1>2. CASE ~closeSent' /\ pc'[g] \in Buffering
    BY <1>2
  <1>3. CASE /\ UNCHANGED writer /\ (closeSent' => closeSent)
             /\ pc[g] \in Buffering => pc'[g] \in Buffering \/ KeyFailed'
    <2>1. ~werr /\ sent' = sent /\ out' = out
      BY <1>3 DEF writer
    <2>2. closeSent' => sent' = Len(out')
      BY <1>3, <2>1 DEF BufferInv
    <2>3. ASSUME NEW h \in Goroutine, pc[h] \in Buffering
          PROVE  (\E q \in Goroutine : pc'[q] \in Buffering) \/ KeyFailed'
      BY <1>3, <2>3 DEF Kept
    <2> QED
      BY <2>1, <2>2, <2>3 DEF BufferInv
  <1> QED
    BY <1>1, <1>2, <1>3

LEMMA BufferStep ==
    ASSUME TypeOK, TypeOK', DataInHand, BufferInv, NEW g \in Goroutine, Step(g)
    PROVE  BufferInv'
  <1>a. pc \in [Goroutine -> PC] /\ closeSent \in BOOLEAN
    BY DEF TypeOK
  <1>kept. \A h \in Goroutine : h # g => Kept(h)
    BY OthersKept
  <1>key. KeyFailed => KeyFailed'
    BY ResultsStay
  <1>flushed. ASSUME sent' = Len(out') PROVE BufferInv'
    BY <1>flushed, <1>kept, <1>key, BufferMove
  <1>broke. ASSUME werr' PROVE BufferInv'
    BY <1>broke, <1>kept, <1>key, BufferMove
  <1>same. ASSUME UNCHANGED writer, closeSent' => closeSent,
                  pc[g] \in Buffering => pc'[g] \in Buffering \/ KeyFailed'
           PROVE  BufferInv'
    BY <1>same, <1>kept, <1>key, BufferMove
  \* sendFrame leaves nothing behind, or changes nothing, or breaks the writer.
  <1>send. ASSUME NEW fin \in BOOLEAN, NEW err, SendFrame(FrameOf(g, fin), err),
                  err # "nil" => (closeSent' => closeSent), pc[g] \notin Buffering
           PROVE  BufferInv'
    <2>1. PICK f \in Frame : f = FrameOf(g, fin)
      BY FrameOfType
    <2>2. CASE err = "nil"
      BY <1>flushed, <1>send, <2>1, <2>2, SendFrameFlushes, OneMore
    <2>3. CASE err # "nil"
      <3>1. UNCHANGED writer \/ werr'
        BY <1>send, <2>1, <2>3, WriterEffect DEF writer
      <3> QED
        BY <1>broke, <1>same, <1>send, <2>3, <3>1
    <2> QED
      BY <2>2, <2>3
  <1>flush. ASSUME NEW err, FlushWriter(err)
            PROVE  BufferInv'
    <2>1. /\ out' = out
          /\ \/ werr /\ werr' = werr
             \/ sent' = Len(out)
             \/ werr'
      BY <1>flush DEF FlushWriter, writer
    <2> QED
      BY <1>broke, <1>flushed, <2>1
  <1>1. CASE \/ LockWriter(g) \/ SendData(g) \/ LockData(g) \/ SendControl(g) \/ RenewWriter(g)
             \/ StartLongDataTransmission(g) \/ ClaimTransmission(g) \/ TransmitData(g)
             \/ EndLongDataTransmission(g) \/ ReleaseLongDataTransmission(g)
             \/ Trigger(g) \/ Sleep(g)
    <2>1. UNCHANGED writer /\ closeSent' = closeSent
      BY <1>1
      DEF LockWriter, SendData, LockData, SendControl, RenewWriter, StartLongDataTransmission,
          ClaimTransmission, TransmitData, EndLongDataTransmission, ReleaseLongDataTransmission,
          Trigger, Sleep
    <2>2. pc[g] \in Buffering => LockWriter(g)
      BY <1>1
      DEF Buffering, SendData, LockData, SendControl, RenewWriter, StartLongDataTransmission,
          ClaimTransmission, TransmitData, EndLongDataTransmission, ReleaseLongDataTransmission,
          Trigger, Sleep, CanCall
    <2>3. LockWriter(g) /\ pc[g] \in Buffering => pc'[g] \in Buffering
      BY <1>a DEF LockWriter, Goto, Body, Buffering
    <2> QED
      BY <1>same, <2>1, <2>2, <2>3
  <1>2. CASE WriteChunk(g)
    <2>1. PICK err \in Outcome, fin \in BOOLEAN :
            /\ BufferedWriteFrame(FrameOf(g, fin), err)
            /\ \/ err # "nil" /\ Return(g, job[g].seq, err)
               \/ /\ err = "nil"
                  /\ Goto(g, IF job[g].left = 1 THEN "wantFlush" ELSE "wantChunk")
      BY <1>2 DEF WriteChunk, AfterChunk, ReturnData
    <2>2. PICK f \in Frame : f = FrameOf(g, fin)
      BY FrameOfType
    <2>3. pc[g] = "chunk" /\ IsDataOpcode(f.op) /\ closeSent' = closeSent
      BY <1>2, <2>2 DEF WriteChunk, AfterChunk, DataInHand, FrameOf
    <2>4. CASE err = "nil"
      <3>1. ValidateSendFrame(f) = "nil"
        BY <2>1, <2>2, <2>4, WriterEffect
      <3>2. ~closeSent
        BY <2>3, <3>1 DEF ValidateSendFrame
      <3>3. ~closeSent' /\ pc'[g] \in Buffering
        BY <1>a, <2>1, <2>3, <2>4, <3>2 DEF Goto, Buffering
      <3> QED
        BY <1>kept, <1>key, <3>3, BufferMove
    <2>5. CASE err # "nil"
      <3>1. werr' \/ (UNCHANGED writer /\ Refused(f, err))
        BY <2>1, <2>2, <2>5 DEF BufferedWriteFrame, BufferAndBreak
      <3>2. CASE werr'
        BY <1>broke, <3>2
      <3>3. CASE UNCHANGED writer /\ Refused(f, err)
        <4>1. \/ err = "ErrCloseAlreadySent" /\ closeSent
              \/ err = "keyErr"
              \/ werr
          BY <2>3, <2>5, <3>3
          DEF Refused, ValidateSendFrame, IsDataOpcode, IsControlOpcode, OpcodeContinuation, OpcodeText,
              OpcodeBinary, OpcodeClose, OpcodePing, OpcodePong
        <4>2. CASE err = "keyErr"
          <5>1. KeyFailed'
            BY <2>1, <4>2, ResultsStay
          <5> QED
            BY <1>same, <2>3, <3>3, <5>1
        <4>3. CASE closeSent /\ ~werr
          <5>1. sent = Len(out)
            BY <4>3 DEF BufferInv
          <5> QED
            BY <1>flushed, <3>3, <5>1 DEF writer
        <4>4. CASE werr
          BY <1>broke, <3>3, <4>4 DEF writer
        <4> QED
          BY <4>1, <4>2, <4>3, <4>4
      <3> QED
        BY <3>1, <3>2, <3>3
    <2> QED
      BY <2>4, <2>5
  <1>3. CASE FlushData(g)
    BY <1>3, <1>flush DEF FlushData
  <1>4. CASE Renew(g)
    BY <1>4, <1>flush DEF Renew, ReplaceWriter
  <1>5. CASE WriteControl(g)
    <2>1. PICK err \in Outcome : SendFrame(FrameOf(g, TRUE), err) /\ closeSent' = ClosedAfter(g, err)
      BY <1>5 DEF WriteControl
    <2>2. err # "nil" => (closeSent' => closeSent)
      BY <2>1 DEF ClosedAfter
    <2>3. pc[g] \notin Buffering
      BY <1>5 DEF WriteControl, Buffering
    <2> QED
      BY <1>send, <2>1, <2>2, <2>3
  <1>6. CASE WriteFragment(g)
    BY <1>6, <1>send DEF WriteFragment, Buffering
  <1>7. CASE WriteEnd(g)
    BY <1>7, <1>send DEF WriteEnd, Buffering
  <1> QED
    BY <1>1, <1>2, <1>3, <1>4, <1>5, <1>6, <1>7 DEF Step

\* With every sender back, no frame waits in the buffer unless the writer broke
\* or a masking key could not be drawn in the middle of a message.
THEOREM NothingIsStranded == Spec => []NothingStranded
  <1>1. Init => BufferInv
    BY DEF Init, BufferInv
  <1>2. TypeOK /\ TypeOK' /\ DataInHand /\ BufferInv /\ [Next]_vars => BufferInv'
    <2> SUFFICES ASSUME TypeOK, TypeOK', DataInHand, BufferInv, [Next]_vars PROVE BufferInv'
      OBVIOUS
    <2>1. CASE UNCHANGED vars
      BY <2>1 DEF vars, writer, BufferInv, KeyFailed
    <2>2. CASE \E g \in Goroutine : Step(g)
      BY <2>2, BufferStep
    <2> QED
      BY <2>1, <2>2 DEF Next, Finished
  <1>3. TypeOK /\ BufferInv => NothingStranded
    <2>1. TypeOK => \A g \in Goroutine : DOMAIN result[g] = 1..Len(result[g])
      BY DEF TypeOK
    <2> QED
      BY <2>1 DEF BufferInv, NothingStranded, Buffering, KeyFailed
  <1> QED
    BY <1>1, <1>2, <1>3, FrameInvariant, PTL DEF Spec


Pings(g) == pc[g] \in {"wantControl", "control"}

LEMMA PingMove ==
    ASSUME TypeOK, CloseKnown, PingInv, NEW g \in Goroutine,
           \A h \in Goroutine : h # g => Kept(h),
           closeSent => closeSent',
           Pings(g)' => g \in Sender \/ ~closeSent \/ Pings(g),
           \/ out' = out
           \/ /\ ~werr /\ ~Pings(g)' /\ (closeSent => pc[g] = "control")
              /\ \E f \in Frame : out' = Append(out, f) /\ f.from = g
    PROVE  PingInv'
  <1> SUFFICES ASSUME NEW h \in Pinger, NEW j \in DOMAIN out', Behind(h, j)'
               PROVE  /\ closeSent' /\ ~Pings(h)'
                      /\ \A k \in DOMAIN out' : Behind(h, k)' => k = j
    BY DEF PingInv, Pings
  <1>a. h \in Goroutine /\ h \notin Sender
    BY ConnWriteAssumption DEF Goroutine
  \* The loop that had pinged behind a close before this step.
  <1>old. ASSUME NEW i \in DOMAIN out, Behind(h, i)
          PROVE  /\ closeSent /\ closeSent' /\ ~Pings(h) /\ ~Pings(h)'
                 /\ \A k \in DOMAIN out : Behind(h, k) => k = i
    <2>1. closeSent /\ closeSent' /\ ~Pings(h) /\ \A k \in DOMAIN out : Behind(h, k) => k = i
      BY <1>old DEF PingInv, Pings
    <2>2. CASE h = g
      BY <1>a, <2>1, <2>2
    <2>3. CASE h # g
      BY <1>a, <2>1, <2>3 DEF Kept, Pings
    <2> QED
      BY <2>1, <2>2, <2>3
  <1>1. CASE out' = out
    <2>1. \A k \in DOMAIN out : Behind(h, k)' <=> Behind(h, k)
      BY <1>1 DEF Behind, IsClose
    <2> QED
      BY <1>1, <1>old, <2>1
  <1>2. CASE /\ ~werr /\ ~Pings(g)' /\ (closeSent => pc[g] = "control")
             /\ \E f \in Frame : out' = Append(out, f) /\ f.from = g
    <2>1. PICK f \in Frame : out' = Append(out, f) /\ f.from = g
      BY <1>2
    <2>2. PICK l : l = Len(out) + 1
      OBVIOUS
    <2>3. /\ Len(out) \in Nat /\ DOMAIN out = 1..Len(out) /\ DOMAIN out' = 1..l /\ out'[l] = f
          /\ \A i \in DOMAIN out : out'[i] = out[i]
      BY <2>1, <2>2, OneMore
    <2>4. \A k \in DOMAIN out' : k \in DOMAIN out \/ k = l
      BY <2>2, <2>3
    <2>5. \A k \in DOMAIN out : Behind(h, k)' => Behind(h, k)
      BY <2>2, <2>3 DEF Behind, IsClose
    <2>6. ASSUME Behind(h, l)' PROVE h = g /\ closeSent
      <3>1. h = g
        BY <2>1, <2>3, <2>6 DEF Behind
      <3>2. PICK i \in 1..(l - 1) : IsClose(out'[i])
        BY <2>6 DEF Behind, IsClose
      <3>3. i \in DOMAIN out /\ IsClose(out[i])
        BY <2>2, <2>3, <3>2
      <3> QED
        BY <1>2, <3>1, <3>3 DEF CloseKnown
    <2>7. ASSUME Behind(h, l)', NEW k \in DOMAIN out, Behind(h, k) PROVE FALSE
      <3>1. h = g /\ pc[g] = "control"
        BY <1>2, <2>6, <2>7
      <3> QED
        BY <1>old, <2>7, <3>1 DEF Pings
    <2>8. CASE j \in DOMAIN out
      BY <1>old, <2>4, <2>5, <2>7, <2>8
    <2>9. CASE j = l
      <3>1. h = g /\ closeSent'
        BY <2>6, <2>9
      <3>2. ~Pings(h)'
        BY <1>2, <3>1
      <3>3. \A k \in DOMAIN out' : Behind(h, k)' => k = j
        BY <2>4, <2>5, <2>7, <2>9
      <3> QED
        BY <3>1, <3>2, <3>3
    <2> QED
      BY <2>4, <2>8, <2>9
  <1> QED
    BY <1>1, <1>2

LEMMA PingStep ==
    ASSUME TypeOK, DataInHand, CloseKnown, PingInv, NEW g \in Goroutine, Step(g)
    PROVE  PingInv'
  <1>a. pc \in [Goroutine -> PC] /\ closeSent \in BOOLEAN
    BY DEF TypeOK
  <1>kept. \A h \in Goroutine : h # g => Kept(h)
    BY OthersKept
  <1>same. ASSUME out' = out, closeSent' = closeSent, Pings(g)' => g \in Sender \/ ~closeSent \/ Pings(g)
           PROVE  PingInv'
    BY <1>kept, <1>same, PingMove
  <1>1. CASE SendControl(g) \/ LockWriter(g) \/ Trigger(g)
    <2>1. out' = out /\ closeSent' = closeSent
      BY <1>1 DEF SendControl, LockWriter, Trigger, writer
    <2>2. SendControl(g) => g \in Sender
      BY DEF SendControl, CanCall
    <2>3. LockWriter(g) /\ Pings(g)' => Pings(g)
      BY <1>a DEF LockWriter, Goto, Body, Pings
    <2>4. Trigger(g) /\ Pings(g)' => ~closeSent
      BY <1>a DEF Trigger, Goto, MayPing, Pings
    <2> QED
      BY <1>1, <1>same, <2>1, <2>2, <2>3, <2>4
  <1>2. CASE \/ SendData(g) \/ LockData(g) \/ FlushData(g) \/ RenewWriter(g) \/ Renew(g)
             \/ StartLongDataTransmission(g) \/ ClaimTransmission(g) \/ TransmitData(g)
             \/ EndLongDataTransmission(g) \/ ReleaseLongDataTransmission(g) \/ Sleep(g)
    <2>1. out' = out /\ closeSent' = closeSent
      BY <1>2
      DEF SendData, LockData, FlushData, RenewWriter, Renew, StartLongDataTransmission,
          ClaimTransmission, TransmitData, EndLongDataTransmission, ReleaseLongDataTransmission,
          Sleep, FlushWriter, ReplaceWriter, writer
    <2>2. ~Pings(g)'
      BY <1>2, <1>a
      DEF SendData, LockData, FlushData, RenewWriter, Renew, StartLongDataTransmission,
          ClaimTransmission, TransmitData, EndLongDataTransmission, ReleaseLongDataTransmission,
          Sleep, ReturnData, Return, Goto, Pings
    <2> QED
      BY <1>same, <2>1, <2>2
  \* A frame written: a data frame only before the close, a control frame from here.
  <1>write. ASSUME NEW fin \in BOOLEAN, NEW err,
                   BufferedWriteFrame(FrameOf(g, fin), err) \/ SendFrame(FrameOf(g, fin), err),
                   pc[g] = "control" \/ IsDataOpcode(job[g].op),
                   closeSent => closeSent', ~Pings(g)'
            PROVE  PingInv'
    <2>1. PICK f \in Frame : f = FrameOf(g, fin)
      BY FrameOfType
    <2>2. f.from = g /\ f.op = job[g].op
      BY <2>1 DEF FrameOf
    <2>3. \/ out' = out
          \/ ValidateSendFrame(f) = "nil" /\ ~werr /\ out' = Append(out, f)
      BY <1>write, <2>1, WriterEffect
    <2>4. ValidateSendFrame(f) = "nil" => (closeSent => pc[g] = "control")
      BY <1>write, <2>2 DEF ValidateSendFrame
    <2>5. CASE out' = out
      BY <1>kept, <1>write, <2>5, PingMove
    <2>6. CASE ValidateSendFrame(f) = "nil" /\ ~werr /\ out' = Append(out, f)
      BY <1>kept, <1>write, <2>2, <2>4, <2>6, PingMove
    <2> QED
      BY <2>3, <2>5, <2>6
  <1>3. CASE WriteChunk(g)
    <2>1. PICK err \in Outcome, fin \in BOOLEAN : BufferedWriteFrame(FrameOf(g, fin), err)
      BY <1>3 DEF WriteChunk, AfterChunk
    <2>2. IsDataOpcode(job[g].op) /\ closeSent' = closeSent /\ ~Pings(g)'
      BY <1>3, <1>a DEF WriteChunk, AfterChunk, DataInHand, ReturnData, Return, Goto, Pings
    <2> QED
      BY <1>write, <2>1, <2>2
  <1>4. CASE WriteControl(g)
    <2>1. PICK err \in Outcome : SendFrame(FrameOf(g, TRUE), err) /\ closeSent' = ClosedAfter(g, err)
      BY <1>4 DEF WriteControl
    <2>2. pc[g] = "control" /\ ~Pings(g)'
      BY <1>4, <1>a DEF WriteControl, Return, Goto, Pings
    <2>3. closeSent => closeSent'
      BY <2>1 DEF ClosedAfter
    <2> QED
      BY <1>write, <2>1, <2>2, <2>3
  <1>5. CASE WriteFragment(g)
    <2>1. PICK err \in Outcome : SendFrame(FrameOf(g, FALSE), err)
      BY <1>5 DEF WriteFragment
    <2>2. IsDataOpcode(job[g].op) /\ closeSent' = closeSent /\ ~Pings(g)'
      BY <1>5, <1>a DEF WriteFragment, DataInHand, Goto, Pings
    <2> QED
      BY <1>write, <2>1, <2>2
  <1>6. CASE WriteEnd(g)
    <2>1. PICK err \in Outcome : SendFrame(FrameOf(g, TRUE), err)
      BY <1>6 DEF WriteEnd
    <2>2. IsDataOpcode(job[g].op) /\ closeSent' = closeSent /\ ~Pings(g)'
      BY <1>6, <1>a DEF WriteEnd, DataInHand, Goto, Pings
    <2> QED
      BY <1>write, <2>1, <2>2
  <1> QED
    BY <1>1, <1>2, <1>3, <1>4, <1>5, <1>6 DEF Step

\* A close may go out between the ping loop's look at closeSent and its ping: of
\* any one loop at most one ping follows it.
THEOREM OnePingBehindClose == Spec => []OnePingAfterClose
  <1>1. Init => PingInv
    BY DEF Init, PingInv
  <1>2. TypeOK /\ DataInHand /\ CloseInv /\ PingInv /\ [Next]_vars => PingInv'
    <2> SUFFICES ASSUME TypeOK, DataInHand, CloseInv, PingInv, [Next]_vars PROVE PingInv'
      OBVIOUS
    <2>1. CASE UNCHANGED vars
      BY <2>1 DEF vars, writer, PingInv, Behind, IsClose
    <2>2. CASE \E g \in Goroutine : Step(g)
      BY <2>2, PingStep DEF CloseInv
    <2> QED
      BY <2>1, <2>2 DEF Next, Finished
  <1>3. TypeOK /\ PingInv => OnePingAfterClose
    <2> SUFFICES ASSUME TypeOK, PingInv, NEW g \in Pinger
                 PROVE  Cardinality({j \in DOMAIN out : /\ out[j].from = g
                                                        /\ \E i \in 1..(j - 1) : IsClose(out[i])}) <= 1
      BY DEF OnePingAfterClose
    <2> DEFINE behind == {j \in DOMAIN out : /\ out[j].from = g
                                             /\ \E i \in 1..(j - 1) : IsClose(out[i])}
    <2>1. \A j, k \in behind : j = k
      BY DEF PingInv, Behind
    <2>2. behind = {} \/ \E j : behind = {j}
      BY <2>1
    <2> HIDE DEF behind
    <2>3. Cardinality(behind) <= 1
      <3>1. CASE behind = {}
        BY <3>1, FS_EmptySet
      <3>2. CASE \E j : behind = {j}
        <4>1. Cardinality(behind) = 1
          BY <3>2, FS_Singleton
        <4> QED
          BY <4>1
      <3> QED
        BY <2>2, <3>1, <3>2
    <2> QED
      BY <2>3 DEF behind
  <1> QED
    BY <1>1, <1>2, <1>3, FrameInvariant, PTL DEF Spec

-----------------------------------------------------------------------------
(* The stream the peer sees.                                                 *)

\* The i-th frame is the last data frame, and its message goes on.
Unfinished(i) ==
    /\ i \in DOMAIN out /\ IsDataOpcode(out[i].op)
    /\ \A j \in DOMAIN out : IsDataOpcode(out[j].op) => j <= i
    /\ ~out[i].fin /\ ~Returned(out[i])

Closed == \E i \in DOMAIN out : IsClose(out[i])

\* What MessageInProgress says, without its CHOOSE.
MessageKnown ==
    /\ \A i : Unfinished(i) =>
          MessageInProgress = [from |-> out[i].from, call |-> out[i].call, seq |-> out[i].seq]
    /\ (\A i : ~Unfinished(i)) => MessageInProgress = NoOne

LEMMA InProgress ==
    ASSUME TypeOK
    PROVE  MessageKnown
  <1> DEFINE data == {i \in DOMAIN out : IsDataOpcode(out[i].op)}
             last == {i \in data : (\A k \in data : k <= i) /\ ~out[i].fin /\ ~Returned(out[i])}
             f == out[CHOOSE i \in last : TRUE]
  <1>1. \A i : i \in last <=> Unfinished(i)
    BY DEF Unfinished
  <1>2. MessageInProgress = IF last = {} THEN NoOne ELSE [from |-> f.from, call |-> f.call, seq |-> f.seq]
    BY DEF MessageInProgress
  <1>3. DOMAIN out \subseteq Nat
    BY DEF TypeOK
  <1>4. \A i, j : Unfinished(i) /\ Unfinished(j) => i = j
    BY <1>3 DEF Unfinished
  <1> HIDE DEF last
  <1>5. ASSUME NEW i, Unfinished(i) PROVE (CHOOSE j \in last : TRUE) = i
    <2>1. i \in last
      BY <1>1, <1>5
    <2>2. (CHOOSE j \in last : TRUE) \in last
      BY <2>1
    <2> QED
      BY <1>1, <1>4, <1>5, <2>2
  <1> QED
    BY <1>1, <1>2, <1>5 DEF MessageKnown

LEMMA ResultsGrow ==
    ASSUME TypeOK, NEW g \in Goroutine, Step(g), NEW h \in Goroutine
    PROVE  Len(result[h]) <= Len(result'[h])
  <1>a. result \in [Goroutine -> Seq(Result)] /\ Len(result[h]) \in Nat /\ Len(result[g]) \in Nat
    BY DEF TypeOK
  <1>1. \/ result' = result
        \/ \E n, err : Return(g, n, err)
    BY DEF Step, LockWriter, SendData, LockData, WriteChunk, AfterChunk, FlushData, SendControl, WriteControl,
       RenewWriter, Renew, StartLongDataTransmission, ClaimTransmission, TransmitData, WriteFragment,
       EndLongDataTransmission, WriteEnd, ReleaseLongDataTransmission, Trigger, Sleep, ReturnData
  <1>2. CASE result' = result
    BY <1>a, <1>2
  <1>3. CASE \E n, err : Return(g, n, err)
    <2>1. CASE h # g
      BY <1>a, <2>1, OthersKept DEF Kept
    <2>2. CASE h = g
      <3>1. PICK r : result'[g] = Append(result[g], r)
        BY <1>3, <1>a DEF Return
      <3>2. Len(result'[g]) = Len(result[g]) + 1
        BY <1>a, <3>1
      <3> QED
        BY <1>a, <2>2, <3>2
    <2> QED
      BY <2>1, <2>2
  <1> QED
    BY <1>1, <1>2, <1>3

\* What a step does to the stream: nothing, a control frame, or a data frame.
LEMMA StreamEffect ==
    ASSUME TypeOK, NEW g \in Goroutine, Step(g)
    PROVE  \/ out' = out
           \/ \E f \in Frame, fin \in BOOLEAN :
                /\ f = FrameOf(g, fin) /\ out' = Append(out, f)
                /\ ValidateSendFrame(f) = "nil" /\ ~werr
                /\ \/ pc[g] = "control" /\ fin
                   \/ pc[g] \in {"chunk", "fragment", "end"}
  <1>write. ASSUME NEW fin \in BOOLEAN, NEW err,
                   BufferedWriteFrame(FrameOf(g, fin), err) \/ SendFrame(FrameOf(g, fin), err)
            PROVE  \/ out' = out
                   \/ \E f \in Frame : /\ f = FrameOf(g, fin) /\ out' = Append(out, f)
                                       /\ ValidateSendFrame(f) = "nil" /\ ~werr
    <2>1. PICK f \in Frame : f = FrameOf(g, fin)
      BY FrameOfType
    <2> QED
      BY <1>write, <2>1, WriterEffect
  <1>1. CASE \/ LockWriter(g) \/ SendData(g) \/ LockData(g) \/ FlushData(g) \/ SendControl(g)
             \/ RenewWriter(g) \/ Renew(g) \/ StartLongDataTransmission(g) \/ ClaimTransmission(g)
             \/ TransmitData(g) \/ EndLongDataTransmission(g) \/ ReleaseLongDataTransmission(g)
             \/ Trigger(g) \/ Sleep(g)
    BY <1>1
    DEF LockWriter, SendData, LockData, FlushData, SendControl, RenewWriter, Renew,
        StartLongDataTransmission, ClaimTransmission, TransmitData, EndLongDataTransmission,
        ReleaseLongDataTransmission, Trigger, Sleep, FlushWriter, ReplaceWriter, writer
  <1>2. CASE WriteChunk(g)
    <2>1. PICK err \in Outcome, fin \in BOOLEAN : BufferedWriteFrame(FrameOf(g, fin), err)
      BY <1>2 DEF WriteChunk, AfterChunk
    <2> QED
      BY <1>2, <1>write, <2>1 DEF WriteChunk, AfterChunk
  <1>3. CASE WriteControl(g)
    BY <1>3, <1>write DEF WriteControl
  <1>4. CASE WriteFragment(g)
    BY <1>4, <1>write DEF WriteFragment
  <1>5. CASE WriteEnd(g)
    BY <1>5, <1>write DEF WriteEnd
  <1> QED
    BY <1>1, <1>2, <1>3, <1>4, <1>5 DEF Step

\* While a frame is accepted, a close in the stream is a close remembered.
LEMMA NotClosed ==
    ASSUME CloseKnown, ~werr, ~closeSent
    PROVE  ~Closed
  BY DEF CloseKnown, Closed

\* A step that hands nothing over leaves the message open or gives it up.
LEMMA StreamQuiet ==
    ASSUME TypeOK, TypeOK', MessageKnown, MessageKnown', NEW g \in Goroutine, Step(g), out' = out
    PROVE  /\ MessageInProgress' \in {MessageInProgress, NoOne}
           /\ Closed' = Closed
  <1>1. ASSUME NEW i, Unfinished(i)' PROVE Unfinished(i)
    <2>1. i \in DOMAIN out /\ out[i] \in Frame
      BY <1>1 DEF Unfinished, TypeOK
    <2>2. PICK h \in Goroutine : h = out[i].from
      BY <2>1 DEF Frame
    <2>3. Len(result[h]) <= Len(result'[h]) /\ out[i].call \in Nat
      BY <2>1, ResultsGrow DEF Frame
    <2>4. Len(result[h]) \in Nat /\ Len(result'[h]) \in Nat
      BY DEF TypeOK
    <2> QED
      BY <1>1, <2>2, <2>3, <2>4 DEF Unfinished, Returned
  <1>2. ASSUME \E i : Unfinished(i)' PROVE MessageInProgress' = MessageInProgress
    <2>1. PICK i : Unfinished(i)'
      BY <1>2
    <2>2. MessageInProgress' = [from |-> out'[i].from, call |-> out'[i].call, seq |-> out'[i].seq]
      BY <2>1 DEF MessageKnown
    <2>3. MessageInProgress = [from |-> out[i].from, call |-> out[i].call, seq |-> out[i].seq]
      BY <1>1, <2>1 DEF MessageKnown
    <2> QED
      BY <2>2, <2>3
  <1>3. ASSUME \A i : ~Unfinished(i)' PROVE MessageInProgress' = NoOne
    BY <1>3 DEF MessageKnown
  <1>4. Closed' = Closed
    BY DEF Closed, IsClose
  <1> QED
    BY <1>2, <1>3, <1>4

\* A control frame leaves the message as it was: its sender has no part in it.
LEMMA StreamControl ==
    ASSUME TypeOK, TypeOK', MessageKnown, MessageKnown', LockDiscipline, FrameInv,
           NEW g \in Goroutine, Step(g), pc[g] \notin HoldsData,
           NEW f \in Frame, out' = Append(out, f), ~IsDataOpcode(f.op)
    PROVE  MessageInProgress' = MessageInProgress
  <1>1. PICK l : l = Len(out) + 1
    OBVIOUS
  <1>2. /\ Len(out) \in Nat /\ DOMAIN out = 1..Len(out) /\ DOMAIN out' = 1..l /\ out'[l] = f
        /\ \A i \in DOMAIN out : out'[i] = out[i]
    BY <1>1, OneMore
  <1>3. \A i \in DOMAIN out' : i \in DOMAIN out \/ i = l
    BY <1>1, <1>2
  <1>4. \A i \in DOMAIN out : i \in DOMAIN out'
    BY <1>1, <1>2
  <1>5. ASSUME NEW i \in DOMAIN out PROVE Returned(out[i])' <=> Returned(out[i])
    <2>1. out[i] \in Frame
      BY DEF TypeOK
    <2>2. PICK h \in Goroutine : h = out[i].from
      BY <2>1 DEF Frame
    <2>3. out[i].call \in Nat /\ out'[i] = out[i]
      BY <1>2, <2>1 DEF Frame
    <2>4. /\ Len(result[h]) \in Nat /\ Len(result'[h]) \in Nat
          /\ Len(result[h]) <= Len(result'[h])
      BY ResultsGrow DEF TypeOK
    <2>5. CASE h = g
      <3>1. out[i].call <= Len(result[h])
        BY <2>2, <2>5 DEF FrameInv, Labels
      <3> QED
        BY <2>2, <2>3, <2>4, <3>1 DEF Returned
    <2>6. CASE h # g
      <3>1. result'[h] = result[h]
        BY <2>6, OthersKept DEF Kept
      <3> QED
        BY <2>2, <2>3, <3>1 DEF Returned
    <2> QED
      BY <2>5, <2>6
  <1>6. \A i : Unfinished(i)' <=> Unfinished(i)
    <2>1. ASSUME NEW i, i \notin DOMAIN out PROVE ~Unfinished(i)' /\ ~Unfinished(i)
      BY <1>2, <1>3, <2>1 DEF Unfinished
    <2>2. ASSUME NEW i \in DOMAIN out PROVE Unfinished(i)' <=> Unfinished(i)
      <3>1. out'[i] = out[i] /\ (Returned(out[i])' <=> Returned(out[i]))
        BY <1>2, <1>5
      <3>2. (\A j \in DOMAIN out' : IsDataOpcode(out'[j].op) => j <= i)
              <=> (\A j \in DOMAIN out : IsDataOpcode(out[j].op) => j <= i)
        BY <1>2, <1>3, <1>4
      <3> QED
        BY <1>4, <3>1, <3>2 DEF Unfinished
    <2> QED
      BY <2>1, <2>2
  <1>7. CASE \E i : Unfinished(i)
    <2>1. PICK i : Unfinished(i)
      BY <1>7
    <2>2. i \in DOMAIN out /\ out'[i] = out[i]
      BY <1>2, <2>1 DEF Unfinished
    <2>3. /\ MessageInProgress' = [from |-> out'[i].from, call |-> out'[i].call, seq |-> out'[i].seq]
          /\ MessageInProgress = [from |-> out[i].from, call |-> out[i].call, seq |-> out[i].seq]
      BY <1>6, <2>1 DEF MessageKnown
    <2> QED
      BY <2>2, <2>3
  <1>8. CASE \A i : ~Unfinished(i)
    BY <1>6, <1>8 DEF MessageKnown
  <1> QED
    BY <1>7, <1>8

\* What a data frame finds open: nothing if it opens its message, the frame
\* before it if it goes on with it.
LEMMA StreamFinds ==
    ASSUME TypeOK, MessageKnown, LockDiscipline, FrameInv,
           NEW g \in Goroutine, pc[g] \in Writing, ~werr,
           NEW k, k = Current(g), NEW n \in Nat, n = job[g].seq
    PROVE  MessageInProgress = IF n = 0 THEN NoOne ELSE [from |-> g, call |-> k, seq |-> n]
  <1>1. pc[g] \in HoldsData /\ dataFramesWriteLocker = g
    BY DEF LockDiscipline, Writing
  <1>2. Whole(g, k, n) /\ (n > 0 => LastData(g, k, n))
    BY <1>1 DEF FrameInv, Underway
  <1>3. k = Len(result[g]) + 1 /\ Len(result[g]) \in Nat
    BY DEF TypeOK, Current
  <1>4. CASE n = 0
    <2>1. ASSUME NEW i, Unfinished(i) PROVE FALSE
      <3>1. i \in DOMAIN out /\ out[i] \in Frame /\ ~Returned(out[i])
        BY <2>1 DEF Unfinished, TypeOK
      <3>2. PICK h \in Goroutine : h = out[i].from
        BY <3>1 DEF Frame
      <3>3. pc[h] \in HoldsData /\ out[i].call = Current(h)
        BY <3>1, <3>2 DEF FrameInv, Labels, Returned
      <3>4. h = g
        BY <1>1, <3>3 DEF LockDiscipline
      <3>5. out[i].seq \in Nat \ {0}
        BY <3>1 DEF Frame
      <3>6. Of(i, g, k)
        BY <3>2, <3>3, <3>4 DEF Of
      <3>7. out[i].seq <= 0
        BY <1>2, <1>4, <3>1, <3>6 DEF Whole
      <3> QED
        BY <3>5, <3>7
    <2> QED
      BY <1>4, <2>1 DEF MessageKnown
  <1>5. CASE n # 0
    <2>1. n > 0
      BY <1>5
    <2>2. PICK i \in DOMAIN out :
            /\ Of(i, g, k) /\ out[i].seq = n /\ IsDataOpcode(out[i].op) /\ ~out[i].fin
            /\ \A j \in DOMAIN out : IsDataOpcode(out[j].op) => j <= i
      BY <1>2, <2>1 DEF LastData
    <2>3. Unfinished(i)
      BY <1>3, <2>2 DEF Unfinished, Returned, Of
    <2>4. MessageInProgress = [from |-> out[i].from, call |-> out[i].call, seq |-> out[i].seq]
      BY <2>3 DEF MessageKnown
    <2> QED
      BY <1>5, <2>2, <2>4 DEF Of
  <1> QED
    BY <1>4, <1>5

\* What it leaves open: itself or nothing.
LEMMA StreamLeaves ==
    ASSUME TypeOK, MessageKnown', NEW f \in Frame, IsDataOpcode(f.op), out' = Append(out, f)
    PROVE  MessageInProgress' \in
             IF f.fin THEN {NoOne} ELSE {[from |-> f.from, call |-> f.call, seq |-> f.seq], NoOne}
  <1>1. PICK l : l = Len(out) + 1
    OBVIOUS
  <1>2. /\ Len(out) \in Nat /\ DOMAIN out = 1..Len(out) /\ DOMAIN out' = 1..l /\ out'[l] = f
    BY <1>1, OneMore
  <1>3. ASSUME NEW i, Unfinished(i)' PROVE i = l
    <2>1. i \in 1..l /\ l \in 1..l /\ l <= i
      BY <1>1, <1>2, <1>3 DEF Unfinished
    <2> QED
      BY <1>1, <1>2, <2>1
  <1>4. CASE \E i : Unfinished(i)'
    <2>1. Unfinished(l)'
      BY <1>3, <1>4
    <2>2. ~f.fin
      BY <1>2, <2>1 DEF Unfinished
    <2>3. MessageInProgress' = [from |-> out'[l].from, call |-> out'[l].call, seq |-> out'[l].seq]
      BY <2>1 DEF MessageKnown
    <2> QED
      BY <1>2, <2>2, <2>3
  <1>5. CASE \A i : ~Unfinished(i)'
    <2>1. MessageInProgress' = NoOne
      BY <1>5 DEF MessageKnown
    <2> QED
      BY <2>1
  <1> QED
    BY <1>4, <1>5

LEMMA ClosedAppend ==
    ASSUME TypeOK, NEW f \in Frame, out' = Append(out, f)
    PROVE  Closed' <=> Closed \/ IsClose(f)
  <1>1. PICK l : l = Len(out) + 1
    OBVIOUS
  <1>2. /\ Len(out) \in Nat /\ DOMAIN out = 1..Len(out) /\ DOMAIN out' = 1..l /\ out'[l] = f
        /\ \A i \in DOMAIN out : out'[i] = out[i]
    BY <1>1, OneMore
  <1>3. \A i \in DOMAIN out' : i \in DOMAIN out \/ i = l
    BY <1>1, <1>2
  <1>4. l \in DOMAIN out' /\ \A i \in DOMAIN out : i \in DOMAIN out'
    BY <1>1, <1>2
  <1>5. Closed' <=> \E i \in DOMAIN out' : IsClose(out'[i])
    BY DEF Closed, IsClose
  <1> QED
    BY <1>2, <1>3, <1>4, <1>5 DEF Closed

\* Every step of the connection is a step of the stream, or gives a message up,
\* or is none of the peer's business.
LEMMA StreamStep ==
    ASSUME TypeOK, TypeOK', MessageKnown, MessageKnown', LockDiscipline, DataInHand, CloseKnown,
           HandInv, FrameInv, NEW g \in Goroutine, Step(g)
    PROVE  Abstract!Next \/ UNCHANGED <<out, MessageInProgress, Closed>>
  <1>open. Closed = \E i \in DOMAIN out : IsClose(out[i])
    BY DEF Closed
  <1>data. \A op : IsDataOpcode(op) <=> op \in {OpcodeContinuation, OpcodeText, OpcodeBinary}
    BY DEF IsDataOpcode
  <1>codes. /\ OpcodeContinuation = 0 /\ OpcodeText = 1 /\ OpcodeBinary = 2
            /\ OpcodeClose = 8 /\ OpcodePing = 9 /\ OpcodePong = 10
    BY DEF OpcodeContinuation, OpcodeText, OpcodeBinary, OpcodeClose, OpcodePing, OpcodePong
  <1>1. CASE out' = out
    <2>1. MessageInProgress' \in {MessageInProgress, NoOne} /\ Closed' = Closed
      BY <1>1, StreamQuiet
    <2> QED
      BY <1>1, <2>1 DEF Closed, Abstract!Next, Abstract!GiveUp
  <1>2. ASSUME NEW f \in Frame, NEW fin \in BOOLEAN,
               f = FrameOf(g, fin), out' = Append(out, f), ValidateSendFrame(f) = "nil", ~werr
        PROVE  /\ f \in Abstract!Range(out') /\ f \in Abstract!Frame
               /\ f.op = job[g].op /\ f.fin = fin /\ f.fits = job[g].fits
               /\ f.from = g /\ f.call = Current(g) /\ f.seq = job[g].seq + 1
               /\ Closed' <=> Closed \/ IsClose(f)
    <2>1. /\ f.op = job[g].op /\ f.fin = fin /\ f.fits = job[g].fits
          /\ f.from = g /\ f.call = Current(g) /\ f.seq = job[g].seq + 1
      BY <1>2 DEF FrameOf, Current
    <2>2. f \in Abstract!Frame
      BY DEF Frame, Abstract!Frame, Opcode, Abstract!Opcode
    <2>3. Len(out) + 1 \in DOMAIN out' /\ out'[Len(out) + 1] = f
      <3>1. Len(out) \in Nat /\ DOMAIN out' = 1..(Len(out) + 1) /\ out'[Len(out) + 1] = f
        BY <1>2, OneMore
      <3> QED
        BY <3>1
    <2> QED
      BY <1>2, <2>1, <2>2, <2>3, ClosedAppend DEF Abstract!Range
  <1>3. ASSUME NEW f \in Frame, f = FrameOf(g, TRUE), out' = Append(out, f),
               ValidateSendFrame(f) = "nil", ~werr, pc[g] = "control"
        PROVE  Abstract!Next
    <2>1. IsControlOpcode(job[g].op) /\ pc[g] \notin HoldsData
      BY <1>3 DEF HandInv, InHand, HoldsData, InStream
    <2>2. /\ f \in Abstract!Range(out') /\ f \in Abstract!Frame
          /\ f.op = job[g].op /\ f.fin = TRUE
          /\ Closed' <=> Closed \/ IsClose(f)
      BY <1>2, <1>3
    <2>3. ~IsDataOpcode(f.op) /\ IsControlOpcode(f.op)
      BY <1>codes, <1>data, <2>1, <2>2 DEF IsControlOpcode
    <2>4. f.fits /\ (f.op = OpcodeClose => ~closeSent)
      BY <1>3, <2>3 DEF ValidateSendFrame
    <2>5. f.op = OpcodeClose => ~Closed
      BY <1>3, <2>4, NotClosed
    <2>6. MessageInProgress' = MessageInProgress
      BY <1>3, <2>1, <2>3, StreamControl
    <2>7. Abstract!SendControl(f)
      BY <2>2, <2>3, <2>4, <2>5, <2>6
      DEF Abstract!SendControl, Abstract!IsControlOpcode, Abstract!OpcodeClose, Abstract!OpcodePing,
          Abstract!OpcodePong, IsControlOpcode, OpcodeClose, OpcodePing, OpcodePong, Closed, IsClose
    <2> QED
      BY <1>3, <2>2, <2>7 DEF Abstract!Next, Abstract!Send
  <1>4. ASSUME NEW f \in Frame, NEW fin \in BOOLEAN, f = FrameOf(g, fin), out' = Append(out, f),
               ValidateSendFrame(f) = "nil", ~werr, pc[g] \in {"chunk", "fragment", "end"}
        PROVE  Abstract!Next
    <2>1. IsDataOpcode(job[g].op) /\ InOrder(g) /\ pc[g] \in Writing
      BY <1>4 DEF DataInHand, HandInv, InHand, Writing, HoldsData, InStream
    <2>2. /\ f \in Abstract!Range(out') /\ f \in Abstract!Frame
          /\ f.op = job[g].op /\ f.fin = fin
          /\ f.from = g /\ f.call = Current(g) /\ f.seq = job[g].seq + 1
          /\ Closed' <=> Closed \/ IsClose(f)
      BY <1>2, <1>4
    <2>3. PICK k, n : k = Current(g) /\ n = job[g].seq
      OBVIOUS
    <2>4. n \in Nat
      BY <2>3 DEF TypeOK, Job
    <2>5. ~Closed /\ ~Closed'
      <3>1. ~closeSent
        BY <1>4, <2>1, <2>2 DEF ValidateSendFrame
      <3>2. ~IsClose(f)
        BY <1>codes, <1>data, <2>1, <2>2 DEF IsClose
      <3> QED
        BY <1>4, <2>2, <3>1, <3>2, NotClosed
    <2>6. MessageInProgress = IF n = 0 THEN NoOne ELSE [from |-> g, call |-> k, seq |-> n]
      BY <1>4, <2>1, <2>3, <2>4, StreamFinds
    <2>7. MessageInProgress' \in
            IF f.fin THEN {NoOne} ELSE {[from |-> f.from, call |-> f.call, seq |-> f.seq], NoOne}
      BY <1>4, <2>1, <2>2, StreamLeaves
    <2>8. Abstract!Proceed(f)
      BY <2>7 DEF Abstract!Proceed, Abstract!Progress
    <2>9. CASE n = 0
      <3>1. f.op \in {OpcodeText, OpcodeBinary} /\ f.seq = 1
        BY <2>1, <2>2, <2>3, <2>9 DEF InOrder, Opening
      <3>2. Abstract!OpenMessage(f)
        BY <2>5, <2>6, <2>8, <2>9, <3>1
        DEF Abstract!OpenMessage, Abstract!OpcodeText, Abstract!OpcodeBinary, OpcodeText, OpcodeBinary, Closed
      <3> QED
        BY <1>4, <2>2, <3>2 DEF Abstract!Next, Abstract!Send
    <2>10. CASE n # 0
      <3>1. f.op = OpcodeContinuation /\ f.seq > 1 /\ f.seq - 1 = n
        BY <2>1, <2>2, <2>3, <2>4, <2>10 DEF InOrder
      <3>2. MessageInProgress = [from |-> f.from, call |-> f.call, seq |-> f.seq - 1]
        BY <2>2, <2>3, <2>6, <2>10, <3>1
      <3>3. Abstract!ContinueMessage(f)
        BY <2>5, <2>8, <3>1, <3>2
        DEF Abstract!ContinueMessage, Abstract!OpcodeContinuation, OpcodeContinuation, Closed
      <3> QED
        BY <1>4, <2>2, <3>3 DEF Abstract!Next, Abstract!Send
    <2> QED
      BY <2>9, <2>10
  <1> QED
    BY <1>1, <1>3, <1>4, StreamEffect

\* Whatever the callers, their interleaving and the failures, the frames handed
\* to the writer are one stream as MessageStream promises it to the peer.
THEOREM OneLegalStream == Spec => ImplementsMessageStream
  <1>1. Init => Abstract!Init
    <2> SUFFICES ASSUME Init PROVE Abstract!Init
      OBVIOUS
    <2>1. out = <<>> /\ DOMAIN out = {}
      BY DEF Init
    <2>2. MessageInProgress = NoOne
      BY <2>1 DEF MessageInProgress
    <2> QED
      BY <2>1, <2>2 DEF Abstract!Init
  <1>2. /\ TypeOK /\ TypeOK' /\ MessageKnown /\ MessageKnown'
        /\ LockDiscipline /\ DataInHand /\ CloseInv /\ HandInv /\ FrameInv
        /\ [Next]_vars
        => [Abstract!Next]_<<out, MessageInProgress, \E i \in DOMAIN out : IsClose(out[i])>>
    <2> SUFFICES ASSUME TypeOK, TypeOK', MessageKnown, MessageKnown',
                        LockDiscipline, DataInHand, CloseInv, HandInv, FrameInv, [Next]_vars
                 PROVE  Abstract!Next \/ UNCHANGED <<out, MessageInProgress, Closed>>
      BY DEF Closed
    <2>1. CASE UNCHANGED vars
      BY <2>1 DEF vars, writer, MessageInProgress, Returned, Closed, IsClose
    <2>2. CASE \E g \in Goroutine : Step(g)
      BY <2>2, StreamStep DEF CloseInv
    <2> QED
      BY <2>1, <2>2 DEF Next, Finished
  <1>3. TypeOK => MessageKnown
    BY InProgress
  <1> QED
    BY <1>1, <1>2, <1>3, FrameInvariant, PTL DEF Spec, ImplementsMessageStream, Abstract!Spec

=============================================================================
