-------------------------- MODULE ConnWriteProofs --------------------------
(***************************************************************************)
(* Theorems about ConnWrite for every set of goroutines, every bound and     *)
(* every kind of failure.                                                    *)
(***************************************************************************)
EXTENDS ConnWrite, TLAPS

\* A message sender has a chunk left to write until its last one.
ChunkLeft ==
    \A g \in Goroutine : pc[g] \in {"dataLock", "wantChunk", "chunk"} => job[g].left >= 1

\* Type correctness is inductive together with ChunkLeft: without it `left`
\* could go below zero.
TypeInv == TypeOK /\ ChunkLeft

LEMMA OpcodeType ==
    /\ 0 \in Opcode
    /\ OpcodeContinuation \in Opcode
    /\ OpcodePing \in Opcode
  BY DEF Opcode, OpcodeContinuation, OpcodePing

LEMMA NewJobType ==
    ASSUME NEW op \in Opcode, NEW left \in Nat
    PROVE  /\ NewJob(op, TRUE, left) \in Job
           /\ NewJob(op, FALSE, left) \in Job
           /\ NewJob(op, TRUE, left).left = left
  BY DEF NewJob, Job, Outcome

LEMMA NoJobType == NoJob \in Job
  BY DEF NoJob, NewJob, Job, Opcode, Outcome

LEMMA BodyType ==
    ASSUME NEW p \in DOMAIN Body
    PROVE  /\ Body[p] \in HoldsWriter
           /\ Body[p] \in PC
           /\ Body[p] \in HoldsData <=> p \in HoldsData
           /\ Body[p] = "chunk" <=> p = "wantChunk"
           /\ Body[p] \notin {"dataLock", "wantChunk"}
  BY DEF Body, HoldsWriter, PC, HoldsData, InStream

\* The frame in hand is a frame.
LEMMA FrameOfType ==
    ASSUME TypeOK, NEW g \in Goroutine, NEW fin \in BOOLEAN
    PROVE  FrameOf(g, fin) \in Frame
  <1>1. job[g] \in Job /\ Len(result[g]) \in Nat
    BY DEF TypeOK
  <1> QED
    BY <1>1 DEF FrameOf, Frame, Job

\* Whatever the outcome, the writer's variables keep their types.
LEMMA WriterType ==
    ASSUME TypeOK, NEW f \in Frame, NEW err,
           BufferedWriteFrame(f, err) \/ SendFrame(f, err)
    PROVE  /\ out' \in Seq(Frame)
           /\ sent' \in 0..Len(out')
           /\ werr' \in BOOLEAN
  <1>1. out \in Seq(Frame) /\ sent \in 0..Len(out) /\ werr \in BOOLEAN /\ Len(out) \in Nat
    BY DEF TypeOK
  <1>2. Append(out, f) \in Seq(Frame) /\ Len(Append(out, f)) = Len(out) + 1
    BY <1>1
  <1>3. CASE UNCHANGED writer
    BY <1>1, <1>3 DEF writer
  <1>4. CASE BufferAndSpill(f)
    BY <1>1, <1>2, <1>4 DEF BufferAndSpill
  <1>5. CASE BufferAndFlush(f)
    BY <1>1, <1>2, <1>5 DEF BufferAndFlush
  <1>6. CASE BufferAndBreak(f)
    BY <1>1, <1>2, <1>6 DEF BufferAndBreak
  <1> QED
    BY <1>3, <1>4, <1>5, <1>6 DEF BufferedWriteFrame, SendFrame

LEMMA FlushType ==
    ASSUME TypeOK, NEW err, FlushWriter(err)
    PROVE  /\ out' \in Seq(Frame)
           /\ sent' \in 0..Len(out')
           /\ werr' \in BOOLEAN
  <1>1. out \in Seq(Frame) /\ sent \in 0..Len(out) /\ werr \in BOOLEAN /\ Len(out) \in Nat
    BY DEF TypeOK
  <1>2. CASE UNCHANGED writer
    BY <1>1, <1>2 DEF writer
  <1>3. CASE sent' = Len(out) /\ UNCHANGED <<out, werr>>
    BY <1>1, <1>3
  <1>4. CASE sent' \in sent..(Len(out) - 1) /\ werr' = TRUE /\ UNCHANGED out
    BY <1>1, <1>4
  <1> QED
    BY <1>2, <1>3, <1>4 DEF FlushWriter

\* Returning keeps the types of what it writes.
LEMMA ReturnType ==
    ASSUME TypeInv, NEW g \in Goroutine, NEW n \in Nat, NEW err \in Outcome,
           Return(g, n, err)
    PROVE  /\ pc' \in [Goroutine -> PC]
           /\ job' \in [Goroutine -> Job]
           /\ result' \in [Goroutine -> Seq(Result)]
           /\ ChunkLeft'
  <1>1. [frames |-> n, err |-> err] \in Result
    BY DEF Result
  <1>2. Append(result[g], [frames |-> n, err |-> err]) \in Seq(Result)
    BY <1>1 DEF TypeInv, TypeOK
  <1>3. pc' \in [Goroutine -> PC] /\ pc'[g] \in {"idle", "sleep", "stopped"}
    BY DEF Return, Goto, PC, TypeInv, TypeOK
  <1>4. job' \in [Goroutine -> Job]
    BY NoJobType DEF Return, TypeInv, TypeOK
  <1>5. result' \in [Goroutine -> Seq(Result)]
    BY <1>2 DEF Return, TypeInv, TypeOK
  <1>6. \A h \in Goroutine : h # g => pc'[h] = pc[h] /\ job'[h] = job[h]
    BY DEF Return, Goto, TypeInv, TypeOK
  <1> QED
    BY <1>3, <1>4, <1>5, <1>6 DEF TypeInv, ChunkLeft

-----------------------------------------------------------------------------

LEMMA TypeInit == Init => TypeInv
  <1> SUFFICES ASSUME Init PROVE TypeInv
    OBVIOUS
  <1>1. pc \in [Goroutine -> PC] /\ ChunkLeft
    BY DEF Init, PC, ChunkLeft
  <1>2. job \in [Goroutine -> Job] /\ result \in [Goroutine -> Seq(Result)]
    BY NoJobType DEF Init
  <1>3. out \in Seq(Frame) /\ sent \in 0..Len(out) /\ currentTransmitDataMsgOpcode \in Opcode
    BY DEF Init, Opcode
  <1>4. closeSent \in BOOLEAN /\ currentTransmitDataMsgOpened \in BOOLEAN /\ werr \in BOOLEAN
    BY DEF Init
  <1>5. /\ writeLocker \in Goroutine \cup {NoOne}
        /\ dataFramesWriteLocker \in Goroutine \cup {NoOne}
    BY DEF Init
  <1> QED
    BY <1>1, <1>2, <1>3, <1>4, <1>5 DEF TypeInv, TypeOK

LEMMA TypeStep == TypeInv /\ [Next]_vars => TypeInv'
  <1> SUFFICES ASSUME TypeInv, [Next]_vars PROVE TypeInv'
    OBVIOUS
  <1> USE DEF TypeInv
  <1>typ. TypeOK /\ ChunkLeft
    OBVIOUS
  <1>stutter. CASE UNCHANGED vars
    BY <1>stutter DEF TypeOK, ChunkLeft, vars, conn, stream, writer
  <1>step. CASE \E g \in Goroutine : Step(g)
    <2> PICK g \in Goroutine : Step(g)
      BY <1>step
    <2>a. job[g] \in Job /\ Len(result[g]) \in Nat /\ pc[g] \in PC
      BY DEF TypeOK
    <2>1. CASE LockWriter(g)
      <3>1. pc' \in [Goroutine -> PC] /\ ChunkLeft'
        BY <2>1, BodyType DEF LockWriter, Goto, TypeOK, ChunkLeft
      <3> QED
        BY <2>1, <3>1 DEF LockWriter, TypeOK, stream, writer
    <2>2. CASE SendData(g)
      <3>1. \E op \in Opcode, n \in 1..MaxFrames :
               job' = [job EXCEPT ![g] = NewJob(op, TRUE, n)]
        BY <2>2, ConnWriteAssumption DEF SendData
      <3>2. job' \in [Goroutine -> Job] /\ job'[g].left >= 1
        <4>1. PICK op \in Opcode, n \in 1..MaxFrames : job' = [job EXCEPT ![g] = NewJob(op, TRUE, n)]
          BY <3>1
        <4>2. n \in Nat /\ n >= 1
          BY ConnWriteAssumption
        <4>3. NewJob(op, TRUE, n) \in Job /\ NewJob(op, TRUE, n).left = n
          BY <4>2, NewJobType
        <4> QED
          BY <4>1, <4>2, <4>3 DEF TypeOK
      <3>3. pc' \in [Goroutine -> PC] /\ ChunkLeft'
        BY <2>2, <3>1, <3>2 DEF SendData, Goto, PC, TypeOK, ChunkLeft
      <3> QED
        BY <2>2, <3>2, <3>3 DEF SendData, TypeOK, conn, stream, writer
    <2>3. CASE LockData(g)
      <3>1. CASE IsDataOpcode(job[g].op)
        <4>1. pc' \in [Goroutine -> PC] /\ ChunkLeft'
          BY <2>3, <3>1 DEF LockData, Goto, PC, HoldsData, TypeOK, ChunkLeft
        <4> QED
          BY <2>3, <3>1, <4>1 DEF LockData, TypeOK, stream, writer
      <3>2. CASE ~IsDataOpcode(job[g].op)
        <4>1. Return(g, 0, "ErrNotDataFrameOpcode")
          BY <2>3, <3>2 DEF LockData
        <4> QED
          BY <2>3, <3>2, <4>1, ReturnType DEF LockData, TypeOK, stream, writer, Outcome
      <3> QED
        BY <3>1, <3>2
    <2>4. CASE WriteChunk(g)
      <3> PICK err \in Outcome :
            /\ UnlockWriter(err)
            /\ BufferedWriteFrame(FrameOf(g, job[g].left = 1), err)
            /\ \/ err # "nil" /\ ReturnData(g, job[g].seq, err)
               \/ /\ err = "nil"
                  /\ job' = [job EXCEPT ![g].op = OpcodeContinuation,
                                        ![g].seq = @ + 1, ![g].left = @ - 1]
                  /\ Goto(g, IF job[g].left = 1 THEN "wantFlush" ELSE "wantChunk")
                  /\ UNCHANGED <<result, dataFramesWriteLocker>>
        BY <2>4 DEF WriteChunk, AfterChunk
      <3>1. out' \in Seq(Frame) /\ sent' \in 0..Len(out') /\ werr' \in BOOLEAN
        BY FrameOfType, WriterType
      <3>2. CASE err # "nil"
        <4>1. ReturnData(g, job[g].seq, err) /\ job[g].seq \in Nat
          BY <2>a, <3>2 DEF Job
        <4> QED
          BY <2>4, <3>1, <4>1, ReturnType
          DEF WriteChunk, AfterChunk, ReturnData, UnlockWriter, TypeOK, stream
      <3>3. CASE err = "nil"
        <4>1. job[g].left >= 1 /\ job[g].left \in Nat /\ job[g].seq \in Nat
          BY <2>4, <2>a DEF WriteChunk, AfterChunk, ChunkLeft, Job
        <4>2. job' = [job EXCEPT ![g] = [job[g] EXCEPT !.op = OpcodeContinuation,
                                          !.seq = job[g].seq + 1, !.left = job[g].left - 1]]
          BY <3>3
        <4>3. job' \in [Goroutine -> Job]
          <5>0. job[g].left - 1 \in Nat /\ job[g].seq + 1 \in Nat
            BY <4>1
          <5>1. [job[g] EXCEPT !.op = OpcodeContinuation, !.seq = job[g].seq + 1,
                                !.left = job[g].left - 1] \in Job
            BY <2>a, <5>0, OpcodeType DEF Job
          <5> QED
            BY <4>2, <5>1 DEF TypeOK
        <4>4. pc' \in [Goroutine -> PC] /\ ChunkLeft'
          <5>1. pc' \in [Goroutine -> PC] /\ pc'[g] \in {"wantFlush", "wantChunk"}
            BY <3>3 DEF Goto, PC, HoldsData, TypeOK
          <5>2. pc'[g] = "wantChunk" => job[g].left # 1
            BY <3>3 DEF Goto, TypeOK
          <5>3. job'[g].left = job[g].left - 1
            BY <2>a, <4>2 DEF TypeOK, Job
          <5>4. \A h \in Goroutine : h # g => pc'[h] = pc[h] /\ job'[h] = job[h]
            BY <3>3, <4>2 DEF Goto, TypeOK
          <5> QED
            BY <4>1, <5>1, <5>2, <5>3, <5>4 DEF ChunkLeft
        <4> QED
          BY <2>4, <3>1, <3>3, <4>3, <4>4 DEF WriteChunk, AfterChunk, UnlockWriter, TypeOK, stream
      <3> QED
        BY <3>2, <3>3
    <2>5. CASE FlushData(g)
      <3> PICK err \in Outcome :
            UnlockWriter(err) /\ FlushWriter(err) /\ ReturnData(g, job[g].seq, err)
        BY <2>5 DEF FlushData
      <3>1. job[g].seq \in Nat /\ Return(g, job[g].seq, err)
        BY <2>a DEF Job, ReturnData
      <3> QED
        BY <2>5, <3>1, FlushType, ReturnType
        DEF FlushData, ReturnData, UnlockWriter, TypeOK, stream
    <2>6. CASE SendControl(g)
      <3>1. \E op \in Opcode, fits \in BOOLEAN :
               job' = [job EXCEPT ![g] = NewJob(op, fits, 1)]
        <4>1. ControlOp \subseteq Opcode
          BY ConnWriteAssumption DEF Opcode, OpcodeClose, OpcodePing, OpcodePong
        <4> QED
          BY <2>6, <4>1 DEF SendControl
      <3>2. job' \in [Goroutine -> Job]
        <4>1. 1 \in Nat
          OBVIOUS
        <4>2. PICK op \in Opcode : \/ job' = [job EXCEPT ![g] = NewJob(op, TRUE, 1)]
                                  \/ job' = [job EXCEPT ![g] = NewJob(op, FALSE, 1)]
          BY <3>1
        <4>3. NewJob(op, TRUE, 1) \in Job /\ NewJob(op, FALSE, 1) \in Job
          BY <4>1, NewJobType
        <4> QED
          BY <4>2, <4>3 DEF TypeOK
      <3>3. pc' \in [Goroutine -> PC] /\ ChunkLeft'
        BY <2>6, <3>1 DEF SendControl, Goto, PC, Body, TypeOK, ChunkLeft
      <3> QED
        BY <2>6, <3>2, <3>3 DEF SendControl, TypeOK, conn, stream, writer
    <2>7. CASE WriteControl(g)
      <3> PICK err \in Outcome :
            /\ UnlockWriter(err)
            /\ SendFrame(FrameOf(g, TRUE), err)
            /\ closeSent' = ClosedAfter(g, err)
            /\ Return(g, IF err = "nil" THEN 1 ELSE 0, err)
        BY <2>7 DEF WriteControl
      <3>1. out' \in Seq(Frame) /\ sent' \in 0..Len(out') /\ werr' \in BOOLEAN
        BY FrameOfType, WriterType
      <3>2. closeSent' \in BOOLEAN
        BY DEF ClosedAfter, TypeOK
      <3> QED
        BY <2>7, <3>1, <3>2, ReturnType DEF WriteControl, UnlockWriter, TypeOK, stream
    <2>8. CASE RenewWriter(g)
      <3>1. pc' \in [Goroutine -> PC] /\ ChunkLeft'
        BY <2>8 DEF RenewWriter, Goto, PC, Body, TypeOK, ChunkLeft
      <3> QED
        BY <2>8, <3>1 DEF RenewWriter, TypeOK, conn, stream, writer
    <2>9. CASE Renew(g)
      <3> PICK err \in Outcome :
            UnlockWriter(err) /\ ReplaceWriter(err) /\ Return(g, 0, err)
        BY <2>9 DEF Renew
      <3> QED
        BY <2>9, FlushType, ReturnType
        DEF Renew, ReplaceWriter, UnlockWriter, TypeOK, stream
    <2>10. CASE StartLongDataTransmission(g)
      <3>1. CASE Return(g, 0, "ErrCloseAlreadySent")
        BY <2>10, <3>1, ReturnType
        DEF StartLongDataTransmission, TypeOK, conn, stream, writer, Outcome
      <3>2. CASE /\ \E op \in {o \in MsgOpcode : IsDataOpcode(o)} :
                       job' = [job EXCEPT ![g] = NewJob(op, TRUE, MaxFrames)]
                 /\ Goto(g, "startLock")
                 /\ UNCHANGED result
        <4>1. \E op \in Opcode :
                 job' = [job EXCEPT ![g] = NewJob(op, TRUE, MaxFrames)]
          BY <3>2, ConnWriteAssumption
        <4>2. job' \in [Goroutine -> Job]
          <5>1. PICK op \in Opcode : job' = [job EXCEPT ![g] = NewJob(op, TRUE, MaxFrames)]
            BY <4>1
          <5>2. NewJob(op, TRUE, MaxFrames) \in Job
            BY ConnWriteAssumption, NewJobType
          <5> QED
            BY <5>1, <5>2 DEF TypeOK
        <4>3. pc' \in [Goroutine -> PC] /\ ChunkLeft'
          BY <3>2, <4>1 DEF Goto, PC, TypeOK, ChunkLeft
        <4> QED
          BY <2>10, <3>2, <4>2, <4>3
          DEF StartLongDataTransmission, TypeOK, conn, stream, writer
      <3> QED
        BY <2>10, <3>1, <3>2 DEF StartLongDataTransmission
    <2>11. CASE ClaimTransmission(g)
      <3>1. pc' \in [Goroutine -> PC] /\ ChunkLeft'
        BY <2>11 DEF ClaimTransmission, Goto, PC, HoldsData, InStream, TypeOK, ChunkLeft
      <3> QED
        BY <2>11, <2>a, <3>1 DEF ClaimTransmission, TypeOK, writer, Job
    <2>12. CASE TransmitData(g)
      <3>1. job' = [job EXCEPT ![g] = [job[g] EXCEPT !.op = NextOpcode, !.left = job[g].left - 1]]
        BY <2>12 DEF TransmitData
      <3>2. NextOpcode \in Opcode /\ job[g].left - 1 \in Nat
        BY <2>12, <2>a DEF TransmitData, NextOpcode, TypeOK, OpcodeContinuation, Opcode, Job
      <3>3. job' \in [Goroutine -> Job]
        <4>1. [job[g] EXCEPT !.op = NextOpcode, !.left = job[g].left - 1] \in Job
          BY <2>a, <3>2 DEF Job
        <4> QED
          BY <3>1, <4>1 DEF TypeOK
      <3>4. pc' \in [Goroutine -> PC] /\ ChunkLeft'
        BY <2>12, <3>1 DEF TransmitData, Goto, PC, Body, TypeOK, ChunkLeft
      <3> QED
        BY <2>12, <3>3, <3>4 DEF TransmitData, TypeOK, conn, stream, writer
    <2>13. CASE WriteFragment(g)
      <3> PICK err \in Outcome :
            /\ UnlockWriter(err)
            /\ SendFrame(FrameOf(g, FALSE), err)
            /\ currentTransmitDataMsgOpened' = OpenedAfter(err)
            /\ job' = [job EXCEPT ![g].seq = IF err = "nil" THEN @ + 1 ELSE @]
        BY <2>13 DEF WriteFragment
      <3>1. out' \in Seq(Frame) /\ sent' \in 0..Len(out') /\ werr' \in BOOLEAN
        BY FrameOfType, WriterType
      <3>2. job' = [job EXCEPT ![g] = [job[g] EXCEPT !.seq =
                       IF err = "nil" THEN job[g].seq + 1 ELSE job[g].seq]]
        OBVIOUS
      <3>3. job' \in [Goroutine -> Job]
        <4>1. (IF err = "nil" THEN job[g].seq + 1 ELSE job[g].seq) \in Nat
          BY <2>a DEF Job
        <4>2. [job[g] EXCEPT !.seq = IF err = "nil" THEN job[g].seq + 1 ELSE job[g].seq] \in Job
          BY <2>a, <4>1 DEF Job
        <4> QED
          BY <3>2, <4>2 DEF TypeOK
      <3>4. pc' \in [Goroutine -> PC] /\ ChunkLeft'
        BY <2>13, <3>2 DEF WriteFragment, Goto, PC, HoldsData, InStream, TypeOK, ChunkLeft
      <3>5. currentTransmitDataMsgOpened' \in BOOLEAN
        BY DEF OpenedAfter, TypeOK
      <3> QED
        BY <2>13, <3>1, <3>3, <3>4, <3>5 DEF WriteFragment, UnlockWriter, TypeOK
    <2>14. CASE EndLongDataTransmission(g)
      <3>1. job' = [job EXCEPT ![g] = [job[g] EXCEPT !.op = NextOpcode]]
        BY <2>14 DEF EndLongDataTransmission
      <3>2. NextOpcode \in Opcode
        BY DEF NextOpcode, TypeOK, OpcodeContinuation, Opcode
      <3>3. job' \in [Goroutine -> Job]
        <4>1. [job[g] EXCEPT !.op = NextOpcode] \in Job
          BY <2>a, <3>2 DEF Job
        <4> QED
          BY <3>1, <4>1 DEF TypeOK
      <3>4. pc' \in [Goroutine -> PC] /\ ChunkLeft'
        BY <2>14, <3>1 DEF EndLongDataTransmission, Goto, PC, Body, TypeOK, ChunkLeft
      <3> QED
        BY <2>14, <3>3, <3>4 DEF EndLongDataTransmission, TypeOK, conn, stream, writer
    <2>15. CASE WriteEnd(g)
      <3> PICK err \in Outcome :
            /\ UnlockWriter(err)
            /\ SendFrame(FrameOf(g, TRUE), err)
            /\ job' = [job EXCEPT ![g].seq = IF err = "nil" THEN @ + 1 ELSE @, ![g].err = err]
        BY <2>15 DEF WriteEnd
      <3>1. out' \in Seq(Frame) /\ sent' \in 0..Len(out') /\ werr' \in BOOLEAN
        BY FrameOfType, WriterType
      <3>2. job' = [job EXCEPT ![g] = [job[g] EXCEPT !.seq =
                       IF err = "nil" THEN job[g].seq + 1 ELSE job[g].seq, !.err = err]]
        OBVIOUS
      <3>3. job' \in [Goroutine -> Job]
        <4>1. (IF err = "nil" THEN job[g].seq + 1 ELSE job[g].seq) \in Nat
          BY <2>a DEF Job
        <4>2. [job[g] EXCEPT !.seq = IF err = "nil" THEN job[g].seq + 1 ELSE job[g].seq,
                             !.err = err] \in Job
          BY <2>a, <4>1 DEF Job
        <4> QED
          BY <3>2, <4>2 DEF TypeOK
      <3>4. pc' \in [Goroutine -> PC] /\ ChunkLeft'
        BY <2>15, <3>2 DEF WriteEnd, Goto, PC, HoldsData, InStream, TypeOK, ChunkLeft
      <3> QED
        BY <2>15, <3>1, <3>3, <3>4 DEF WriteEnd, UnlockWriter, TypeOK, stream
    <2>16. CASE ReleaseLongDataTransmission(g)
      <3>1. PICK err \in Outcome : Return(g, job[g].seq, err)
        BY <2>16, <2>a DEF ReleaseLongDataTransmission, ReturnData, Job, Outcome
      <3>2. job[g].seq \in Nat /\ dataFramesWriteLocker' = NoOne
        BY <2>16, <2>a DEF ReleaseLongDataTransmission, ReturnData, Job
      <3>3. /\ pc' \in [Goroutine -> PC]
            /\ job' \in [Goroutine -> Job]
            /\ result' \in [Goroutine -> Seq(Result)]
            /\ ChunkLeft'
        BY <3>1, <3>2, ReturnType
      <3>4. /\ currentTransmitDataMsgOpcode' \in Opcode
            /\ currentTransmitDataMsgOpened' \in BOOLEAN
        BY <2>16, OpcodeType DEF ReleaseLongDataTransmission, ResetTransmission
      <3> QED
        BY <2>16, <3>2, <3>3, <3>4 DEF ReleaseLongDataTransmission, TypeOK, writer
    <2>17. CASE Trigger(g)
      <3>1. CASE UNCHANGED job
        <4>1. pc' \in [Goroutine -> PC] /\ ChunkLeft'
          BY <2>17, <3>1 DEF Trigger, Goto, PC, Body, TypeOK, ChunkLeft
        <4> QED
          BY <2>17, <3>1, <4>1 DEF Trigger, TypeOK, conn, stream, writer
      <3>2. CASE /\ job' = [job EXCEPT ![g] = NewJob(OpcodePing, TRUE, 1)]
                 /\ Goto(g, "wantControl")
        <4>1. job' \in [Goroutine -> Job]
          <5>1. NewJob(OpcodePing, TRUE, 1) \in Job
            <6>1. 1 \in Nat
              OBVIOUS
            <6> QED
              BY <6>1, NewJobType, OpcodeType
          <5> QED
            BY <3>2, <5>1 DEF TypeOK
        <4>2. pc' \in [Goroutine -> PC] /\ ChunkLeft'
          BY <3>2 DEF Goto, PC, Body, TypeOK, ChunkLeft
        <4> QED
          BY <2>17, <4>1, <4>2 DEF Trigger, TypeOK, conn, stream, writer
      <3> QED
        BY <2>17, <3>1, <3>2 DEF Trigger
    <2>18. CASE Sleep(g)
      <3>1. pc' \in [Goroutine -> PC] /\ ChunkLeft'
        BY <2>18 DEF Sleep, Goto, PC, TypeOK, ChunkLeft
      <3> QED
        BY <2>18, <3>1 DEF Sleep, TypeOK, conn, stream, writer
    <2> QED
      BY <2>1, <2>2, <2>3, <2>4, <2>5, <2>6, <2>7, <2>8, <2>9, <2>10, <2>11, <2>12,
         <2>13, <2>14, <2>15, <2>16, <2>17, <2>18 DEF Step
  <1> QED
    BY <1>stutter, <1>step DEF Next, Finished

\* Every variable of ConnWrite keeps its type on every behaviour, and the writer
\* is never credited with more frames than it was handed.
THEOREM TypeCorrect == Spec => []TypeOK
  <1>1. Spec => []TypeInv
    BY TypeInit, TypeStep, PTL DEF Spec
  <1>2. TypeInv => TypeOK
    BY DEF TypeInv
  <1> QED
    BY <1>1, <1>2, PTL

-----------------------------------------------------------------------------
(* The locks.                                                                *)

\* What one step may do to writeLocker as its goroutine goes from p to q ...
WriterMove(g, p, q) ==
    \/ writeLocker' = writeLocker /\ (q \in HoldsWriter <=> p \in HoldsWriter)
    \/ writeLocker = NoOne /\ writeLocker' = g /\ q \in HoldsWriter
    \/ p \in HoldsWriter /\ writeLocker' = NoOne /\ q \notin HoldsWriter

\* ... and to dataFramesWriteLocker.
DataMove(g, p, q) ==
    \/ dataFramesWriteLocker' = dataFramesWriteLocker /\ (q \in HoldsData <=> p \in HoldsData)
    \/ dataFramesWriteLocker = NoOne /\ dataFramesWriteLocker' = g /\ q \in HoldsData
    \/ p \in HoldsData /\ dataFramesWriteLocker' = NoOne /\ q \notin HoldsData

LEMMA LockMove ==
    ASSUME TypeOK, LockDiscipline, NEW g \in Goroutine, NEW q, Goto(g, q),
           WriterMove(g, pc[g], q), DataMove(g, pc[g], q)
    PROVE  LockDiscipline'
  <1>1. pc'[g] = q /\ \A h \in Goroutine : h # g => pc'[h] = pc[h]
    BY DEF Goto, TypeOK
  <1>2. NoOne \notin Goroutine
    BY ConnWriteAssumption
  <1>3. \A h \in Goroutine : pc'[h] \in HoldsWriter <=> writeLocker' = h
    BY <1>1, <1>2 DEF LockDiscipline, WriterMove
  <1>4. \A h \in Goroutine : pc'[h] \in HoldsData <=> dataFramesWriteLocker' = h
    BY <1>1, <1>2 DEF LockDiscipline, DataMove
  <1> QED
    BY <1>3, <1>4 DEF LockDiscipline

LEMMA ReturnMove ==
    ASSUME NEW g, NEW n, NEW err, Return(g, n, err)
    PROVE  \E q : q \notin HoldsWriter /\ q \notin HoldsData /\ Goto(g, q)
  <1> DEFINE q == IF g \in Sender THEN "idle" ELSE IF err = "nil" THEN "sleep" ELSE "stopped"
  <1>1. Goto(g, q)
    BY DEF Return
  <1>2. q \notin HoldsWriter /\ q \notin HoldsData
    BY DEF HoldsWriter, HoldsData, InStream
  <1> QED
    BY <1>1, <1>2

LEMMA LockStep ==
    ASSUME TypeOK, LockDiscipline, NEW g \in Goroutine, Step(g)
    PROVE  LockDiscipline'
  <1> USE DEF WriterMove, DataMove, conn
  <1>1. CASE LockWriter(g)
    BY <1>1, BodyType, LockMove DEF LockWriter, Body, HoldsWriter
  <1>2. CASE SendData(g)
    BY <1>2, LockMove DEF SendData, CanCall, HoldsWriter, HoldsData, InStream
  <1>3. CASE LockData(g)
    <2>1. CASE IsDataOpcode(job[g].op)
      BY <1>3, <2>1, LockMove DEF LockData, HoldsWriter, HoldsData
    <2>2. CASE ~IsDataOpcode(job[g].op)
      <3>1. PICK q : q \notin HoldsWriter /\ q \notin HoldsData /\ Goto(g, q)
        BY <1>3, <2>2, ReturnMove DEF LockData
      <3>2. pc[g] \notin HoldsWriter /\ pc[g] \notin HoldsData
        BY <1>3 DEF LockData, HoldsWriter, HoldsData, InStream
      <3> QED
        BY <1>3, <2>2, <3>1, <3>2, LockMove DEF LockData
    <2> QED
      BY <2>1, <2>2
  <1>4. CASE WriteChunk(g)
    <2>1. pc[g] \in HoldsWriter /\ pc[g] \in HoldsData /\ writeLocker' = NoOne
      BY <1>4 DEF WriteChunk, AfterChunk, UnlockWriter, HoldsWriter, HoldsData
    <2>2. CASE \E err \in Outcome : ReturnData(g, job[g].seq, err)
      <3>1. PICK q : q \notin HoldsWriter /\ q \notin HoldsData /\ Goto(g, q)
        BY <2>2, ReturnMove DEF ReturnData
      <3>2. dataFramesWriteLocker' = NoOne
        BY <2>2 DEF ReturnData
      <3> QED
        BY <2>1, <3>1, <3>2, LockMove
    <2>3. CASE /\ Goto(g, IF job[g].left = 1 THEN "wantFlush" ELSE "wantChunk")
               /\ UNCHANGED dataFramesWriteLocker
      BY <2>1, <2>3, LockMove DEF HoldsWriter, HoldsData
    <2> QED
      BY <1>4, <2>2, <2>3 DEF WriteChunk, AfterChunk
  <1>5. CASE FlushData(g)
    <2>1. pc[g] \in HoldsWriter /\ pc[g] \in HoldsData
      BY <1>5 DEF FlushData, HoldsWriter, HoldsData
    <2>2. PICK err \in Outcome : UnlockWriter(err) /\ ReturnData(g, job[g].seq, err)
      BY <1>5 DEF FlushData
    <2>3. PICK q : q \notin HoldsWriter /\ q \notin HoldsData /\ Goto(g, q)
      BY <2>2, ReturnMove DEF ReturnData
    <2> QED
      BY <2>1, <2>2, <2>3, LockMove DEF ReturnData, UnlockWriter
  <1>6. CASE SendControl(g)
    BY <1>6, LockMove DEF SendControl, CanCall, HoldsWriter, HoldsData, InStream
  <1>7. CASE WriteControl(g)
    <2>1. pc[g] \in HoldsWriter /\ pc[g] \notin HoldsData
      BY <1>7 DEF WriteControl, HoldsWriter, HoldsData, InStream
    <2>2. PICK err \in Outcome :
            UnlockWriter(err) /\ Return(g, IF err = "nil" THEN 1 ELSE 0, err)
      BY <1>7 DEF WriteControl
    <2>3. PICK q : q \notin HoldsWriter /\ q \notin HoldsData /\ Goto(g, q)
      BY <2>2, ReturnMove
    <2> QED
      BY <1>7, <2>1, <2>2, <2>3, LockMove DEF WriteControl, UnlockWriter
  <1>8. CASE RenewWriter(g)
    BY <1>8, LockMove DEF RenewWriter, CanCall, HoldsWriter, HoldsData, InStream
  <1>9. CASE Renew(g)
    <2>1. pc[g] \in HoldsWriter /\ pc[g] \notin HoldsData
      BY <1>9 DEF Renew, HoldsWriter, HoldsData, InStream
    <2>2. PICK err \in Outcome : UnlockWriter(err) /\ Return(g, 0, err)
      BY <1>9 DEF Renew
    <2>3. PICK q : q \notin HoldsWriter /\ q \notin HoldsData /\ Goto(g, q)
      BY <2>2, ReturnMove
    <2> QED
      BY <1>9, <2>1, <2>2, <2>3, LockMove DEF Renew, UnlockWriter
  <1>10. CASE StartLongDataTransmission(g)
    <2>1. pc[g] \notin HoldsWriter /\ pc[g] \notin HoldsData
      BY <1>10 DEF StartLongDataTransmission, CanCall, HoldsWriter, HoldsData, InStream
    <2>2. \E q : q \notin HoldsWriter /\ q \notin HoldsData /\ Goto(g, q)
      <3>1. CASE Return(g, 0, "ErrCloseAlreadySent")
        BY <3>1, ReturnMove
      <3>2. CASE Goto(g, "startLock")
        BY <3>2 DEF HoldsWriter, HoldsData, InStream
      <3> QED
        BY <1>10, <3>1, <3>2 DEF StartLongDataTransmission
    <2> QED
      BY <1>10, <2>1, <2>2, LockMove DEF StartLongDataTransmission
  <1>11. CASE ClaimTransmission(g)
    BY <1>11, LockMove DEF ClaimTransmission, HoldsWriter, HoldsData, InStream
  <1>12. CASE TransmitData(g)
    BY <1>12, LockMove DEF TransmitData, HoldsWriter, HoldsData, InStream
  <1>13. CASE WriteFragment(g)
    <2>1. writeLocker' = NoOne
      BY <1>13 DEF WriteFragment, UnlockWriter
    <2> QED
      BY <1>13, <2>1, LockMove DEF WriteFragment, HoldsWriter, HoldsData, InStream
  <1>14. CASE EndLongDataTransmission(g)
    BY <1>14, LockMove DEF EndLongDataTransmission, HoldsWriter, HoldsData, InStream
  <1>15. CASE WriteEnd(g)
    <2>1. writeLocker' = NoOne
      BY <1>15 DEF WriteEnd, UnlockWriter
    <2> QED
      BY <1>15, <2>1, LockMove DEF WriteEnd, HoldsWriter, HoldsData, InStream
  <1>16. CASE ReleaseLongDataTransmission(g)
    <2>1. pc[g] \notin HoldsWriter /\ pc[g] \in HoldsData
      BY <1>16 DEF ReleaseLongDataTransmission, HoldsWriter, HoldsData, InStream
    <2>2. PICK q : q \notin HoldsWriter /\ q \notin HoldsData /\ Goto(g, q)
      BY <1>16, ReturnMove DEF ReleaseLongDataTransmission, ReturnData
    <2> QED
      BY <1>16, <2>1, <2>2, LockMove DEF ReleaseLongDataTransmission, ReturnData
  <1>17. CASE Trigger(g)
    BY <1>17, LockMove DEF Trigger, HoldsWriter, HoldsData, InStream
  <1>18. CASE Sleep(g)
    BY <1>18, LockMove DEF Sleep, HoldsWriter, HoldsData, InStream
  <1> QED
    BY <1>1, <1>2, <1>3, <1>4, <1>5, <1>6, <1>7, <1>8, <1>9, <1>10, <1>11, <1>12,
       <1>13, <1>14, <1>15, <1>16, <1>17, <1>18 DEF Step

\* On every behaviour each lock is held by exactly the goroutine whose code is
\* between its Lock and its Unlock, so no two are inside either at once.
THEOREM LocksHeld == Spec => []LockDiscipline
  <1>1. Init => LockDiscipline
    BY ConnWriteAssumption DEF Init, LockDiscipline, HoldsWriter, HoldsData, InStream
  <1>2. TypeOK /\ LockDiscipline /\ [Next]_vars => LockDiscipline'
    <2> SUFFICES ASSUME TypeOK, LockDiscipline, [Next]_vars PROVE LockDiscipline'
      OBVIOUS
    <2>1. CASE UNCHANGED vars
      BY <2>1 DEF vars, conn, LockDiscipline
    <2>2. CASE \E g \in Goroutine : Step(g)
      BY <2>2, LockStep
    <2> QED
      BY <2>1, <2>2 DEF Next, Finished
  <1> QED
    BY <1>1, <1>2, TypeCorrect, PTL DEF Spec

-----------------------------------------------------------------------------
(* The close rule.                                                           *)

\* Where a message is being sent, the frame in hand is a data frame.
DataInHand ==
    /\ \A g \in Goroutine :
          pc[g] \in {"startLock", "wantChunk", "chunk", "wantFragment", "fragment", "wantEnd", "end"}
              => IsDataOpcode(job[g].op)
    /\ IsDataOpcode(currentTransmitDataMsgOpcode)

\* A close handed to the writer is on the wire and remembered, or it is stuck
\* behind the writer's sticky error.  This is what makes the close rule
\* inductive: the close of a failed write is not remembered in closeSent, and
\* nothing follows it because nothing follows in that writer at all.
CloseKnown ==
    \A i \in DOMAIN out : IsClose(out[i]) => \/ closeSent /\ i <= sent
                                             \/ werr /\ sent < i

CloseInv == NothingFollowsClose /\ CloseSentIsTheWire /\ CloseKnown

\* What a write does to the writer: nothing, or one valid frame more.
LEMMA WriterEffect ==
    ASSUME TypeOK, NEW f \in Frame, NEW err,
           BufferedWriteFrame(f, err) \/ SendFrame(f, err)
    PROVE  \/ err # "nil" /\ UNCHANGED <<out, sent, werr>>
           \/ /\ ValidateSendFrame(f) = "nil" /\ ~werr
              /\ out' = Append(out, f)
              /\ sent' \in Nat /\ sent <= sent'
              /\ \/ err = "nil" /\ ~werr' /\ sent' <= Len(out) + 1
                 \/ err # "nil" /\ werr' /\ sent' <= Len(out)
  <1>1. sent \in Nat /\ sent <= Len(out) /\ Len(out) \in Nat /\ werr \in BOOLEAN
    BY DEF TypeOK
  <1>2. Len(Append(out, f)) = Len(out) + 1
    BY DEF TypeOK
  <1>3. CASE Refused(f, err) /\ UNCHANGED writer
    BY <1>3 DEF Refused, writer
  <1>4. CASE Accepted(f) /\ err = "nil" /\ BufferAndSpill(f)
    BY <1>1, <1>2, <1>4 DEF Accepted, BufferAndSpill
  <1>5. CASE Accepted(f) /\ err = "nil" /\ BufferAndFlush(f)
    BY <1>1, <1>2, <1>5 DEF Accepted, BufferAndFlush
  <1>6. CASE Accepted(f) /\ err = "writeErr" /\ BufferAndBreak(f)
    <2>1. /\ werr' /\ out' = Append(out, f)
          /\ ValidateSendFrame(f) = "nil" /\ ~werr
      BY <1>6 DEF Accepted, BufferAndBreak
    <2>2. sent' \in Nat /\ sent <= sent' /\ sent' <= Len(out)
      BY <1>1, <1>6 DEF BufferAndBreak
    <2>3. err # "nil"
      BY <1>6
    <2> QED
      BY <2>1, <2>2, <2>3
  <1> QED
    BY <1>3, <1>4, <1>5, <1>6 DEF BufferedWriteFrame, SendFrame

\* sendFrame returns nil only with the whole buffer on the wire.
LEMMA SendFrameFlushes ==
    ASSUME TypeOK, NEW f \in Frame, SendFrame(f, "nil")
    PROVE  out' = Append(out, f) /\ sent' = Len(out) + 1
  <1>1. Len(Append(out, f)) = Len(out) + 1
    BY DEF TypeOK
  <1> QED
    BY <1>1 DEF SendFrame, Refused, BufferAndFlush

\* One valid frame more keeps the close rule, whatever becomes of closeSent as
\* long as it is set exactly for a close that went out.
LEMMA CloseAppend ==
    ASSUME TypeOK, CloseInv, NEW f \in Frame,
           ValidateSendFrame(f) = "nil", ~werr,
           out' = Append(out, f),
           sent' \in Nat, sent <= sent', sent' <= Len(out) + 1,
           closeSent' \in BOOLEAN,
           werr' => sent' <= Len(out),
           IF IsClose(f) /\ ~werr' THEN closeSent' /\ sent' = Len(out) + 1
                                   ELSE closeSent' = closeSent
    PROVE  CloseInv'
  <1> DEFINE n == Len(out)
  <1>1. /\ n \in Nat /\ out \in Seq(Frame) /\ DOMAIN out = 1..n
        /\ sent \in Nat /\ sent <= n
    BY DEF TypeOK
  <1>2. /\ DOMAIN out' = 1..(n + 1)
        /\ \A i \in 1..n : out'[i] = out[i]
        /\ out'[n + 1] = f
    BY <1>1
  <1>3. closeSent => ~IsDataOpcode(f.op) /\ ~IsClose(f)
    BY DEF ValidateSendFrame, IsClose
  <1>4. \A i \in 1..n : IsClose(out[i]) => closeSent /\ i <= sent
    BY <1>1 DEF CloseInv, CloseKnown
  <1>5. CloseKnown'
    <2> SUFFICES ASSUME NEW i \in 1..(n + 1), IsClose(out'[i])
                 PROVE  \/ closeSent' /\ i <= sent'
                        \/ werr' /\ sent' < i
      BY <1>2 DEF CloseKnown, IsClose
    <2>1. CASE i \in 1..n
      <3>1. closeSent /\ i <= sent
        BY <1>2, <1>4, <2>1 DEF IsClose
      <3> QED
        BY <1>1, <1>3, <3>1
    <2>2. CASE i = n + 1
      BY <1>1, <1>2, <2>2 DEF IsClose
    <2> QED
      BY <1>1, <2>1, <2>2
  <1>6. NothingFollowsClose'
    <2> SUFFICES ASSUME NEW i \in 1..(n + 1), NEW j \in 1..(n + 1), i < j, IsClose(out'[i])
                 PROVE  ~IsDataOpcode(out'[j].op) /\ ~IsClose(out'[j])
      BY <1>2 DEF NothingFollowsClose, IsClose
    <2>1. i \in 1..n /\ IsClose(out[i])
      BY <1>1, <1>2 DEF IsClose
    <2>2. CASE j \in 1..n
      BY <1>1, <1>2, <2>1, <2>2 DEF CloseInv, NothingFollowsClose, IsClose
    <2>3. CASE j = n + 1
      BY <1>2, <1>3, <1>4, <2>1, <2>3 DEF IsClose
    <2> QED
      BY <1>1, <2>2, <2>3
  <1>7. CloseSentIsTheWire'
    <2>1. ASSUME closeSent' PROVE \E i \in 1..sent' : IsClose(out'[i])
      <3>1. CASE IsClose(f) /\ ~werr'
        BY <1>1, <1>2, <3>1 DEF IsClose
      <3>2. CASE ~(IsClose(f) /\ ~werr')
        <4>1. PICK i \in 1..sent : IsClose(out[i])
          BY <2>1, <3>2 DEF CloseInv, CloseSentIsTheWire
        <4> QED
          BY <1>1, <1>2, <4>1 DEF IsClose
      <3> QED
        BY <3>1, <3>2
    <2>2. ASSUME NEW i \in 1..sent', IsClose(out'[i]) PROVE closeSent'
      <3>1. i \in DOMAIN out' /\ ~(sent' < i)
        BY <1>1, <1>2
      <3> QED
        BY <1>5, <2>2, <3>1 DEF CloseKnown, IsClose
    <2> QED
      BY <2>1, <2>2 DEF CloseSentIsTheWire, IsClose
  <1> QED
    BY <1>5, <1>6, <1>7 DEF CloseInv

LEMMA DataInHandInit == Init => DataInHand
  BY DEF Init, DataInHand, IsDataOpcode, OpcodeContinuation

\* A message's frames are data frames on every step: only the opcodes Start and
\* SendData let through, and continuations.
LEMMA DataInHandStep ==
    ASSUME TypeOK, DataInHand, NEW g \in Goroutine, Step(g)
    PROVE  DataInHand'
  <1> DEFINE Sends == {"startLock", "wantChunk", "chunk", "wantFragment", "fragment", "wantEnd", "end"}
  <1>a. job[g] \in Job /\ job \in [Goroutine -> Job] /\ pc \in [Goroutine -> PC]
    BY DEF TypeOK
  <1>cont. IsDataOpcode(OpcodeContinuation) /\ IsDataOpcode(0)
    BY DEF IsDataOpcode, OpcodeContinuation
  <1>next. IsDataOpcode(NextOpcode)
    BY <1>cont DEF NextOpcode, DataInHand
  <1>own. UNCHANGED currentTransmitDataMsgOpcode => IsDataOpcode(currentTransmitDataMsgOpcode')
    BY DEF DataInHand
  \* Enough for g alone: nobody else moves.
  <1>g. ASSUME NEW q, Goto(g, q), NEW j, job' = [job EXCEPT ![g] = j],
               q \in Sends => IsDataOpcode(j.op),
               IsDataOpcode(currentTransmitDataMsgOpcode')
        PROVE  DataInHand'
    <2>1. pc'[g] = q /\ job'[g] = j
      BY <1>a, <1>g DEF Goto
    <2>2. \A h \in Goroutine : h # g => pc'[h] = pc[h] /\ job'[h] = job[h]
      BY <1>a, <1>g DEF Goto
    <2> QED
      BY <1>g, <2>1, <2>2 DEF DataInHand
  <1>else. ASSUME NEW q, Goto(g, q), q \notin Sends, \E j : job' = [job EXCEPT ![g] = j],
                  UNCHANGED currentTransmitDataMsgOpcode
           PROVE  DataInHand'
    <2>1. PICK j : job' = [job EXCEPT ![g] = j]
      BY <1>else
    <2> QED
      BY <1>else, <1>own, <1>g, <2>1
  <1>ret. ASSUME NEW n, NEW err, Return(g, n, err), IsDataOpcode(currentTransmitDataMsgOpcode')
          PROVE  DataInHand'
    <2> DEFINE q == IF g \in Sender THEN "idle" ELSE IF err = "nil" THEN "sleep" ELSE "stopped"
    <2>1. Goto(g, q) /\ job' = [job EXCEPT ![g] = NoJob] /\ q \notin Sends
      BY <1>ret DEF Return
    <2> HIDE DEF q
    <2> QED
      BY <1>ret, <1>g, <2>1
  <1>stay. ASSUME NEW q, Goto(g, q), UNCHANGED job, q \in Sends => IsDataOpcode(job[g].op),
                  IsDataOpcode(currentTransmitDataMsgOpcode')
           PROVE  DataInHand'
    <2>1. job' = [job EXCEPT ![g] = job[g]]
      BY <1>a, <1>stay
    <2> QED
      BY <1>stay, <1>g, <2>1
  <1>1. CASE LockWriter(g)
    <2>1. pc[g] \in DOMAIN Body /\ Goto(g, Body[pc[g]]) /\ UNCHANGED <<job, currentTransmitDataMsgOpcode>>
      BY <1>1 DEF LockWriter, stream
    <2>2. Body[pc[g]] \in Sends => IsDataOpcode(job[g].op)
      BY <2>1 DEF Body, DataInHand
    <2> QED
      BY <1>own, <1>stay, <2>1, <2>2
  <1>2. CASE SendData(g)
    <2>1. PICK op, n : job' = [job EXCEPT ![g] = NewJob(op, TRUE, n)]
      BY <1>2 DEF SendData
    <2>2. Goto(g, "dataLock") /\ UNCHANGED currentTransmitDataMsgOpcode
      BY <1>2 DEF SendData, stream
    <2>3. "dataLock" \notin Sends
      OBVIOUS
    <2> QED
      BY <1>else, <2>1, <2>2, <2>3
  <1>3. CASE LockData(g)
    <2>1. UNCHANGED currentTransmitDataMsgOpcode
      BY <1>3 DEF LockData, stream
    <2>2. CASE IsDataOpcode(job[g].op)
      <3>1. Goto(g, "wantChunk") /\ UNCHANGED job
        BY <1>3, <2>2 DEF LockData
      <3> QED
        BY <1>own, <1>stay, <2>1, <2>2, <3>1
    <2>3. CASE ~IsDataOpcode(job[g].op)
      BY <1>3, <1>own, <1>ret, <2>1, <2>3 DEF LockData
    <2> QED
      BY <2>2, <2>3
  <1>4. CASE WriteChunk(g)
    <2>1. UNCHANGED currentTransmitDataMsgOpcode
      BY <1>4 DEF WriteChunk, AfterChunk, stream
    <2>2. CASE \E err \in Outcome : ReturnData(g, job[g].seq, err)
      BY <1>own, <1>ret, <2>1, <2>2 DEF ReturnData
    <2>3. CASE /\ job' = [job EXCEPT ![g].op = OpcodeContinuation,
                                     ![g].seq = @ + 1, ![g].left = @ - 1]
               /\ Goto(g, IF job[g].left = 1 THEN "wantFlush" ELSE "wantChunk")
      <3> DEFINE j == [job[g] EXCEPT !.op = OpcodeContinuation,
                                     !.seq = job[g].seq + 1, !.left = job[g].left - 1]
      <3>1. job' = [job EXCEPT ![g] = j]
        BY <2>3
      <3>2. j.op = OpcodeContinuation
        BY <1>a DEF Job
      <3> HIDE DEF j
      <3> QED
        BY <1>own, <1>cont, <1>g, <2>1, <2>3, <3>1, <3>2
    <2> QED
      BY <1>4, <2>2, <2>3 DEF WriteChunk, AfterChunk
  <1>5. CASE FlushData(g)
    BY <1>5, <1>own, <1>ret DEF FlushData, ReturnData, stream
  <1>6. CASE SendControl(g)
    <2>1. PICK op, fits : job' = [job EXCEPT ![g] = NewJob(op, fits, 1)]
      BY <1>6 DEF SendControl
    <2>2. Goto(g, "wantControl") /\ UNCHANGED currentTransmitDataMsgOpcode
      BY <1>6 DEF SendControl, stream
    <2>3. "wantControl" \notin Sends
      OBVIOUS
    <2> QED
      BY <1>else, <2>1, <2>2, <2>3
  <1>7. CASE WriteControl(g)
    BY <1>7, <1>own, <1>ret DEF WriteControl, stream
  <1>8. CASE RenewWriter(g)
    BY <1>8, <1>own, <1>stay DEF RenewWriter, stream
  <1>9. CASE Renew(g)
    BY <1>9, <1>own, <1>ret DEF Renew, stream
  <1>10. CASE StartLongDataTransmission(g)
    <2>1. UNCHANGED currentTransmitDataMsgOpcode
      BY <1>10 DEF StartLongDataTransmission, stream
    <2>2. CASE Return(g, 0, "ErrCloseAlreadySent")
      BY <1>own, <1>ret, <2>1, <2>2
    <2>3. CASE /\ \E op \in {o \in MsgOpcode : IsDataOpcode(o)} :
                     job' = [job EXCEPT ![g] = NewJob(op, TRUE, MaxFrames)]
               /\ Goto(g, "startLock")
      <3>1. PICK op : IsDataOpcode(op) /\ job' = [job EXCEPT ![g] = NewJob(op, TRUE, MaxFrames)]
        BY <2>3
      <3>2. NewJob(op, TRUE, MaxFrames).op = op
        BY DEF NewJob
      <3> QED
        BY <1>own, <1>g, <2>1, <2>3, <3>1, <3>2
    <2> QED
      BY <1>10, <2>2, <2>3 DEF StartLongDataTransmission
  <1>11. CASE ClaimTransmission(g)
    <2>1. IsDataOpcode(currentTransmitDataMsgOpcode')
      BY <1>11 DEF ClaimTransmission, DataInHand
    <2> QED
      BY <1>11, <1>stay, <2>1 DEF ClaimTransmission
  <1>12. CASE TransmitData(g)
    <2> DEFINE j == [job[g] EXCEPT !.op = NextOpcode, !.left = job[g].left - 1]
    <2>1. job' = [job EXCEPT ![g] = j] /\ Goto(g, "wantFragment")
      BY <1>12 DEF TransmitData
    <2>2. IsDataOpcode(j.op) /\ UNCHANGED currentTransmitDataMsgOpcode
      BY <1>12, <1>a, <1>next DEF TransmitData, Job, stream
    <2> HIDE DEF j
    <2> QED
      BY <1>own, <1>g, <2>1, <2>2
  <1>13. CASE WriteFragment(g)
    <2>1. PICK j : job' = [job EXCEPT ![g] = j]
      BY <1>13 DEF WriteFragment
    <2>2. Goto(g, "stream") /\ UNCHANGED currentTransmitDataMsgOpcode
      BY <1>13 DEF WriteFragment
    <2>3. "stream" \notin Sends
      OBVIOUS
    <2> QED
      BY <1>else, <2>1, <2>2, <2>3
  <1>14. CASE EndLongDataTransmission(g)
    <2> DEFINE j == [job[g] EXCEPT !.op = NextOpcode]
    <2>1. job' = [job EXCEPT ![g] = j] /\ Goto(g, "wantEnd")
      BY <1>14 DEF EndLongDataTransmission
    <2>2. IsDataOpcode(j.op) /\ UNCHANGED currentTransmitDataMsgOpcode
      BY <1>14, <1>a, <1>next DEF EndLongDataTransmission, Job, stream
    <2> HIDE DEF j
    <2> QED
      BY <1>own, <1>g, <2>1, <2>2
  <1>15. CASE WriteEnd(g)
    <2>1. PICK j : job' = [job EXCEPT ![g] = j]
      BY <1>15 DEF WriteEnd
    <2>2. Goto(g, "ended") /\ UNCHANGED currentTransmitDataMsgOpcode
      BY <1>15 DEF WriteEnd, stream
    <2>3. "ended" \notin Sends
      OBVIOUS
    <2> QED
      BY <1>else, <2>1, <2>2, <2>3
  <1>16. CASE ReleaseLongDataTransmission(g)
    <2>1. PICK err : Return(g, job[g].seq, err)
      BY <1>16 DEF ReleaseLongDataTransmission, ReturnData
    <2>2. currentTransmitDataMsgOpcode' = 0
      BY <1>16 DEF ReleaseLongDataTransmission, ResetTransmission
    <2> QED
      BY <1>cont, <1>ret, <2>1, <2>2
  <1>17. CASE Trigger(g)
    <2>1. UNCHANGED currentTransmitDataMsgOpcode
      BY <1>17 DEF Trigger, stream
    <2>2. CASE Goto(g, "stopped") /\ UNCHANGED job
      BY <1>own, <1>stay, <2>1, <2>2
    <2>3. CASE job' = [job EXCEPT ![g] = NewJob(OpcodePing, TRUE, 1)] /\ Goto(g, "wantControl")
      <3>1. "wantControl" \notin Sends
        OBVIOUS
      <3> QED
        BY <1>else, <2>1, <2>3, <3>1
    <2> QED
      BY <1>17, <2>2, <2>3 DEF Trigger
  <1>18. CASE Sleep(g)
    BY <1>18, <1>own, <1>stay DEF Sleep, stream
  <1> QED
    BY <1>1, <1>2, <1>3, <1>4, <1>5, <1>6, <1>7, <1>8, <1>9, <1>10, <1>11, <1>12,
       <1>13, <1>14, <1>15, <1>16, <1>17, <1>18 DEF Step

\* A step that hands no frame over and leaves closeSent alone keeps the rule: a
\* flush moves the mark only while the writer works.
LEMMA CloseQuiet ==
    ASSUME TypeOK, CloseInv, closeSent' = closeSent, out' = out,
           \/ sent' = sent /\ werr' = werr
           \/ ~werr /\ sent' \in sent..Len(out)
    PROVE  CloseInv'
  <1>1. sent \in Nat /\ sent <= Len(out) /\ Len(out) \in Nat /\ DOMAIN out = 1..Len(out)
    BY DEF TypeOK
  <1>2. NothingFollowsClose'
    BY DEF CloseInv, NothingFollowsClose, IsClose
  <1>3. CASE sent' = sent /\ werr' = werr
    BY <1>2, <1>3 DEF CloseInv, CloseSentIsTheWire, CloseKnown, IsClose
  <1>4. CASE ~werr /\ sent' \in sent..Len(out)
    <2>1. \A i \in DOMAIN out : IsClose(out[i]) => closeSent /\ i <= sent
      BY <1>4 DEF CloseInv, CloseKnown
    <2>2. sent' \in Nat /\ sent <= sent' /\ sent' <= Len(out)
      BY <1>1, <1>4
    <2>3. CloseKnown'
      BY <1>1, <2>1, <2>2 DEF CloseKnown, IsClose
    <2>4. CloseSentIsTheWire'
      BY <1>1, <2>1, <2>2 DEF CloseInv, CloseSentIsTheWire, IsClose
    <2> QED
      BY <1>2, <2>3, <2>4 DEF CloseInv
  <1> QED
    BY <1>3, <1>4

LEMMA FlushQuiet ==
    ASSUME TypeOK, CloseInv, NEW err, FlushWriter(err), closeSent' = closeSent
    PROVE  CloseInv'
  <1>1. sent \in Nat /\ sent <= Len(out) /\ Len(out) \in Nat
    BY DEF TypeOK
  <1>2. out' = out
    BY DEF FlushWriter, writer
  <1>3. \/ sent' = sent /\ werr' = werr
        \/ ~werr /\ sent' \in sent..Len(out)
    BY <1>1 DEF FlushWriter, writer
  <1> QED
    BY <1>2, <1>3, CloseQuiet

\* A write of a data frame, whatever its outcome.
LEMMA CloseDataWrite ==
    ASSUME TypeOK, CloseInv, NEW f \in Frame, IsDataOpcode(f.op), NEW err,
           BufferedWriteFrame(f, err) \/ SendFrame(f, err), closeSent' = closeSent
    PROVE  CloseInv'
  <1>1. ~IsClose(f)
    BY DEF IsClose, IsDataOpcode, OpcodeClose, OpcodeContinuation, OpcodeText, OpcodeBinary
  <1>2. sent \in Nat /\ closeSent \in BOOLEAN /\ Len(out) \in Nat
    BY DEF TypeOK
  <1>3. CASE UNCHANGED <<out, sent, werr>>
    BY <1>3, CloseQuiet
  <1>4. CASE /\ ValidateSendFrame(f) = "nil" /\ ~werr
             /\ out' = Append(out, f)
             /\ sent' \in Nat /\ sent <= sent'
             /\ \/ err = "nil" /\ ~werr' /\ sent' <= Len(out) + 1
                \/ err # "nil" /\ werr' /\ sent' <= Len(out)
    <2>1. sent' <= Len(out) + 1 /\ (werr' => sent' <= Len(out))
      BY <1>2, <1>4
    <2> QED
      BY <1>1, <1>2, <1>4, <2>1, CloseAppend
  <1> QED
    BY <1>3, <1>4, WriterEffect

\* A write of a control frame, with closeSent as sendFrame leaves it.
LEMMA CloseControlWrite ==
    ASSUME TypeOK, CloseInv, NEW f \in Frame, NEW err, SendFrame(f, err),
           IF IsClose(f) /\ err = "nil" THEN closeSent' = TRUE ELSE closeSent' = closeSent
    PROVE  CloseInv'
  <1>1. sent \in Nat /\ closeSent \in BOOLEAN /\ Len(out) \in Nat
    BY DEF TypeOK
  <1>2. CASE err # "nil" /\ UNCHANGED <<out, sent, werr>>
    BY <1>2, CloseQuiet
  <1>3. CASE /\ ValidateSendFrame(f) = "nil" /\ ~werr
             /\ out' = Append(out, f)
             /\ sent' \in Nat /\ sent <= sent'
             /\ \/ err = "nil" /\ ~werr' /\ sent' <= Len(out) + 1
                \/ err # "nil" /\ werr' /\ sent' <= Len(out)
    <2>1. sent' <= Len(out) + 1 /\ (werr' => sent' <= Len(out)) /\ (werr' <=> err # "nil")
      BY <1>1, <1>3
    <2>2. err = "nil" => sent' = Len(out) + 1
      BY SendFrameFlushes
    <2>3. closeSent' \in BOOLEAN
      BY <1>1
    <2>4. IF IsClose(f) /\ ~werr' THEN closeSent' /\ sent' = Len(out) + 1
                                  ELSE closeSent' = closeSent
      BY <2>1, <2>2
    <2> QED
      BY <1>3, <2>1, <2>3, <2>4, CloseAppend
  <1> QED
    BY <1>2, <1>3, WriterEffect

LEMMA CloseStep ==
    ASSUME TypeOK, DataInHand, CloseInv, NEW g \in Goroutine, Step(g)
    PROVE  CloseInv'
  <1>quiet. closeSent' = closeSent /\ UNCHANGED writer => CloseInv'
    BY CloseQuiet DEF writer
  <1>1. CASE \/ LockWriter(g) \/ SendData(g) \/ LockData(g) \/ SendControl(g) \/ RenewWriter(g)
             \/ StartLongDataTransmission(g) \/ ClaimTransmission(g) \/ TransmitData(g)
             \/ EndLongDataTransmission(g) \/ ReleaseLongDataTransmission(g)
             \/ Trigger(g) \/ Sleep(g)
    BY <1>1, <1>quiet
    DEF LockWriter, SendData, LockData, SendControl, RenewWriter, StartLongDataTransmission,
        ClaimTransmission, TransmitData, EndLongDataTransmission, ReleaseLongDataTransmission,
        Trigger, Sleep
  <1>2. CASE WriteChunk(g)
    <2>1. PICK err : BufferedWriteFrame(FrameOf(g, job[g].left = 1), err)
      BY <1>2 DEF WriteChunk, AfterChunk
    <2>2. IsDataOpcode(FrameOf(g, job[g].left = 1).op)
      BY <1>2 DEF WriteChunk, AfterChunk, DataInHand, FrameOf
    <2>3. FrameOf(g, job[g].left = 1) \in Frame
      BY FrameOfType
    <2> QED
      BY <1>2, <2>1, <2>2, <2>3, CloseDataWrite DEF WriteChunk, AfterChunk
  <1>3. CASE FlushData(g)
    BY <1>3, FlushQuiet DEF FlushData
  <1>4. CASE WriteControl(g)
    <2>1. PICK err \in Outcome :
            SendFrame(FrameOf(g, TRUE), err) /\ closeSent' = ClosedAfter(g, err)
      BY <1>4 DEF WriteControl
    <2>2. FrameOf(g, TRUE) \in Frame
      BY FrameOfType
    <2>3. IsClose(FrameOf(g, TRUE)) <=> job[g].op = OpcodeClose
      BY DEF IsClose, FrameOf
    <2>4. closeSent \in BOOLEAN
      BY DEF TypeOK
    <2>5. IF IsClose(FrameOf(g, TRUE)) /\ err = "nil" THEN closeSent' = TRUE
                                                      ELSE closeSent' = closeSent
      BY <2>1, <2>3, <2>4 DEF ClosedAfter
    <2> QED
      BY <2>1, <2>2, <2>5, CloseControlWrite
  <1>5. CASE Renew(g)
    BY <1>5, FlushQuiet DEF Renew, ReplaceWriter
  <1>6. CASE WriteFragment(g)
    <2>1. PICK err : SendFrame(FrameOf(g, FALSE), err)
      BY <1>6 DEF WriteFragment
    <2>2. IsDataOpcode(FrameOf(g, FALSE).op)
      BY <1>6 DEF WriteFragment, DataInHand, FrameOf
    <2>3. FrameOf(g, FALSE) \in Frame
      BY FrameOfType
    <2> QED
      BY <1>6, <2>1, <2>2, <2>3, CloseDataWrite DEF WriteFragment
  <1>7. CASE WriteEnd(g)
    <2>1. PICK err : SendFrame(FrameOf(g, TRUE), err)
      BY <1>7 DEF WriteEnd
    <2>2. IsDataOpcode(FrameOf(g, TRUE).op)
      BY <1>7 DEF WriteEnd, DataInHand, FrameOf
    <2>3. FrameOf(g, TRUE) \in Frame
      BY FrameOfType
    <2> QED
      BY <1>7, <2>1, <2>2, <2>3, CloseDataWrite DEF WriteEnd
  <1> QED
    BY <1>1, <1>2, <1>3, <1>4, <1>5, <1>6, <1>7 DEF Step

LEMMA CloseInvariant == Spec => [](DataInHand /\ CloseInv)
  <1>1. Init => DataInHand /\ CloseInv
    <2>1. Init => CloseInv
      BY DEF Init, CloseInv, NothingFollowsClose, CloseSentIsTheWire, CloseKnown
    <2> QED
      BY <2>1, DataInHandInit
  <1>2. TypeOK /\ DataInHand /\ CloseInv /\ [Next]_vars => (DataInHand /\ CloseInv)'
    <2> SUFFICES ASSUME TypeOK, DataInHand, CloseInv, [Next]_vars
                 PROVE  DataInHand' /\ CloseInv'
      OBVIOUS
    <2>1. CASE UNCHANGED vars
      <3>1. DataInHand'
        BY <2>1 DEF vars, stream, DataInHand
      <3>2. CloseInv'
        BY <2>1, CloseQuiet DEF vars, writer
      <3> QED
        BY <3>1, <3>2
    <2>2. CASE \E g \in Goroutine : Step(g)
      BY <2>2, DataInHandStep, CloseStep
    <2> QED
      BY <2>1, <2>2 DEF Next, Finished
  <1> QED
    BY <1>1, <1>2, TypeCorrect, PTL DEF Spec

\* RFC 6455 5.5.1 for any number of senders and any failures: no data frame and
\* no second close is handed to the writer after a close, not even behind one
\* whose write failed.
THEOREM CloseIsLast == Spec => []NothingFollowsClose
  <1>1. CloseInv => NothingFollowsClose
    BY DEF CloseInv
  <1> QED
    BY <1>1, CloseInvariant, PTL

\* closeSent is TRUE exactly when a close frame has reached the wire, whatever
\* write failed before or after it.
THEOREM CloseSentTellsTheWire == Spec => []CloseSentIsTheWire
  <1>1. CloseInv => CloseSentIsTheWire
    BY DEF CloseInv
  <1> QED
    BY <1>1, CloseInvariant, PTL

=============================================================================
