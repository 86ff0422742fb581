--------------------------- MODULE ListenerRouter ---------------------------
(***************************************************************************)
(* What the read loop does with each frame: the read deadline, the limit a    *)
(* frame may declare, validateFrame, routeFrame and the message it assembles  *)
(* (ListenerListen.go, Listener.go, ListenerRouter.go), while SetConfig        *)
(* replaces the configuration from other goroutines or from hooks.            *)
(*                                                                           *)
(* Bytes are told apart as far as UTF-8 needs: "A" is ASCII, "L" the first    *)
(* byte of a two byte rune, "T" its second.  A close frame carries its first   *)
(* two payload bytes as the number they encode, in code.  A pause changes       *)
(* nothing here: a run resumed is a run that waited at "arm" (ListenerRun).    *)
(***************************************************************************)
EXTENDS Integers, Opcodes, SequencesExt

CONSTANTS
    Frame,         \* the frames the peer may send: [op, fin, rsv, mask, payload, code]
    Config,        \* the configurations SetConfig is given:
                   \* [limit, count, peerIsClient, timeout, data]; 0 is no limit,
                   \* timeout and data say whether the item is set
    ControlMax,    \* ControlFramePayloadMaxByteLength, 125 in the code
    WordSize,      \* 2^64 in the code: where uint64 arithmetic wraps
    MaxFrames,     \* bound: frames read
    MaxSets        \* bound: calls of SetConfig

Byte == {"A", "L", "T"}

ASSUME ListenerRouterAssumption ==
    /\ Frame \subseteq [op : Opcode, fin : BOOLEAN, rsv : BOOLEAN, mask : BOOLEAN,
                        payload : Seq(Byte), code : Nat]
    /\ Config \subseteq [limit : 0..WordSize - 1, count : 0..WordSize - 1,
                         peerIsClient : BOOLEAN, timeout : BOOLEAN, data : BOOLEAN]
    /\ ControlMax \in Nat \ {0}
    /\ WordSize \in Nat /\ MaxFrames \in Nat /\ MaxSets \in Nat

VARIABLES
    pc,        \* where the loop is in this frame's turn
    config,    \* l.config
    armed,     \* a read deadline is set on the connection
    granted,   \* nextFrameByteLimit's answer for the read in progress
    frame,     \* the frame in hand
    msg,       \* the currentData* fields: frames (their payloads), acc, count, op
    err,       \* what Listen returned
    used,      \* history: configurations read for this frame
    routed,    \* history: the frames routed without error, and under what
    calls,     \* history: the hook calls
    sets       \* calls of SetConfig so far

vars == <<pc, config, armed, granted, frame, msg, err, used, routed, calls, sets>>

\* resetCurrentDataFrames.
NoMsg == [frames |-> <<>>, acc |-> 0, count |-> 0, op |-> OpcodeContinuation]

\* utf8.Valid.
ValidUTF8(bytes) ==
    \A i \in 1..Len(bytes) :
        /\ bytes[i] = "L" => i < Len(bytes) /\ bytes[i + 1] = "T"
        /\ bytes[i] = "T" => i > 1 /\ bytes[i - 1] = "L"

ValidCloseStatusCode(code) ==
    code \in 3000..4999 \cup (1000..1015 \ {1004, 1005, 1006, 1015})

Stop(e) == err' = e /\ pc' = "stopped"

-----------------------------------------------------------------------------
(* Before the frame.                                                         *)

\* Replaces the configuration at any time; the loop sees it wherever it looks
\* next.  Callers set and clear Data between messages, as its comment asks.
SetConfig(c) ==
    /\ pc # "stopped" /\ sets < MaxSets
    /\ msg.count = 0 \/ c.data = config.data
    /\ config' = c
    /\ sets' = sets + 1
    /\ UNCHANGED <<pc, armed, granted, frame, msg, err, used, routed, calls>>

\* A timeout arms the deadline anew for each frame, none leaves it as it was.
ArmDeadline ==
    /\ pc = "arm"
    /\ armed' = (config.timeout \/ armed)
    /\ used' = {config}
    /\ pc' = "grant"
    /\ UNCHANGED <<config, granted, frame, msg, err, routed, calls, sets>>

\* Mutant: only what the message has left, nothing for a control frame.
LimitWithoutAllowance(c) ==
    IF c.limit = 0 THEN 0 ELSE Max({c.limit - msg.acc, 0})

\* Mutant: the subtraction is not guarded and wraps.
LimitUnguarded(c) ==
    IF c.limit = 0 THEN 0 ELSE Max({(c.limit - msg.acc) % WordSize, ControlMax})

NextFrameByteLimit(c) ==
    IF c.limit = 0 THEN 0
    ELSE IF msg.acc > c.limit THEN ControlMax
    ELSE Max({c.limit - msg.acc, ControlMax})

GrantLimit ==
    /\ pc = "grant"
    /\ granted' = NextFrameByteLimit(config)
    /\ used' = used \cup {config}
    /\ pc' = "read"
    /\ UNCHANGED <<config, armed, frame, msg, err, routed, calls, sets>>

\* GetNextFrame: the header is checked before the payload is allocated or read.
ReadFrame(f) ==
    /\ pc = "read" /\ Len(routed) < MaxFrames
    /\ frame' = f
    /\ \/ granted > 0 /\ Len(f.payload) > granted /\ Stop("ErrFrameByteLengthExceeded")
       \/ ~(granted > 0 /\ Len(f.payload) > granted) /\ pc' = "validate" /\ UNCHANGED err
    /\ UNCHANGED <<config, armed, granted, msg, used, routed, calls, sets>>

ReadTimesOut ==
    /\ pc = "read" /\ armed
    /\ Stop("timeout")
    /\ UNCHANGED <<config, armed, granted, frame, msg, used, routed, calls, sets>>

-----------------------------------------------------------------------------
(* validateFrame.                                                            *)

\* Mutant: a message is open when frames of it are retained.
OpenByFrames == msg.frames # <<>>

MsgOpen == msg.count > 0

\* The first rule the frame breaks, "none" for a legal one.
Verdict(f, c) ==
    CASE f.rsv -> "ErrReservedBitsSet"
      [] ~f.rsv /\ f.mask # c.peerIsClient ->
            IF c.peerIsClient THEN "ErrFrameNotMasked" ELSE "ErrFrameMasked"
      [] OTHER ->
            CASE IsControlOpcode(f.op) /\ ~f.fin -> "ErrControlFrameFragmented"
              [] IsControlOpcode(f.op) /\ f.fin /\ Len(f.payload) > ControlMax ->
                    "ErrControlFramePayloadTooLong"
              [] IsDataOpcode(f.op) /\ MsgOpen /\ f.op # OpcodeContinuation ->
                    "ErrDataFrameDuringMsg"
              [] IsDataOpcode(f.op) /\ ~MsgOpen /\ f.op = OpcodeContinuation ->
                    "ErrContinuationFrameWithoutMsg"
              [] OTHER -> "none"

ValidateFrame ==
    /\ pc = "validate"
    /\ used' = used \cup {config}
    /\ LET verdict == Verdict(frame, config)
       IN  \/ verdict # "none" /\ Stop(verdict)
           \/ verdict = "none" /\ pc' = "route" /\ UNCHANGED err
    /\ UNCHANGED <<config, armed, granted, frame, msg, routed, calls, sets>>

-----------------------------------------------------------------------------
(* routeFrame.                                                               *)

Call(hook, op, payload) == calls' = Append(calls, [hook |-> hook, op |-> op, payload |-> payload])

\* routeFrame returns nil and the loop turns.
Done ==
    /\ routed' = Append(routed, [f |-> frame, c |-> config])
    /\ pc' = "arm"
    /\ UNCHANGED err

Refuse(e) == Stop(e) /\ UNCHANGED <<routed, calls>>

\* validateClosePayload.
CloseVerdict(f) ==
    CASE Len(f.payload) = 1 -> "ErrClosePayloadTooShort"
      [] Len(f.payload) >= 2 /\ ~ValidCloseStatusCode(f.code) -> "ErrInvalidCloseStatusCode"
      [] Len(f.payload) > 2 /\ ValidCloseStatusCode(f.code)
            /\ ~ValidUTF8(SubSeq(f.payload, 3, Len(f.payload))) -> "ErrInvalidUTF8"
      [] OTHER -> "none"

RouteControl ==
    /\ UNCHANGED msg
    /\ \/ frame.op = OpcodePing /\ Call("Ping", 0, frame.payload) /\ Done
       \/ frame.op = OpcodePong /\ Call("Pong", 0, frame.payload) /\ Done
       \/ /\ frame.op = OpcodeClose
          /\ \/ CloseVerdict(frame) # "none" /\ Refuse(CloseVerdict(frame))
             \/ CloseVerdict(frame) = "none" /\ Call("Close", 0, frame.payload) /\ Done

RouteReserved == UNCHANGED msg /\ Call("Unknown", 0, frame.payload) /\ Done

\* Mutant: empty continuations are kept like any other frame.
NeverDropped(f) == FALSE

Dropped(f) == f.op = OpcodeContinuation /\ ~f.fin /\ f.payload = <<>>

MsgType == IF frame.op # OpcodeContinuation THEN frame.op ELSE msg.op

\* Mutant: the state is reset before the hook runs, and answers for no message.
HandOverReset ==
    /\ Call("Data", IF frame.fin THEN NoMsg.op ELSE MsgType, frame.payload) /\ Done
    /\ msg' = IF frame.fin THEN NoMsg
              ELSE [msg EXCEPT !.acc = @ + Len(frame.payload), !.count = @ + 1, !.op = MsgType]

\* The Data hook takes the frame, nothing is retained; it is called with the
\* message's type still set, which is what GetCurrentMsgOpcode answers.
HandOver ==
    /\ Call("Data", MsgType, frame.payload) /\ Done
    /\ msg' = IF frame.fin THEN NoMsg
              ELSE [msg EXCEPT !.acc = @ + Len(frame.payload), !.count = @ + 1, !.op = MsgType]

Keep ==
    /\ msg' = [frames |-> Append(msg.frames, frame.payload), acc |-> msg.acc + Len(frame.payload),
               count |-> msg.count + 1, op |-> MsgType]
    /\ Done /\ UNCHANGED calls

\* validTextUTF8, on the frames joined.
TextRefused(frames) == ~ValidUTF8(FlattenSeq(frames))

Complete ==
    LET frames == Append(msg.frames, frame.payload)
    IN  /\ msg' = NoMsg
        /\ \/ MsgType = OpcodeText /\ TextRefused(frames) /\ Refuse("ErrInvalidUTF8")
           \/ /\ MsgType = OpcodeText /\ ~TextRefused(frames)
              /\ Call("Text", MsgType, FlattenSeq(frames)) /\ Done
           \/ MsgType = OpcodeBinary /\ Call("Binary", MsgType, FlattenSeq(frames)) /\ Done

RouteData ==
    LET overBytes == config.limit > 0 /\ msg.acc + Len(frame.payload) > config.limit
        overCount == config.count > 0 /\ msg.count + 1 > config.count
    IN  \/ Dropped(frame) /\ UNCHANGED <<msg, calls>> /\ Done
        \/ ~Dropped(frame) /\ overBytes /\ msg' = NoMsg /\ Refuse("ErrFrameByteLengthExceeded")
        \/ ~Dropped(frame) /\ ~overBytes /\ overCount /\ msg' = NoMsg
              /\ Refuse("ErrMsgFrameCountExceeded")
        \/ /\ ~Dropped(frame) /\ ~overBytes /\ ~overCount
           /\ \/ config.data /\ HandOver
              \/ ~config.data /\ ~frame.fin /\ Keep
              \/ ~config.data /\ frame.fin /\ Complete

RouteFrame ==
    /\ pc = "route"
    /\ used' = used \cup {config}
    /\ \/ IsControlOpcode(frame.op) /\ RouteControl
       \/ ~IsControlOpcode(frame.op) /\ ~IsDataOpcode(frame.op) /\ RouteReserved
       \/ IsDataOpcode(frame.op) /\ RouteData
    /\ UNCHANGED <<config, armed, granted, frame, sets>>

-----------------------------------------------------------------------------

Init ==
    /\ pc = "arm" /\ err = "none"
    /\ config \in Config
    /\ armed = FALSE /\ granted = 0
    /\ frame \in {f \in Frame : f.op = OpcodePong}
    /\ msg = NoMsg
    /\ used = {} /\ routed = <<>> /\ calls = <<>> /\ sets = 0

\* Listen has returned, or waits for a frame beyond the bound.
Finished ==
    /\ pc = "stopped" \/ (pc = "read" /\ Len(routed) = MaxFrames)
    /\ UNCHANGED vars

Next ==
    \/ \E c \in Config : SetConfig(c)
    \/ ArmDeadline \/ GrantLimit
    \/ \E f \in Frame : ReadFrame(f)
    \/ ReadTimesOut
    \/ ValidateFrame \/ RouteFrame
    \/ Finished

Spec == Init /\ [][Next]_vars

-----------------------------------------------------------------------------
(* What RFC 6455 makes of the frames routed so far, told from the frames      *)
(* alone: i is a position of s, a sequence of [f, c] like routed.              *)

IsData(s, i) == IsDataOpcode(s[i].f.op)

\* The data frames of the message open after position n: those since the last FIN.
OpenAt(s, n) ==
    {i \in 1..n : IsData(s, i) /\ ~\E j \in i..n : IsData(s, j) /\ s[j].f.fin}

\* The data frames of the message that position i, a data frame, belongs to.
Parts(s, i) == OpenAt(s, i - 1) \cup {i}

TypeAt(s, i) == s[Min(Parts(s, i))].f.op

\* The payload of the message up to position i.
JoinedAt(s, i) ==
    FlattenSeq([k \in 1..i |-> IF k \in Parts(s, i) THEN s[k].f.payload ELSE <<>>])

BytesAt(s, i) == Len(JoinedAt(s, i))

\* The frames of the message up to position i that are more than an empty filler.
CountAt(s, i) == Cardinality({k \in Parts(s, i) : ~Dropped(s[k].f)})

\* Position i keeps the rules of framing where it stands.
LawfulAt(s, i) ==
    LET f == s[i].f
    IN  /\ ~f.rsv
        /\ IsControlOpcode(f.op) => f.fin /\ Len(f.payload) <= ControlMax
        /\ f.op = OpcodeClose => CloseVerdict(f) = "none"
        /\ IsDataOpcode(f.op) => (f.op = OpcodeContinuation <=> OpenAt(s, i - 1) # {})

\* Position i may follow the positions before it, its mask judged under
\* configuration c, its payload under d.
LegalAt(s, i, c, d) ==
    LET f == s[i].f
        within == d.limit = 0 \/ BytesAt(s, i) <= d.limit
    IN  /\ LawfulAt(s, i)
        /\ f.mask = c.peerIsClient
        /\ IsDataOpcode(f.op) =>
              /\ ~Dropped(f) => within /\ (d.count = 0 \/ CountAt(s, i) <= d.count)
              /\ f.fin /\ TypeAt(s, i) = OpcodeText /\ ~d.data => ValidUTF8(JoinedAt(s, i))
        /\ f.op \notin {0, 1, 2, 8, 9, 10} => within \/ Len(f.payload) <= ControlMax

\* The hook calls position i is owed: whole messages, or each frame under Data.
CallsAt(s, i) ==
    LET f == s[i].f
        call(hook, op, payload) == <<[hook |-> hook, op |-> op, payload |-> payload]>>
    IN  CASE f.op = OpcodePing  -> call("Ping", 0, f.payload)
          [] f.op = OpcodePong  -> call("Pong", 0, f.payload)
          [] f.op = OpcodeClose -> call("Close", 0, f.payload)
          [] IsData(s, i) /\ s[i].c.data ->
                IF Dropped(f) THEN <<>> ELSE call("Data", TypeAt(s, i), f.payload)
          [] IsData(s, i) /\ ~s[i].c.data ->
                IF ~f.fin THEN <<>>
                ELSE call(IF TypeAt(s, i) = OpcodeText THEN "Text" ELSE "Binary",
                          TypeAt(s, i), JoinedAt(s, i))
          [] OTHER -> call("Unknown", 0, f.payload)

-----------------------------------------------------------------------------

Returned == {"none", "timeout", "ErrFrameByteLengthExceeded", "ErrMsgFrameCountExceeded",
             "ErrReservedBitsSet", "ErrFrameNotMasked", "ErrFrameMasked",
             "ErrControlFrameFragmented", "ErrControlFramePayloadTooLong",
             "ErrDataFrameDuringMsg", "ErrContinuationFrameWithoutMsg",
             "ErrClosePayloadTooShort", "ErrInvalidCloseStatusCode", "ErrInvalidUTF8"}

\* Every frame routed was legal where it stood, control frames between the
\* fragments of a message and frames taken by a Data hook included: nothing that
\* the RFC or the budgets refuse gets past the read limit, validateFrame and
\* routeFrame.  The budgets are those of one configuration the frame met, whole.
RoutedIsLegal ==
    pc = "arm" /\ routed # <<>> => \E c, d \in used : LegalAt(routed, Len(routed), c, d)

\* Listen reports a broken rule only for a frame that breaks one: a conforming
\* peer within its budgets is never refused, whatever was routed before.
RefusedIsIllegal ==
    err \notin {"none", "timeout"} =>
        LET s == Append(routed, [f |-> frame, c |-> config])
        IN  \E c, d \in used : ~LegalAt(s, Len(s), c, d)

\* The hooks are called with exactly what the peer sent, in order: every message
\* whole, with the type of its first frame and no byte of another, control frames
\* as they came, and under a Data hook each frame with its message's type.
HooksSeeTheStream == calls = FlattenSeq([i \in 1..Len(routed) |-> CallsAt(routed, i)])

\* However the budget is lowered while a message is open, even while the frame is
\* on its way, its payload is allocated only within what a budget read for this
\* frame leaves the message, or the control allowance.
AllocationBounded ==
    pc \in {"validate", "route"} =>
        \E c \in used : c.limit = 0
            \/ msg.acc + Len(frame.payload) <= Max({c.limit, msg.acc + ControlMax})

\* Retained frames cannot outrun the bytes they carry: all but the first have one.
RetainedBounded == Len(msg.frames) <= msg.acc + 1

\* FrameReadTimeout's comment: 0 means no timeout.
NoTimeoutUnlessSet == err = "timeout" => \E c \in used : c.timeout

\* SetConfig's comment: the frame in flight finishes on the values it read, and a
\* change lands on the next one: a frame whose read was given no limit is not refused
\* for its length.
ChangeLandsBetweenFrames == err = "ErrFrameByteLengthExceeded" => granted > 0

\* MaxMsgFrameCount's comment: it ends a message held open by empty continuations.
FrameCountEndsMessages ==
    \A i \in 1..Len(routed) :
        IsData(routed, i) /\ routed[i].c.count > 0 =>
            Cardinality(Parts(routed, i)) <= routed[i].c.count
=============================================================================
