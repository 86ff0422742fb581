# wlgows in TLA+

Specifications of **wlgows**, a WebSocket (RFC 6455) library in Go: the opening
handshake of both sides; the half of a connection that sends, with its two locks
and its fragmented messages; the bytes of a frame through the write buffer and
back out of the reader; the life of a listener's read loop and what it does with
every frame; and two endpoints answering each other until both have closed. TLC
checks each on small instances; TLAPS proves every safety property of
the passing runs, the refinement included, for any number of goroutines, calls,
frames, bytes and connections.

Source paths are relative to the repository's root (`src/` in `PROJECT.json`).

## 1. The system

| Part | State it keeps | Operations | Files |
|---|---|---|---|
| Sending | `writer`, `closeSent`, `currentTransmitDataMsgOpcode`, `currentTransmitDataMsgOpened`, `writeLocker`, `dataFramesWriteLocker` | `SendText`, `SendBinary`, `SendData`, `SendClose`, `SendPing`, `SendPong`, `SendFrame`, `Start`/`Transmit`/`End`/`ReleaseLongDataTransmission`, `RenewWriter` | `Connection*.go` |
| Ping loop | what its last look at `closeSent` said | `StartPingLoop`, `Loop` | `ConnectionPingLoop.go`, `Loop.go` |
| Write buffer | `bufio.Writer`: bytes, sticky error | `writeFrameHeader`, `writeFramePayload`, `fitWriter` | `ConnectionWrite.go` |
| Frames | header fields, masking key, payload | `NewFrame`, `appendSealedHeader`, `MaskPayload`, `getFrameFromReader` | `Frame*.go` |
| Frame reading | `bufio.Reader`, what is left of a frame cut short | `GetNextFrame` | `FrameRead.go`, `Connection.go` |
| Listener, run | `pauseChan`, `listenLocker` | `Listen`, `PauseListen` | `ListenerListen.go` |
| Listener, frames | `currentDataFrames`, `currentDataFrameCount`, `currentDataAccLength`, `currentDataFrameOpcode` | `nextFrameByteLimit`, `validateFrame`, `routeFrame` | `Listener.go`, `ListenerRouter.go` |
| Listener, configuration | `config`, `configLocker` | `SetConfig`, `GetConfig` | `ListenerConfig.go` |
| Standard hooks | none | answer a ping, a close, a reserved opcode; `StandardClosePayloadFor` | `ConnectionListener.go`, `Errors.go` |
| Opening handshake | the reader and writer handed to the `Conn` | `ClientHandShake`, `ServerHandShake` and their steps | `HandShake*.go`, `ResponseWriter.go`, `HeaderToken.go` |
| Examples | the program around `Listen` | what is sent, when it ends, who closes the socket | `example/` |
| Dialling, accepting | none | I/O | `Client.go`, `Server.go` |

How they interact. A handshake reads through the `bufio.Reader` its `Conn` goes on
with. Any goroutine may send; a send takes `writeLocker` for one
frame, and a data message takes `dataFramesWriteLocker` around all of its
frames, so control frames get out between them. One goroutine runs `Listen`;
it reads frames, judges them and calls hooks, which send on the same connection
(a pong, a close), pause their own run (`PauseListen`) or replace the
configuration. `PauseListen` and `SetConfig` come from other goroutines too.
`closeSent` is what a sender, a hook and a ping loop agree on.

What is hard: every interleaving of senders with a close; error returns between
two locks; a writer replaced in the middle of a message; state read under a
lock and used after it (`closeSent` in `Start` and in the ping loop, the pause
before `SetReadDeadline`, the claim a deferred release finds); a configuration
read four times for one frame; budgets lowered while a message is open; runes
split between frames; a masked payload cut into pieces in a buffer of 14 bytes; a
socket write that fails inside a frame; a read that ends inside one; two read
loops that answer each other over full buffers; a socket closed right behind the
answer it carries; a response cut off, cached or rewritten on its way. `PROJECT.json` lists each of these at its line, with the
property that would catch it.

What makes each part correct:

- sending: a legal frame stream whoever sends what (one message at a time,
  nothing after the close), nil only for frames that reached the socket, locks
  given back on every path, nobody waiting for ever;
- a run: one loop at a time, its result is the reason it ended, a pause ends it;
- bytes: the wire holds the frames, each byte once and masked with the right byte of
  its key, and the reader returns them;
- frames: what is legal is accepted and what is not is refused, hooks get exactly
  the peer's messages, memory stays within the budgets;
- a session: every close is owed to something the peer sent, nothing is taken up
  behind the end, both programs end;
- a handshake: a `Conn` only where both sides agreed on this very handshake, no
  conforming request refused, no frame lost behind it, nobody left waiting.

## 2. Modules

| Module | Models |
|---|---|
| `Opcodes` | the opcode space (`FrameOpcode.go`) |
| `MessageStream` | abstract: the frame stream a conforming sender produces |
| `ConnWrite` | the sending half of a `Conn` and its ping loops, implements `MessageStream` |
| `ConnWriteProofs` | theorems about `ConnWrite`: types, locks, the close rule |
| `ConnStreamProofs` | theorems about the frames `ConnWrite` hands to the writer; the refinement of `MessageStream` |
| `ListenerRun` | `Listen`, `PauseListen`, the claim, the loop and its returns |
| `ListenerRunProofs` | theorems about `ListenerRun` |
| `ListenerRouter` | one loop's handling of frames under a configuration that changes |
| `ListenerRouterProofs` | theorems about `ListenerRouter` |
| `FrameCodec` | the header, the masking and what the reader makes of both (`Frame.go`, `FrameRead.go`) |
| `BufferedWrite` | one frame at a time through the `bufio.Writer`, byte by byte |
| `FrameReader` | the three reads of `getFrameFromReader` |
| `FrameStream` | `BufferedWrite`, the socket and `FrameReader` composed |
| `FrameStreamProofs` | theorems about `BufferedWrite`, `MaskPayload`, headers, and the frames read |
| `Session` | two endpoints: read loops, standard hooks, programs, bounded channels, sockets |
| `SessionProofs` | theorems about `Session` |
| `Handshake` | both sides of several opening handshakes and what stands between them |
| `HandshakeProofs` | theorems about `Handshake`: who gets a `Conn`, what is accepted, and the frames behind it |
| `DataInduction` | lemmas: induction over the naturals for a set, `FlattenSeq` of one sequence more |
| `MC...` | the sets TLC uses |

They fit together by what each leaves to another. `ConnWrite` shows that one
frame at a time is in hand, which `BufferedWrite` starts from; `BufferedWrite`
shows that frames handed over are frames on the wire, which lets `ConnWrite` and
`Session` treat them as units. `ListenerRun` has the loop's life with frames of
three kinds, `ListenerRouter` the frames with one loop, `Session` two loops with
both reduced to what the other side can tell.

### ConnWrite

One Go function is one or two actions: a step that waits for a lock, and the
body executed under it, since the body is a socket write that may block. A call
made under both locks (`sendData`) is the chain `SendData`, `LockData`,
`LockWriter`, `WriteChunk`, ..., `FlushData`, with every error return. The
writer is `out`, the frames handed to it in order, and `sent`, how many of them
have left; `werr` is bufio's sticky error. A write may flush any part of the
buffer on its own (`BufferAndSpill`), which covers every buffer size. `Faults`
says what may fail: the random source of a masking key, the socket, a ping
loop's payload. Payloads are abstracted to whether they fit a control frame.
Each frame is labelled with its goroutine, call and place, which is what the
properties are told in.

Calls refused before they touch anything (invalid UTF-8 handed to `SendText`, an
opcode `SendData` refuses) are stuttering steps. Calling `SendText` inside one's
own open transmission, which the documentation forbids, is left out.

### ListenerRun

`claimListen` and `pauseListen` hold `listenLocker` for a few lines: one action
each. The loop has a control point wherever another goroutine's step matters:
`check` (the pause is looked at), `arm` (`SetReadDeadline`), `reading`,
`routing`, `leaving` (before the deferred `pauseListen(nil)`). Every claim makes
a new channel, so `chans` lists them; `pauseChan` is the index of the one
claimed. A frame is "data", "close" (its hook pauses the run, as
`RFC6455CloseHook` does) or "bad" (a rule is broken). `WaitsReturn` says that
callers wait for a paused run to return before they call `Listen` again;
the documentation does not ask for it, and without it runs overlap. `OneLoop` counts
the runs that are past their look at the pause (`Reading`): a run that will look
again before it reads shares nothing.

### ListenerRouter

The loop's turn in its four reads of the configuration: `ArmDeadline`,
`GrantLimit`, `ValidateFrame`, `RouteFrame`, with `SetConfig` allowed at any
point. `msg` is the assembly state. A frame's payload is a sequence over three byte
classes, enough to tell valid UTF-8 from a rune cut in half; the 125 bytes of `ControlFramePayloadMaxByteLength` are the constant
`ControlMax`, and 2^64 is `WordSize`. The Data hook is set and cleared between
messages only, as its documentation asks of callers.

A `SetConfig` between two of the four reads has one frame judged by two
configurations, where `SetConfig`'s comment says that it "lands on the next frame
rather than halfway through this one" (`ListenerConfig.go:142`); the run
`listener_change_halfway` shows it. What is checked of every change, halfway or not, is
this: a frame is accepted only if one of the configurations it met asks for its mask
and one of them, whole, allows the rest of it, and it is refused only where they leave
a way to refuse it. That a close's reason is UTF-8 is one of the rules, as in the code,
though `Errors.go:86` says that it is not checked yet.
`PeerIsClient` may change under a running loop like the rest.

The properties are told by a second definition of what RFC 6455 makes of a frame
sequence (`LegalAt`, `JoinedAt`, `CallsAt`), written over positions of the history of
routed frames and not over the code's running totals. `Dropped` and
`CloseVerdict` are shared with the code's model, since they say which frames
are fillers and which close payloads are well formed.

### FrameCodec, BufferedWrite, FrameReader, FrameStream

Bytes are numbers below 256 and `Xor` is a parameter with the two facts about `^`
that are needed. In `BufferedWrite` each write to the socket is a step, since a
reader at the other end may look in between, and may fail after any number of
bytes (`FlushBroken`, the second arms of `WriteAndFlush` and `WriteStraight`);
bufio then never writes again. `Piece` is the cut of a masked payload to whole keys.
`flushes` tells `SendFrame` from the writes of a chunk that leave the flush to a
later one. `image` is a history: the bytes the frames given so far should be, each
masked as if in one piece. The reader takes bytes as they arrive; `ReadCutShort`
is the end of the stream or a deadline, anywhere, and the caller reads on only
after one that passed between two frames, as `LISTENER_README.md` demands.

`LISTENER_README.md:129` says that `FrameReadTimeout` "fires when *no bytes
arrive*". The deadline is set once per frame and is absolute, so it fires as
well on a peer whose bytes arrive slowly. In `FrameReader` a read may be
cut short at any point, whatever has arrived.

### Session

`s \in {"client", "server"}` has a read loop (`reading`, `hook`, `returned`, `done`,
`left`), an application that sends beside it, and a program that sends a farewell
by `StandardClosePayloadFor` and closes the socket. A frame is a whole message or
a control frame; a kind stands for the rule it breaks (`rsv`, `big`, `badtext`,
`reserved`, or a close with a forbidden code), since judging it is
`ListenerRouter`'s. A hook's send is taken only when the channel has room: a full
channel is what blocks a loop. A socket closed with frames unread resets the other
side, which may then lose what was on its way to it, as TCP does. The server is
`example/echo` or `example/stream_server`, the client `example/client`.

### Handshake

Several connections, each with a client, a server and an intermediary. A header is
a sequence of lines and a line a sequence of tokens, so `HeaderHasToken` has
something to get wrong. A message is whole or `Cut`. `Via` says what an
intermediary may do: put a token of its own in front, on the same line or
one before, change case, take the lists away, speak HTTP/1.0; `Caches`
says whose request may be answered with a response some server wrote before.
`Foreign` are requests of other clients, one for each rule broken.
`ServerRules` are the rules `ValidateHandShakeRequest` has an error for, told by
tokens and without an order. They are not all that RFC 6455 4.2.1 asks for: a request
has a `Host` or not, and a key that is not sixteen bytes in base64 is `"malformed"`,
and the server looks at neither. The server is one that reads with `http.ReadRequest`, as `example/echo`
does; net/http's own asks for the `Host` itself. `Beyond` is
how much of what follows the message is already in the `bufio.Reader`. Both
validations keep the order of their checks, which decides the status code: they
are chains of `IF`, since the arms of a `CASE` whose guards overlap have no order.
A response without `Sec-WebSocket-Accept` has `NoAccept`, and a request without
`Sec-WebSocket-Key` the key `"none"`. A key that could not be drawn is `"zero"`, since `generateWebSocketKey` drops the
error. SHA-1 is a pair of its name and the key: no collisions.

## 3. Runs

| Run | Question | Bounds |
|---|---|---|
| `conn_write_client` | locks, close rule, fragmentation rule, meaning of nil, and the refinement of `MessageStream`, with failing keys and sockets | 2 senders, 2 calls each, messages of at most 2 frames, a ping loop that stops without a ping |
| `conn_write_control` | control frames return and ping loops end, with one ping at most behind a close, though no transmission need be released; message senders return if they are | liveness; 2 senders, 1 call each, 1 ping loop with 2 pings |
| `listener_run` | one loop, one send and one close per channel, every reason returned, a paused run returns | 2 callers, 2 runs each, 2 pausers, 2 frames |
| `listener_second_loop`, `listener_reason_lost` | violations, see below | |
| `listener_router` | legality, refusals, hook calls, memory, for all sequences of 25 frames | 4 frames, the configuration replaced once, at any point |
| `listener_stale_deadline`, `listener_empty_continuations`, `listener_change_halfway` | violations, see below | |
| `frame_stream` | the bytes are the frames, the frames read are the frames sent, every send returns | 2 frames of 0, 11 or 127 bytes, writers of 14 and 18 bytes, 1 replacement, 1 read cut short, limit 0 or 19 |
| `session` | closes are owed, nothing after the end, answers in order, nil means closed, an orderly close is seen, closes complete | 2 sends of each application, channels of 1 frame, both servers, with write deadlines and without |
| `handshake` | a `Conn` only behind a 101 for its own key, conforming handshakes succeed, answers fit requests, no frame stranded, nobody waits for ever | 2 connections, 8 foreign requests, 6 intermediaries, 1 cache, at most 2 frames a side |

Why these bounds are enough. Two senders meet in every pair of control points; a
third adds no new pair of owners to the two locks. Two frames make a message with
a first and a last fragment and room in between for every other call. Two calls
each let a call meet what an earlier one left behind (flags, buffered frames, the
sticky error). Two pings are one more than may follow a close. Two callers with two runs each let a release meet the run after
the next. Four frames hold a rune split in two with an empty and a control frame
between; budgets of 1 and 5 bytes against a control allowance of 3 put the remaining
budget below, at and above the allowance; a configuration for a peer that is a server
has the mask judged both ways. The bounds are the constants
`MaxCalls`, `MaxPings`, `MaxFrames`, `MaxRuns`, `MaxPauses`, `MaxSets`.

A writer of 14 bytes is the smallest `fitWriter` allows, here made from one of 3;
18 leaves two bytes beyond a whole number of keys. A payload of 11 bytes needs a
block of eight and a tail, in several pieces in either writer; 127 needs an
extended length; 0 has no piece at all. The second frame meets what the first left in
the buffer. Lengths up to the largest TLC can hold are tried on the header alone
(`LengthsSurvive`), the rest is `EveryLengthSurvives` below. In `Session`, channels of one frame are full at once, which is
the case that blocks, and two sends a side let a close meet a ping, another close
or a broken rule on its way. In `Handshake`, everything happens to the first
connection; the second is there to have an answer a cache could replay.

Fairness. In `ConnWrite`, a goroutine that holds a lock goes on (weak
fairness on the bodies: a socket write returns, with an error if need be), and
strong fairness on taking a lock, since Go's `sync.Mutex` hands a starving
waiter the lock after a millisecond. Nothing is assumed of the application:
`SendersReturn` has the release of every transmission as its premise. In `ListenerRun` the loop's own steps are weakly fair, and a read ends once
the connection is closed or if it has a deadline; nobody need pause, close, or
send. Hooks are taken to return. In `FrameStream` a send that has begun goes on. In
`Session` a loop that has something to do goes on, as does a program told to stop;
no deadline need pass, so a blocked write is only sure to end where deadlines are
set, and `CloseCompletes` names the one way without them to a standstill (`Jammed`:
both loops answer into full channels). In `Handshake` a program goes on once
it has something to read, and closes behind itself; nobody need start, and the
system stops once every handshake is over, so that run does not check
deadlock.

## 4. What the runs found

Eight places where the code does something other than its documentation says.
`PROJECT.json` quotes the lines. Five have a run that shows the violation:

1. `Listen` right after `PauseListen` starts a second loop: the paused run is past its
   look at the pause, on its way into a read, when the new one gets there too
   (`OneLoop`, `listener_second_loop`).
2. A close of the connection between the look at the pause and `SetReadDeadline`
   loses the pauser's reason (`PauseReasonReturned`, `listener_reason_lost`).
3. A read timeout switched off stays armed (`NoTimeoutUnlessSet`,
   `listener_stale_deadline`).
4. `MaxMsgFrameCount` does not end a message held open by empty continuations
   (`FrameCountEndsMessages`, `listener_empty_continuations`).
5. `SetConfig` does land halfway through a frame: one read under no limit is refused
   under the limit set while it was on its way (`ChangeLandsBetweenFrames`,
   `listener_change_halfway`).

Three are what a passing run says, read beside the comment:

6. `Errors.go:86` says that a close's reason "is not checked yet". It is, and should
   be: `RoutedIsLegal` holds with the reason's UTF-8 among the rules
   (`listener_router`).
7. A close whose write failed cannot be sent again, against
   `ConnectionControlFrame.go:13-14`. It does not count as sent
   (`CloseSentIsTheWire`), but bufio keeps the error, after the deadline that caused
   it was moved as well, and after a failed write no byte of any frame follows
   (`NothingAfterABrokenWrite`, `frame_stream`).
8. A request without a `Host`, or with a key that is not sixteen bytes in base64, is
   upgraded by a validation said to check RFC 6455 4.1 (`HandShakeServer.go:87-88`):
   `AnswerFitsTheRequest` holds with neither among the rules, and `handshake` has a
   request that breaks both.

Another follows from the first. A paused run that returns after the next `Listen` has
claimed finds that run's claim in its deferred release, and the run returns nil with
nobody having paused it, where `ListenerListen.go:61-63` has the release do nothing for
a run that was paused. The constants of `listener_second_loop` show it with
`NilMeansPaused` as the invariant.

One more was seen while modelling and contradicts no line:
`StartLongDataTransmission` looks at `closeSent` before it waits for its lock and so
opens after a close, though nothing it sends gets out (`NothingFollowsClose`).

## 5. What is proved

`ConnWriteProofs`, for every set of senders and pingers and every bound, from
`ConnWriteAssumption` (the owner of a free lock is no goroutine, senders
and pingers are distinct, bounds are naturals):

| Theorem | Property | Argument |
|---|---|---|
| `TypeCorrect` | `TypeOK` | inductive with `ChunkLeft`: a chunk is only written while there are chunks left, without which `left - 1` leaves the naturals |
| `LocksHeld` | `LockDiscipline` | inductive by itself, given the types |
| `CloseIsLast` | `NothingFollowsClose` | with `DataInHand` (who is about to write a data frame has one in hand) and `CloseKnown` (a close handed to the writer is known to `closeSent`, or stuck behind the writer's error, or still to be flushed under `writeLocker`) |
| `CloseSentTellsTheWire` | `CloseSentIsTheWire` | from the same invariant |

`CloseKnown` is what makes the close rule inductive: between handing a close to
the writer and setting `closeSent` nothing else can be handed over, and if the
flush failed the writer never accepts another frame.

`ConnStreamProofs`, from the same assumption and on top of these invariants:

| Theorem | Property | Argument |
|---|---|---|
| `NilIsOnTheWire` | `NilMeansOnTheWire` | `FrameInv`: while a call holds `dataFramesWriteLocker` and the writer works, its frames in `out` are those it counted, each once (`Underway`); a flush that succeeds puts them all on the wire, and what is on the wire stays there. A frame's label names a call that has returned or the one in progress (`Labels`), so that no later frame is taken for one of a call already answered for |
| `NothingIsStranded` | `NothingStranded` | `BufferInv`: something waits in a working writer only while a call is between its first write and its flush (`Buffering`), or after a key could not be drawn in the middle of a message. Control frames flush at once, so `closeSent` means an empty buffer |
| `OnePingBehindClose` | `OnePingAfterClose` | `PingInv`: a loop that has pinged behind a close is past the look at `closeSent`, which now says so, and never comes to send again |
| `OneLegalStream` | `ImplementsMessageStream` | `HandInv`: the frame in hand opens a message at `seq` 0 and continues one after it, and `currentTransmitDataMsgOpened` stands exactly while a frame of the transmission in progress was sent. With it `MessageKnown`, that the abstract `MessageInProgress` is the last data frame while it is unfinished, so each step of `out` maps to one of `MessageStream` and every other to a stutter |

`ListenerRunProofs`, for any callers and pausers, from `ListenerRunAssumption` (the
bounds are naturals; no pauser's error is one of the package's own):

| Theorem | Property | Argument |
|---|---|---|
| `RunTypes` | (`TypeOK`) | inductive with `RunHasChannel` and `Used` (below) |
| `ChannelsUsedOnce` | `ChannelUsedOnce` | `Used`: the claimed channel is untouched, every other was closed once. A pause only reaches the claimed one, and clears the claim in the same step; nothing is assumed of when `Listen` is called |
| `OneLoopAtATime` | `OneLoop` | under `WaitsReturn`: at most one call is past its claim (`OneRun`), which is more than that one is past its look at the pause. A claim needs `pauseChan` to be nil, and a run that still held a channel would then be one the caller waits for |
| `PauseIsSeenBetweenFrames` | `OneFrameAfterPause` | `ResultInv`: every run watches a channel of its own (`OwnChannel`), and a run that routed a frame late stands right before its look at the pause (`Watching`) |
| `ReasonsAreReturned` | `PauseReasonReturned` | if there is no read deadline (`~HasTimeout`): the reason stays in the channel until the run takes it (`Watching`), is on record once and for the first who paused (`Accounted`), and every result on the books fits that record (`GoodResults`) |
| `NilIsAPause` | `NilMeansPaused` | under `WaitsReturn`: besides `OneRun`, the claim is that of a run in progress (`Claimed`) and no release closed the channel of one (`Unreleased`), so a run whose channel is closed was paused by a pauser or a hook |

Nothing is assumed of when `Listen` is called but where `WaitsReturn` is named, and
`listener_second_loop` shows why it is; `listener_reason_lost` shows why
`ReasonsAreReturned` asks for no deadline.

`ListenerRouterProofs`, for any frames and configurations and `SetConfig` at any point,
from `ListenerRouterAssumption` (frames and configurations have the fields and types of
the code's structs; control frames may have a payload, since a granted limit of 0
would mean no limit at all):

| Theorem | Property | Argument |
|---|---|---|
| `AllocationStaysBounded` | `AllocationBounded` | `Granted`: the limit of the read in progress is that of one configuration read for this frame |
| `RetentionStaysBounded` | `RetainedBounded` | `InTurn`: an empty continuation is dropped unless it ends the message, so frames retained number at most one more than the bytes |
| `RoutedFramesAreLegal` | `RoutedIsLegal` | `Judged`: a frame about to be routed has the mask that a configuration it met asks for, whatever `SetConfig` has done since. `Told`: `currentDataAccLength` and `currentDataFrameCount` are the bytes and the number of the open message's frames, and `currentDataFrames` those frames unless a Data hook takes them, which makes the code's comparison of one frame with what is left of the budget that of the whole message with the budget |
| `RefusalsAreJustified` | `RefusedIsIllegal` | from the same invariant: each error return leads to the rule that the configuration in use there makes the frame break |
| `HooksAreCalledRight` | `HooksSeeTheStream` | one frame more in the history is one `CallsAt` more at the end, by `FlattenAppend`; what is joined there is what `currentDataFrames` holds, by `Told` |
| `FramingIsLawful` | (`Lawful`) | every routed frame kept the rules of framing at its place; `Checked` carries what `validateFrame` decided over to `RouteFrame`, whatever `SetConfig` does in between |
| `MessageIsKnown` | (`OpenKnown`) | `currentDataFrameCount` and `currentDataFrameOpcode` tell what the history of frames tells (`OpenAt`), which shares nothing with the code's running totals |

`FramingIsLawful` is the part of `RoutedIsLegal` that holds neither text nor budgets;
it needs `MessageIsKnown`, and `MessageIsKnown` needs `InTurn`: together they are
`RouterInv`. `StreamInv` adds `Told`, `Judged` and the three properties above. None of
these is inductive alone: what is joined is only right while the loop and the history
agree on where the open message began.

`FrameStreamProofs`, for every buffer size, frame, key and failing write, from
`BufferedWriteAssumption` (frames and keys are bytes, keys are four of them) and
`XorAssumption` (`^` keeps to a byte and undoes itself). Its last two theorems need
`FrameStreamAssumption` too: payload lengths are below 2^63, as those of Go's slices are:

| Theorem | Property | Argument |
|---|---|---|
| `WriterTypes` | (`WriterTypeOK`) | from `WriterInv` |
| `NothingOutgrowsTheBuffer` | `FitsInTheBuffer` | `WriterInv` adds that a writer has at least 14 bytes, and `WhereTheSendIs`: a header about to be written behind a flush meets an empty buffer, and a payload in progress a writer that works |
| `NoByteIsLost` | `BytesAreTheFrames` | every piece but the last is a whole number of keys, so that what is left is masked as if the payload started there; a failed write leaves a prefix, and a prefix of a prefix is one |
| `NeverBehindABrokenWrite` | `NothingAfterABrokenWrite` | every step that writes either asks for an unbroken writer or, by `WhereTheSendIs`, has one |
| `MaskPayloadIsRFC` | (`MaskPayload` = RFC 6455 5.3) | position by position; the key twice per block of eight bytes |

| `EveryLengthSurvives` | `LengthsSurvive` | the digits that `PutUint16` and `PutUint64` write are halves of halves of the length, and `FromBigEndian` puts them together again, by induction over the bytes (`LengthBack`); the first of the bytes tells the form and the mask |
| `TheStreamIsRead` | `FramesReadAreFramesSent` | `StreamInv`: there is a layout `p` that says where the bytes of each frame handed over begin (`Layout`), and the reader stands at the beginning of a frame, behind its first two bytes or behind its header, with what these bytes say (`ReaderAt`). The bytes on the wire are a beginning of those of the layout, by `NoByteIsLost`, so each read takes bytes of one frame only, and unmasking with the key that stood in front of them undoes the mask |

Every step of `FrameStream` is a step of `BufferedWrite` or leaves it alone, so what is
proved of the writer holds in the composition. The reader's position in the wire
is not a variable of the code: the layout is a witness, extended by each frame handed
over (`LayoutGrows`), which no step of the reader changes.

`SessionProofs`, for any frames of the applications, any number of sends and any
capacity, with write deadlines and read timeouts or without, from `SessionAssumption`
(types, and a channel holds a frame at least):

| Theorem | Property | Argument |
|---|---|---|
| `EveryCloseIsOwed` | `ClosesAreOwed` | `OwnCloses`: a close the application did not send is the loop's last word, owed to the last frame it took up. `Carried` makes that a frame the peer really sent, since what a loop took up and what is under way are what the peer sent, in order |
| `NothingIsTakenUpLater` | `NothingAfterTheEnd` | `LoopInv`: behind a frame that ends the session the loop is in its hook or past it, with a close to send, and does not come back to read |
| `NilIsAClosing` | `NilMeansClosed` | `LoopInv`: nil comes of a close or a reserved opcode alone, and of their hooks, whose send set `closeSent` or found the writer broken |
| `OrderlyEnds` | `OrderlyCloseIsSeen` | `EndInv`: what a failed read tells of the other side. EOF before a close means the peer's socket was closed without one; a reset, that something was sent which the peer never took up. `ClosedOnce` makes both exclude an answered close |

| `AnswersStayInOrder` | `AnswersInOrder` | if applications only ask (`AppsOnlyAsk`): `Even`, that what a hook has sent and the answer it is about to send are the pings taken up, in order, until a write fails, after which nothing more is sent; for texts, until a close is sent as well. `Carried` makes what was taken up a beginning of what was sent, and `PayloadsBegin` the frames of one kind too |

`AppsOnlyAsk` says that no application sends a pong and that the server's sends no
text of its own, as the examples do. `SendPong` and `SendText` are open to every
caller, and one that uses them so has its peer receive what it did not ask for.

`SessionInv` is all of these but the last for both sides with `Shape`, the types. `EndInv` is not
inductive without the others: a socket is closed by a program whose loop has
returned, and what the loop returned is `LoopInv`'s.

`HandshakeProofs`, for any connections, foreign requests, intermediaries and
caches, from `HandshakeAssumption` and `KeyAssumption` (sixteen random bytes: no
other client's request has this connection's key; `"zero"` and `"none"` are no
connection's key; a header list is a sequence of lines of strings):

| Theorem | Property | Argument |
|---|---|---|
| `ServerConnStands` | `ServerConnIsUpgraded` | `AnswersAreDecided`: an answer is decided once, on the request that arrived, and only a 101 written in full leads to `upgraded` |
| `ClientConnStands` | `ClientConnIsUpgraded` | `ResponsesAreAnswers`: whatever a client reads is some server's answer, rewritten, since rewriting touches no status and no accept value; `RequestsAreTheirs`: the key that server saw is its own client's. So an accept value that matches was computed from this key, by the server of this connection unless the key is all zeros |

The invariant is `HandshakeInv`, the three together with `Shape`, the domains of the
variables. None of the three is inductive alone: what a cache replays was decided on
a request, which was on the wire before.

From the same assumptions, in the same module:

| Theorem | Property | Argument |
|---|---|---|
| `OwnHandshakeSucceeds` | `HandshakeSucceeds` | `FitInv`: on a connection without a fault each side's next message is on its way, or has arrived, as the other sent it but for a faithful rewriting (`OnItsWay`). A token is found in a list after such a rewriting exactly if it was there before (`FaithfulKeeps`), so each validation decides as it would on what was sent |
| `AnswersFit` | `AnswerFitsTheRequest` | from the same invariant: the validation's chain of checks comes out at `"none"` exactly for a request that keeps `ServerRules`, and at `ErrVersion`, its last check, exactly if all the others passed. So a request is upgraded exactly if it keeps the server's rules; these are not all of RFC 6455 4.2.1, since the key's form and the `Host` are not looked at |
| `FramesAreNotStranded` | `NoFrameStranded` | `StreamInv`: read, held and under way are the numbers from 1 on in that order (`Streamed`), and while the message before them is unread nothing was read or is held. A message is only ever put on a wire nothing was sent on (`AskedAt`), and the `Conn` goes on with the reader's buffer as it is |

`FitInv` and `StreamInv` use `HandshakeInv` for the types of what is on the wire.
The first proof attempt showed that both validations, then a `CASE` each, did not say
which of several broken rules is reported: the code's order of returns does.

Induction over data. The library's induction theorems are stated for an operator,
which the provers at hand cannot instantiate. Its `WFMin` is stated for a set: a set of
numbers that is not empty has a least element. `DataInduction` makes of it
`SetInduction`, that a set with 0 and every successor of its members is `Nat`, and each
induction of the proofs applies it to the set of lengths for which a statement
holds: what `FlattenSeq` makes of one sequence more (hook calls, joined payloads, the
frames of one kind), what `FromBigEndian` makes of digits, what comes first among
frames of one kind.

Left to TLC is liveness (`ControlReturns`, `PingLoopEnds`, `SendersReturn`,
`PausedRunReturns`, `EverySendReturns`, `CloseCompletes`, `HandshakeEnds`), which rests
on fairness and on `ENABLED`. `ValidUTF8` is one definition for the code and for the
rule, so nothing is proved of it.

`MessageStream` labels each frame with its sender, call and place, so its
refinement says that messages never interleave and that a transmission's flags are
not left over for the next.

## 6. Not modelled, and next

Worth adding next: the reason text of a close in `Session`, with its 123 bytes; and the
proof that `ListenerRun`'s and `ListenerRouter`'s loops are the same loop, which the
README argues and no module composes.

Not modelled:

- dialling and accepting (`Client.go`, `Server.go`): calls of package `net` with no
  state of their own;
- HTTP parsing and formatting, which are net/http's; error texts;
- `DeclineByError`'s 500, for errors `ValidateHandShakeRequest` never returns, and
  nil requests on the server's side;
- the bytes of a key and of a `Host`: a request has a `Host` or not, a key is sixteen
  bytes in base64 or `"malformed"`. The server checks neither, and no property claims it;
- the reason text of a close payload in `Session` (in `ListenerRouter` its UTF-8 is
  judged);
- a `Frame` put together by hand with an opcode above 15, of which the header keeps
  four bits: the locks and the close rule are modelled for the sixteen opcodes;
- overlapping runs assembling into the same `Listener`, a data race: `OneLoop` is
  about when they overlap;
- keyboards, files and flags of the examples.
