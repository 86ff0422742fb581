------------------------------ MODULE Session ------------------------------
(***************************************************************************)
(* Two endpoints of one connection, from the handshake to both sockets closed: *)
(* the hooks NewStandardListener sets (ConnectionListener.go), which answer     *)
(* from inside the read loop, StandardClosePayloadFor (Errors.go), and what the *)
(* documented programs do around Listen (example/echo, example/client,          *)
(* example/stream_server).  One side's loop, one side's application and the      *)
(* other side's run concurrently; between them are two channels of bounded       *)
(* capacity, the transport's buffers.                                          *)
(*                                                                           *)
(* A frame is a whole message or a control frame.  What breaks a rule on the    *)
(* way in is ListenerRouter's subject: here a frame's kind says it.  What holds  *)
(* writeLocker for one frame is ConnWrite's: a send is one step, taken when the  *)
(* channel has room, and a send waits by not being taken.  TCP is outside: a     *)
(* socket closed with bytes unread resets the connection, which may destroy       *)
(* what is still on its way to the other side.                                 *)
(***************************************************************************)
EXTENDS Naturals, Sequences, SequencesExt

CONSTANTS
    AppFrame,      \* [Side -> the frames its application may send: [kind, pl]]
    MaxSends,      \* [Side -> bound: sends its application makes]
    ServerApp,     \* programs the server may run: "echo", "stream"
    WriteDeadline, \* subset of BOOLEAN: whether blocked writes fail in the end
    MayTimeOut,    \* sides whose FrameReadTimeout may pass
    Capacity       \* frames a channel holds

Side == {"client", "server"}

Peer(s) == IF s = "client" THEN "server" ELSE "client"

Kind == {"text", "badtext", "big", "rsv", "reserved", "ping", "pong", "close"}

\* pl: the status code of a close, 0 for a close without a body; what tells the
\* payloads of texts, pings and pongs apart.
Frame(kind, pl) == [kind |-> kind, pl |-> pl]

ASSUME SessionAssumption ==
    /\ \A s \in Side : MaxSends[s] \in Nat /\ AppFrame[s] \subseteq [kind : Kind, pl : Nat]
    /\ ServerApp \subseteq {"echo", "stream"}
    /\ WriteDeadline \subseteq BOOLEAN
    /\ MayTimeOut \subseteq Side
    /\ Capacity \in Nat \ {0}

VARIABLES
    app,        \* what the server runs
    deadline,   \* both sides set write deadlines
    transit,    \* frames on their way to each side, and unread in its buffers
    open,       \* whether each side's socket is open
    reset,      \* the connection was reset under this side
    broken,     \* the sticky error of each side's writer
    closeSent,
    loop,       \* where each side's read loop is
    reply,      \* what its hook sends
    lerr,       \* what Listen returned, "none" before
    sent,       \* history: frames each side put on the wire, and who sent them
    got,        \* history: frames each side's loop took up
    stop,       \* the client's keyboard loop has told its program to end
    sends       \* sends each application made

config == <<app, deadline>>
net    == <<transit, open, reset>>
writer == <<broken, closeSent, sent>>
vars   == <<config, net, writer, loop, reply, lerr, got, stop, sends>>

NoFrame == Frame("none", 0)

-----------------------------------------------------------------------------
(* The transport.                                                            *)

HasRoom(s) == Len(transit[s]) < Capacity

\* The socket of s takes f.  Sent to a socket that is closed, it is lost, and a
\* reset comes back.
Takes(s, f) ==
    /\ open[s] /\ ~reset[s] /\ ~broken[s]
    /\ \/ /\ open[Peer(s)] /\ HasRoom(Peer(s))
          /\ transit' = [transit EXCEPT ![Peer(s)] = Append(@, f)]
          /\ UNCHANGED <<open, reset>>
       \/ /\ ~open[Peer(s)]
          /\ reset' = [reset EXCEPT ![s] = TRUE]
          /\ UNCHANGED <<transit, open>>

\* Why a write may fail: the socket is gone, or the deadline passes.
CannotWrite(s) ==
    \/ broken[s] \/ ~open[s] \/ reset[s]
    \/ deadline /\ open[Peer(s)] /\ ~HasRoom(Peer(s))

-----------------------------------------------------------------------------
(* One frame sent by who: SendFrame, as ConnWrite has it.                      *)

Refused(s, f) == closeSent[s] /\ f.kind \in {"text", "badtext", "big", "rsv", "close"}

Sends(s, f, who) ==
    \/ Refused(s, f) /\ UNCHANGED <<net, writer>>
    \/ /\ ~Refused(s, f) /\ Takes(s, f)
       /\ closeSent' = [closeSent EXCEPT ![s] = @ \/ f.kind = "close"]
       /\ sent' = [sent EXCEPT ![s] = Append(@, [f |-> f, who |-> who])]
       /\ UNCHANGED broken
    \/ /\ ~Refused(s, f) /\ CannotWrite(s)
       /\ broken' = [broken EXCEPT ![s] = TRUE]
       /\ UNCHANGED <<net, closeSent, sent>>

-----------------------------------------------------------------------------
(* The read loop.                                                            *)

\* validCloseStatusCode, 0 for a payload that carries none.
ValidCloseStatusCode(code) ==
    code \in {0} \cup 3000..4999 \cup (1000..1015 \ {1004, 1005, 1006, 1015})

\* What validateFrame or routeFrame returns for f, "none" if it is routed.  The
\* Data hook of the stream server takes the place of the UTF-8 check.
Verdict(s, f) ==
    CASE f.kind = "rsv" -> "ErrReservedBitsSet"
      [] f.kind = "big" -> "ErrFrameByteLengthExceeded"
      [] f.kind = "badtext" /\ ~(s = "server" /\ app = "stream") -> "ErrInvalidUTF8"
      [] f.kind = "close" /\ ~ValidCloseStatusCode(f.pl) -> "ErrInvalidCloseStatusCode"
      [] OTHER -> "none"

\* Mutant: an error the package does not know is the peer's fault.
ClosePayloadBlaming(err) ==
    CASE err = "ErrInvalidUTF8"            -> 1007
      [] err = "ErrFrameByteLengthExceeded" -> 1009
      [] err = "nil"                       -> 0
      [] OTHER                             -> 1002

\* StandardClosePayloadFor, 0 for nil.
StandardClosePayloadFor(err) ==
    CASE err = "ErrInvalidUTF8"            -> 1007
      [] err = "ErrFrameByteLengthExceeded" -> 1009
      [] err \in {"ErrReservedBitsSet", "ErrInvalidCloseStatusCode"} -> 1002
      [] OTHER                             -> 0

Loop(s, at) == loop' = [loop EXCEPT ![s] = at]
Returns(s, err) == Loop(s, "returned") /\ lerr' = [lerr EXCEPT ![s] = err]

\* The hook for f is called and has an answer to send.
Hook(s, f) == Loop(s, "hook") /\ reply' = [reply EXCEPT ![s] = f] /\ UNCHANGED lerr

Reading(s) == Loop(s, "reading") /\ UNCHANGED <<reply, lerr>>

\* Mutant: a pong of its own making.
PingHookEmpty(s, f) == Hook(s, Frame("pong", 0))

RFC6455PingHook(s, f) == Hook(s, Frame("pong", f.pl))

\* Mutant: the run is paused and nothing sent.
CloseHookSilent(s, f) == Returns(s, "nil") /\ UNCHANGED reply

\* GetClosePayload and Bytes: a close without a body is answered by one.
RFC6455CloseHook(s, f) == Hook(s, Frame("close", f.pl))

RFC6455UnknownHook(s, f) == Hook(s, Frame("close", 1002))

\* The server's message hooks: echo sends the text back, stream refuses text.
MessageHook(s, f) ==
    \/ s = "server" /\ app = "echo" /\ Hook(s, f)
    \/ s = "server" /\ app = "stream" /\ Hook(s, Frame("close", 1003))
    \/ s = "client" /\ Reading(s)

Route(s, f) ==
    \/ f.kind = "ping" /\ RFC6455PingHook(s, f)
    \/ f.kind = "pong" /\ Reading(s)
    \/ f.kind = "close" /\ RFC6455CloseHook(s, f)
    \/ f.kind = "reserved" /\ RFC6455UnknownHook(s, f)
    \/ f.kind \in {"text", "badtext"} /\ MessageHook(s, f)

ReadFrame(s) ==
    /\ loop[s] = "reading" /\ open[s] /\ transit[s] # <<>>
    /\ LET f == Head(transit[s])
       IN  /\ got' = [got EXCEPT ![s] = Append(@, f)]
           /\ \/ Verdict(s, f) # "none" /\ Returns(s, Verdict(s, f)) /\ UNCHANGED reply
              \/ Verdict(s, f) = "none" /\ Route(s, f)
    /\ transit' = [transit EXCEPT ![s] = Tail(@)]
    /\ UNCHANGED <<config, open, reset, writer, stop, sends>>

\* The stream has ended, was reset, or this side's program closed the socket.
ReadFails(s) ==
    /\ loop[s] = "reading"
    /\ \/ ~open[s] /\ Returns(s, "ErrClosed")
       \/ open[s] /\ reset[s] /\ Returns(s, "reset")
       \/ open[s] /\ transit[s] = <<>> /\ ~open[Peer(s)] /\ Returns(s, "EOF")
    /\ UNCHANGED <<config, net, writer, reply, got, stop, sends>>

ReadTimesOut(s) ==
    /\ loop[s] = "reading" /\ s \in MayTimeOut /\ transit[s] = <<>>
    /\ Returns(s, "ErrDeadlineExceeded")
    /\ UNCHANGED <<config, net, writer, reply, got, stop, sends>>

\* Mutant: the close and unknown hooks do not pause the run.
NeverPauses(f) == FALSE

\* The hooks that pause their run: nil for a close and a reserved opcode, the
\* stream server's own error for a text.
Pauses(f) == f.kind = "close"

\* The hook's send returns, whatever its error, and the hook with it.
Answer(s) ==
    /\ loop[s] = "hook"
    /\ Sends(s, reply[s], "hook")
    /\ reply' = [reply EXCEPT ![s] = NoFrame]
    /\ \/ ~Pauses(reply[s]) /\ Loop(s, "reading") /\ UNCHANGED lerr
       \/ /\ Pauses(reply[s])
          /\ Returns(s, IF Last(got[s]).kind \in {"close", "reserved"} THEN "nil" ELSE "errOwn")
    /\ UNCHANGED <<config, got, stop, sends>>

-----------------------------------------------------------------------------
(* The program around the loop.                                              *)

\* After Listen: a close frame if the error deserves one,
Farewell(s) ==
    /\ loop[s] = "returned"
    /\ LET code == StandardClosePayloadFor(lerr[s])
       IN  \/ code = 0 /\ UNCHANGED <<net, writer>>
           \/ code # 0 /\ Sends(s, Frame("close", code), "farewell")
    /\ Loop(s, "done")
    /\ UNCHANGED <<config, reply, lerr, got, stop, sends>>

\* the socket, with what is unread, is closed,
CloseSocket(s) ==
    /\ open' = [open EXCEPT ![s] = FALSE]
    /\ transit' = [transit EXCEPT ![s] = <<>>]
    /\ reset' = [reset EXCEPT ![Peer(s)] = @ \/ transit[s] # <<>>]

\* and the program leaves.
Leave(s) ==
    /\ loop[s] = "done"
    /\ IF open[s] THEN CloseSocket(s) ELSE UNCHANGED net
    /\ Loop(s, "left")
    /\ UNCHANGED <<config, writer, reply, lerr, got, stop, sends>>

\* Mutant: the client does not wait for the answer to its close.
StopsEarly(s, f) == s = "client" /\ (f.kind = "close" \/ (f.kind = "text" /\ sent' = sent))

\* example/client: the keyboard loop stops the program when its text cannot be
\* sent, and only then; after its close it steps back and the reader goes on.
Stops(s, f) == s = "client" /\ f.kind = "text" /\ sent' = sent

AppClosed(s) == \E i \in DOMAIN sent[s] : sent[s][i].who = "app" /\ sent[s][i].f.kind = "close"

\* A goroutine other than the loop sends: the keyboard, a shutdown, SendFrame with
\* a frame that breaks a rule; a ping loop, which may be late by one ping.
AppSend(s, f) ==
    /\ sends[s] < MaxSends[s] /\ loop[s] # "left" /\ open[s]
    /\ AppClosed(s) => f.kind = "ping"
    /\ LET g == IF f.kind \in {"text", "ping"} THEN Frame(f.kind, sends[s] + 1) ELSE f
       IN  /\ Sends(s, g, "app")
           /\ stop' = (stop \/ Stops(s, g))
    /\ sends' = [sends EXCEPT ![s] = @ + 1]
    /\ UNCHANGED <<config, loop, reply, lerr, got>>

\* The program ends under its reader.
ProgramStops ==
    /\ stop /\ open["client"]
    /\ CloseSocket("client")
    /\ UNCHANGED <<config, writer, loop, reply, lerr, got, stop, sends>>

-----------------------------------------------------------------------------

Init ==
    /\ app \in ServerApp /\ deadline \in WriteDeadline
    /\ transit = [s \in Side |-> <<>>]
    /\ open = [s \in Side |-> TRUE]
    /\ reset = [s \in Side |-> FALSE]
    /\ broken = [s \in Side |-> FALSE]
    /\ closeSent = [s \in Side |-> FALSE]
    /\ loop = [s \in Side |-> "reading"]
    /\ reply = [s \in Side |-> NoFrame]
    /\ lerr = [s \in Side |-> "none"]
    /\ sent = [s \in Side |-> <<>>]
    /\ got = [s \in Side |-> <<>>]
    /\ stop = FALSE
    /\ sends = [s \in Side |-> 0]

LoopStep(s) == ReadFrame(s) \/ ReadFails(s) \/ Answer(s) \/ Farewell(s) \/ Leave(s)

\* The loop of s has a frame to send that the other's full channel does not take.
Blocked(s) ==
    /\ open[s] /\ ~reset[s] /\ ~broken[s] /\ open[Peer(s)] /\ ~HasRoom(Peer(s))
    /\ \/ loop[s] = "hook" /\ ~Refused(s, reply[s])
       \/ loop[s] = "returned" /\ StandardClosePayloadFor(lerr[s]) # 0 /\ ~closeSent[s]

\* Both are, without a deadline: neither will read again.
Jammed == ~deadline /\ \A s \in Side : Blocked(s)

\* Nothing left to do: both programs have ended, both wait for the other to
\* say something, or they are jammed for good.
Quiet ==
    /\ \/ \A s \in Side : loop[s] = "left"
       \/ \A s \in Side : open[s] /\ ~reset[s] /\ loop[s] = "reading" /\ transit[s] = <<>>
       \/ Jammed
    /\ UNCHANGED vars

Next ==
    \/ \E s \in Side : LoopStep(s) \/ ReadTimesOut(s) \/ \E f \in AppFrame[s] : AppSend(s, f)
    \/ ProgramStops
    \/ Quiet

\* A loop that has something to do goes on, as does a program told to stop.
\* Nobody has to send, and no deadline has to pass while its peer may yet read.
Spec ==
    /\ Init /\ [][Next]_vars
    /\ \A s \in Side : WF_vars(LoopStep(s))
    /\ WF_vars(ProgramStops)

-----------------------------------------------------------------------------

\* The codes RFC 6455 7.4 lets a close carry.
LegalCode(code) == code \in {0} \cup 1000..1003 \cup 1007..1014 \cup 3000..4999

\* The close a side owes for a frame it was sent, by RFC 6455 5.1 to 8.1.
Owed(s, f, code) ==
    \/ f.kind = "close" /\ LegalCode(f.pl) /\ code = f.pl
    \/ f.kind = "close" /\ ~LegalCode(f.pl) /\ code = 1002
    \/ f.kind \in {"rsv", "reserved"} /\ code = 1002
    \/ f.kind = "big" /\ code = 1009
    \/ f.kind = "badtext" /\ code = 1007
    \/ f.kind \in {"text", "badtext"} /\ s = "server" /\ app = "stream" /\ code = 1003

\* Every close that is not the application's own answers a frame the other side
\* really sent: an echo of its close, code for code, or the code for the rule it
\* broke.  No side is blamed for a socket that failed or a deadline that passed.
ClosesAreOwed ==
    \A s \in Side : \A i \in DOMAIN sent[s] :
        sent[s][i].f.kind = "close" /\ sent[s][i].who # "app" =>
            \E k \in DOMAIN sent[Peer(s)] :
                /\ Len(got[s]) = k /\ got[s][k] = sent[Peer(s)][k].f
                /\ Owed(s, got[s][k], sent[s][i].f.pl)

\* RFC 6455 5.5.1: behind a close, a reserved opcode or a frame that broke a rule,
\* nothing the peer sent is taken up any more.
NothingAfterTheEnd ==
    \A s \in Side : \A i \in 1..(Len(got[s]) - 1) :
        /\ got[s][i].kind \notin {"close", "reserved"}
        /\ Verdict(s, got[s][i]) = "none"

Payloads(frames, kind) ==
    FlattenSeq([i \in DOMAIN frames |-> IF frames[i].kind = kind THEN <<frames[i]>> ELSE <<>>])
FramesOf(s) == [i \in DOMAIN sent[s] |-> sent[s][i].f]
AsPings(frames) == [i \in DOMAIN frames |-> Frame("ping", frames[i].pl)]

\* The pongs a side is sent are answers to its own pings, each payload in turn,
\* and what the echo server sends back are the client's texts in their order,
\* although hooks answer while applications send and channels run full.
AnswersInOrder ==
    /\ \A s \in Side : IsPrefix(AsPings(Payloads(got[s], "pong")), Payloads(FramesOf(s), "ping"))
    /\ IsPrefix(Payloads(got["client"], "text"), Payloads(FramesOf("client"), "text"))

\* Listen returns nil for a closing handshake or a reserved opcode only, and by
\* then this side's own close is on the wire, unless its writes have failed.
NilMeansClosed ==
    \A s \in Side : lerr[s] = "nil" =>
        /\ Last(got[s]).kind \in {"close", "reserved"}
        /\ closeSent[s] \/ broken[s]

SilentAfterClose(s) == Last(FramesOf(s)).kind = "close"

\* When one side has taken up the other's close and answered it, the other sees
\* an orderly end too, never a connection that failed, although the socket is
\* closed at once.  Only a frame sent behind its close, which the answering side
\* leaves unread, can cost it the answer.
OrderlyCloseIsSeen ==
    \A s \in Side :
        (/\ lerr[Peer(s)] = "nil" /\ Last(got[Peer(s)]).kind = "close"
         /\ closeSent[Peer(s)] /\ SilentAfterClose(s))
            => lerr[s] \notin {"EOF", "reset", "ErrClosed"}

\* Once a close is on the wire, both programs end: whichever hooks answer,
\* whatever breaks, even if one side has nothing more to say.  The exception is
\* two loops that both answer into full channels and have no write deadline.
CloseCompletes ==
    \A s \in Side :
        closeSent[s] ~> ((\A t \in Side : loop[t] = "left") \/ Jammed)

=============================================================================
