----------------------------- MODULE Handshake -----------------------------
(***************************************************************************)
(* The opening handshake (HandShakeClient.go, HandShakeServer.go,              *)
(* ResponseWriter.go, HeaderToken.go) on several connections, each with a        *)
(* client, a server and whatever stands between them, up to the first frames     *)
(* both sides read.                                                          *)
(*                                                                           *)
(* A header is a sequence of lines, a line a sequence of tokens.  A request       *)
(* or a response travels whole, or cut off by a write that failed.  What is       *)
(* between the sides may extend, repeat or recase list headers, as RFC 7230       *)
(* lets it, take them away, speak HTTP/1.0, or answer from a cache.  SHA-1 is     *)
(* taken to have no collisions: an accept value is a pair of its name and key.   *)
(***************************************************************************)
EXTENDS Naturals, Sequences, SequencesExt

CONSTANTS
    Connection,  \* the connections, one handshake each
    Foreign,     \* [Connection -> requests other clients may send on it]
    Via,         \* [Connection -> what may stand between its sides]
    Caches,      \* connections whose client a cache may answer
    Writer,      \* writers an application may hand over
    WritesFail,  \* whether a write to the socket may fail
    RandFails,   \* whether crypto/rand may fail
    MaxFrames    \* [Connection -> bound: frames a side sends]

ASSUME HandshakeAssumption ==
    /\ \A c \in Connection :
        Via[c] \subseteq {"nothing", "ownLine", "sameLine", "lowerCase", "strips", "HTTP/1.0"}
    /\ Caches \subseteq Connection
    /\ Writer \subseteq {"fits", "small", "small and broken"}
    /\ WritesFail \in BOOLEAN /\ RandFails \in BOOLEAN
    /\ \A c \in Connection : MaxFrames[c] \in Nat

VARIABLES
    client,    \* where each ClientHandShake is
    server,    \* where each ServerHandShake is
    req,       \* the request each client sent
    arrived,   \* the request each server parsed
    answered,  \* the response each server wrote in full
    res,       \* the response each client parsed
    toServer,  \* what is on its way to each server
    toClient,
    buf,       \* what [connection, side]'s bufio.Reader holds
    sent,      \* frames each [connection, side] sent
    got,       \* frames it read
    closed,    \* whether its program has closed the socket
    fault      \* history: something on this connection was lost, refused or rewritten

sides == <<client, server>>
msgs  == <<req, arrived, answered, res>>
wires == <<toServer, toClient>>
vars  == <<sides, msgs, wires, buf, sent, got, closed, fault>>

Side == {"client", "server"}
End  == Connection \X Side

None == [kind |-> "none"]
Cut  == [kind |-> "cut"]
FrameNo(n) == [kind |-> "frame", n |-> n]
FirstFrames(n) == [i \in 1..n |-> FrameNo(i)]

-----------------------------------------------------------------------------
(* Header fields.                                                            *)

EqualFold(t) == CASE t = "Upgrade" -> "upgrade" [] t = "WebSocket" -> "websocket" [] OTHER -> t

\* Mutant: http.Header.Get, the first line alone.
TokenOnFirstLine(lines, token) ==
    lines # <<>> /\ \E j \in DOMAIN lines[1] : EqualFold(lines[1][j]) = token

HeaderHasToken(lines, token) ==
    \E i \in DOMAIN lines : \E j \in DOMAIN lines[i] : EqualFold(lines[i][j]) = token

\* What a message is after what stands between the sides has had it.
Lists(m, connection, upgrade) == [m EXCEPT !.connection = connection, !.upgrade = upgrade]

Rewritten(m, via) ==
    CASE via = "ownLine"  -> Lists(m, <<<<"keep-alive">>>> \o m.connection, m.upgrade)
      [] via = "sameLine" -> Lists(m, [i \in DOMAIN m.connection |-> <<"keep-alive">> \o m.connection[i]], m.upgrade)
      [] via = "lowerCase" ->
            Lists(m, [i \in DOMAIN m.connection |-> [j \in DOMAIN m.connection[i] |-> EqualFold(m.connection[i][j])]], m.upgrade)
      [] via = "strips"   -> Lists(m, <<>>, <<>>)
      [] via = "HTTP/1.0" -> [m EXCEPT !.proto = "HTTP/1.0"]
      [] OTHER            -> m

Faithful(via) == via \in {"nothing", "ownLine", "sameLine", "lowerCase"}

-----------------------------------------------------------------------------
(* The client.                                                               *)

Accept(key) == <<"accept", key>>
NoAccept == <<>>  \* a response without the header

Request(method, proto, host, key, connection, upgrade, version) ==
    [kind |-> "request", method |-> method, proto |-> proto, host |-> host, key |-> key,
     connection |-> connection, upgrade |-> upgrade, version |-> version]

\* Keys are sixteen random bytes: nobody else's request has the key of a
\* connection's own by chance.  "none" is a header without a key, "malformed" a key
\* that is not the base64 of sixteen bytes.
ASSUME KeyAssumption ==
    /\ {"zero", "none", "malformed"} \cap Connection = {}
    /\ \A c \in Connection : \A r \in Foreign[c] :
        /\ DOMAIN r = {"kind", "method", "proto", "host", "key", "connection", "upgrade", "version"}
        /\ r.kind = "request" /\ r.key \notin Connection
        /\ r.connection \in Seq(Seq(STRING)) /\ r.upgrade \in Seq(Seq(STRING))

\* A key that could not be drawn is sixteen zero bytes.
Key(c) == {c} \cup IF RandFails THEN {"zero"} ELSE {}

\* With the Host that RequestToPlainHTTPMsg takes from the URL.
UpgradeRequest(key) ==
    Request("GET", "HTTP/1.1", TRUE, key, <<<<"Upgrade">>>>, <<<<"websocket">>>>, "13")

Client(c, at) == client' = [client EXCEPT ![c] = at]
Server(c, at) == server' = [server EXCEPT ![c] = at]
Faulty(c)     == fault' = [fault EXCEPT ![c] = TRUE]

\* A nil request is refused before anything is sent.
RefuseNil(c) ==
    /\ client[c] = "idle"
    /\ Client(c, "failed") /\ Faulty(c)
    /\ UNCHANGED <<server, msgs, wires, buf, sent, got, closed>>

SendHandShakeRequest(c) ==
    /\ client[c] = "idle"
    /\ \E key \in Key(c), via \in Via[c] :
        /\ req' = [req EXCEPT ![c] = UpgradeRequest(key)]
        /\ \/ /\ toServer' = [toServer EXCEPT ![c] = <<Rewritten(req'[c], via)>>]
              /\ Client(c, "sent")
              /\ fault' = [fault EXCEPT ![c] = ~Faithful(via)]
           \/ /\ WritesFail
              /\ toServer' = [toServer EXCEPT ![c] = <<Cut>>]
              /\ Client(c, "failed") /\ Faulty(c)
    /\ UNCHANGED <<server, arrived, answered, res, toClient, buf, sent, got, closed>>

\* Another client's request, of its own making, with or without a frame sent
\* right behind it.
SendForeignRequest(c) ==
    /\ client[c] = "idle"
    /\ \E r \in Foreign[c], via \in Via[c], n \in 0..1 :
        /\ n <= MaxFrames[c]
        /\ req' = [req EXCEPT ![c] = r]
        /\ toServer' = [toServer EXCEPT ![c] = <<Rewritten(r, via)>> \o FirstFrames(n)]
        /\ sent' = [sent EXCEPT ![<<c, "client">>] = n]
        /\ fault' = [fault EXCEPT ![c] = ~Faithful(via)]
    /\ Client(c, "foreign")
    /\ UNCHANGED <<server, arrived, answered, res, toClient, buf, got, closed>>

\* What the bufio.Reader holds of n items read when the first was the message.
Beyond(items, n) == SubSeq(items, 2, n)

\* http.ReadResponse takes whole lines from r, which may have read on.
ReadHandShakeResponse(c) ==
    /\ client[c] = "sent"
    /\ toClient[c] # <<>> /\ toClient[c][1].kind = "response"
    /\ res' = [res EXCEPT ![c] = toClient[c][1]]
    /\ \E n \in 1..Len(toClient[c]) :
        /\ buf' = [buf EXCEPT ![<<c, "client">>] = Beyond(toClient[c], n)]
        /\ toClient' = [toClient EXCEPT ![c] = SubSeq(@, n + 1, Len(@))]
    /\ Client(c, "read")
    /\ UNCHANGED <<server, req, arrived, answered, toServer, sent, got, closed, fault>>

ReadResponseFails(c) ==
    /\ client[c] = "sent" /\ closed[<<c, "server">>]
    /\ toClient[c] = <<>> \/ toClient[c][1].kind # "response"
    /\ Client(c, "failed") /\ Faulty(c)
    /\ UNCHANGED <<server, msgs, wires, buf, sent, got, closed>>

\* Mutant: any accept value will do.
ValidateWithoutKey(r, key) ==
    IF r.status # 101 THEN "ErrStatusCode" ELSE "none"

\* Each check returns at once: with several rules broken the first error is the one.
ValidateHandShakeResponse(r, key) ==
    IF r.status # 101                                THEN "ErrStatusCode"
    ELSE IF r.proto # "HTTP/1.1"                     THEN "ErrProto"
    ELSE IF ~HeaderHasToken(r.connection, "upgrade") THEN "ErrConnection"
    ELSE IF ~HeaderHasToken(r.upgrade, "websocket")  THEN "ErrUpgrade"
    ELSE IF r.accept = NoAccept                      THEN "ErrAcceptMissing"
    ELSE IF r.accept # Accept(key)                   THEN "ErrAcceptMismatch"
    ELSE "none"

\* Mutant: frames are read from a reader of their own.
FreshReader(held) == <<>>

\* The Conn reads on from the reader the handshake was read through.
Reader(held) == held

\* fitWriter: a writer too small is flushed first, which a write that failed
\* earlier has made impossible.
NewConn(c, s) ==
    \E w \in Writer :
        LET made == w # "small and broken"
            at   == IF made THEN "conn" ELSE "failed"
        IN  /\ IF s = "client" THEN Client(c, at) /\ UNCHANGED server
                               ELSE Server(c, at) /\ UNCHANGED client
            /\ buf' = [buf EXCEPT ![<<c, s>>] = Reader(@)]
            /\ fault' = [fault EXCEPT ![c] = @ \/ ~made]

ClientHandShake(c) ==
    /\ client[c] = "read"
    /\ \/ /\ ValidateHandShakeResponse(res[c], req[c].key) = "none"
          /\ NewConn(c, "client")
       \/ /\ ValidateHandShakeResponse(res[c], req[c].key) # "none"
          /\ Client(c, "failed")
          /\ UNCHANGED <<server, buf, fault>>
    /\ UNCHANGED <<msgs, wires, sent, got, closed>>

-----------------------------------------------------------------------------
(* The server.                                                               *)

\* http.ReadRequest, by the program or by net/http.
ReadRequest(c) ==
    /\ server[c] = "waiting"
    /\ toServer[c] # <<>> /\ toServer[c][1].kind = "request"
    /\ arrived' = [arrived EXCEPT ![c] = toServer[c][1]]
    /\ \E n \in 1..Len(toServer[c]) :
        /\ buf' = [buf EXCEPT ![<<c, "server">>] = Beyond(toServer[c], n)]
        /\ toServer' = [toServer EXCEPT ![c] = SubSeq(@, n + 1, Len(@))]
    /\ Server(c, "handling")
    /\ UNCHANGED <<client, req, answered, res, toClient, sent, got, closed, fault>>

\* The request is cut off, or what came is none.
ReadRequestFails(c) ==
    /\ server[c] = "waiting"
    /\ IF toServer[c] = <<>> THEN closed[<<c, "client">>]
       ELSE \/ toServer[c][1].kind = "cut" /\ closed[<<c, "client">>]
            \/ toServer[c][1].kind = "frame"
    /\ Server(c, "failed") /\ Faulty(c)
    /\ UNCHANGED <<client, msgs, wires, buf, sent, got, closed>>

\* Mutant: the version is looked at first.
ValidateVersionFirst(r) ==
    IF r.version # "13"                              THEN "ErrVersion"
    ELSE IF r.method # "GET"                         THEN "ErrMethod"
    ELSE IF r.proto # "HTTP/1.1"                     THEN "ErrProto"
    ELSE IF r.key = "none"                           THEN "ErrKey"
    ELSE IF ~HeaderHasToken(r.connection, "upgrade") THEN "ErrConnection"
    ELSE IF ~HeaderHasToken(r.upgrade, "websocket")  THEN "ErrUpgrade"
    ELSE "none"

ValidateHandShakeRequest(r) ==
    IF r.method # "GET"                              THEN "ErrMethod"
    ELSE IF r.proto # "HTTP/1.1"                     THEN "ErrProto"
    ELSE IF r.key = "none"                           THEN "ErrKey"
    ELSE IF ~HeaderHasToken(r.connection, "upgrade") THEN "ErrConnection"
    ELSE IF ~HeaderHasToken(r.upgrade, "websocket")  THEN "ErrUpgrade"
    ELSE IF r.version # "13"                         THEN "ErrVersion"
    ELSE "none"

Response(status, connection, upgrade, accept, version) ==
    [kind |-> "response", status |-> status, proto |-> "HTTP/1.1", connection |-> connection,
     upgrade |-> upgrade, accept |-> accept, version |-> version]

DeclineByError(err) ==
    CASE err = "ErrMethod"  -> Response(405, <<>>, <<>>, NoAccept, "none")
      [] err = "ErrProto"   -> Response(505, <<>>, <<>>, NoAccept, "none")
      [] err = "ErrVersion" -> Response(426, <<>>, <<>>, NoAccept, "13")
      [] OTHER              -> Response(400, <<>>, <<>>, NoAccept, "none")

UpgradeForWebsocket(key) ==
    Response(101, <<<<"Upgrade">>>>, <<<<"websocket">>>>, Accept(key), "13")

\* Mutant: the response went out, so the handshake is done.
AfterWrite(invalid) == "upgraded"

\* serverHandShake's error, once the response is written: why it declined.
AfterResponse(invalid) == IF invalid = "none" THEN "upgraded" ELSE "failed"

ServerHandShake(c) ==
    /\ server[c] = "handling"
    /\ LET invalid  == ValidateHandShakeRequest(arrived[c])
           response == IF invalid = "none" THEN UpgradeForWebsocket(arrived[c].key) ELSE DeclineByError(invalid)
       IN  \/ \E via \in Via[c] :
                /\ toClient' = [toClient EXCEPT ![c] = Append(@, Rewritten(response, via))]
                /\ answered' = [answered EXCEPT ![c] = response]
                /\ Server(c, AfterResponse(invalid))
                /\ fault' = [fault EXCEPT ![c] = @ \/ ~Faithful(via)]
           \/ /\ WritesFail
              /\ toClient' = [toClient EXCEPT ![c] = Append(@, Cut)]
              /\ Server(c, "failed") /\ Faulty(c)
              /\ UNCHANGED answered
    /\ UNCHANGED <<client, req, arrived, res, toServer, buf, sent, got, closed>>

ServerNewConn(c) ==
    /\ server[c] = "upgraded"
    /\ NewConn(c, "server")
    /\ UNCHANGED <<msgs, wires, sent, got, closed>>

-----------------------------------------------------------------------------
(* Around the handshake.                                                     *)

\* A cache gives the client what a server once answered, and the request goes
\* no further.
CacheAnswers(c) ==
    /\ c \in Caches /\ client[c] = "sent"
    /\ toServer[c] # <<>> /\ toServer[c][1].kind = "request"
    /\ \E d \in Connection : /\ answered[d] # None
                             /\ toClient' = [toClient EXCEPT ![c] = <<answered[d]>>]
    /\ toServer' = [toServer EXCEPT ![c] = <<>>]
    /\ Faulty(c)
    /\ UNCHANGED <<sides, msgs, buf, sent, got, closed>>

HasConn(c, s) == IF s = "client" THEN client[c] = "conn" ELSE server[c] = "conn"
HasFailed(c, s) == IF s = "client" THEN client[c] = "failed" ELSE server[c] = "failed"

SendFrame(c, s) ==
    /\ HasConn(c, s) /\ sent[<<c, s>>] < MaxFrames[c]
    /\ sent' = [sent EXCEPT ![<<c, s>>] = @ + 1]
    /\ LET f == FrameNo(sent'[<<c, s>>])
       IN  IF s = "client" THEN toServer' = [toServer EXCEPT ![c] = Append(@, f)] /\ UNCHANGED toClient
                           ELSE toClient' = [toClient EXCEPT ![c] = Append(@, f)] /\ UNCHANGED toServer
    /\ UNCHANGED <<sides, msgs, buf, got, closed, fault>>

Wire(c, s) == IF s = "client" THEN toClient[c] ELSE toServer[c]

\* GetNextFrame: what the reader holds, then what is on the wire.
GetNextFrame(c, s) ==
    /\ HasConn(c, s)
    /\ LET held == buf[<<c, s>>] \o Wire(c, s)
           rest == Tail(held)
       IN  /\ held # <<>> /\ held[1].kind = "frame"
           /\ got' = [got EXCEPT ![<<c, s>>] = Append(@, held[1].n)]
           /\ IF buf[<<c, s>>] # <<>> THEN buf' = [buf EXCEPT ![<<c, s>>] = Tail(@)] /\ UNCHANGED wires
              ELSE /\ UNCHANGED buf
                   /\ IF s = "client" THEN toClient' = [toClient EXCEPT ![c] = rest] /\ UNCHANGED toServer
                                      ELSE toServer' = [toServer EXCEPT ![c] = rest] /\ UNCHANGED toClient
    /\ UNCHANGED <<sides, msgs, sent, closed, fault>>

\* Mutant: a handler that returns without closing what it was given.
HandlerForgets(c, s) == FALSE

\* A program whose handshake failed returns and closes the socket.
HandlerReturns(c, s) == HasFailed(c, s) /\ ~closed[<<c, s>>]

Close(c, s) ==
    /\ HandlerReturns(c, s)
    /\ closed' = [closed EXCEPT ![<<c, s>>] = TRUE]
    /\ UNCHANGED <<sides, msgs, wires, buf, sent, got, fault>>

-----------------------------------------------------------------------------

Init ==
    /\ client = [c \in Connection |-> "idle"] /\ server = [c \in Connection |-> "waiting"]
    /\ req = [c \in Connection |-> None] /\ arrived = [c \in Connection |-> None]
    /\ answered = [c \in Connection |-> None] /\ res = [c \in Connection |-> None]
    /\ toServer = [c \in Connection |-> <<>>] /\ toClient = [c \in Connection |-> <<>>]
    /\ buf = [e \in End |-> <<>>] /\ sent = [e \in End |-> 0] /\ got = [e \in End |-> <<>>]
    /\ closed = [e \in End |-> FALSE] /\ fault = [c \in Connection |-> FALSE]

ClientStep(c) == ReadHandShakeResponse(c) \/ ReadResponseFails(c) \/ ClientHandShake(c) \/ Close(c, "client")
ServerStep(c) ==
    ReadRequest(c) \/ ReadRequestFails(c) \/ ServerHandShake(c) \/ ServerNewConn(c) \/ Close(c, "server")

\* The system stops once every handshake is over and the frames are sent and read.
Next ==
    \E c \in Connection :
        \/ RefuseNil(c) \/ SendHandShakeRequest(c) \/ SendForeignRequest(c)
        \/ ClientStep(c) \/ ServerStep(c) \/ CacheAnswers(c)
        \/ \E s \in Side : SendFrame(c, s) \/ GetNextFrame(c, s)

\* Both programs go on once they have something to read, and close behind
\* themselves; nobody has to start.
Spec ==
    /\ Init /\ [][Next]_vars
    /\ \A c \in Connection : WF_vars(ClientStep(c)) /\ WF_vars(ServerStep(c))

-----------------------------------------------------------------------------

\* A client that gets a Conn was upgraded by the server, for the very key it sent,
\* and on this connection: no answer to another handshake passes for one, unless
\* both keys are the zeros of a random source that failed.
ClientConnIsUpgraded ==
    \A c \in Connection : client[c] = "conn" =>
        \E d \in Connection :
            /\ answered[d] # None /\ answered[d].status = 101 /\ arrived[d].key = req[c].key
            /\ req[c].key # "zero" => d = c

\* A server gets a Conn only behind a 101 written in full for the request that
\* arrived: never one it declined, whose response it could not write, or of which
\* it has heard nothing.  Only then does it send frames.
ServerConnIsUpgraded ==
    \A c \in Connection : (server[c] = "conn" \/ sent[<<c, "server">>] > 0) =>
        answered[c] = UpgradeForWebsocket(arrived[c].key) /\ arrived[c].key # "none"

\* Where lists are only extended, repeated or recased on the way, and nothing
\* breaks, both sides of this package's own handshake get their Conn.
HandshakeSucceeds ==
    \A c \in Connection :
        ~fault[c] /\ client[c] # "foreign" => client[c] # "failed" /\ server[c] # "failed"

Tokens(lines) == UNION {Range(lines[i]) : i \in DOMAIN lines}

\* The rules the server has an error for, of a request as its client sent it.
ServerRules(r) ==
    /\ r.method = "GET" /\ r.proto = "HTTP/1.1" /\ r.key # "none" /\ r.version = "13"
    /\ Tokens(r.connection) \cap {"Upgrade", "upgrade"} # {}
    /\ Tokens(r.upgrade) \cap {"WebSocket", "websocket"} # {}

\* Whatever was done to its lists since, a request is upgraded exactly if it kept the
\* server's rules when it was sent, which are not all of RFC 6455 4.2.1: its Host and
\* the form of its key count for nothing.  And a client told 426 is told the one thing
\* to change: its request with the version the answer names would be upgraded
\* (RFC 6455 4.4; ValidateHandShakeRequest, DeclineByError).
AnswerFitsTheRequest ==
    \A c \in Connection : answered[c] # None /\ ~fault[c] =>
        /\ answered[c].status = 101 <=> ServerRules(req[c])
        /\ answered[c].status = 426 => ServerRules([req[c] EXCEPT !.version = answered[c].version])

\* The frames among items: everything but a message, which comes first if at all.
FramesIn(items) ==
    LET f == IF items # <<>> /\ items[1].kind # "frame" THEN Tail(items) ELSE items
    IN  [i \in DOMAIN f |-> f[i].n]

Other(s) == IF s = "client" THEN "server" ELSE "client"

\* No frame is lost to the handshake: what a side has read, what its reader still
\* holds and what is on the wire are what the other side sent, in order, however
\* far http.ReadRequest or http.ReadResponse read on.
NoFrameStranded ==
    \A c \in Connection, s \in Side :
        got[<<c, s>>] \o FramesIn(buf[<<c, s>>] \o Wire(c, s)) = [i \in 1..sent[<<c, Other(s)>>] |-> i]

\* A client that has sent its request gets a Conn or an error, whatever is
\* answered, cut off, rewritten or declined; and a server whose client has given
\* up half way does not wait for the rest.
HandshakeEnds ==
    \A c \in Connection :
        /\ client[c] = "sent" ~> client[c] \in {"conn", "failed"}
        /\ client[c] = "failed" ~> server[c] \in {"conn", "failed"}

=============================================================================
