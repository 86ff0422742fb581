-------------------------- MODULE HandshakeProofs --------------------------
(***************************************************************************)
(* Theorems about Handshake for any number of connections, any requests of      *)
(* other clients, and whatever stands between the sides or answers from a       *)
(* cache.  First: a Conn is only made by both sides' agreement.                *)
(*                                                                           *)
(* Then what both validations decide: where lists are only extended, repeated or *)
(* recased on the way, a request is upgraded exactly if it conformed when it was  *)
(* sent, and this package's own handshake gives both sides their Conn.  And what  *)
(* becomes of the frames behind the handshake: none is lost to the reader it was  *)
(* read through.                                                             *)
(***************************************************************************)
EXTENDS Handshake, SequenceTheorems, TLAPS

-----------------------------------------------------------------------------
(* What may be on its way.                                                   *)

Vias == {"nothing", "ownLine", "sameLine", "lowerCase", "strips", "HTTP/1.0"}

RequestFields == {"kind", "method", "proto", "host", "key", "connection", "upgrade", "version"}
ResponseFields == {"kind", "status", "proto", "connection", "upgrade", "accept", "version"}

Errors == {"ErrMethod", "ErrProto", "ErrKey", "ErrConnection", "ErrUpgrade", "ErrVersion", "none"}

\* A request of connection c's client: its key is its own, or nobody's.
RequestOf(r, c) ==
    /\ DOMAIN r = RequestFields /\ r.kind = "request"
    /\ r.key = c \/ r.key \notin Connection

Frames == {FrameNo(n) : n \in Nat}

FromClient(c) ==
    {Rewritten(req[c], via) : via \in (IF req[c] = None THEN {} ELSE Vias)} \cup {Cut} \cup Frames

Answering == {d \in Connection : answered[d] # None}

FromServers ==
    {Rewritten(answered[d], via) : d \in Answering, via \in Vias} \cup {Cut} \cup Frames

-----------------------------------------------------------------------------
(* The invariant.                                                            *)

Shape ==
    /\ DOMAIN client = Connection /\ DOMAIN server = Connection
    /\ DOMAIN req = Connection /\ DOMAIN arrived = Connection
    /\ DOMAIN answered = Connection /\ DOMAIN res = Connection
    /\ DOMAIN toServer = Connection /\ DOMAIN toClient = Connection
    /\ sent \in [End -> Nat]

\* What arrives is what was sent, keys included.
RequestsAreTheirs ==
    \A c \in Connection :
        /\ client[c] = "idle" => toServer[c] = <<>> /\ arrived[c] = None
        /\ client[c] \in {"sent", "read", "conn"} => req[c].key \in {c, "zero"}
        /\ req[c] # None => RequestOf(req[c], c)
        /\ toServer[c] \in Seq(FromClient(c))
        /\ arrived[c] # None => req[c] # None /\ \E via \in Vias : arrived[c] = Rewritten(req[c], via)
        /\ server[c] = "handling" => arrived[c] # None

\* An answer was decided on the request that arrived, once.
AnswersAreDecided ==
    \A c \in Connection :
        /\ answered[c] # None =>
              /\ server[c] \notin {"waiting", "handling"} /\ arrived[c] # None
              /\ \/ answered[c] = UpgradeForWebsocket(arrived[c].key) /\ arrived[c].key # "none"
                 \/ \E e \in Errors : answered[c] = DeclineByError(e)
        /\ server[c] \in {"upgraded", "conn"} => answered[c] # None /\ answered[c].status = 101
        /\ sent[<<c, "server">>] > 0 => server[c] = "conn"

\* What a client judges is some server's answer, rewritten or not.
ResponsesAreAnswers ==
    \A c \in Connection :
        /\ toClient[c] \in Seq(FromServers)
        /\ client[c] \in {"read", "conn"} =>
              \E d \in Answering, via \in Vias : res[c] = Rewritten(answered[d], via)
        /\ client[c] = "conn" => res[c].status = 101 /\ res[c].accept = Accept(req[c].key)

HandshakeInv == Shape /\ RequestsAreTheirs /\ AnswersAreDecided /\ ResponsesAreAnswers

-----------------------------------------------------------------------------
(* Rewriting keeps everything but the lists and the version of HTTP.           *)

LEMMA RewrittenRequest ==
    ASSUME NEW r, NEW via, DOMAIN r = RequestFields
    PROVE  Rewritten(r, via).key = r.key /\ Rewritten(r, via).kind = r.kind
  <1>1. "key" \in DOMAIN r /\ "kind" \in DOMAIN r
    BY DEF RequestFields
  <1> QED
    BY <1>1 DEF Rewritten, Lists

LEMMA RewrittenResponse ==
    ASSUME NEW r, NEW via, DOMAIN r = ResponseFields
    PROVE  /\ Rewritten(r, via).kind = r.kind
           /\ Rewritten(r, via).status = r.status /\ Rewritten(r, via).accept = r.accept
  <1>1. "kind" \in DOMAIN r /\ "status" \in DOMAIN r /\ "accept" \in DOMAIN r
    BY DEF ResponseFields
  <1> QED
    BY <1>1 DEF Rewritten, Lists

LEMMA UpgradeIs ==
    ASSUME NEW key
    PROVE  /\ DOMAIN UpgradeForWebsocket(key) = ResponseFields
           /\ UpgradeForWebsocket(key).kind = "response"
           /\ UpgradeForWebsocket(key).status = 101
           /\ UpgradeForWebsocket(key).accept = Accept(key)
           /\ UpgradeForWebsocket(key) # None
  BY DEF UpgradeForWebsocket, Response, ResponseFields, None

LEMMA DeclineIs ==
    ASSUME NEW e
    PROVE  /\ DOMAIN DeclineByError(e) = ResponseFields
           /\ DeclineByError(e).kind = "response"
           /\ DeclineByError(e).status # 101
           /\ DeclineByError(e) # None
  BY DEF DeclineByError, Response, ResponseFields, None

LEMMA WireToServer ==
    ASSUME RequestsAreTheirs, NEW c \in Connection, toServer[c] # <<>>, toServer[c][1].kind = "request"
    PROVE  req[c] # None /\ client[c] # "idle" /\ \E via \in Vias : toServer[c][1] = Rewritten(req[c], via)
  <1>1. toServer[c] \in Seq(FromClient(c))
    BY DEF RequestsAreTheirs
  <1>2. Len(toServer[c]) \in Nat /\ Len(toServer[c]) >= 1
    BY <1>1, EmptySeq
  <1>3. toServer[c][1] \in FromClient(c)
    BY <1>1, <1>2, ElementOfSeq
  <1>4. Cut.kind # "request" /\ \A f \in Frames : f.kind # "request"
    BY DEF Cut, Frames, FrameNo
  <1>5. toServer[c][1] \in {Rewritten(req[c], via) : via \in (IF req[c] = None THEN {} ELSE Vias)}
    BY <1>3, <1>4 DEF FromClient
  <1>6. client[c] # "idle"
    BY DEF RequestsAreTheirs
  <1> QED
    BY <1>5, <1>6

LEMMA WireToClient ==
    ASSUME ResponsesAreAnswers, NEW c \in Connection, toClient[c] # <<>>, toClient[c][1].kind = "response"
    PROVE  \E d \in Answering, via \in Vias : toClient[c][1] = Rewritten(answered[d], via)
  <1>1. toClient[c] \in Seq(FromServers)
    BY DEF ResponsesAreAnswers
  <1>2. Len(toClient[c]) \in Nat /\ Len(toClient[c]) >= 1
    BY <1>1, EmptySeq
  <1>3. toClient[c][1] \in FromServers
    BY <1>1, <1>2, ElementOfSeq
  <1>4. Cut.kind # "response" /\ \A f \in Frames : f.kind # "response"
    BY DEF Cut, Frames, FrameNo
  <1>5. toClient[c][1] \in {Rewritten(answered[d], via) : d \in Answering, via \in Vias}
    BY <1>3, <1>4 DEF FromServers
  <1> QED
    BY <1>5

LEMMA AnswerOnTheWire ==
    ASSUME AnswersAreDecided, NEW d \in Answering, NEW via \in Vias
    PROVE  /\ Rewritten(answered[d], via).kind = "response"
           /\ Rewritten(answered[d], via).status = answered[d].status
           /\ Rewritten(answered[d], via).accept = answered[d].accept
  <1>1. d \in Connection /\ answered[d] # None
    BY DEF Answering
  <1>2. DOMAIN answered[d] = ResponseFields /\ answered[d].kind = "response"
    <2>1. CASE answered[d] = UpgradeForWebsocket(arrived[d].key)
      BY <2>1, UpgradeIs
    <2>2. CASE \E e \in Errors : answered[d] = DeclineByError(e)
      BY <2>2, DeclineIs
    <2> QED
      BY <1>1, <2>1, <2>2 DEF AnswersAreDecided
  <1> QED
    BY <1>2, RewrittenResponse

\* What is left of a queue once its first n items are read.
LEMMA ReadOn ==
    ASSUME NEW S, NEW s \in Seq(S), NEW n \in 1..Len(s)
    PROVE  SubSeq(s, n + 1, Len(s)) \in Seq(S)
  <1>1. Len(s) \in Nat /\ n \in Nat
    BY LenProperties
  <1>2. \A i \in (n + 1)..Len(s) : s[i] \in S
    <2>1. \A i \in 1..Len(s) : s[i] \in S
      BY ElementOfSeq
    <2> QED
      BY <1>1, <2>1
  <1>3. n + 1 \in Int /\ Len(s) \in Int
    BY <1>1
  <1> QED
    BY <1>2, <1>3, SubSeqProperties

LEMMA OneMore ==
    ASSUME NEW S, NEW s \in Seq(S), NEW x \in S
    PROVE  Append(s, x) \in Seq(S)
  BY AppendProperties

-----------------------------------------------------------------------------
(* Steps that leave a part alone.                                            *)

LEMMA RequestsStay ==
    ASSUME RequestsAreTheirs, toServer' = toServer, req' = req, arrived' = arrived,
           \A c \in Connection :
               /\ client'[c] = "idle" => client[c] = "idle"
               /\ client'[c] \in {"sent", "read", "conn"} => client[c] \in {"sent", "read", "conn"}
               /\ server'[c] = "handling" => server[c] = "handling"
    PROVE  RequestsAreTheirs'
  <1>1. \A c \in Connection : FromClient(c)' = FromClient(c)
    BY DEF FromClient
  <1> QED
    BY <1>1 DEF RequestsAreTheirs

LEMMA AnswersStay ==
    ASSUME AnswersAreDecided, answered' = answered,
           \A c \in Connection :
               /\ server[c] \notin {"waiting", "handling"} => server'[c] \notin {"waiting", "handling"}
               /\ server'[c] \in {"upgraded", "conn"} => server[c] \in {"upgraded", "conn"}
               /\ sent'[<<c, "server">>] > 0 => server'[c] = "conn"
               /\ server[c] # "waiting" => arrived'[c] = arrived[c]
    PROVE  AnswersAreDecided'
  <1>1. ASSUME NEW c \in Connection, answered[c] # None
        PROVE  /\ server'[c] \notin {"waiting", "handling"} /\ arrived'[c] # None
               /\ \/ answered[c] = UpgradeForWebsocket(arrived'[c].key) /\ arrived'[c].key # "none"
                  \/ \E e \in Errors : answered[c] = DeclineByError(e)
    <2>1. arrived'[c] = arrived[c]
      BY <1>1 DEF AnswersAreDecided
    <2> QED
      BY <1>1, <2>1 DEF AnswersAreDecided
  <1>2. ASSUME NEW c \in Connection, server'[c] \in {"upgraded", "conn"}
        PROVE  answered[c] # None /\ answered[c].status = 101
    BY <1>2 DEF AnswersAreDecided
  <1> QED
    BY <1>1, <1>2 DEF AnswersAreDecided

LEMMA ResponsesStay ==
    ASSUME ResponsesAreAnswers, toClient' = toClient, res' = res, answered' = answered,
           \A c \in Connection :
               /\ client'[c] \in {"read", "conn"} => client[c] \in {"read", "conn"}
               /\ client'[c] = "conn" => res[c].status = 101 /\ res[c].accept = Accept(req'[c].key)
    PROVE  ResponsesAreAnswers'
  <1>1. FromServers' = FromServers /\ Answering' = Answering
    BY DEF FromServers, Answering
  <1> QED
    BY <1>1 DEF ResponsesAreAnswers

-----------------------------------------------------------------------------

LEMMA HoldsInitially == Init => HandshakeInv
  <1> SUFFICES ASSUME Init
               PROVE  HandshakeInv
    OBVIOUS
  <1>1. Shape
    BY DEF Init, Shape, End
  <1>2. \A S : <<>> \in Seq(S)
    BY EmptySeq
  <1>3. RequestsAreTheirs
    BY <1>2 DEF Init, RequestsAreTheirs
  <1>4. AnswersAreDecided
    <2>1. \A c \in Connection : <<c, "server">> \in End
      BY DEF End, Side
    <2>2. \A c \in Connection : answered[c] = None /\ server[c] = "waiting"
      BY DEF Init
    <2>3. \A c \in Connection : ~(sent[<<c, "server">>] > 0)
      <3>1. sent = [e \in End |-> 0]
        BY DEF Init
      <3>2. \A e \in End : sent[e] = 0
        BY <3>1
      <3>3. ~(0 > 0)
        OBVIOUS
      <3> QED
        BY <2>1, <3>2, <3>3
    <2> QED
      BY <2>2, <2>3 DEF AnswersAreDecided
  <1>5. ResponsesAreAnswers
    BY <1>2 DEF Init, ResponsesAreAnswers
  <1> QED
    BY <1>1, <1>3, <1>4, <1>5 DEF HandshakeInv

-----------------------------------------------------------------------------
(* The client's steps.                                                       *)

LEMMA ClientGivesUp ==
    ASSUME HandshakeInv, NEW k \in Connection, RefuseNil(k) \/ ReadResponseFails(k)
    PROVE  HandshakeInv'
  <1>1. /\ client' = [client EXCEPT ![k] = "failed"] /\ server' = server
        /\ req' = req /\ arrived' = arrived /\ answered' = answered /\ res' = res
        /\ toServer' = toServer /\ toClient' = toClient /\ sent' = sent
    BY DEF RefuseNil, ReadResponseFails, Client, msgs, wires
  <1>2. Shape' /\ \A c \in Connection : client'[c] = IF c = k THEN "failed" ELSE client[c]
    BY <1>1 DEF HandshakeInv, Shape
  <1>3. RequestsAreTheirs'
    BY <1>1, <1>2, RequestsStay DEF HandshakeInv
  <1>4. AnswersAreDecided'
    BY <1>1, AnswersStay DEF HandshakeInv, AnswersAreDecided
  <1>5. ResponsesAreAnswers'
    BY <1>1, <1>2, ResponsesStay DEF HandshakeInv, ResponsesAreAnswers
  <1> QED
    BY <1>2, <1>3, <1>4, <1>5 DEF HandshakeInv

\* A client starts: what is on its way is its request, or part of it.
LEMMA ClientStarts ==
    ASSUME HandshakeInv, NEW k \in Connection, SendHandShakeRequest(k) \/ SendForeignRequest(k)
    PROVE  HandshakeInv'
  <1>1. /\ client[k] = "idle" /\ server' = server
        /\ arrived' = arrived /\ answered' = answered /\ res' = res /\ toClient' = toClient
        /\ arrived[k] = None
    BY DEF SendHandShakeRequest, SendForeignRequest, HandshakeInv, RequestsAreTheirs
  <1>2. /\ \E r, q : req' = [req EXCEPT ![k] = r] /\ toServer' = [toServer EXCEPT ![k] = q]
        /\ \E at \in {"sent", "failed", "foreign"} : client' = [client EXCEPT ![k] = at]
    BY DEF SendHandShakeRequest, SendForeignRequest, Client
  <1>3. /\ DOMAIN client' = Connection /\ DOMAIN req' = Connection /\ DOMAIN toServer' = Connection
        /\ \A c \in Connection : c # k => /\ client'[c] = client[c] /\ req'[c] = req[c]
                                          /\ toServer'[c] = toServer[c]
        /\ client'[k] \in {"sent", "failed", "foreign"}
    BY <1>2 DEF HandshakeInv, Shape
  <1>4. sent' \in [End -> Nat] /\ \A c \in Connection : sent'[<<c, "server">>] = sent[<<c, "server">>]
    <2>1. CASE SendHandShakeRequest(k)
      BY <2>1 DEF SendHandShakeRequest, HandshakeInv, Shape
    <2>2. CASE SendForeignRequest(k)
      <3>1. PICK n \in 0..1 : sent' = [sent EXCEPT ![<<k, "client">>] = n]
        BY <2>2 DEF SendForeignRequest
      <3>2. sent \in [End -> Nat] /\ n \in Nat
        BY DEF HandshakeInv, Shape
      <3>3. sent' \in [End -> Nat] /\ \A e \in End : e # <<k, "client">> => sent'[e] = sent[e]
        BY <3>1, <3>2
      <3>4. \A c \in Connection : <<c, "server">> \in End /\ <<c, "server">> # <<k, "client">>
        BY DEF End, Side
      <3> QED
        BY <3>3, <3>4
    <2> QED
      BY <2>1, <2>2
  <1>5. Shape'
    BY <1>1, <1>3, <1>4 DEF HandshakeInv, Shape
  <1>6. /\ req'[k] # None /\ RequestOf(req'[k], k)
        /\ client'[k] = "sent" => req'[k].key \in {k, "zero"}
    <2>1. CASE SendHandShakeRequest(k)
      <3>1. PICK key \in Key(k) : req' = [req EXCEPT ![k] = UpgradeRequest(key)]
        BY <2>1 DEF SendHandShakeRequest
      <3>2. req'[k] = UpgradeRequest(key)
        BY <3>1 DEF HandshakeInv, Shape
      <3>3. key \in {k, "zero"}
        BY DEF Key
      <3>4. /\ UpgradeRequest(key).key = key /\ UpgradeRequest(key).kind = "request"
            /\ DOMAIN UpgradeRequest(key) = RequestFields
            /\ UpgradeRequest(key) # None
        BY DEF UpgradeRequest, Request, RequestFields, None
      <3> QED
        BY <3>2, <3>3, <3>4, KeyAssumption DEF RequestOf
    <2>2. CASE SendForeignRequest(k)
      <3>1. PICK r \in Foreign[k] : req' = [req EXCEPT ![k] = r]
        BY <2>2 DEF SendForeignRequest
      <3>2. req'[k] = r
        BY <3>1 DEF HandshakeInv, Shape
      <3>3. /\ DOMAIN r = RequestFields /\ r.kind = "request" /\ r.key \notin Connection
        BY KeyAssumption DEF RequestFields
      <3>4. r # None
        BY <3>3 DEF None
      <3>5. client'[k] = "foreign"
        BY <2>2 DEF SendForeignRequest, Client, HandshakeInv, Shape
      <3> QED
        BY <3>2, <3>3, <3>4, <3>5 DEF RequestOf
    <2> QED
      BY <2>1, <2>2
  <1>7. toServer'[k] \in Seq(FromClient(k)')
    <2> DEFINE S == FromClient(k)'
    <2>1. /\ \A via \in Vias : Rewritten(req'[k], via) \in S
          /\ Cut \in S /\ \A n \in Nat : FrameNo(n) \in S
      BY <1>6 DEF FromClient, Frames
    <2>2. \A via \in Via[k] : via \in Vias
      BY HandshakeAssumption DEF Vias
    <2> HIDE DEF S
    <2>3. CASE SendHandShakeRequest(k)
      <3>1. \/ \E via \in Via[k] : toServer'[k] = <<Rewritten(req'[k], via)>>
            \/ toServer'[k] = <<Cut>>
        BY <2>3 DEF SendHandShakeRequest, HandshakeInv, Shape
      <3>2. \A x \in S : <<x>> \in Seq(S)
        OBVIOUS
      <3> QED
        BY <2>1, <2>2, <3>1, <3>2 DEF S
    <2>4. CASE SendForeignRequest(k)
      <3>1. PICK r \in Foreign[k], via \in Via[k], n \in 0..1 :
                /\ n <= MaxFrames[k]
                /\ req' = [req EXCEPT ![k] = r]
                /\ toServer' = [toServer EXCEPT ![k] = <<Rewritten(r, via)>> \o FirstFrames(n)]
                /\ sent' = [sent EXCEPT ![<<k, "client">>] = n]
                /\ fault' = [fault EXCEPT ![k] = ~Faithful(via)]
        BY <2>4, Zenon DEF SendForeignRequest
      <3>2. toServer'[k] = <<Rewritten(req'[k], via)>> \o FirstFrames(n)
        BY <3>1 DEF HandshakeInv, Shape
      <3>3. <<Rewritten(req'[k], via)>> \in Seq(S)
        <4>1. Rewritten(req'[k], via) \in S
          BY <2>1, <2>2
        <4> QED
          BY <4>1
      <3>4. FirstFrames(n) \in Seq(S)
        <4>1. [i \in 1..n |-> FrameNo(i)] \in [1..n -> S]
          BY <2>1
        <4>2. n \in Nat
          OBVIOUS
        <4> QED
          BY <4>1, <4>2, SeqDef DEF FirstFrames
      <3>5. toServer'[k] \in Seq(S)
        BY <3>2, <3>3, <3>4, ConcatProperties
      <3> QED
        BY <3>5 DEF S
    <2> QED
      BY <2>3, <2>4
  <1>8. RequestsAreTheirs'
    <2>1. \A c \in Connection : c # k => FromClient(c)' = FromClient(c)
      BY <1>3 DEF FromClient
    <2>2. ASSUME NEW c \in Connection
          PROVE  /\ client'[c] = "idle" => toServer'[c] = <<>> /\ arrived'[c] = None
                 /\ client'[c] \in {"sent", "read", "conn"} => req'[c].key \in {c, "zero"}
                 /\ req'[c] # None => RequestOf(req'[c], c)
                 /\ toServer'[c] \in Seq(FromClient(c)')
                 /\ arrived'[c] # None => req'[c] # None /\ \E via \in Vias : arrived'[c] = Rewritten(req'[c], via)
                 /\ server'[c] = "handling" => arrived'[c] # None
      <3>1. CASE c = k
        <4>1. server[k] # "handling"
          BY <1>1 DEF HandshakeInv, RequestsAreTheirs
        <4> QED
          BY <1>1, <1>3, <1>6, <1>7, <3>1, <4>1
      <3>2. CASE c # k
        BY <1>1, <1>3, <2>1, <3>2 DEF HandshakeInv, RequestsAreTheirs
      <3> QED
        BY <3>1, <3>2
    <2> QED
      BY <2>2 DEF RequestsAreTheirs, RequestOf
  <1>9. AnswersAreDecided'
    BY <1>1, <1>4, AnswersStay DEF HandshakeInv, AnswersAreDecided
  <1>10. ResponsesAreAnswers'
    BY <1>1, <1>3, ResponsesStay DEF HandshakeInv, ResponsesAreAnswers
  <1> QED
    BY <1>5, <1>8, <1>9, <1>10 DEF HandshakeInv

\* The queues to the client when no answer is added, taken away or changed.
LEMMA StillFromServers ==
    ASSUME NEW S, S = FromServers, answered' = answered
    PROVE  FromServers' = S /\ Answering' = Answering
  BY DEF FromServers, Answering

LEMMA ClientReads ==
    ASSUME HandshakeInv, NEW k \in Connection, ReadHandShakeResponse(k)
    PROVE  HandshakeInv'
  <1>1. /\ client[k] = "sent" /\ toClient[k] # <<>> /\ toClient[k][1].kind = "response"
        /\ client' = [client EXCEPT ![k] = "read"] /\ res' = [res EXCEPT ![k] = toClient[k][1]]
        /\ server' = server /\ req' = req /\ arrived' = arrived /\ answered' = answered
        /\ toServer' = toServer /\ sent' = sent
    BY DEF ReadHandShakeResponse, Client
  <1>2. PICK n \in 1..Len(toClient[k]) :
            toClient' = [toClient EXCEPT ![k] = SubSeq(toClient[k], n + 1, Len(toClient[k]))]
    BY DEF ReadHandShakeResponse
  <1>3. /\ Shape'
        /\ \A c \in Connection : /\ client'[c] = IF c = k THEN "read" ELSE client[c]
                                 /\ res'[c] = IF c = k THEN toClient[k][1] ELSE res[c]
                                 /\ toClient'[c] = IF c = k THEN SubSeq(toClient[k], n + 1, Len(toClient[k]))
                                                   ELSE toClient[c]
    BY <1>1, <1>2 DEF HandshakeInv, Shape
  <1>4. RequestsAreTheirs'
    BY <1>1, <1>3, RequestsStay DEF HandshakeInv
  <1>5. AnswersAreDecided'
    BY <1>1, AnswersStay DEF HandshakeInv, AnswersAreDecided
  <1>6. ResponsesAreAnswers'
    <2>1. FromServers' = FromServers /\ Answering' = Answering
      BY <1>1, StillFromServers
    <2>2. \E d \in Answering, via \in Vias : toClient[k][1] = Rewritten(answered[d], via)
      BY <1>1, WireToClient DEF HandshakeInv
    <2>3. SubSeq(toClient[k], n + 1, Len(toClient[k])) \in Seq(FromServers)
      <3>1. toClient[k] \in Seq(FromServers)
        BY DEF HandshakeInv, ResponsesAreAnswers
      <3> QED
        BY <3>1, ReadOn
    <2>4. ASSUME NEW c \in Connection
          PROVE  /\ toClient'[c] \in Seq(FromServers)
                 /\ client'[c] \in {"read", "conn"} =>
                        \E d \in Answering, via \in Vias : res'[c] = Rewritten(answered[d], via)
                 /\ client'[c] = "conn" => res'[c].status = 101 /\ res'[c].accept = Accept(req'[c].key)
      <3>1. CASE c = k
        BY <1>3, <2>2, <2>3, <3>1
      <3>2. CASE c # k
        BY <1>1, <1>3, <3>2 DEF HandshakeInv, ResponsesAreAnswers
      <3> QED
        BY <3>1, <3>2
    <2> QED
      BY <1>1, <2>1, <2>4 DEF ResponsesAreAnswers
  <1> QED
    BY <1>3, <1>4, <1>5, <1>6 DEF HandshakeInv

\* The Conn is made from the very response that was judged.
LEMMA ClientJudges ==
    ASSUME HandshakeInv, NEW k \in Connection, ClientHandShake(k)
    PROVE  HandshakeInv'
  <1>1. /\ client[k] = "read" /\ server' = server
        /\ req' = req /\ arrived' = arrived /\ answered' = answered /\ res' = res
        /\ toServer' = toServer /\ toClient' = toClient /\ sent' = sent
    BY DEF ClientHandShake, NewConn, Client, msgs, wires
  <1>2. PICK at \in {"conn", "failed"} :
            /\ client' = [client EXCEPT ![k] = at]
            /\ at = "conn" => ValidateHandShakeResponse(res[k], req[k].key) = "none"
    BY DEF ClientHandShake, NewConn, Client
  <1>3. Shape' /\ \A c \in Connection : client'[c] = IF c = k THEN at ELSE client[c]
    BY <1>1, <1>2 DEF HandshakeInv, Shape
  <1>4. ValidateHandShakeResponse(res[k], req[k].key) = "none" =>
            res[k].status = 101 /\ res[k].accept = Accept(req[k].key)
    BY DEF ValidateHandShakeResponse
  <1>5. RequestsAreTheirs'
    BY <1>1, <1>3, RequestsStay DEF HandshakeInv
  <1>6. AnswersAreDecided'
    BY <1>1, AnswersStay DEF HandshakeInv, AnswersAreDecided
  <1>7. ResponsesAreAnswers'
    BY <1>1, <1>2, <1>3, <1>4, ResponsesStay DEF HandshakeInv, ResponsesAreAnswers
  <1> QED
    BY <1>3, <1>5, <1>6, <1>7 DEF HandshakeInv

-----------------------------------------------------------------------------
(* The server's steps.                                                       *)

LEMMA ServerReads ==
    ASSUME HandshakeInv, NEW k \in Connection, ReadRequest(k)
    PROVE  HandshakeInv'
  <1>1. /\ server[k] = "waiting" /\ toServer[k] # <<>> /\ toServer[k][1].kind = "request"
        /\ server' = [server EXCEPT ![k] = "handling"]
        /\ arrived' = [arrived EXCEPT ![k] = toServer[k][1]]
        /\ client' = client /\ req' = req /\ answered' = answered /\ res' = res
        /\ toClient' = toClient /\ sent' = sent
    BY DEF ReadRequest, Server
  <1>2. PICK n \in 1..Len(toServer[k]) :
            toServer' = [toServer EXCEPT ![k] = SubSeq(toServer[k], n + 1, Len(toServer[k]))]
    BY DEF ReadRequest
  <1>3. /\ Shape'
        /\ \A c \in Connection : /\ server'[c] = IF c = k THEN "handling" ELSE server[c]
                                 /\ arrived'[c] = IF c = k THEN toServer[k][1] ELSE arrived[c]
                                 /\ toServer'[c] = IF c = k THEN SubSeq(toServer[k], n + 1, Len(toServer[k]))
                                                   ELSE toServer[c]
    BY <1>1, <1>2 DEF HandshakeInv, Shape
  <1>4. RequestsAreTheirs'
    <2>1. /\ req[k] # None /\ client[k] # "idle"
          /\ \E via \in Vias : toServer[k][1] = Rewritten(req[k], via)
      BY <1>1, WireToServer DEF HandshakeInv
    <2>2. SubSeq(toServer[k], n + 1, Len(toServer[k])) \in Seq(FromClient(k))
      <3>1. toServer[k] \in Seq(FromClient(k))
        BY DEF HandshakeInv, RequestsAreTheirs
      <3> QED
        BY <3>1, ReadOn
    <2>3. toServer[k][1] # None
      BY <1>1 DEF None
    <2>4. \A c \in Connection : FromClient(c)' = FromClient(c)
      BY <1>1 DEF FromClient
    <2>5. ASSUME NEW c \in Connection
          PROVE  /\ client[c] = "idle" => toServer'[c] = <<>> /\ arrived'[c] = None
                 /\ client[c] \in {"sent", "read", "conn"} => req[c].key \in {c, "zero"}
                 /\ req[c] # None => RequestOf(req[c], c)
                 /\ toServer'[c] \in Seq(FromClient(c))
                 /\ arrived'[c] # None => req[c] # None /\ \E via \in Vias : arrived'[c] = Rewritten(req[c], via)
                 /\ server'[c] = "handling" => arrived'[c] # None
      <3>1. CASE c = k
        BY <1>3, <2>1, <2>2, <2>3, <3>1 DEF HandshakeInv, RequestsAreTheirs
      <3>2. CASE c # k
        BY <1>3, <3>2 DEF HandshakeInv, RequestsAreTheirs
      <3> QED
        BY <3>1, <3>2
    <2> QED
      BY <1>1, <2>4, <2>5 DEF RequestsAreTheirs
  <1>5. AnswersAreDecided'
    <2>1. \A c \in Connection : sent[<<c, "server">>] > 0 => server[c] = "conn"
      BY DEF HandshakeInv, AnswersAreDecided
    <2>2. \A c \in Connection : /\ server[c] \notin {"waiting", "handling"} => server'[c] \notin {"waiting", "handling"}
                                /\ server'[c] \in {"upgraded", "conn"} => server[c] \in {"upgraded", "conn"}
                                /\ server[c] = "conn" => server'[c] = "conn"
                                /\ server[c] # "waiting" => arrived'[c] = arrived[c]
      BY <1>1, <1>3
    <2> QED
      BY <1>1, <2>1, <2>2, AnswersStay DEF HandshakeInv
  <1>6. ResponsesAreAnswers'
    BY <1>1, ResponsesStay DEF HandshakeInv, ResponsesAreAnswers
  <1> QED
    BY <1>3, <1>4, <1>5, <1>6 DEF HandshakeInv

LEMMA ServerGivesUp ==
    ASSUME HandshakeInv, NEW k \in Connection, ReadRequestFails(k)
    PROVE  HandshakeInv'
  <1>1. /\ server[k] = "waiting" /\ server' = [server EXCEPT ![k] = "failed"] /\ client' = client
        /\ req' = req /\ arrived' = arrived /\ answered' = answered /\ res' = res
        /\ toServer' = toServer /\ toClient' = toClient /\ sent' = sent
    BY DEF ReadRequestFails, Server, msgs, wires
  <1>2. Shape' /\ \A c \in Connection : server'[c] = IF c = k THEN "failed" ELSE server[c]
    BY <1>1 DEF HandshakeInv, Shape
  <1>3. RequestsAreTheirs'
    BY <1>1, <1>2, RequestsStay DEF HandshakeInv
  <1>4. AnswersAreDecided'
    <2>1. \A c \in Connection : sent[<<c, "server">>] > 0 => server[c] = "conn"
      BY DEF HandshakeInv, AnswersAreDecided
    <2>2. \A c \in Connection : /\ server[c] \notin {"waiting", "handling"} => server'[c] \notin {"waiting", "handling"}
                                /\ server'[c] \in {"upgraded", "conn"} => server[c] \in {"upgraded", "conn"}
                                /\ server[c] = "conn" => server'[c] = "conn"
      BY <1>1, <1>2
    <2> QED
      BY <1>1, <2>1, <2>2, AnswersStay DEF HandshakeInv
  <1>5. ResponsesAreAnswers'
    BY <1>1, ResponsesStay DEF HandshakeInv, ResponsesAreAnswers
  <1> QED
    BY <1>2, <1>3, <1>4, <1>5 DEF HandshakeInv

LEMMA ServerMakesConn ==
    ASSUME HandshakeInv, NEW k \in Connection, ServerNewConn(k)
    PROVE  HandshakeInv'
  <1>1. /\ server[k] = "upgraded" /\ client' = client
        /\ req' = req /\ arrived' = arrived /\ answered' = answered /\ res' = res
        /\ toServer' = toServer /\ toClient' = toClient /\ sent' = sent
    BY DEF ServerNewConn, NewConn, msgs, wires
  <1>2. PICK at \in {"conn", "failed"} : server' = [server EXCEPT ![k] = at]
    BY DEF ServerNewConn, NewConn, Server
  <1>3. Shape' /\ \A c \in Connection : server'[c] = IF c = k THEN at ELSE server[c]
    BY <1>1, <1>2 DEF HandshakeInv, Shape
  <1>4. RequestsAreTheirs'
    BY <1>1, <1>3, RequestsStay DEF HandshakeInv
  <1>5. AnswersAreDecided'
    <2>1. \A c \in Connection : sent[<<c, "server">>] > 0 => server[c] = "conn"
      BY DEF HandshakeInv, AnswersAreDecided
    <2>2. \A c \in Connection : /\ server[c] \notin {"waiting", "handling"} => server'[c] \notin {"waiting", "handling"}
                                /\ server'[c] \in {"upgraded", "conn"} => server[c] \in {"upgraded", "conn"}
                                /\ server[c] = "conn" => k # c
      BY <1>1, <1>3
    <2>3. \A c \in Connection : server[c] = "conn" => server'[c] = "conn"
      BY <1>3, <2>2
    <2> QED
      BY <1>1, <2>1, <2>2, <2>3, AnswersStay DEF HandshakeInv
  <1>6. ResponsesAreAnswers'
    BY <1>1, ResponsesStay DEF HandshakeInv, ResponsesAreAnswers
  <1> QED
    BY <1>3, <1>4, <1>5, <1>6 DEF HandshakeInv

\* The answer is decided on the request that arrived, whether it gets out or not.
LEMMA ServerAnswers ==
    ASSUME HandshakeInv, NEW k \in Connection, ServerHandShake(k)
    PROVE  HandshakeInv'
  <1> DEFINE invalid  == ValidateHandShakeRequest(arrived[k])
             response == IF invalid = "none" THEN UpgradeForWebsocket(arrived[k].key) ELSE DeclineByError(invalid)
  <1>1. /\ server[k] = "handling" /\ client' = client
        /\ req' = req /\ arrived' = arrived /\ res' = res /\ toServer' = toServer /\ sent' = sent
    BY DEF ServerHandShake
  <1>2. arrived[k] # None /\ answered[k] = None
    BY <1>1 DEF HandshakeInv, RequestsAreTheirs, AnswersAreDecided
  <1>3. invalid = "none" => arrived[k].key # "none"
    BY DEF ValidateHandShakeRequest
  <1>4. invalid \in Errors
    BY DEF ValidateHandShakeRequest, Errors
  <1>5. response # None /\ (response.status = 101 => response = UpgradeForWebsocket(arrived[k].key))
    BY UpgradeIs, DeclineIs
  <1>6. \/ \E via \in Via[k] :
                /\ toClient' = [toClient EXCEPT ![k] = Append(toClient[k], Rewritten(response, via))]
                /\ answered' = [answered EXCEPT ![k] = response]
                /\ server' = [server EXCEPT ![k] = AfterResponse(invalid)]
        \/ /\ toClient' = [toClient EXCEPT ![k] = Append(toClient[k], Cut)]
           /\ answered' = answered
           /\ server' = [server EXCEPT ![k] = "failed"]
    BY DEF ServerHandShake, Server
  <1>7. Via[k] \subseteq Vias
    BY HandshakeAssumption DEF Vias
  <1> HIDE DEF invalid, response
  <1>8. PICK item, answer, at :
            /\ toClient' = [toClient EXCEPT ![k] = Append(toClient[k], item)]
            /\ DOMAIN answered' = Connection
            /\ \A c \in Connection : answered'[c] = IF c = k THEN answer ELSE answered[c]
            /\ server' = [server EXCEPT ![k] = at]
            /\ \/ /\ answer = response /\ at = AfterResponse(invalid)
                  /\ \E via \in Vias : item = Rewritten(response, via)
               \/ answer = None /\ at = "failed" /\ item = Cut
    <2>1. CASE \E via \in Via[k] :
                /\ toClient' = [toClient EXCEPT ![k] = Append(toClient[k], Rewritten(response, via))]
                /\ answered' = [answered EXCEPT ![k] = response]
                /\ server' = [server EXCEPT ![k] = AfterResponse(invalid)]
      BY <1>7, <2>1 DEF HandshakeInv, Shape
    <2>2. CASE /\ toClient' = [toClient EXCEPT ![k] = Append(toClient[k], Cut)]
               /\ answered' = answered
               /\ server' = [server EXCEPT ![k] = "failed"]
      BY <1>2, <2>2 DEF HandshakeInv, Shape
    <2> QED
      BY <1>6, <2>1, <2>2
  <1>9. /\ Shape'
        /\ \A c \in Connection : /\ server'[c] = IF c = k THEN at ELSE server[c]
                                 /\ answered'[c] = IF c = k THEN answer ELSE answered[c]
                                 /\ toClient'[c] = IF c = k THEN Append(toClient[k], item) ELSE toClient[c]
    BY <1>1, <1>8 DEF HandshakeInv, Shape
  <1>10. at \in {"upgraded", "failed"} /\ (at = "upgraded" => invalid = "none" /\ answer = response)
    BY <1>8 DEF AfterResponse
  <1>11. RequestsAreTheirs'
    BY <1>1, <1>9, <1>10, RequestsStay DEF HandshakeInv
  <1>12. AnswersAreDecided'
    <2>1. ASSUME NEW c \in Connection
          PROVE  /\ answered'[c] # None =>
                      /\ server'[c] \notin {"waiting", "handling"} /\ arrived[c] # None
                      /\ \/ answered'[c] = UpgradeForWebsocket(arrived[c].key) /\ arrived[c].key # "none"
                         \/ \E e \in Errors : answered'[c] = DeclineByError(e)
                 /\ server'[c] \in {"upgraded", "conn"} => answered'[c] # None /\ answered'[c].status = 101
                 /\ sent[<<c, "server">>] > 0 => server'[c] = "conn"
      <3>1. sent[<<c, "server">>] > 0 => server[c] = "conn"
        BY DEF HandshakeInv, AnswersAreDecided
      <3>2. CASE c = k
        <4>1. ~(sent[<<c, "server">>] > 0)
          BY <1>1, <3>1, <3>2
        <4>2. answer # None => answer = response
          BY <1>8
        <4>3. /\ invalid = "none" => response = UpgradeForWebsocket(arrived[k].key) /\ response.status = 101
              /\ invalid # "none" => response = DeclineByError(invalid)
          BY UpgradeIs DEF response
        <4>4. response # None
          BY <1>5
        <4> QED
          BY <1>2, <1>3, <1>4, <1>9, <1>10, <3>2, <4>1, <4>2, <4>3, <4>4
      <3>3. CASE c # k
        BY <1>9, <3>3 DEF HandshakeInv, AnswersAreDecided
      <3> QED
        BY <3>2, <3>3
    <2> QED
      BY <1>1, <2>1 DEF AnswersAreDecided
  <1>13. ResponsesAreAnswers'
    <2>1. \A d \in Answering : d \in Answering' /\ answered'[d] = answered[d]
      BY <1>2, <1>9 DEF Answering
    <2>2. FromServers \subseteq FromServers'
      BY <2>1 DEF FromServers
    <2>3. item \in FromServers'
      <3>1. CASE answer = response /\ \E via \in Vias : item = Rewritten(response, via)
        <4>1. k \in Answering' /\ answered'[k] = response
          BY <1>5, <1>9, <3>1 DEF Answering
        <4> QED
          BY <3>1, <4>1 DEF FromServers
      <3>2. CASE item = Cut
        BY <3>2 DEF FromServers
      <3> QED
        BY <1>8, <3>1, <3>2
    <2>4. ASSUME NEW c \in Connection
          PROVE  toClient'[c] \in Seq(FromServers')
      <3>1. toClient[c] \in Seq(FromServers)
        BY DEF HandshakeInv, ResponsesAreAnswers
      <3> DEFINE S == FromServers
                 T == FromServers'
      <3>2. toClient[c] \in Seq(S) /\ S \subseteq T /\ item \in T
        BY <2>2, <2>3, <3>1
      <3> HIDE DEF S, T
      <3>3. toClient[c] \in Seq(T)
        BY <3>2, SeqMonotonic
      <3>4. Append(toClient[c], item) \in Seq(T)
        BY <3>2, <3>3, OneMore
      <3> QED
        BY <1>9, <3>3, <3>4 DEF T
    <2>5. ASSUME NEW c \in Connection, client[c] \in {"read", "conn"}
          PROVE  \E d \in Answering', via \in Vias : res[c] = Rewritten(answered'[d], via)
      <3>1. PICK d \in Answering, via \in Vias : res[c] = Rewritten(answered[d], via)
        BY <2>5 DEF HandshakeInv, ResponsesAreAnswers
      <3> QED
        BY <2>1, <3>1
    <2>6. \A c \in Connection : client[c] = "conn" => res[c].status = 101 /\ res[c].accept = Accept(req[c].key)
      BY DEF HandshakeInv, ResponsesAreAnswers
    <2> QED
      BY <1>1, <2>4, <2>5, <2>6 DEF ResponsesAreAnswers
  <1> QED
    BY <1>9, <1>11, <1>12, <1>13 DEF HandshakeInv

-----------------------------------------------------------------------------
(* Around the handshake.                                                     *)

\* A queue to the client changes and nothing else the invariant looks at does.
LEMMA QueueToClient ==
    ASSUME HandshakeInv, NEW k \in Connection, NEW q \in Seq(FromServers),
           toClient' = [toClient EXCEPT ![k] = q], client' = client, res' = res, req' = req,
           answered' = answered
    PROVE  ResponsesAreAnswers' /\ DOMAIN toClient' = Connection
  <1>1. FromServers' = FromServers /\ Answering' = Answering
    BY StillFromServers
  <1>2. DOMAIN toClient' = Connection /\ \A c \in Connection : toClient'[c] = IF c = k THEN q ELSE toClient[c]
    BY DEF HandshakeInv, Shape
  <1>3. \A c \in Connection : toClient'[c] \in Seq(FromServers)
    BY <1>2 DEF HandshakeInv, ResponsesAreAnswers
  <1> QED
    BY <1>1, <1>2, <1>3 DEF HandshakeInv, ResponsesAreAnswers

LEMMA QueueToServer ==
    ASSUME HandshakeInv, NEW k \in Connection, NEW q \in Seq(FromClient(k)), client[k] # "idle",
           toServer' = [toServer EXCEPT ![k] = q], client' = client, server' = server,
           req' = req, arrived' = arrived
    PROVE  RequestsAreTheirs' /\ DOMAIN toServer' = Connection
  <1>1. \A c \in Connection : FromClient(c)' = FromClient(c)
    BY DEF FromClient
  <1>2. DOMAIN toServer' = Connection /\ \A c \in Connection : toServer'[c] = IF c = k THEN q ELSE toServer[c]
    BY DEF HandshakeInv, Shape
  <1>3. \A c \in Connection : /\ toServer'[c] \in Seq(FromClient(c))
                              /\ client[c] = "idle" => toServer'[c] = <<>>
    BY <1>2 DEF HandshakeInv, RequestsAreTheirs
  <1> QED
    BY <1>1, <1>2, <1>3 DEF HandshakeInv, RequestsAreTheirs

\* An answer from a cache is some server's answer.
LEMMA CacheAnswersOnly ==
    ASSUME HandshakeInv, NEW k \in Connection, CacheAnswers(k)
    PROVE  HandshakeInv'
  <1>1. /\ client[k] = "sent" /\ client' = client /\ server' = server
        /\ req' = req /\ arrived' = arrived /\ answered' = answered /\ res' = res /\ sent' = sent
        /\ toServer' = [toServer EXCEPT ![k] = <<>>]
    BY DEF CacheAnswers, sides, msgs
  <1>2. PICK d \in Connection : answered[d] # None /\ toClient' = [toClient EXCEPT ![k] = <<answered[d]>>]
    BY DEF CacheAnswers
  <1>3. <<answered[d]>> \in Seq(FromServers)
    <2>1. answered[d] = Rewritten(answered[d], "nothing") /\ "nothing" \in Vias
      BY DEF Rewritten, Vias
    <2>2. d \in Answering
      BY <1>2 DEF Answering
    <2>3. answered[d] \in FromServers
      BY <2>1, <2>2 DEF FromServers
    <2> QED
      BY <2>3
  <1>4. ResponsesAreAnswers' /\ DOMAIN toClient' = Connection
    BY <1>1, <1>2, <1>3, QueueToClient
  <1>5. <<>> \in Seq(FromClient(k))
    BY EmptySeq
  <1>6. RequestsAreTheirs' /\ DOMAIN toServer' = Connection
    BY <1>1, <1>5, QueueToServer
  <1>7. AnswersAreDecided'
    BY <1>1, AnswersStay DEF HandshakeInv, AnswersAreDecided
  <1>8. Shape'
    BY <1>1, <1>4, <1>6 DEF HandshakeInv, Shape
  <1> QED
    BY <1>4, <1>6, <1>7, <1>8 DEF HandshakeInv

LEMMA FramesAreSent ==
    ASSUME HandshakeInv, NEW k \in Connection, NEW s \in Side, SendFrame(k, s)
    PROVE  HandshakeInv'
  <1>1. /\ client' = client /\ server' = server
        /\ req' = req /\ arrived' = arrived /\ answered' = answered /\ res' = res
        /\ sent' = [sent EXCEPT ![<<k, s>>] = @ + 1]
        /\ HasConn(k, s)
    BY DEF SendFrame, sides, msgs
  <1> DEFINE n == sent'[<<k, s>>]
  <1>2. /\ sent' \in [End -> Nat] /\ n \in Nat
        /\ \A e \in End : e # <<k, s>> => sent'[e] = sent[e]
    <2>1. sent \in [End -> Nat] /\ <<k, s>> \in End
      BY DEF HandshakeInv, Shape, End
    <2>2. sent[<<k, s>>] + 1 \in Nat
      BY <2>1
    <2> QED
      BY <1>1, <2>1, <2>2
  <1>3. AnswersAreDecided'
    <2>1. \A c \in Connection : sent'[<<c, "server">>] > 0 => server'[c] = "conn"
      <3>1. ASSUME NEW c \in Connection, sent'[<<c, "server">>] > 0
            PROVE  server[c] = "conn"
        <4>1. CASE <<c, "server">> = <<k, s>>
          <5>1. c = k /\ s = "server"
            BY <4>1
          <5> QED
            BY <1>1, <5>1 DEF HasConn
        <4>2. CASE <<c, "server">> # <<k, s>>
          <5>1. <<c, "server">> \in End
            BY DEF End, Side
          <5>2. sent[<<c, "server">>] > 0
            BY <1>2, <3>1, <4>2, <5>1
          <5> QED
            BY <5>2 DEF HandshakeInv, AnswersAreDecided
        <4> QED
          BY <4>1, <4>2
      <3> QED
        BY <1>1, <3>1
    <2> QED
      BY <1>1, <2>1, AnswersStay DEF HandshakeInv
  <1>4. FrameNo(n) \in Frames
    BY <1>2 DEF Frames
  <1>5. CASE s = "client"
    <2>1. /\ toServer' = [toServer EXCEPT ![k] = Append(toServer[k], FrameNo(n))] /\ toClient' = toClient
          /\ client[k] # "idle"
      BY <1>1, <1>5 DEF SendFrame, HasConn
    <2>2. Append(toServer[k], FrameNo(n)) \in Seq(FromClient(k))
      <3>1. toServer[k] \in Seq(FromClient(k)) /\ FrameNo(n) \in FromClient(k)
        BY <1>4 DEF HandshakeInv, RequestsAreTheirs, FromClient
      <3> QED
        BY <3>1, OneMore
    <2>3. RequestsAreTheirs' /\ DOMAIN toServer' = Connection
      BY <1>1, <2>1, <2>2, QueueToServer
    <2>4. ResponsesAreAnswers'
      BY <1>1, <2>1, ResponsesStay DEF HandshakeInv, ResponsesAreAnswers
    <2>5. Shape'
      BY <1>1, <1>2, <2>1, <2>3 DEF HandshakeInv, Shape
    <2> QED
      BY <1>3, <2>3, <2>4, <2>5 DEF HandshakeInv
  <1>6. CASE s = "server"
    <2>1. toClient' = [toClient EXCEPT ![k] = Append(toClient[k], FrameNo(n))] /\ toServer' = toServer
      BY <1>6 DEF SendFrame
    <2>2. Append(toClient[k], FrameNo(n)) \in Seq(FromServers)
      <3>1. toClient[k] \in Seq(FromServers) /\ FrameNo(n) \in FromServers
        BY <1>4 DEF HandshakeInv, ResponsesAreAnswers, FromServers
      <3> QED
        BY <3>1, OneMore
    <2>3. ResponsesAreAnswers' /\ DOMAIN toClient' = Connection
      BY <1>1, <2>1, <2>2, QueueToClient
    <2>4. RequestsAreTheirs'
      BY <1>1, <2>1, RequestsStay DEF HandshakeInv
    <2>5. Shape'
      BY <1>1, <1>2, <2>1, <2>3 DEF HandshakeInv, Shape
    <2> QED
      BY <1>3, <2>3, <2>4, <2>5 DEF HandshakeInv
  <1> QED
    BY <1>5, <1>6 DEF Side

LEMMA FramesAreRead ==
    ASSUME HandshakeInv, NEW k \in Connection, NEW s \in Side, GetNextFrame(k, s)
    PROVE  HandshakeInv'
  <1>1. /\ client' = client /\ server' = server
        /\ req' = req /\ arrived' = arrived /\ answered' = answered /\ res' = res /\ sent' = sent
        /\ HasConn(k, s)
    BY DEF GetNextFrame, sides, msgs
  <1>2. AnswersAreDecided'
    BY <1>1, AnswersStay DEF HandshakeInv, AnswersAreDecided
  <1>3. CASE toServer' = toServer /\ toClient' = toClient
    <2>1. RequestsAreTheirs' /\ ResponsesAreAnswers'
      BY <1>1, <1>3, RequestsStay, ResponsesStay DEF HandshakeInv, ResponsesAreAnswers
    <2>2. Shape'
      BY <1>1, <1>3 DEF HandshakeInv, Shape
    <2> QED
      BY <1>2, <2>1, <2>2 DEF HandshakeInv
  <1>4. \A S : \A q \in Seq(S) : <<>> \o q # <<>> => Tail(<<>> \o q) \in Seq(S)
    BY ConcatEmptySeq, HeadTailProperties
  <1>5. CASE /\ s = "client" /\ buf[<<k, s>>] = <<>> /\ toServer' = toServer
             /\ toClient' = [toClient EXCEPT ![k] = Tail(<<>> \o toClient[k])]
             /\ <<>> \o toClient[k] # <<>>
    <2>1. Tail(<<>> \o toClient[k]) \in Seq(FromServers)
      BY <1>4, <1>5 DEF HandshakeInv, ResponsesAreAnswers
    <2>2. ResponsesAreAnswers' /\ DOMAIN toClient' = Connection
      BY <1>1, <1>5, <2>1, QueueToClient
    <2>3. RequestsAreTheirs'
      BY <1>1, <1>5, RequestsStay DEF HandshakeInv
    <2>4. Shape'
      BY <1>1, <1>5, <2>2 DEF HandshakeInv, Shape
    <2> QED
      BY <1>2, <2>2, <2>3, <2>4 DEF HandshakeInv
  <1>6. CASE /\ s = "server" /\ buf[<<k, s>>] = <<>> /\ toClient' = toClient
             /\ toServer' = [toServer EXCEPT ![k] = Tail(<<>> \o toServer[k])]
             /\ <<>> \o toServer[k] # <<>>
    <2>1. Tail(<<>> \o toServer[k]) \in Seq(FromClient(k))
      BY <1>4, <1>6 DEF HandshakeInv, RequestsAreTheirs
    <2>2. client[k] # "idle"
      <3>1. server[k] = "conn"
        BY <1>1, <1>6 DEF HasConn
      <3>2. arrived[k] # None
        BY <3>1 DEF HandshakeInv, AnswersAreDecided
      <3> QED
        BY <3>2 DEF HandshakeInv, RequestsAreTheirs
    <2>3. RequestsAreTheirs' /\ DOMAIN toServer' = Connection
      BY <1>1, <1>6, <2>1, <2>2, QueueToServer
    <2>4. ResponsesAreAnswers'
      BY <1>1, <1>6, ResponsesStay DEF HandshakeInv, ResponsesAreAnswers
    <2>5. Shape'
      BY <1>1, <1>6, <2>3 DEF HandshakeInv, Shape
    <2> QED
      BY <1>2, <2>3, <2>4, <2>5 DEF HandshakeInv
  <1>7. \/ toServer' = toServer /\ toClient' = toClient
        \/ /\ s = "client" /\ buf[<<k, s>>] = <<>> /\ toServer' = toServer
           /\ toClient' = [toClient EXCEPT ![k] = Tail(<<>> \o toClient[k])]
           /\ <<>> \o toClient[k] # <<>>
        \/ /\ s = "server" /\ buf[<<k, s>>] = <<>> /\ toClient' = toClient
           /\ toServer' = [toServer EXCEPT ![k] = Tail(<<>> \o toServer[k])]
           /\ <<>> \o toServer[k] # <<>>
    BY DEF GetNextFrame, Wire, wires, Side
  <1> QED
    BY <1>3, <1>5, <1>6, <1>7

LEMMA HandshakeInvKept ==
    ASSUME HandshakeInv, [Next]_vars
    PROVE  HandshakeInv'
  <1>1. ASSUME /\ client' = client /\ server' = server
               /\ req' = req /\ arrived' = arrived /\ answered' = answered /\ res' = res
               /\ toServer' = toServer /\ toClient' = toClient /\ sent' = sent
        PROVE  HandshakeInv'
    <2>1. RequestsAreTheirs' /\ ResponsesAreAnswers'
      BY <1>1, RequestsStay, ResponsesStay DEF HandshakeInv, ResponsesAreAnswers
    <2>2. AnswersAreDecided'
      BY <1>1, AnswersStay DEF HandshakeInv, AnswersAreDecided
    <2>3. Shape'
      BY <1>1 DEF HandshakeInv, Shape
    <2> QED
      BY <2>1, <2>2, <2>3 DEF HandshakeInv
  <1>2. ASSUME NEW k \in Connection, ClientStep(k)
        PROVE  HandshakeInv'
    BY <1>1, <1>2, ClientReads, ClientGivesUp, ClientJudges DEF ClientStep, Close, sides, msgs, wires
  <1>3. ASSUME NEW k \in Connection, ServerStep(k)
        PROVE  HandshakeInv'
    BY <1>1, <1>3, ServerReads, ServerGivesUp, ServerAnswers, ServerMakesConn
       DEF ServerStep, Close, sides, msgs, wires
  <1>4. CASE UNCHANGED vars
    BY <1>1, <1>4 DEF vars, sides, msgs, wires
  <1> QED
    BY <1>2, <1>3, <1>4, ClientGivesUp, ClientStarts, CacheAnswersOnly, FramesAreSent, FramesAreRead DEF Next

-----------------------------------------------------------------------------

\* ServerConnIsUpgraded, for any number of connections and every request: a
\* server's Conn stands behind a 101 for the request that arrived.
THEOREM ServerConnStands == Spec => []ServerConnIsUpgraded
  <1>1. HandshakeInv => ServerConnIsUpgraded
    <2> SUFFICES ASSUME HandshakeInv, NEW c \in Connection, server[c] = "conn" \/ sent[<<c, "server">>] > 0
                 PROVE  answered[c] = UpgradeForWebsocket(arrived[c].key) /\ arrived[c].key # "none"
      BY DEF ServerConnIsUpgraded
    <2>1. answered[c] # None /\ answered[c].status = 101
      BY DEF HandshakeInv, AnswersAreDecided
    <2> QED
      BY <2>1, DeclineIs DEF HandshakeInv, AnswersAreDecided
  <1> QED
    BY <1>1, HoldsInitially, HandshakeInvKept, PTL DEF Spec

\* ClientConnIsUpgraded, for any number of connections: a client's Conn stands
\* behind a 101 for its own key, which only the server its request reached can have
\* written, caches and proxies included.
THEOREM ClientConnStands == Spec => []ClientConnIsUpgraded
  <1>1. HandshakeInv => ClientConnIsUpgraded
    <2> SUFFICES ASSUME HandshakeInv, NEW c \in Connection, client[c] = "conn"
                 PROVE  \E d \in Connection :
                            /\ answered[d] # None /\ answered[d].status = 101 /\ arrived[d].key = req[c].key
                            /\ req[c].key # "zero" => d = c
      BY DEF ClientConnIsUpgraded
    <2>1. PICK d \in Answering, via \in Vias : res[c] = Rewritten(answered[d], via)
      BY DEF HandshakeInv, ResponsesAreAnswers
    <2>2. d \in Connection /\ answered[d] # None
      BY DEF Answering
    <2>3. answered[d].status = 101 /\ answered[d].accept = Accept(req[c].key)
      <3>1. res[c].status = 101 /\ res[c].accept = Accept(req[c].key)
        BY DEF HandshakeInv, ResponsesAreAnswers
      <3> QED
        BY <2>1, <3>1, AnswerOnTheWire DEF HandshakeInv
    <2>4. arrived[d] # None /\ answered[d] = UpgradeForWebsocket(arrived[d].key)
      <3>1. /\ arrived[d] # None
            /\ \/ answered[d] = UpgradeForWebsocket(arrived[d].key)
               \/ \E e \in Errors : answered[d] = DeclineByError(e)
        BY <2>2 DEF HandshakeInv, AnswersAreDecided
      <3>2. \A e \in Errors : answered[d] # DeclineByError(e)
        BY <2>3, DeclineIs
      <3> QED
        BY <3>1, <3>2
    <2>5. arrived[d].key = req[c].key
      <3>1. Accept(arrived[d].key) = Accept(req[c].key)
        BY <2>3, <2>4, UpgradeIs
      <3> QED
        BY <3>1 DEF Accept
    <2>6. arrived[d].key = req[d].key /\ RequestOf(req[d], d)
      <3>1. req[d] # None /\ \E v \in Vias : arrived[d] = Rewritten(req[d], v)
        BY <2>2, <2>4 DEF HandshakeInv, RequestsAreTheirs
      <3>2. RequestOf(req[d], d)
        BY <2>2, <3>1 DEF HandshakeInv, RequestsAreTheirs
      <3> QED
        BY <3>1, <3>2, RewrittenRequest DEF RequestOf
    <2>7. req[c].key \in {c, "zero"}
      BY DEF HandshakeInv, RequestsAreTheirs
    <2>8. req[c].key # "zero" => d = c
      BY <2>2, <2>5, <2>6, <2>7 DEF RequestOf
    <2> QED
      BY <2>2, <2>3, <2>5, <2>8
  <1> QED
    BY <1>1, HoldsInitially, HandshakeInvKept, PTL DEF Spec

-----------------------------------------------------------------------------
(* What is accepted: the invariant.                                          *)

FaithfulTo(m, sentAs) == \E via \in Vias : Faithful(via) /\ m = Rewritten(sentAs, via)

Decision(r) ==
    LET invalid == ValidateHandShakeRequest(r)
    IN  IF invalid = "none" THEN UpgradeForWebsocket(r.key) ELSE DeclineByError(invalid)

OwnRequest(r) == \E key : key # "none" /\ r = UpgradeRequest(key)

\* Before a client starts nothing has happened on its connection.
Untouched(c) ==
    client[c] = "idle" =>
        /\ server[c] = "waiting" /\ answered[c] = None
        /\ toServer[c] = <<>> /\ toClient[c] = <<>>

\* While nothing on a connection was lost, refused or rewritten, each side's next
\* message is there or to be decided, and it is what the other side sent.
OnItsWay(c) ==
    /\ IF client[c] = "foreign" THEN req[c] \in Foreign[c] ELSE OwnRequest(req[c])
    /\ client[c] \in {"sent", "read", "conn", "foreign"}
    /\ server[c] = "waiting" => toServer[c] # <<>> /\ FaithfulTo(toServer[c][1], req[c])
    /\ server[c] # "waiting" => FaithfulTo(arrived[c], req[c])
    /\ server[c] \in {"waiting", "handling"} =>
          answered[c] = None /\ toClient[c] = <<>> /\ client[c] \in {"sent", "foreign"}
    /\ server[c] \notin {"waiting", "handling"} =>
          /\ answered[c] = Decision(arrived[c])
          /\ server[c] = "failed" => answered[c].status # 101
          /\ client[c] = "sent" => toClient[c] # <<>> /\ FaithfulTo(toClient[c][1], answered[c])
          /\ client[c] = "read" => FaithfulTo(res[c], answered[c])

FitAt(c) ==
    /\ closed[<<c, "client">>] => client[c] = "failed"
    /\ Untouched(c)
    /\ client[c] # "idle" /\ ~fault[c] => OnItsWay(c)

FitInv ==
    /\ DOMAIN fault = Connection /\ DOMAIN closed = End
    /\ \A c \in Connection : FitAt(c)

-----------------------------------------------------------------------------
(* Header lists: what a faithful intermediary leaves of them.                 *)

\* Every string is a token; these three the provers do not know to be strings.
Token == STRING \cup {"keep-alive", "Upgrade", "websocket"}
Line == Seq(Token)

LEMMA KeepAliveIsLine == <<"keep-alive">> \in Line /\ <<<<"keep-alive">>>> \in Seq(Line)
  <1>1. "keep-alive" \in Token
    BY DEF Token
  <1>2. \A S : \A x \in S : <<x>> \in Seq(S)
    OBVIOUS
  <1> QED
    BY <1>1, <1>2 DEF Line

LEMMA KeepAliveInFront ==
    ASSUME NEW line \in Line
    PROVE  LET more == <<"keep-alive">> \o line
           IN  /\ Len(line) \in Nat /\ DOMAIN line = 1..Len(line)
               /\ DOMAIN more = 1..(Len(line) + 1) /\ more[1] = "keep-alive"
               /\ \A j \in 1..Len(line) : more[j + 1] = line[j]
  BY KeepAliveIsLine DEF Line

LEMMA LineInFront ==
    ASSUME NEW lines \in Seq(Line)
    PROVE  LET more == <<<<"keep-alive">>>> \o lines
           IN  /\ Len(lines) \in Nat /\ DOMAIN lines = 1..Len(lines)
               /\ DOMAIN more = 1..(Len(lines) + 1) /\ more[1] = <<"keep-alive">>
               /\ \A i \in 1..Len(lines) : more[i + 1] = lines[i]
  BY KeepAliveIsLine

\* "keep-alive" is no token anybody looks for, and case is folded away already.
LEMMA TokensFolded ==
    /\ EqualFold("keep-alive") = "keep-alive"
    /\ \A t : EqualFold(EqualFold(t)) = EqualFold(t)
    /\ \A t : EqualFold(t) = "upgrade" <=> t \in {"Upgrade", "upgrade"}
    /\ \A t : EqualFold(t) = "websocket" <=> t \in {"WebSocket", "websocket"}
  BY DEF EqualFold

LEMMA OwnLineKeepsToken ==
    ASSUME NEW lines \in Seq(Line), NEW token, token # "keep-alive"
    PROVE  HeaderHasToken(<<<<"keep-alive">>>> \o lines, token) <=> HeaderHasToken(lines, token)
  <1> DEFINE more == <<<<"keep-alive">>>> \o lines
  <1>1. PICK n \in Nat : n = Len(lines)
    BY LineInFront
  <1>2. /\ DOMAIN lines = 1..n /\ DOMAIN more = 1..(n + 1) /\ more[1] = <<"keep-alive">>
        /\ \A i \in 1..n : more[i + 1] = lines[i]
    BY <1>1, LineInFront
  <1>3. \A j \in DOMAIN more[1] : EqualFold(more[1][j]) # token
    BY <1>2, TokensFolded
  <1> HIDE DEF more
  <1>4. ASSUME HeaderHasToken(more, token) PROVE HeaderHasToken(lines, token)
    <2>1. PICK i \in 1..(n + 1) : \E j \in DOMAIN more[i] : EqualFold(more[i][j]) = token
      BY <1>2, <1>4 DEF HeaderHasToken
    <2>2. i # 1
      BY <1>3, <2>1
    <2>3. i - 1 \in 1..n /\ (i - 1) + 1 = i
      BY <2>2
    <2>4. more[i] = lines[i - 1]
      BY <1>2, <2>3
    <2> QED
      BY <1>2, <2>1, <2>3, <2>4 DEF HeaderHasToken
  <1>5. ASSUME HeaderHasToken(lines, token) PROVE HeaderHasToken(more, token)
    <2>1. PICK i \in 1..n : \E j \in DOMAIN lines[i] : EqualFold(lines[i][j]) = token
      BY <1>2, <1>5 DEF HeaderHasToken
    <2>2. i + 1 \in DOMAIN more /\ more[i + 1] = lines[i]
      BY <1>2
    <2> QED
      BY <2>1, <2>2 DEF HeaderHasToken
  <1> QED
    BY <1>4, <1>5 DEF more

LEMMA SameLineKeepsToken ==
    ASSUME NEW lines \in Seq(Line), NEW token, token # "keep-alive"
    PROVE  HeaderHasToken([i \in DOMAIN lines |-> <<"keep-alive">> \o lines[i]], token)
             <=> HeaderHasToken(lines, token)
  <1> DEFINE more == [i \in DOMAIN lines |-> <<"keep-alive">> \o lines[i]]
  <1>1. ASSUME NEW i \in DOMAIN lines
        PROVE  (\E j \in DOMAIN more[i] : EqualFold(more[i][j]) = token)
                 <=> (\E j \in DOMAIN lines[i] : EqualFold(lines[i][j]) = token)
    <2>1. lines[i] \in Line
      OBVIOUS
    <2>2. PICK n \in Nat : n = Len(lines[i])
      BY <2>1, KeepAliveInFront
    <2>3. /\ DOMAIN lines[i] = 1..n /\ DOMAIN more[i] = 1..(n + 1) /\ more[i][1] = "keep-alive"
          /\ \A j \in 1..n : more[i][j + 1] = lines[i][j]
      BY <2>1, <2>2, KeepAliveInFront
    <2> HIDE DEF more
    <2>4. ASSUME NEW j \in DOMAIN more[i], EqualFold(more[i][j]) = token
          PROVE  \E k \in DOMAIN lines[i] : EqualFold(lines[i][k]) = token
      <3>1. j # 1
        BY <2>3, <2>4, TokensFolded
      <3>2. j - 1 \in 1..n /\ (j - 1) + 1 = j
        BY <2>3, <3>1
      <3>3. more[i][j] = lines[i][j - 1]
        BY <2>3, <3>2
      <3> QED
        BY <2>3, <2>4, <3>2, <3>3
    <2>5. ASSUME NEW j \in DOMAIN lines[i], EqualFold(lines[i][j]) = token
          PROVE  \E k \in DOMAIN more[i] : EqualFold(more[i][k]) = token
      <3>1. j + 1 \in DOMAIN more[i] /\ more[i][j + 1] = lines[i][j]
        BY <2>3
      <3> QED
        BY <2>5, <3>1
    <2> QED
      BY <2>4, <2>5
  <1>2. DOMAIN more = DOMAIN lines
    OBVIOUS
  <1> HIDE DEF more
  <1>3. HeaderHasToken(more, token) <=> HeaderHasToken(lines, token)
    BY <1>1, <1>2 DEF HeaderHasToken
  <1> QED
    BY <1>3 DEF more

LEMMA LowerCaseKeepsToken ==
    ASSUME NEW lines \in Seq(Line), NEW token
    PROVE  HeaderHasToken([i \in DOMAIN lines |-> [j \in DOMAIN lines[i] |-> EqualFold(lines[i][j])]], token)
             <=> HeaderHasToken(lines, token)
  <1> DEFINE lower == [i \in DOMAIN lines |-> [j \in DOMAIN lines[i] |-> EqualFold(lines[i][j])]]
  <1>1. DOMAIN lower = DOMAIN lines /\ \A i \in DOMAIN lines : DOMAIN lower[i] = DOMAIN lines[i]
    OBVIOUS
  <1>2. \A i \in DOMAIN lines : \A j \in DOMAIN lines[i] : EqualFold(lower[i][j]) = EqualFold(lines[i][j])
    BY TokensFolded
  <1> HIDE DEF lower
  <1>3. HeaderHasToken(lower, token) <=> HeaderHasToken(lines, token)
    BY <1>1, <1>2 DEF HeaderHasToken
  <1> QED
    BY <1>3 DEF lower

\* A message with lists in it.
HasLists(m) ==
    /\ {"kind", "proto", "connection", "upgrade"} \subseteq DOMAIN m
    /\ m.connection \in Seq(Line) /\ m.upgrade \in Seq(Line)

\* Whatever a faithful intermediary does, a token looked for is found after it
\* exactly if it was there before, and nothing but the lists was touched.
LEMMA FaithfulKeeps ==
    ASSUME NEW m, HasLists(m), NEW r, FaithfulTo(r, m)
    PROVE  /\ DOMAIN r = DOMAIN m
           /\ \A x \in DOMAIN m \ {"connection", "upgrade"} : r[x] = m[x]
           /\ HeaderHasToken(r.connection, "upgrade") <=> HeaderHasToken(m.connection, "upgrade")
           /\ HeaderHasToken(r.upgrade, "websocket") <=> HeaderHasToken(m.upgrade, "websocket")
  <1>1. PICK via \in {"nothing", "ownLine", "sameLine", "lowerCase"} : r = Rewritten(m, via)
    BY DEF FaithfulTo, Faithful
  <1>2. "connection" \in DOMAIN m /\ "upgrade" \in DOMAIN m
    BY DEF HasLists
  <1>3. r = m \/ \E l : r = Lists(m, l, m.upgrade)
    BY <1>1 DEF Rewritten
  <1>4. /\ DOMAIN r = DOMAIN m /\ r.upgrade = m.upgrade
        /\ \A x \in DOMAIN m \ {"connection", "upgrade"} : r[x] = m[x]
    BY <1>2, <1>3 DEF Lists
  <1>5. HeaderHasToken(r.connection, "upgrade") <=> HeaderHasToken(m.connection, "upgrade")
    <2>1. CASE via = "nothing"
      BY <1>1, <2>1 DEF Rewritten
    <2>2. CASE via = "ownLine"
      <3>1. r.connection = <<<<"keep-alive">>>> \o m.connection
        BY <1>1, <1>2, <2>2 DEF Rewritten, Lists
      <3> QED
        BY <3>1, OwnLineKeepsToken DEF HasLists
    <2>3. CASE via = "sameLine"
      <3>1. r.connection = [i \in DOMAIN m.connection |-> <<"keep-alive">> \o m.connection[i]]
        BY <1>1, <1>2, <2>3 DEF Rewritten, Lists
      <3> QED
        BY <3>1, SameLineKeepsToken DEF HasLists
    <2>4. CASE via = "lowerCase"
      <3>1. r.connection
              = [i \in DOMAIN m.connection |-> [j \in DOMAIN m.connection[i] |-> EqualFold(m.connection[i][j])]]
        BY <1>1, <1>2, <2>4 DEF Rewritten, Lists
      <3> QED
        BY <3>1, LowerCaseKeepsToken DEF HasLists
    <2> QED
      BY <2>1, <2>2, <2>3, <2>4
  <1> QED
    BY <1>4, <1>5

LEMMA TokenIsIn ==
    ASSUME NEW lines
    PROVE  /\ HeaderHasToken(lines, "upgrade") <=> Tokens(lines) \cap {"Upgrade", "upgrade"} # {}
           /\ HeaderHasToken(lines, "websocket") <=> Tokens(lines) \cap {"WebSocket", "websocket"} # {}
  <1>1. \A t : t \in Tokens(lines) <=> \E i \in DOMAIN lines : \E j \in DOMAIN lines[i] : lines[i][j] = t
    BY DEF Tokens, Range
  <1>2. \A token : HeaderHasToken(lines, token) <=> \E t \in Tokens(lines) : EqualFold(t) = token
    BY <1>1 DEF HeaderHasToken
  <1> QED
    BY <1>2, TokensFolded

-----------------------------------------------------------------------------
(* What is decided.                                                          *)

IsRequest(q) == DOMAIN q = RequestFields /\ HasLists(q)

LEMMA TextIsToken == \A s \in Seq(Seq(STRING)) : s \in Seq(Line)
  <1> SUFFICES ASSUME NEW s \in Seq(Seq(STRING)) PROVE s \in Seq(Line)
    OBVIOUS
  <1>1. STRING \subseteq Token
    BY DEF Token
  <1>2. ASSUME NEW A, NEW B, A \subseteq B, NEW q \in Seq(A) PROVE q \in Seq(B)
    BY <1>2
  <1>3. Seq(STRING) \subseteq Line
    BY <1>1, <1>2 DEF Line
  <1> QED
    BY <1>2, <1>3

LEMMA ForeignIsRequest == \A c \in Connection : \A q \in Foreign[c] : IsRequest(q)
  <1> SUFFICES ASSUME NEW c \in Connection, NEW q \in Foreign[c] PROVE IsRequest(q)
    OBVIOUS
  <1>1. /\ DOMAIN q = RequestFields
        /\ q.connection \in Seq(Seq(STRING)) /\ q.upgrade \in Seq(Seq(STRING))
    BY KeyAssumption DEF RequestFields
  <1>2. q.connection \in Seq(Line) /\ q.upgrade \in Seq(Line)
    BY <1>1, TextIsToken
  <1> QED
    BY <1>1, <1>2 DEF IsRequest, HasLists, RequestFields

LEMMA OneToken ==
    ASSUME NEW t \in Token
    PROVE  /\ <<<<t>>>> \in Seq(Line)
           /\ \A token : HeaderHasToken(<<<<t>>>>, token) <=> EqualFold(t) = token
  <1>1. <<t>> \in Line /\ <<<<t>>>> \in Seq(Line)
    BY DEF Line
  <1>2. /\ DOMAIN <<<<t>>>> = {1} /\ <<<<t>>>>[1] = <<t>>
        /\ DOMAIN <<t>> = {1} /\ <<t>>[1] = t
    OBVIOUS
  <1> QED
    BY <1>1, <1>2 DEF HeaderHasToken

LEMMA OwnIs ==
    ASSUME NEW key
    PROVE  /\ IsRequest(UpgradeRequest(key))
           /\ UpgradeRequest(key).method = "GET" /\ UpgradeRequest(key).proto = "HTTP/1.1"
           /\ UpgradeRequest(key).key = key /\ UpgradeRequest(key).version = "13"
           /\ HeaderHasToken(UpgradeRequest(key).connection, "upgrade")
           /\ HeaderHasToken(UpgradeRequest(key).upgrade, "websocket")
  <1>1. "Upgrade" \in Token /\ "websocket" \in Token
    BY DEF Token
  <1>2. EqualFold("Upgrade") = "upgrade" /\ EqualFold("websocket") = "websocket"
    BY DEF EqualFold
  <1>3. /\ UpgradeRequest(key).connection = <<<<"Upgrade">>>>
        /\ UpgradeRequest(key).upgrade = <<<<"websocket">>>>
        /\ DOMAIN UpgradeRequest(key) = RequestFields
    BY DEF UpgradeRequest, Request, RequestFields
  <1>4. /\ UpgradeRequest(key).connection \in Seq(Line) /\ UpgradeRequest(key).upgrade \in Seq(Line)
        /\ HeaderHasToken(UpgradeRequest(key).connection, "upgrade")
        /\ HeaderHasToken(UpgradeRequest(key).upgrade, "websocket")
    BY <1>1, <1>2, <1>3, OneToken
  <1>5. IsRequest(UpgradeRequest(key))
    BY <1>3, <1>4 DEF IsRequest, HasLists, RequestFields
  <1> QED
    BY <1>4, <1>5 DEF UpgradeRequest, Request

\* A server decides on what arrived as it would on what was sent.
LEMMA DecidedAlike ==
    ASSUME NEW q, IsRequest(q), NEW r, FaithfulTo(r, q)
    PROVE  ValidateHandShakeRequest(r) = ValidateHandShakeRequest(q) /\ Decision(r) = Decision(q)
  <1>1. /\ \A x \in RequestFields \ {"connection", "upgrade"} : r[x] = q[x]
        /\ HeaderHasToken(r.connection, "upgrade") <=> HeaderHasToken(q.connection, "upgrade")
        /\ HeaderHasToken(r.upgrade, "websocket") <=> HeaderHasToken(q.upgrade, "websocket")
    BY FaithfulKeeps DEF IsRequest
  <1>2. r.method = q.method /\ r.proto = q.proto /\ r.key = q.key /\ r.version = q.version
    BY <1>1 DEF RequestFields
  <1>3. ValidateHandShakeRequest(r) = ValidateHandShakeRequest(q)
    BY <1>1, <1>2 DEF ValidateHandShakeRequest
  <1> QED
    BY <1>2, <1>3 DEF Decision

\* The validation's chain of checks finds nothing exactly for a request that keeps every
\* one of its rules, and gets to its last error exactly past all the others.
LEMMA ValidByTheRules ==
    ASSUME NEW q
    PROVE  /\ ValidateHandShakeRequest(q) = "none" <=> ServerRules(q)
           /\ ValidateHandShakeRequest(q) = "ErrVersion" =>
                 /\ q.method = "GET" /\ q.proto = "HTTP/1.1" /\ q.key # "none"
                 /\ Tokens(q.connection) \cap {"Upgrade", "upgrade"} # {}
                 /\ Tokens(q.upgrade) \cap {"WebSocket", "websocket"} # {}
           /\ ValidateHandShakeRequest(q) \in Errors
  <1>1. /\ HeaderHasToken(q.connection, "upgrade") <=> Tokens(q.connection) \cap {"Upgrade", "upgrade"} # {}
        /\ HeaderHasToken(q.upgrade, "websocket") <=> Tokens(q.upgrade) \cap {"WebSocket", "websocket"} # {}
    BY TokenIsIn
  <1>2. /\ ValidateHandShakeRequest(q) \in Errors
        /\ ValidateHandShakeRequest(q) \in {"none", "ErrVersion"} =>
              /\ q.method = "GET" /\ q.proto = "HTTP/1.1" /\ q.key # "none"
              /\ HeaderHasToken(q.connection, "upgrade") /\ HeaderHasToken(q.upgrade, "websocket")
    BY DEF ValidateHandShakeRequest, Errors
  <1>3. /\ q.method = "GET" /\ q.proto = "HTTP/1.1" /\ q.key # "none"
        /\ HeaderHasToken(q.connection, "upgrade") /\ HeaderHasToken(q.upgrade, "websocket")
        => ValidateHandShakeRequest(q) = IF q.version # "13" THEN "ErrVersion" ELSE "none"
    BY DEF ValidateHandShakeRequest
  <1> QED
    BY <1>1, <1>2, <1>3 DEF ServerRules

\* AnswerFitsTheRequest, of one request.
LEMMA DecisionFits ==
    ASSUME NEW q, IsRequest(q)
    PROVE  /\ Decision(q).status = 101 <=> ServerRules(q)
           /\ Decision(q).status = 426 => ServerRules([q EXCEPT !.version = Decision(q).version])
  <1>1. CASE ValidateHandShakeRequest(q) = "none"
    <2>1. Decision(q).status = 101
      BY <1>1, UpgradeIs DEF Decision
    <2> QED
      BY <1>1, <2>1, ValidByTheRules
  <1>2. CASE ValidateHandShakeRequest(q) # "none"
    <2>1. Decision(q) = DeclineByError(ValidateHandShakeRequest(q))
      BY <1>2 DEF Decision
    <2>2. Decision(q).status # 101 /\ ~ServerRules(q)
      BY <1>2, <2>1, DeclineIs, ValidByTheRules
    <2>3. ASSUME Decision(q).status = 426
          PROVE  ServerRules([q EXCEPT !.version = Decision(q).version])
      <3>1. ValidateHandShakeRequest(q) = "ErrVersion" /\ Decision(q).version = "13"
        BY <2>1, <2>3 DEF DeclineByError, Response
      <3>2. PICK p : p = [q EXCEPT !.version = "13"]
        OBVIOUS
      <3>3. /\ p.method = q.method /\ p.proto = q.proto /\ p.key = q.key /\ p.version = "13"
            /\ p.connection = q.connection /\ p.upgrade = q.upgrade
        BY <3>2 DEF IsRequest, RequestFields
      <3>4. ServerRules(p)
        BY <3>1, <3>3, ValidByTheRules DEF ServerRules
      <3> QED
        BY <3>1, <3>2, <3>4
    <2> QED
      BY <2>2, <2>3
  <1> QED
    BY <1>1, <1>2

\* This package's own request is upgraded, and its client takes the answer.
LEMMA OwnSucceeds ==
    ASSUME NEW q, OwnRequest(q), NEW r, FaithfulTo(r, q)
    PROVE  /\ Decision(r) = UpgradeForWebsocket(q.key)
           /\ \A a : FaithfulTo(a, Decision(r)) => ValidateHandShakeResponse(a, q.key) = "none"
  <1>1. PICK key : key # "none" /\ q = UpgradeRequest(key)
    BY DEF OwnRequest
  <1>2. IsRequest(q) /\ q.key = key /\ ValidateHandShakeRequest(q) = "none"
    BY <1>1, OwnIs DEF ValidateHandShakeRequest
  <1>3. Decision(r) = UpgradeForWebsocket(key)
    BY <1>2, DecidedAlike DEF Decision
  <1>4. ASSUME NEW a, FaithfulTo(a, UpgradeForWebsocket(key))
        PROVE  ValidateHandShakeResponse(a, key) = "none"
    <2>1. PICK m : m = UpgradeForWebsocket(key)
      OBVIOUS
    <2>2. /\ m.connection = <<<<"Upgrade">>>> /\ m.upgrade = <<<<"websocket">>>>
          /\ DOMAIN m = ResponseFields
          /\ m.status = 101 /\ m.proto = "HTTP/1.1" /\ m.accept = Accept(key)
      BY <2>1 DEF UpgradeForWebsocket, Response, ResponseFields
    <2>3. "Upgrade" \in Token /\ "websocket" \in Token
      BY DEF Token
    <2>4. EqualFold("Upgrade") = "upgrade" /\ EqualFold("websocket") = "websocket"
      BY DEF EqualFold
    <2>5. /\ m.connection \in Seq(Line) /\ m.upgrade \in Seq(Line)
          /\ HeaderHasToken(m.connection, "upgrade") /\ HeaderHasToken(m.upgrade, "websocket")
      BY <2>2, <2>3, <2>4, OneToken
    <2>6. HasLists(m)
      BY <2>2, <2>5 DEF HasLists, ResponseFields
    <2>7. /\ \A x \in ResponseFields \ {"connection", "upgrade"} : a[x] = m[x]
          /\ HeaderHasToken(a.connection, "upgrade") /\ HeaderHasToken(a.upgrade, "websocket")
      BY <1>4, <2>1, <2>2, <2>5, <2>6, FaithfulKeeps
    <2>8. a.status = 101 /\ a.proto = "HTTP/1.1" /\ a.accept = Accept(key)
      BY <2>2, <2>7 DEF ResponseFields
    <2>9. Accept(key) # NoAccept
      BY DEF Accept, NoAccept
    <2> QED
      BY <2>7, <2>8, <2>9 DEF ValidateHandShakeResponse
  <1> QED
    BY <1>2, <1>3, <1>4

-----------------------------------------------------------------------------
(* A step on one connection leaves the others as they are.                    *)

Acts(k) ==
    \/ RefuseNil(k) \/ SendHandShakeRequest(k) \/ SendForeignRequest(k)
    \/ ClientStep(k) \/ ServerStep(k) \/ CacheAnswers(k)
    \/ \E s \in Side : SendFrame(k, s) \/ GetNextFrame(k, s)

SameAt(c) ==
    /\ client'[c] = client[c] /\ server'[c] = server[c]
    /\ req'[c] = req[c] /\ arrived'[c] = arrived[c] /\ answered'[c] = answered[c] /\ res'[c] = res[c]
    /\ toServer'[c] = toServer[c] /\ toClient'[c] = toClient[c]
    /\ closed'[<<c, "client">>] = closed[<<c, "client">>] /\ fault'[c] = fault[c]

LEMMA SameFits == ASSUME NEW c, SameAt(c), FitAt(c) PROVE FitAt(c)'
  <1>1. Untouched(c)'
    BY DEF SameAt, FitAt, Untouched
  <1>2. OnItsWay(c) => OnItsWay(c)'
    BY DEF SameAt, OnItsWay
  <1> QED
    BY <1>1, <1>2 DEF SameAt, FitAt

\* f changed at k at most.
ChangedAt(f, g, k) == g = f \/ \E v : g = [f EXCEPT ![k] = v]

LEMMA ChangedElsewhere ==
    ASSUME NEW f, NEW g, NEW k, ChangedAt(f, g, k)
    PROVE  DOMAIN g = DOMAIN f /\ \A c \in DOMAIN f : c # k => g[c] = f[c]
  BY DEF ChangedAt

OnlyAt(k) ==
    /\ ChangedAt(client, client', k) /\ ChangedAt(server, server', k)
    /\ ChangedAt(req, req', k) /\ ChangedAt(arrived, arrived', k)
    /\ ChangedAt(answered, answered', k) /\ ChangedAt(res, res', k)
    /\ ChangedAt(toServer, toServer', k) /\ ChangedAt(toClient, toClient', k)
    /\ ChangedAt(fault, fault', k)
    /\ \E s \in Side : ChangedAt(closed, closed', <<k, s>>)

LEMMA NewConnAt ==
    ASSUME NEW k, NEW s, NewConn(k, s)
    PROVE  ChangedAt(client, client', k) /\ ChangedAt(server, server', k) /\ ChangedAt(fault, fault', k)
  BY DEF NewConn, Client, Server, ChangedAt

LEMMA ActsOnlyAt == ASSUME NEW k, Acts(k) PROVE OnlyAt(k)
  <1> USE DEF ChangedAt, sides, msgs, wires
  <1>s. "client" \in Side /\ "server" \in Side
    BY DEF Side
  <1>1. CASE RefuseNil(k)
    BY <1>1, <1>s DEF RefuseNil, Client, Faulty, OnlyAt
  <1>2. CASE SendHandShakeRequest(k)
    BY <1>2, <1>s DEF SendHandShakeRequest, Client, Faulty, OnlyAt
  <1>3. CASE SendForeignRequest(k)
    BY <1>3, <1>s DEF SendForeignRequest, Client, OnlyAt
  <1>4. CASE ReadHandShakeResponse(k)
    BY <1>4, <1>s DEF ReadHandShakeResponse, Client, OnlyAt
  <1>5. CASE ReadResponseFails(k)
    BY <1>5, <1>s DEF ReadResponseFails, Client, Faulty, OnlyAt
  <1>6. CASE ClientHandShake(k)
    BY <1>6, <1>s, NewConnAt DEF ClientHandShake, Client, OnlyAt
  <1>7. CASE \E s \in Side : Close(k, s)
    BY <1>7 DEF Close, OnlyAt
  <1>8. CASE ReadRequest(k)
    BY <1>8, <1>s DEF ReadRequest, Server, OnlyAt
  <1>9. CASE ReadRequestFails(k)
    BY <1>9, <1>s DEF ReadRequestFails, Server, Faulty, OnlyAt
  <1>10. CASE ServerHandShake(k)
    BY <1>10, <1>s DEF ServerHandShake, Server, Faulty, OnlyAt
  <1>11. CASE ServerNewConn(k)
    BY <1>11, <1>s, NewConnAt DEF ServerNewConn, OnlyAt
  <1>12. CASE CacheAnswers(k)
    BY <1>12, <1>s DEF CacheAnswers, Faulty, OnlyAt
  <1>13. CASE \E s \in Side : SendFrame(k, s)
    BY <1>13 DEF SendFrame, OnlyAt
  <1>14. CASE \E s \in Side : GetNextFrame(k, s)
    BY <1>14 DEF GetNextFrame, OnlyAt
  <1> QED
    BY <1>s, <1>1, <1>2, <1>3, <1>4, <1>5, <1>6, <1>7, <1>8, <1>9, <1>10, <1>11, <1>12, <1>13, <1>14
       DEF Acts, ClientStep, ServerStep

LEMMA OthersStay ==
    ASSUME HandshakeInv, FitInv, NEW k \in Connection, Acts(k)
    PROVE  /\ DOMAIN fault' = Connection /\ DOMAIN closed' = End
           /\ \A c \in Connection : c # k => FitAt(c)'
  <1>1. OnlyAt(k)
    BY ActsOnlyAt
  <1>2. /\ DOMAIN client = Connection /\ DOMAIN server = Connection
        /\ DOMAIN req = Connection /\ DOMAIN arrived = Connection
        /\ DOMAIN answered = Connection /\ DOMAIN res = Connection
        /\ DOMAIN toServer = Connection /\ DOMAIN toClient = Connection
        /\ DOMAIN fault = Connection /\ DOMAIN closed = End
    BY DEF HandshakeInv, Shape, FitInv
  <1>3. PICK s \in Side : ChangedAt(closed, closed', <<k, s>>)
    BY <1>1 DEF OnlyAt
  <1>4. DOMAIN fault' = Connection /\ DOMAIN closed' = End
    BY <1>1, <1>2, <1>3, ChangedElsewhere DEF OnlyAt
  <1>5. ASSUME NEW c \in Connection, c # k PROVE FitAt(c)'
    <2>1. closed'[<<c, "client">>] = closed[<<c, "client">>]
      <3>1. <<c, "client">> \in End /\ <<c, "client">> # <<k, s>>
        BY <1>5 DEF End, Side
      <3> QED
        BY <1>2, <1>3, <3>1, ChangedElsewhere
    <2>2. SameAt(c)
      BY <1>1, <1>2, <1>5, <2>1, ChangedElsewhere DEF OnlyAt, SameAt
    <2> QED
      BY <2>2, SameFits DEF FitInv
  <1> QED
    BY <1>4, <1>5

-----------------------------------------------------------------------------
(* Each step on the connection it is taken on.                               *)

Domains ==
    /\ DOMAIN client = Connection /\ DOMAIN server = Connection
    /\ DOMAIN req = Connection /\ DOMAIN arrived = Connection
    /\ DOMAIN answered = Connection /\ DOMAIN res = Connection
    /\ DOMAIN toServer = Connection /\ DOMAIN toClient = Connection
    /\ DOMAIN fault = Connection /\ DOMAIN closed = End

LEMMA DomainsKnown == HandshakeInv /\ FitInv => Domains
  BY DEF HandshakeInv, Shape, FitInv, Domains

LEMMA ViaKnown == \A c \in Connection : \A via \in Via[c] : via \in Vias
  BY HandshakeAssumption DEF Vias

\* A step that loses something settles its connection.
LEMMA FaultFits ==
    ASSUME NEW c, fault'[c], client'[c] # "idle",
           closed'[<<c, "client">>] => client'[c] = "failed"
    PROVE  FitAt(c)'
  BY DEF FitAt, Untouched

LEMMA FaultySteps ==
    ASSUME HandshakeInv, FitInv, NEW k \in Connection,
           RefuseNil(k) \/ ReadResponseFails(k) \/ ReadRequestFails(k) \/ CacheAnswers(k)
    PROVE  FitAt(k)'
  <1>1. Domains /\ FitAt(k)
    BY DomainsKnown DEF FitInv
  <1>2. fault'[k] /\ closed' = closed /\ (client'[k] = "failed" \/ client'[k] = client[k])
    BY <1>1 DEF RefuseNil, ReadResponseFails, ReadRequestFails, CacheAnswers, Faulty, Client, Domains, sides
  <1>3. client'[k] # "idle"
    <2>1. CASE RefuseNil(k) \/ ReadResponseFails(k)
      BY <1>1, <2>1 DEF RefuseNil, ReadResponseFails, Client, Domains
    <2>2. CASE ReadRequestFails(k)
      BY <1>1, <2>2 DEF ReadRequestFails, FitAt, Untouched
    <2>3. CASE CacheAnswers(k)
      BY <2>3 DEF CacheAnswers, sides
    <2> QED
      BY <2>1, <2>2, <2>3
  <1> QED
    BY <1>1, <1>2, <1>3, FaultFits DEF FitAt

LEMMA ClientStartsFit ==
    ASSUME HandshakeInv, FitInv, NEW k \in Connection, SendHandShakeRequest(k) \/ SendForeignRequest(k)
    PROVE  FitAt(k)'
  <1>1. Domains /\ FitAt(k)
    BY DomainsKnown DEF FitInv
  <1>2. /\ client[k] = "idle" /\ closed' = closed /\ server' = server
        /\ answered' = answered /\ toClient' = toClient
    BY DEF SendHandShakeRequest, SendForeignRequest
  <1>3. /\ ~closed[<<k, "client">>]
        /\ server[k] = "waiting" /\ answered[k] = None /\ toClient[k] = <<>>
    BY <1>1, <1>2 DEF FitAt, Untouched
  <1>4. client'[k] \in {"sent", "foreign", "failed"}
    BY <1>1 DEF SendHandShakeRequest, SendForeignRequest, Client, Domains
  <1>5. ASSUME ~fault'[k]
        PROVE  /\ client'[k] \in {"sent", "foreign"}
               /\ IF client'[k] = "foreign" THEN req'[k] \in Foreign[k] ELSE OwnRequest(req'[k])
               /\ toServer'[k] # <<>> /\ FaithfulTo(toServer'[k][1], req'[k])
    <2>1. CASE SendHandShakeRequest(k)
      <3>1. PICK key \in Key(k), via \in Via[k] :
                /\ req' = [req EXCEPT ![k] = UpgradeRequest(key)]
                /\ \/ /\ toServer' = [toServer EXCEPT ![k] = <<Rewritten(req'[k], via)>>]
                      /\ client' = [client EXCEPT ![k] = "sent"]
                      /\ fault' = [fault EXCEPT ![k] = ~Faithful(via)]
                   \/ fault' = [fault EXCEPT ![k] = TRUE]
        BY <2>1 DEF SendHandShakeRequest, Client, Faulty
      <3>2. /\ toServer' = [toServer EXCEPT ![k] = <<Rewritten(req'[k], via)>>]
            /\ client' = [client EXCEPT ![k] = "sent"] /\ Faithful(via)
        BY <1>1, <1>5, <3>1 DEF Domains
      <3>3. key # "none"
        BY KeyAssumption DEF Key
      <3>4. OwnRequest(req'[k])
        BY <1>1, <3>1, <3>3 DEF OwnRequest, Domains
      <3>5. toServer'[k] = <<Rewritten(req'[k], via)>> /\ client'[k] = "sent"
        BY <1>1, <3>2 DEF Domains
      <3> QED
        BY <3>2, <3>4, <3>5, ViaKnown DEF FaithfulTo
    <2>2. CASE SendForeignRequest(k)
      <3>1. PICK r \in Foreign[k], via \in Via[k], n \in 0..1 :
                /\ req' = [req EXCEPT ![k] = r]
                /\ toServer' = [toServer EXCEPT ![k] = <<Rewritten(r, via)>> \o FirstFrames(n)]
                /\ fault' = [fault EXCEPT ![k] = ~Faithful(via)]
        BY <2>2, Zenon DEF SendForeignRequest
      <3>2. Faithful(via) /\ req'[k] = r /\ toServer'[k] = <<Rewritten(r, via)>> \o FirstFrames(n)
        BY <1>1, <1>5, <3>1 DEF Domains
      <3>3. client'[k] = "foreign"
        BY <1>1, <2>2 DEF SendForeignRequest, Client, Domains
      <3>4. toServer'[k] # <<>> /\ toServer'[k][1] = Rewritten(r, via)
        <4> DEFINE S == {Rewritten(r, via)} \cup Frames
        <4>1. n \in Nat /\ [i \in 1..n |-> FrameNo(i)] \in [1..n -> S]
          BY DEF Frames
        <4>2. FirstFrames(n) \in Seq(S) /\ <<Rewritten(r, via)>> \in Seq(S)
          BY <4>1, SeqDef DEF FirstFrames
        <4> HIDE DEF S
        <4>3. /\ Len(<<Rewritten(r, via)>> \o FirstFrames(n)) >= 1
              /\ (<<Rewritten(r, via)>> \o FirstFrames(n))[1] = Rewritten(r, via)
          BY <4>2
        <4> QED
          BY <3>2, <4>3
      <3> QED
        BY <3>2, <3>3, <3>4, ViaKnown DEF FaithfulTo
    <2> QED
      BY <2>1, <2>2
  <1>6. ~fault'[k] => OnItsWay(k)'
    BY <1>2, <1>3, <1>5 DEF OnItsWay
  <1> QED
    BY <1>2, <1>3, <1>4, <1>6 DEF FitAt, Untouched

LEMMA ClientReadsFit ==
    ASSUME HandshakeInv, FitInv, NEW k \in Connection, ReadHandShakeResponse(k)
    PROVE  FitAt(k)'
  <1>1. Domains /\ FitAt(k)
    BY DomainsKnown DEF FitInv
  <1>2. /\ client[k] = "sent" /\ toClient[k] # <<>> /\ closed' = closed /\ server' = server
        /\ req' = req /\ arrived' = arrived /\ answered' = answered /\ fault' = fault /\ toServer' = toServer
        /\ client'[k] = "read" /\ res'[k] = toClient[k][1]
    BY <1>1 DEF ReadHandShakeResponse, Client, Domains
  <1>3. OnItsWay(k) => OnItsWay(k)'
    BY <1>2 DEF OnItsWay
  <1> QED
    BY <1>1, <1>2, <1>3 DEF FitAt, Untouched

LEMMA NewConnIs ==
    ASSUME Domains, NEW k \in Connection, NEW s \in Side, NewConn(k, s)
    PROVE  LET at == IF s = "client" THEN client'[k] ELSE server'[k]
           IN  /\ at = "conn" \/ (at = "failed" /\ fault'[k])
               /\ s = "client" => server' = server
               /\ s = "server" => client' = client
               /\ fault[k] => fault'[k]
  <1>1. PICK w \in Writer :
            LET made == w # "small and broken"
                at   == IF made THEN "conn" ELSE "failed"
            IN  /\ IF s = "client" THEN Client(k, at) /\ UNCHANGED server
                                   ELSE Server(k, at) /\ UNCHANGED client
                /\ fault' = [fault EXCEPT ![k] = @ \/ ~made]
    BY DEF NewConn
  <1>2. CASE w # "small and broken"
    BY <1>1, <1>2 DEF Domains, Client, Server, Side
  <1>3. CASE w = "small and broken"
    BY <1>1, <1>3 DEF Domains, Client, Server, Side
  <1> QED
    BY <1>2, <1>3

LEMMA ClientJudgesFits ==
    ASSUME HandshakeInv, FitInv, NEW k \in Connection, ClientHandShake(k)
    PROVE  FitAt(k)'
  <1>1. Domains /\ FitAt(k)
    BY DomainsKnown DEF FitInv
  <1>2. /\ client[k] = "read" /\ closed' = closed
        /\ req' = req /\ arrived' = arrived /\ answered' = answered /\ res' = res
        /\ toServer' = toServer /\ toClient' = toClient
    BY DEF ClientHandShake, msgs, wires
  <1>3. /\ client'[k] \in {"conn", "failed"} /\ server' = server /\ (fault[k] => fault'[k])
        /\ client'[k] = "failed" =>
              fault'[k] \/ ValidateHandShakeResponse(res[k], req[k].key) # "none"
    <2>1. CASE NewConn(k, "client")
      BY <1>1, <2>1, NewConnIs DEF Side
    <2>2. CASE ~NewConn(k, "client")
      BY <1>1, <2>2 DEF ClientHandShake, Client, Domains
    <2> QED
      BY <2>1, <2>2
  <1>4. OnItsWay(k) => ValidateHandShakeResponse(res[k], req[k].key) = "none"
    <2> SUFFICES ASSUME OnItsWay(k) PROVE ValidateHandShakeResponse(res[k], req[k].key) = "none"
      OBVIOUS
    <2>1. server[k] \notin {"waiting", "handling"} /\ OwnRequest(req[k])
      BY <1>2 DEF OnItsWay
    <2>2. /\ FaithfulTo(arrived[k], req[k]) /\ answered[k] = Decision(arrived[k])
          /\ FaithfulTo(res[k], answered[k])
      BY <1>2, <2>1 DEF OnItsWay
    <2> QED
      BY <2>1, <2>2, OwnSucceeds
  <1>5. ASSUME ~fault'[k] PROVE OnItsWay(k)'
    <2>1. ~fault[k] /\ OnItsWay(k)
      BY <1>1, <1>2, <1>3, <1>5 DEF FitAt
    <2>2. client'[k] = "conn"
      BY <1>3, <1>4, <1>5, <2>1
    <2> QED
      BY <1>2, <1>3, <2>1, <2>2 DEF OnItsWay
  <1> QED
    BY <1>1, <1>2, <1>3, <1>5 DEF FitAt, Untouched

LEMMA ServerReadsFit ==
    ASSUME HandshakeInv, FitInv, NEW k \in Connection, ReadRequest(k)
    PROVE  FitAt(k)'
  <1>1. Domains /\ FitAt(k)
    BY DomainsKnown DEF FitInv
  <1>2. /\ server[k] = "waiting" /\ toServer[k] # <<>> /\ closed' = closed /\ client' = client
        /\ req' = req /\ answered' = answered /\ res' = res /\ fault' = fault /\ toClient' = toClient
        /\ server'[k] = "handling" /\ arrived'[k] = toServer[k][1]
    BY <1>1 DEF ReadRequest, Server, Domains
  <1>3. OnItsWay(k) => OnItsWay(k)'
    BY <1>2 DEF OnItsWay
  <1> QED
    BY <1>1, <1>2, <1>3 DEF FitAt, Untouched

LEMMA ServerAnswersFit ==
    ASSUME HandshakeInv, FitInv, NEW k \in Connection, ServerHandShake(k)
    PROVE  FitAt(k)'
  <1>1. Domains /\ FitAt(k)
    BY DomainsKnown DEF FitInv
  <1>2. /\ server[k] = "handling" /\ closed' = closed /\ client' = client
        /\ req' = req /\ arrived' = arrived /\ res' = res /\ toServer' = toServer
    BY DEF ServerHandShake
  <1>3. PICK invalid : invalid = ValidateHandShakeRequest(arrived[k])
    OBVIOUS
  <1>4. ASSUME ~fault'[k]
        PROVE  /\ ~fault[k] /\ answered'[k] = Decision(arrived[k])
               /\ server'[k] = IF invalid = "none" THEN "upgraded" ELSE "failed"
               /\ \E via \in Vias : /\ Faithful(via)
                                   /\ toClient'[k] = Append(toClient[k], Rewritten(answered'[k], via))
    <2>1. PICK via \in Via[k] :
              /\ toClient' = [toClient EXCEPT ![k] = Append(@, Rewritten(Decision(arrived[k]), via))]
              /\ answered' = [answered EXCEPT ![k] = Decision(arrived[k])]
              /\ server' = [server EXCEPT ![k] = AfterResponse(invalid)]
              /\ fault' = [fault EXCEPT ![k] = @ \/ ~Faithful(via)]
      BY <1>1, <1>3, <1>4 DEF ServerHandShake, Decision, Server, Faulty, Domains
    <2> QED
      BY <1>1, <1>4, <2>1, ViaKnown DEF AfterResponse, Domains
  <1>5. ASSUME ~fault'[k] PROVE OnItsWay(k)'
    <2>1. /\ OnItsWay(k) /\ toClient[k] = <<>> /\ client[k] \in {"sent", "foreign"}
          /\ FaithfulTo(arrived[k], req[k])
      BY <1>1, <1>2, <1>4, <1>5 DEF FitAt, Untouched, OnItsWay
    <2>2. PICK via \in Vias :
              Faithful(via) /\ toClient'[k] = <<Rewritten(answered'[k], via)>>
      BY <1>4, <1>5, <2>1
    <2>3. toClient'[k] # <<>> /\ FaithfulTo(toClient'[k][1], answered'[k])
      BY <2>2 DEF FaithfulTo
    <2>4. server'[k] = "failed" => answered'[k].status # 101
      BY <1>3, <1>4, <1>5, DeclineIs DEF Decision
    <2>5. server'[k] \in {"upgraded", "failed"} /\ answered'[k] = Decision(arrived[k])
      BY <1>4, <1>5
    <2> QED
      BY <1>2, <2>1, <2>3, <2>4, <2>5 DEF OnItsWay
  <1>6. client[k] # "idle"
    BY <1>1, <1>2 DEF FitAt, Untouched
  <1> QED
    BY <1>1, <1>2, <1>5, <1>6 DEF FitAt, Untouched

LEMMA ServerMakesConnFits ==
    ASSUME HandshakeInv, FitInv, NEW k \in Connection, ServerNewConn(k)
    PROVE  FitAt(k)'
  <1>1. Domains /\ FitAt(k)
    BY DomainsKnown DEF FitInv
  <1>2. /\ server[k] = "upgraded" /\ closed' = closed
        /\ req' = req /\ arrived' = arrived /\ answered' = answered /\ res' = res
        /\ toServer' = toServer /\ toClient' = toClient
    BY DEF ServerNewConn, msgs, wires
  <1>3. /\ server'[k] = "conn" \/ (server'[k] = "failed" /\ fault'[k])
        /\ client' = client /\ (fault[k] => fault'[k])
    BY <1>1, NewConnIs DEF ServerNewConn, Side
  <1>4. OnItsWay(k) /\ ~fault'[k] => OnItsWay(k)'
    BY <1>2, <1>3 DEF OnItsWay
  <1>5. client[k] # "idle"
    BY <1>1, <1>2 DEF FitAt, Untouched
  <1> QED
    BY <1>1, <1>2, <1>3, <1>4, <1>5 DEF FitAt, Untouched

\* Frames only move once both sides have what they need.
LEMMA FramesFit ==
    ASSUME HandshakeInv, FitInv, NEW k \in Connection, NEW s \in Side,
           SendFrame(k, s) \/ GetNextFrame(k, s)
    PROVE  FitAt(k)'
  <1>1. Domains /\ FitAt(k)
    BY DomainsKnown DEF FitInv
  <1>2. /\ HasConn(k, s) /\ closed' = closed /\ fault' = fault
        /\ client' = client /\ server' = server
        /\ req' = req /\ arrived' = arrived /\ answered' = answered /\ res' = res
    BY DEF SendFrame, GetNextFrame, sides, msgs
  <1>3. client[k] # "idle"
    BY <1>1, <1>2 DEF HasConn, FitAt, Untouched
  <1>4. ASSUME ~fault[k] PROVE OnItsWay(k)'
    <2>1. OnItsWay(k) /\ server[k] \notin {"waiting", "handling"}
      BY <1>1, <1>2, <1>3, <1>4 DEF FitAt, HasConn, OnItsWay
    <2>2. ASSUME client[k] = "sent" PROVE toClient'[k] # <<>> /\ FaithfulTo(toClient'[k][1], answered[k])
      <3>1. s = "server"
        BY <1>2, <2>2 DEF HasConn, Side
      <3>2. CASE SendFrame(k, s)
        <4>1. PICK f : toClient' = [toClient EXCEPT ![k] = Append(@, f)]
          BY <3>1, <3>2 DEF SendFrame
        <4>2. /\ toClient'[k] = Append(toClient[k], f) /\ toClient[k] # <<>>
              /\ FaithfulTo(toClient[k][1], answered[k])
          BY <1>1, <2>1, <2>2, <4>1 DEF Domains, OnItsWay
        <4>3. PICK S : toClient[k] \in Seq(S) /\ f \in S
          <5>1. toClient[k] \in Seq(FromServers)
            BY DEF HandshakeInv, ResponsesAreAnswers
          <5>2. toClient[k] \in Seq(FromServers \cup {f})
            BY <5>1
          <5> QED
            BY <5>2
        <4>4. Append(toClient[k], f) # <<>> /\ Append(toClient[k], f)[1] = toClient[k][1]
          BY <4>2, <4>3
        <4> QED
          BY <4>2, <4>4
      <3>3. CASE GetNextFrame(k, s)
        <4>1. toClient' = toClient
          BY <3>1, <3>3 DEF GetNextFrame, wires
        <4> QED
          BY <2>1, <2>2, <4>1 DEF OnItsWay
      <3> QED
        BY <3>2, <3>3
    <2> QED
      BY <1>2, <2>1, <2>2 DEF OnItsWay
  <1> QED
    BY <1>1, <1>2, <1>3, <1>4 DEF FitAt, Untouched

LEMMA CloseFits ==
    ASSUME HandshakeInv, FitInv, NEW k \in Connection, NEW s \in Side, Close(k, s)
    PROVE  FitAt(k)'
  <1>1. Domains /\ FitAt(k)
    BY DomainsKnown DEF FitInv
  <1>2. /\ HasFailed(k, s) /\ closed' = [closed EXCEPT ![<<k, s>>] = TRUE] /\ fault' = fault
        /\ client' = client /\ server' = server
        /\ req' = req /\ arrived' = arrived /\ answered' = answered /\ res' = res
        /\ toServer' = toServer /\ toClient' = toClient
    BY DEF Close, HandlerReturns, sides, msgs, wires
  <1>3. closed'[<<k, "client">>] => client[k] = "failed"
    <2>1. CASE s = "client"
      BY <1>2, <2>1 DEF HasFailed
    <2>2. CASE s # "client"
      BY <1>1, <1>2, <2>2 DEF FitAt, Domains, End, Side
    <2> QED
      BY <2>1, <2>2
  <1>4. OnItsWay(k) => OnItsWay(k)'
    BY <1>2 DEF OnItsWay
  <1> QED
    BY <1>1, <1>2, <1>3, <1>4 DEF FitAt, Untouched

LEMMA FitKept ==
    ASSUME HandshakeInv, FitInv, [Next]_vars
    PROVE  FitInv'
  <1>1. ASSUME NEW k \in Connection, Acts(k) PROVE FitInv'
    <2>1. "client" \in Side /\ "server" \in Side
      BY DEF Side
    <2>2. FitAt(k)'
      BY <1>1, <2>1, FaultySteps, ClientStartsFit, ClientReadsFit, ClientJudgesFits, ServerReadsFit,
         ServerAnswersFit, ServerMakesConnFits, FramesFit, CloseFits DEF Acts, ClientStep, ServerStep
    <2> QED
      BY <1>1, <2>2, OthersStay DEF FitInv
  <1>2. CASE UNCHANGED vars
    <2>1. \A c : SameAt(c)
      BY <1>2 DEF vars, sides, msgs, wires, SameAt
    <2>2. fault' = fault /\ closed' = closed
      BY <1>2 DEF vars
    <2> QED
      BY <2>1, <2>2, SameFits DEF FitInv
  <1>3. Next => \E k \in Connection : Acts(k)
    BY DEF Next, Acts
  <1> QED
    BY <1>1, <1>2, <1>3

LEMMA FitInitially == Init => FitInv
  <1> SUFFICES ASSUME Init PROVE FitInv
    OBVIOUS
  <1>1. \A c \in Connection : <<c, "client">> \in End
    BY DEF End, Side
  <1>2. DOMAIN fault = Connection /\ DOMAIN closed = End
    BY DEF Init
  <1>3. ASSUME NEW c \in Connection PROVE FitAt(c)
    BY <1>1, <1>3 DEF Init, FitAt, Untouched
  <1> QED
    BY <1>2, <1>3 DEF FitInv

LEMMA FitAlways == Spec => [](HandshakeInv /\ FitInv)
  BY HoldsInitially, HandshakeInvKept, FitInitially, FitKept, PTL DEF Spec

-----------------------------------------------------------------------------

\* HandshakeSucceeds, for any number of connections: where lists are only extended,
\* repeated or recased and nothing breaks, no check of either side refuses this
\* package's own handshake (ValidateHandShakeRequest, ValidateHandShakeResponse).
THEOREM OwnHandshakeSucceeds == Spec => []HandshakeSucceeds
  <1>1. ASSUME FitInv PROVE HandshakeSucceeds
    <2> SUFFICES ASSUME NEW c \in Connection, ~fault[c], client[c] # "foreign"
                 PROVE  client[c] # "failed" /\ server[c] # "failed"
      BY DEF HandshakeSucceeds
    <2>1. CASE client[c] = "idle"
      BY <1>1, <2>1 DEF FitInv, FitAt, Untouched
    <2>2. CASE client[c] # "idle"
      <3>1. OnItsWay(c) /\ OwnRequest(req[c])
        BY <1>1, <2>2 DEF FitInv, FitAt, OnItsWay
      <3>2. ASSUME server[c] = "failed" PROVE FALSE
        <4>1. /\ FaithfulTo(arrived[c], req[c]) /\ answered[c] = Decision(arrived[c])
              /\ answered[c].status # 101
          BY <3>1, <3>2 DEF OnItsWay
        <4> QED
          BY <3>1, <4>1, OwnSucceeds, UpgradeIs
      <3> QED
        BY <3>1, <3>2 DEF OnItsWay
    <2> QED
      BY <2>1, <2>2
  <1> QED
    BY <1>1, FitAlways, PTL

\* AnswerFitsTheRequest, for every request any client sends: it is upgraded exactly if
\* it kept the server's rules when it was sent, whatever was done to its lists since;
\* these rules leave out the form of the key and the Host (ValidateHandShakeRequest).
\* And it is told 426 only for a version that is all there is to change
\* (DeclineByError).
THEOREM AnswersFit == Spec => []AnswerFitsTheRequest
  <1>1. ASSUME FitInv PROVE AnswerFitsTheRequest
    <2> SUFFICES ASSUME NEW c \in Connection, answered[c] # None, ~fault[c]
                 PROVE  /\ answered[c].status = 101 <=> ServerRules(req[c])
                        /\ answered[c].status = 426 =>
                              ServerRules([req[c] EXCEPT !.version = answered[c].version])
      BY DEF AnswerFitsTheRequest
    <2>1. OnItsWay(c)
      BY <1>1 DEF FitInv, FitAt, Untouched
    <2>2. /\ IF client[c] = "foreign" THEN req[c] \in Foreign[c] ELSE OwnRequest(req[c])
          /\ FaithfulTo(arrived[c], req[c]) /\ answered[c] = Decision(arrived[c])
      BY <2>1 DEF OnItsWay
    <2>3. IsRequest(req[c])
      BY <2>2, ForeignIsRequest, OwnIs DEF OwnRequest
    <2>4. answered[c] = Decision(req[c])
      BY <2>2, <2>3, DecidedAlike
    <2> QED
      BY <2>3, <2>4, DecisionFits
  <1> QED
    BY <1>1, FitAlways, PTL

-----------------------------------------------------------------------------
(* Frames behind the handshake.                                              *)

\* One side has read q, its reader holds b, w is on its way to it, and the other side
\* sent n frames: these are the frames, whichever of the three they are in, and
\* only a message nobody has read yet goes before them.
Waits(w) == IF w # <<>> /\ w[1].kind # "frame" THEN 1 ELSE 0

Streamed(q, b, w, n) ==
    /\ Len(q) + Len(b) + Len(w) = n + Waits(w)
    /\ \A i \in 1..Len(q) : q[i] = i
    /\ \A i \in 1..Len(b) : b[i] = FrameNo(Len(q) + i)
    /\ \A i \in 1..(Len(w) - Waits(w)) : w[Waits(w) + i] = FrameNo(Len(q) + Len(b) + i)
    /\ Waits(w) = 1 => Len(q) = 0 /\ Len(b) = 0

StreamTypes == got \in [End -> Seq(Nat)] /\ buf \in [End -> Seq(Frames)]

StreamAt(c, s) == Streamed(got[<<c, s>>], buf[<<c, s>>], Wire(c, s), sent[<<c, Other(s)>>])

\* A request waits for a server nobody has answered for.
AskedAt(c) ==
    /\ toServer[c] # <<>> /\ toServer[c][1].kind = "request" => server[c] = "waiting" /\ toClient[c] = <<>>
    /\ server[c] = "handling" => toClient[c] = <<>>
    /\ sent[<<c, "client">>] > 0 => client[c] \in {"conn", "foreign"}

StreamsAt(c) == AskedAt(c) /\ StreamAt(c, "client") /\ StreamAt(c, "server")

StreamInv == StreamTypes /\ \A c \in Connection : StreamsAt(c)

LEMMA AppendIs ==
    ASSUME NEW S, NEW w \in Seq(S), NEW x
    PROVE  LET v == Append(w, x)
           IN  /\ Len(v) = Len(w) + 1 /\ v # <<>> /\ v[Len(w) + 1] = x
               /\ \A i \in 1..Len(w) : v[i] = w[i]
  <1> DEFINE T == S \cup {x}
  <1>1. w \in Seq(T) /\ x \in T /\ Len(w) \in Nat
    OBVIOUS
  <1> HIDE DEF T
  <1>2. /\ Append(w, x) \in Seq(T) /\ Len(Append(w, x)) = Len(w) + 1
        /\ \A i \in 1..Len(w) : Append(w, x)[i] = w[i]
        /\ Append(w, x)[Len(w) + 1] = x
    BY <1>1, AppendProperties
  <1>3. Len(Append(w, x)) # 0
    BY <1>1, <1>2
  <1> QED
    BY <1>2, <1>3, EmptySeq

LEMMA TailIs ==
    ASSUME NEW S, NEW w \in Seq(S), w # <<>>
    PROVE  LET v == Tail(w)
           IN  /\ v \in Seq(S) /\ Len(v) = Len(w) - 1 /\ DOMAIN v = 1..(Len(w) - 1)
               /\ \A i \in 1..(Len(w) - 1) : v[i] = w[i + 1]
  OBVIOUS

LEMMA FrameIs == \A n : FrameNo(n).kind = "frame" /\ FrameNo(n).n = n
  BY DEF FrameNo

LEMMA WaitsIs ==
    ASSUME NEW w
    PROVE  /\ Waits(w) \in {0, 1}
           /\ w = <<>> => Waits(w) = 0
           /\ w # <<>> => (Waits(w) = 0 <=> w[1].kind = "frame")
  BY DEF Waits

\* Where no frame was sent there is a message at most.
LEMMA NothingSent ==
    ASSUME NEW S, NEW q \in Seq(Nat), NEW b \in Seq(Frames), NEW w \in Seq(S), Streamed(q, b, w, 0)
    PROVE  q = <<>> /\ b = <<>>
  <1>1. PICK g, h, l \in Nat : g = Len(q) /\ h = Len(b) /\ l = Len(w)
    OBVIOUS
  <1>2. PICK m \in {0, 1} : m = Waits(w)
    BY WaitsIs
  <1>3. g + h + l = 0 + m /\ (m = 1 => g = 0 /\ h = 0)
    BY <1>1, <1>2 DEF Streamed
  <1>4. g = 0 /\ h = 0
    BY <1>3
  <1> QED
    BY <1>1, <1>4, EmptySeq

LEMMA MessageAlone ==
    ASSUME NEW x, x.kind # "frame"
    PROVE  Streamed(<<>>, <<>>, <<x>>, 0) /\ Streamed(<<>>, <<>>, <<>>, 0)
  <1>1. Waits(<<x>>) = 1 /\ Waits(<<>>) = 0
    BY DEF Waits
  <1>2. Len(<<x>>) = 1 /\ Len(<<>>) = 0
    OBVIOUS
  <1> QED
    BY <1>1, <1>2 DEF Streamed

LEMMA MessageAndFrames ==
    ASSUME NEW x, x.kind # "frame", NEW n \in Nat
    PROVE  Streamed(<<>>, <<>>, <<x>> \o FirstFrames(n), n)
  <1> DEFINE S == {x} \cup Frames
             w == <<x>> \o FirstFrames(n)
  <1>1. FirstFrames(n) \in [1..n -> Frames] /\ \A i \in 1..n : FirstFrames(n)[i] = FrameNo(i)
    BY DEF FirstFrames, Frames
  <1>2. FirstFrames(n) \in Seq(Frames)
    BY <1>1, SeqDef
  <1>3. Len(FirstFrames(n)) = n
    BY DEF FirstFrames
  <1>4. <<x>> \in Seq(S) /\ FirstFrames(n) \in Seq(S)
    BY <1>2
  <1>5. /\ Len(w) = n + 1 /\ w[1] = x /\ w # <<>>
        /\ \A i \in 1..n : w[1 + i] = FrameNo(i)
    BY <1>1, <1>3, <1>4
  <1> HIDE DEF w
  <1>6. Waits(w) = 1
    BY <1>5, WaitsIs
  <1>7. Len(<<>>) = 0
    OBVIOUS
  <1>8. Streamed(<<>>, <<>>, w, n)
    BY <1>5, <1>6, <1>7 DEF Streamed
  <1> QED
    BY <1>8 DEF w

\* http.ReadRequest or http.ReadResponse takes the message and reads on as far as k.
LEMMA ReadsOn ==
    ASSUME NEW S, NEW q \in Seq(Nat), NEW b \in Seq(Frames), NEW w \in Seq(S), NEW n \in Nat,
           Streamed(q, b, w, n), w # <<>>, w[1].kind # "frame", NEW k \in 1..Len(w)
    PROVE  /\ Beyond(w, k) \in Seq(Frames)
           /\ Streamed(q, Beyond(w, k), SubSeq(w, k + 1, Len(w)), n)
           /\ SubSeq(w, k + 1, Len(w)) # <<>> => SubSeq(w, k + 1, Len(w))[1].kind = "frame"
  <1>1. PICK l \in Nat : l = Len(w) /\ k \in 1..l
    OBVIOUS
  <1>2. Len(q) = 0 /\ Len(b) = 0 /\ l = n + 1 /\ \A i \in 1..n : w[1 + i] = FrameNo(i)
    <2>1. Waits(w) = 1
      BY WaitsIs
    <2>2. Len(q) = 0 /\ Len(b) = 0
      BY <2>1 DEF Streamed
    <2>3. 0 + 0 + l = n + 1 /\ \A i \in 1..(l - 1) : w[1 + i] = FrameNo(0 + 0 + i)
      BY <1>1, <2>1, <2>2 DEF Streamed
    <2>4. \A i \in 1..n : w[1 + i] = FrameNo(i)
      <3>1. l - 1 = n /\ \A i \in 1..n : 0 + 0 + i = i
        BY <2>3
      <3> QED
        BY <2>3, <3>1
    <2> QED
      BY <2>2, <2>3, <2>4
  <1> DEFINE c == SubSeq(w, 2, k)
             v == SubSeq(w, k + 1, l)
  <1>3. /\ c \in Seq(S) /\ Len(c) = k - 1 /\ \A i \in 1..(k - 1) : c[i] = w[1 + i]
        /\ v \in Seq(S) /\ Len(v) = l - k /\ \A i \in 1..(l - k) : v[i] = w[k + i]
    BY <1>1
  <1> HIDE DEF c, v
  <1>4. /\ \A i \in 1..(k - 1) : i \in 1..n /\ c[i] = FrameNo(i)
        /\ \A i \in 1..(l - k) : v[i] = FrameNo((k - 1) + i)
    <2>1. \A i \in 1..(k - 1) : i \in 1..n
      BY <1>1, <1>2
    <2>2. \A i \in 1..(l - k) : (k - 1) + i \in 1..n /\ 1 + ((k - 1) + i) = k + i
      BY <1>1, <1>2
    <2> QED
      BY <1>2, <1>3, <2>1, <2>2
  <1>5. c \in Seq(Frames)
    <2>1. \A i \in 1..Len(c) : c[i] \in Frames
      BY <1>1, <1>3, <1>4 DEF Frames
    <2> QED
      BY <1>3, <2>1
  <1>6. v # <<>> => v[1].kind = "frame"
    <2>1. ASSUME v # <<>> PROVE 1 \in 1..(l - k)
      BY <1>1, <1>3, <2>1, EmptySeq
    <2> QED
      BY <1>4, <2>1, FrameIs
  <1>7. Waits(v) = 0
    BY <1>6, WaitsIs
  <1>8. Streamed(q, c, v, n)
    <2>1. Len(q) + Len(c) + Len(v) = n + Waits(v)
      BY <1>1, <1>2, <1>3, <1>7
    <2>2. \A i \in 1..Len(c) : c[i] = FrameNo(Len(q) + i)
      BY <1>1, <1>2, <1>3, <1>4
    <2>3. \A i \in 1..(Len(v) - Waits(v)) : v[Waits(v) + i] = FrameNo(Len(q) + Len(c) + i)
      <3>1. Len(q) + Len(c) = k - 1
        BY <1>1, <1>2, <1>3
      <3>2. \A i \in 1..(l - k) : 0 + i = i
        BY <1>1
      <3>3. (l - k) - 0 = l - k
        BY <1>1
      <3> QED
        BY <1>3, <1>4, <1>7, <3>1, <3>2, <3>3
    <2> QED
      BY <1>2, <1>7, <2>1, <2>2, <2>3 DEF Streamed
  <1> QED
    BY <1>1, <1>5, <1>6, <1>8 DEF c, v, Beyond

LEMMA SendsOn ==
    ASSUME NEW S, NEW q \in Seq(Nat), NEW b \in Seq(Frames), NEW w \in Seq(S), NEW n \in Nat,
           Streamed(q, b, w, n)
    PROVE  Streamed(q, b, Append(w, FrameNo(n + 1)), n + 1)
  <1>1. PICK g, h, l \in Nat : g = Len(q) /\ h = Len(b) /\ l = Len(w)
    OBVIOUS
  <1>2. PICK m \in {0, 1} : m = Waits(w)
    BY WaitsIs
  <1>3. /\ g + h + l = n + m /\ (m = 1 => g = 0 /\ h = 0)
        /\ \A i \in 1..(l - m) : w[m + i] = FrameNo(g + h + i)
        /\ m = 1 => l # 0
    BY <1>1, <1>2, WaitsIs DEF Streamed
  <1> DEFINE v == Append(w, FrameNo(n + 1))
  <1>4. /\ Len(v) = l + 1 /\ v # <<>> /\ v[l + 1] = FrameNo(n + 1)
        /\ \A i \in 1..l : v[i] = w[i]
    BY <1>1, AppendIs
  <1> HIDE DEF v
  <1>5. Waits(v) = m
    <2>1. CASE l = 0
      BY <1>2, <1>3, <1>4, <2>1, FrameIs, WaitsIs
    <2>2. CASE l # 0
      <3>1. w # <<>> /\ v[1] = w[1]
        BY <1>1, <1>4, <2>2, EmptySeq
      <3> QED
        BY <1>2, <1>4, <3>1 DEF Waits
    <2> QED
      BY <2>1, <2>2
  <1>6. ASSUME NEW i \in 1..((l + 1) - m) PROVE v[m + i] = FrameNo(g + h + i)
    <2>1. CASE i \in 1..(l - m)
      <3>1. m + i \in 1..l
        BY <2>1
      <3> QED
        BY <1>3, <1>4, <2>1, <3>1
    <2>2. CASE i = (l + 1) - m
      <3>1. m + i = l + 1 /\ g + h + i = n + 1
        BY <1>3, <2>2
      <3> QED
        BY <1>4, <3>1
    <2> QED
      BY <2>1, <2>2
  <1>7. /\ \A i \in 1..g : q[i] = i
        /\ \A i \in 1..h : b[i] = FrameNo(g + i)
    BY <1>1 DEF Streamed
  <1>8. g + h + (l + 1) = (n + 1) + m
    BY <1>3
  <1>9. Streamed(q, b, v, n + 1)
    BY <1>1, <1>3, <1>4, <1>5, <1>6, <1>7, <1>8 DEF Streamed
  <1> QED
    BY <1>9 DEF v

\* GetNextFrame takes the next frame from what its reader holds, or from the wire.
LEMMA TakesHeld ==
    ASSUME NEW S, NEW q \in Seq(Nat), NEW b \in Seq(Frames), NEW w \in Seq(S), NEW n \in Nat,
           Streamed(q, b, w, n), b # <<>>
    PROVE  /\ Append(q, b[1].n) \in Seq(Nat) /\ Tail(b) \in Seq(Frames)
           /\ Streamed(Append(q, b[1].n), Tail(b), w, n)
  <1>1. PICK g, h, l \in Nat : g = Len(q) /\ h = Len(b) /\ l = Len(w) /\ h # 0
    BY EmptySeq
  <1>2. PICK m \in {0, 1} : m = Waits(w)
    BY WaitsIs
  <1>3. /\ g + h + l = n + m /\ m = 0
        /\ \A i \in 1..g : q[i] = i
        /\ \A i \in 1..h : b[i] = FrameNo(g + i)
        /\ \A i \in 1..(l - m) : w[m + i] = FrameNo(g + h + i)
    BY <1>1, <1>2 DEF Streamed
  <1>4. b[1].n = g + 1
    BY <1>1, <1>3, FrameIs
  <1> DEFINE p == Append(q, g + 1)
             d == Tail(b)
  <1>5. /\ p \in Seq(Nat) /\ Len(p) = g + 1 /\ p[g + 1] = g + 1 /\ \A i \in 1..g : p[i] = q[i]
        /\ d \in Seq(Frames) /\ Len(d) = h - 1 /\ \A i \in 1..(h - 1) : d[i] = b[i + 1]
    BY <1>1
  <1> HIDE DEF p, d
  <1>6. \A i \in 1..(g + 1) : p[i] = i
    <2>1. \A i \in 1..(g + 1) : i \in 1..g \/ i = g + 1
      BY <1>1
    <2>2. \A i \in 1..g : p[i] = i
      BY <1>3, <1>5
    <2> QED
      BY <1>5, <2>1, <2>2
  <1>7. \A i \in 1..(h - 1) : d[i] = FrameNo((g + 1) + i)
    <2>1. \A i \in 1..(h - 1) : i + 1 \in 1..h /\ g + (i + 1) = (g + 1) + i
      BY <1>1
    <2> QED
      BY <1>3, <1>5, <2>1
  <1>8. \A i \in 1..(l - m) : w[m + i] = FrameNo((g + 1) + (h - 1) + i)
    <2>1. (g + 1) + (h - 1) = g + h
      OBVIOUS
    <2> QED
      BY <1>3, <2>1
  <1>9. (g + 1) + (h - 1) + l = n + m
    BY <1>3
  <1>10. Streamed(p, d, w, n)
    BY <1>1, <1>2, <1>3, <1>5, <1>6, <1>7, <1>8, <1>9 DEF Streamed
  <1> QED
    BY <1>4, <1>5, <1>10 DEF p, d

LEMMA TakesFromWire ==
    ASSUME NEW S, NEW q \in Seq(Nat), NEW w \in Seq(S), NEW n \in Nat,
           Streamed(q, <<>>, w, n), w # <<>>, w[1].kind = "frame"
    PROVE  /\ Append(q, w[1].n) \in Seq(Nat)
           /\ Streamed(Append(q, w[1].n), <<>>, Tail(w), n)
           /\ Tail(w) # <<>> => Tail(w)[1].kind = "frame"
  <1>1. PICK g, l \in Nat : g = Len(q) /\ l = Len(w) /\ l # 0
    BY EmptySeq
  <1>2. Waits(w) = 0 /\ Len(<<>>) = 0
    BY WaitsIs
  <1>3. /\ g + l = n
        /\ \A i \in 1..g : q[i] = i
        /\ \A i \in 1..l : w[i] = FrameNo(g + i)
    <2>1. /\ g + 0 + l = n + 0
          /\ \A i \in 1..g : q[i] = i
          /\ \A i \in 1..(l - 0) : w[0 + i] = FrameNo(g + 0 + i)
      BY <1>1, <1>2 DEF Streamed
    <2>2. l - 0 = l /\ \A i \in 1..l : 0 + i = i /\ g + 0 + i = g + i
      OBVIOUS
    <2> QED
      BY <2>1, <2>2
  <1>4. w[1].n = g + 1
    BY <1>1, <1>3, FrameIs
  <1> DEFINE p == Append(q, g + 1)
             v == Tail(w)
  <1>5. /\ p \in Seq(Nat) /\ Len(p) = g + 1 /\ p[g + 1] = g + 1 /\ \A i \in 1..g : p[i] = q[i]
        /\ v \in Seq(S) /\ Len(v) = l - 1 /\ \A i \in 1..(l - 1) : v[i] = w[i + 1]
    BY <1>1
  <1> HIDE DEF p, v
  <1>6. \A i \in 1..(g + 1) : p[i] = i
    <2>1. \A i \in 1..(g + 1) : i \in 1..g \/ i = g + 1
      BY <1>1
    <2>2. \A i \in 1..g : p[i] = i
      BY <1>3, <1>5
    <2> QED
      BY <1>5, <2>1, <2>2
  <1>7. \A i \in 1..(l - 1) : v[i] = FrameNo((g + 1) + i)
    <2>1. \A i \in 1..(l - 1) : i + 1 \in 1..l /\ g + (i + 1) = (g + 1) + i
      BY <1>1
    <2> QED
      BY <1>3, <1>5, <2>1
  <1>8. v # <<>> => v[1].kind = "frame"
    <2>1. ASSUME v # <<>> PROVE 1 \in 1..(l - 1)
      BY <1>1, <1>5, <2>1, EmptySeq
    <2> QED
      BY <1>7, <2>1, FrameIs
  <1>9. Waits(v) = 0
    BY <1>8, WaitsIs
  <1>10. /\ (g + 1) + 0 + (l - 1) = n + 0 /\ (l - 1) - 0 = l - 1
         /\ \A i \in 1..(l - 1) : 0 + i = i /\ (g + 1) + 0 + i = (g + 1) + i
    BY <1>3
  <1>11. Streamed(p, <<>>, v, n)
    BY <1>2, <1>5, <1>6, <1>7, <1>9, <1>10 DEF Streamed
  <1> QED
    BY <1>4, <1>5, <1>8, <1>11 DEF p, v

\* NoFrameStranded, of one side.
LEMMA StreamedIsAll ==
    ASSUME NEW S, NEW q \in Seq(Nat), NEW b \in Seq(Frames), NEW w \in Seq(S), NEW n \in Nat,
           Streamed(q, b, w, n)
    PROVE  q \o FramesIn(b \o w) = [i \in 1..n |-> i]
  <1>1. PICK g, h, l \in Nat : g = Len(q) /\ h = Len(b) /\ l = Len(w)
    OBVIOUS
  <1>2. PICK m \in {0, 1} : m = Waits(w)
    BY WaitsIs
  <1>3. /\ g + h + l = n + m /\ (m = 1 => g = 0 /\ h = 0)
        /\ \A i \in 1..g : q[i] = i
        /\ \A i \in 1..h : b[i] = FrameNo(g + i)
        /\ \A i \in 1..(l - m) : w[m + i] = FrameNo(g + h + i)
        /\ m = 1 => l # 0
    BY <1>1, <1>2, WaitsIs DEF Streamed
  <1> DEFINE T == S \cup Frames
             items == b \o w
  <1>4. /\ items \in Seq(T) /\ Len(items) = h + l
        /\ \A i \in 1..h : items[i] = b[i]
        /\ \A i \in 1..l : items[h + i] = w[i]
    <2>1. b \in Seq(T) /\ w \in Seq(T)
      OBVIOUS
    <2> QED
      BY <1>1, <2>1
  <1> HIDE DEF items, T
  <1>5. items # <<>> => (items[1].kind = "frame" <=> m = 0)
    <2> SUFFICES ASSUME items # <<>> PROVE items[1].kind = "frame" <=> m = 0
      OBVIOUS
    <2>1. h + l # 0
      BY <1>1, <1>4, EmptySeq
    <2>2. CASE h # 0
      <3>1. 1 \in 1..h /\ m = 0
        BY <1>1, <1>3, <2>2
      <3> QED
        BY <1>3, <1>4, <3>1, FrameIs
    <2>3. CASE h = 0
      <3>1. 1 \in 1..l /\ h + 1 = 1 /\ w # <<>>
        BY <1>1, <2>1, <2>3
      <3>2. items[1] = w[1]
        BY <1>4, <3>1
      <3> QED
        BY <1>2, <3>1, <3>2, WaitsIs
    <2> QED
      BY <2>2, <2>3
  <1> DEFINE f == IF items # <<>> /\ items[1].kind # "frame" THEN Tail(items) ELSE items
             k == (h + l) - m
  <1>6. k \in Nat /\ g + k = n
    BY <1>3
  <1>7. DOMAIN f = 1..k /\ \A i \in 1..k : f[i] = FrameNo(g + i)
    <2>1. CASE m = 1
      <3>1. items # <<>>
        BY <1>3, <1>4, <2>1, EmptySeq
      <3>2. f = Tail(items)
        BY <1>5, <2>1, <3>1
      <3>3. Len(f) = (h + l) - 1 /\ DOMAIN f = 1..((h + l) - 1)
            /\ \A i \in 1..((h + l) - 1) : f[i] = items[i + 1]
        BY <1>4, <3>1, <3>2, TailIs
      <3>4. ASSUME NEW i \in 1..(l - 1) PROVE f[i] = FrameNo(g + i)
        <4>1. i + 1 \in 1..l /\ h = 0 /\ g = 0 /\ h + (i + 1) = i + 1 /\ i \in 1..((h + l) - 1)
          BY <1>3, <2>1
        <4>2. f[i] = w[i + 1]
          BY <1>4, <3>3, <4>1
        <4>3. w[1 + i] = FrameNo(g + h + i)
          BY <1>3, <2>1
        <4>4. 1 + i = i + 1 /\ g + h + i = g + i
          BY <4>1
        <4> QED
          BY <4>2, <4>3, <4>4
      <3> QED
        BY <1>3, <2>1, <3>3, <3>4
    <2>2. CASE m = 0
      <3>1. f = items
        BY <1>5, <2>2
      <3>2. DOMAIN f = 1..(h + l)
        BY <1>1, <1>4, <3>1
      <3>3. ASSUME NEW i \in 1..(h + l) PROVE f[i] = FrameNo(g + i)
        <4>1. CASE i \in 1..h
          BY <1>3, <1>4, <3>1, <4>1
        <4>2. CASE i \notin 1..h
          <5>1. i - h \in 1..l /\ h + (i - h) = i /\ g + h + (i - h) = g + i /\ 0 + (i - h) = i - h
            BY <1>1, <4>2
          <5>2. w[0 + (i - h)] = FrameNo(g + h + (i - h))
            BY <1>3, <2>2, <5>1
          <5> QED
            BY <1>4, <3>1, <5>1, <5>2
        <4> QED
          BY <4>1, <4>2
      <3>4. k = h + l
        BY <1>1, <2>2
      <3> QED
        BY <3>2, <3>3, <3>4
    <2> QED
      BY <2>1, <2>2
  <1>8. FramesIn(items) = [i \in DOMAIN f |-> f[i].n]
    BY DEF FramesIn
  <1> HIDE DEF f, k
  <1> DEFINE r == FramesIn(items)
  <1>9. r \in [1..k -> Nat] /\ \A i \in 1..k : r[i] = g + i
    BY <1>6, <1>7, <1>8, FrameIs
  <1>10. r \in Seq(Nat) /\ Len(r) = k
    BY <1>6, <1>9, SeqDef
  <1> HIDE DEF r
  <1>11. /\ q \o r \in Seq(Nat) /\ Len(q \o r) = n
         /\ \A i \in 1..n : (q \o r)[i] = i
    <2>1. /\ q \o r \in Seq(Nat) /\ Len(q \o r) = g + k
          /\ \A i \in 1..g : (q \o r)[i] = q[i]
          /\ \A i \in 1..k : (q \o r)[g + i] = r[i]
      BY <1>1, <1>10
    <2>2. ASSUME NEW i \in 1..n PROVE (q \o r)[i] = i
      <3>1. CASE i \in 1..g
        BY <1>3, <2>1, <3>1
      <3>2. CASE i \notin 1..g
        <4>1. i - g \in 1..k /\ g + (i - g) = i
          BY <1>6, <3>2
        <4> QED
          BY <1>9, <2>1, <4>1
      <3> QED
        BY <3>1, <3>2
    <2> QED
      BY <1>6, <2>1, <2>2
  <1>12. q \o r = [i \in 1..n |-> i]
    <2> DEFINE z == q \o r
    <2> HIDE DEF z
    <2>1. z \in Seq(Nat) /\ Len(z) = n /\ \A i \in 1..n : z[i] = i
      BY <1>11 DEF z
    <2>2. z \in [1..n -> Nat]
      BY <2>1, LenProperties
    <2>3. z = [i \in 1..n |-> i]
      BY <2>1, <2>2
    <2> QED
      BY <2>3 DEF z
  <1> QED
    BY <1>12 DEF r, items

-----------------------------------------------------------------------------
(* Each step on the streams of its connection.                               *)

LEMMA EndsOf ==
    /\ \A c \in Connection : <<c, "client">> \in End /\ <<c, "server">> \in End
    /\ \A c, d, s, t : <<c, s>> = <<d, t>> <=> c = d /\ s = t
    /\ "client" # "server"
  BY DEF End, Side

LEMMA StreamsAre ==
    ASSUME NEW c
    PROVE  /\ StreamAt(c, "client") <=>
                  Streamed(got[<<c, "client">>], buf[<<c, "client">>], toClient[c], sent[<<c, "server">>])
           /\ StreamAt(c, "server") <=>
                  Streamed(got[<<c, "server">>], buf[<<c, "server">>], toServer[c], sent[<<c, "client">>])
  BY DEF StreamAt, Wire, Other

LEMMA StreamsKnown ==
    ASSUME HandshakeInv, FitInv, StreamInv, NEW k \in Connection
    PROVE  /\ Domains /\ Untouched(k) /\ AskedAt(k)
           /\ toServer[k] \in Seq(FromClient(k)) /\ toClient[k] \in Seq(FromServers)
           /\ \A s \in Side : /\ got[<<k, s>>] \in Seq(Nat) /\ buf[<<k, s>>] \in Seq(Frames)
                              /\ sent[<<k, s>>] \in Nat
           /\ sent[<<k, "server">>] > 0 => server[k] = "conn"
           /\ Streamed(got[<<k, "client">>], buf[<<k, "client">>], toClient[k], sent[<<k, "server">>])
           /\ Streamed(got[<<k, "server">>], buf[<<k, "server">>], toServer[k], sent[<<k, "client">>])
  <1>1. Domains /\ Untouched(k)
    BY DomainsKnown DEF FitInv, FitAt
  <1>2. AskedAt(k) /\ StreamAt(k, "client") /\ StreamAt(k, "server")
    BY DEF StreamInv, StreamsAt
  <1>3. toServer[k] \in Seq(FromClient(k)) /\ toClient[k] \in Seq(FromServers)
    BY DEF HandshakeInv, RequestsAreTheirs, ResponsesAreAnswers
  <1>4. \A s \in Side : <<k, s>> \in End
    BY DEF End
  <1>5. sent \in [End -> Nat] /\ got \in [End -> Seq(Nat)] /\ buf \in [End -> Seq(Frames)]
    BY DEF HandshakeInv, Shape, StreamInv, StreamTypes
  <1>6. sent[<<k, "server">>] > 0 => server[k] = "conn"
    BY DEF HandshakeInv, AnswersAreDecided
  <1> QED
    BY <1>1, <1>2, <1>3, <1>4, <1>5, <1>6, StreamsAre

\* A side the other has sent nothing to has read nothing and holds nothing.
LEMMA Unsent ==
    ASSUME HandshakeInv, FitInv, StreamInv, NEW k \in Connection
    PROVE  /\ sent[<<k, "client">>] = 0 => got[<<k, "server">>] = <<>> /\ buf[<<k, "server">>] = <<>>
           /\ sent[<<k, "server">>] = 0 => got[<<k, "client">>] = <<>> /\ buf[<<k, "client">>] = <<>>
  <1>1. "client" \in Side /\ "server" \in Side
    BY DEF Side
  <1>2. /\ toServer[k] \in Seq(FromClient(k)) /\ toClient[k] \in Seq(FromServers)
        /\ \A s \in Side : got[<<k, s>>] \in Seq(Nat) /\ buf[<<k, s>>] \in Seq(Frames)
        /\ Streamed(got[<<k, "client">>], buf[<<k, "client">>], toClient[k], sent[<<k, "server">>])
        /\ Streamed(got[<<k, "server">>], buf[<<k, "server">>], toServer[k], sent[<<k, "client">>])
    BY StreamsKnown
  <1>3. ASSUME sent[<<k, "client">>] = 0 PROVE got[<<k, "server">>] = <<>> /\ buf[<<k, "server">>] = <<>>
    <2>1. Streamed(got[<<k, "server">>], buf[<<k, "server">>], toServer[k], 0)
      BY <1>2, <1>3
    <2> QED
      BY <1>1, <1>2, <2>1, NothingSent
  <1>4. ASSUME sent[<<k, "server">>] = 0 PROVE got[<<k, "client">>] = <<>> /\ buf[<<k, "client">>] = <<>>
    <2>1. Streamed(got[<<k, "client">>], buf[<<k, "client">>], toClient[k], 0)
      BY <1>2, <1>4
    <2> QED
      BY <1>1, <1>2, <2>1, NothingSent
  <1> QED
    BY <1>3, <1>4

\* The streams are what they were.
SameStreams(c) ==
    /\ \A s \in Side : got'[<<c, s>>] = got[<<c, s>>] /\ buf'[<<c, s>>] = buf[<<c, s>>]
                       /\ sent'[<<c, s>>] = sent[<<c, s>>]
    /\ toServer'[c] = toServer[c] /\ toClient'[c] = toClient[c]

LEMMA SameStreamsStand ==
    ASSUME NEW c, StreamsAt(c), SameStreams(c), AskedAt(c)'
    PROVE  StreamsAt(c)'
  <1>1. "client" \in Side /\ "server" \in Side
    BY DEF Side
  <1>2. StreamAt(c, "client")' /\ StreamAt(c, "server")'
    BY <1>1 DEF StreamsAt, SameStreams, StreamAt, Wire, Other
  <1> QED
    BY <1>2 DEF StreamsAt

LEMMA NewConnKeepsBuf == ASSUME NEW k, NEW s, StreamTypes, NewConn(k, s) PROVE buf' = buf
  <1>1. buf' = [buf EXCEPT ![<<k, s>>] = buf[<<k, s>>]]
    BY DEF NewConn, Reader
  <1> QED
    BY <1>1 DEF StreamTypes

LEMMA StreamsElsewhere ==
    ASSUME HandshakeInv, FitInv, StreamInv, NEW k \in Connection, Acts(k)
    PROVE  \A c \in Connection : c # k => StreamsAt(c)'
  <1> SUFFICES ASSUME NEW c \in Connection, c # k PROVE StreamsAt(c)'
    OBVIOUS
  <1>1. /\ client'[c] = client[c] /\ server'[c] = server[c]
        /\ toServer'[c] = toServer[c] /\ toClient'[c] = toClient[c]
    BY ActsOnlyAt, ChangedElsewhere, DomainsKnown DEF OnlyAt, Domains
  <1>2. /\ \E s : ChangedAt(got, got', <<k, s>>)
        /\ \E s : ChangedAt(sent, sent', <<k, s>>)
        /\ \E s : ChangedAt(buf, buf', <<k, s>>)
    <2> USE DEF ChangedAt
    <2>0. StreamTypes
      BY DEF StreamInv
    <2>1. CASE RefuseNil(k) \/ SendHandShakeRequest(k) \/ CacheAnswers(k)
      BY <2>1 DEF RefuseNil, SendHandShakeRequest, CacheAnswers
    <2>2. CASE SendForeignRequest(k)
      BY <2>2 DEF SendForeignRequest
    <2>3. CASE ReadHandShakeResponse(k) \/ ReadResponseFails(k)
      BY <2>3 DEF ReadHandShakeResponse, ReadResponseFails
    <2>4. CASE ClientHandShake(k)
      BY <2>0, <2>4, NewConnKeepsBuf DEF ClientHandShake
    <2>5. CASE \E s \in Side : Close(k, s)
      BY <2>5 DEF Close
    <2>6. CASE ReadRequest(k) \/ ReadRequestFails(k)
      BY <2>6 DEF ReadRequest, ReadRequestFails
    <2>7. CASE ServerHandShake(k)
      BY <2>7 DEF ServerHandShake
    <2>8. CASE ServerNewConn(k)
      BY <2>0, <2>8, NewConnKeepsBuf DEF ServerNewConn
    <2>9. CASE \E s \in Side : SendFrame(k, s)
      BY <2>9 DEF SendFrame
    <2>10. CASE \E s \in Side : GetNextFrame(k, s)
      BY <2>10 DEF GetNextFrame
    <2> QED
      BY <2>1, <2>2, <2>3, <2>4, <2>5, <2>6, <2>7, <2>8, <2>9, <2>10
         DEF Acts, ClientStep, ServerStep, Side
  <1>3. SameStreams(c)
    <2>1. DOMAIN got = End /\ DOMAIN buf = End /\ DOMAIN sent = End
      BY DEF StreamInv, StreamTypes, HandshakeInv, Shape
    <2>2. ASSUME NEW s \in Side
          PROVE  /\ got'[<<c, s>>] = got[<<c, s>>] /\ buf'[<<c, s>>] = buf[<<c, s>>]
                 /\ sent'[<<c, s>>] = sent[<<c, s>>]
      <3>1. <<c, s>> \in End /\ \A t : <<c, s>> # <<k, t>>
        BY DEF End
      <3> QED
        BY <1>2, <2>1, <3>1, ChangedElsewhere
    <2> QED
      BY <1>1, <2>2 DEF SameStreams
  <1>4. AskedAt(c)'
    <2>1. AskedAt(c) /\ sent'[<<c, "client">>] = sent[<<c, "client">>]
      BY <1>3 DEF StreamInv, StreamsAt, SameStreams, Side
    <2> QED
      BY <1>1, <2>1 DEF AskedAt
  <1> QED
    BY <1>3, <1>4, SameStreamsStand DEF StreamInv

\* Steps that only change where a side is: a client that gives up has sent nothing.
LEMMA NothingStreams ==
    ASSUME HandshakeInv, FitInv, StreamInv, NEW k \in Connection,
           \/ RefuseNil(k) \/ ReadResponseFails(k) \/ ClientHandShake(k)
           \/ ReadRequestFails(k) \/ ServerNewConn(k) \/ \E s \in Side : Close(k, s)
    PROVE  StreamTypes' /\ StreamsAt(k)'
  <1>1. Domains /\ Untouched(k) /\ AskedAt(k)
    BY StreamsKnown
  <1>2. StreamTypes /\ StreamsAt(k)
    BY DEF StreamInv
  <1>3. /\ got' = got /\ buf' = buf /\ sent' = sent /\ toServer' = toServer /\ toClient' = toClient
    BY <1>2, NewConnKeepsBuf DEF RefuseNil, ReadResponseFails, ClientHandShake, ReadRequestFails,
       ServerNewConn, Close, wires
  <1>4. AskedAt(k)'
    <2>1. CASE RefuseNil(k) \/ ReadResponseFails(k)
      <3>1. client[k] \in {"idle", "sent"} /\ server' = server
        BY <2>1 DEF RefuseNil, ReadResponseFails
      <3> QED
        BY <1>1, <1>3, <3>1 DEF AskedAt
    <2>2. CASE ClientHandShake(k)
      <3>1. client[k] = "read" /\ server' = server
        BY <1>1, <2>2, NewConnIs DEF ClientHandShake, Side
      <3> QED
        BY <1>1, <1>3, <3>1 DEF AskedAt
    <2>3. CASE ReadRequestFails(k)
      <3>1. client' = client /\ server'[k] = "failed"
        BY <1>1, <2>3 DEF ReadRequestFails, Server, Domains
      <3>2. ~(toServer[k] # <<>> /\ toServer[k][1].kind = "request")
        BY <2>3 DEF ReadRequestFails
      <3> QED
        BY <1>1, <1>3, <3>1, <3>2 DEF AskedAt
    <2>4. CASE ServerNewConn(k)
      <3>1. client' = client /\ server[k] = "upgraded" /\ server'[k] \in {"conn", "failed"}
        BY <1>1, <2>4, NewConnIs DEF ServerNewConn, Side
      <3> QED
        BY <1>1, <1>3, <3>1 DEF AskedAt
    <2>5. CASE \E s \in Side : Close(k, s)
      <3>1. client' = client /\ server' = server
        BY <2>5 DEF Close, sides
      <3> QED
        BY <1>1, <1>3, <3>1 DEF AskedAt
    <2> QED
      BY <2>1, <2>2, <2>3, <2>4, <2>5
  <1>5. SameStreams(k)
    BY <1>3 DEF SameStreams
  <1> QED
    BY <1>2, <1>3, <1>4, <1>5, SameStreamsStand DEF StreamTypes

\* The request goes first, with the frame behind it that other clients may send.
LEMMA RequestStreams ==
    ASSUME HandshakeInv, FitInv, StreamInv, NEW k \in Connection,
           SendHandShakeRequest(k) \/ SendForeignRequest(k)
    PROVE  StreamTypes' /\ StreamsAt(k)'
  <1>1. Domains /\ Untouched(k) /\ AskedAt(k)
    BY StreamsKnown
  <1>2. /\ client[k] = "idle" /\ server' = server /\ toClient' = toClient /\ got' = got /\ buf' = buf
    BY DEF SendHandShakeRequest, SendForeignRequest
  <1>3. server[k] = "waiting" /\ toServer[k] = <<>> /\ toClient[k] = <<>>
    BY <1>1, <1>2 DEF Untouched
  <1>4. /\ sent \in [End -> Nat] /\ sent[<<k, "client">>] = 0
    <2>1. sent \in [End -> Nat] /\ <<k, "client">> \in End
      BY EndsOf DEF HandshakeInv, Shape
    <2> QED
      BY <1>1, <1>2, <2>1 DEF AskedAt
  <1>5. got[<<k, "server">>] = <<>> /\ buf[<<k, "server">>] = <<>>
    BY <1>4, Unsent
  <1>6. /\ sent'[<<k, "server">>] = sent[<<k, "server">>]
        /\ sent'[<<k, "client">>] > 0 => client'[k] \in {"conn", "foreign"}
        /\ Streamed(<<>>, <<>>, toServer'[k], sent'[<<k, "client">>])
    <2>1. CASE SendHandShakeRequest(k)
      <3>1. PICK key \in Key(k), via \in Via[k] :
                /\ req' = [req EXCEPT ![k] = UpgradeRequest(key)]
                /\ \/ toServer' = [toServer EXCEPT ![k] = <<Rewritten(req'[k], via)>>]
                   \/ toServer' = [toServer EXCEPT ![k] = <<Cut>>]
        BY <2>1 DEF SendHandShakeRequest
      <3>2. Rewritten(UpgradeRequest(key), via).kind # "frame" /\ Cut.kind # "frame"
        <4>1. DOMAIN UpgradeRequest(key) = RequestFields /\ UpgradeRequest(key).kind = "request"
          BY DEF UpgradeRequest, Request, RequestFields
        <4> QED
          BY <4>1, RewrittenRequest DEF Cut
      <3>3. PICK x : x.kind # "frame" /\ toServer'[k] = <<x>>
        BY <1>1, <3>1, <3>2 DEF Domains
      <3>4. sent' = sent
        BY <2>1 DEF SendHandShakeRequest
      <3> QED
        BY <1>4, <3>3, <3>4, MessageAlone
    <2>2. CASE SendForeignRequest(k)
      <3>1. PICK r \in Foreign[k], via \in Via[k], n \in 0..1 :
                /\ n <= MaxFrames[k]
                /\ req' = [req EXCEPT ![k] = r]
                /\ toServer' = [toServer EXCEPT ![k] = <<Rewritten(r, via)>> \o FirstFrames(n)]
                /\ sent' = [sent EXCEPT ![<<k, "client">>] = n]
                /\ fault' = [fault EXCEPT ![k] = ~Faithful(via)]
        BY <2>2, Zenon DEF SendForeignRequest
      <3>2. Rewritten(r, via).kind # "frame"
        <4>1. DOMAIN r = RequestFields /\ r.kind = "request"
          BY KeyAssumption DEF RequestFields
        <4> QED
          BY <4>1, RewrittenRequest
      <3>3. /\ sent'[<<k, "client">>] = n /\ sent'[<<k, "server">>] = sent[<<k, "server">>]
            /\ toServer'[k] = <<Rewritten(r, via)>> \o FirstFrames(n)
        BY <1>1, <1>4, <3>1, EndsOf DEF Domains
      <3>4. client'[k] = "foreign"
        BY <1>1, <2>2 DEF SendForeignRequest, Client, Domains
      <3> QED
        BY <3>2, <3>3, <3>4, MessageAndFrames
    <2> QED
      BY <2>1, <2>2
  <1>7. AskedAt(k)'
    BY <1>2, <1>3, <1>6 DEF AskedAt
  <1>8. StreamAt(k, "client")' /\ StreamAt(k, "server")'
    <2>1. StreamAt(k, "client")
      BY DEF StreamInv, StreamsAt
    <2>2. StreamAt(k, "client")'
      BY <1>2, <1>6, <2>1 DEF StreamAt, Wire, Other
    <2>3. StreamAt(k, "server")'
      BY <1>2, <1>5, <1>6 DEF StreamAt, Wire, Other
    <2> QED
      BY <2>2, <2>3
  <1> QED
    BY <1>2, <1>7, <1>8 DEF StreamInv, StreamTypes, StreamsAt

\* A response, or what was written of it, is the first thing on its way to the client.
LEMMA ResponseStreams ==
    ASSUME HandshakeInv, FitInv, StreamInv, NEW k \in Connection,
           ServerHandShake(k) \/ CacheAnswers(k)
    PROVE  StreamTypes' /\ StreamsAt(k)'
  <1>1. /\ Domains /\ AskedAt(k) /\ sent[<<k, "client">>] \in Nat /\ sent[<<k, "server">>] \in Nat
        /\ sent[<<k, "server">>] > 0 => server[k] = "conn"
    BY StreamsKnown DEF Side
  <1>2. got' = got /\ buf' = buf /\ sent' = sent /\ client' = client
    BY DEF ServerHandShake, CacheAnswers, sides
  <1>3. server[k] \in {"waiting", "handling"} /\ toClient[k] = <<>>
    BY <1>1 DEF ServerHandShake, CacheAnswers, AskedAt
  <1>4. sent[<<k, "server">>] = 0 /\ got[<<k, "client">>] = <<>> /\ buf[<<k, "client">>] = <<>>
    BY <1>1, <1>3, Unsent
  <1>5. PICK x : x.kind # "frame" /\ toClient'[k] = <<x>>
    <2>1. CASE ServerHandShake(k)
      <3>1. PICK x : /\ \/ x = Cut
                        \/ \E via : x = Rewritten(Decision(arrived[k]), via)
                     /\ toClient' = [toClient EXCEPT ![k] = Append(@, x)]
        BY <2>1 DEF ServerHandShake, Decision
      <3>2. DOMAIN Decision(arrived[k]) = ResponseFields /\ Decision(arrived[k]).kind = "response"
        BY UpgradeIs, DeclineIs DEF Decision
      <3>3. x.kind # "frame"
        BY <3>1, <3>2, RewrittenResponse DEF Cut
      <3>4. toClient'[k] = <<x>>
        BY <1>1, <1>3, <3>1 DEF Domains
      <3> QED
        BY <3>3, <3>4
    <2>2. CASE CacheAnswers(k)
      <3>1. PICK d \in Connection : answered[d] # None /\ toClient' = [toClient EXCEPT ![k] = <<answered[d]>>]
        BY <2>2 DEF CacheAnswers
      <3>2. answered[d].kind # "frame"
        <4> DEFINE a == answered[d]
        <4>1. \/ a = UpgradeForWebsocket(arrived[d].key)
              \/ \E e \in Errors : a = DeclineByError(e)
          BY <3>1, Zenon DEF HandshakeInv, AnswersAreDecided
        <4> QED
          BY <4>1, UpgradeIs, DeclineIs
      <3> QED
        BY <1>1, <3>1, <3>2 DEF Domains
    <2> QED
      BY <2>1, <2>2
  <1>6. Streamed(got'[<<k, "client">>], buf'[<<k, "client">>], toClient'[k], sent'[<<k, "server">>])
    BY <1>2, <1>4, <1>5, MessageAlone
  <1>7. AskedAt(k)' /\ StreamAt(k, "server")'
    <2>1. CASE ServerHandShake(k)
      <3>1. toServer' = toServer /\ server[k] = "handling" /\ server'[k] # "handling"
        BY <1>1, <2>1 DEF ServerHandShake, Server, AfterResponse, Domains
      <3>2. AskedAt(k)'
        BY <1>1, <1>2, <3>1 DEF AskedAt
      <3>3. StreamAt(k, "server")'
        BY <1>2, <3>1 DEF StreamInv, StreamsAt, StreamAt, Wire, Other
      <3> QED
        BY <3>2, <3>3
    <2>2. CASE CacheAnswers(k)
      <3>1. /\ client[k] = "sent" /\ toServer'[k] = <<>> /\ server' = server
            /\ server[k] = "waiting"
        BY <1>1, <2>2 DEF CacheAnswers, sides, Domains, AskedAt
      <3>2. sent[<<k, "client">>] = 0 /\ got[<<k, "server">>] = <<>> /\ buf[<<k, "server">>] = <<>>
        BY <1>1, <3>1, Unsent DEF AskedAt
      <3>3. AskedAt(k)'
        BY <1>1, <1>2, <3>1 DEF AskedAt
      <3>4. Streamed(<<>>, <<>>, <<>>, 0)
        <4>1. Cut.kind # "frame"
          BY DEF Cut
        <4> QED
          BY <4>1, MessageAlone
      <3>5. StreamAt(k, "server")'
        BY <1>2, <3>1, <3>2, <3>4 DEF StreamAt, Wire, Other
      <3> QED
        BY <3>3, <3>5
    <2> QED
      BY <2>1, <2>2
  <1>8. StreamAt(k, "client")'
    BY <1>6 DEF StreamAt, Wire, Other
  <1> QED
    BY <1>2, <1>7, <1>8 DEF StreamInv, StreamTypes, StreamsAt

\* The message is read, and as many of the frames behind it as came with it.
LEMMA ReadingStreams ==
    ASSUME HandshakeInv, FitInv, StreamInv, NEW k \in Connection,
           ReadRequest(k) \/ ReadHandShakeResponse(k)
    PROVE  StreamTypes' /\ StreamsAt(k)'
  <1>1. /\ Domains /\ AskedAt(k)
        /\ toServer[k] \in Seq(FromClient(k)) /\ toClient[k] \in Seq(FromServers)
        /\ \A s \in Side : /\ got[<<k, s>>] \in Seq(Nat) /\ buf[<<k, s>>] \in Seq(Frames)
                           /\ sent[<<k, s>>] \in Nat
        /\ Streamed(got[<<k, "client">>], buf[<<k, "client">>], toClient[k], sent[<<k, "server">>])
        /\ Streamed(got[<<k, "server">>], buf[<<k, "server">>], toServer[k], sent[<<k, "client">>])
    BY StreamsKnown
  <1>2. got' = got /\ sent' = sent /\ "client" \in Side /\ "server" \in Side
    BY DEF ReadRequest, ReadHandShakeResponse, Side
  <1>3. StreamTypes /\ <<k, "client">> \in End /\ <<k, "server">> \in End
    BY EndsOf DEF StreamInv
  <1>4. CASE ReadRequest(k)
    <2>1. PICK n \in 1..Len(toServer[k]) :
              /\ buf' = [buf EXCEPT ![<<k, "server">>] = Beyond(toServer[k], n)]
              /\ toServer' = [toServer EXCEPT ![k] = SubSeq(toServer[k], n + 1, Len(toServer[k]))]
      BY <1>4 DEF ReadRequest
    <2>2. /\ server[k] = "waiting" /\ client' = client /\ toClient' = toClient
          /\ toServer[k] # <<>> /\ toServer[k][1].kind = "request"
          /\ toServer[k][1].kind # "frame"
      BY <1>4 DEF ReadRequest
    <2>3. server'[k] = "handling" /\ toClient[k] = <<>>
      BY <1>1, <1>4 DEF ReadRequest, Server, Domains, AskedAt
    <2> DEFINE rest == SubSeq(toServer[k], n + 1, Len(toServer[k]))
    <2>4. /\ Beyond(toServer[k], n) \in Seq(Frames)
          /\ Streamed(got[<<k, "server">>], Beyond(toServer[k], n), rest, sent[<<k, "client">>])
          /\ rest # <<>> => rest[1].kind = "frame"
      <3> DEFINE S == FromClient(k)
                 w == toServer[k]
                 q == got[<<k, "server">>]
                 b == buf[<<k, "server">>]
                 m == sent[<<k, "client">>]
      <3>1. /\ q \in Seq(Nat) /\ b \in Seq(Frames) /\ w \in Seq(S) /\ m \in Nat /\ Streamed(q, b, w, m)
            /\ w # <<>> /\ w[1].kind # "frame" /\ n \in 1..Len(w)
        BY <1>1, <1>2, <2>1, <2>2
      <3> HIDE DEF S, w, q, b, m
      <3>2. /\ Beyond(w, n) \in Seq(Frames)
            /\ Streamed(q, Beyond(w, n), SubSeq(w, n + 1, Len(w)), m)
            /\ SubSeq(w, n + 1, Len(w)) # <<>> => SubSeq(w, n + 1, Len(w))[1].kind = "frame"
        BY <3>1, ReadsOn
      <3> QED
        BY <3>2 DEF w, q, b, m
    <2>5. toServer'[k] = rest
      BY <1>1, <2>1 DEF Domains
    <2> HIDE DEF rest
    <2>6. /\ buf' \in [End -> Seq(Frames)] /\ buf'[<<k, "server">>] = Beyond(toServer[k], n)
          /\ buf'[<<k, "client">>] = buf[<<k, "client">>]
      BY <1>3, <2>1, <2>4, EndsOf DEF StreamTypes
    <2>7. AskedAt(k)'
      BY <1>1, <1>2, <2>2, <2>3, <2>4, <2>5 DEF AskedAt
    <2>8. StreamAt(k, "server")'
      BY <1>2, <2>4, <2>5, <2>6 DEF StreamAt, Wire, Other
    <2>9. StreamAt(k, "client")'
      BY <1>1, <1>2, <2>2, <2>6 DEF StreamAt, Wire, Other
    <2> QED
      BY <1>2, <1>3, <2>6, <2>7, <2>8, <2>9 DEF StreamTypes, StreamsAt
  <1>5. CASE ReadHandShakeResponse(k)
    <2>1. PICK n \in 1..Len(toClient[k]) :
              /\ buf' = [buf EXCEPT ![<<k, "client">>] = Beyond(toClient[k], n)]
              /\ toClient' = [toClient EXCEPT ![k] = SubSeq(toClient[k], n + 1, Len(toClient[k]))]
      BY <1>5 DEF ReadHandShakeResponse
    <2>2. /\ client[k] = "sent" /\ server' = server /\ toServer' = toServer
          /\ toClient[k] # <<>> /\ toClient[k][1].kind # "frame"
      BY <1>5 DEF ReadHandShakeResponse
    <2> DEFINE rest == SubSeq(toClient[k], n + 1, Len(toClient[k]))
    <2>3. /\ Beyond(toClient[k], n) \in Seq(Frames)
          /\ Streamed(got[<<k, "client">>], Beyond(toClient[k], n), rest, sent[<<k, "server">>])
      BY <1>1, <1>2, <2>1, <2>2, ReadsOn
    <2>4. toClient'[k] = rest
      BY <1>1, <2>1 DEF Domains
    <2> HIDE DEF rest
    <2>5. /\ buf' \in [End -> Seq(Frames)] /\ buf'[<<k, "client">>] = Beyond(toClient[k], n)
          /\ buf'[<<k, "server">>] = buf[<<k, "server">>]
      BY <1>3, <2>1, <2>3, EndsOf DEF StreamTypes
    <2>6. AskedAt(k)'
      <3>1. sent[<<k, "client">>] = 0
        BY <1>1, <1>2, <2>2 DEF AskedAt
      <3> QED
        BY <1>1, <1>2, <2>2, <3>1 DEF AskedAt
    <2>7. StreamAt(k, "client")'
      BY <1>2, <2>3, <2>4, <2>5 DEF StreamAt, Wire, Other
    <2>8. StreamAt(k, "server")'
      BY <1>1, <1>2, <2>2, <2>5 DEF StreamAt, Wire, Other
    <2> QED
      BY <1>2, <1>3, <2>5, <2>6, <2>7, <2>8 DEF StreamTypes, StreamsAt
  <1> QED
    BY <1>4, <1>5

\* The next frame goes behind all others.
LEMMA SendingStreams ==
    ASSUME HandshakeInv, FitInv, StreamInv, NEW k \in Connection, NEW s \in Side, SendFrame(k, s)
    PROVE  StreamTypes' /\ StreamsAt(k)'
  <1>1. /\ Domains /\ AskedAt(k)
        /\ toServer[k] \in Seq(FromClient(k)) /\ toClient[k] \in Seq(FromServers)
        /\ \A t \in Side : /\ got[<<k, t>>] \in Seq(Nat) /\ buf[<<k, t>>] \in Seq(Frames)
                           /\ sent[<<k, t>>] \in Nat
        /\ Streamed(got[<<k, "client">>], buf[<<k, "client">>], toClient[k], sent[<<k, "server">>])
        /\ Streamed(got[<<k, "server">>], buf[<<k, "server">>], toServer[k], sent[<<k, "client">>])
    BY StreamsKnown
  <1>2. /\ got' = got /\ buf' = buf /\ client' = client /\ server' = server /\ HasConn(k, s)
        /\ "client" \in Side /\ "server" \in Side
    BY DEF SendFrame, sides, Side
  <1>3. StreamTypes /\ sent \in [End -> Nat] /\ <<k, s>> \in End
    BY DEF StreamInv, HandshakeInv, Shape, End
  <1>4. PICK n \in Nat : n = sent[<<k, s>>]
    BY <1>1
  <1>5. sent' = [sent EXCEPT ![<<k, s>>] = n + 1] /\ sent'[<<k, s>>] = n + 1
    BY <1>3, <1>4 DEF SendFrame
  <1>6. CASE s = "client"
    <2>1. toServer' = [toServer EXCEPT ![k] = Append(toServer[k], FrameNo(n + 1))] /\ toClient' = toClient
      BY <1>5, <1>6 DEF SendFrame
    <2>2. toServer'[k] = Append(toServer[k], FrameNo(n + 1))
      BY <1>1, <2>1 DEF Domains
    <2>3. sent'[<<k, "client">>] = n + 1 /\ sent'[<<k, "server">>] = sent[<<k, "server">>]
      BY <1>3, <1>5, <1>6, EndsOf
    <2>4. Streamed(got[<<k, "server">>], buf[<<k, "server">>], Append(toServer[k], FrameNo(n + 1)), n + 1)
      BY <1>1, <1>2, <1>4, <1>6, SendsOn
    <2>5. AskedAt(k)'
      <3>1. client[k] = "conn"
        BY <1>2, <1>6 DEF HasConn
      <3>2. toServer'[k] # <<>> /\ toServer'[k][1].kind = "request" => server[k] = "waiting" /\ toClient[k] = <<>>
        <4>1. toServer'[k][1] = IF toServer[k] = <<>> THEN FrameNo(n + 1) ELSE toServer[k][1]
          <5>1. Len(toServer[k]) \in Nat /\ (toServer[k] = <<>> <=> Len(toServer[k]) = 0)
            BY <1>1, EmptySeq, LenProperties
          <5> QED
            BY <1>1, <2>2, <5>1, AppendIs
        <4>2. FrameNo(n + 1).kind # "request"
          BY FrameIs
        <4> QED
          BY <1>1, <4>1, <4>2 DEF AskedAt
      <3> QED
        BY <1>1, <1>2, <2>1, <3>1, <3>2 DEF AskedAt
    <2>6. StreamAt(k, "server")'
      BY <1>2, <2>2, <2>3, <2>4 DEF StreamAt, Wire, Other
    <2>7. StreamAt(k, "client")'
      BY <1>1, <1>2, <2>1, <2>3 DEF StreamAt, Wire, Other
    <2> QED
      BY <1>2, <1>3, <2>5, <2>6, <2>7 DEF StreamTypes, StreamsAt
  <1>7. CASE s = "server"
    <2>1. toClient' = [toClient EXCEPT ![k] = Append(toClient[k], FrameNo(n + 1))] /\ toServer' = toServer
      BY <1>5, <1>7 DEF SendFrame
    <2>2. toClient'[k] = Append(toClient[k], FrameNo(n + 1))
      BY <1>1, <2>1 DEF Domains
    <2>3. sent'[<<k, "server">>] = n + 1 /\ sent'[<<k, "client">>] = sent[<<k, "client">>]
      BY <1>3, <1>5, <1>7, EndsOf
    <2>4. Streamed(got[<<k, "client">>], buf[<<k, "client">>], Append(toClient[k], FrameNo(n + 1)), n + 1)
      BY <1>1, <1>2, <1>4, <1>7, SendsOn
    <2>5. AskedAt(k)'
      <3>1. server[k] = "conn"
        BY <1>2, <1>7 DEF HasConn
      <3> QED
        BY <1>1, <1>2, <2>1, <2>3, <3>1 DEF AskedAt
    <2>6. StreamAt(k, "client")'
      BY <1>2, <2>2, <2>3, <2>4 DEF StreamAt, Wire, Other
    <2>7. StreamAt(k, "server")'
      BY <1>1, <1>2, <2>1, <2>3 DEF StreamAt, Wire, Other
    <2> QED
      BY <1>2, <1>3, <2>5, <2>6, <2>7 DEF StreamTypes, StreamsAt
  <1> QED
    BY <1>6, <1>7 DEF Side

\* The next frame is read from the reader that read the handshake, then from the wire.
LEMMA TakingStreams ==
    ASSUME HandshakeInv, FitInv, StreamInv, NEW k \in Connection, NEW s \in Side, GetNextFrame(k, s)
    PROVE  StreamTypes' /\ StreamsAt(k)'
  <1>1. /\ Domains /\ AskedAt(k)
        /\ toServer[k] \in Seq(FromClient(k)) /\ toClient[k] \in Seq(FromServers)
        /\ \A t \in Side : /\ got[<<k, t>>] \in Seq(Nat) /\ buf[<<k, t>>] \in Seq(Frames)
                           /\ sent[<<k, t>>] \in Nat
        /\ Streamed(got[<<k, "client">>], buf[<<k, "client">>], toClient[k], sent[<<k, "server">>])
        /\ Streamed(got[<<k, "server">>], buf[<<k, "server">>], toServer[k], sent[<<k, "client">>])
    BY StreamsKnown
  <1>2. /\ sent' = sent /\ client' = client /\ server' = server /\ HasConn(k, s)
        /\ "client" \in Side /\ "server" \in Side
    BY DEF GetNextFrame, sides, Side
  <1>3. StreamTypes /\ <<k, s>> \in End /\ StreamsAt(k)
    BY DEF StreamInv, End
  <1> DEFINE b == buf[<<k, s>>]
             w == Wire(k, s)
             n == sent[<<k, Other(s)>>]
             q == got[<<k, s>>]
  <1>4. /\ q \in Seq(Nat) /\ b \in Seq(Frames) /\ w \in Seq(FromClient(k) \cup FromServers) /\ n \in Nat
        /\ Streamed(q, b, w, n)
    <2>1. w \in Seq(FromClient(k) \cup FromServers)
      BY <1>1 DEF Wire
    <2>2. Other(s) \in Side /\ StreamAt(k, s)
      BY <1>3 DEF Other, Side, StreamsAt
    <2> QED
      BY <1>1, <2>1, <2>2 DEF StreamAt
  <1>5. CASE b # <<>>
    <2>1. got' = [got EXCEPT ![<<k, s>>] = Append(q, b[1].n)]
      <3>1. (b \o w)[1] = b[1]
        <4> DEFINE T == FromClient(k) \cup FromServers \cup Frames
        <4>1. b \in Seq(T) /\ w \in Seq(T)
          BY <1>4
        <4> HIDE DEF T, b, w
        <4> QED
          BY <1>5, <4>1
      <3> QED
        BY <3>1 DEF GetNextFrame
    <2>2. buf' = [buf EXCEPT ![<<k, s>>] = Tail(b)] /\ toServer' = toServer /\ toClient' = toClient
      BY <1>5 DEF GetNextFrame, wires
    <2>3. /\ Append(q, b[1].n) \in Seq(Nat) /\ Tail(b) \in Seq(Frames)
          /\ Streamed(Append(q, b[1].n), Tail(b), w, n)
      BY <1>4, <1>5, TakesHeld
    <2>4. StreamTypes'
      BY <1>3, <2>1, <2>2, <2>3 DEF StreamTypes
    <2>5. got'[<<k, s>>] = Append(q, b[1].n) /\ buf'[<<k, s>>] = Tail(b) /\ w' = w /\ n' = n
      BY <1>2, <1>3, <2>1, <2>2 DEF StreamTypes, Wire
    <2>6. StreamAt(k, s)'
      BY <2>3, <2>5 DEF StreamAt
    <2>7. ASSUME NEW t \in Side, t # s PROVE StreamAt(k, t)'
      <3>1. got'[<<k, t>>] = got[<<k, t>>] /\ buf'[<<k, t>>] = buf[<<k, t>>]
        BY <1>3, <2>1, <2>2, <2>7 DEF StreamTypes, End
      <3>2. StreamAt(k, t)
        BY <1>3 DEF StreamsAt, Side
      <3> QED
        BY <1>2, <2>2, <3>1, <3>2 DEF StreamAt, Wire
    <2>8. AskedAt(k)'
      BY <1>1, <1>2, <2>2 DEF AskedAt
    <2> QED
      BY <1>2, <2>4, <2>6, <2>7, <2>8 DEF StreamsAt
  <1>6. CASE b = <<>>
    <2>1. b \o w = w
      BY <1>4, <1>6
    <2>2. /\ w # <<>> /\ w[1].kind = "frame" /\ got' = [got EXCEPT ![<<k, s>>] = Append(q, w[1].n)]
          /\ buf' = buf
          /\ IF s = "client" THEN toClient' = [toClient EXCEPT ![k] = Tail(w)] /\ toServer' = toServer
                             ELSE toServer' = [toServer EXCEPT ![k] = Tail(w)] /\ toClient' = toClient
      BY <1>6, <2>1 DEF GetNextFrame
    <2>3. /\ Append(q, w[1].n) \in Seq(Nat)
          /\ Streamed(Append(q, w[1].n), <<>>, Tail(w), n)
          /\ Tail(w) # <<>> => Tail(w)[1].kind = "frame"
      BY <1>4, <1>6, <2>2, TakesFromWire
    <2>4. StreamTypes'
      BY <1>3, <2>2, <2>3 DEF StreamTypes
    <2>5. got'[<<k, s>>] = Append(q, w[1].n) /\ buf'[<<k, s>>] = <<>> /\ w' = Tail(w) /\ n' = n
      BY <1>1, <1>2, <1>3, <1>6, <2>2 DEF StreamTypes, Wire, Domains
    <2>6. StreamAt(k, s)'
      BY <2>3, <2>5 DEF StreamAt
    <2>7. ASSUME NEW t \in Side, t # s PROVE StreamAt(k, t)'
      <3>1. got'[<<k, t>>] = got[<<k, t>>] /\ buf'[<<k, t>>] = buf[<<k, t>>]
        BY <1>3, <2>2, <2>7 DEF StreamTypes, End
      <3>2. StreamAt(k, t)
        BY <1>3 DEF StreamsAt, Side
      <3>3. Wire(k, t)' = Wire(k, t)
        BY <2>2, <2>7 DEF Wire, Side
      <3> QED
        BY <1>2, <3>1, <3>2, <3>3 DEF StreamAt
    <2>8. AskedAt(k)'
      <3>1. CASE s = "client"
        <4>1. toClient[k] # <<>> /\ toServer' = toServer
          BY <2>2, <3>1 DEF Wire
        <4> QED
          BY <1>1, <1>2, <4>1 DEF AskedAt
      <3>2. CASE s = "server"
        <4>1. toClient' = toClient /\ server[k] = "conn"
          BY <1>2, <2>2, <3>2 DEF HasConn
        <4>2. toServer'[k] = Tail(w)
          BY <1>1, <2>2, <3>2 DEF Domains
        <4> QED
          BY <1>1, <1>2, <2>3, <4>1, <4>2 DEF AskedAt
      <3> QED
        BY <3>1, <3>2 DEF Side
    <2> QED
      BY <1>2, <2>4, <2>6, <2>7, <2>8 DEF StreamsAt
  <1> QED
    BY <1>5, <1>6

LEMMA StreamKept ==
    ASSUME HandshakeInv, FitInv, StreamInv, [Next]_vars
    PROVE  StreamInv'
  <1>1. ASSUME NEW k \in Connection, Acts(k) PROVE StreamInv'
    <2>1. "client" \in Side /\ "server" \in Side
      BY DEF Side
    <2>2. StreamTypes' /\ StreamsAt(k)'
      BY <1>1, <2>1, NothingStreams, RequestStreams, ResponseStreams, ReadingStreams,
         SendingStreams, TakingStreams DEF Acts, ClientStep, ServerStep
    <2> QED
      BY <1>1, <2>2, StreamsElsewhere DEF StreamInv
  <1>2. CASE UNCHANGED vars
    <2>1. /\ client' = client /\ server' = server /\ toServer' = toServer /\ toClient' = toClient
          /\ got' = got /\ buf' = buf /\ sent' = sent
      BY <1>2 DEF vars, sides, wires
    <2>2. \A c \in Connection : SameStreams(c) /\ AskedAt(c)'
      BY <2>1 DEF SameStreams, StreamInv, StreamsAt, AskedAt
    <2> QED
      BY <2>1, <2>2, SameStreamsStand DEF StreamInv, StreamTypes
  <1>3. Next => \E k \in Connection : Acts(k)
    BY DEF Next, Acts
  <1> QED
    BY <1>1, <1>2, <1>3

LEMMA StreamInitially == Init => StreamInv
  <1> SUFFICES ASSUME Init PROVE StreamInv
    OBVIOUS
  <1>1. StreamTypes
    BY DEF Init, StreamTypes
  <1>2. ASSUME NEW c \in Connection PROVE StreamsAt(c)
    <2>1. Cut.kind # "frame"
      BY DEF Cut
    <2>2. Streamed(<<>>, <<>>, <<>>, 0)
      BY <2>1, MessageAlone
    <2>3. AskedAt(c)
      <3>1. /\ toServer[c] = <<>> /\ toClient[c] = <<>> /\ server[c] = "waiting"
            /\ sent[<<c, "client">>] = 0
        BY EndsOf DEF Init
      <3> QED
        BY <3>1 DEF AskedAt
    <2>4. StreamAt(c, "client") /\ StreamAt(c, "server")
      BY <2>2, EndsOf DEF Init, StreamAt, Wire, Other
    <2> QED
      BY <2>3, <2>4 DEF StreamsAt
  <1> QED
    BY <1>1, <1>2 DEF StreamInv

\* NoFrameStranded, for any number of connections and of frames, and however far
\* http.ReadRequest and http.ReadResponse read on: the reader they read through goes
\* to the Conn, and GetNextFrame finds in it, then on the wire, every frame in order.
THEOREM FramesAreNotStranded == Spec => []NoFrameStranded
  <1>1. ASSUME HandshakeInv, FitInv, StreamInv PROVE NoFrameStranded
    <2> SUFFICES ASSUME NEW c \in Connection, NEW s \in Side
                 PROVE  got[<<c, s>>] \o FramesIn(buf[<<c, s>>] \o Wire(c, s))
                          = [i \in 1..sent[<<c, Other(s)>>] |-> i]
      BY DEF NoFrameStranded
    <2>1. /\ toServer[c] \in Seq(FromClient(c)) /\ toClient[c] \in Seq(FromServers)
          /\ \A t \in Side : /\ got[<<c, t>>] \in Seq(Nat) /\ buf[<<c, t>>] \in Seq(Frames)
                             /\ sent[<<c, t>>] \in Nat
      BY <1>1, StreamsKnown
    <2>2. Wire(c, s) \in Seq(FromClient(c) \cup FromServers)
      BY <2>1 DEF Wire
    <2>3. StreamAt(c, s) /\ Other(s) \in Side
      BY <1>1 DEF StreamInv, StreamsAt, Side, Other
    <2> QED
      BY <2>1, <2>2, <2>3, StreamedIsAll DEF StreamAt
  <1> QED
    BY <1>1, FitAlways, StreamInitially, StreamKept, HoldsInitially, HandshakeInvKept,
       FitInitially, FitKept, PTL DEF Spec

=============================================================================
