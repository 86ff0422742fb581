--------------------------- MODULE SessionProofs ---------------------------
(***************************************************************************)
(* Theorems about Session for any frames the applications send, any number of   *)
(* sends, any capacity of the channels, with write deadlines and read timeouts   *)
(* or without: which closes are sent and why, what the ends are told, and that   *)
(* answers come in the order of what they answer.                              *)
(***************************************************************************)
EXTENDS Session, DataInduction, SequenceTheorems, TLAPS

-----------------------------------------------------------------------------
(* The invariant.                                                            *)

FrameSet == [kind : Kind, pl : Nat]
Entry == [f : FrameSet, who : {"app", "hook", "farewell"}]

Shape ==
    /\ transit \in [Side -> Seq(FrameSet)] /\ got \in [Side -> Seq(FrameSet)]
    /\ sent \in [Side -> Seq(Entry)]
    /\ open \in [Side -> BOOLEAN] /\ reset \in [Side -> BOOLEAN]
    /\ broken \in [Side -> BOOLEAN] /\ closeSent \in [Side -> BOOLEAN]
    /\ loop \in [Side -> {"reading", "hook", "returned", "done", "left"}]
    /\ reply \in [Side -> FrameSet \cup {NoFrame}]
    /\ \A s \in Side : loop[s] = "hook" => reply[s] \in FrameSet
    /\ DOMAIN lerr = Side
    /\ stop \in BOOLEAN /\ sends \in [Side -> Nat]

\* The loop of s takes up what its peer sent, in order, and while its socket is
\* open nothing of it is lost.
Carried(s) ==
    /\ Len(got[s]) + Len(transit[s]) <= Len(sent[Peer(s)])
    /\ open[s] => Len(got[s]) + Len(transit[s]) = Len(sent[Peer(s)])
    /\ \A i \in 1..Len(got[s]) : got[s][i] = sent[Peer(s)][i].f
    /\ \A i \in 1..Len(transit[s]) : transit[s][i] = sent[Peer(s)][Len(got[s]) + i].f

IsClose(s, i) == sent[s][i].f.kind = "close"

\* One close at most leaves a side, and closeSent says whether it did.
ClosedOnce(s) ==
    /\ closeSent[s] <=> \E i \in 1..Len(sent[s]) : IsClose(s, i)
    /\ \A i, j \in 1..Len(sent[s]) : IsClose(s, i) /\ IsClose(s, j) => i = j

\* Behind such a frame the loop takes up nothing.
Ends(s, f) == f.kind \in {"close", "reserved"} \/ Verdict(s, f) # "none"

Over == {"returned", "done", "left"}

\* Where the loop is, at, and what the last frame it took up has to do with it:
\* q are the frames, r is the hook's reply, e what Listen returned, and said tells
\* whether a close was sent or the writer broke.
LoopIs(s, q, at, r, e, said) ==
    /\ \A i \in 1..(Len(q) - 1) : ~Ends(s, q[i])
    /\ at = "reading" /\ q # <<>> => ~Ends(s, q[Len(q)])
    /\ at = "hook" =>
          /\ q # <<>>
          /\ Ends(s, q[Len(q)]) => r.kind = "close"
          /\ r.kind = "close" => Owed(s, q[Len(q)], r.pl)
    /\ at \in Over <=> e # "none"
    /\ e = "nil" => q # <<>> /\ q[Len(q)].kind \in {"close", "reserved"} /\ said
    /\ StandardClosePayloadFor(e) # 0 => q # <<>> /\ e = Verdict(s, q[Len(q)])

LoopInv(s) ==
    LoopIs(s, got[s], loop[s], reply[s], lerr[s], closeSent[s] \/ broken[s])

\* A close that is not the application's is the loop's last word.
OwnClosesAre(s, frames, q, at) ==
    \A i \in 1..Len(frames) :
        frames[i].f.kind = "close" /\ frames[i].who # "app" =>
            at \in Over /\ q # <<>> /\ Owed(s, q[Len(q)], frames[i].f.pl)

OwnCloses(s) == OwnClosesAre(s, sent[s], got[s], loop[s])

\* What is known when a socket is closed, and when a read has failed.
EndInv(s) ==
    /\ ~open[s] /\ loop[s] # "left" => s = "client" /\ stop
    /\ s = "client" /\ stop /\ loop[s] \notin Over => broken[s] /\ ~closeSent[s]
    /\ reset[s] => ~open[Peer(s)] /\ Len(sent[s]) > Len(got[Peer(s)])
    /\ lerr[s] = "EOF" => ~open[Peer(s)] /\ ~closeSent[Peer(s)]
    /\ lerr[s] = "reset" => ~open[Peer(s)] /\ Len(sent[s]) > Len(got[Peer(s)])
    /\ lerr[s] = "ErrClosed" => broken[s] /\ ~closeSent[s]

SideInv(s) == Carried(s) /\ ClosedOnce(s) /\ LoopInv(s) /\ OwnCloses(s) /\ EndInv(s)

SessionInv == Shape /\ \A s \in Side : SideInv(s)

-----------------------------------------------------------------------------
(* The two sides, and a sequence with one element more or less.                *)

LEMMA Sides ==
    ASSUME NEW s \in Side
    PROVE  /\ Peer(s) \in Side /\ Peer(s) # s /\ Peer(Peer(s)) = s
           /\ \A t \in Side : t = s \/ t = Peer(s)
  BY DEF Side, Peer

LEMMA Appended ==
    ASSUME NEW S, NEW q \in Seq(S), NEW e \in S
    PROVE  /\ Append(q, e) \in Seq(S) /\ Len(Append(q, e)) = Len(q) + 1 /\ Len(q) \in Nat
           /\ \A i \in 1..Len(q) : Append(q, e)[i] = q[i]
           /\ Append(q, e)[Len(q) + 1] = e
  OBVIOUS

LEMMA Beheaded ==
    ASSUME NEW S, NEW q \in Seq(S), q # <<>>
    PROVE  /\ Tail(q) \in Seq(S) /\ Len(Tail(q)) = Len(q) - 1 /\ Len(q) \in Nat \ {0}
           /\ Head(q) = q[1] /\ Head(q) \in S
           /\ \A i \in 1..Len(Tail(q)) : Tail(q)[i] = q[i + 1]
  BY EmptySeq

LEMMA FrameIsFrame == ASSUME NEW k \in Kind, NEW n \in Nat PROVE Frame(k, n) \in FrameSet
  BY DEF Frame, FrameSet

-----------------------------------------------------------------------------
(* What sending a frame does to both sides, whatever becomes of it.            *)

\* For s itself.
Sender(s, f, who) ==
    /\ closeSent[s] => closeSent'[s]
    /\ broken[s] => broken'[s]
    /\ broken[s] \/ ~open[s] => closeSent'[s] = closeSent[s] /\ sent'[s] = sent[s]
    /\ closeSent'[s] => closeSent[s] \/ f.kind = "close"
    /\ f.kind = "close" => closeSent'[s] \/ broken'[s]
    /\ Len(sent'[s]) >= Len(sent[s])
    /\ \A i \in 1..Len(sent'[s]) :
          \/ i \in 1..Len(sent[s]) /\ sent'[s][i] = sent[s][i]
          \/ sent'[s][i] = [f |-> f, who |-> who]
    /\ reset'[s] => reset[s] \/ (~open[Peer(s)] /\ Len(sent'[s]) > Len(got[Peer(s)]))

\* For its peer.
Receiver(p) ==
    /\ sent'[p] = sent[p] /\ closeSent'[p] = closeSent[p]
    /\ broken'[p] = broken[p] /\ reset'[p] = reset[p]

SendShape ==
    /\ transit' \in [Side -> Seq(FrameSet)] /\ sent' \in [Side -> Seq(Entry)]
    /\ reset' \in [Side -> BOOLEAN] /\ broken' \in [Side -> BOOLEAN]
    /\ closeSent' \in [Side -> BOOLEAN]

LEMMA NothingMoved ==
    ASSUME transit' = transit, got' = got, open' = open, sent' = sent, closeSent' = closeSent, NEW t
    PROVE  (Carried(t) => Carried(t)') /\ (ClosedOnce(t) => ClosedOnce(t)')
  <1>1. Carried(t) => Carried(t)'
    BY DEF Carried
  <1>2. \A i : IsClose(t, i)' <=> IsClose(t, i)
    BY DEF IsClose
  <1>3. ClosedOnce(t) => ClosedOnce(t)'
    BY <1>2 DEF ClosedOnce
  <1> QED
    BY <1>1, <1>3

LEMMA SendsEffect ==
    ASSUME Shape, NEW s \in Side, NEW f \in FrameSet, NEW who \in {"app", "hook", "farewell"},
           Sends(s, f, who), got' = got, \A t \in Side : Carried(t) /\ ClosedOnce(t)
    PROVE  /\ SendShape /\ open' = open
           /\ Sender(s, f, who) /\ Receiver(Peer(s))
           /\ \A t \in Side : Carried(t)' /\ ClosedOnce(t)'
  <1> DEFINE e == [f |-> f, who |-> who]
  <1>s. PICK p \in Side : p = Peer(s) /\ p # s /\ Peer(p) = s /\ \A t \in Side : t = s \/ t = p
    BY Sides
  <1>e. e \in Entry /\ e.f = f
    BY DEF Entry
  <1>t. /\ transit \in [Side -> Seq(FrameSet)] /\ got \in [Side -> Seq(FrameSet)]
        /\ sent \in [Side -> Seq(Entry)]
        /\ open \in [Side -> BOOLEAN] /\ reset \in [Side -> BOOLEAN]
        /\ broken \in [Side -> BOOLEAN] /\ closeSent \in [Side -> BOOLEAN]
    BY DEF Shape
  <1>l. \A t \in Side : Len(sent[t]) \in Nat /\ Len(got[t]) \in Nat /\ Len(transit[t]) \in Nat
    BY <1>t
  <1>n. PICK n \in Nat : n = Len(sent[s])
    BY <1>l
  <1>m. PICK g, m \in Nat : g = Len(got[p]) /\ m = Len(transit[p])
    BY <1>l, <1>s
  <1>c. /\ Carried(p) /\ g + m <= n
        /\ \A i \in 1..g : got[p][i] = sent[s][i].f /\ i \in 1..n
        /\ \A i \in 1..m : transit[p][i] = sent[s][g + i].f /\ g + i \in 1..n
        /\ open[p] => g + m = n
    <2>1. Carried(p) /\ Peer(p) = s
      BY <1>s
    <2>2. g + m <= n /\ (open[p] => g + m = n)
      BY <2>1, <1>n, <1>m DEF Carried
    <2>3. \A i \in 1..g : got[p][i] = sent[s][i].f
      BY <2>1, <1>m DEF Carried
    <2>4. \A i \in 1..m : transit[p][i] = sent[s][g + i].f
      BY <2>1, <1>m DEF Carried
    <2> QED
      BY <2>1, <2>2, <2>3, <2>4
  <1>1. CASE Refused(s, f) /\ UNCHANGED <<net, writer>>
    <2>1. UNCHANGED <<transit, open, reset, broken, closeSent, sent>>
      BY <1>1 DEF net, writer
    <2>2. f.kind = "close" => closeSent[s]
      BY <1>1 DEF Refused
    <2>3. \A t \in Side : Carried(t)' /\ ClosedOnce(t)'
      BY <2>1, NothingMoved
    <2> QED
      BY <1>s, <1>t, <1>l, <2>1, <2>2, <2>3 DEF SendShape, Sender, Receiver
  <1>2. CASE /\ ~Refused(s, f) /\ CannotWrite(s)
             /\ broken' = [broken EXCEPT ![s] = TRUE] /\ UNCHANGED <<net, closeSent, sent>>
    <2>1. UNCHANGED <<transit, open, reset, closeSent, sent>> /\ broken'[s] /\ broken'[p] = broken[p]
      BY <1>2, <1>s, <1>t DEF net
    <2>2. broken' \in [Side -> BOOLEAN]
      BY <1>2, <1>t
    <2>3. \A t \in Side : Carried(t)' /\ ClosedOnce(t)'
      BY <2>1, NothingMoved
    <2> QED
      BY <1>s, <1>t, <1>l, <2>1, <2>2, <2>3 DEF SendShape, Sender, Receiver
  <1>3. CASE /\ ~Refused(s, f) /\ Takes(s, f)
             /\ closeSent' = [closeSent EXCEPT ![s] = @ \/ f.kind = "close"]
             /\ sent' = [sent EXCEPT ![s] = Append(@, [f |-> f, who |-> who])]
             /\ UNCHANGED broken
    <2>1. /\ open' = open /\ open[s] /\ ~broken[s] /\ broken' = broken
          /\ sent'[s] = Append(sent[s], e) /\ sent'[p] = sent[p] /\ closeSent'[p] = closeSent[p]
          /\ sent' \in [Side -> Seq(Entry)] /\ closeSent' \in [Side -> BOOLEAN]
      <3>1. Append(sent[s], e) \in Seq(Entry)
        BY <1>e, <1>t
      <3>2. sent'[s] = Append(sent[s], e) /\ sent'[p] = sent[p] /\ sent' \in [Side -> Seq(Entry)]
        BY <1>3, <1>s, <1>t, <3>1
      <3>3. closeSent'[p] = closeSent[p] /\ closeSent' \in [Side -> BOOLEAN]
        BY <1>3, <1>s, <1>t
      <3> QED
        BY <1>3, <3>2, <3>3 DEF Takes
    <2>2. closeSent'[s] <=> closeSent[s] \/ f.kind = "close"
      BY <1>3, <1>t
    <2>3. /\ Len(sent'[s]) = n + 1
          /\ \A i \in 1..n : sent'[s][i] = sent[s][i]
          /\ sent'[s][n + 1] = e
      BY <1>e, <1>t, <1>n, <2>1, Appended
    <2>4. f.kind = "close" => ~closeSent[s]
      BY <1>3 DEF Refused
    <2>5. ClosedOnce(s)'
      <3>1. \A i \in 1..n : IsClose(s, i)' <=> IsClose(s, i)
        BY <2>3 DEF IsClose
      <3>2. PICK k \in Nat : k = n + 1
        OBVIOUS
      <3>3. IsClose(s, k)' <=> f.kind = "close"
        BY <2>3, <3>2, <1>e DEF IsClose
      <3>4. k \in 1..k /\ \A i \in 1..k : i \in 1..n \/ i = k
        BY <3>2
      <3>5. \A i \in 1..n : i \in 1..k
        BY <3>2
      <3>6. closeSent[s] <=> \E i \in 1..n : IsClose(s, i)
        BY <1>n DEF ClosedOnce
      <3>7. closeSent'[s] <=> \E i \in 1..k : IsClose(s, i)'
        BY <2>2, <3>1, <3>3, <3>4, <3>5, <3>6
      <3>8. \A i, j \in 1..n : IsClose(s, i) /\ IsClose(s, j) => i = j
        BY <1>n DEF ClosedOnce
      <3>9. \A i, j \in 1..k : IsClose(s, i)' /\ IsClose(s, j)' => i = j
        BY <2>4, <3>1, <3>3, <3>4, <3>6, <3>8
      <3> QED
        BY <2>3, <3>2, <3>7, <3>9 DEF ClosedOnce
    <2>6. ClosedOnce(p)'
      <3>1. ClosedOnce(p) /\ sent'[p] = sent[p] /\ closeSent'[p] = closeSent[p]
        BY <1>s, <2>1
      <3> QED
        BY <3>1 DEF ClosedOnce, IsClose
    <2>7. CASE /\ open[p] /\ HasRoom(p)
               /\ transit' = [transit EXCEPT ![p] = Append(@, f)]
               /\ UNCHANGED <<open, reset>>
      <3>1. /\ transit' \in [Side -> Seq(FrameSet)] /\ transit'[s] = transit[s]
            /\ transit'[p] = Append(transit[p], f)
        BY <1>s, <1>t, <2>7
      <3>2. /\ Len(transit'[p]) = Len(transit[p]) + 1
            /\ \A i \in 1..Len(transit[p]) : transit'[p][i] = transit[p][i]
            /\ transit'[p][Len(transit[p]) + 1] = f
        BY <1>s, <1>t, <3>1, Appended
      <3>3. Carried(s)'
        <4>1. Carried(s) /\ sent'[p] = sent[p] /\ transit'[s] = transit[s] /\ open' = open
          BY <2>1, <3>1
        <4> QED
          BY <1>s, <4>1 DEF Carried
      <3>4. Carried(p)'
        <4>1. \A i \in 1..g : got'[p][i] = sent'[s][i].f
          BY <1>c, <2>3
        <4>2. \A i \in 1..(m + 1) : transit'[p][i] = sent'[s][g + i].f
          <5> SUFFICES ASSUME NEW i \in 1..(m + 1)
                       PROVE  transit'[p][i] = sent'[s][g + i].f
            OBVIOUS
          <5>1. CASE i \in 1..m
            BY <5>1, <1>c, <1>m, <3>2, <2>3
          <5>2. CASE i = m + 1
            <6>1. g + i = n + 1
              BY <1>c, <2>7, <5>2
            <6> QED
              BY <6>1, <5>2, <1>m, <3>2, <2>3, <1>e
          <5> QED
            BY <5>1, <5>2
        <4>3. /\ Peer(p) = s /\ Len(got'[p]) = g /\ Len(transit'[p]) = m + 1
              /\ Len(sent'[s]) = n + 1 /\ g + (m + 1) = n + 1
          <5>1. Len(got'[p]) = g
            BY <1>m
          <5>2. Len(transit'[p]) = m + 1
            BY <1>m, <3>2
          <5>3. g + (m + 1) = n + 1
            BY <1>c, <2>7
          <5> QED
            BY <1>s, <2>3, <5>1, <5>2, <5>3
        <4> QED
          BY <4>1, <4>2, <4>3 DEF Carried
      <3>5. SendShape /\ Receiver(p)
        BY <1>s, <1>t, <2>1, <2>7, <3>1 DEF SendShape, Receiver
      <3>6. Sender(s, f, who)
        BY <1>s, <1>n, <2>1, <2>2, <2>3, <2>7 DEF Sender
      <3> QED
        BY <1>s, <2>1, <2>5, <2>6, <3>3, <3>4, <3>5, <3>6
    <2>8. CASE /\ ~open[p] /\ reset' = [reset EXCEPT ![s] = TRUE] /\ UNCHANGED <<transit, open>>
      <3>1. reset' \in [Side -> BOOLEAN] /\ reset'[p] = reset[p]
        BY <1>s, <1>t, <2>8
      <3>2. Carried(s)'
        <4>1. Carried(s) /\ sent'[p] = sent[p] /\ transit' = transit /\ open' = open
          BY <2>1, <2>8
        <4> QED
          BY <1>s, <4>1 DEF Carried
      <3>6. Carried(p)'
        <4>1. \A i \in 1..g : got'[p][i] = sent'[s][i].f
          BY <1>c, <2>3
        <4>2. \A i \in 1..m : transit'[p][i] = sent'[s][g + i].f
          BY <1>c, <2>3, <2>8
        <4>3. /\ Peer(p) = s /\ Len(got'[p]) = g /\ Len(transit'[p]) = m
              /\ Len(sent'[s]) = n + 1 /\ g + m <= n + 1 /\ ~open'[p]
          <5>1. Len(got'[p]) = g
            BY <1>m
          <5>2. Len(transit'[p]) = m
            BY <1>m, <2>8
          <5>3. g + m <= n + 1
            BY <1>c
          <5> QED
            BY <1>s, <2>3, <2>8, <5>1, <5>2, <5>3
        <4> QED
          BY <4>1, <4>2, <4>3 DEF Carried
      <3>7. Len(sent'[s]) > Len(got[p])
        BY <1>m, <1>c, <2>3
      <3>8. SendShape /\ Sender(s, f, who) /\ Receiver(p)
        BY <1>s, <1>t, <1>n, <2>1, <2>2, <2>3, <2>8, <3>1, <3>7 DEF SendShape, Sender, Receiver
      <3> QED
        BY <1>s, <2>1, <2>5, <2>6, <3>2, <3>6, <3>8
    <2> QED
      BY <1>3, <1>s, <2>7, <2>8 DEF Takes
  <1> QED
    BY <1>1, <1>2, <1>3 DEF Sends

-----------------------------------------------------------------------------
(* How the parts of the invariant carry over.                                *)

LEMMA Verdicts ==
    ASSUME NEW s \in Side, NEW f
    PROVE  /\ Verdict(s, f) \in {"ErrReservedBitsSet", "ErrFrameByteLengthExceeded",
                                 "ErrInvalidUTF8", "ErrInvalidCloseStatusCode", "none"}
           /\ app' = app => Verdict(s, f)' = Verdict(s, f)
  BY DEF Verdict

LEMMA LoopBecomes ==
    ASSUME NEW s \in Side, app' = app,
           LoopIs(s, got'[s], loop'[s], reply'[s], lerr'[s], closeSent'[s] \/ broken'[s])
    PROVE  LoopInv(s)'
  BY DEF LoopInv, LoopIs, Ends, Verdict, Owed

LEMMA OwnClosesBecome ==
    ASSUME NEW s \in Side, app' = app, OwnClosesAre(s, sent'[s], got'[s], loop'[s])
    PROVE  OwnCloses(s)'
  BY DEF OwnCloses, OwnClosesAre, Owed

LEMMA LoopStays ==
    ASSUME NEW s \in Side, app' = app, LoopInv(s), got'[s] = got[s], loop'[s] = loop[s],
           reply'[s] = reply[s], lerr'[s] = lerr[s],
           closeSent[s] => closeSent'[s], broken[s] => broken'[s]
    PROVE  LoopInv(s)'
  <1>1. LoopIs(s, got'[s], loop'[s], reply'[s], lerr'[s], closeSent'[s] \/ broken'[s])
    BY DEF LoopInv, LoopIs
  <1> QED
    BY <1>1, LoopBecomes

LEMMA OwnClosesStay ==
    ASSUME NEW s \in Side, app' = app, OwnCloses(s), got'[s] = got[s],
           loop[s] \in Over => loop'[s] \in Over,
           \A i \in 1..Len(sent'[s]) :
               \/ i \in 1..Len(sent[s]) /\ sent'[s][i] = sent[s][i]
               \/ sent'[s][i].who = "app" \/ sent'[s][i].f.kind # "close"
    PROVE  OwnCloses(s)'
  <1>1. OwnClosesAre(s, sent'[s], got'[s], loop'[s])
    BY DEF OwnCloses, OwnClosesAre
  <1> QED
    BY <1>1, OwnClosesBecome

\* What a step may do to side t and leave EndInv as it was.
EndKept(t) ==
    /\ ~open[Peer(t)] =>
          /\ ~open'[Peer(t)] /\ got'[Peer(t)] = got[Peer(t)]
          /\ closeSent'[Peer(t)] = closeSent[Peer(t)]
    /\ broken[t] => broken'[t] /\ closeSent'[t] = closeSent[t]
    /\ ~open'[t] => ~open[t] \/ loop'[t] = "left" \/ (t = "client" /\ stop)
    /\ stop => stop'
    /\ stop' /\ t = "client" => stop \/ loop'[t] \in Over \/ (broken'[t] /\ ~closeSent'[t])
    /\ Len(sent'[t]) >= Len(sent[t])
    /\ reset'[t] => reset[t] \/ (~open'[Peer(t)] /\ Len(sent'[t]) > Len(got'[Peer(t)]))
    /\ loop[t] = "left" => loop'[t] = "left"
    /\ loop[t] \in Over => loop'[t] \in Over

LEMMA EndStays ==
    ASSUME Shape, Shape', NEW t \in Side, EndInv(t), EndKept(t),
           lerr'[t] = lerr[t] \/ lerr'[t] \notin {"EOF", "reset", "ErrClosed"}
    PROVE  EndInv(t)'
  <1>s. PICK p \in Side : p = Peer(t)
    BY Sides
  <1>1. /\ Len(sent[t]) \in Nat /\ Len(sent'[t]) \in Nat
        /\ Len(got[p]) \in Nat /\ Len(got'[p]) \in Nat
    <2>1. p \in Side
      OBVIOUS
    <2>2. got \in [Side -> Seq(FrameSet)] /\ sent \in [Side -> Seq(Entry)]
      BY DEF Shape
    <2>3. got' \in [Side -> Seq(FrameSet)] /\ sent' \in [Side -> Seq(Entry)]
      BY DEF Shape
    <2>4. Len(sent[t]) \in Nat /\ Len(got[p]) \in Nat
      BY <2>1, <2>2
    <2>5. Len(sent'[t]) \in Nat /\ Len(got'[p]) \in Nat
      BY <2>1, <2>3
    <2> QED
      BY <2>4, <2>5
  <1>2. (~open[t] /\ loop[t] # "left" => t = "client" /\ stop)'
    BY DEF EndInv, EndKept
  <1>3. (t = "client" /\ stop /\ loop[t] \notin Over => broken[t] /\ ~closeSent[t])'
    BY DEF EndInv, EndKept
  <1>4. (reset[t] => ~open[p] /\ Len(sent[t]) > Len(got[p]))'
    BY <1>1, <1>s DEF EndInv, EndKept
  <1>5. (lerr[t] = "EOF" => ~open[p] /\ ~closeSent[p])'
    BY <1>s DEF EndInv, EndKept
  <1>6. (lerr[t] = "reset" => ~open[p] /\ Len(sent[t]) > Len(got[p]))'
    BY <1>1, <1>s DEF EndInv, EndKept
  <1>7. (lerr[t] = "ErrClosed" => broken[t] /\ ~closeSent[t])'
    BY DEF EndInv, EndKept
  <1> QED
    BY <1>s, <1>2, <1>3, <1>4, <1>5, <1>6, <1>7 DEF EndInv

\* A side that a step leaves alone but for what its peer did to the wire.
LEMMA OtherStays ==
    ASSUME SessionInv, Shape', NEW t \in Side, app' = app, got'[t] = got[t],
           loop'[t] = loop[t], reply'[t] = reply[t], lerr'[t] = lerr[t],
           sent'[t] = sent[t], closeSent'[t] = closeSent[t], broken'[t] = broken[t], EndKept(t)
    PROVE  LoopInv(t)' /\ OwnCloses(t)' /\ EndInv(t)'
  <1>1. Shape /\ LoopInv(t) /\ OwnCloses(t) /\ EndInv(t)
    BY DEF SessionInv, SideInv
  <1>2. LoopInv(t)'
    BY <1>1, LoopStays
  <1>3. OwnCloses(t)'
    BY <1>1, OwnClosesStay
  <1> QED
    BY <1>1, <1>2, <1>3, EndStays

LEMMA BothSides ==
    ASSUME NEW s \in Side, NEW p \in Side, p = Peer(s), SideInv(s)', SideInv(p)', Shape'
    PROVE  SessionInv'
  BY Sides DEF SessionInv

-----------------------------------------------------------------------------
(* The loop.                                                                 *)

GoesOn(s, f) == loop' = [loop EXCEPT ![s] = "reading"] /\ reply' = reply /\ ~Ends(s, f)

Replies(s, f, r) ==
    /\ loop' = [loop EXCEPT ![s] = "hook"] /\ reply' = [reply EXCEPT ![s] = r]
    /\ Ends(s, f) => r.kind = "close"
    /\ r.kind = "close" => Owed(s, f, r.pl)

LEMMA RouteEffect ==
    ASSUME Shape, NEW s \in Side, NEW f \in FrameSet, Verdict(s, f) = "none", Route(s, f)
    PROVE  lerr' = lerr /\ (GoesOn(s, f) \/ \E r \in FrameSet : Replies(s, f, r))
  <1>f. f.kind \in Kind /\ f.pl \in Nat
    BY DEF FrameSet
  <1>1. CASE f.kind = "ping" /\ RFC6455PingHook(s, f)
    <2>1. Frame("pong", f.pl) \in FrameSet /\ Frame("pong", f.pl).kind = "pong"
      BY <1>f, FrameIsFrame DEF Frame, Kind
    <2>2. ~Ends(s, f)
      BY <1>1 DEF Ends
    <2>3. Replies(s, f, Frame("pong", f.pl))
      BY <1>1, <2>1, <2>2 DEF RFC6455PingHook, Hook, Loop, Replies
    <2> QED
      BY <1>1, <2>1, <2>3 DEF RFC6455PingHook, Hook, Loop, Replies
  <1>2. CASE f.kind = "pong" /\ Reading(s)
    BY <1>2 DEF Reading, Loop, Ends, GoesOn
  <1>3. CASE f.kind = "close" /\ RFC6455CloseHook(s, f)
    <2>1. /\ Frame("close", f.pl) \in FrameSet /\ Frame("close", f.pl).kind = "close"
          /\ Frame("close", f.pl).pl = f.pl
      BY <1>f, FrameIsFrame DEF Frame, Kind
    <2>2. ValidCloseStatusCode(f.pl)
      BY <1>3 DEF Verdict
    <2>3. LegalCode(f.pl)
      BY <1>f, <2>2 DEF ValidCloseStatusCode, LegalCode
    <2>4. Owed(s, f, f.pl)
      BY <1>3, <2>3 DEF Owed
    <2> QED
      <3>1. Replies(s, f, Frame("close", f.pl))
        BY <1>3, <2>1, <2>4 DEF RFC6455CloseHook, Hook, Loop, Replies
      <3> QED
        BY <1>3, <2>1, <3>1 DEF RFC6455CloseHook, Hook
  <1>4. CASE f.kind = "reserved" /\ RFC6455UnknownHook(s, f)
    <2>1. /\ Frame("close", 1002) \in FrameSet /\ Frame("close", 1002).kind = "close"
          /\ Frame("close", 1002).pl = 1002
      BY FrameIsFrame DEF Frame, Kind
    <2>2. Owed(s, f, 1002)
      BY <1>4 DEF Owed
    <2> QED
      <3>1. Replies(s, f, Frame("close", 1002))
        BY <1>4, <2>1, <2>2 DEF RFC6455UnknownHook, Hook, Loop, Replies
      <3> QED
        BY <1>4, <2>1, <3>1 DEF RFC6455UnknownHook, Hook
  <1>5. CASE f.kind \in {"text", "badtext"} /\ MessageHook(s, f)
    <2>1. ~Ends(s, f)
      BY <1>5 DEF Ends
    <2>2. CASE s = "server" /\ app = "echo" /\ Hook(s, f)
      <3>1. f.kind # "close" /\ Replies(s, f, f)
        BY <1>5, <2>1, <2>2 DEF Hook, Loop, Replies
      <3> QED
        BY <2>2, <3>1 DEF Hook
    <2>3. CASE s = "server" /\ app = "stream" /\ Hook(s, Frame("close", 1003))
      <3>1. /\ Frame("close", 1003) \in FrameSet /\ Frame("close", 1003).kind = "close"
            /\ Frame("close", 1003).pl = 1003
        BY FrameIsFrame DEF Frame, Kind
      <3>2. Owed(s, f, 1003)
        BY <1>5, <2>3 DEF Owed
      <3> QED
        <4>1. Replies(s, f, Frame("close", 1003))
          BY <2>3, <3>1, <3>2 DEF Hook, Loop, Replies
        <4> QED
          BY <2>3, <3>1, <4>1 DEF Hook
    <2>4. CASE s = "client" /\ Reading(s)
      BY <2>1, <2>4 DEF Reading, Loop, GoesOn
    <2> QED
      BY <1>5, <2>2, <2>3, <2>4 DEF MessageHook
  <1> QED
    BY <1>1, <1>2, <1>3, <1>4, <1>5 DEF Route

\* What the loop makes of a frame it took up.
TakenUp(s, f) ==
    \/ /\ loop'[s] = "returned" /\ lerr'[s] = Verdict(s, f) /\ Verdict(s, f) # "none"
       /\ reply'[s] = reply[s]
    \/ loop'[s] = "reading" /\ lerr'[s] = lerr[s] /\ reply'[s] = reply[s] /\ ~Ends(s, f)
    \/ /\ loop'[s] = "hook" /\ lerr'[s] = lerr[s] /\ reply'[s] \in FrameSet
       /\ Ends(s, f) => reply'[s].kind = "close"
       /\ reply'[s].kind = "close" => Owed(s, f, reply'[s].pl)

LoopTypes ==
    /\ loop \in [Side -> {"reading", "hook", "returned", "done", "left"}]
    /\ reply \in [Side -> FrameSet \cup {NoFrame}] /\ DOMAIN lerr = Side

LEMMA ReadFrameKeeps == ASSUME SessionInv, NEW s \in Side, ReadFrame(s) PROVE SessionInv'
  <1>s. PICK p \in Side : p = Peer(s) /\ p # s /\ Peer(p) = s /\ \A t \in Side : t = s \/ t = p
    BY Sides
  <1>i. Shape /\ SideInv(s) /\ SideInv(p)
    BY DEF SessionInv
  <1>u. /\ app' = app /\ open' = open /\ reset' = reset /\ broken' = broken
        /\ closeSent' = closeSent /\ sent' = sent /\ stop' = stop /\ sends' = sends
    BY DEF ReadFrame, config, writer
  <1>r. loop[s] = "reading" /\ open[s] /\ transit[s] # <<>>
    BY DEF ReadFrame
  <1>f. PICK f \in FrameSet : f = Head(transit[s]) /\ f = transit[s][1]
    BY <1>i, <1>r, Beheaded DEF Shape
  <1>n. PICK n, m \in Nat : n = Len(got[s]) /\ m + 1 = Len(transit[s]) /\ m = Len(Tail(transit[s]))
    <2>1. Len(got[s]) \in Nat /\ Len(transit[s]) \in Nat \ {0}
          /\ Len(Tail(transit[s])) = Len(transit[s]) - 1
      BY <1>i, <1>r, Beheaded DEF Shape
    <2>2. Len(transit[s]) - 1 \in Nat /\ (Len(transit[s]) - 1) + 1 = Len(transit[s])
      BY <2>1
    <2> QED
      BY <2>1, <2>2
  <1>1. /\ got' = [got EXCEPT ![s] = Append(@, f)] /\ transit' = [transit EXCEPT ![s] = Tail(@)]
        /\ \/ Verdict(s, f) # "none" /\ Returns(s, Verdict(s, f)) /\ UNCHANGED reply
           \/ Verdict(s, f) = "none" /\ Route(s, f)
    BY <1>f DEF ReadFrame
  <1>2. /\ got' \in [Side -> Seq(FrameSet)] /\ got'[p] = got[p]
        /\ got'[s] = Append(got[s], f) /\ Len(got'[s]) = n + 1
        /\ \A i \in 1..n : got'[s][i] = got[s][i]
        /\ got'[s][n + 1] = f
    BY <1>s, <1>i, <1>n, <1>1, Appended DEF Shape
  <1>3. /\ transit' \in [Side -> Seq(FrameSet)] /\ transit'[p] = transit[p]
        /\ Len(transit'[s]) = m /\ \A i \in 1..m : transit'[s][i] = transit[s][i + 1]
    BY <1>s, <1>i, <1>r, <1>n, <1>1, Beheaded DEF Shape
  <1>4. /\ loop'[p] = loop[p] /\ reply'[p] = reply[p] /\ lerr'[p] = lerr[p]
        /\ TakenUp(s, f) /\ LoopTypes'
    <2>t. LoopTypes
      BY <1>i DEF Shape, LoopTypes
    <2>1. CASE Verdict(s, f) # "none" /\ Returns(s, Verdict(s, f)) /\ UNCHANGED reply
      BY <1>s, <2>t, <2>1 DEF Returns, Loop, LoopTypes, TakenUp
    <2>2. CASE Verdict(s, f) = "none" /\ Route(s, f)
      <3>1. lerr' = lerr
        BY <1>i, <2>2, RouteEffect
      <3>2. CASE GoesOn(s, f)
        BY <1>s, <2>t, <3>1, <3>2 DEF GoesOn, LoopTypes, TakenUp
      <3>3. ASSUME NEW r \in FrameSet, Replies(s, f, r)
            PROVE  /\ loop'[p] = loop[p] /\ reply'[p] = reply[p] /\ lerr'[p] = lerr[p]
                   /\ TakenUp(s, f) /\ LoopTypes'
        BY <1>s, <2>t, <3>1, <3>3 DEF Replies, LoopTypes, TakenUp
      <3> QED
        BY <1>i, <2>2, <3>2, <3>3, RouteEffect
    <2> QED
      BY <1>1, <2>1, <2>2
  <1>5. Shape'
    BY <1>i, <1>u, <1>2, <1>3, <1>4, <1>s DEF Shape, LoopTypes, TakenUp
  <1>6. Carried(s)' /\ Carried(p)'
    <2>1. /\ Carried(s) /\ open[s] /\ sent'[p] = sent[p] /\ Len(sent[p]) = n + (m + 1)
          /\ \A i \in 1..n : got[s][i] = sent[p][i].f
          /\ \A i \in 1..(m + 1) : transit[s][i] = sent[p][n + i].f
      BY <1>s, <1>i, <1>u, <1>r, <1>n DEF SideInv, Carried
    <2>2. \A i \in 1..(n + 1) : got'[s][i] = sent[p][i].f
      <3>1. f = sent[p][n + 1].f
        BY <1>f, <2>1
      <3>2. \A i \in 1..(n + 1) : i \in 1..n \/ i = n + 1
        OBVIOUS
      <3> QED
        BY <1>2, <2>1, <3>1, <3>2
    <2>3. \A i \in 1..m : transit'[s][i] = sent[p][(n + 1) + i].f
      <3> TAKE i \in 1..m
      <3>1. i + 1 \in 1..(m + 1) /\ n + (i + 1) = (n + 1) + i
        OBVIOUS
      <3>2. transit'[s][i] = transit[s][i + 1]
        BY <1>3
      <3>3. transit[s][i + 1] = sent[p][n + (i + 1)].f
        BY <2>1, <3>1
      <3> QED
        BY <3>1, <3>2, <3>3
    <2>4. /\ Len(got'[s]) = n + 1 /\ Len(transit'[s]) = m /\ Peer(s) = p
          /\ Len(sent'[p]) = (n + 1) + m
      BY <1>s, <1>2, <1>3, <2>1
    <2>5. Carried(s)'
      BY <2>1, <2>2, <2>3, <2>4 DEF Carried
    <2>6. Carried(p) /\ got'[p] = got[p] /\ transit'[p] = transit[p]
      BY <1>i, <1>2, <1>3 DEF SideInv
    <2> QED
      BY <1>u, <2>5, <2>6 DEF Carried
  <1>7. ClosedOnce(s)' /\ ClosedOnce(p)'
    BY <1>i, <1>u DEF SideInv, ClosedOnce, IsClose
  <1>8. LoopInv(s)' /\ OwnCloses(s)'
    <2>1. LoopIs(s, got[s], "reading", reply[s], lerr[s], closeSent[s] \/ broken[s])
      BY <1>i, <1>r DEF SideInv, LoopInv
    <2>2. lerr[s] = "none" /\ \A i \in 1..n : ~Ends(s, got[s][i])
      <3>1. lerr[s] = "none" /\ (got[s] # <<>> => ~Ends(s, got[s][n]))
        BY <1>n, <2>1 DEF LoopIs, Over
      <3>2. \A i \in 1..(n - 1) : ~Ends(s, got[s][i])
        BY <1>n, <2>1 DEF LoopIs
      <3>3. \A i \in 1..n : i \in 1..(n - 1) \/ (i = n /\ n # 0)
        OBVIOUS
      <3>4. n # 0 => got[s] # <<>>
        BY <1>n
      <3> QED
        BY <3>1, <3>2, <3>3, <3>4
    <2>3. PICK q \in Seq(FrameSet) : q = got'[s]
      BY <1>2
    <2>4. q # <<>> /\ Len(q) = n + 1 /\ q[Len(q)] = f /\ \A i \in 1..n : ~Ends(s, q[i])
      BY <1>2, <2>2, <2>3
    <2>5. LoopIs(s, q, loop'[s], reply'[s], lerr'[s], closeSent'[s] \/ broken'[s])
      <3>1. \A i \in 1..(Len(q) - 1) : ~Ends(s, q[i])
        BY <2>4
      <3>2. Verdict(s, f) # "nil" /\ StandardClosePayloadFor("none") = 0
        BY Verdicts DEF StandardClosePayloadFor
      <3> QED
        BY <1>4, <2>2, <2>4, <3>1, <3>2 DEF LoopIs, TakenUp, Over
    <2>6. OwnClosesAre(s, sent'[s], q, loop'[s])
      <3>1. OwnClosesAre(s, sent[s], got[s], "reading")
        BY <1>i, <1>r DEF SideInv, OwnCloses
      <3> QED
        BY <1>u, <3>1 DEF OwnClosesAre, Over
    <2> QED
      BY <1>u, <2>3, <2>5, <2>6, LoopBecomes, OwnClosesBecome
  <1>9. EndInv(s)'
    <2>1. EndKept(s)
      BY <1>s, <1>i, <1>u, <1>r, <1>n, <1>2, <1>4 DEF EndKept, SideInv, EndInv, Over, Shape
    <2>2. lerr'[s] = lerr[s] \/ lerr'[s] \notin {"EOF", "reset", "ErrClosed"}
      BY <1>4, Verdicts DEF TakenUp
    <2> QED
      BY <1>i, <1>5, <2>1, <2>2, EndStays DEF SideInv
  <1>10. EndKept(p)
    BY <1>s, <1>i, <1>u, <1>r, <1>n, <1>2, <1>4 DEF EndKept, SideInv, EndInv, Over, Shape
  <1>11. LoopInv(p)' /\ OwnCloses(p)' /\ EndInv(p)'
    BY <1>u, <1>2, <1>4, <1>5, <1>10, OtherStays
  <1> QED
    BY <1>s, <1>5, <1>6, <1>7, <1>8, <1>9, <1>11, BothSides DEF SideInv

\* A read that fails ends the loop, with what is known of both sockets.
LEMMA ReadEndKeeps ==
    ASSUME SessionInv, NEW s \in Side, loop[s] = "reading",
           NEW e \in {"ErrClosed", "reset", "EOF", "ErrDeadlineExceeded"}, Returns(s, e),
           e = "EOF" => ~open[Peer(s)] /\ ~closeSent[Peer(s)],
           e = "reset" => reset[s], e = "ErrClosed" => ~open[s],
           UNCHANGED <<app, transit, open, reset, broken, closeSent, sent, reply, got, stop, sends>>
    PROVE  SessionInv'
  <1>s. PICK p \in Side : p = Peer(s) /\ p # s /\ Peer(p) = s /\ \A t \in Side : t = s \/ t = p
    BY Sides
  <1>i. Shape /\ SideInv(s) /\ SideInv(p)
    BY DEF SessionInv
  <1>1. /\ loop'[s] = "returned" /\ lerr'[s] = e /\ loop'[p] = loop[p] /\ lerr'[p] = lerr[p]
        /\ DOMAIN lerr' = Side
        /\ loop' \in [Side -> {"reading", "hook", "returned", "done", "left"}]
    BY <1>s, <1>i DEF Shape, Returns, Loop
  <1>2. Shape'
    BY <1>i, <1>1, <1>s DEF Shape
  <1>3. Carried(s)' /\ Carried(p)' /\ ClosedOnce(s)' /\ ClosedOnce(p)'
    BY <1>i DEF SideInv, Carried, ClosedOnce, IsClose
  <1>4. LoopInv(s)'
    <2>1. LoopIs(s, got[s], "reading", reply[s], lerr[s], closeSent[s] \/ broken[s])
      BY <1>i DEF SideInv, LoopInv
    <2>2. StandardClosePayloadFor(e) = 0
      BY DEF StandardClosePayloadFor
    <2>3. LoopIs(s, got'[s], loop'[s], reply'[s], lerr'[s], closeSent'[s] \/ broken'[s])
      BY <1>1, <2>1, <2>2 DEF LoopIs, Over
    <2> QED
      BY <2>3, LoopBecomes
  <1>5. OwnCloses(s)'
    BY <1>i, <1>1, OwnClosesStay DEF SideInv, Over
  <1>6. EndInv(s)'
    <2>1. Len(sent[s]) \in Nat /\ Len(got[p]) \in Nat
      BY <1>i DEF Shape
    <2> QED
      BY <1>s, <1>i, <1>1, <2>1 DEF SideInv, EndInv, Over
  <1>7. EndKept(p)
    <2>1. Len(sent[p]) \in Nat
      BY <1>i DEF Shape
    <2> QED
      BY <1>s, <1>i, <1>1, <2>1 DEF EndKept, Over
  <1>8. LoopInv(p)' /\ OwnCloses(p)' /\ EndInv(p)'
    BY <1>1, <1>2, <1>7, OtherStays
  <1> QED
    BY <1>s, <1>2, <1>3, <1>4, <1>5, <1>6, <1>8, BothSides DEF SideInv

\* A close that was sent is taken up before the stream ends.
LEMMA NoCloseLost ==
    ASSUME SessionInv, NEW s \in Side, loop[s] = "reading", open[s], transit[s] = <<>>
    PROVE  ~closeSent[Peer(s)]
  <1>s. PICK p \in Side : p = Peer(s)
    BY Sides
  <1>i. Shape /\ SideInv(s) /\ SideInv(p)
    BY <1>s DEF SessionInv
  <1>1. PICK n \in Nat : n = Len(got[s])
    BY <1>i DEF Shape
  <1>2. n = Len(sent[p]) /\ \A i \in 1..n : got[s][i] = sent[p][i].f
    <2>1. Len(transit[s]) = 0
      OBVIOUS
    <2>2. n + 0 = Len(sent[p])
      BY <1>s, <1>i, <1>1, <2>1 DEF SideInv, Carried
    <2> QED
      BY <1>s, <1>i, <1>1, <2>2 DEF SideInv, Carried
  <1>3. SUFFICES ASSUME NEW i \in 1..n, got[s][i].kind = "close" PROVE FALSE
    BY <1>s, <1>i, <1>2 DEF SideInv, ClosedOnce, IsClose
  <1>4. LoopIs(s, got[s], "reading", reply[s], lerr[s], closeSent[s] \/ broken[s])
    BY <1>i DEF SideInv, LoopInv
  <1>5. i \in 1..(n - 1) \/ (i = n /\ got[s] # <<>>)
    BY <1>1
  <1>6. ~Ends(s, got[s][i])
    BY <1>1, <1>4, <1>5 DEF LoopIs
  <1> QED
    BY <1>3, <1>6 DEF Ends

LEMMA ReadFailsKeeps == ASSUME SessionInv, NEW s \in Side, ReadFails(s) PROVE SessionInv'
  <1>u. /\ loop[s] = "reading"
        /\ UNCHANGED <<app, transit, open, reset, broken, closeSent, sent, reply, got, stop, sends>>
    BY DEF ReadFails, config, net, writer
  <1>1. CASE ~open[s] /\ Returns(s, "ErrClosed")
    BY <1>u, <1>1, ReadEndKeeps
  <1>2. CASE open[s] /\ reset[s] /\ Returns(s, "reset")
    BY <1>u, <1>2, ReadEndKeeps
  <1>3. CASE open[s] /\ transit[s] = <<>> /\ ~open[Peer(s)] /\ Returns(s, "EOF")
    BY <1>u, <1>3, ReadEndKeeps, NoCloseLost
  <1> QED
    BY <1>1, <1>2, <1>3 DEF ReadFails

LEMMA ReadTimesOutKeeps == ASSUME SessionInv, NEW s \in Side, ReadTimesOut(s) PROVE SessionInv'
  <1>u. /\ loop[s] = "reading" /\ Returns(s, "ErrDeadlineExceeded")
        /\ UNCHANGED <<app, transit, open, reset, broken, closeSent, sent, reply, got, stop, sends>>
    BY DEF ReadTimesOut, config, net, writer
  <1> QED
    BY <1>u, ReadEndKeeps

-----------------------------------------------------------------------------
(* What is sent.                                                             *)

LEMMA SendEnds ==
    ASSUME SessionInv, NEW s \in Side, NEW f \in FrameSet, NEW who \in {"app", "hook", "farewell"},
           Sends(s, f, who), got' = got, loop'[Peer(s)] = loop[Peer(s)],
           loop[s] = "left" => loop'[s] = "left", loop[s] \in Over => loop'[s] \in Over,
           stop => stop', stop' => stop \/ s = "client",
           stop' => stop \/ loop'[s] \in Over \/ (broken'[s] /\ ~closeSent'[s])
    PROVE  EndKept(s) /\ EndKept(Peer(s))
  <1>s. PICK p \in Side : p = Peer(s) /\ p # s /\ Peer(p) = s /\ \A t \in Side : t = s \/ t = p
    BY Sides
  <1>i. Shape /\ \A t \in Side : Carried(t) /\ ClosedOnce(t)
    BY DEF SessionInv, SideInv
  <1>1. open' = open /\ Sender(s, f, who) /\ Receiver(p)
    BY <1>s, <1>i, SendsEffect
  <1>2. Len(sent[p]) \in Nat
    BY <1>i DEF Shape
  <1>3. EndKept(s)
    BY <1>s, <1>1 DEF EndKept, Sender, Receiver
  <1>4. EndKept(p)
    BY <1>s, <1>1, <1>2 DEF EndKept, Sender, Receiver
  <1> QED
    BY <1>s, <1>3, <1>4

LEMMA AnswerKeeps == ASSUME SessionInv, NEW s \in Side, Answer(s) PROVE SessionInv'
  <1>s. PICK p \in Side : p = Peer(s) /\ p # s /\ Peer(p) = s /\ \A t \in Side : t = s \/ t = p
    BY Sides
  <1>i. Shape /\ SideInv(s) /\ SideInv(p) /\ \A t \in Side : Carried(t) /\ ClosedOnce(t)
    BY DEF SessionInv, SideInv
  <1>u. app' = app /\ got' = got /\ stop' = stop /\ sends' = sends /\ loop[s] = "hook"
    BY DEF Answer, config
  <1>f. PICK f \in FrameSet : f = reply[s]
    BY <1>i, <1>u DEF Shape
  <1>1. Sends(s, f, "hook") /\ reply' = [reply EXCEPT ![s] = NoFrame]
    BY <1>f DEF Answer
  <1>2. PICK e \in {"nil", "errOwn"} :
          /\ e = "nil" <=> got[s][Len(got[s])].kind \in {"close", "reserved"}
          /\ \/ f.kind # "close" /\ Loop(s, "reading") /\ UNCHANGED lerr
             \/ f.kind = "close" /\ Returns(s, e)
    BY <1>f DEF Answer, Pauses, Last
  <1>3. /\ loop'[p] = loop[p] /\ lerr'[p] = lerr[p] /\ reply'[p] = reply[p] /\ reply'[s] = NoFrame
        /\ \/ f.kind # "close" /\ loop'[s] = "reading" /\ lerr'[s] = lerr[s]
           \/ f.kind = "close" /\ loop'[s] = "returned" /\ lerr'[s] = e
        /\ LoopTypes'
    BY <1>s, <1>i, <1>1, <1>2 DEF Shape, LoopTypes, Returns, Loop
  <1>4. /\ SendShape /\ open' = open /\ Sender(s, f, "hook") /\ Receiver(p)
        /\ \A t \in Side : Carried(t)' /\ ClosedOnce(t)'
    BY <1>s, <1>i, <1>u, <1>1, SendsEffect
  <1>5. Shape'
    BY <1>s, <1>i, <1>u, <1>3, <1>4 DEF Shape, SendShape, LoopTypes
  <1>6. LoopIs(s, got[s], "hook", f, lerr[s], closeSent[s] \/ broken[s])
    BY <1>i, <1>u, <1>f DEF SideInv, LoopInv
  <1>7. LoopInv(s)'
    <2>1. f.kind = "close" => closeSent'[s] \/ broken'[s]
      BY <1>4 DEF Sender
    <2>2. StandardClosePayloadFor(e) = 0 /\ StandardClosePayloadFor("none") = 0
      BY DEF StandardClosePayloadFor
    <2>3. LoopIs(s, got[s], loop'[s], NoFrame, lerr'[s], closeSent'[s] \/ broken'[s])
      BY <1>2, <1>3, <1>6, <2>1, <2>2 DEF LoopIs, Over
    <2>4. LoopIs(s, got'[s], loop'[s], reply'[s], lerr'[s], closeSent'[s] \/ broken'[s])
      BY <1>u, <1>3, <2>3
    <2> QED
      BY <1>u, <2>4, LoopBecomes
  <1>8. OwnCloses(s)'
    <2>1. OwnClosesAre(s, sent[s], got[s], "hook")
      BY <1>i, <1>u DEF SideInv, OwnCloses
    <2>2. \A i \in 1..Len(sent'[s]) :
             \/ i \in 1..Len(sent[s]) /\ sent'[s][i] = sent[s][i]
             \/ sent'[s][i].f = f
      BY <1>4 DEF Sender
    <2>3. f.kind = "close" => got[s] # <<>> /\ Owed(s, got[s][Len(got[s])], f.pl)
      BY <1>6 DEF LoopIs
    <2>4. OwnClosesAre(s, sent'[s], got[s], loop'[s])
      BY <1>3, <2>1, <2>2, <2>3 DEF OwnClosesAre, Over
    <2> QED
      BY <1>u, <2>4, OwnClosesBecome
  <1>9. EndKept(s) /\ EndKept(p)
    BY <1>s, <1>u, <1>1, <1>3, SendEnds DEF Over
  <1>10. EndInv(s)'
    BY <1>i, <1>3, <1>5, <1>9, EndStays DEF SideInv
  <1>11. LoopInv(p)' /\ OwnCloses(p)' /\ EndInv(p)'
    BY <1>u, <1>3, <1>4, <1>5, <1>9, OtherStays DEF Receiver
  <1> QED
    BY <1>s, <1>4, <1>5, <1>7, <1>8, <1>10, <1>11, BothSides DEF SideInv

\* The close of an error that deserves one is owed for the frame it is about.
LEMMA FarewellIsOwed ==
    ASSUME NEW s \in Side, NEW f \in FrameSet, NEW code,
           code = StandardClosePayloadFor(Verdict(s, f)), code # 0
    PROVE  Frame("close", code) \in FrameSet /\ Owed(s, f, code)
  <1>1. code \in {1002, 1007, 1009}
    BY DEF StandardClosePayloadFor
  <1>2. Frame("close", code) \in FrameSet
    BY <1>1, FrameIsFrame DEF Kind
  <1>3. f.pl \in Nat /\ (f.kind = "close" /\ ~ValidCloseStatusCode(f.pl) => ~LegalCode(f.pl))
    BY DEF FrameSet, ValidCloseStatusCode, LegalCode
  <1>4. Owed(s, f, code)
    BY <1>3 DEF StandardClosePayloadFor, Verdict, Owed
  <1> QED
    BY <1>2, <1>4

LEMMA FarewellKeeps == ASSUME SessionInv, NEW s \in Side, Farewell(s) PROVE SessionInv'
  <1>s. PICK p \in Side : p = Peer(s) /\ p # s /\ Peer(p) = s /\ \A t \in Side : t = s \/ t = p
    BY Sides
  <1>i. Shape /\ SideInv(s) /\ SideInv(p) /\ \A t \in Side : Carried(t) /\ ClosedOnce(t)
    BY DEF SessionInv, SideInv
  <1>u. /\ app' = app /\ got' = got /\ stop' = stop /\ sends' = sends /\ loop[s] = "returned"
        /\ reply' = reply /\ lerr' = lerr /\ loop' = [loop EXCEPT ![s] = "done"]
    BY DEF Farewell, config, Loop
  <1>1. /\ loop'[p] = loop[p] /\ loop'[s] = "done"
        /\ loop' \in [Side -> {"reading", "hook", "returned", "done", "left"}]
    BY <1>s, <1>i, <1>u DEF Shape
  <1>2. LoopIs(s, got[s], "returned", reply[s], lerr[s], closeSent[s] \/ broken[s])
    BY <1>i, <1>u DEF SideInv, LoopInv
  <1>3. OwnClosesAre(s, sent[s], got[s], "returned")
    BY <1>i, <1>u DEF SideInv, OwnCloses
  <1>4. CASE UNCHANGED <<net, writer>>
    <2>1. UNCHANGED <<transit, open, reset, broken, closeSent, sent>>
      BY <1>4 DEF net, writer
    <2>2. Shape'
      BY <1>s, <1>i, <1>u, <1>1, <2>1 DEF Shape
    <2>3. \A t \in Side : Carried(t)' /\ ClosedOnce(t)'
      BY <1>i, <1>u, <2>1, NothingMoved
    <2>4. LoopIs(s, got'[s], loop'[s], reply'[s], lerr'[s], closeSent'[s] \/ broken'[s])
      BY <1>u, <1>1, <1>2, <2>1 DEF LoopIs, Over
    <2>5. OwnClosesAre(s, sent'[s], got'[s], loop'[s])
      BY <1>u, <1>1, <1>3, <2>1 DEF OwnClosesAre, Over
    <2>6. EndKept(s) /\ EndKept(p)
      <3>1. Len(sent[s]) \in Nat /\ Len(sent[p]) \in Nat
        BY <1>i DEF Shape
      <3> QED
        BY <1>s, <1>u, <1>1, <2>1, <3>1 DEF EndKept, Over
    <2>7. EndInv(s)'
      BY <1>i, <1>u, <2>2, <2>6, EndStays DEF SideInv
    <2>8. LoopInv(p)' /\ OwnCloses(p)' /\ EndInv(p)'
      BY <1>u, <1>1, <2>1, <2>2, <2>6, OtherStays
    <2>9. LoopInv(s)' /\ OwnCloses(s)'
      BY <1>u, <2>4, <2>5, LoopBecomes, OwnClosesBecome
    <2> QED
      BY <1>s, <2>2, <2>3, <2>7, <2>8, <2>9, BothSides DEF SideInv
  <1>5. ASSUME NEW code, code = StandardClosePayloadFor(lerr[s]), code # 0,
               Sends(s, Frame("close", code), "farewell")
        PROVE  SessionInv'
    <2>1. got[s] # <<>> /\ lerr[s] = Verdict(s, got[s][Len(got[s])])
      BY <1>2, <1>5 DEF LoopIs
    <2>2. PICK l \in FrameSet : l = got[s][Len(got[s])]
      <3>1. Len(got[s]) \in 1..Len(got[s])
        BY <1>i, <2>1, EmptySeq DEF Shape
      <3> QED
        BY <1>i, <3>1, ElementOfSeq DEF Shape
    <2>3. Frame("close", code) \in FrameSet /\ Owed(s, l, code)
      BY <1>5, <2>1, <2>2, FarewellIsOwed
    <2>4. PICK f \in FrameSet : f = Frame("close", code) /\ f.pl = code
      BY <2>3 DEF Frame
    <2>5. Sends(s, f, "farewell")
      BY <1>5, <2>4
    <2>6. /\ SendShape /\ open' = open /\ Sender(s, f, "farewell") /\ Receiver(p)
          /\ \A t \in Side : Carried(t)' /\ ClosedOnce(t)'
      BY <1>s, <1>i, <1>u, <2>5, SendsEffect
    <2>7. Shape'
      BY <1>s, <1>i, <1>u, <1>1, <2>6 DEF Shape, SendShape
    <2>8. LoopInv(s)'
      <3>1. closeSent[s] \/ broken[s] => closeSent'[s] \/ broken'[s]
        BY <2>6 DEF Sender
      <3>2. LoopIs(s, got'[s], loop'[s], reply'[s], lerr'[s], closeSent'[s] \/ broken'[s])
        BY <1>u, <1>1, <1>2, <3>1 DEF LoopIs, Over
      <3> QED
        BY <1>u, <3>2, LoopBecomes
    <2>9. OwnCloses(s)'
      <3>1. \A i \in 1..Len(sent'[s]) :
               \/ i \in 1..Len(sent[s]) /\ sent'[s][i] = sent[s][i]
               \/ sent'[s][i].f = f
        BY <2>6 DEF Sender
      <3>2. OwnClosesAre(s, sent'[s], got'[s], loop'[s])
        BY <1>u, <1>1, <1>3, <2>1, <2>2, <2>3, <2>4, <3>1 DEF OwnClosesAre, Over
      <3> QED
        BY <1>u, <3>2, OwnClosesBecome
    <2>10. EndKept(s) /\ EndKept(p)
      BY <1>s, <1>u, <1>1, <2>5, SendEnds DEF Over
    <2>11. EndInv(s)'
      BY <1>i, <1>u, <2>7, <2>10, EndStays DEF SideInv
    <2>12. LoopInv(p)' /\ OwnCloses(p)' /\ EndInv(p)'
      BY <1>u, <1>1, <2>6, <2>7, <2>10, OtherStays DEF Receiver
    <2> QED
      BY <1>s, <2>6, <2>7, <2>8, <2>9, <2>11, <2>12, BothSides DEF SideInv
  <1> QED
    BY <1>4, <1>5 DEF Farewell

LEMMA AppSendKeeps ==
    ASSUME SessionInv, NEW s \in Side, NEW f \in AppFrame[s], AppSend(s, f)
    PROVE  SessionInv'
  <1>s. PICK p \in Side : p = Peer(s) /\ p # s /\ Peer(p) = s /\ \A t \in Side : t = s \/ t = p
    BY Sides
  <1>i. Shape /\ SideInv(s) /\ SideInv(p) /\ \A t \in Side : Carried(t) /\ ClosedOnce(t)
    BY DEF SessionInv, SideInv
  <1>u. /\ app' = app /\ got' = got /\ reply' = reply /\ lerr' = lerr /\ loop' = loop
        /\ sends' = [sends EXCEPT ![s] = @ + 1]
    BY DEF AppSend, config
  <1>f. f \in FrameSet /\ sends[s] + 1 \in Nat
    BY <1>i, SessionAssumption DEF FrameSet, Shape
  <1>g. PICK g \in FrameSet :
          /\ g.kind = f.kind /\ Sends(s, g, "app") /\ stop' = (stop \/ Stops(s, g))
    <2>1. f.kind \in Kind
      BY <1>f DEF FrameSet
    <2>2. Frame(f.kind, sends[s] + 1) \in FrameSet /\ Frame(f.kind, sends[s] + 1).kind = f.kind
      BY <1>f, <2>1, FrameIsFrame DEF Frame
    <2> QED
      BY <1>f, <2>2 DEF AppSend
  <1>1. /\ SendShape /\ open' = open /\ Sender(s, g, "app") /\ Receiver(p)
        /\ \A t \in Side : Carried(t)' /\ ClosedOnce(t)'
    BY <1>s, <1>i, <1>u, <1>g, SendsEffect
  <1>2. Shape'
    <2>1. sends' \in [Side -> Nat]
      BY <1>i, <1>u, <1>f DEF Shape
    <2>2. stop' \in BOOLEAN
      BY <1>i, <1>g DEF Shape, Stops
    <2> QED
      BY <1>i, <1>u, <1>1, <2>1, <2>2 DEF Shape, SendShape
  <1>3. LoopInv(s)'
    BY <1>i, <1>u, <1>1, LoopStays DEF SideInv, Sender
  <1>4. OwnCloses(s)'
    <2>1. \A i \in 1..Len(sent'[s]) :
             \/ i \in 1..Len(sent[s]) /\ sent'[s][i] = sent[s][i]
             \/ sent'[s][i].who = "app"
      BY <1>1 DEF Sender
    <2> QED
      BY <1>i, <1>u, <2>1, OwnClosesStay DEF SideInv
  <1>5. Stops(s, g) => s = "client" /\ (loop[s] \in Over \/ (broken'[s] /\ ~closeSent'[s]))
    <2> SUFFICES ASSUME Stops(s, g)
                 PROVE  loop[s] \in Over \/ (broken'[s] /\ ~closeSent'[s])
      BY DEF Stops
    <2>1. g.kind = "text" /\ sent' = sent /\ ~AppClosed(s)
      BY <1>g DEF Stops, AppSend
    <2>2. CASE closeSent[s]
      <3>1. PICK i \in 1..Len(sent[s]) : sent[s][i].f.kind = "close"
        BY <1>i, <2>2 DEF ClosedOnce, IsClose
      <3>2. sent[s] \in Seq(Entry)
        BY <1>i DEF Shape
      <3>3. i \in DOMAIN sent[s]
        BY <3>1, <3>2
      <3>4. sent[s][i].who # "app"
        BY <2>1, <3>1, <3>3 DEF AppClosed
      <3> QED
        BY <1>i, <3>1, <3>4 DEF SideInv, OwnCloses, OwnClosesAre
    <2>3. CASE ~closeSent[s]
      <3>1. ~Refused(s, g)
        BY <2>3 DEF Refused
      <3>2. \A e \in Entry : sent' # [sent EXCEPT ![s] = Append(@, e)]
        <4> SUFFICES ASSUME NEW e \in Entry, sent' = [sent EXCEPT ![s] = Append(@, e)]
                     PROVE  FALSE
          OBVIOUS
        <4>1. sent[s] \in Seq(Entry) /\ sent'[s] = Append(sent[s], e)
          BY <1>i DEF Shape
        <4>2. Len(sent'[s]) = Len(sent[s]) + 1 /\ Len(sent[s]) \in Nat
          BY <4>1
        <4> QED
          BY <2>1, <4>2
      <3>3. [f |-> g, who |-> "app"] \in Entry
        BY DEF Entry
      <3>4. broken' = [broken EXCEPT ![s] = TRUE] /\ closeSent' = closeSent
        BY <1>g, <3>1, <3>2, <3>3 DEF Sends
      <3> QED
        BY <1>i, <2>3, <3>4 DEF Shape
    <2> QED
      BY <2>2, <2>3
  <1>6. EndKept(s) /\ EndKept(p)
    <2>1. stop => stop'
      BY <1>g
    <2>2. stop' => stop \/ (s = "client" /\ (loop'[s] \in Over \/ (broken'[s] /\ ~closeSent'[s])))
      BY <1>g, <1>u, <1>5
    <2> QED
      BY <1>s, <1>u, <1>g, <2>1, <2>2, SendEnds
  <1>7. EndInv(s)'
    BY <1>i, <1>u, <1>2, <1>6, EndStays DEF SideInv
  <1>8. LoopInv(p)' /\ OwnCloses(p)' /\ EndInv(p)'
    BY <1>u, <1>1, <1>2, <1>6, OtherStays DEF Receiver
  <1> QED
    BY <1>s, <1>1, <1>2, <1>3, <1>4, <1>7, <1>8, BothSides DEF SideInv

-----------------------------------------------------------------------------
(* Sockets that are closed.                                                  *)

\* The loop of s is over or goes no further, its socket is closed or stays closed.
LEMMA ClosedKeeps ==
    ASSUME SessionInv, NEW s \in Side,
           (open[s] /\ CloseSocket(s)) \/ (~open[s] /\ UNCHANGED net),
           \/ loop[s] = "done" /\ loop' = [loop EXCEPT ![s] = "left"]
           \/ loop' = loop /\ s = "client" /\ stop,
           UNCHANGED <<app, broken, closeSent, sent, reply, lerr, got, stop, sends>>
    PROVE  SessionInv'
  <1>s. PICK p \in Side : p = Peer(s) /\ p # s /\ Peer(p) = s /\ \A t \in Side : t = s \/ t = p
    BY Sides
  <1>i. Shape /\ SideInv(s) /\ SideInv(p) /\ \A t \in Side : Carried(t) /\ ClosedOnce(t)
    BY DEF SessionInv, SideInv
  <1>t. /\ transit \in [Side -> Seq(FrameSet)] /\ got \in [Side -> Seq(FrameSet)]
        /\ sent \in [Side -> Seq(Entry)] /\ open \in [Side -> BOOLEAN] /\ reset \in [Side -> BOOLEAN]
        /\ loop \in [Side -> {"reading", "hook", "returned", "done", "left"}]
    BY <1>i DEF Shape
  <1>1. /\ loop'[p] = loop[p] /\ loop' \in [Side -> {"reading", "hook", "returned", "done", "left"}]
        /\ \/ loop[s] = "done" /\ loop'[s] = "left"
           \/ loop'[s] = loop[s] /\ s = "client" /\ stop
        /\ \A t \in Side : loop'[t] = "hook" => loop[t] = "hook"
    BY <1>s, <1>t
  <1>2. /\ transit' \in [Side -> Seq(FrameSet)] /\ open' \in [Side -> BOOLEAN]
        /\ reset' \in [Side -> BOOLEAN] /\ ~open'[s] /\ open'[p] = open[p] /\ transit'[p] = transit[p]
        /\ transit'[s] = transit[s] \/ transit'[s] = <<>>
        /\ reset'[s] = reset[s]
        /\ reset'[p] => reset[p] \/ (open[s] /\ transit[s] # <<>>)
    <2>1. CASE open[s] /\ CloseSocket(s)
      <3>1. open' \in [Side -> BOOLEAN] /\ ~open'[s] /\ open'[p] = open[p]
        BY <1>s, <1>t, <2>1 DEF CloseSocket
      <3>2. transit' \in [Side -> Seq(FrameSet)] /\ transit'[p] = transit[p] /\ transit'[s] = <<>>
        BY <1>s, <1>t, <2>1, EmptySeq DEF CloseSocket
      <3>3. reset' = [reset EXCEPT ![p] = @ \/ transit[s] # <<>>]
        BY <1>s, <2>1 DEF CloseSocket
      <3>4. reset' \in [Side -> BOOLEAN] /\ reset'[s] = reset[s]
        BY <1>s, <1>t, <3>3
      <3>5. reset'[p] => reset[p] \/ transit[s] # <<>>
        BY <1>s, <1>t, <3>3
      <3> QED
        BY <2>1, <3>1, <3>2, <3>4, <3>5
    <2>2. CASE ~open[s] /\ UNCHANGED net
      BY <1>t, <2>2 DEF net
    <2> QED
      BY <2>1, <2>2
  <1>3. Shape'
    BY <1>i, <1>1, <1>2 DEF Shape
  <1>4. Carried(s)'
    <2>1. PICK n, m, k \in Nat : n = Len(got[s]) /\ m = Len(transit[s]) /\ k = Len(sent[p])
      BY <1>s, <1>t
    <2>2. /\ n + m <= k /\ \A i \in 1..n : got[s][i] = sent[p][i].f
          /\ \A i \in 1..m : transit[s][i] = sent[p][n + i].f
      BY <1>s, <1>i, <2>1 DEF Carried
    <2>3. CASE transit'[s] = transit[s]
      <3>1. Carried(s) /\ ~open'[s]
        BY <1>i, <1>2
      <3> QED
        BY <2>3, <3>1 DEF Carried
    <2>4. CASE transit'[s] = <<>>
      <3>1. n + 0 <= k /\ \A i \in 1..0 : transit'[s][i] = sent[p][n + i].f
        BY <2>2
      <3>2. Len(transit'[s]) = 0
        BY <2>4
      <3> QED
        <4>1. /\ Len(got'[s]) = n /\ Len(transit'[s]) = 0 /\ Peer(s) = p
              /\ Len(sent'[p]) = k /\ ~open'[s] /\ n + 0 <= k
          BY <1>s, <1>2, <2>1, <3>1, <3>2
        <4>2. \A i \in 1..n : got'[s][i] = sent'[p][i].f
          BY <2>2
        <4>3. \A i \in 1..0 : transit'[s][i] = sent'[p][n + i].f
          OBVIOUS
        <4> QED
          BY <4>1, <4>2, <4>3 DEF Carried
    <2> QED
      BY <1>2, <2>3, <2>4
  <1>5. Carried(p)' /\ ClosedOnce(s)' /\ ClosedOnce(p)'
    <2>1. Carried(p) /\ ClosedOnce(s) /\ ClosedOnce(p) /\ open'[p] = open[p] /\ transit'[p] = transit[p]
      BY <1>s, <1>i, <1>2
    <2>2. Carried(p)'
      <3>1. got'[p] = got[p] /\ sent' = sent
        BY <1>2
      <3> QED
        BY <2>1, <3>1 DEF Carried
    <2>3. \A t, i : IsClose(t, i)' <=> IsClose(t, i)
      BY <1>2 DEF IsClose
    <2> QED
      BY <1>2, <2>1, <2>2, <2>3 DEF ClosedOnce
  <1>6. LoopInv(s)'
    <2>1. LoopIs(s, got[s], loop[s], reply[s], lerr[s], closeSent[s] \/ broken[s])
      BY <1>i DEF SideInv, LoopInv
    <2>2. LoopIs(s, got[s], loop'[s], reply[s], lerr[s], closeSent[s] \/ broken[s])
      BY <1>1, <2>1 DEF LoopIs, Over
    <2> QED
      BY <2>2, LoopBecomes
  <1>7. OwnCloses(s)'
    BY <1>i, <1>1, OwnClosesStay DEF SideInv, Over
  <1>8. EndKept(s)
    BY <1>s, <1>t, <1>1, <1>2, <1>i DEF EndKept, Over, SideInv, EndInv
  <1>9. EndKept(p)
    <2>1. open[s] /\ transit[s] # <<>> => Len(sent[p]) > Len(got[s])
      <3> SUFFICES ASSUME open[s], transit[s] # <<>> PROVE Len(sent[p]) > Len(got[s])
        OBVIOUS
      <3>1. PICK n, m, k \in Nat : n = Len(got[s]) /\ m = Len(transit[s]) /\ k = Len(sent[p])
        BY <1>s, <1>t
      <3>2. m # 0
        BY <1>t, <3>1, EmptySeq
      <3>3. n + m = k
        BY <1>s, <1>i, <3>1 DEF Carried
      <3>4. k > n
        BY <3>2, <3>3
      <3> QED
        BY <3>1, <3>4
    <2>2. Len(sent[p]) \in Nat
      BY <1>t
    <2> QED
      BY <1>s, <1>1, <1>2, <2>1, <2>2 DEF EndKept, Over
  <1>10. EndInv(s)'
    BY <1>i, <1>3, <1>8, EndStays DEF SideInv
  <1>11. LoopInv(p)' /\ OwnCloses(p)' /\ EndInv(p)'
    BY <1>1, <1>3, <1>9, OtherStays
  <1> QED
    BY <1>s, <1>3, <1>4, <1>5, <1>6, <1>7, <1>10, <1>11, BothSides DEF SideInv

LEMMA LeaveKeeps == ASSUME SessionInv, NEW s \in Side, Leave(s) PROVE SessionInv'
  <1>1. /\ UNCHANGED <<app, broken, closeSent, sent, reply, lerr, got, stop, sends>>
        /\ loop[s] = "done" /\ loop' = [loop EXCEPT ![s] = "left"]
        /\ (open[s] /\ CloseSocket(s)) \/ (~open[s] /\ UNCHANGED net)
    BY DEF Leave, config, writer, Loop
  <1> QED
    BY <1>1, ClosedKeeps

LEMMA ProgramStopsKeeps == ASSUME SessionInv, ProgramStops PROVE SessionInv'
  <1>1. /\ UNCHANGED <<app, broken, closeSent, sent, reply, lerr, got, stop, sends>>
        /\ loop' = loop /\ stop /\ open["client"] /\ CloseSocket("client")
    BY DEF ProgramStops, config, writer
  <1>2. "client" \in Side
    BY DEF Side
  <1> QED
    BY <1>1, <1>2, ClosedKeeps

LEMMA SessionUnchanged == ASSUME SessionInv, UNCHANGED vars PROVE SessionInv'
  <1>1. UNCHANGED <<app, transit, open, reset, broken, closeSent, sent, loop, reply, lerr, got,
                    stop, sends>>
    BY DEF vars, config, net, writer
  <1>2. Shape'
    BY <1>1 DEF SessionInv, Shape
  <1>3. ASSUME NEW s \in Side PROVE SideInv(s)'
    <2>1. SideInv(s)
      BY DEF SessionInv
    <2>2. Carried(s)' /\ ClosedOnce(s)' /\ EndInv(s)'
      BY <1>1, <2>1 DEF SideInv, Carried, ClosedOnce, IsClose, EndInv
    <2>3. LoopInv(s)' /\ OwnCloses(s)'
      BY <1>1, <2>1, LoopStays, OwnClosesStay DEF SideInv
    <2> QED
      BY <2>2, <2>3 DEF SideInv
  <1> QED
    BY <1>2, <1>3 DEF SessionInv

-----------------------------------------------------------------------------
(* The theorems.                                                             *)

LEMMA SessionInit == Init => SessionInv
  <1> SUFFICES ASSUME Init PROVE SessionInv
    OBVIOUS
  <1>1. <<>> \in Seq(FrameSet) /\ <<>> \in Seq(Entry) /\ Len(<<>>) = 0
    BY EmptySeq
  <1>2. Shape
    BY <1>1 DEF Init, Shape
  <1>3. ASSUME NEW s \in Side PROVE SideInv(s)
    <2>1. /\ Peer(s) \in Side /\ got[s] = <<>> /\ transit[s] = <<>> /\ sent[s] = <<>>
          /\ sent[Peer(s)] = <<>> /\ open[s] /\ ~reset[s] /\ ~broken[s] /\ ~closeSent[s]
          /\ loop[s] = "reading" /\ lerr[s] = "none" /\ ~stop
      BY Sides DEF Init
    <2>2. Carried(s) /\ ClosedOnce(s)
      <3>1. \A i : i \notin 1..0
        OBVIOUS
      <3> QED
        BY <1>1, <2>1, <3>1 DEF Carried, ClosedOnce
    <2>3. OwnCloses(s)
      BY <1>1, <2>1 DEF OwnCloses, OwnClosesAre
    <2>4. LoopInv(s)
      <3>1. StandardClosePayloadFor("none") = 0
        BY DEF StandardClosePayloadFor
      <3>2. \A i : i \notin 1..(0 - 1)
        OBVIOUS
      <3> QED
        BY <1>1, <2>1, <3>1, <3>2 DEF LoopInv, LoopIs, Over
    <2>5. EndInv(s)
      BY <2>1 DEF EndInv
    <2> QED
      BY <2>2, <2>3, <2>4, <2>5 DEF SideInv
  <1> QED
    BY <1>2, <1>3 DEF SessionInv

LEMMA SessionStep == SessionInv /\ [Next]_vars => SessionInv'
  <1> SUFFICES ASSUME SessionInv, [Next]_vars PROVE SessionInv'
    OBVIOUS
  <1>1. ASSUME NEW s \in Side, LoopStep(s) PROVE SessionInv'
    BY <1>1, ReadFrameKeeps, ReadFailsKeeps, AnswerKeeps, FarewellKeeps, LeaveKeeps DEF LoopStep
  <1>2. ASSUME NEW s \in Side, ReadTimesOut(s) PROVE SessionInv'
    BY <1>2, ReadTimesOutKeeps
  <1>3. ASSUME NEW s \in Side, NEW f \in AppFrame[s], AppSend(s, f) PROVE SessionInv'
    BY <1>3, AppSendKeeps
  <1>4. CASE ProgramStops
    BY <1>4, ProgramStopsKeeps
  <1>5. CASE Quiet \/ UNCHANGED vars
    BY <1>5, SessionUnchanged DEF Quiet
  <1> QED
    BY <1>1, <1>2, <1>3, <1>4, <1>5 DEF Next

LEMMA SessionAlways == Spec => []SessionInv
  BY SessionInit, SessionStep, PTL DEF Spec

\* Behind a close, a reserved opcode or a frame that broke a rule, nothing the peer
\* sent is taken up any more (listenFrames, RFC6455CloseHook).
THEOREM NothingIsTakenUpLater == Spec => []NothingAfterTheEnd
  <1>1. SessionInv => NothingAfterTheEnd
    BY DEF SessionInv, SideInv, LoopInv, LoopIs, Ends, NothingAfterTheEnd
  <1> QED
    BY <1>1, SessionAlways, PTL

\* Listen returns nil for a closing handshake or a reserved opcode only, and by then
\* this side's close is on the wire, or its writer is broken (RFC6455CloseHook).
THEOREM NilIsAClosing == Spec => []NilMeansClosed
  <1>1. SessionInv => NilMeansClosed
    BY DEF SessionInv, SideInv, LoopInv, LoopIs, NilMeansClosed, Last
  <1> QED
    BY <1>1, SessionAlways, PTL

\* Every close a side sends on its own answers a frame the other side really sent,
\* with the code RFC 6455 asks for (StandardClosePayloadFor, the hooks).
THEOREM EveryCloseIsOwed == Spec => []ClosesAreOwed
  <1>1. ASSUME SessionInv PROVE ClosesAreOwed
    <2> SUFFICES ASSUME NEW s \in Side, NEW i \in DOMAIN sent[s],
                        sent[s][i].f.kind = "close", sent[s][i].who # "app"
                 PROVE  \E k \in DOMAIN sent[Peer(s)] :
                            /\ Len(got[s]) = k /\ got[s][k] = sent[Peer(s)][k].f
                            /\ Owed(s, got[s][k], sent[s][i].f.pl)
      BY DEF ClosesAreOwed
    <2>1. /\ sent[s] \in Seq(Entry) /\ sent[Peer(s)] \in Seq(Entry) /\ got[s] \in Seq(FrameSet)
          /\ transit[s] \in Seq(FrameSet) /\ Carried(s) /\ OwnCloses(s)
      BY <1>1, Sides DEF SessionInv, Shape, SideInv
    <2>2. i \in 1..Len(sent[s])
      BY <2>1
    <2>3. got[s] # <<>> /\ Owed(s, got[s][Len(got[s])], sent[s][i].f.pl)
      BY <2>1, <2>2 DEF OwnCloses, OwnClosesAre
    <2>4. PICK k \in Nat : k = Len(got[s])
      BY <2>1
    <2>5. k # 0 /\ k <= Len(sent[Peer(s)])
      <3>1. PICK n, m \in Nat : n = Len(sent[Peer(s)]) /\ m = Len(transit[s])
        BY <2>1
      <3>2. k + m <= n
        BY <2>1, <2>4, <3>1 DEF Carried
      <3>3. k <= n
        BY <3>2
      <3>4. k # 0
        BY <2>1, <2>3, <2>4, EmptySeq
      <3> QED
        BY <3>1, <3>3, <3>4
    <2>6. k \in 1..Len(got[s]) /\ k \in DOMAIN sent[Peer(s)]
      BY <2>1, <2>4, <2>5
    <2>7. got[s][k] = sent[Peer(s)][k].f
      BY <2>1, <2>6 DEF Carried
    <2> QED
      BY <2>3, <2>4, <2>6, <2>7
  <1> QED
    BY <1>1, SessionAlways, PTL

\* When one side took up the other's close and answered it, the other sees an
\* orderly end too, if it sent nothing behind its close (RFC6455CloseHook, the
\* programs of example/echo and example/client).
THEOREM OrderlyEnds == Spec => []OrderlyCloseIsSeen
  <1>1. ASSUME SessionInv PROVE OrderlyCloseIsSeen
    <2> SUFFICES ASSUME NEW s \in Side, NEW p \in Side, p = Peer(s), lerr[p] = "nil",
                        Last(got[p]).kind = "close", closeSent[p], SilentAfterClose(s)
                 PROVE  lerr[s] \notin {"EOF", "reset", "ErrClosed"}
      BY Sides DEF OrderlyCloseIsSeen
    <2>1. Shape /\ SideInv(s) /\ SideInv(p) /\ Peer(p) = s
      BY <1>1, Sides DEF SessionInv
    <2>2. /\ sent[s] \in Seq(Entry) /\ got[p] \in Seq(FrameSet) /\ transit[p] \in Seq(FrameSet)
          /\ Carried(p) /\ ClosedOnce(s) /\ EndInv(s)
      BY <2>1 DEF Shape, SideInv
    <2>3. PICK n, k, m \in Nat : n = Len(got[p]) /\ k = Len(sent[s]) /\ m = Len(transit[p])
      BY <2>2
    <2>4. n + m <= k /\ n # 0
      <3>1. got[p] # <<>>
        BY <2>1 DEF SideInv, LoopInv, LoopIs
      <3>2. n # 0
        BY <2>2, <2>3, <3>1, EmptySeq
      <3>3. n + m <= k
        BY <2>1, <2>2, <2>3 DEF Carried
      <3> QED
        BY <3>2, <3>3
    <2>5. n \in 1..n /\ n \in 1..k /\ k \in 1..k
      BY <2>4
    <2>6. IsClose(s, n)
      <3>1. got[p][n] = sent[s][n].f
        BY <2>1, <2>2, <2>3, <2>5 DEF Carried
      <3> QED
        BY <2>3, <3>1 DEF IsClose, Last
    <2>7. IsClose(s, k)
      <3>1. FramesOf(s) = [i \in 1..k |-> sent[s][i].f]
        BY <2>2, <2>3 DEF FramesOf
      <3>2. Len(FramesOf(s)) = k
        BY <3>1
      <3> QED
        BY <2>5, <3>1, <3>2 DEF SilentAfterClose, Last, IsClose
    <2>8. closeSent[s] /\ n = k
      BY <2>2, <2>3, <2>5, <2>6, <2>7 DEF ClosedOnce
    <2> QED
      BY <2>2, <2>3, <2>8 DEF EndInv
  <1> QED
    BY <1>1, SessionAlways, PTL

-----------------------------------------------------------------------------
(* The frames of one kind among those sent or taken up.                        *)

Part(f, kind) == IF f.kind = kind THEN <<f>> ELSE <<>>

OfKind(q, kind) == [i \in DOMAIN q |-> Part(q[i], kind)]

LEMMA OfKindType ==
    ASSUME NEW q \in Seq(FrameSet), NEW kind
    PROVE  /\ OfKind(q, kind) \in Seq(Seq(FrameSet))
           /\ DOMAIN OfKind(q, kind) = 1..Len(q) /\ Len(OfKind(q, kind)) = Len(q)
           /\ \A i \in 1..Len(q) : OfKind(q, kind)[i] = Part(q[i], kind)
  <1>1. PICK n \in Nat : n = Len(q) /\ DOMAIN q = 1..n
    OBVIOUS
  <1>2. \A f \in FrameSet : Part(f, kind) \in Seq(FrameSet)
    BY DEF Part
  <1>3. \A i \in 1..n : q[i] \in FrameSet
    BY <1>1
  <1>4. \A i \in 1..n : Part(q[i], kind) \in Seq(FrameSet)
    BY <1>2, <1>3, Zenon
  <1>5. OfKind(q, kind) = [i \in 1..n |-> Part(q[i], kind)]
    BY <1>1, Zenon DEF OfKind
  <1>6. OfKind(q, kind) \in [1..n -> Seq(FrameSet)]
    BY <1>4, <1>5, Zenon
  <1>7. \A i \in 1..n : OfKind(q, kind)[i] = Part(q[i], kind)
    BY <1>5, Zenon
  <1> QED
    BY <1>1, <1>6, <1>7

LEMMA PayloadsType ==
    ASSUME NEW q \in Seq(FrameSet), NEW kind
    PROVE  Payloads(q, kind) \in Seq(FrameSet)
  <1>1. Payloads(q, kind) = FlattenSeq(OfKind(q, kind))
    BY DEF Payloads, OfKind, Part
  <1> QED
    BY <1>1, OfKindType, FlattenType

LEMMA PayloadsEmpty == ASSUME NEW kind PROVE Payloads(<<>>, kind) = <<>>
  <1>1. [i \in DOMAIN <<>> |-> IF <<>>[i].kind = kind THEN <<<<>>[i]>> ELSE <<>>] = <<>>
    OBVIOUS
  <1> QED
    BY <1>1 DEF Payloads, FlattenSeq

LEMMA PayloadsAppend ==
    ASSUME NEW q \in Seq(FrameSet), NEW f \in FrameSet, NEW kind
    PROVE  Payloads(Append(q, f), kind) =
               IF f.kind = kind THEN Append(Payloads(q, kind), f) ELSE Payloads(q, kind)
  <1> DEFINE x == Part(f, kind)
  <1>1. x \in Seq(FrameSet)
    BY DEF Part
  <1>2. PICK n \in Nat, z \in Seq(FrameSet) : n = Len(q) /\ z = Append(q, f)
    <2>1. Len(q) \in Nat /\ Append(q, f) \in Seq(FrameSet)
      OBVIOUS
    <2> QED
      BY <2>1
  <1>3. Len(z) = n + 1 /\ z[n + 1] = f /\ \A i \in 1..n : z[i] = q[i]
    BY <1>2
  <1>4. PICK p \in Seq(Seq(FrameSet)), w \in Seq(Seq(FrameSet)) :
           p = OfKind(q, kind) /\ w = OfKind(z, kind)
    BY OfKindType
  <1>5. w = Append(p, x)
    <2>1. /\ Len(p) = n /\ \A i \in 1..n : p[i] = Part(q[i], kind)
          /\ Len(w) = n + 1
          /\ \A i \in 1..(n + 1) : w[i] = Part(z[i], kind)
      <3>1. /\ Len(p) = Len(q)
            /\ \A i \in 1..Len(q) : p[i] = Part(q[i], kind)
        BY <1>4, OfKindType, Zenon
      <3>2. /\ Len(w) = Len(z)
            /\ \A i \in 1..Len(z) : w[i] = Part(z[i], kind)
        BY <1>4, OfKindType, Zenon
      <3> QED
        BY <1>2, <1>3, <3>1, <3>2, Zenon
    <2>2. /\ Append(p, x) \in Seq(Seq(FrameSet)) /\ Len(Append(p, x)) = n + 1
          /\ Append(p, x)[n + 1] = x /\ \A i \in 1..n : Append(p, x)[i] = p[i]
      <3> HIDE DEF x
      <3> QED
        BY <1>1, <2>1
    <2>3. ASSUME NEW i \in 1..(n + 1) PROVE w[i] = Append(p, x)[i]
      <3>1. CASE i = n + 1
        <4>1. w[i] = Part(f, kind)
          BY <1>3, <2>1, <3>1, Zenon
        <4> QED
          BY <2>2, <3>1, <4>1, Zenon
      <3>2. CASE i \in 1..n
        <4>1. /\ z[i] = q[i] /\ w[i] = Part(z[i], kind)
              /\ p[i] = Part(q[i], kind)
          BY <1>3, <2>1, <3>2, Zenon
        <4>2. w[i] = p[i]
          BY <4>1
        <4> QED
          BY <2>2, <3>2, <4>2, Zenon
      <3>3. i = n + 1 \/ i \in 1..n
        OBVIOUS
      <3> QED
        BY <3>1, <3>2, <3>3, Zenon
    <2> HIDE DEF x
    <2> QED
      BY <2>1, <2>2, <2>3
  <1>6. Payloads(z, kind) = Payloads(q, kind) \o x
    <2>1. Payloads(z, kind) = FlattenSeq(w) /\ Payloads(q, kind) = FlattenSeq(p)
      BY <1>4, Zenon DEF Payloads, OfKind, Part
    <2> HIDE DEF x
    <2>2. FlattenSeq(Append(p, x)) = FlattenSeq(p) \o x
      BY <1>1, FlattenAppend
    <2> QED
      BY <1>5, <2>1, <2>2, Zenon
  <1>7. \A p1 \in Seq(FrameSet) : p1 \o <<>> = p1 /\ p1 \o <<f>> = Append(p1, f)
    OBVIOUS
  <1> QED
    BY <1>2, <1>6, <1>7, PayloadsType DEF Part

-----------------------------------------------------------------------------
(* Beginnings.                                                               *)

Begins(a, b) == Len(a) <= Len(b) /\ \A i \in 1..Len(a) : a[i] = b[i]

LEMMA BeginsIsPrefix ==
    ASSUME NEW S, NEW a \in Seq(S), NEW b \in Seq(S), Begins(a, b)
    PROVE  IsPrefix(a, b)
  <1>1. PICK n, m \in Nat : n = Len(a) /\ m = Len(b)
    OBVIOUS
  <1>2. n <= m /\ \A i \in 1..n : a[i] = b[i]
    BY <1>1 DEF Begins
  <1>3. SubSeq(a, 1, n) = [i \in 1..n |-> a[i]] /\ SubSeq(b, 1, n) = [i \in 1..n |-> b[i]]
    BY <1>1, <1>2
  <1>4. [i \in 1..n |-> a[i]] = [i \in 1..n |-> b[i]]
    BY <1>2
  <1> QED
    BY <1>1, <1>2, <1>3, <1>4 DEF IsPrefix

LEMMA BeginsTransitive ==
    ASSUME NEW S, NEW a \in Seq(S), NEW b \in Seq(S), NEW c \in Seq(S), Begins(a, b), Begins(b, c)
    PROVE  Begins(a, c)
  BY DEF Begins

LEMMA BeginsAppend ==
    ASSUME NEW S, NEW a \in Seq(S), NEW b \in Seq(S), NEW e \in S, Begins(a, b)
    PROVE  Begins(a, Append(b, e))
  BY DEF Begins

LEMMA BeginsItself == ASSUME NEW S, NEW a \in Seq(S) PROVE Begins(a, a)
  BY DEF Begins

\* What comes first among all frames comes first among those of a kind.
BeginsOfKind(a, b, kind) == Begins(a, b) => Begins(Payloads(a, kind), Payloads(b, kind))

LEMMA PayloadsBegin ==
    ASSUME NEW kind
    PROVE  \A a, b \in Seq(FrameSet) : BeginsOfKind(a, b, kind)
  <1> DEFINE T == {n \in Nat : \A a, b \in Seq(FrameSet) : Len(b) = n => BeginsOfKind(a, b, kind)}
  <1>1. 0 \in T
    <2> SUFFICES ASSUME NEW a \in Seq(FrameSet), NEW b \in Seq(FrameSet), Len(b) = 0, Begins(a, b)
                 PROVE  Begins(Payloads(a, kind), Payloads(b, kind))
      BY DEF BeginsOfKind
    <2>1. Len(a) = 0
      BY DEF Begins
    <2>2. a = b
      BY <2>1, EmptySeq
    <2> QED
      BY <2>2, PayloadsType, BeginsItself
  <1>2. ASSUME NEW n \in T PROVE n + 1 \in T
    <2>1. n \in Nat /\ n + 1 \in Nat
          /\ \A a, b \in Seq(FrameSet) : Len(b) = n => BeginsOfKind(a, b, kind)
      OBVIOUS
    <2> HIDE DEF T
    <2>2. ASSUME NEW a \in Seq(FrameSet), NEW b \in Seq(FrameSet), Len(b) = n + 1, Begins(a, b)
          PROVE  Begins(Payloads(a, kind), Payloads(b, kind))
      <3>1. CASE Len(a) = n + 1
        <4>1. a = b
          BY <2>1, <2>2, <3>1 DEF Begins
        <4> QED
          BY <4>1, PayloadsType, BeginsItself
      <3>2. CASE Len(a) # n + 1
        <4>1. PICK c \in Seq(FrameSet), e \in FrameSet : b = Append(c, e) /\ Len(c) = n
          <5> DEFINE c == SubSeq(b, 1, n)
          <5>1. c \in Seq(FrameSet) /\ b[n + 1] \in FrameSet /\ Len(c) = n
            BY <2>1, <2>2
          <5>2. b = Append(c, b[n + 1])
            BY <2>1, <2>2
          <5> QED
            BY <5>1, <5>2
        <4>2. Begins(a, c)
          <5>1. \A i \in 1..n : c[i] = b[i]
            BY <4>1
          <5>2. Len(a) <= n
            BY <2>1, <2>2, <3>2 DEF Begins
          <5> QED
            BY <2>1, <2>2, <4>1, <5>1, <5>2 DEF Begins
        <4>3. Begins(Payloads(a, kind), Payloads(c, kind))
          BY <2>1, <4>1, <4>2 DEF BeginsOfKind
        <4>4. Payloads(b, kind) = Payloads(c, kind) \/ Payloads(b, kind) = Append(Payloads(c, kind), e)
          BY <4>1, PayloadsAppend
        <4>5. Payloads(a, kind) \in Seq(FrameSet) /\ Payloads(c, kind) \in Seq(FrameSet)
          BY PayloadsType
        <4> QED
          BY <4>3, <4>4, <4>5, BeginsAppend
      <3> QED
        BY <3>1, <3>2
    <2>3. \A a, b \in Seq(FrameSet) : Len(b) = n + 1 => BeginsOfKind(a, b, kind)
      BY <2>2 DEF BeginsOfKind
    <2> QED
      BY <2>1, <2>3 DEF T
  <1>3. T = Nat
    <2> HIDE DEF T
    <2>1. T \in SUBSET Nat
      BY DEF T
    <2> QED
      BY <1>1, <1>2, <2>1, SetInduction
  <1> QED
    <2> SUFFICES ASSUME NEW a \in Seq(FrameSet), NEW b \in Seq(FrameSet)
                 PROVE  BeginsOfKind(a, b, kind)
      OBVIOUS
    <2>1. Len(b) \in T
      BY <1>3
    <2> QED
      BY <2>1

LEMMA AsPingsIs ==
    ASSUME NEW q \in Seq(FrameSet)
    PROVE  /\ AsPings(q) \in Seq(FrameSet) /\ Len(AsPings(q)) = Len(q)
           /\ \A i \in 1..Len(q) : AsPings(q)[i] = Frame("ping", q[i].pl)
  <1>1. PICK n \in Nat : n = Len(q) /\ DOMAIN q = 1..n
    OBVIOUS
  <1>2. \A i \in 1..n : q[i].pl \in Nat
    <2>1. \A f \in FrameSet : f.pl \in Nat
      BY DEF FrameSet
    <2>2. \A i \in 1..n : q[i] \in FrameSet
      BY <1>1
    <2> QED
      BY <2>1, <2>2, Zenon
  <1>3. \A i \in 1..n : Frame("ping", q[i].pl) \in FrameSet
    BY <1>2, FrameIsFrame DEF Kind
  <1>4. AsPings(q) = [i \in 1..n |-> Frame("ping", q[i].pl)]
    BY <1>1, Zenon DEF AsPings
  <1>5. AsPings(q) \in [1..n -> FrameSet]
    BY <1>3, <1>4, Zenon
  <1>6. \A i \in 1..n : AsPings(q)[i] = Frame("ping", q[i].pl)
    BY <1>4, Zenon
  <1> QED
    BY <1>1, <1>5, <1>6

LEMMA AsPingsAppend ==
    ASSUME NEW q \in Seq(FrameSet), NEW f \in FrameSet
    PROVE  AsPings(Append(q, f)) = Append(AsPings(q), Frame("ping", f.pl))
  <1>1. PICK n \in Nat, z \in Seq(FrameSet) : n = Len(q) /\ z = Append(q, f)
    <2>1. Len(q) \in Nat /\ Append(q, f) \in Seq(FrameSet)
      OBVIOUS
    <2> QED
      BY <2>1
  <1>2. Len(z) = n + 1 /\ z[n + 1] = f /\ \A i \in 1..n : z[i] = q[i]
    BY <1>1
  <1>3. PICK p, w \in Seq(FrameSet), e \in FrameSet :
           p = AsPings(q) /\ w = AsPings(z) /\ e = Frame("ping", f.pl)
    <2>1. f.pl \in Nat
      BY DEF FrameSet
    <2>2. Frame("ping", f.pl) \in FrameSet
      BY <2>1, FrameIsFrame DEF Kind
    <2> QED
      BY <2>2, AsPingsIs
  <1>4. /\ Len(p) = n /\ \A i \in 1..n : p[i] = Frame("ping", q[i].pl)
        /\ Len(w) = n + 1 /\ \A i \in 1..(n + 1) : w[i] = Frame("ping", z[i].pl)
    <2>1. Len(p) = Len(q) /\ \A i \in 1..Len(q) : p[i] = Frame("ping", q[i].pl)
      BY <1>3, AsPingsIs, Zenon
    <2>2. Len(w) = Len(z) /\ \A i \in 1..Len(z) : w[i] = Frame("ping", z[i].pl)
      BY <1>3, AsPingsIs, Zenon
    <2> QED
      BY <1>1, <1>2, <2>1, <2>2, Zenon
  <1>5. /\ Append(p, e) \in Seq(FrameSet) /\ Len(Append(p, e)) = n + 1
        /\ Append(p, e)[n + 1] = e /\ \A i \in 1..n : Append(p, e)[i] = p[i]
    BY <1>4
  <1>6. ASSUME NEW i \in 1..(n + 1) PROVE w[i] = Append(p, e)[i]
    <2>1. CASE i = n + 1
      <3>1. w[n + 1] = Frame("ping", z[n + 1].pl)
        BY <1>4, <2>1, Zenon
      <3> QED
        BY <1>2, <1>3, <1>5, <2>1, <3>1, Zenon
    <2>2. CASE i \in 1..n
      <3>1. w[i] = p[i]
        <4>1. z[i] = q[i] /\ w[i] = Frame("ping", z[i].pl) /\ p[i] = Frame("ping", q[i].pl)
          BY <1>2, <1>4, <2>2, Zenon
        <4> QED
          BY <4>1
      <3> QED
        BY <1>5, <2>2, <3>1, Zenon
    <2>3. i = n + 1 \/ i \in 1..n
      OBVIOUS
    <2> QED
      BY <2>1, <2>2, <2>3, Zenon
  <1>7. w = Append(p, e)
    BY <1>4, <1>5, <1>6
  <1> QED
    BY <1>1, <1>3, <1>7, Zenon

LEMMA AsPingsBegin ==
    ASSUME NEW a \in Seq(FrameSet), NEW b \in Seq(FrameSet), Begins(a, b)
    PROVE  Begins(AsPings(a), AsPings(b))
  <1>1. PICK n, m \in Nat : n = Len(a) /\ m = Len(b)
    OBVIOUS
  <1>2. n <= m /\ \A i \in 1..n : a[i] = b[i] /\ i \in 1..m
    BY <1>1 DEF Begins
  <1>3. /\ Len(AsPings(a)) = n /\ \A i \in 1..n : AsPings(a)[i] = Frame("ping", a[i].pl)
        /\ Len(AsPings(b)) = m /\ \A i \in 1..m : AsPings(b)[i] = Frame("ping", b[i].pl)
    BY <1>1, AsPingsIs
  <1>4. \A i \in 1..n : AsPings(a)[i] = AsPings(b)[i]
    BY <1>2, <1>3, Zenon
  <1> QED
    BY <1>2, <1>3, <1>4, Zenon DEF Begins

-----------------------------------------------------------------------------
(* One kind of answers.                                                      *)

\* Of the frames asked, those answered come first, and owed is the answer not
\* yet sent; while the side works, nothing is missing.
Even(answered, owed, asked, works) ==
    Begins(answered, asked) /\ (works => answered \o owed = asked)

LEMMA EvenAsked ==
    ASSUME NEW a \in Seq(FrameSet), NEW g \in Seq(FrameSet), NEW x \in FrameSet,
           NEW works \in BOOLEAN, Even(a, <<>>, g, works)
    PROVE  Even(a, <<x>>, Append(g, x), works)
  <1>1. Begins(a, Append(g, x))
    BY BeginsAppend DEF Even
  <1>2. works => a = g
    BY DEF Even
  <1>3. a \o <<x>> = Append(a, x)
    OBVIOUS
  <1> QED
    BY <1>1, <1>2, <1>3 DEF Even

\* a and r are what was answered before and after the answer x was due.
LEMMA EvenAnswered ==
    ASSUME NEW a \in Seq(FrameSet), NEW g \in Seq(FrameSet), NEW x \in FrameSet,
           NEW r, NEW works \in BOOLEAN, NEW still \in BOOLEAN, Even(a, <<x>>, g, works),
           (r = a /\ ~still) \/ (r = Append(a, x) /\ works)
    PROVE  Even(r, <<>>, g, still)
  <1>1. CASE r = a /\ ~still
    BY <1>1 DEF Even
  <1>2. CASE r = Append(a, x) /\ works
    <2>1. r \in Seq(FrameSet) /\ r = a \o <<x>> /\ r \o <<>> = r
      BY <1>2
    <2>2. r = g
      BY <1>2, <2>1 DEF Even
    <2> QED
      BY <2>1, <2>2, BeginsItself DEF Even
  <1> QED
    BY <1>1, <1>2

LEMMA EvenKept ==
    ASSUME NEW a, NEW o, NEW g, NEW works \in BOOLEAN, NEW still \in BOOLEAN,
           Even(a, o, g, works), still => works
    PROVE  Even(a, o, g, still)
  BY DEF Even

-----------------------------------------------------------------------------
(* The answers of both sides.                                                *)

\* The frames of a kind s sent, and the one its hook is about to.
Told(s, kind) == Payloads(FramesOf(s), kind)
Due(s, kind) == IF loop[s] = "hook" /\ reply[s].kind = kind THEN <<reply[s]>> ELSE <<>>

\* Every ping is answered in turn until a write fails,
PongsEven(s) ==
    Even(AsPings(Told(s, "pong")), AsPings(Due(s, "pong")), Payloads(got[s], "ping"), ~broken[s])

\* and so are the texts of an echo server, until it has sent a close.
TextsEven(s) ==
    /\ Even(Told(s, "text"), Due(s, "text"), Payloads(got[s], "text"),
            app = "echo" /\ ~broken[s] /\ ~closeSent[s])
    /\ app # "echo" => Due(s, "text") = <<>>

EvenSide(s) == PongsEven(s) /\ (s = "server" => TextsEven(s))

\* Nothing the answers of s depend on changes, but for a write that fails or a
\* close that is sent.
AnswersStay(s) ==
    /\ got'[s] = got[s] /\ app' = app
    /\ Told(s, "pong")' = Told(s, "pong") /\ Due(s, "pong")' = Due(s, "pong")
    /\ s = "server" => Told(s, "text")' = Told(s, "text") /\ Due(s, "text")' = Due(s, "text")
    /\ broken[s] => broken'[s]
    /\ closeSent[s] => closeSent'[s]

LEMMA EvenStays ==
    ASSUME NEW s \in Side, EvenSide(s), AnswersStay(s)
    PROVE  EvenSide(s)'
  <1>1. PongsEven(s)'
    <2>1. ~broken'[s] => ~broken[s]
      BY DEF AnswersStay
    <2>2. Even(AsPings(Told(s, "pong")), AsPings(Due(s, "pong")), Payloads(got[s], "ping"), ~broken'[s])
      BY <2>1, EvenKept DEF EvenSide, PongsEven
    <2>3. AsPings(Told(s, "pong")') = AsPings(Told(s, "pong")) /\ AsPings(Due(s, "pong")') = AsPings(Due(s, "pong"))
      BY Zenon DEF AnswersStay
    <2>4. got'[s] = got[s]
      BY DEF AnswersStay
    <2> QED
      BY <2>2, <2>3, <2>4, Zenon DEF PongsEven, AsPings, Payloads
  <1>2. ASSUME s = "server" PROVE TextsEven(s)'
    <2> DEFINE still == app' = "echo" /\ ~broken'[s] /\ ~closeSent'[s]
    <2>1. still => app = "echo" /\ ~broken[s] /\ ~closeSent[s]
      BY DEF AnswersStay
    <2>2. Even(Told(s, "text"), Due(s, "text"), Payloads(got[s], "text"), still)
      BY <1>2, <2>1, EvenKept DEF EvenSide, TextsEven
    <2>3. Told(s, "text")' = Told(s, "text") /\ Due(s, "text")' = Due(s, "text")
          /\ got'[s] = got[s] /\ app' = app
      BY <1>2 DEF AnswersStay
    <2>4. app # "echo" => Due(s, "text") = <<>>
      BY <1>2 DEF EvenSide, TextsEven
    <2> QED
      BY <2>2, <2>3, <2>4, Zenon DEF TextsEven, Payloads
  <1> QED
    BY <1>1, <1>2, Zenon DEF EvenSide

\* The frames of what a side has on record.
Frames(q) == [i \in DOMAIN q |-> q[i].f]

LEMMA FramesType ==
    ASSUME NEW q \in Seq(Entry)
    PROVE  /\ Frames(q) \in Seq(FrameSet) /\ Len(Frames(q)) = Len(q)
           /\ \A i \in 1..Len(q) : Frames(q)[i] = q[i].f
  <1>1. PICK n \in Nat : n = Len(q) /\ DOMAIN q = 1..n
    OBVIOUS
  <1>2. \A e \in Entry : e.f \in FrameSet
    BY DEF Entry
  <1>3. \A i \in 1..n : q[i] \in Entry
    BY <1>1
  <1>4. \A i \in 1..n : q[i].f \in FrameSet
    BY <1>2, <1>3, Zenon
  <1>5. Frames(q) = [i \in 1..n |-> q[i].f]
    BY <1>1, Zenon DEF Frames
  <1>6. Frames(q) \in [1..n -> FrameSet] /\ \A i \in 1..n : Frames(q)[i] = q[i].f
    BY <1>4, <1>5, Zenon
  <1> QED
    BY <1>1, <1>6

LEMMA FramesAppend ==
    ASSUME NEW q \in Seq(Entry), NEW e \in Entry
    PROVE  Frames(Append(q, e)) = Append(Frames(q), e.f)
  <1>1. PICK n \in Nat, z \in Seq(Entry), f \in FrameSet : n = Len(q) /\ z = Append(q, e) /\ f = e.f
    <2>1. Len(q) \in Nat /\ Append(q, e) \in Seq(Entry) /\ e.f \in FrameSet
      BY DEF Entry
    <2> QED
      BY <2>1
  <1>2. Len(z) = n + 1 /\ z[n + 1] = e /\ \A i \in 1..n : z[i] = q[i]
    BY <1>1
  <1>3. PICK p, w \in Seq(FrameSet) : p = Frames(q) /\ w = Frames(z)
    BY FramesType
  <1>4. /\ Len(p) = n /\ \A i \in 1..n : p[i] = q[i].f
        /\ Len(w) = n + 1 /\ \A i \in 1..(n + 1) : w[i] = z[i].f
    <2>1. Len(p) = Len(q) /\ \A i \in 1..Len(q) : p[i] = q[i].f
      BY <1>3, FramesType, Zenon
    <2>2. Len(w) = Len(z) /\ \A i \in 1..Len(z) : w[i] = z[i].f
      BY <1>3, FramesType, Zenon
    <2> QED
      BY <1>1, <1>2, <2>1, <2>2, Zenon
  <1>5. /\ Append(p, f) \in Seq(FrameSet) /\ Len(Append(p, f)) = n + 1
        /\ Append(p, f)[n + 1] = f /\ \A i \in 1..n : Append(p, f)[i] = p[i]
    BY <1>4
  <1>6. ASSUME NEW i \in 1..(n + 1) PROVE w[i] = Append(p, f)[i]
    <2>1. CASE i = n + 1
      BY <1>1, <1>2, <1>4, <1>5, <2>1, Zenon
    <2>2. CASE i \in 1..n
      <3>1. w[i] = z[i].f /\ z[i] = q[i] /\ p[i] = q[i].f
        BY <1>2, <1>4, <2>2, Zenon
      <3> QED
        BY <1>5, <2>2, <3>1, Zenon
    <2>3. i = n + 1 \/ i \in 1..n
      OBVIOUS
    <2> QED
      BY <2>1, <2>2, <2>3, Zenon
  <1>7. w = Append(p, f)
    BY <1>4, <1>5, <1>6
  <1> QED
    BY <1>1, <1>3, <1>7, Zenon

\* f was sent, or could not be: its writer broke, or a close was sent before.
ToldOrNot(s, f, kind) ==
    \/ Told(s, kind)' = Told(s, kind) /\ (f.kind = kind => broken'[s] \/ Refused(s, f))
    \/ /\ f.kind = kind /\ Told(s, kind)' = Append(Told(s, kind), f)
       /\ ~broken[s] /\ ~Refused(s, f)

LEMMA ToldAfter ==
    ASSUME Shape, NEW s \in Side, NEW f \in FrameSet,
           NEW who \in {"app", "hook", "farewell"}, Sends(s, f, who), NEW kind
    PROVE  ToldOrNot(s, f, kind)
  <1>1. CASE sent' = sent
    <2>1. broken'[s] \/ Refused(s, f)
      <3>1. CASE Refused(s, f)
        BY <3>1
      <3>2. CASE broken' = [broken EXCEPT ![s] = TRUE]
        BY <3>2 DEF Shape
      <3>3. CASE sent' = [sent EXCEPT ![s] = Append(@, [f |-> f, who |-> who])]
        <4>1. sent'[s] = Append(sent[s], [f |-> f, who |-> who]) /\ sent[s] \in Seq(Entry)
          BY <3>3 DEF Shape
        <4>2. [f |-> f, who |-> who] \in Entry
          BY DEF Entry
        <4>3. Len(sent'[s]) = Len(sent[s]) + 1 /\ Len(sent[s]) \in Nat
          BY <4>1, <4>2, Appended
        <4> QED
          BY <1>1, <4>3
      <3> QED
        BY <3>1, <3>2, <3>3 DEF Sends
    <2>2. Told(s, kind)' = Told(s, kind)
      BY <1>1 DEF Told, FramesOf
    <2> QED
      BY <2>1, <2>2 DEF ToldOrNot
  <1>2. CASE sent' # sent
    <2> DEFINE e == [f |-> f, who |-> who]
    <2>1. ~Refused(s, f) /\ ~broken[s] /\ sent' = [sent EXCEPT ![s] = Append(@, e)]
      BY <1>2 DEF Sends, Takes, writer
    <2>2. e \in Entry /\ e.f = f
      BY DEF Entry
    <2>3. sent'[s] = Append(sent[s], e)
      BY <2>1 DEF Shape
    <2>4. FramesOf(s)' = Append(FramesOf(s), f)
      <3> HIDE DEF e
      <3> QED
        <4>1. FramesOf(s)' = Frames(sent'[s]) /\ FramesOf(s) = Frames(sent[s])
          BY Zenon DEF FramesOf, Frames
        <4>2. sent[s] \in Seq(Entry)
          BY DEF Shape
        <4> QED
          BY <2>2, <2>3, <4>1, <4>2, FramesAppend, Zenon
    <2>5. Told(s, kind)' = Payloads(Append(FramesOf(s), f), kind)
      BY <2>4, Zenon DEF Told, Payloads
    <2>6. Told(s, kind)' = IF f.kind = kind THEN Append(Told(s, kind), f) ELSE Told(s, kind)
      <3>1. FramesOf(s) = Frames(sent[s]) /\ sent[s] \in Seq(Entry)
        BY DEF FramesOf, Frames, Shape
      <3>2. FramesOf(s) \in Seq(FrameSet)
        BY <3>1, FramesType, Zenon
      <3>3. PICK q \in Seq(FrameSet) : q = FramesOf(s)
        BY <3>2
      <3>4. Payloads(Append(q, f), kind) =
               IF f.kind = kind THEN Append(Payloads(q, kind), f) ELSE Payloads(q, kind)
        BY PayloadsAppend
      <3> QED
        BY <2>5, <3>3, <3>4, Zenon DEF Told
    <2> QED
      BY <2>1, <2>6 DEF ToldOrNot
  <1> QED
    BY <1>1, <1>2

-----------------------------------------------------------------------------
(* Every step keeps the answers even.                                        *)

\* What a step does to a side that is not about to answer.
LEMMA Untouched ==
    ASSUME NEW t \in Side, app' = app, sent'[t] = sent[t], got'[t] = got[t],
           broken[t] => broken'[t], closeSent[t] => closeSent'[t],
           \/ loop'[t] = loop[t] /\ reply'[t] = reply[t]
           \/ loop[t] # "hook" /\ loop'[t] # "hook"
    PROVE  AnswersStay(t)
  <1>1. Told(t, "pong")' = Told(t, "pong") /\ Told(t, "text")' = Told(t, "text")
    BY Zenon DEF Told, FramesOf, Payloads
  <1>2. Due(t, "pong")' = Due(t, "pong") /\ Due(t, "text")' = Due(t, "text")
    BY DEF Due
  <1> QED
    BY <1>1, <1>2 DEF AnswersStay

AnswersInv == \A s \in Side : EvenSide(s)

LEMMA AnswersUntouched ==
    ASSUME AnswersInv, \A t \in Side : AnswersStay(t)
    PROVE  AnswersInv'
  <1>1. \A t \in Side : EvenSide(t)'
    BY EvenStays DEF AnswersInv
  <1> QED
    BY <1>1 DEF AnswersInv

LEMMA OneSideAnswers ==
    ASSUME AnswersInv, NEW s \in Side, EvenSide(s)', \A t \in Side : t = s \/ AnswersStay(t)
    PROVE  AnswersInv'
  <1>1. \A t \in Side : EvenSide(t)'
    BY EvenStays DEF AnswersInv
  <1> QED
    BY <1>1 DEF AnswersInv

\* A ping is answered with its payload, a text of the client's by an echo server
\* with itself; to nothing else is there an answer of these kinds.
Replied(s, f) ==
    /\ Due(s, "pong")' = IF f.kind = "ping" THEN <<Frame("pong", f.pl)>> ELSE <<>>
    /\ s = "server" => Due(s, "text")' = IF f.kind = "text" /\ app = "echo" THEN <<f>> ELSE <<>>

LEMMA ReadFrameReplies ==
    ASSUME Shape, NEW s \in Side, ReadFrame(s)
    PROVE  \E f \in FrameSet : got' = [got EXCEPT ![s] = Append(@, f)] /\ Replied(s, f)
  <1>1. loop[s] = "reading" /\ transit[s] # <<>>
    BY DEF ReadFrame
  <1>2. PICK f \in FrameSet : f = Head(transit[s])
    BY <1>1, Beheaded DEF Shape
  <1>3. /\ got' = [got EXCEPT ![s] = Append(@, f)]
        /\ \/ Verdict(s, f) # "none" /\ Returns(s, Verdict(s, f)) /\ UNCHANGED reply
           \/ Verdict(s, f) = "none" /\ Route(s, f)
    BY <1>2 DEF ReadFrame
  <1>4. loop \in [Side -> {"reading", "hook", "returned", "done", "left"}]
        /\ reply \in [Side -> FrameSet \cup {NoFrame}]
    BY DEF Shape
  <1>5. Replied(s, f)
    <2>1. CASE Verdict(s, f) # "none" /\ Returns(s, Verdict(s, f))
      <3>1. f.kind \notin {"ping", "text"} /\ loop'[s] = "returned"
        BY <1>4, <2>1 DEF Verdict, Returns, Loop
      <3> QED
        BY <3>1 DEF Replied, Due
    <2>2. CASE f.kind = "ping" /\ RFC6455PingHook(s, f)
      <3>1. loop'[s] = "hook" /\ reply'[s] = Frame("pong", f.pl)
        BY <1>4, <2>2 DEF RFC6455PingHook, Hook, Loop
      <3>2. Frame("pong", f.pl).kind = "pong"
        BY DEF Frame
      <3> QED
        BY <2>2, <3>1, <3>2 DEF Replied, Due
    <2>3. CASE f.kind = "pong" /\ Reading(s)
      <3>1. loop'[s] = "reading"
        BY <1>4, <2>3 DEF Reading, Loop
      <3> QED
        BY <2>3, <3>1 DEF Replied, Due
    <2>4. CASE f.kind = "close" /\ RFC6455CloseHook(s, f)
      <3>1. reply'[s].kind = "close"
        BY <1>4, <2>4 DEF RFC6455CloseHook, Hook, Frame
      <3> QED
        BY <2>4, <3>1 DEF Replied, Due
    <2>5. CASE f.kind = "reserved" /\ RFC6455UnknownHook(s, f)
      <3>1. reply'[s].kind = "close"
        BY <1>4, <2>5 DEF RFC6455UnknownHook, Hook, Frame
      <3> QED
        BY <2>5, <3>1 DEF Replied, Due
    <2>6. CASE f.kind \in {"text", "badtext"} /\ s = "server" /\ app = "echo" /\ Hook(s, f)
      <3>1. loop'[s] = "hook" /\ reply'[s] = f
        BY <1>4, <2>6 DEF Hook, Loop
      <3> QED
        BY <2>6, <3>1 DEF Replied, Due
    <2>7. CASE /\ f.kind \in {"text", "badtext"} /\ s = "server" /\ app = "stream"
               /\ Hook(s, Frame("close", 1003))
      <3>1. reply'[s].kind = "close"
        BY <1>4, <2>7 DEF Hook, Frame
      <3> QED
        BY <2>7, <3>1 DEF Replied, Due
    <2>8. CASE f.kind \in {"text", "badtext"} /\ s = "client" /\ Reading(s)
      <3>1. loop'[s] = "reading"
        BY <1>4, <2>8 DEF Reading, Loop
      <3> QED
        BY <2>8, <3>1 DEF Replied, Due
    <2> QED
      BY <1>3, <2>1, <2>2, <2>3, <2>4, <2>5, <2>6, <2>7, <2>8 DEF Route, MessageHook
  <1> QED
    BY <1>3, <1>5

LEMMA PingIsPing == ASSUME NEW f \in FrameSet, f.kind = "ping" PROVE f = Frame("ping", f.pl)
  BY DEF FrameSet, Frame

LEMMA AsPingsOne == ASSUME NEW f \in FrameSet PROVE AsPings(<<f>>) = <<Frame("ping", f.pl)>>
  BY DEF AsPings

LEMMA AsPingsNone == AsPings(<<>>) = <<>>
  BY DEF AsPings

\* The types of what PongsEven and TextsEven speak of.
LEMMA AnswerTypes ==
    ASSUME Shape, NEW s \in Side, NEW kind
    PROVE  /\ Told(s, kind) \in Seq(FrameSet) /\ AsPings(Told(s, kind)) \in Seq(FrameSet)
           /\ Payloads(got[s], kind) \in Seq(FrameSet)
  <1>1. sent[s] \in Seq(Entry) /\ got[s] \in Seq(FrameSet) /\ FramesOf(s) = Frames(sent[s])
    BY DEF Shape, FramesOf, Frames
  <1> QED
    BY <1>1, FramesType, PayloadsType, AsPingsIs DEF Told

LEMMA ReadFrameEven ==
    ASSUME SessionInv, AnswersInv, NEW s \in Side, ReadFrame(s)
    PROVE  AnswersInv'
  <1>1. PICK f \in FrameSet : got' = [got EXCEPT ![s] = Append(@, f)] /\ Replied(s, f)
    BY ReadFrameReplies DEF SessionInv
  <1>2. /\ app' = app /\ sent' = sent /\ broken' = broken /\ closeSent' = closeSent
        /\ loop[s] = "reading" /\ EvenSide(s) /\ Shape
    BY DEF ReadFrame, config, writer, AnswersInv, SessionInv
  <1>3. got[s] \in Seq(FrameSet) /\ got'[s] = Append(got[s], f)
    BY <1>1, <1>2 DEF Shape
  <1>4. /\ Told(s, "pong")' = Told(s, "pong") /\ Told(s, "text")' = Told(s, "text")
        /\ Due(s, "pong") = <<>> /\ Due(s, "text") = <<>>
    BY <1>2 DEF Told, FramesOf, Due
  <1>5. PongsEven(s)'
    <2> DEFINE a == AsPings(Told(s, "pong"))
               g == Payloads(got[s], "ping")
    <2>1. a \in Seq(FrameSet) /\ g \in Seq(FrameSet)
      BY <1>2, AnswerTypes
    <2>2. Even(a, <<>>, g, ~broken[s])
      BY <1>2, <1>4, AsPingsNone DEF EvenSide, PongsEven
    <2>3. /\ f.kind = "ping" => Payloads(got'[s], "ping") = Append(g, f)
          /\ f.kind # "ping" => Payloads(got'[s], "ping") = g
      BY <1>3, PayloadsAppend
    <2>4. CASE f.kind = "ping"
      <3>1. AsPings(Due(s, "pong")') = <<f>>
        <4>1. f.pl \in Nat
          BY DEF FrameSet
        <4>2. Frame("pong", f.pl) \in FrameSet /\ Frame("pong", f.pl).pl = f.pl
          BY <4>1, FrameIsFrame DEF Frame, Kind
        <4>3. Due(s, "pong")' = <<Frame("pong", f.pl)>>
          BY <1>1, <2>4 DEF Replied
        <4>4. AsPings(<<Frame("pong", f.pl)>>) = <<Frame("ping", f.pl)>>
          BY <4>2, AsPingsOne, Zenon
        <4> QED
          BY <2>4, <4>3, <4>4, PingIsPing, Zenon
      <3>2. Payloads(got'[s], "ping") = Append(g, f)
        BY <2>3, <2>4, Zenon
      <3> HIDE DEF a, g
      <3>3. Even(a, <<f>>, Append(g, f), ~broken[s])
        BY <2>1, <2>2, EvenAsked
      <3>4. Even(a, AsPings(Due(s, "pong")'), Payloads(got'[s], "ping"), ~broken'[s])
        BY <1>2, <3>1, <3>2, <3>3, Zenon
      <3> QED
        BY <1>4, <3>4, Zenon DEF PongsEven, AsPings, Payloads, a
    <2>5. CASE f.kind # "ping"
      <3>1. AsPings(Due(s, "pong")') = <<>>
        BY <1>1, <2>5, AsPingsNone DEF Replied
      <3>2. Even(a, AsPings(Due(s, "pong")'), Payloads(got'[s], "ping"), ~broken'[s])
        BY <1>2, <2>2, <2>3, <2>5, <3>1, Zenon
      <3> QED
        BY <1>4, <3>2, Zenon DEF PongsEven, AsPings, Payloads
    <2> QED
      BY <2>4, <2>5
  <1>6. ASSUME s = "server" PROVE TextsEven(s)'
    <2> DEFINE a == Told(s, "text")
               g == Payloads(got[s], "text")
               w == app = "echo" /\ ~broken[s] /\ ~closeSent[s]
    <2>1. a \in Seq(FrameSet) /\ g \in Seq(FrameSet)
      BY <1>2, AnswerTypes
    <2>2. Even(a, <<>>, g, w)
      BY <1>2, <1>4, <1>6 DEF EvenSide, TextsEven
    <2>3. /\ f.kind = "text" => Payloads(got'[s], "text") = Append(g, f)
          /\ f.kind # "text" => Payloads(got'[s], "text") = g
      BY <1>3, PayloadsAppend
    <2>4. Due(s, "text")' = IF f.kind = "text" /\ app = "echo" THEN <<f>> ELSE <<>>
      BY <1>1, <1>6 DEF Replied
    <2>5. Even(a, Due(s, "text")', Payloads(got'[s], "text"), w)
      <3>1. CASE f.kind = "text" /\ app = "echo"
        <4> HIDE DEF a, g
        <4>1. Even(a, <<f>>, Append(g, f), w)
          BY <2>1, <2>2, EvenAsked
        <4> QED
          BY <2>3, <2>4, <3>1, <4>1, Zenon
      <3>2. CASE f.kind = "text" /\ app # "echo"
        <4> HIDE DEF a, g
        <4>1. Begins(a, Append(g, f)) /\ ~w
          BY <2>1, <2>2, <3>2, BeginsAppend DEF Even
        <4>2. Payloads(got'[s], "text") = Append(g, f)
          BY <2>3, <3>2, Zenon
        <4> HIDE DEF w
        <4> QED
          BY <4>1, <4>2, Zenon DEF Even
      <3>3. CASE f.kind # "text"
        BY <2>2, <2>3, <2>4, <3>3, Zenon
      <3> QED
        BY <3>1, <3>2, <3>3
    <2>6. app' # "echo" => Due(s, "text")' = <<>>
      BY <1>2, <2>4
    <2> QED
      BY <1>2, <1>4, <2>5, <2>6, Zenon DEF TextsEven, Payloads
  <1>7. EvenSide(s)'
    BY <1>5, <1>6 DEF EvenSide
  <1>8. \A t \in Side : t = s \/ AnswersStay(t)
    <2>1. ASSUME NEW t \in Side, t # s PROVE AnswersStay(t)
      <3>1. got'[t] = got[t]
        BY <1>1, <2>1
      <3>2. loop'[t] = loop[t] /\ reply'[t] = reply[t]
        <4>1. PICK h \in FrameSet : h = Head(transit[s])
          BY <1>2, Beheaded DEF ReadFrame, Shape
        <4>2. \/ Verdict(s, h) # "none" /\ Returns(s, Verdict(s, h)) /\ UNCHANGED reply
              \/ Verdict(s, h) = "none" /\ Route(s, h)
          BY <4>1 DEF ReadFrame
        <4>3. \E at : loop' = [loop EXCEPT ![s] = at]
          BY <1>2, <4>2, RouteEffect DEF Returns, Loop, GoesOn, Replies
        <4>4. reply' = reply \/ \E r : reply' = [reply EXCEPT ![s] = r]
          BY <1>2, <4>2, RouteEffect DEF GoesOn, Replies
        <4> QED
          BY <1>2, <2>1, <4>3, <4>4 DEF Shape
      <3> QED
        BY <1>2, <3>1, <3>2, Untouched
    <2> QED
      BY <2>1
  <1> QED
    BY <1>7, <1>8, OneSideAnswers

\* The hook sent its answer, or could not; nothing is due any more.
LEMMA AnswerEven ==
    ASSUME SessionInv, AnswersInv, NEW s \in Side, Answer(s), Shape'
    PROVE  AnswersInv'
  <1>s. PICK p \in Side : p = Peer(s) /\ p # s /\ \A t \in Side : t = s \/ t = p
    BY Sides
  <1>1. /\ loop[s] = "hook" /\ Sends(s, reply[s], "hook") /\ app' = app /\ got' = got
        /\ EvenSide(s) /\ Shape /\ \A t \in Side : Carried(t) /\ ClosedOnce(t)
    BY DEF Answer, config, AnswersInv, SessionInv, SideInv
  <1>2. PICK r \in FrameSet : r = reply[s]
    BY <1>1 DEF Shape
  <1>3. Sender(s, r, "hook") /\ Receiver(p)
    BY <1>s, <1>1, <1>2, SendsEffect
  <1>4. \E at \in {"reading", "returned"} : loop' = [loop EXCEPT ![s] = at]
    BY DEF Answer, Loop, Returns
  <1>5. reply' = [reply EXCEPT ![s] = NoFrame]
    BY DEF Answer
  <1>6. \A kind : Due(s, kind)' = <<>> /\ Due(s, kind) = IF r.kind = kind THEN <<r>> ELSE <<>>
    BY <1>1, <1>2, <1>4 DEF Shape, Due
  <1>7. ToldOrNot(s, r, "pong") /\ ToldOrNot(s, r, "text")
    BY <1>1, <1>2, ToldAfter
  <1>8. PongsEven(s)'
    <2>1. PICK a, g \in Seq(FrameSet) : a = AsPings(Told(s, "pong")) /\ g = Payloads(got[s], "ping")
      BY <1>1, AnswerTypes
    <2>2. PICK b : b = AsPings(Told(s, "pong")')
      OBVIOUS
    <2>3. Even(b, <<>>, g, ~broken'[s])
      <3>1. CASE r.kind = "pong"
        <4>1. PICK x \in FrameSet : x = Frame("ping", r.pl)
          <5>1. r.pl \in Nat
            BY DEF FrameSet
          <5> QED
            BY <5>1, FrameIsFrame DEF Kind
        <4>2. AsPings(Due(s, "pong")) = <<x>>
          BY <1>6, <3>1, <4>1, AsPingsOne
        <4>3. Even(a, <<x>>, g, ~broken[s])
          BY <1>1, <2>1, <4>2 DEF EvenSide, PongsEven
        <4>4. ~Refused(s, r)
          BY <3>1 DEF Refused
        <4>5. (b = a /\ broken'[s]) \/ (b = Append(a, x) /\ ~broken[s])
          <5>1. CASE Told(s, "pong")' = Told(s, "pong") /\ broken'[s]
            BY <2>1, <2>2, <5>1, Zenon
          <5>2. CASE Told(s, "pong")' = Append(Told(s, "pong"), r) /\ ~broken[s]
            <6>1. AsPings(Append(Told(s, "pong"), r)) = Append(AsPings(Told(s, "pong")), Frame("ping", r.pl))
              BY <1>1, AnswerTypes, AsPingsAppend
            <6> QED
              BY <2>1, <2>2, <4>1, <5>2, <6>1, Zenon
          <5> QED
            BY <1>7, <3>1, <4>4, <5>1, <5>2 DEF ToldOrNot
        <4> QED
          BY <4>3, <4>5, EvenAnswered
      <3>2. CASE r.kind # "pong"
        <4>1. Told(s, "pong")' = Told(s, "pong")
          BY <1>7, <3>2 DEF ToldOrNot
        <4>2. b = a
          BY <2>1, <2>2, <4>1, Zenon
        <4>3. Even(a, <<>>, g, ~broken[s])
          BY <1>1, <1>6, <2>1, <3>2, AsPingsNone DEF EvenSide, PongsEven
        <4>4. ~broken'[s] => ~broken[s]
          BY <1>3 DEF Sender
        <4> QED
          BY <4>2, <4>3, <4>4, EvenKept
      <3> QED
        BY <3>1, <3>2
    <2>4. AsPings(Due(s, "pong")') = <<>>
      BY <1>6, AsPingsNone, Zenon
    <2> QED
      BY <1>1, <2>1, <2>2, <2>3, <2>4, Zenon DEF PongsEven, AsPings, Payloads
  <1>9. ASSUME s = "server" PROVE TextsEven(s)'
    <2> DEFINE w == app = "echo" /\ ~broken[s] /\ ~closeSent[s]
               still == app' = "echo" /\ ~broken'[s] /\ ~closeSent'[s]
    <2>1. PICK a, g \in Seq(FrameSet) : a = Told(s, "text") /\ g = Payloads(got[s], "text")
      BY <1>1, AnswerTypes
    <2>2. PICK b : b = Told(s, "text")'
      OBVIOUS
    <2>3. still => w
      BY <1>1, <1>3 DEF Sender
    <2>4. Even(b, <<>>, g, still)
      <3>1. CASE r.kind = "text"
        <4>1. Due(s, "text") = <<r>>
          BY <1>6, <3>1
        <4>2. Even(a, <<r>>, g, w) /\ app = "echo"
          BY <1>1, <1>9, <2>1, <4>1 DEF EvenSide, TextsEven
        <4>3. (b = a /\ ~still) \/ (b = Append(a, r) /\ w)
          <5>1. CASE Told(s, "text")' = Told(s, "text") /\ (broken'[s] \/ Refused(s, r))
            <6>1. Refused(s, r) => closeSent'[s]
              BY <1>3 DEF Refused, Sender
            <6> QED
              BY <2>1, <2>2, <5>1, <6>1, Zenon
          <5>2. CASE Told(s, "text")' = Append(Told(s, "text"), r) /\ ~broken[s] /\ ~Refused(s, r)
            <6>1. ~closeSent[s]
              BY <3>1, <5>2 DEF Refused
            <6> QED
              BY <2>1, <2>2, <4>2, <5>2, <6>1, Zenon
          <5> QED
            BY <1>7, <3>1, <5>1, <5>2 DEF ToldOrNot
        <4> HIDE DEF w, still
        <4>4. w \in BOOLEAN /\ still \in BOOLEAN
          BY DEF w, still
        <4> QED
          BY <4>2, <4>3, <4>4, EvenAnswered
      <3>2. CASE r.kind # "text"
        <4>1. b = a
          BY <1>7, <2>1, <2>2, <3>2 DEF ToldOrNot
        <4>2. Even(a, <<>>, g, w)
          BY <1>1, <1>6, <1>9, <2>1, <3>2 DEF EvenSide, TextsEven
        <4> HIDE DEF w, still
        <4>3. w \in BOOLEAN /\ still \in BOOLEAN
          BY DEF w, still
        <4>4. Even(a, <<>>, g, still)
          BY <2>3, <4>2, <4>3, EvenKept
        <4> QED
          BY <4>1, <4>4, Zenon
      <3> QED
        BY <3>1, <3>2
    <2>5. Due(s, "text")' = <<>>
      BY <1>6, Zenon
    <2> QED
      BY <1>1, <2>1, <2>2, <2>4, <2>5, Zenon DEF TextsEven, Payloads
  <1>10. EvenSide(s)'
    BY <1>8, <1>9 DEF EvenSide
  <1>11. AnswersStay(p)
    <2>1. loop'[p] = loop[p] /\ reply'[p] = reply[p]
      BY <1>s, <1>1, <1>4, <1>5 DEF Shape
    <2> QED
      BY <1>1, <1>3, <2>1, Untouched DEF Receiver
  <1> QED
    BY <1>s, <1>10, <1>11, OneSideAnswers

\* The frames an application sends are questions and not answers: no pong that
\* answers no ping, and from the server no text but the echo.  SendPong and
\* SendText are open to any caller; a side whose caller uses them so answers what
\* it was not asked.
AppsOnlyAsk ==
    \A s \in Side : \A f \in AppFrame[s] : f.kind # "pong" /\ (s = "server" => f.kind # "text")

\* A send of something that is no answer.
LEMMA SendStays ==
    ASSUME Shape, \A t \in Side : Carried(t) /\ ClosedOnce(t), NEW s \in Side, NEW f \in FrameSet,
           NEW who \in {"app", "farewell"}, Sends(s, f, who), got' = got, app' = app,
           f.kind # "pong" /\ (s = "server" => f.kind # "text"),
           \A t \in Side : \/ loop'[t] = loop[t] /\ reply'[t] = reply[t]
                           \/ loop[t] # "hook" /\ loop'[t] # "hook"
    PROVE  \A t \in Side : AnswersStay(t)
  <1>s. PICK p \in Side : p = Peer(s) /\ p # s /\ \A t \in Side : t = s \/ t = p
    BY Sides
  <1>1. Sender(s, f, who) /\ Receiver(p)
    BY <1>s, SendsEffect
  <1>2. AnswersStay(p)
    BY <1>1, Untouched DEF Receiver
  <1>3. AnswersStay(s)
    <2>1. ToldOrNot(s, f, "pong") /\ ToldOrNot(s, f, "text")
      BY ToldAfter
    <2>2. Told(s, "pong")' = Told(s, "pong") /\ (s = "server" => Told(s, "text")' = Told(s, "text"))
      BY <2>1 DEF ToldOrNot
    <2>3. Due(s, "pong")' = Due(s, "pong") /\ Due(s, "text")' = Due(s, "text")
      BY DEF Due
    <2> QED
      BY <1>1, <2>2, <2>3 DEF AnswersStay, Sender
  <1> QED
    BY <1>s, <1>2, <1>3

LEMMA FarewellEven ==
    ASSUME SessionInv, AnswersInv, NEW s \in Side, Farewell(s)
    PROVE  AnswersInv'
  <1>1. /\ Shape /\ \A t \in Side : Carried(t) /\ ClosedOnce(t)
        /\ got' = got /\ app' = app /\ reply' = reply /\ loop[s] = "returned"
        /\ loop' = [loop EXCEPT ![s] = "done"]
    BY DEF SessionInv, SideInv, Farewell, config, Loop
  <1>2. \A t \in Side : \/ loop'[t] = loop[t] /\ reply'[t] = reply[t]
                        \/ loop[t] # "hook" /\ loop'[t] # "hook"
    BY <1>1 DEF Shape
  <1>3. CASE UNCHANGED <<net, writer>>
    <2>1. sent' = sent /\ broken' = broken /\ closeSent' = closeSent
      BY <1>3 DEF writer
    <2>2. \A t \in Side : AnswersStay(t)
      BY <1>1, <1>2, <2>1, Untouched
    <2> QED
      BY <2>2, AnswersUntouched
  <1>4. CASE /\ StandardClosePayloadFor(lerr[s]) # 0
             /\ Sends(s, Frame("close", StandardClosePayloadFor(lerr[s])), "farewell")
    <2>1. StandardClosePayloadFor(lerr[s]) \in Nat
      BY DEF StandardClosePayloadFor
    <2>2. PICK f \in FrameSet : f.kind = "close" /\ Sends(s, f, "farewell")
      BY <1>4, <2>1, FrameIsFrame DEF Frame, Kind
    <2>3. \A t \in Side : AnswersStay(t)
      BY <1>1, <1>2, <2>2, SendStays
    <2> QED
      BY <2>3, AnswersUntouched
  <1> QED
    BY <1>3, <1>4 DEF Farewell

LEMMA AppSendEven ==
    ASSUME AppsOnlyAsk, SessionInv, AnswersInv, NEW s \in Side, NEW f \in AppFrame[s], AppSend(s, f)
    PROVE  AnswersInv'
  <1>1. /\ Shape /\ \A t \in Side : Carried(t) /\ ClosedOnce(t)
        /\ got' = got /\ app' = app /\ reply' = reply /\ loop' = loop
    BY DEF SessionInv, SideInv, AppSend, config
  <1>2. f \in FrameSet /\ sends[s] + 1 \in Nat
    BY <1>1, SessionAssumption DEF FrameSet, Shape
  <1>3. PICK g \in FrameSet : g.kind = f.kind /\ Sends(s, g, "app")
    <2>1. f.kind \in Kind
      BY <1>2 DEF FrameSet
    <2>2. Frame(f.kind, sends[s] + 1) \in FrameSet /\ Frame(f.kind, sends[s] + 1).kind = f.kind
      BY <1>2, <2>1, FrameIsFrame DEF Frame
    <2> QED
      BY <1>2, <2>2 DEF AppSend
  <1>4. \A t \in Side : AnswersStay(t)
    BY <1>1, <1>3, SendStays DEF AppsOnlyAsk
  <1> QED
    BY <1>4, AnswersUntouched

\* A read that fails and a socket that is closed send nothing and take up nothing.
LEMMA NothingSaid ==
    ASSUME SessionInv, AnswersInv, NEW s \in Side,
           ReadFails(s) \/ ReadTimesOut(s) \/ Leave(s) \/ ProgramStops \/ UNCHANGED vars
    PROVE  AnswersInv'
  <1>1. /\ app' = app /\ sent' = sent /\ got' = got /\ reply' = reply
        /\ broken' = broken /\ closeSent' = closeSent
    BY DEF ReadFails, ReadTimesOut, Leave, ProgramStops, vars, config, writer
  <1>2. \/ loop' = loop
        \/ loop[s] # "hook" /\ \E at \in {"returned", "left"} : loop' = [loop EXCEPT ![s] = at]
    BY DEF ReadFails, ReadTimesOut, Leave, ProgramStops, vars, Returns, Loop
  <1>3. \A t \in Side : \/ loop'[t] = loop[t] /\ reply'[t] = reply[t]
                        \/ loop[t] # "hook" /\ loop'[t] # "hook"
    BY <1>1, <1>2 DEF SessionInv, Shape
  <1>4. \A t \in Side : AnswersStay(t)
    BY <1>1, <1>3, Untouched
  <1> QED
    BY <1>4, AnswersUntouched

LEMMA AnswersInit == Init => AnswersInv
  <1> SUFFICES ASSUME Init, NEW s \in Side PROVE EvenSide(s)
    BY DEF AnswersInv
  <1>1. sent[s] = <<>> /\ got[s] = <<>> /\ loop[s] = "reading"
    BY DEF Init
  <1>2. FramesOf(s) = <<>>
    BY <1>1 DEF FramesOf
  <1>3. \A kind : Told(s, kind) = <<>> /\ Due(s, kind) = <<>> /\ Payloads(got[s], kind) = <<>>
    BY <1>1, <1>2, PayloadsEmpty DEF Told, Due
  <1>4. \A works : Even(<<>>, <<>>, <<>>, works)
    BY DEF Even, Begins
  <1> QED
    BY <1>3, <1>4, AsPingsNone, Zenon DEF EvenSide, PongsEven, TextsEven

LEMMA AnswersStep ==
    ASSUME AppsOnlyAsk
    PROVE  SessionInv /\ AnswersInv /\ [Next]_vars => AnswersInv'
  <1> SUFFICES ASSUME SessionInv, AnswersInv, [Next]_vars PROVE AnswersInv'
    OBVIOUS
  <1>s. SessionInv' /\ Shape'
    BY SessionStep DEF SessionInv
  <1>1. ASSUME NEW s \in Side, LoopStep(s) PROVE AnswersInv'
    BY <1>1, <1>s, ReadFrameEven, NothingSaid, AnswerEven, FarewellEven DEF LoopStep
  <1>2. ASSUME NEW s \in Side, ReadTimesOut(s) PROVE AnswersInv'
    BY <1>2, NothingSaid
  <1>3. ASSUME NEW s \in Side, NEW f \in AppFrame[s], AppSend(s, f) PROVE AnswersInv'
    BY <1>3, AppSendEven
  <1>4. CASE ProgramStops \/ Quiet \/ UNCHANGED vars
    <2>1. "client" \in Side
      BY DEF Side
    <2> QED
      BY <1>4, <2>1, NothingSaid DEF Quiet
  <1> QED
    BY <1>1, <1>2, <1>3, <1>4 DEF Next

\* What a side took up is the beginning of what the other sent, of every kind.
LEMMA TakenUpBegins ==
    ASSUME Shape, NEW s \in Side, Carried(s), NEW kind
    PROVE  Begins(Payloads(got[s], kind), Told(Peer(s), kind))
  <1>1. PICK q \in Seq(Entry) : q = sent[Peer(s)]
    BY Sides DEF Shape
  <1>2. got[s] \in Seq(FrameSet) /\ transit[s] \in Seq(FrameSet)
    BY DEF Shape
  <1>3. PICK n, m, k \in Nat : n = Len(got[s]) /\ m = Len(transit[s]) /\ k = Len(q)
    BY <1>1, <1>2
  <1>4. n <= k /\ \A i \in 1..n : got[s][i] = q[i].f
    <2>1. n + m <= k
      BY <1>1, <1>3 DEF Carried
    <2>2. \A i \in 1..n : got[s][i] = q[i].f
      BY <1>1, <1>3 DEF Carried
    <2> QED
      BY <2>1, <2>2
  <1>5. PICK w \in Seq(FrameSet) : w = Frames(q)
    BY FramesType
  <1>6. Len(w) = k /\ \A i \in 1..k : w[i] = q[i].f
    BY <1>3, <1>5, FramesType, Zenon
  <1>7. Begins(got[s], w)
    <2>1. \A i \in 1..n : i \in 1..k
      BY <1>4
    <2>2. \A i \in 1..n : got[s][i] = w[i]
      BY <1>4, <1>6, <2>1, Zenon
    <2> QED
      BY <1>3, <1>4, <1>6, <2>2, Zenon DEF Begins
  <1>8. FramesOf(Peer(s)) = w
    BY <1>1, <1>5, Zenon DEF FramesOf, Frames
  <1> QED
    BY <1>2, <1>7, <1>8, PayloadsBegin DEF BeginsOfKind, Told

\* The pongs a side is sent answer its own pings, each payload in turn, and what an
\* echo server sends back are the client's texts in their order, although hooks
\* answer while applications send and channels run full (RFC6455PingHook, SendPong,
\* the Text hook of example/echo), if the applications only ask.
THEOREM AnswersStayInOrder == ASSUME AppsOnlyAsk PROVE Spec => []AnswersInOrder
  <1>1. ASSUME SessionInv, AnswersInv PROVE AnswersInOrder
    <2>1. Shape /\ \A s \in Side : Carried(s)
      BY <1>1 DEF SessionInv, SideInv
    <2>2. ASSUME NEW s \in Side
          PROVE  IsPrefix(AsPings(Payloads(got[s], "pong")), Payloads(FramesOf(s), "ping"))
      <3>1. PICK p \in Side : p = Peer(s) /\ Peer(p) = s
        BY Sides
      <3>2. PICK a, b, c, d \in Seq(FrameSet) :
               /\ a = Payloads(got[s], "pong") /\ b = Told(p, "pong")
               /\ c = Payloads(got[p], "ping") /\ d = Told(s, "ping")
        BY <2>1, AnswerTypes
      <3>3. AsPings(a) \in Seq(FrameSet) /\ AsPings(b) \in Seq(FrameSet)
        BY AsPingsIs
      <3>4. Begins(a, b) /\ Begins(c, d)
        BY <2>1, <3>1, <3>2, TakenUpBegins
      <3>5. Begins(AsPings(a), AsPings(b))
        BY <3>4, AsPingsBegin
      <3>6. Begins(AsPings(b), c)
        BY <1>1, <3>2 DEF AnswersInv, EvenSide, PongsEven, Even
      <3>7. Begins(AsPings(a), d)
        BY <3>3, <3>4, <3>5, <3>6, BeginsTransitive
      <3> QED
        BY <3>2, <3>3, <3>7, BeginsIsPrefix DEF Told
    <2>3. IsPrefix(Payloads(got["client"], "text"), Payloads(FramesOf("client"), "text"))
      <3>1. /\ "client" \in Side /\ "server" \in Side
            /\ Peer("client") = "server" /\ Peer("server") = "client"
        BY DEF Side, Peer
      <3>2. PICK a, b, c, d \in Seq(FrameSet) :
               /\ a = Payloads(got["client"], "text") /\ b = Told("server", "text")
               /\ c = Payloads(got["server"], "text") /\ d = Told("client", "text")
        BY <2>1, <3>1, AnswerTypes
      <3>3. Begins(a, b) /\ Begins(c, d)
        BY <2>1, <3>1, <3>2, TakenUpBegins
      <3>4. Begins(b, c)
        BY <1>1, <3>1, <3>2 DEF AnswersInv, EvenSide, TextsEven, Even
      <3>5. Begins(a, d)
        BY <3>3, <3>4, BeginsTransitive
      <3> QED
        BY <3>2, <3>5, BeginsIsPrefix DEF Told
    <2> QED
      BY <2>2, <2>3 DEF AnswersInOrder
  <1> QED
    BY <1>1, AnswersInit, AnswersStep, SessionAlways, PTL DEF Spec

=============================================================================
