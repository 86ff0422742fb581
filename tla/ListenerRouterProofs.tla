------------------------ MODULE ListenerRouterProofs ------------------------
(***************************************************************************)
(* Theorems about ListenerRouter for any frames the peer sends and any          *)
(* configurations SetConfig is given while it sends them: how much one frame     *)
(* may allocate, how much a message may retain, that the loop knows at every      *)
(* frame which message is open, and of which type, that it accepts what the rules  *)
(* allow and refuses what they forbid, and what it calls the hooks with.          *)
(***************************************************************************)
EXTENDS ListenerRouter, DataInduction, SequenceTheorems, FiniteSetTheorems, TLAPS

-----------------------------------------------------------------------------
(* The invariant.                                                            *)

FrameType ==
    [op : Opcode, fin : BOOLEAN, rsv : BOOLEAN, mask : BOOLEAN, payload : Seq(Byte), code : Nat]
ConfigType ==
    [limit : Nat, count : Nat, peerIsClient : BOOLEAN, timeout : BOOLEAN, data : BOOLEAN]
MsgRecord == [frames : Seq(Seq(Byte)), acc : Nat, count : Nat, op : Opcode]

Types ==
    /\ pc \in {"arm", "grant", "read", "validate", "route", "stopped"}
    /\ config \in ConfigType /\ used \subseteq ConfigType
    /\ granted \in Nat
    /\ frame \in FrameType
    /\ msg \in MsgRecord
    /\ routed \in Seq([f : FrameType, c : ConfigType])

\* What a budget leaves a frame, the control allowance at least.
Within(c, n) == c.limit = 0 \/ msg.acc + n <= c.limit \/ n <= ControlMax

\* The read's limit is that of a configuration read for this frame, and nothing
\* larger is taken.
Granted ==
    /\ pc = "read" => \E c \in used : granted = NextFrameByteLimit(c)
    /\ pc \in {"validate", "route"} => \E c \in used : Within(c, Len(frame.payload))

\* A frame that is routed opens a message when none is open and goes on with one
\* that is; what is retained belongs to an open message.
InTurn ==
    /\ pc = "route" /\ IsDataOpcode(frame.op) => (MsgOpen <=> frame.op = OpcodeContinuation)
    /\ ~MsgOpen => msg.frames = <<>>
    /\ Len(msg.frames) <= msg.acc + 1

\* What validateFrame leaves of a frame.
Checked ==
    pc = "route" =>
        /\ ~frame.rsv
        /\ IsControlOpcode(frame.op) => frame.fin /\ Len(frame.payload) <= ControlMax

\* Every frame routed keeps RFC 6455's rules of framing where it stands.
Lawful == \A i \in 1..Len(routed) : LawfulAt(routed, i)

\* i opens the message that is open after position n of s.
Opens(s, n, i) == i \in OpenAt(s, n) /\ \A j \in OpenAt(s, n) : i <= j

\* The loop's own count and opcode agree with what the frames alone tell.
OpenKnown ==
    pc # "stopped" =>
        /\ MsgOpen <=> OpenAt(routed, Len(routed)) # {}
        /\ MsgOpen => \E i : Opens(routed, Len(routed), i) /\ msg.op = routed[i].f.op

RouterInv == Types /\ Granted /\ InTurn /\ Checked /\ Lawful /\ OpenKnown

-----------------------------------------------------------------------------

LEMMA MaxOfTwo ==
    ASSUME NEW a \in Int, NEW b \in Int
    PROVE  Max({a, b}) = IF a >= b THEN a ELSE b
  <1>1. \A x \in {a, b} : (\A y \in {a, b} : x >= y) => x = (IF a >= b THEN a ELSE b)
    OBVIOUS
  <1>2. \E x \in {a, b} : \A y \in {a, b} : x >= y
    OBVIOUS
  <1> QED
    BY <1>1, <1>2 DEF Max

LEMMA ConfigsAreTyped == Config \subseteq ConfigType /\ Frame \subseteq FrameType
  BY ListenerRouterAssumption DEF ConfigType, FrameType

\* What a limit granted lets through is within its budget.
LEMMA GrantedIsWithin ==
    ASSUME msg.acc \in Nat, NEW c \in ConfigType, NEW n \in Nat,
           ~(NextFrameByteLimit(c) > 0 /\ n > NextFrameByteLimit(c))
    PROVE  Within(c, n)
  <1>1. c.limit \in Nat /\ ControlMax \in Nat \ {0}
    BY ListenerRouterAssumption DEF ConfigType
  <1>2. CASE c.limit # 0 /\ msg.acc > c.limit
    BY <1>1, <1>2 DEF NextFrameByteLimit, Within
  <1>3. CASE c.limit # 0 /\ ~(msg.acc > c.limit)
    <2>1. Max({c.limit - msg.acc, ControlMax})
            = IF c.limit - msg.acc >= ControlMax THEN c.limit - msg.acc ELSE ControlMax
      BY <1>1, MaxOfTwo
    <2> QED
      BY <1>1, <1>3, <2>1 DEF NextFrameByteLimit, Within
  <1> QED
    BY <1>2, <1>3 DEF Within

LEMMA LimitIsNat == ASSUME msg.acc \in Nat, NEW c \in ConfigType PROVE NextFrameByteLimit(c) \in Nat
  <1>1. c.limit \in Nat /\ ControlMax \in Nat
    BY ListenerRouterAssumption DEF ConfigType
  <1>2. Max({c.limit - msg.acc, ControlMax})
          = IF c.limit - msg.acc >= ControlMax THEN c.limit - msg.acc ELSE ControlMax
    BY <1>1, MaxOfTwo
  <1> QED
    BY <1>1, <1>2 DEF NextFrameByteLimit

-----------------------------------------------------------------------------
(* The bytes of a message, run together.                                     *)

Routed == [f : FrameType, c : ConfigType]

\* Names for what the provers otherwise expand to its elements.
Joined(a, b) == a \o b
With(P, k) == P \cup {k}
Follows(t, s, x, n) ==
    s \in Seq(Routed) /\ x \in Routed /\ n \in Nat /\ n = Len(s) /\ t = Append(s, x)
Extends(t, s, x, n, m, P) == Follows(t, s, x, n) /\ m = n + 1 /\ P \subseteq 1..n

\* The bytes of the positions in P, up to n.
Gathered(s, P, n) ==
    FlattenSeq([k \in 1..n |-> IF k \in P THEN s[k].f.payload ELSE <<>>])

LEMMA GatheredType ==
    ASSUME NEW s \in Seq(Routed), NEW n \in 0..Len(s), NEW P
    PROVE  /\ [k \in 1..n |-> IF k \in P THEN s[k].f.payload ELSE <<>>] \in Seq(Seq(Byte))
           /\ Gathered(s, P, n) \in Seq(Byte)
  <1>1. ASSUME NEW k \in 1..n
        PROVE  (IF k \in P THEN s[k].f.payload ELSE <<>>) \in Seq(Byte)
    <2>1. s[k] \in Routed
      OBVIOUS
    <2>2. s[k].f.payload \in Seq(Byte)
      BY <2>1 DEF Routed, FrameType
    <2> QED
      BY <2>2, EmptySeq
  <1>2. [k \in 1..n |-> IF k \in P THEN s[k].f.payload ELSE <<>>] \in [1..n -> Seq(Byte)]
    BY <1>1
  <1>3. [k \in 1..n |-> IF k \in P THEN s[k].f.payload ELSE <<>>] \in Seq(Seq(Byte))
    BY <1>2
  <1> QED
    BY <1>3, FlattenType DEF Gathered

\* Up to position n, t is s.
AlikeUpTo(t, s, n) == \A k \in 1..n : t[k] = s[k]

LEMMA GatheredBefore ==
    ASSUME NEW s, NEW t, NEW n, AlikeUpTo(t, s, n), NEW P
    PROVE  Gathered(t, P, n) = Gathered(s, P, n)
  <1>1. \A k \in 1..n : t[k] = s[k]
    BY DEF AlikeUpTo
  <1>2. [k \in 1..n |-> IF k \in P THEN t[k].f.payload ELSE <<>>]
          = [k \in 1..n |-> IF k \in P THEN s[k].f.payload ELSE <<>>]
    BY <1>1
  <1> QED
    BY <1>2 DEF Gathered

LEMMA GatheredMore ==
    ASSUME NEW t, NEW s, NEW x, NEW n, NEW m, NEW P, Extends(t, s, x, n, m, P)
    PROVE  /\ Gathered(t, With(P, m), m) = Joined(Gathered(s, P, n), x.f.payload)
           /\ Gathered(t, P, m) = Gathered(s, P, n)
  <1> SUFFICES ASSUME NEW Q, \A k \in 1..n : k \in Q <=> k \in P
               PROVE  /\ m \in Q => Gathered(t, Q, m) = Joined(Gathered(s, P, n), x.f.payload)
                      /\ m \notin Q => Gathered(t, Q, m) = Gathered(s, P, n)
    <2>1. \A k \in 1..n : k \in P \cup {m} <=> k \in P
      BY DEF Extends, Follows
    <2>2. m \notin P /\ m \in P \cup {m}
      BY DEF Extends, Follows
    <2> QED
      BY <2>1, <2>2 DEF With
  <1> USE DEF Extends, Follows
  <1> DEFINE last == IF n + 1 \in Q THEN x.f.payload ELSE <<>>
             u == [k \in 1..n |-> IF k \in P THEN s[k].f.payload ELSE <<>>]
             v == [k \in 1..(n + 1) |-> IF k \in Q THEN t[k].f.payload ELSE <<>>]
  <1>1. u \in Seq(Seq(Byte))
    <2>1. n \in 0..Len(s)
      OBVIOUS
    <2> QED
      BY <2>1, GatheredType
  <1>2. last \in Seq(Byte)
    BY EmptySeq DEF Routed, FrameType
  <1>3. t[n + 1] = x /\ \A k \in 1..n : t[k] = s[k]
    OBVIOUS
  <1>4. Len(u) = n
    OBVIOUS
  <1>5. \A k \in 1..n : v[k] = u[k]
    BY <1>3
  <1>6. v[n + 1] = last
    BY <1>3
  <1>7. v = Append(u, last)
    <2>1. DOMAIN v = 1..(n + 1) /\ v = [k \in 1..(n + 1) |-> v[k]]
      OBVIOUS
    <2> HIDE DEF u, v, last
    <2>2. Append(u, last) \in Seq(Seq(Byte)) /\ Len(Append(u, last)) = n + 1
      BY <1>1, <1>2, <1>4
    <2>3. ASSUME NEW k \in 1..(n + 1) PROVE v[k] = Append(u, last)[k]
      <3>1. CASE k \in 1..n
        BY <1>1, <1>2, <1>4, <1>5, <3>1
      <3>2. CASE k = n + 1
        BY <1>1, <1>2, <1>4, <1>6, <3>2
      <3>3. k \in 1..n \/ k = n + 1
        OBVIOUS
      <3> QED
        BY <3>1, <3>2, <3>3
    <2>4. \A w \in Seq(Seq(Byte)) : w = [k \in 1..Len(w) |-> w[k]]
      OBVIOUS
    <2>5. Append(u, last) = [k \in 1..(n + 1) |-> Append(u, last)[k]]
      BY <2>2, <2>4
    <2> QED
      BY <2>1, <2>3, <2>5
  <1>8. FlattenSeq(v) = FlattenSeq(u) \o last
    <2> HIDE DEF u, v, last
    <2> QED
      BY <1>1, <1>2, <1>7, FlattenAppend
  <1>9. Gathered(t, Q, m) = Gathered(s, P, n) \o last /\ Gathered(s, P, n) \in Seq(Byte)
    BY <1>1, <1>8, FlattenType DEF Gathered
  <1>10. \A w \in Seq(Byte) : w \o <<>> = w
    OBVIOUS
  <1> QED
    BY <1>9, <1>10 DEF Joined

LEMMA NothingGathered ==
    ASSUME NEW s \in Seq(Routed), NEW n \in Nat
    PROVE  Gathered(s, {}, n) = <<>>
  <1> DEFINE u(k) == [j \in 1..k |-> <<>>]
             T == {k \in Nat : FlattenSeq(u(k)) = <<>>}
  <1>1. 0 \in T
    <2>1. u(0) = <<>> /\ Len(<<>>) = 0
      OBVIOUS
    <2> QED
      BY <2>1 DEF FlattenSeq
  <1>2. ASSUME NEW k \in T PROVE k + 1 \in T
    <2>1. k \in Nat /\ k + 1 \in Nat /\ FlattenSeq(u(k)) = <<>>
      OBVIOUS
    <2>2. u(k) \in Seq(Seq(Byte)) /\ <<>> \in Seq(Byte)
      <3>1. <<>> \in Seq(Byte)
        BY EmptySeq
      <3>2. u(k) \in [1..k -> Seq(Byte)]
        BY <3>1
      <3> QED
        BY <2>1, <3>1, <3>2
    <2>3. u(k + 1) = Append(u(k), <<>>)
      BY <2>1
    <2>4. FlattenSeq(u(k + 1)) = <<>> \o <<>>
      <3> HIDE DEF u
      <3> QED
        BY <2>1, <2>2, <2>3, FlattenAppend
    <2> QED
      BY <2>1, <2>4
  <1>3. T = Nat
    <2>1. T \in SUBSET Nat
      OBVIOUS
    <2> HIDE DEF T
    <2> QED
      BY <1>1, <1>2, <2>1, SetInduction
  <1>4. [k \in 1..n |-> IF k \in {} THEN s[k].f.payload ELSE <<>>] = u(n)
    OBVIOUS
  <1>5. FlattenSeq(u(n)) = <<>>
    BY <1>3
  <1> QED
    BY <1>4, <1>5 DEF Gathered

-----------------------------------------------------------------------------
(* The message open after one frame more.                                    *)

LEMMA OpenBefore ==
    ASSUME NEW s \in Seq(Routed), NEW x \in Routed, NEW t, t = Append(s, x), NEW k \in 0..Len(s)
    PROVE  OpenAt(t, k) = OpenAt(s, k)
  <1>1. \A i \in 1..k : t[i] = s[i]
    OBVIOUS
  <1>2. \A i \in 1..k : (IsData(t, i) <=> IsData(s, i)) /\ t[i].f.fin = s[i].f.fin
    BY <1>1 DEF IsData
  <1>3. \A i \in 1..k : \A j \in i..k : j \in 1..k
    OBVIOUS
  <1> QED
    BY <1>2, <1>3 DEF OpenAt

LEMMA OpenAfter ==
    ASSUME NEW s \in Seq(Routed), NEW x \in Routed, NEW n \in Nat, n = Len(s), NEW t, t = Append(s, x)
    PROVE  \A i : i \in OpenAt(t, n + 1) <=>
                     \/ i \in OpenAt(s, n) /\ ~(IsDataOpcode(x.f.op) /\ x.f.fin)
                     \/ i = n + 1 /\ IsDataOpcode(x.f.op) /\ ~x.f.fin
  <1>1. (\A i \in 1..n : t[i] = s[i]) /\ t[n + 1] = x
    OBVIOUS
  <1>2. \A i \in 1..n : (IsData(t, i) <=> IsData(s, i)) /\ t[i].f.fin = s[i].f.fin
    BY <1>1 DEF IsData
  <1>3. (IsData(t, n + 1) <=> IsDataOpcode(x.f.op)) /\ t[n + 1].f.fin = x.f.fin
    BY <1>1 DEF IsData
  <1>5. OpenAt(t, n + 1) \subseteq 1..(n + 1) /\ OpenAt(s, n) \subseteq 1..n
    BY DEF OpenAt
  <1>6. ASSUME NEW i \in 1..n
        PROVE  i \in OpenAt(t, n + 1) <=>
                   i \in OpenAt(s, n) /\ ~(IsData(t, n + 1) /\ t[n + 1].f.fin)
    <2>1. \A j : j \in i..(n + 1) <=> j \in i..n \/ j = n + 1
      BY <1>6
    <2>2. \A j \in i..n : j \in 1..n
      BY <1>6
    <2>3. i \in 1..(n + 1)
      BY <1>6
    <2> QED
      BY <1>2, <1>6, <2>1, <2>2, <2>3 DEF OpenAt
  <1>7. n + 1 \in OpenAt(t, n + 1) <=> IsData(t, n + 1) /\ ~t[n + 1].f.fin
    <2>1. \A j : j \in (n + 1)..(n + 1) <=> j = n + 1
      OBVIOUS
    <2>2. n + 1 \in 1..(n + 1)
      OBVIOUS
    <2> QED
      BY <2>1, <2>2 DEF OpenAt
  <1>8. \A i \in 1..(n + 1) : i \in 1..n \/ i = n + 1
    OBVIOUS
  <1>9. n + 1 \notin OpenAt(s, n)
    BY <1>5
  <1> QED
    BY <1>3, <1>5, <1>6, <1>7, <1>8, <1>9

LEMMA OpenAfterOther ==
    ASSUME NEW s \in Seq(Routed), NEW x \in Routed, NEW t, t = Append(s, x), ~IsDataOpcode(x.f.op)
    PROVE  OpenAt(t, Len(s) + 1) = OpenAt(s, Len(s))
  <1>1. PICK n \in Nat : n = Len(s)
    OBVIOUS
  <1>2. \A i : i \in OpenAt(t, n + 1) <=>
                  \/ i \in OpenAt(s, n) /\ ~(IsDataOpcode(x.f.op) /\ x.f.fin)
                  \/ i = n + 1 /\ IsDataOpcode(x.f.op) /\ ~x.f.fin
    BY <1>1, OpenAfter
  <1> QED
    BY <1>1, <1>2

LEMMA OpenAfterFin ==
    ASSUME NEW s \in Seq(Routed), NEW x \in Routed, NEW t, t = Append(s, x),
           IsDataOpcode(x.f.op), x.f.fin
    PROVE  OpenAt(t, Len(s) + 1) = {}
  <1>1. PICK n \in Nat : n = Len(s)
    OBVIOUS
  <1>2. \A i : i \in OpenAt(t, n + 1) <=>
                  \/ i \in OpenAt(s, n) /\ ~(IsDataOpcode(x.f.op) /\ x.f.fin)
                  \/ i = n + 1 /\ IsDataOpcode(x.f.op) /\ ~x.f.fin
    BY <1>1, OpenAfter
  <1> QED
    BY <1>1, <1>2

LEMMA OpenAfterFragment ==
    ASSUME NEW s \in Seq(Routed), NEW x \in Routed, NEW t, t = Append(s, x),
           IsDataOpcode(x.f.op), ~x.f.fin
    PROVE  OpenAt(t, Len(s) + 1) = OpenAt(s, Len(s)) \cup {Len(s) + 1}
  <1>1. PICK n \in Nat : n = Len(s)
    OBVIOUS
  <1>2. \A i : i \in OpenAt(t, n + 1) <=>
                  \/ i \in OpenAt(s, n) /\ ~(IsDataOpcode(x.f.op) /\ x.f.fin)
                  \/ i = n + 1 /\ IsDataOpcode(x.f.op) /\ ~x.f.fin
    BY <1>1, OpenAfter
  <1> QED
    BY <1>1, <1>2

\* One frame more that keeps the rules, and those before it still do.
LEMMA LawfulAfter ==
    ASSUME Types, Lawful, routed' = Append(routed, [f |-> frame, c |-> config]),
           ~frame.rsv,
           IsControlOpcode(frame.op) => frame.fin /\ Len(frame.payload) <= ControlMax,
           frame.op = OpcodeClose => CloseVerdict(frame) = "none",
           IsDataOpcode(frame.op) =>
               (frame.op = OpcodeContinuation <=> OpenAt(routed, Len(routed)) # {})
    PROVE  Lawful'
  <1>1. PICK n \in Nat : n = Len(routed)
    BY DEF Types
  <1>2. PICK x \in Routed : x = [f |-> frame, c |-> config]
    BY DEF Types, Routed
  <1>3. PICK s \in Seq(Routed) : s = routed
    BY DEF Types, Routed
  <1>4. PICK t \in Seq(Routed) : t = Append(s, x)
    BY <1>2, <1>3
  <1>5. /\ routed' = t /\ Len(t) = n + 1 /\ t[n + 1] = x /\ \A i \in 1..n : t[i] = s[i]
        /\ \A k \in 0..n : OpenAt(t, k) = OpenAt(s, k)
    <2>1. n = Len(s)
      BY <1>1, <1>3
    <2>2. routed' = t
      BY <1>2, <1>3, <1>4
    <2>3. \A k \in 0..n : OpenAt(t, k) = OpenAt(s, k)
      BY <1>4, <2>1, OpenBefore
    <2>4. Len(t) = n + 1 /\ t[n + 1] = x /\ \A i \in 1..n : t[i] = s[i]
      BY <1>4, <2>1
    <2> QED
      BY <2>2, <2>3, <2>4
  <1>6. ASSUME NEW i \in 1..n PROVE LawfulAt(t, i)
    <2>1. LawfulAt(s, i)
      BY <1>1, <1>3, <1>6 DEF Lawful
    <2>2. i - 1 \in 0..n
      BY <1>6
    <2> QED
      BY <1>5, <2>1, <2>2 DEF LawfulAt
  <1>7. LawfulAt(t, n + 1)
    <2>1. (n + 1) - 1 = n /\ n \in 0..n /\ x.f = frame
      BY <1>2
    <2> QED
      BY <1>1, <1>3, <1>5, <2>1 DEF LawfulAt
  <1>8. \A i \in 1..Len(t) : LawfulAt(t, i)
    <2>1. \A i \in 1..Len(t) : i \in 1..n \/ i = n + 1
      BY <1>5
    <2> QED
      BY <1>6, <1>7, <2>1
  <1> QED
    BY <1>5, <1>8 DEF Lawful, LawfulAt

-----------------------------------------------------------------------------
(* Before the frame is routed.                                               *)

LEMMA SetConfigKeeps == ASSUME RouterInv, NEW c \in Config, SetConfig(c) PROVE RouterInv'
  <1>1. /\ config' = c /\ c \in ConfigType
        /\ UNCHANGED <<pc, granted, frame, msg, routed, used>>
    BY ConfigsAreTyped DEF SetConfig
  <1> QED
    BY <1>1 DEF RouterInv, Types, Granted, NextFrameByteLimit, Within, InTurn, MsgOpen, Checked,
                Lawful, OpenKnown

LEMMA ArmDeadlineKeeps == ASSUME RouterInv, ArmDeadline PROVE RouterInv'
  <1>1. /\ pc = "arm" /\ pc' = "grant" /\ used' = {config}
        /\ UNCHANGED <<config, granted, frame, msg, routed>>
    BY DEF ArmDeadline
  <1>2. Types' /\ Granted'
    BY <1>1 DEF RouterInv, Types, Granted
  <1> QED
    BY <1>1, <1>2 DEF RouterInv, InTurn, MsgOpen, Checked, Lawful, OpenKnown

LEMMA GrantLimitKeeps == ASSUME RouterInv, GrantLimit PROVE RouterInv'
  <1>1. /\ pc = "grant" /\ pc' = "read" /\ used' = used \cup {config}
        /\ granted' = NextFrameByteLimit(config)
        /\ UNCHANGED <<config, frame, msg, routed>>
    BY DEF GrantLimit
  <1>2. Types'
    <2>1. config \in ConfigType /\ msg.acc \in Nat
      BY DEF RouterInv, Types, MsgRecord
    <2>2. granted' \in Nat
      BY <1>1, <2>1, LimitIsNat
    <2> QED
      BY <1>1, <2>2 DEF RouterInv, Types
  <1>3. Granted'
    <2>1. config \in used' /\ granted' = NextFrameByteLimit(config)'
      BY <1>1 DEF NextFrameByteLimit
    <2>2. (\E c \in used : granted = NextFrameByteLimit(c))'
      BY <1>1 DEF NextFrameByteLimit
    <2> QED
      BY <1>1, <2>2 DEF Granted
  <1> QED
    BY <1>1, <1>2, <1>3 DEF RouterInv, InTurn, MsgOpen, Checked, Lawful, OpenKnown

LEMMA ReadFrameKeeps == ASSUME RouterInv, NEW f \in Frame, ReadFrame(f) PROVE RouterInv'
  <1>1. /\ pc = "read" /\ frame' = f /\ f \in FrameType
        /\ \/ pc' = "stopped"
           \/ ~(granted > 0 /\ Len(f.payload) > granted) /\ pc' = "validate"
        /\ UNCHANGED <<config, granted, msg, routed, used>>
    BY ConfigsAreTyped DEF ReadFrame, Stop
  <1>2. Types'
    BY <1>1 DEF RouterInv, Types
  <1>3. ASSUME pc' = "validate" PROVE \E c \in used : Within(c, Len(f.payload))
    <2>1. PICK c \in used : granted = NextFrameByteLimit(c)
      BY <1>1 DEF RouterInv, Granted
    <2>2. c \in ConfigType /\ msg.acc \in Nat
      BY DEF RouterInv, Types, MsgRecord
    <2>3. Len(f.payload) \in Nat
      BY <1>1 DEF FrameType
    <2> QED
      BY <1>1, <1>3, <2>1, <2>2, <2>3, GrantedIsWithin
  <1>4. Granted'
    BY <1>1, <1>3 DEF Granted, Within
  <1> QED
    BY <1>1, <1>2, <1>4 DEF RouterInv, InTurn, MsgOpen, Checked, Lawful, OpenKnown

LEMMA ReadTimesOutKeeps == ASSUME RouterInv, ReadTimesOut PROVE RouterInv'
  <1>1. pc' = "stopped" /\ UNCHANGED <<config, granted, frame, msg, routed, used>>
    BY DEF ReadTimesOut, Stop
  <1> QED
    BY <1>1 DEF RouterInv, Types, Granted, InTurn, MsgOpen, Checked, Lawful, OpenKnown

LEMMA NoVerdict ==
    ASSUME NEW f \in FrameType, NEW c \in ConfigType, Verdict(f, c) = "none"
    PROVE  /\ ~f.rsv /\ f.mask = c.peerIsClient
           /\ IsControlOpcode(f.op) => f.fin /\ ~(Len(f.payload) > ControlMax)
           /\ IsDataOpcode(f.op) => (MsgOpen <=> f.op = OpcodeContinuation)
  <1>1. ~f.rsv
    BY DEF Verdict
  <1>2. f.mask = c.peerIsClient
    BY <1>1 DEF Verdict
  <1>3. ~(IsControlOpcode(f.op) /\ ~f.fin)
    BY <1>1, <1>2 DEF Verdict
  <1>4. ~(IsControlOpcode(f.op) /\ f.fin /\ Len(f.payload) > ControlMax)
    BY <1>1, <1>2, <1>3 DEF Verdict
  <1>5. ~(IsDataOpcode(f.op) /\ MsgOpen /\ f.op # OpcodeContinuation)
    BY <1>1, <1>2, <1>3, <1>4 DEF Verdict
  <1>6. ~(IsDataOpcode(f.op) /\ ~MsgOpen /\ f.op = OpcodeContinuation)
    BY <1>1, <1>2, <1>3, <1>4, <1>5 DEF Verdict
  <1> QED
    BY <1>1, <1>2, <1>3, <1>4, <1>5, <1>6

LEMMA ValidateFrameKeeps == ASSUME RouterInv, ValidateFrame PROVE RouterInv'
  <1>1. /\ pc = "validate" /\ used' = used \cup {config}
        /\ \/ pc' = "stopped"
           \/ Verdict(frame, config) = "none" /\ pc' = "route"
        /\ UNCHANGED <<config, granted, frame, msg, routed>>
    BY DEF ValidateFrame, Stop
  <1>2. frame \in FrameType /\ config \in ConfigType /\ Len(frame.payload) \in Nat /\ ControlMax \in Nat
    BY ListenerRouterAssumption DEF RouterInv, Types, FrameType
  <1>3. Types'
    BY <1>1 DEF RouterInv, Types
  <1>4. Granted'
    BY <1>1 DEF RouterInv, Granted, Within
  <1>5. ASSUME pc' = "route"
        PROVE  /\ ~frame.rsv
               /\ IsControlOpcode(frame.op) => frame.fin /\ Len(frame.payload) <= ControlMax
               /\ IsDataOpcode(frame.op) => (MsgOpen <=> frame.op = OpcodeContinuation)
    BY <1>1, <1>2, <1>5, NoVerdict
  <1>6. InTurn' /\ Checked'
    BY <1>1, <1>5 DEF RouterInv, InTurn, MsgOpen, Checked
  <1> QED
    BY <1>1, <1>3, <1>4, <1>6 DEF RouterInv, MsgOpen, Lawful, OpenKnown

-----------------------------------------------------------------------------
(* Routing.                                                                  *)

\* What routeFrame comes to: it refuses the frame, or routes it and leaves the
\* message as it was, ends it, or lets it grow.
Refused == pc' = "stopped" /\ routed' = routed /\ (msg' = msg \/ msg' = NoMsg)

Passed ==
    /\ pc' = "arm" /\ routed' = Append(routed, [f |-> frame, c |-> config])
    /\ frame.op = OpcodeClose => CloseVerdict(frame) = "none"

Leaves == msg' = msg /\ (~IsDataOpcode(frame.op) \/ Dropped(frame))

EndsMsg == msg' = NoMsg /\ IsDataOpcode(frame.op) /\ frame.fin

Grows ==
    /\ IsDataOpcode(frame.op) /\ ~frame.fin /\ ~Dropped(frame)
    /\ msg'.acc = msg.acc + Len(frame.payload) /\ msg'.count = msg.count + 1
    /\ msg'.op = MsgType
    /\ config.data => msg'.frames = msg.frames
    /\ ~config.data => msg'.frames = Append(msg.frames, frame.payload)
    /\ msg' \in MsgRecord

LEMMA GrownMsg ==
    ASSUME Types,
           \/ /\ config.data
              /\ msg' = [msg EXCEPT !.acc = @ + Len(frame.payload), !.count = @ + 1, !.op = MsgType]
           \/ /\ ~config.data
              /\ msg' = [frames |-> Append(msg.frames, frame.payload),
                         acc |-> msg.acc + Len(frame.payload), count |-> msg.count + 1, op |-> MsgType]
    PROVE  /\ msg'.acc = msg.acc + Len(frame.payload) /\ msg'.count = msg.count + 1
           /\ msg'.op = MsgType
           /\ config.data => msg'.frames = msg.frames
           /\ ~config.data => msg'.frames = Append(msg.frames, frame.payload)
           /\ msg' \in MsgRecord
  <1>1. /\ msg \in MsgRecord /\ frame \in FrameType
        /\ msg.frames \in Seq(Seq(Byte)) /\ msg.acc \in Nat /\ msg.count \in Nat
        /\ frame.payload \in Seq(Byte) /\ Len(frame.payload) \in Nat
    BY DEF Types, MsgRecord, FrameType
  <1>2. MsgType \in Opcode
    BY <1>1 DEF MsgType, MsgRecord, FrameType
  <1>3. Append(msg.frames, frame.payload) \in Seq(Seq(Byte))
    BY <1>1
  <1>4. msg.acc + Len(frame.payload) \in Nat /\ msg.count + 1 \in Nat
    BY <1>1
  <1>5. CASE config.data /\ msg' = [msg EXCEPT !.acc = @ + Len(frame.payload), !.count = @ + 1, !.op = MsgType]
    <2>1. /\ msg'.acc = msg.acc + Len(frame.payload) /\ msg'.count = msg.count + 1
          /\ msg'.op = MsgType /\ msg'.frames = msg.frames
      BY <1>1, <1>5 DEF MsgRecord
    <2>2. msg' \in MsgRecord
      BY <1>1, <1>2, <1>4, <1>5 DEF MsgRecord
    <2> QED
      BY <1>5, <2>1, <2>2
  <1>6. CASE ~config.data /\ msg' = [frames |-> Append(msg.frames, frame.payload),
                     acc |-> msg.acc + Len(frame.payload), count |-> msg.count + 1, op |-> MsgType]
    <2>1. /\ msg'.acc = msg.acc + Len(frame.payload) /\ msg'.count = msg.count + 1
          /\ msg'.op = MsgType /\ msg'.frames = Append(msg.frames, frame.payload)
      BY <1>6
    <2>2. msg' \in MsgRecord
      BY <1>2, <1>3, <1>4, <1>6 DEF MsgRecord
    <2> QED
      BY <1>6, <2>1, <2>2, Zenon
  <1> QED
    BY <1>5, <1>6

LEMMA RouteOutcome ==
    ASSUME Types, RouteFrame
    PROVE  Refused \/ (Passed /\ (Leaves \/ EndsMsg \/ Grows))
  <1>1. CASE IsControlOpcode(frame.op) /\ RouteControl
    BY <1>1 DEF RouteControl, Refuse, Stop, Done, Refused, Passed, Leaves, IsControlOpcode,
                IsDataOpcode, OpcodeContinuation, OpcodeText, OpcodeBinary, OpcodeClose,
                OpcodePing, OpcodePong
  <1>2. CASE ~IsControlOpcode(frame.op) /\ ~IsDataOpcode(frame.op) /\ RouteReserved
    BY <1>2 DEF RouteReserved, Done, Passed, Leaves, IsControlOpcode
  <1>3. CASE IsDataOpcode(frame.op) /\ RouteData
    <2>1. frame.op # OpcodeClose
      BY <1>3 DEF IsDataOpcode, OpcodeContinuation, OpcodeText, OpcodeBinary, OpcodeClose
    <2>2. CASE Dropped(frame) /\ UNCHANGED <<msg, calls>> /\ Done
      BY <2>1, <2>2 DEF Done, Passed, Leaves
    <2>3. CASE msg' = NoMsg /\ \E e \in {"ErrFrameByteLengthExceeded", "ErrMsgFrameCountExceeded"} : Refuse(e)
      BY <2>3 DEF Refuse, Stop, Refused
    <2>4. CASE ~Dropped(frame) /\ config.data /\ HandOver
      <3>1. CASE frame.fin
        BY <1>3, <2>1, <2>4, <3>1 DEF HandOver, Done, Passed, EndsMsg
      <3>2. CASE ~frame.fin
        <4>1. msg' = [msg EXCEPT !.acc = @ + Len(frame.payload), !.count = @ + 1, !.op = MsgType]
          BY <2>4, <3>2 DEF HandOver
        <4>2. Grows
          BY <1>3, <2>4, <3>2, <4>1, GrownMsg DEF Grows
        <4> QED
          BY <2>1, <2>4, <4>2 DEF HandOver, Done, Passed
      <3> QED
        BY <3>1, <3>2
    <2>5. CASE ~Dropped(frame) /\ ~config.data /\ ~frame.fin /\ Keep
      <3>1. Grows
        BY <1>3, <2>5, GrownMsg DEF Grows, Keep
      <3> QED
        BY <2>1, <2>5, <3>1 DEF Keep, Done, Passed
    <2>6. CASE frame.fin /\ Complete
      BY <1>3, <2>1, <2>6 DEF Complete, Refuse, Stop, Refused, Done, Passed, EndsMsg
    <2> QED
      BY <1>3, <2>2, <2>3, <2>4, <2>5, <2>6 DEF RouteData
  <1> QED
    BY <1>1, <1>2, <1>3 DEF RouteFrame

LEMMA RouteFrameKeeps == ASSUME RouterInv, RouteFrame PROVE RouterInv'
  <1>i. /\ Types /\ InTurn /\ Checked /\ Lawful /\ OpenKnown /\ pc = "route"
        /\ config' = config /\ granted' = granted /\ frame' = frame /\ used' = used \cup {config}
    BY DEF RouterInv, RouteFrame
  <1>t. /\ config \in ConfigType /\ used \subseteq ConfigType /\ granted \in Nat
        /\ frame \in FrameType /\ msg \in MsgRecord /\ routed \in Seq(Routed)
    BY <1>i DEF Types, Routed
  <1>n. NoMsg \in MsgRecord /\ NoMsg.frames = <<>> /\ NoMsg.acc = 0 /\ NoMsg.count = 0
    BY EmptySeq DEF NoMsg, MsgRecord, Opcode, OpcodeContinuation
  <1>m. /\ msg.frames \in Seq(Seq(Byte)) /\ msg.acc \in Nat /\ msg.count \in Nat
        /\ frame.payload \in Seq(Byte) /\ Len(frame.payload) \in Nat
    BY <1>t DEF MsgRecord, FrameType
  <1>1. CASE Refused
    <2>1. Types'
      BY <1>i, <1>t, <1>n, <1>1 DEF Types, Routed, Refused
    <2>2. InTurn'
      BY <1>i, <1>n, <1>1 DEF InTurn, Refused, MsgOpen
    <2> QED
      BY <1>i, <1>1, <2>1, <2>2 DEF RouterInv, Granted, Checked, Lawful, OpenKnown, Refused
  <1>2. CASE Passed /\ (Leaves \/ EndsMsg \/ Grows)
    <2>1. PICK x \in Routed : x = [f |-> frame, c |-> config] /\ x.f = frame
      <3>1. [f |-> frame, c |-> config] \in Routed
        BY <1>t DEF Routed
      <3> QED
        BY <3>1
    <2>2. PICK n \in Nat, s \in Seq(Routed), u \in Seq(Routed) :
             n = Len(s) /\ s = routed /\ u = Append(s, x)
      <3>1. routed \in Seq(Routed) /\ Append(routed, x) \in Seq(Routed) /\ Len(routed) \in Nat
        BY <1>t
      <3> QED
        BY <3>1
    <2>3. /\ pc' = "arm" /\ routed' = u /\ Len(u) = n + 1 /\ u[n + 1] = x
          /\ \A i \in 1..n : u[i] = s[i]
      BY <1>2, <2>1, <2>2 DEF Passed
    <2>4. msg' \in MsgRecord
      BY <1>t, <1>n, <1>2 DEF Leaves, EndsMsg, Grows
    <2>5. Types'
      BY <1>i, <1>t, <2>3, <2>4 DEF Types, Routed
    <2>6. IsDataOpcode(frame.op) => (MsgOpen <=> frame.op = OpcodeContinuation)
      BY <1>i DEF InTurn
    <2>7. MsgOpen <=> OpenAt(s, n) # {}
      BY <1>i, <2>2 DEF OpenKnown
    <2>8. Lawful'
      <3>1. ~frame.rsv /\ (IsControlOpcode(frame.op) => frame.fin /\ Len(frame.payload) <= ControlMax)
        BY <1>i DEF Checked
      <3>2. IsDataOpcode(frame.op) =>
               (frame.op = OpcodeContinuation <=> OpenAt(routed, Len(routed)) # {})
        BY <2>2, <2>6, <2>7
      <3> QED
        BY <1>i, <1>2, <3>1, <3>2, LawfulAfter DEF Passed
    <2>9. CASE Leaves
      <3>1. msg' = msg /\ MsgOpen' = MsgOpen
        BY <2>9 DEF Leaves, MsgOpen
      <3>2. InTurn'
        BY <1>i, <2>3, <3>1 DEF InTurn
      <3>3. OpenKnown'
        <4>1. CASE ~IsDataOpcode(frame.op)
          <5>1. OpenAt(u, n + 1) = OpenAt(s, n)
            BY <2>1, <2>2, <4>1, OpenAfterOther
          <5>2. OpenAt(s, n) \subseteq 1..n
            BY DEF OpenAt
          <5> QED
            BY <1>i, <2>2, <2>3, <3>1, <5>1, <5>2 DEF OpenKnown, Opens
        <4>2. CASE IsDataOpcode(frame.op) /\ Dropped(frame)
          <5>1. ~frame.fin /\ MsgOpen
            BY <2>6, <4>2 DEF Dropped
          <5>2. OpenAt(u, n + 1) = OpenAt(s, n) \cup {n + 1}
            BY <2>1, <2>2, <4>2, <5>1, OpenAfterFragment
          <5>3. PICK i \in OpenAt(s, n) : Opens(s, n, i) /\ msg.op = s[i].f.op
            BY <1>i, <2>2, <5>1 DEF OpenKnown, Opens
          <5>4. i \in 1..n /\ Opens(u, n + 1, i)
            BY <5>2, <5>3 DEF Opens, OpenAt
          <5> QED
            BY <2>3, <3>1, <5>1, <5>2, <5>3, <5>4 DEF OpenKnown
        <4> QED
          BY <2>9, <4>1, <4>2 DEF Leaves
      <3> QED
        BY <2>3, <2>5, <2>8, <3>2, <3>3 DEF RouterInv, Granted, Checked
    <2>10. CASE EndsMsg
      <3>1. msg' = NoMsg /\ ~MsgOpen'
        BY <1>n, <2>10 DEF EndsMsg, MsgOpen
      <3>2. InTurn'
        BY <1>n, <2>3, <3>1 DEF InTurn
      <3>3. OpenAt(u, n + 1) = {}
        BY <2>1, <2>2, <2>10, OpenAfterFin DEF EndsMsg
      <3> QED
        BY <2>3, <2>5, <2>8, <3>1, <3>2, <3>3 DEF RouterInv, Granted, Checked, OpenKnown
    <2>11. CASE Grows
      <3>1. MsgOpen' /\ msg'.op = MsgType /\ ~frame.fin /\ IsDataOpcode(frame.op)
        BY <1>m, <2>11 DEF Grows, MsgOpen
      <3>2. InTurn'
        <4>1. PICK a, b, l, k \in Nat :
                 /\ a = msg.acc /\ b = msg'.acc /\ l = Len(frame.payload) /\ k = Len(msg.frames)
          BY <1>m, <2>4 DEF MsgRecord
        <4>2. b = a + l /\ k <= a + 1
          BY <1>i, <2>11, <4>1 DEF Grows, InTurn
        <4>3. Len(msg'.frames) = k \/ Len(msg'.frames) = k + 1
          <5>1. msg.frames \in Seq(Seq(Byte)) /\ frame.payload \in Seq(Byte)
            BY <1>m DEF MsgRecord
          <5>2. msg'.frames = msg.frames \/ msg'.frames = Append(msg.frames, frame.payload)
            BY <2>11 DEF Grows
          <5>3. Len(Append(msg.frames, frame.payload)) = Len(msg.frames) + 1
            BY <5>1
          <5> QED
            BY <4>1, <5>2, <5>3
        <4>4. CASE frame.payload # <<>>
          <5>1. l # 0
            BY <1>m, <4>1, <4>4, EmptySeq
          <5>2. k + 1 <= b + 1 /\ k <= b + 1
            BY <4>2, <5>1
          <5> QED
            BY <2>3, <3>1, <4>1, <4>3, <5>2 DEF InTurn
        <4>5. CASE frame.payload = <<>>
          <5>1. frame.op # OpcodeContinuation
            BY <2>11, <4>5 DEF Grows, Dropped
          <5>2. msg.frames = <<>>
            BY <1>i, <2>6, <3>1, <5>1 DEF InTurn
          <5>3. k = 0
            BY <4>1, <5>2
          <5>4. k + 1 <= b + 1 /\ k <= b + 1
            BY <5>3
          <5> QED
            BY <2>3, <3>1, <4>1, <4>3, <5>4 DEF InTurn
        <4> QED
          BY <4>4, <4>5
      <3>3. OpenAt(u, n + 1) = OpenAt(s, n) \cup {n + 1}
        BY <2>1, <2>2, <3>1, OpenAfterFragment
      <3>4. \E i : Opens(u, n + 1, i) /\ msg'.op = u[i].f.op
        <4>1. CASE frame.op = OpcodeContinuation
          <5>1. MsgOpen /\ MsgType = msg.op
            BY <2>6, <3>1, <4>1 DEF MsgType
          <5>2. PICK i \in OpenAt(s, n) : Opens(s, n, i) /\ msg.op = s[i].f.op
            BY <1>i, <2>2, <5>1 DEF OpenKnown, Opens
          <5>3. i \in 1..n /\ Opens(u, n + 1, i)
            BY <3>3, <5>2 DEF Opens, OpenAt
          <5> QED
            BY <2>3, <3>1, <5>1, <5>2, <5>3
        <4>2. CASE frame.op # OpcodeContinuation
          <5>1. OpenAt(s, n) = {} /\ MsgType = frame.op
            BY <2>6, <2>7, <3>1, <4>2 DEF MsgType
          <5>2. Opens(u, n + 1, n + 1)
            BY <3>3, <5>1 DEF Opens
          <5> QED
            BY <2>1, <2>3, <3>1, <5>1, <5>2
        <4> QED
          BY <4>1, <4>2
      <3>5. OpenKnown'
        <4>1. OpenAt(u, n + 1) # {}
          BY <3>3
        <4> QED
          BY <2>3, <3>1, <3>4, <4>1 DEF OpenKnown
      <3> QED
        BY <2>3, <2>5, <2>8, <3>2, <3>5 DEF RouterInv, Granted, Checked
    <2> QED
      BY <1>2, <2>9, <2>10, <2>11
  <1> QED
    BY <1>i, <1>1, <1>2, RouteOutcome

LEMMA RouterInit == Init => RouterInv
  <1> SUFFICES ASSUME Init PROVE RouterInv
    OBVIOUS
  <1>1. /\ pc = "arm" /\ granted = 0 /\ used = {} /\ routed = <<>> /\ msg = NoMsg
        /\ config \in ConfigType /\ frame \in FrameType
    BY ConfigsAreTyped DEF Init
  <1>2. NoMsg \in MsgRecord /\ NoMsg.frames = <<>> /\ NoMsg.acc = 0 /\ NoMsg.count = 0
    BY EmptySeq DEF NoMsg, MsgRecord, Opcode, OpcodeContinuation
  <1>3. routed \in Seq(Routed) /\ Len(routed) = 0 /\ Len(NoMsg.frames) = 0
    BY <1>1, <1>2, EmptySeq
  <1>4. Types
    BY <1>1, <1>2, <1>3 DEF Types, Routed
  <1>5. Lawful
    BY <1>3 DEF Lawful
  <1>6. ~MsgOpen /\ OpenAt(routed, Len(routed)) = {}
    <2>1. \A i : i \notin 1..0
      OBVIOUS
    <2> QED
      BY <1>1, <1>2, <1>3, <2>1 DEF MsgOpen, OpenAt
  <1> QED
    BY <1>1, <1>2, <1>3, <1>4, <1>5, <1>6 DEF RouterInv, Granted, InTurn, Checked, OpenKnown

LEMMA RouterStep == RouterInv /\ [Next]_vars => RouterInv'
  <1> SUFFICES ASSUME RouterInv, [Next]_vars PROVE RouterInv'
    OBVIOUS
  <1>1. ASSUME NEW c \in Config, SetConfig(c) PROVE RouterInv'
    BY <1>1, SetConfigKeeps
  <1>2. CASE ArmDeadline \/ GrantLimit
    BY <1>2, ArmDeadlineKeeps, GrantLimitKeeps
  <1>3. ASSUME NEW f \in Frame, ReadFrame(f) PROVE RouterInv'
    BY <1>3, ReadFrameKeeps
  <1>4. CASE ReadTimesOut \/ ValidateFrame \/ RouteFrame
    BY <1>4, ReadTimesOutKeeps, ValidateFrameKeeps, RouteFrameKeeps
  <1>5. CASE UNCHANGED vars
    BY <1>5 DEF vars, RouterInv, Types, Granted, NextFrameByteLimit, Within, InTurn, MsgOpen,
                Checked, Lawful, OpenKnown
  <1> QED
    BY <1>1, <1>2, <1>3, <1>4, <1>5 DEF Next, Finished

LEMMA RouterAlways == Spec => []RouterInv
  BY RouterInit, RouterStep, PTL DEF Spec

-----------------------------------------------------------------------------
(* The running totals.                                                       *)

Counted(s, P) == {k \in P : ~Dropped(s[k].f)}

\* What the loop has added up of the open message is what its frames come to.
Told ==
    pc # "stopped" =>
        LET n == Len(routed)
            open == OpenAt(routed, n)
        IN  /\ msg.acc = Len(Gathered(routed, open, n))
            /\ msg.count = Cardinality(Counted(routed, open))
            /\ ~config.data => FlattenSeq(msg.frames) = Gathered(routed, open, n)

LEMMA OpenIsFinite ==
    ASSUME NEW s, NEW n \in Nat
    PROVE  /\ OpenAt(s, n) \subseteq 1..n /\ IsFiniteSet(OpenAt(s, n))
           /\ IsFiniteSet(Counted(s, OpenAt(s, n)))
  <1>1. OpenAt(s, n) \subseteq 1..n
    BY DEF OpenAt
  <1>2. Counted(s, OpenAt(s, n)) \subseteq 1..n
    BY <1>1 DEF Counted
  <1>3. IsFiniteSet(1..n)
    BY FS_Interval
  <1> QED
    BY <1>1, <1>2, <1>3, FS_Subset

\* One position more adds its bytes and counts for one, unless it is dropped.
LEMMA OneMore ==
    ASSUME NEW t, NEW s, NEW x, NEW n, Follows(t, s, x, n), NEW m, m = n + 1,
           NEW O, O = OpenAt(s, n)
    PROVE  /\ Gathered(t, With(O, m), m) = Joined(Gathered(s, O, n), x.f.payload)
           /\ Len(Gathered(t, With(O, m), m)) = Len(Gathered(s, O, n)) + Len(x.f.payload)
           /\ Cardinality(Counted(t, With(O, m)))
                = Cardinality(Counted(s, O)) + (IF Dropped(x.f) THEN 0 ELSE 1)
           /\ Cardinality(Counted(s, O)) \in Nat
  <1>i. n \in Nat /\ s \in Seq(Routed) /\ x \in Routed /\ n \in 0..Len(s)
    BY DEF Follows
  <1>1. O \subseteq 1..n /\ m \notin 1..n /\ m \notin O
    BY <1>i, OpenIsFinite
  <1>3. Gathered(t, With(O, m), m) = Joined(Gathered(s, O, n), x.f.payload)
    <2>1. Extends(t, s, x, n, m, O)
      BY <1>1 DEF Extends
    <2> QED
      BY <2>1, GatheredMore
  <1>4. Gathered(s, O, n) \in Seq(Byte) /\ x.f.payload \in Seq(Byte)
    BY <1>i, GatheredType DEF Routed, FrameType
  <1>5. Len(Gathered(t, With(O, m), m)) = Len(Gathered(s, O, n)) + Len(x.f.payload)
    BY <1>3, <1>4 DEF Joined
  <1>6. IsFiniteSet(Counted(s, O)) /\ Cardinality(Counted(s, O)) \in Nat
    BY <1>i, OpenIsFinite, FS_CardinalityType
  <1>7. t[m] = x /\ \A k \in 1..n : t[k] = s[k]
    BY DEF Follows
  <1>8. \A k : k \in Counted(t, With(O, m)) <=> k \in Counted(s, O) \/ (k = m /\ ~Dropped(x.f))
    BY <1>1, <1>7 DEF Counted, With
  <1>9. m \notin Counted(s, O)
    BY <1>1 DEF Counted
  <1>10. Cardinality(Counted(s, O) \cup {m}) = Cardinality(Counted(s, O)) + 1
    BY <1>6, <1>9, FS_AddElement
  <1>11. Cardinality(Counted(t, With(O, m)))
           = Cardinality(Counted(s, O)) + (IF Dropped(x.f) THEN 0 ELSE 1)
    <2>1. CASE Dropped(x.f)
      <3>1. Counted(t, With(O, m)) = Counted(s, O)
        BY <1>8, <2>1
      <3> QED
        BY <1>6, <2>1, <3>1
    <2>2. CASE ~Dropped(x.f)
      <3>1. Counted(t, With(O, m)) = Counted(s, O) \cup {m}
        BY <1>8, <2>2
      <3> QED
        BY <1>10, <2>2, <3>1
    <2> QED
      BY <2>1, <2>2
  <1> QED
    BY <1>3, <1>5, <1>6, <1>11

LEMMA MinOfNaturals ==
    ASSUME NEW S \in SUBSET Nat, NEW i \in S, \A j \in S : i <= j
    PROVE  Min(S) = i
  <1>1. \A k \in S : (\A j \in S : k <= j) => k = i
    OBVIOUS
  <1> QED
    BY <1>1 DEF Min

\* u has x at position m behind the frames routed, whose open message is O.
Behind(u, x, n, m, O) ==
    /\ x \in Routed /\ u = Append(routed, x)
    /\ n \in Nat /\ n = Len(routed) /\ m = n + 1 /\ O = OpenAt(routed, n)

\* A frame x behind those routed, told from the frames and from the loop's fields.
LEMMA NextPosition ==
    ASSUME RouterInv, Told, pc # "stopped",
           NEW x, NEW u, NEW n, NEW m, NEW O, Behind(u, x, n, m, O)
    PROVE  /\ Parts(u, m) = With(O, m)
           /\ JoinedAt(u, m) = Joined(Gathered(routed, O, n), x.f.payload)
           /\ BytesAt(u, m) = msg.acc + Len(x.f.payload)
           /\ CountAt(u, m) = msg.count + (IF Dropped(x.f) THEN 0 ELSE 1)
           /\ IsDataOpcode(x.f.op) /\ (MsgOpen <=> x.f.op = OpcodeContinuation) =>
                 TypeAt(u, m) = IF x.f.op # OpcodeContinuation THEN x.f.op ELSE msg.op
  <1> USE DEF Behind
  <1> PICK s \in Seq(Routed) : s = routed
    BY DEF RouterInv, Types, Routed
  <1>0. Follows(u, s, x, n) /\ O = OpenAt(s, n)
    BY DEF Follows
  <1>1. u = Append(s, x) /\ n = Len(s) /\ m - 1 = n
    OBVIOUS
  <1>2. Parts(u, m) = With(O, m)
    <2>1. n \in 0..Len(s)
      BY <1>1
    <2>2. OpenAt(u, n) = OpenAt(s, n)
      BY <1>1, <2>1, OpenBefore
    <2> QED
      BY <1>0, <1>1, <2>2 DEF Parts, With
  <1>3. /\ Gathered(u, Parts(u, m), m) = Joined(Gathered(s, O, n), x.f.payload)
        /\ Len(Gathered(u, Parts(u, m), m)) = Len(Gathered(s, O, n)) + Len(x.f.payload)
        /\ Cardinality(Counted(u, Parts(u, m)))
             = Cardinality(Counted(s, O)) + (IF Dropped(x.f) THEN 0 ELSE 1)
    BY <1>0, <1>2, OneMore
  <1>4. msg.acc = Len(Gathered(s, O, n)) /\ msg.count = Cardinality(Counted(s, O))
    BY DEF Told
  <1>5. JoinedAt(u, m) = Gathered(u, Parts(u, m), m)
    BY DEF JoinedAt, Gathered
  <1>6. CountAt(u, m) = Cardinality(Counted(u, Parts(u, m)))
    BY DEF CountAt, Counted
  <1>7. ASSUME IsDataOpcode(x.f.op), MsgOpen <=> x.f.op = OpcodeContinuation
        PROVE  TypeAt(u, m) = IF x.f.op # OpcodeContinuation THEN x.f.op ELSE msg.op
    <2>1. OpenKnown
      BY DEF RouterInv
    <2>2. u[m] = x /\ \A k \in 1..n : u[k] = s[k]
      BY <1>1
    <2>3. O \subseteq 1..n
      BY <1>0, OpenIsFinite
    <2>4. Parts(u, m) \in SUBSET Nat
      BY <1>2, <2>3 DEF With
    <2>5. CASE MsgOpen
      <3>1. PICK i : Opens(s, n, i) /\ msg.op = s[i].f.op
        BY <2>1, <2>5 DEF OpenKnown
      <3>2. i \in 1..n /\ i \in Parts(u, m) /\ \A j \in Parts(u, m) : i <= j
        BY <1>0, <1>2, <2>3, <3>1 DEF Opens, With
      <3>3. Min(Parts(u, m)) = i
        BY <2>4, <3>2, MinOfNaturals
      <3> QED
        BY <1>7, <2>2, <2>5, <3>1, <3>2, <3>3 DEF TypeAt
    <2>6. CASE ~MsgOpen
      <3>1. O = {}
        BY <1>0, <2>1, <2>6 DEF OpenKnown
      <3>2. m \in Parts(u, m) /\ \A j \in Parts(u, m) : m <= j
        BY <1>2, <3>1 DEF With
      <3>3. Min(Parts(u, m)) = m
        BY <2>4, <3>2, MinOfNaturals
      <3> QED
        BY <1>7, <2>2, <2>6, <3>3 DEF TypeAt
    <2> QED
      BY <2>5, <2>6
  <1> QED
    BY <1>2, <1>3, <1>4, <1>5, <1>6, <1>7 DEF BytesAt

\* The totals after a frame that is routed.
LEMMA ToldAfterRouting ==
    ASSUME RouterInv, Told, pc # "stopped", config' = config,
           Passed, Leaves \/ EndsMsg \/ Grows,
           IsDataOpcode(frame.op) => (MsgOpen <=> frame.op = OpcodeContinuation)
    PROVE  Told'
  <1>t. /\ config \in ConfigType /\ frame \in FrameType /\ msg \in MsgRecord
        /\ routed \in Seq(Routed)
    BY DEF RouterInv, Types, Routed
  <1>m. /\ msg.frames \in Seq(Seq(Byte)) /\ msg.acc \in Nat /\ msg.count \in Nat
        /\ frame.payload \in Seq(Byte) /\ Len(frame.payload) \in Nat
    BY <1>t DEF MsgRecord, FrameType
  <1>0. NoMsg.frames = <<>> /\ NoMsg.acc = 0 /\ NoMsg.count = 0
    BY DEF NoMsg
  <1>1. PICK x \in Routed : x = [f |-> frame, c |-> config] /\ x.f = frame
    <2>1. [f |-> frame, c |-> config] \in Routed
      BY <1>t DEF Routed
    <2> QED
      BY <2>1
  <1>2. PICK s \in Seq(Routed), u \in Seq(Routed) : s = routed /\ u = Append(s, x)
    <2>1. routed \in Seq(Routed) /\ Append(routed, x) \in Seq(Routed)
      BY <1>t
    <2> QED
      BY <2>1
  <1>3. PICK n \in Nat, m \in Nat : n = Len(s) /\ m = n + 1
    OBVIOUS
  <1>4. PICK O : O = OpenAt(s, n)
    OBVIOUS
  <1>5. Follows(u, s, x, n) /\ routed' = u /\ Len(routed') = m
    BY <1>1, <1>2, <1>3 DEF Follows, Passed
  <1>6. /\ msg.acc = Len(Gathered(s, O, n)) /\ msg.count = Cardinality(Counted(s, O))
        /\ ~config.data => FlattenSeq(msg.frames) = Gathered(s, O, n)
    BY <1>2, <1>3, <1>4 DEF Told
  <1>7. O \subseteq 1..n
    BY <1>4, OpenIsFinite
  <1>8. SUFFICES /\ msg'.acc = Len(Gathered(u, OpenAt(u, m), m))
                 /\ msg'.count = Cardinality(Counted(u, OpenAt(u, m)))
                 /\ ~config.data => FlattenSeq(msg'.frames) = Gathered(u, OpenAt(u, m), m)
    BY <1>5 DEF Told
  <1>9. IsDataOpcode(frame.op) /\ ~frame.fin => OpenAt(u, m) = With(O, m)
    BY <1>1, <1>2, <1>3, <1>4, OpenAfterFragment DEF With
  <1>10. /\ Gathered(u, With(O, m), m) = Joined(Gathered(s, O, n), frame.payload)
         /\ Len(Gathered(u, With(O, m), m)) = Len(Gathered(s, O, n)) + Len(frame.payload)
         /\ Cardinality(Counted(u, With(O, m)))
              = Cardinality(Counted(s, O)) + (IF Dropped(frame) THEN 0 ELSE 1)
    BY <1>1, <1>3, <1>4, <1>5, OneMore
  <1>11. CASE Leaves /\ ~IsDataOpcode(frame.op)
    <2>1. OpenAt(u, m) = O
      BY <1>1, <1>2, <1>3, <1>4, <1>11, OpenAfterOther
    <2>2. Gathered(u, O, m) = Gathered(s, O, n)
      <3>1. Extends(u, s, x, n, m, O)
        BY <1>3, <1>5, <1>7 DEF Extends
      <3> QED
        BY <3>1, GatheredMore
    <2>3. Counted(u, O) = Counted(s, O)
      <3>1. \A k \in 1..n : u[k] = s[k]
        BY <1>2, <1>3
      <3> QED
        BY <1>7, <3>1 DEF Counted
    <2>4. msg' = msg
      BY <1>11 DEF Leaves
    <2> QED
      BY <1>6, <2>1, <2>2, <2>3, <2>4
  <1>12. CASE Leaves /\ IsDataOpcode(frame.op)
    <2>1. msg' = msg /\ Dropped(frame) /\ ~frame.fin /\ frame.payload = <<>> /\ Len(frame.payload) = 0
      BY <1>12 DEF Leaves, Dropped
    <2>2. OpenAt(u, m) = With(O, m)
      BY <1>9, <1>12, <2>1
    <2>3. Gathered(s, O, n) \in Seq(Byte)
      <3>1. n \in 0..Len(s)
        BY <1>3
      <3> QED
        BY <3>1, GatheredType
    <2>4. Joined(Gathered(s, O, n), frame.payload) = Gathered(s, O, n)
      <3>1. \A w \in Seq(Byte) : w \o <<>> = w
        OBVIOUS
      <3> QED
        BY <2>1, <2>3, <3>1 DEF Joined
    <2>5. Gathered(u, OpenAt(u, m), m) = Gathered(s, O, n)
      BY <1>10, <2>2, <2>4
    <2>6. Cardinality(Counted(u, OpenAt(u, m))) = Cardinality(Counted(s, O))
      BY <1>6, <1>10, <1>m, <2>1, <2>2
    <2> QED
      BY <1>6, <2>1, <2>5, <2>6
  <1>13. CASE EndsMsg
    <2>1. OpenAt(u, m) = {}
      BY <1>1, <1>2, <1>3, <1>13, OpenAfterFin DEF EndsMsg
    <2>2. Gathered(u, {}, m) = <<>> /\ Counted(u, {}) = {}
      BY NothingGathered DEF Counted
    <2>3. FlattenSeq(<<>>) = <<>> /\ Len(<<>>) = 0
      BY DEF FlattenSeq
    <2>4. Cardinality({}) = 0
      BY FS_EmptySet
    <2>5. msg' = NoMsg
      BY <1>13 DEF EndsMsg
    <2> QED
      BY <1>0, <2>1, <2>2, <2>3, <2>4, <2>5
  <1>14. CASE Grows
    <2>1. /\ IsDataOpcode(frame.op) /\ ~frame.fin /\ ~Dropped(frame)
          /\ msg'.acc = msg.acc + Len(frame.payload) /\ msg'.count = msg.count + 1
          /\ ~config.data => msg'.frames = Append(msg.frames, frame.payload)
      BY <1>14 DEF Grows
    <2>2. OpenAt(u, m) = With(O, m)
      BY <1>9, <2>1
    <2>3. msg'.acc = Len(Gathered(u, OpenAt(u, m), m))
      BY <1>6, <1>10, <2>1, <2>2
    <2>4. msg'.count = Cardinality(Counted(u, OpenAt(u, m)))
      BY <1>6, <1>10, <2>1, <2>2
    <2>5. ASSUME ~config.data PROVE FlattenSeq(msg'.frames) = Gathered(u, OpenAt(u, m), m)
      <3>1. FlattenSeq(msg'.frames) = FlattenSeq(msg.frames) \o frame.payload
        BY <1>m, <2>1, <2>5, FlattenAppend
      <3>2. FlattenSeq(msg'.frames) = Joined(FlattenSeq(msg.frames), frame.payload)
        BY <3>1 DEF Joined
      <3> QED
        BY <1>6, <1>10, <2>2, <2>5, <3>2
    <2> QED
      BY <2>3, <2>4, <2>5
  <1> QED
    BY <1>11, <1>12, <1>13, <1>14

LEMMA ToldInit == Init => Told
  <1> SUFFICES ASSUME Init PROVE Told
    OBVIOUS
  <1>1. routed = <<>> /\ msg = NoMsg /\ Len(routed) = 0
    BY DEF Init
  <1>2. OpenAt(routed, 0) = {}
    <2>1. \A i : i \notin 1..0
      OBVIOUS
    <2> QED
      BY <2>1 DEF OpenAt
  <1>3. Gathered(routed, {}, 0) = <<>> /\ Counted(routed, {}) = {} /\ Cardinality({}) = 0
    <2>1. routed \in Seq(Routed)
      BY <1>1, EmptySeq
    <2> QED
      BY <2>1, NothingGathered, FS_EmptySet DEF Counted
  <1>4. FlattenSeq(<<>>) = <<>> /\ Len(<<>>) = 0
    BY DEF FlattenSeq
  <1>5. NoMsg.frames = <<>> /\ NoMsg.acc = 0 /\ NoMsg.count = 0
    BY DEF NoMsg
  <1> QED
    BY <1>1, <1>2, <1>3, <1>4, <1>5 DEF Told

LEMMA ToldUnderNewConfig == ASSUME RouterInv, Told, NEW c \in Config, SetConfig(c) PROVE Told'
  <1>1. /\ pc # "stopped" /\ (msg.count = 0 \/ c.data = config.data) /\ config' = c
        /\ UNCHANGED <<pc, msg, routed>>
    BY DEF SetConfig
  <1>2. CASE c.data = config.data
    BY <1>1, <1>2 DEF Told
  <1>3. CASE msg.count = 0
    <2>1. ~MsgOpen
      BY <1>3 DEF MsgOpen
    <2>2. msg.frames = <<>> /\ OpenAt(routed, Len(routed)) = {}
      BY <1>1, <2>1 DEF RouterInv, InTurn, OpenKnown
    <2>3. Gathered(routed, {}, Len(routed)) = <<>>
      <3>1. routed \in Seq(Routed) /\ Len(routed) \in Nat
        BY DEF RouterInv, Types, Routed
      <3> QED
        BY <3>1, NothingGathered
    <2>4. FlattenSeq(<<>>) = <<>>
      BY DEF FlattenSeq
    <2> QED
      BY <1>1, <2>2, <2>3, <2>4 DEF Told
  <1> QED
    BY <1>1, <1>2, <1>3

-----------------------------------------------------------------------------
(* What RFC 6455 makes of the next frame, in the loop's own terms.           *)

\* LegalAt for a frame f that would be routed next, told from msg.
Conforms(f, c, d) ==
    LET within == d.limit = 0 \/ msg.acc + Len(f.payload) <= d.limit
        n == Len(routed)
    IN  /\ ~f.rsv /\ f.mask = c.peerIsClient
        /\ IsControlOpcode(f.op) => f.fin /\ Len(f.payload) <= ControlMax
        /\ f.op = OpcodeClose => CloseVerdict(f) = "none"
        /\ IsDataOpcode(f.op) =>
              /\ MsgOpen <=> f.op = OpcodeContinuation
              /\ ~Dropped(f) => within /\ (d.count = 0 \/ msg.count + 1 <= d.count)
              /\ f.fin /\ (IF f.op # OpcodeContinuation THEN f.op ELSE msg.op) = OpcodeText /\ ~d.data
                    => ValidUTF8(Joined(Gathered(routed, OpenAt(routed, n), n), f.payload))
        /\ f.op \notin {0, 1, 2, 8, 9, 10} => within \/ Len(f.payload) <= ControlMax

LEMMA LegalIsConforming ==
    ASSUME RouterInv, Told, pc # "stopped", NEW f \in FrameType,
           NEW u, u = Append(routed, [f |-> f, c |-> config]),
           NEW c \in ConfigType, NEW d \in ConfigType
    PROVE  LegalAt(u, Len(u), c, d) <=> Conforms(f, c, d)
  <1>t. config \in ConfigType /\ msg \in MsgRecord /\ routed \in Seq(Routed)
    BY DEF RouterInv, Types, Routed
  <1>1. PICK x \in Routed : x = [f |-> f, c |-> config] /\ x.f = f
    <2>1. [f |-> f, c |-> config] \in Routed
      BY <1>t DEF Routed
    <2> QED
      BY <2>1
  <1>2. PICK s \in Seq(Routed) : s = routed
    BY <1>t
  <1>3. PICK n \in Nat, m \in Nat : n = Len(s) /\ m = n + 1
    OBVIOUS
  <1>4. PICK O : O = OpenAt(s, n)
    OBVIOUS
  <1>5. /\ u[m] = x /\ u[m].f = f /\ Len(u) = m /\ m - 1 = n
    BY <1>1, <1>2, <1>3
  <1>6. /\ JoinedAt(u, m) = Joined(Gathered(routed, O, n), f.payload)
        /\ BytesAt(u, m) = msg.acc + Len(f.payload)
        /\ CountAt(u, m) = msg.count + (IF Dropped(f) THEN 0 ELSE 1)
        /\ IsDataOpcode(f.op) /\ (MsgOpen <=> f.op = OpcodeContinuation) =>
              TypeAt(u, m) = IF f.op # OpcodeContinuation THEN f.op ELSE msg.op
    <2>1. Behind(u, x, n, m, O)
      BY <1>1, <1>2, <1>3, <1>4 DEF Behind
    <2>2. /\ JoinedAt(u, m) = Joined(Gathered(routed, O, n), x.f.payload)
          /\ BytesAt(u, m) = msg.acc + Len(x.f.payload)
          /\ CountAt(u, m) = msg.count + (IF Dropped(x.f) THEN 0 ELSE 1)
          /\ IsDataOpcode(x.f.op) /\ (MsgOpen <=> x.f.op = OpcodeContinuation) =>
                TypeAt(u, m) = IF x.f.op # OpcodeContinuation THEN x.f.op ELSE msg.op
      BY <2>1, NextPosition
    <2> QED
      BY <1>1, <2>2, Zenon
  <1>7. OpenAt(u, m - 1) = O
    <2>1. n \in 0..Len(s)
      BY <1>3
    <2>2. OpenAt(u, n) = OpenAt(s, n)
      BY <1>1, <1>2, <2>1, OpenBefore
    <2> QED
      BY <1>4, <1>5, <2>2
  <1>8. MsgOpen <=> O # {}
    BY <1>2, <1>3, <1>4 DEF RouterInv, OpenKnown
  <1>9. LawfulAt(u, m) <=>
           /\ ~f.rsv
           /\ IsControlOpcode(f.op) => f.fin /\ Len(f.payload) <= ControlMax
           /\ f.op = OpcodeClose => CloseVerdict(f) = "none"
           /\ IsDataOpcode(f.op) => (MsgOpen <=> f.op = OpcodeContinuation)
    BY <1>5, <1>7, <1>8 DEF LawfulAt
  <1>10. /\ OpenAt(routed, Len(routed)) = O /\ Len(routed) = n
    BY <1>2, <1>3, <1>4
  <1>11. ~Dropped(f) => CountAt(u, m) = msg.count + 1
    BY <1>6
  <1> QED
    BY <1>5, <1>6, <1>9, <1>10, <1>11 DEF LegalAt, Conforms

\* A frame too long for the limit granted is too long for the budget it was granted by.
LEMMA RefusedByLimit ==
    ASSUME msg.acc \in Nat, NEW c \in ConfigType, NEW n \in Nat,
           NextFrameByteLimit(c) > 0, n > NextFrameByteLimit(c)
    PROVE  c.limit # 0 /\ ~(msg.acc + n <= c.limit) /\ ~(n <= ControlMax)
  <1>1. c.limit \in Nat /\ ControlMax \in Nat \ {0}
    BY ListenerRouterAssumption DEF ConfigType
  <1>2. c.limit # 0
    BY DEF NextFrameByteLimit
  <1>3. CASE msg.acc > c.limit
    BY <1>1, <1>2, <1>3 DEF NextFrameByteLimit
  <1>4. CASE ~(msg.acc > c.limit)
    <2>1. Max({c.limit - msg.acc, ControlMax})
            = IF c.limit - msg.acc >= ControlMax THEN c.limit - msg.acc ELSE ControlMax
      BY <1>1, MaxOfTwo
    <2> QED
      BY <1>1, <1>2, <1>4, <2>1 DEF NextFrameByteLimit
  <1> QED
    BY <1>3, <1>4

\* validateFrame answers with an error only for a frame that breaks a rule.
LEMMA LegalHasNoVerdict ==
    ASSUME NEW f \in FrameType, NEW c \in ConfigType,
           ~f.rsv, f.mask = c.peerIsClient,
           IsControlOpcode(f.op) => f.fin /\ Len(f.payload) <= ControlMax,
           IsDataOpcode(f.op) => (MsgOpen <=> f.op = OpcodeContinuation)
    PROVE  Verdict(f, c) = "none"
  <1>1. Len(f.payload) \in Nat /\ ControlMax \in Nat
    BY ListenerRouterAssumption DEF FrameType
  <1>2. ~(IsControlOpcode(f.op) /\ ~f.fin)
    OBVIOUS
  <1>3. ~(IsControlOpcode(f.op) /\ f.fin /\ Len(f.payload) > ControlMax)
    BY <1>1
  <1> QED
    BY <1>2, <1>3 DEF Verdict

\* Listen has returned no error while it runs, and the mask of the frame in hand was
\* judged under a configuration the frame met.
Judged ==
    /\ pc # "stopped" => err = "none"
    /\ pc = "route" => \E c \in used : frame.mask = c.peerIsClient

LEMMA JudgedKeeps == ASSUME RouterInv, Judged, [Next]_vars PROVE Judged'
  <1>1. ASSUME NEW c \in Config, SetConfig(c) PROVE Judged'
    BY <1>1 DEF SetConfig, Judged
  <1>2. CASE ArmDeadline \/ GrantLimit
    BY <1>2 DEF ArmDeadline, GrantLimit, Judged
  <1>3. ASSUME NEW f \in Frame, ReadFrame(f) PROVE Judged'
    BY <1>3 DEF ReadFrame, Stop, Judged
  <1>4. CASE ReadTimesOut
    BY <1>4 DEF ReadTimesOut, Stop, Judged
  <1>5. CASE ValidateFrame
    <2>1. frame \in FrameType /\ config \in ConfigType
      BY DEF RouterInv, Types
    <2>2. Verdict(frame, config) = "none" => frame.mask = config.peerIsClient
      BY <2>1, NoVerdict
    <2> QED
      BY <1>5, <2>2 DEF ValidateFrame, Stop, Judged
  <1>6. CASE RouteFrame
    <2>1. pc = "route" /\ (pc' = "stopped" \/ (pc' = "arm" /\ err' = err))
      BY <1>6 DEF RouteFrame, RouteControl, RouteReserved, RouteData, HandOver, Keep, Complete,
                  Refuse, Stop, Done
    <2> QED
      BY <2>1 DEF Judged
  <1>7. CASE UNCHANGED vars
    BY <1>7 DEF vars, Judged
  <1> QED
    BY <1>1, <1>2, <1>3, <1>4, <1>5, <1>6, <1>7 DEF Next, Finished

\* A frame routed without error conforms.
LEMMA PassedConforms ==
    ASSUME RouterInv, Told, Judged, RouteFrame, pc' = "arm"
    PROVE  \E c, d \in used' : Conforms(frame, c, d)
  <1>t. /\ config \in ConfigType /\ used \subseteq ConfigType /\ frame \in FrameType
        /\ msg \in MsgRecord /\ pc = "route" /\ used' = used \cup {config}
    BY DEF RouterInv, Types, RouteFrame
  <1>m. /\ msg.frames \in Seq(Seq(Byte)) /\ msg.acc \in Nat /\ msg.count \in Nat
        /\ frame.payload \in Seq(Byte) /\ Len(frame.payload) \in Nat /\ frame.op \in Opcode
    BY <1>t DEF MsgRecord, FrameType
  <1>1. PICK c \in used : frame.mask = c.peerIsClient
    BY <1>t DEF Judged
  <1>2. /\ ~frame.rsv
        /\ IsControlOpcode(frame.op) => frame.fin /\ Len(frame.payload) <= ControlMax
        /\ IsDataOpcode(frame.op) => (MsgOpen <=> frame.op = OpcodeContinuation)
    BY <1>t DEF RouterInv, Checked, InTurn
  <1>3. CASE IsControlOpcode(frame.op) /\ RouteControl
    <2>1. frame.op \in {8, 9, 10} /\ ~IsDataOpcode(frame.op)
      BY <1>3 DEF IsControlOpcode, IsDataOpcode, OpcodeContinuation, OpcodeText, OpcodeBinary,
                  OpcodeClose, OpcodePing, OpcodePong
    <2>2. frame.op = OpcodeClose => CloseVerdict(frame) = "none"
      BY <1>3, <1>t DEF RouteControl, Refuse, Stop, OpcodeClose, OpcodePing, OpcodePong
    <2> QED
      BY <1>t, <1>1, <1>2, <2>1, <2>2 DEF Conforms
  <1>4. CASE ~IsControlOpcode(frame.op) /\ ~IsDataOpcode(frame.op)
    <2>1. PICK d \in used : Within(d, Len(frame.payload))
      BY <1>t DEF RouterInv, Granted
    <2>2. frame.op # OpcodeClose
      BY <1>4 DEF IsControlOpcode
    <2>3. (d.limit = 0 \/ msg.acc + Len(frame.payload) <= d.limit) \/ Len(frame.payload) <= ControlMax
      BY <2>1 DEF Within
    <2> QED
      BY <1>t, <1>1, <1>2, <1>4, <2>2, <2>3 DEF Conforms
  <1>5. CASE IsDataOpcode(frame.op) /\ RouteData
    <2>1. frame.op \in {0, 1, 2} /\ frame.op # OpcodeClose /\ ~IsControlOpcode(frame.op)
      BY <1>5 DEF IsControlOpcode, IsDataOpcode, OpcodeContinuation, OpcodeText, OpcodeBinary,
                  OpcodeClose, OpcodePing, OpcodePong
    <2>2. config.limit \in Nat /\ config.count \in Nat
      BY <1>t DEF ConfigType
    <2>3. ASSUME ~Dropped(frame)
          PROVE  /\ config.limit = 0 \/ msg.acc + Len(frame.payload) <= config.limit
                 /\ config.count = 0 \/ msg.count + 1 <= config.count
      <3>1. pc' # "stopped"
        OBVIOUS
      <3>2. /\ ~(config.limit > 0 /\ msg.acc + Len(frame.payload) > config.limit)
            /\ ~(config.count > 0 /\ msg.count + 1 > config.count)
        BY <1>5, <2>3, <3>1 DEF RouteData, Refuse, Stop
      <3> QED
        BY <1>m, <2>2, <3>2
    <2>4. ASSUME frame.fin, MsgType = OpcodeText, ~config.data
          PROVE  ValidUTF8(Joined(Gathered(routed, OpenAt(routed, Len(routed)), Len(routed)), frame.payload))
      <3>1. ~Dropped(frame)
        BY <2>4 DEF Dropped
      <3>2. Complete
        BY <1>5, <2>4, <3>1 DEF RouteData, Refuse, Stop
      <3>3. ~TextRefused(Append(msg.frames, frame.payload))
        BY <2>4, <3>2 DEF Complete, Refuse, Stop, OpcodeText, OpcodeBinary
      <3>4. FlattenSeq(Append(msg.frames, frame.payload)) = Joined(FlattenSeq(msg.frames), frame.payload)
        BY <1>m, FlattenAppend DEF Joined
      <3>5. FlattenSeq(msg.frames) = Gathered(routed, OpenAt(routed, Len(routed)), Len(routed))
        BY <1>t, <2>4 DEF Told
      <3> QED
        BY <3>3, <3>4, <3>5 DEF TextRefused
    <2> QED
      BY <1>t, <1>1, <1>2, <2>1, <2>3, <2>4 DEF Conforms, MsgType
  <1> QED
    BY <1>3, <1>4, <1>5 DEF RouteFrame

LEMMA RoutedIsLegalKeeps ==
    ASSUME RouterInv, Told, Judged, RoutedIsLegal, [Next]_vars
    PROVE  RoutedIsLegal'
  <1>1. ASSUME NEW c \in Config, SetConfig(c) PROVE RoutedIsLegal'
    BY <1>1 DEF SetConfig, RoutedIsLegal, LegalAt
  <1>2. CASE ArmDeadline \/ GrantLimit
    BY <1>2 DEF ArmDeadline, GrantLimit, RoutedIsLegal
  <1>3. ASSUME NEW f \in Frame, ReadFrame(f) PROVE RoutedIsLegal'
    BY <1>3 DEF ReadFrame, Stop, RoutedIsLegal
  <1>4. CASE ReadTimesOut \/ ValidateFrame
    BY <1>4 DEF ReadTimesOut, ValidateFrame, Stop, RoutedIsLegal
  <1>5. CASE RouteFrame
    <2> SUFFICES ASSUME pc' = "arm"
                 PROVE  \E c, d \in used' : LegalAt(routed', Len(routed'), c, d)
      BY DEF RoutedIsLegal
    <2>1. routed' = Append(routed, [f |-> frame, c |-> config])
      <3>1. Refused \/ Passed
        BY <1>5, RouteOutcome DEF RouterInv
      <3> QED
        BY <3>1 DEF Refused, Passed
    <2>2. PICK c \in used', d \in used' : Conforms(frame, c, d)
      BY <1>5, PassedConforms
    <2>3. /\ c \in ConfigType /\ d \in ConfigType /\ frame \in FrameType /\ pc # "stopped"
      BY <1>5 DEF RouteFrame, RouterInv, Types
    <2>4. LegalAt(routed', Len(routed'), c, d)
      BY <2>1, <2>2, <2>3, LegalIsConforming
    <2> QED
      BY <2>4
  <1>6. CASE UNCHANGED vars
    BY <1>6 DEF vars, RoutedIsLegal, LegalAt
  <1> QED
    BY <1>1, <1>2, <1>3, <1>4, <1>5, <1>6 DEF Next, Finished

\* A frame refused breaks a rule, or a budget it met.
LEMMA RefusedDoesNotConform ==
    ASSUME RouterInv, Told, Judged, [Next]_vars, pc # "stopped", pc' = "stopped", err' # "timeout"
    PROVE  \E c, d \in used' : ~Conforms(frame', c, d)
  <1>t. /\ config \in ConfigType /\ used \subseteq ConfigType /\ frame \in FrameType
        /\ msg \in MsgRecord
    BY DEF RouterInv, Types
  <1>m. /\ msg.frames \in Seq(Seq(Byte)) /\ msg.acc \in Nat /\ msg.count \in Nat
        /\ frame.payload \in Seq(Byte) /\ Len(frame.payload) \in Nat
        /\ config.limit \in Nat /\ config.count \in Nat
    BY <1>t DEF MsgRecord, FrameType, ConfigType
  <1>1. ASSUME NEW f \in Frame, ReadFrame(f) PROVE \E c, d \in used' : ~Conforms(frame', c, d)
    <2>1. /\ granted > 0 /\ Len(f.payload) > granted /\ frame' = f /\ used' = used /\ pc = "read"
          /\ f \in FrameType
      BY <1>1, ConfigsAreTyped DEF ReadFrame, Stop
    <2>2. PICK c \in used : granted = NextFrameByteLimit(c)
      BY <2>1 DEF RouterInv, Granted
    <2>3. c \in ConfigType /\ c.limit \in Nat /\ Len(f.payload) \in Nat /\ f.op \in Opcode
      BY <1>t, <2>1 DEF ConfigType, FrameType
    <2>4. /\ ~(c.limit = 0 \/ msg.acc + Len(f.payload) <= c.limit)
          /\ ~(Len(f.payload) <= ControlMax)
      BY <1>m, <2>1, <2>2, <2>3, RefusedByLimit
    <2>5. ~Dropped(f)
      <3>1. granted \in Nat /\ Len(f.payload) # 0
        BY <2>1, <2>3 DEF RouterInv, Types
      <3> QED
        BY <3>1, EmptySeq DEF Dropped
    <2>6. IsControlOpcode(f.op) \/ IsDataOpcode(f.op) \/ f.op \notin {0, 1, 2, 8, 9, 10}
      BY DEF IsControlOpcode, IsDataOpcode, OpcodeContinuation, OpcodeText, OpcodeBinary,
             OpcodeClose, OpcodePing, OpcodePong
    <2>7. ~Conforms(f, c, c)
      BY <2>4, <2>5, <2>6 DEF Conforms
    <2> QED
      BY <2>1, <2>2, <2>7
  <1>2. CASE ValidateFrame
    <2>1. Verdict(frame, config) # "none" /\ frame' = frame /\ config \in used'
      BY <1>2 DEF ValidateFrame, Stop
    <2>2. ~Conforms(frame, config, config)
      BY <1>t, <2>1, LegalHasNoVerdict DEF Conforms
    <2> QED
      BY <2>1, <2>2
  <1>3. CASE RouteFrame
    <2>1. frame' = frame /\ config \in used' /\ pc = "route"
      BY <1>3 DEF RouteFrame
    <2>2. CASE IsControlOpcode(frame.op) /\ RouteControl
      <3>1. frame.op = OpcodeClose /\ CloseVerdict(frame) # "none"
        BY <2>2 DEF RouteControl, Done
      <3>2. ~Conforms(frame, config, config)
        BY <3>1 DEF Conforms
      <3> QED
        BY <2>1, <3>2
    <2>3. CASE IsDataOpcode(frame.op) /\ RouteData
      <3>1. ~Dropped(frame)
        BY <2>3 DEF RouteData, Done
      <3>2. CASE config.limit > 0 /\ msg.acc + Len(frame.payload) > config.limit
        <4>1. ~(config.limit = 0 \/ msg.acc + Len(frame.payload) <= config.limit)
          BY <1>m, <3>2
        <4>2. ~Conforms(frame, config, config)
          BY <2>3, <3>1, <4>1 DEF Conforms
        <4> QED
          BY <2>1, <4>2
      <3>3. CASE config.count > 0 /\ msg.count + 1 > config.count
        <4>1. ~(config.count = 0 \/ msg.count + 1 <= config.count)
          BY <1>m, <3>3
        <4>2. ~Conforms(frame, config, config)
          BY <2>3, <3>1, <4>1 DEF Conforms
        <4> QED
          BY <2>1, <4>2
      <3>4. CASE ~config.data /\ frame.fin /\ Complete
        <4>1. MsgType = OpcodeText /\ TextRefused(Append(msg.frames, frame.payload))
          BY <3>4 DEF Complete, Done
        <4>2. FlattenSeq(Append(msg.frames, frame.payload)) = Joined(FlattenSeq(msg.frames), frame.payload)
          BY <1>m, FlattenAppend DEF Joined
        <4>3. FlattenSeq(msg.frames) = Gathered(routed, OpenAt(routed, Len(routed)), Len(routed))
          BY <2>1, <3>4 DEF Told
        <4>4. ~ValidUTF8(Joined(Gathered(routed, OpenAt(routed, Len(routed)), Len(routed)), frame.payload))
          BY <4>1, <4>2, <4>3 DEF TextRefused
        <4>5. ~Conforms(frame, config, config)
          BY <2>3, <3>4, <4>1, <4>4 DEF Conforms, MsgType
        <4> QED
          BY <2>1, <4>5
      <3> QED
        BY <2>3, <3>1, <3>2, <3>3, <3>4 DEF RouteData, HandOver, Keep, Done
    <2> QED
      BY <1>3, <2>2, <2>3 DEF RouteFrame, RouteReserved, Done
  <1> QED
    BY <1>1, <1>2, <1>3 DEF Next, Finished, SetConfig, ArmDeadline, GrantLimit, ReadTimesOut, Stop, vars

LEMMA RefusedIsIllegalKeeps ==
    ASSUME RouterInv, Told, Judged, RefusedIsIllegal, [Next]_vars
    PROVE  RefusedIsIllegal'
  <1>1. CASE pc = "stopped"
    <2>1. UNCHANGED <<err, frame, config, used, routed>>
      BY <1>1 DEF Next, Finished, SetConfig, ArmDeadline, GrantLimit, ReadFrame, ReadTimesOut,
                  ValidateFrame, RouteFrame, vars
    <2> QED
      BY <2>1 DEF RefusedIsIllegal, LegalAt
  <1>2. CASE pc # "stopped"
    <2> SUFFICES ASSUME err' \notin {"none", "timeout"}
                 PROVE  LET s == Append(routed, [f |-> frame, c |-> config])'
                        IN  \E c, d \in used' : ~LegalAt(s, Len(s), c, d)
      BY DEF RefusedIsIllegal, LegalAt
    <2>1. pc' = "stopped"
      BY JudgedKeeps DEF Judged
    <2>2. PICK c \in used', d \in used' : ~Conforms(frame', c, d)
      BY <1>2, <2>1, RefusedDoesNotConform
    <2>3. RouterInv'
      BY RouterStep
    <2>4. c \in ConfigType /\ d \in ConfigType /\ frame' \in FrameType
      BY <2>3 DEF RouterInv, Types
    <2>5. routed' = routed /\ config' = config
      <3>1. CASE RouteFrame
        <4>1. Refused
          BY <2>1, <3>1, RouteOutcome DEF RouterInv, Passed
        <4> QED
          BY <3>1, <4>1 DEF Refused, RouteFrame
      <3> QED
        BY <1>2, <2>1, <3>1 DEF Next, Finished, SetConfig, ArmDeadline, GrantLimit, ReadFrame,
                                ReadTimesOut, ValidateFrame, vars
    <2>6. ~LegalAt(Append(routed, [f |-> frame', c |-> config]),
                   Len(Append(routed, [f |-> frame', c |-> config])), c, d)
      BY <1>2, <2>2, <2>4, LegalIsConforming
    <2> QED
      BY <2>5, <2>6
  <1> QED
    BY <1>1, <1>2

-----------------------------------------------------------------------------
(* The hook calls.                                                           *)

\* The calls the first n positions of s are owed.
Owed(s, n) == FlattenSeq([i \in 1..n |-> CallsAt(s, i)])

LEMMA AtMostOneCall ==
    ASSUME NEW s, NEW i
    PROVE  CallsAt(s, i) = <<>> \/ \E r : CallsAt(s, i) = <<r>>
  <1> DEFINE op == s[i].f.op
  <1>1. CASE op = OpcodePing \/ op = OpcodePong \/ op = OpcodeClose
    BY <1>1 DEF CallsAt, OpcodePing, OpcodePong, OpcodeClose
  <1>2. CASE ~(op = OpcodePing \/ op = OpcodePong \/ op = OpcodeClose)
    <2>1. CASE IsData(s, i) /\ s[i].c.data
      BY <1>2, <2>1 DEF CallsAt
    <2>2. CASE IsData(s, i) /\ ~s[i].c.data
      BY <1>2, <2>2 DEF CallsAt
    <2>3. CASE ~IsData(s, i)
      BY <1>2, <2>3 DEF CallsAt
    <2> QED
      BY <2>1, <2>2, <2>3
  <1> QED
    BY <1>1, <1>2

\* One position more changes nothing that the ones before it are owed.
LEMMA CallsBefore ==
    ASSUME NEW s \in Seq(Routed), NEW x \in Routed, NEW t, t = Append(s, x), NEW i \in 1..Len(s)
    PROVE  CallsAt(t, i) = CallsAt(s, i)
  <1>1. t[i] = s[i]
    OBVIOUS
  <1>2. i - 1 \in 0..Len(s) /\ i \in 0..Len(s) /\ i \in Nat /\ i - 1 \in Nat
    OBVIOUS
  <1>3. OpenAt(t, i - 1) = OpenAt(s, i - 1)
    BY <1>2, OpenBefore
  <1>4. Parts(t, i) = Parts(s, i)
    BY <1>3 DEF Parts
  <1>5. Parts(s, i) \subseteq 1..i /\ i \in Parts(s, i)
    BY <1>2, OpenIsFinite DEF Parts
  <1>6. TypeAt(t, i) = TypeAt(s, i)
    <2>1. PICK j \in Parts(s, i) : \A k \in Parts(s, i) : j <= k
      BY <1>2, <1>5, LeastNatural
    <2>2. Min(Parts(s, i)) = j
      BY <1>2, <1>5, <2>1, MinOfNaturals
    <2>3. j \in 1..Len(s)
      BY <1>5, <2>1
    <2>4. t[j] = s[j]
      BY <2>3
    <2>5. TypeAt(t, i) = t[Min(Parts(s, i))].f.op /\ TypeAt(s, i) = s[Min(Parts(s, i))].f.op
      BY <1>4, Zenon DEF TypeAt
    <2> QED
      BY <2>2, <2>4, <2>5, Zenon
  <1>7. JoinedAt(t, i) = JoinedAt(s, i)
    <2>1. AlikeUpTo(t, s, i)
      <3>1. \A k \in 1..i : t[k] = s[k]
        OBVIOUS
      <3> QED
        BY <3>1, Zenon DEF AlikeUpTo
    <2>2. \A P : Gathered(t, P, i) = Gathered(s, P, i)
      BY <2>1, GatheredBefore
    <2>3. JoinedAt(t, i) = Gathered(t, Parts(t, i), i) /\ JoinedAt(s, i) = Gathered(s, Parts(s, i), i)
      BY DEF JoinedAt, Gathered
    <2> QED
      BY <1>4, <2>2, <2>3, Zenon
  <1>8. IsData(t, i) = IsData(s, i)
    BY <1>1 DEF IsData
  <1> QED
    BY <1>1, <1>6, <1>7, <1>8 DEF CallsAt

\* What is owed grows by what the position added is owed, which is one call at most.
LEMMA OwedMore ==
    ASSUME NEW t, NEW s, NEW x, NEW n, Follows(t, s, x, n), NEW m, m = n + 1
    PROVE  /\ CallsAt(t, m) = <<>> => Owed(t, m) = Owed(s, n)
           /\ \A r : CallsAt(t, m) = <<r>> => Owed(t, m) = Append(Owed(s, n), r)
  <1> USE DEF Follows
  <1> DEFINE S == {CallsAt(t, i)[1] : i \in 1..m}
             u == [i \in 1..n |-> CallsAt(s, i)]
             v == [i \in 1..m |-> CallsAt(t, i)]
  <1>1. \A i \in 1..m : CallsAt(t, i) \in Seq(S)
    <2> SUFFICES ASSUME NEW i \in 1..m PROVE CallsAt(t, i) \in Seq(S)
      OBVIOUS
    <2>1. CASE CallsAt(t, i) = <<>>
      BY <2>1, EmptySeq
    <2>2. ASSUME NEW r, CallsAt(t, i) = <<r>> PROVE CallsAt(t, i) \in Seq(S)
      <3>1. CallsAt(t, i)[1] = r
        BY <2>2
      <3>2. r \in S
        BY <3>1
      <3> HIDE DEF S
      <3> QED
        BY <2>2, <3>2
    <2> QED
      BY <2>1, <2>2, AtMostOneCall
  <1>2. \A i \in 1..n : CallsAt(t, i) = CallsAt(s, i)
    BY CallsBefore
  <1>3. n \in Nat /\ m \in Nat /\ \A i \in 1..m : i \in 1..n \/ i = m
    OBVIOUS
  <1> HIDE DEF S
  <1>4. u \in Seq(Seq(S)) /\ Len(u) = n /\ CallsAt(t, m) \in Seq(S)
    <2>1. \A i \in 1..n : CallsAt(s, i) \in Seq(S)
      BY <1>1, <1>2, <1>3
    <2>2. m \in 1..m
      BY <1>3
    <2> QED
      BY <1>1, <1>3, <2>1, <2>2
  <1>5. v = Append(u, CallsAt(t, m))
    <2>1. PICK z : z = CallsAt(t, m)
      OBVIOUS
    <2>2. DOMAIN v = 1..m /\ v = [k \in 1..m |-> v[k]]
      OBVIOUS
    <2>3. /\ \A k \in 1..n : v[k] = u[k]
          /\ v[m] = z
      BY <1>2, <1>3, <2>1
    <2> HIDE DEF u, v
    <2>4. Append(u, z) \in Seq(Seq(S)) /\ Len(Append(u, z)) = m
      BY <1>3, <1>4, <2>1
    <2>5. ASSUME NEW k \in 1..m PROVE v[k] = Append(u, z)[k]
      <3>1. CASE k \in 1..n
        BY <1>4, <2>1, <2>3, <3>1
      <3>2. CASE k = m
        BY <1>4, <2>1, <2>3, <3>2
      <3> QED
        BY <1>3, <3>1, <3>2
    <2>6. \A w \in Seq(Seq(S)) : w = [k \in 1..Len(w) |-> w[k]]
      OBVIOUS
    <2>7. Append(u, z) = [k \in 1..m |-> Append(u, z)[k]]
      BY <2>4, <2>6
    <2> QED
      BY <2>1, <2>2, <2>5, <2>7
  <1>6. Owed(t, m) = Owed(s, n) \o CallsAt(t, m) /\ Owed(s, n) \in Seq(S)
    <2>1. Owed(t, m) = FlattenSeq(v) /\ Owed(s, n) = FlattenSeq(u)
      BY DEF Owed
    <2> HIDE DEF u, v
    <2> QED
      BY <1>4, <1>5, <2>1, FlattenAppend, FlattenType
  <1>7. PICK a \in Seq(S), b \in Seq(S) : a = Owed(s, n) /\ b = CallsAt(t, m)
    BY <1>4, <1>6
  <1>8. b = <<>> => a \o b = a
    OBVIOUS
  <1>9. ASSUME NEW r, b = <<r>> PROVE a \o b = Append(a, r)
    BY <1>9
  <1> QED
    BY <1>6, <1>7, <1>8, <1>9

LEMMA ControlCalls ==
    ASSUME NEW s, NEW i
    PROVE  /\ s[i].f.op = OpcodePing => CallsAt(s, i) = <<[hook |-> "Ping", op |-> 0, payload |-> s[i].f.payload]>>
           /\ s[i].f.op = OpcodePong => CallsAt(s, i) = <<[hook |-> "Pong", op |-> 0, payload |-> s[i].f.payload]>>
           /\ s[i].f.op = OpcodeClose => CallsAt(s, i) = <<[hook |-> "Close", op |-> 0, payload |-> s[i].f.payload]>>
  <1>0. /\ OpcodePing # OpcodePong /\ OpcodePing # OpcodeClose /\ OpcodePong # OpcodeClose
        /\ \A op : op \in {OpcodePing, OpcodePong, OpcodeClose} => ~IsDataOpcode(op)
    BY DEF OpcodePing, OpcodePong, OpcodeClose, IsDataOpcode, OpcodeContinuation, OpcodeText, OpcodeBinary
  <1>1. ASSUME s[i].f.op = OpcodePing
        PROVE  CallsAt(s, i) = <<[hook |-> "Ping", op |-> 0, payload |-> s[i].f.payload]>>
    <2>1. ~IsData(s, i) /\ s[i].f.op = OpcodePing
      BY <1>0, <1>1 DEF IsData
    <2> QED
      BY <1>0, <2>1 DEF CallsAt
  <1>2. ASSUME s[i].f.op = OpcodePong
        PROVE  CallsAt(s, i) = <<[hook |-> "Pong", op |-> 0, payload |-> s[i].f.payload]>>
    <2>1. ~IsData(s, i) /\ s[i].f.op = OpcodePong /\ s[i].f.op # OpcodePing
      BY <1>0, <1>2 DEF IsData
    <2> QED
      BY <1>0, <2>1 DEF CallsAt
  <1>3. ASSUME s[i].f.op = OpcodeClose
        PROVE  CallsAt(s, i) = <<[hook |-> "Close", op |-> 0, payload |-> s[i].f.payload]>>
    <2>1. ~IsData(s, i) /\ s[i].f.op = OpcodeClose /\ s[i].f.op # OpcodePing /\ s[i].f.op # OpcodePong
      BY <1>0, <1>3 DEF IsData
    <2> QED
      BY <1>0, <2>1 DEF CallsAt
  <1> QED
    BY <1>1, <1>2, <1>3, Zenon

\* Routing makes the call that the frame is owed, or none when it is owed none.
LEMMA RoutedCalls ==
    ASSUME RouterInv, Told, RouteFrame, pc' = "arm",
           NEW u, u = Append(routed, [f |-> frame, c |-> config]), NEW m, m = Len(u)
    PROVE  \/ CallsAt(u, m) = <<>> /\ calls' = calls
           \/ \E r : CallsAt(u, m) = <<r>> /\ calls' = Append(calls, r)
  <1>t. /\ config \in ConfigType /\ frame \in FrameType /\ msg \in MsgRecord
        /\ routed \in Seq(Routed) /\ pc = "route"
    BY DEF RouterInv, Types, Routed, RouteFrame
  <1>m. /\ msg.frames \in Seq(Seq(Byte)) /\ frame.payload \in Seq(Byte)
    BY <1>t DEF MsgRecord, FrameType
  <1>1. PICK x \in Routed : x = [f |-> frame, c |-> config] /\ x.f = frame /\ x.c = config
    <2>1. [f |-> frame, c |-> config] \in Routed
      BY <1>t DEF Routed
    <2> QED
      BY <2>1
  <1>2. PICK n \in Nat : n = Len(routed) /\ m = n + 1 /\ u[m] = x
    BY <1>t, <1>1
  <1>3. u[m].f = frame /\ u[m].c = config /\ (IsData(u, m) <=> IsDataOpcode(frame.op))
    BY <1>1, <1>2 DEF IsData
  <1>4. PICK O : O = OpenAt(routed, n)
    OBVIOUS
  <1>5. /\ JoinedAt(u, m) = Joined(Gathered(routed, O, n), frame.payload)
        /\ IsDataOpcode(frame.op) => TypeAt(u, m) = MsgType
    <2>1. Behind(u, x, n, m, O)
      BY <1>1, <1>2, <1>4 DEF Behind
    <2>2. /\ JoinedAt(u, m) = Joined(Gathered(routed, O, n), x.f.payload)
          /\ IsDataOpcode(x.f.op) /\ (MsgOpen <=> x.f.op = OpcodeContinuation) =>
                TypeAt(u, m) = IF x.f.op # OpcodeContinuation THEN x.f.op ELSE msg.op
      BY <1>t, <2>1, NextPosition
    <2>3. IsDataOpcode(frame.op) => (MsgOpen <=> frame.op = OpcodeContinuation)
      BY <1>t DEF RouterInv, InTurn
    <2> QED
      BY <1>1, <2>2, <2>3 DEF MsgType
  <1>6. CASE IsControlOpcode(frame.op) /\ RouteControl
    <2>1. CASE frame.op = OpcodePing /\ Call("Ping", 0, frame.payload)
      <3>1. CallsAt(u, m) = <<[hook |-> "Ping", op |-> 0, payload |-> frame.payload]>>
        <4>1. u[m].f.op = OpcodePing
          BY <1>3, <2>1
        <4>2. CallsAt(u, m) = <<[hook |-> "Ping", op |-> 0, payload |-> u[m].f.payload]>>
          BY <4>1, ControlCalls, Zenon
        <4> QED
          BY <1>3, <4>2, Zenon
      <3> QED
        BY <2>1, <3>1 DEF Call
    <2>2. CASE frame.op = OpcodePong /\ Call("Pong", 0, frame.payload)
      <3>1. CallsAt(u, m) = <<[hook |-> "Pong", op |-> 0, payload |-> frame.payload]>>
        <4>1. u[m].f.op = OpcodePong
          BY <1>3, <2>2
        <4>2. CallsAt(u, m) = <<[hook |-> "Pong", op |-> 0, payload |-> u[m].f.payload]>>
          BY <4>1, ControlCalls, Zenon
        <4> QED
          BY <1>3, <4>2, Zenon
      <3> QED
        BY <2>2, <3>1 DEF Call
    <2>3. CASE frame.op = OpcodeClose /\ Call("Close", 0, frame.payload)
      <3>1. CallsAt(u, m) = <<[hook |-> "Close", op |-> 0, payload |-> frame.payload]>>
        <4>1. u[m].f.op = OpcodeClose
          BY <1>3, <2>3
        <4>2. CallsAt(u, m) = <<[hook |-> "Close", op |-> 0, payload |-> u[m].f.payload]>>
          BY <4>1, ControlCalls, Zenon
        <4> QED
          BY <1>3, <4>2, Zenon
      <3> QED
        BY <2>3, <3>1 DEF Call
    <2> QED
      BY <1>6, <2>1, <2>2, <2>3 DEF RouteControl, Refuse, Stop
  <1>7. CASE ~IsControlOpcode(frame.op) /\ ~IsDataOpcode(frame.op) /\ RouteReserved
    <2>1. frame.op # OpcodePing /\ frame.op # OpcodePong /\ frame.op # OpcodeClose /\ ~IsData(u, m)
      BY <1>3, <1>7 DEF IsControlOpcode
    <2>2. CallsAt(u, m) = <<[hook |-> "Unknown", op |-> 0, payload |-> frame.payload]>>
      BY <1>3, <2>1 DEF CallsAt
    <2> QED
      BY <1>7, <2>2 DEF RouteReserved, Call
  <1>8. CASE IsDataOpcode(frame.op) /\ RouteData
    <2>1. /\ frame.op # OpcodePing /\ frame.op # OpcodePong /\ frame.op # OpcodeClose
          /\ IsData(u, m) /\ TypeAt(u, m) = MsgType
      BY <1>3, <1>5, <1>8 DEF IsDataOpcode, OpcodeContinuation, OpcodeText, OpcodeBinary,
                              OpcodePing, OpcodePong, OpcodeClose
    <2>2. config.data =>
             CallsAt(u, m) = IF Dropped(frame) THEN <<>>
                             ELSE <<[hook |-> "Data", op |-> MsgType, payload |-> frame.payload]>>
      BY <1>3, <2>1 DEF CallsAt
    <2>3. ~config.data =>
             CallsAt(u, m) = IF ~frame.fin THEN <<>>
                             ELSE <<[hook |-> IF MsgType = OpcodeText THEN "Text" ELSE "Binary",
                                     op |-> MsgType, payload |-> JoinedAt(u, m)]>>
      BY <1>3, <2>1 DEF CallsAt
    <2>4. config.data \in BOOLEAN
      BY <1>t DEF ConfigType
    <2>5. CASE Dropped(frame) /\ calls' = calls
      BY <2>2, <2>3, <2>4, <2>5 DEF Dropped
    <2>6. CASE ~Dropped(frame) /\ config.data /\ HandOver
      BY <2>2, <2>6 DEF HandOver, Call
    <2>7. CASE ~config.data /\ ~frame.fin /\ Keep
      BY <2>3, <2>7 DEF Keep
    <2>8. CASE ~config.data /\ frame.fin /\ Complete
      <3>1. FlattenSeq(Append(msg.frames, frame.payload)) = JoinedAt(u, m)
        <4>1. FlattenSeq(Append(msg.frames, frame.payload)) = Joined(FlattenSeq(msg.frames), frame.payload)
          BY <1>m, FlattenAppend DEF Joined
        <4>2. FlattenSeq(msg.frames) = Gathered(routed, O, n)
          BY <1>t, <1>2, <1>4, <2>8 DEF Told
        <4> QED
          BY <1>5, <4>1, <4>2
      <3>2. \/ MsgType = OpcodeText /\ Call("Text", MsgType, JoinedAt(u, m))
            \/ MsgType = OpcodeBinary /\ Call("Binary", MsgType, JoinedAt(u, m))
        BY <2>8, <3>1 DEF Complete, Refuse, Stop
      <3> QED
        BY <2>3, <2>8, <3>2 DEF Call, OpcodeText, OpcodeBinary
    <2> QED
      BY <1>8, <2>5, <2>6, <2>7, <2>8 DEF RouteData, Refuse, Stop
  <1> QED
    BY <1>6, <1>7, <1>8 DEF RouteFrame

LEMMA HooksKeep ==
    ASSUME RouterInv, Told, HooksSeeTheStream, [Next]_vars
    PROVE  HooksSeeTheStream'
  <1>t. routed \in Seq(Routed) /\ frame \in FrameType /\ config \in ConfigType
    BY DEF RouterInv, Types, Routed
  <1>0. calls = Owed(routed, Len(routed))
    BY DEF HooksSeeTheStream, Owed
  <1>1. SUFFICES calls' = Owed(routed', Len(routed'))
    BY DEF HooksSeeTheStream, Owed, CallsAt, IsData, TypeAt, Parts, OpenAt, JoinedAt
  <1>2. CASE RouteFrame /\ pc' = "arm"
    <2>1. routed' = Append(routed, [f |-> frame, c |-> config])
      <3>1. Passed
        BY <1>2, RouteOutcome DEF RouterInv, Refused
      <3> QED
        BY <3>1 DEF Passed
    <2>2. PICK u, m : u = routed' /\ m = Len(u)
      OBVIOUS
    <2>3. \/ CallsAt(u, m) = <<>> /\ calls' = calls
          \/ \E r : CallsAt(u, m) = <<r>> /\ calls' = Append(calls, r)
      BY <1>2, <2>1, <2>2, RoutedCalls
    <2>4. PICK x \in Routed : x = [f |-> frame, c |-> config]
      BY <1>t DEF Routed
    <2>5. PICK s, n : s = routed /\ n = Len(s)
      OBVIOUS
    <2>6. Follows(u, s, x, n) /\ m = n + 1
      BY <1>t, <2>1, <2>2, <2>4, <2>5 DEF Follows
    <2>7. /\ CallsAt(u, m) = <<>> => Owed(u, m) = Owed(s, n)
          /\ \A r : CallsAt(u, m) = <<r>> => Owed(u, m) = Append(Owed(s, n), r)
      BY <2>6, OwedMore
    <2> QED
      BY <1>0, <2>2, <2>3, <2>5, <2>7
  <1>3. CASE RouteFrame /\ pc' # "arm"
    <2>1. UNCHANGED <<routed, calls>>
      BY <1>3 DEF RouteFrame, RouteControl, RouteReserved, RouteData, HandOver, Keep, Complete,
                  Refuse, Done
    <2> QED
      BY <1>0, <2>1
  <1>4. CASE ~RouteFrame
    <2>1. UNCHANGED <<routed, calls>>
      BY <1>4 DEF Next, Finished, SetConfig, ArmDeadline, GrantLimit, ReadFrame, ReadTimesOut,
                  ValidateFrame, vars
    <2> QED
      BY <1>0, <2>1
  <1> QED
    BY <1>2, <1>3, <1>4

LEMMA ToldKeeps == ASSUME RouterInv, Told, [Next]_vars PROVE Told'
  <1>1. ASSUME NEW c \in Config, SetConfig(c) PROVE Told'
    BY <1>1, ToldUnderNewConfig
  <1>2. CASE RouteFrame
    <2>1. pc = "route" /\ config' = config
      BY <1>2 DEF RouteFrame
    <2>2. CASE Refused
      BY <2>2 DEF Refused, Told
    <2>3. CASE Passed /\ (Leaves \/ EndsMsg \/ Grows)
      BY <2>1, <2>3, ToldAfterRouting DEF RouterInv, InTurn
    <2> QED
      BY <1>2, <2>2, <2>3, RouteOutcome DEF RouterInv
  <1>3. CASE UNCHANGED <<config, msg, routed>> /\ pc # "stopped"
    BY <1>3 DEF Told
  <1>4. CASE pc = "stopped" /\ pc' = "stopped"
    BY <1>4 DEF Told
  <1> QED
    BY <1>1, <1>2, <1>3, <1>4 DEF Next, Finished, ArmDeadline, GrantLimit, ReadFrame, ReadTimesOut,
                                  ValidateFrame, vars

\* All the loop promises of the frames it takes, with the totals it keeps them by.
StreamInv == RouterInv /\ Told /\ Judged /\ RoutedIsLegal /\ RefusedIsIllegal /\ HooksSeeTheStream

LEMMA StreamInit == Init => StreamInv
  <1> SUFFICES ASSUME Init PROVE StreamInv
    OBVIOUS
  <1>1. routed = <<>> /\ calls = <<>> /\ pc = "arm" /\ err = "none" /\ Len(routed) = 0
    BY DEF Init
  <1>2. HooksSeeTheStream
    <2>1. [i \in 1..0 |-> CallsAt(routed, i)] = <<>>
      OBVIOUS
    <2>2. FlattenSeq(<<>>) = <<>>
      BY DEF FlattenSeq
    <2> QED
      BY <1>1, <2>1, <2>2 DEF HooksSeeTheStream
  <1> QED
    BY <1>1, <1>2, RouterInit, ToldInit DEF StreamInv, Judged, RoutedIsLegal, RefusedIsIllegal

LEMMA StreamStep == StreamInv /\ [Next]_vars => StreamInv'
  BY RouterStep, ToldKeeps, JudgedKeeps, RoutedIsLegalKeeps, RefusedIsIllegalKeeps, HooksKeep
     DEF StreamInv

LEMMA StreamAlways == Spec => []StreamInv
  BY StreamInit, StreamStep, PTL DEF Spec

-----------------------------------------------------------------------------
(* The theorems.                                                             *)

\* Whatever SetConfig does meanwhile, the payload read for a frame stays within what
\* some budget read for it leaves its message, or the control allowance
\* (nextFrameByteLimit, GetNextFrame).
THEOREM AllocationStaysBounded == Spec => []AllocationBounded
  <1>1. ASSUME RouterInv PROVE AllocationBounded
    <2> SUFFICES ASSUME pc \in {"validate", "route"}
                 PROVE  \E c \in used : c.limit = 0
                            \/ msg.acc + Len(frame.payload) <= Max({c.limit, msg.acc + ControlMax})
      BY DEF AllocationBounded
    <2>1. PICK c \in used : Within(c, Len(frame.payload))
      BY <1>1 DEF RouterInv, Granted
    <2>2. c.limit \in Nat /\ msg.acc \in Nat /\ Len(frame.payload) \in Nat /\ ControlMax \in Nat
      BY <1>1, ListenerRouterAssumption DEF RouterInv, Types, ConfigType, MsgRecord, FrameType
    <2>3. Max({c.limit, msg.acc + ControlMax})
            = IF c.limit >= msg.acc + ControlMax THEN c.limit ELSE msg.acc + ControlMax
      BY <2>2, MaxOfTwo
    <2> QED
      <3>1. PICK a, n, m \in Nat : a = msg.acc /\ n = Len(frame.payload) /\ m = c.limit
        BY <2>2
      <3>2. m = 0 \/ a + n <= m \/ n <= ControlMax
        BY <2>1, <3>1 DEF Within
      <3>3. m = 0 \/ a + n <= (IF m >= a + ControlMax THEN m ELSE a + ControlMax)
        BY <2>2, <3>2
      <3> QED
        BY <2>3, <3>1, <3>3
  <1> QED
    BY <1>1, RouterAlways, PTL

\* A message held open by empty frames does not grow: what is retained is at most one
\* frame more than its bytes (routeFrame drops empty continuations).
THEOREM RetentionStaysBounded == Spec => []RetainedBounded
  <1>1. RouterInv => RetainedBounded
    BY DEF RouterInv, InTurn, RetainedBounded
  <1> QED
    BY <1>1, RouterAlways, PTL

\* Every frame routed kept the rules of framing where it stood: no reserved bit, no
\* long or fragmented control frame, no close with a bad payload, a continuation
\* exactly when the frames before it left a message open (validateFrame).
THEOREM FramingIsLawful == Spec => []Lawful
  <1>1. RouterInv => Lawful
    BY DEF RouterInv
  <1> QED
    BY <1>1, RouterAlways, PTL

\* The loop's count and opcode say what the frames routed so far say: whether a
\* message is open, and the type its first frame gave it, whatever control frames,
\* empty fillers and Data hooks came between (currentDataFrameCount, GetCurrentMsgOpcode).
MessageKnown ==
    pc # "stopped" =>
        LET open == OpenAt(routed, Len(routed))
        IN  (MsgOpen <=> open # {}) /\ (MsgOpen => msg.op = routed[Min(open)].f.op)

THEOREM MessageIsKnown == Spec => []MessageKnown
  <1>1. ASSUME RouterInv PROVE MessageKnown
    <2> SUFFICES ASSUME pc # "stopped"
                 PROVE  /\ MsgOpen <=> OpenAt(routed, Len(routed)) # {}
                        /\ MsgOpen =>
                              msg.op = routed[Min(OpenAt(routed, Len(routed)))].f.op
      BY DEF MessageKnown
    <2>1. OpenKnown
      BY <1>1 DEF RouterInv
    <2>2. PICK S \in SUBSET Nat : S = OpenAt(routed, Len(routed))
      <3>1. Len(routed) \in Nat
        BY <1>1 DEF RouterInv, Types
      <3>2. OpenAt(routed, Len(routed)) \subseteq Nat
        BY <3>1 DEF OpenAt
      <3> QED
        BY <3>2
    <2>3. ASSUME NEW i \in S, \A j \in S : i <= j PROVE Min(S) = i
      <3>1. \A k \in S : (\A j \in S : k <= j) => k = i
        BY <2>3
      <3> QED
        BY <2>3, <3>1 DEF Min
    <2> QED
      BY <2>1, <2>2, <2>3 DEF OpenKnown, Opens
  <1> QED
    BY <1>1, RouterAlways, PTL

\* Nothing gets past the read limit, validateFrame and routeFrame that the frames
\* routed before it, the mask rule or the budgets of the configurations it met would
\* refuse: control frames between fragments, and frames taken by a Data hook, included.
THEOREM RoutedFramesAreLegal == Spec => []RoutedIsLegal
  <1>1. StreamInv => RoutedIsLegal
    BY DEF StreamInv
  <1> QED
    BY <1>1, StreamAlways, PTL

\* Listen returns an error of the protocol or of a budget only for a frame that breaks
\* it, whatever was routed before and however SetConfig moved the budgets meanwhile.
THEOREM RefusalsAreJustified == Spec => []RefusedIsIllegal
  <1>1. StreamInv => RefusedIsIllegal
    BY DEF StreamInv
  <1> QED
    BY <1>1, StreamAlways, PTL

\* The hooks are called with what the peer sent, in order and nothing else: every
\* message whole, with the type of its first frame (routeFrame's joined frames), and
\* under a Data hook every frame with the type of its message.
THEOREM HooksAreCalledRight == Spec => []HooksSeeTheStream
  <1>1. StreamInv => HooksSeeTheStream
    BY DEF StreamInv
  <1> QED
    BY <1>1, StreamAlways, PTL
=============================================================================
