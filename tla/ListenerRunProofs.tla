------------------------- MODULE ListenerRunProofs -------------------------
(***************************************************************************)
(* Theorems about ListenerRun for any number of callers and pausers.  With no *)
(* assumption on the callers the pause channel is used once and a pause is seen *)
(* between two frames; without a read deadline its reason is returned.  With     *)
(* callers that wait for a paused run to return there is one loop at a time,     *)
(* and nil means that somebody paused it.                                      *)
(***************************************************************************)
EXTENDS ListenerRun, FiniteSetTheorems, TLAPS

\* A run watches a channel.
RunHasChannel == \A r \in Runner : pc[r] # "idle" => chan[r] # 0

\* Of the channels cs, the claimed one is untouched and every other was closed
\* once, after one send at most.
Untouched(c) == c.closes = 0 /\ c.sends = 0 /\ c.buf = {}
UsedUp(c)    == c.closes = 1 /\ c.sends <= 1

Used(cs, claimed) ==
    \A c \in 1..Len(cs) : IF c = claimed THEN Untouched(cs[c]) ELSE UsedUp(cs[c])

\* Inductive: a pause sends into an empty buffer because it only ever finds the
\* claimed channel, which nobody has paused.
RunInv == TypeOK /\ RunHasChannel /\ Used(chans, pauseChan)

LEMMA ReasonType ==
    /\ {} \in Reason
    /\ \A p \in Pauser : {p} \in Reason
    /\ \A errs \in Reason : Cardinality(errs) \in {0, 1}
    /\ \A errs \in Reason : errs \subseteq Error
  <1>1. Cardinality({}) = 0
    BY FS_EmptySet
  <1>2. \A p \in Pauser : Cardinality({p}) = 1
    BY FS_Singleton
  <1>3. \A errs \in Reason : errs = {} \/ \E p \in Pauser : errs = {p}
    BY DEF Reason
  <1>4. \A errs \in Reason : Cardinality(errs) \in {0, 1}
    BY <1>1, <1>2, <1>3
  <1> QED
    BY <1>3, <1>4 DEF Reason, Error

LEMMA NewChanType == NewChan \in Channel /\ Untouched(NewChan)
  BY ReasonType DEF NewChan, Channel, Untouched

\* Pausing an untouched channel.
LEMMA PausedType ==
    ASSUME NEW c \in Channel, Untouched(c), NEW errs \in Reason,
           NEW by \in {"pauser", "hook", "self", "other"}
    PROVE  Paused(c, errs, by) \in Channel /\ UsedUp(Paused(c, errs, by))
  <1>1. c.buf \cup errs = errs /\ c.sends = 0 /\ c.closes = 0
    BY DEF Untouched
  <1>2. Cardinality(errs) \in {0, 1}
    BY ReasonType
  <1>3. c.reason \in Reason /\ c.by \in {"nobody", "pauser", "hook", "self", "other"}
    BY DEF Channel
  <1> DEFINE w == IF c.by = "nobody" THEN errs ELSE c.reason
             y == IF c.by = "nobody" THEN by ELSE c.by
             b == c.buf \cup errs
             s == c.sends + Cardinality(errs)
             k == c.closes + 1
             q == Paused(c, errs, by)
  <1>4. w \in Reason /\ y \in {"nobody", "pauser", "hook", "self", "other"}
    BY <1>3
  <1>5. b \in Reason
    BY <1>1
  <1>6. s \in {0, 1} /\ s \in Nat /\ k = 1 /\ k \in Nat
    BY <1>1, <1>2
  <1>7. q = [c EXCEPT !.buf = b, !.sends = s, !.closes = k, !.reason = w, !.by = y]
    BY DEF Paused
  <1> HIDE DEF w, y, b, s, k, q
  <1>8. q \in Channel /\ q.sends = s /\ q.closes = k
    BY <1>4, <1>5, <1>6, <1>7 DEF Channel
  <1>9. UsedUp(q)
    BY <1>6, <1>8 DEF UsedUp
  <1> QED
    BY <1>8, <1>9 DEF q

\* pauseListen closes the claimed channel, if any, and leaves none claimed.
LEMMA PauseListenUses ==
    ASSUME NEW cs \in Seq(Channel), pauseChan \in 0..Len(cs), Used(cs, pauseChan),
           NEW errs \in Reason, NEW by \in {"pauser", "hook", "self", "other"},
           PauseListen(cs, errs, by)
    PROVE  /\ chans' \in Seq(Channel) /\ Len(chans') = Len(cs)
           /\ pauseChan' = 0
           /\ Used(chans', 0)
  <1>1. CASE pauseChan = 0
    BY <1>1 DEF PauseListen, Used
  <1>2. CASE pauseChan # 0
    <2>1. pauseChan \in 1..Len(cs) /\ cs[pauseChan] \in Channel
      BY <1>2
    <2>2. Untouched(cs[pauseChan])
      BY <2>1 DEF Used
    <2> DEFINE q == Paused(cs[pauseChan], errs, by)
    <2>3. q \in Channel /\ UsedUp(q)
      BY <2>1, <2>2, PausedType
    <2>4. chans' = [cs EXCEPT ![pauseChan] = q] /\ pauseChan' = 0
      BY <1>2 DEF PauseListen
    <2> HIDE DEF q
    <2>5. chans' \in Seq(Channel) /\ Len(chans') = Len(cs)
      BY <2>1, <2>3, <2>4
    <2>6. ASSUME NEW c \in 1..Len(chans')
          PROVE  UsedUp(chans'[c])
      <3>1. CASE c = pauseChan
        BY <3>1, <2>1, <2>3, <2>4
      <3>2. CASE c # pauseChan
        BY <3>2, <2>4, <2>5 DEF Used
      <3> QED
        BY <3>1, <3>2
    <2> QED
      BY <2>4, <2>5, <2>6 DEF Used
  <1> QED
    BY <1>1, <1>2

LEMMA ChannelEmptied ==
    ASSUME NEW c \in Channel, {} \in Reason
    PROVE  LET q == [c EXCEPT !.buf = {}]
           IN  q \in Channel /\ q.closes = c.closes /\ q.sends = c.sends /\ q.buf = {}
  BY DEF Channel

LEMMA ChannelCounted ==
    ASSUME NEW c \in Channel
    PROVE  LET q == [c EXCEPT !.late = @ + 1]
           IN  q \in Channel /\ q.closes = c.closes /\ q.sends = c.sends /\ q.buf = c.buf
  BY DEF Channel

\* Emptying a buffer and counting a late frame change nothing that Used is about.
LEMMA TouchUses ==
    ASSUME NEW cs \in Seq(Channel), NEW k \in 1..Len(cs), NEW n \in 0..Len(cs), Used(cs, n),
           NEW ds, ds = [cs EXCEPT ![k].buf = {}] \/ ds = [cs EXCEPT ![k].late = @ + 1]
    PROVE  ds \in Seq(Channel) /\ Len(ds) = Len(cs) /\ Used(ds, n)
  <1>1. cs[k] \in Channel
    OBVIOUS
  <1> DEFINE emptied == [cs[k] EXCEPT !.buf = {}]
             counted == [cs[k] EXCEPT !.late = @ + 1]
  <1>2. /\ emptied \in Channel
        /\ emptied.closes = cs[k].closes /\ emptied.sends = cs[k].sends /\ emptied.buf = {}
    BY <1>1, ReasonType, ChannelEmptied
  <1>3. /\ counted \in Channel
        /\ counted.closes = cs[k].closes /\ counted.sends = cs[k].sends
        /\ counted.buf = cs[k].buf
    BY <1>1, ChannelCounted
  <1> HIDE DEF emptied, counted
  <1>4. PICK d \in Channel :
            /\ ds = [cs EXCEPT ![k] = d]
            /\ d.closes = cs[k].closes /\ d.sends = cs[k].sends
            /\ d.buf = {} \/ d.buf = cs[k].buf
    <2>1. CASE ds = [cs EXCEPT ![k].buf = {}]
      <3>1. ds = [cs EXCEPT ![k] = emptied]
        BY <2>1 DEF emptied
      <3> QED
        BY <3>1, <1>2
    <2>2. CASE ds = [cs EXCEPT ![k].late = @ + 1]
      <3>1. ds = [cs EXCEPT ![k] = counted]
        BY <2>2 DEF counted
      <3> QED
        BY <3>1, <1>3
    <2> QED
      BY <2>1, <2>2
  <1>5. ds \in Seq(Channel) /\ Len(ds) = Len(cs)
    BY <1>4
  <1>6. ASSUME NEW c \in 1..Len(ds)
        PROVE  IF c = n THEN Untouched(ds[c]) ELSE UsedUp(ds[c])
    <2>1. CASE c = k
      BY <2>1, <1>4, <1>5 DEF Used, Untouched, UsedUp
    <2>2. CASE c # k
      BY <2>2, <1>4, <1>5 DEF Used
    <2> QED
      BY <2>1, <2>2
  <1> QED
    BY <1>5, <1>6 DEF Used

-----------------------------------------------------------------------------
(* One lemma per action of the runs.                                         *)

\* What TypeOK and RunHasChannel say of a run in progress.
LEMMA RunType ==
    ASSUME RunInv, NEW r \in Runner, pc[r] # "idle"
    PROVE  /\ chan[r] \in 1..Len(chans)
           /\ chans[chan[r]] \in Channel
           /\ chans[chan[r]].buf \in Reason /\ chans[chan[r]].reason \in Reason
  <1>1. chan[r] \in 0..Len(chans) /\ chan[r] # 0 /\ chans \in Seq(Channel)
    BY DEF RunInv, TypeOK, RunHasChannel
  <1>2. chan[r] \in 1..Len(chans)
    BY <1>1
  <1>3. chans[chan[r]] \in Channel
    BY <1>1, <1>2
  <1> QED
    BY <1>2, <1>3 DEF Channel

\* A run goes to another place, or returns, while the channels keep their number.
LEMMA MoveType ==
    ASSUME RunInv, NEW r \in Runner, pc[r] # "idle", NEW where \in Running, Goto(r, where),
           UNCHANGED <<chan, returned>>
    PROVE  /\ pc' \in [Runner -> Running \cup {"idle", "leaving"}]
           /\ returned' \in [Runner -> Seq(Return)]
           /\ \A s \in Runner : pc'[s] # "idle" => pc[s] # "idle"
  BY DEF RunInv, TypeOK, Goto

LEMMA LeaveType ==
    ASSUME RunInv, NEW r \in Runner, pc[r] # "idle", NEW errs \in SUBSET Error, Leave(r, errs)
    PROVE  /\ pc' \in [Runner -> Running \cup {"idle", "leaving"}]
           /\ returned' \in [Runner -> Seq(Return)]
           /\ \A s \in Runner : pc'[s] # "idle" => pc[s] # "idle"
  <1> DEFINE res == [chan |-> chan[r], errs |-> errs, paused |-> chans[chan[r]].reason]
  <1>1. pc \in [Runner -> Running \cup {"idle", "leaving"}] /\ returned \in [Runner -> Seq(Return)]
    BY DEF RunInv, TypeOK
  <1>2. res \in Return
    BY RunType DEF Return
  <1>3. returned' = [returned EXCEPT ![r] = Append(@, res)] /\ Goto(r, "leaving")
    BY DEF Leave
  <1> HIDE DEF res
  <1>4. Append(returned[r], res) \in Seq(Return)
    BY <1>1, <1>2
  <1>5. returned' \in [Runner -> Seq(Return)]
    BY <1>1, <1>3, <1>4
  <1> QED
    BY <1>1, <1>3, <1>5 DEF Goto

\* What is left to show once a step is known to keep its types and channels.
LEMMA RunInvFrom ==
    ASSUME RunInv,
           pc' \in [Runner -> Running \cup {"idle", "leaving"}],
           returned' \in [Runner -> Seq(Return)],
           \A s \in Runner : pc'[s] # "idle" => pc[s] # "idle",
           chans' \in Seq(Channel), Len(chans') = Len(chans),
           pauseChan' \in {0, pauseChan}, Used(chans', pauseChan'),
           UNCHANGED <<chan, pauses, down>>,
           frame' \in [Runner -> FrameKind], left' \in 0..MaxFrames
    PROVE  RunInv'
  <1>1. TypeOK'
    BY DEF RunInv, TypeOK
  <1>2. RunHasChannel'
    BY DEF RunInv, RunHasChannel
  <1> QED
    BY <1>1, <1>2 DEF RunInv

LEMMA ListenStep == ASSUME RunInv, NEW r \in Runner, Listen(r) PROVE RunInv'
  <1> USE DEF RunInv
  <1>1. CASE ~MayClaim
    <2> DEFINE res == [chan |-> 0, errs |-> {"ErrListenerIsListening"}, paused |-> {}]
    <2>1. /\ returned' = [returned EXCEPT ![r] = Append(@, res)]
          /\ UNCHANGED <<pc, chan, frame, pauseChan, chans, pauses, down, left>>
      BY <1>1 DEF Listen
    <2>2. res \in Return
      BY ReasonType DEF Return, Error
    <2> HIDE DEF res
    <2>3. returned' \in [Runner -> Seq(Return)]
      BY <2>1, <2>2 DEF TypeOK
    <2>4. TypeOK'
      BY <2>1, <2>3 DEF TypeOK
    <2> QED
      BY <2>1, <2>4 DEF RunHasChannel
  <1>2. CASE MayClaim
    <2>1. /\ chans' = Append(chans, NewChan) /\ pauseChan' = Len(chans')
          /\ chan' = [chan EXCEPT ![r] = Len(chans')] /\ pc' = [pc EXCEPT ![r] = "check"]
          /\ UNCHANGED <<frame, returned, pauses, down, left>>
          /\ pauseChan = 0
      BY <1>2 DEF Listen, MayClaim, Goto
    <2>2. chans \in Seq(Channel) /\ Len(chans) \in Nat
      BY DEF TypeOK
    <2>3. chans' \in Seq(Channel) /\ Len(chans') = Len(chans) + 1
      BY <2>1, <2>2, NewChanType
    <2>4. chan' \in [Runner -> 0..Len(chans')] /\ pauseChan' \in 0..Len(chans')
      BY <2>1, <2>2, <2>3 DEF TypeOK
    <2>5. TypeOK'
      BY <2>1, <2>3, <2>4 DEF TypeOK, Running
    <2>6. RunHasChannel'
      BY <2>1, <2>2, <2>3 DEF RunHasChannel, TypeOK
    <2>7. ASSUME NEW c \in 1..Len(chans')
          PROVE  IF c = pauseChan' THEN Untouched(chans'[c]) ELSE UsedUp(chans'[c])
      <3>1. CASE c = Len(chans) + 1
        BY <3>1, <2>1, <2>2, <2>3, NewChanType
      <3>2. CASE c # Len(chans) + 1
        <4>1. c \in 1..Len(chans) /\ chans'[c] = chans[c] /\ c # pauseChan' /\ c # pauseChan
          BY <3>2, <2>1, <2>2, <2>3
        <4> QED
          BY <4>1 DEF Used
      <3> QED
        BY <3>1, <3>2
    <2> QED
      BY <2>5, <2>6, <2>7 DEF Used
  <1> QED
    BY <1>1, <1>2

LEMMA CheckStep == ASSUME RunInv, NEW r \in Runner, Check(r) PROVE RunInv'
  <1>1. /\ pc[r] # "idle" /\ UNCHANGED <<chan, frame, pauseChan, pauses, down, left>>
        /\ frame \in [Runner -> FrameKind] /\ left \in 0..MaxFrames
        /\ chans \in Seq(Channel) /\ pauseChan \in 0..Len(chans) /\ Used(chans, pauseChan)
    BY DEF Check, RunInv, TypeOK
  <1>2. chan[r] \in 1..Len(chans) /\ chans[chan[r]].buf \in Reason
    BY <1>1, RunType
  <1>3. CASE Closed(r)
    <2>1. Leave(r, chans[chan[r]].buf) /\ chans' = [chans EXCEPT ![chan[r]].buf = {}]
      BY <1>3 DEF Check, Drain
    <2>2. chans[chan[r]].buf \in SUBSET Error
      BY <1>2, ReasonType
    <2>3. chans' \in Seq(Channel) /\ Len(chans') = Len(chans) /\ Used(chans', pauseChan)
      BY <1>1, <1>2, <2>1, TouchUses
    <2> QED
      BY <1>1, <2>1, <2>2, <2>3, LeaveType, RunInvFrom
  <1>4. CASE ~Closed(r)
    <2>1. Goto(r, "arm") /\ UNCHANGED <<returned, chans>> /\ "arm" \in Running
      BY <1>4 DEF Check, Running
    <2> QED
      BY <1>1, <2>1, MoveType, RunInvFrom
  <1> QED
    BY <1>3, <1>4

LEMMA ArmStep == ASSUME RunInv, NEW r \in Runner, Arm(r) PROVE RunInv'
  <1>1. /\ pc[r] # "idle" /\ UNCHANGED <<chan, frame, pauseChan, chans, pauses, down, left>>
        /\ frame \in [Runner -> FrameKind] /\ left \in 0..MaxFrames
        /\ chans \in Seq(Channel) /\ Used(chans, pauseChan)
    BY DEF Arm, RunInv, TypeOK
  <1>2. CASE HasTimeout /\ down
    <2>1. Leave(r, {"deadlineErr"}) /\ {"deadlineErr"} \in SUBSET Error
      BY <1>2 DEF Arm, Error
    <2> QED
      BY <1>1, <2>1, LeaveType, RunInvFrom
  <1>3. CASE ~(HasTimeout /\ down)
    <2>1. Goto(r, "reading") /\ UNCHANGED returned /\ "reading" \in Running
      BY <1>3 DEF Arm, Running
    <2> QED
      BY <1>1, <2>1, MoveType, RunInvFrom
  <1> QED
    BY <1>2, <1>3

LEMMA ReadFrameStep == ASSUME RunInv, NEW r \in Runner, ReadFrame(r) PROVE RunInv'
  <1>1. /\ pc[r] # "idle" /\ UNCHANGED <<chan, returned, pauseChan, chans, pauses, down>>
        /\ Goto(r, "routing") /\ "routing" \in Running
        /\ chans \in Seq(Channel) /\ Used(chans, pauseChan)
    BY DEF ReadFrame, RunInv, TypeOK, Running
  <1>2. frame' \in [Runner -> FrameKind]
    BY DEF ReadFrame, RunInv, TypeOK
  <1>3. left' \in 0..MaxFrames
    BY ListenerRunAssumption DEF ReadFrame, RunInv, TypeOK
  <1> QED
    BY <1>1, <1>2, <1>3, MoveType, RunInvFrom

LEMMA ReadFailsStep == ASSUME RunInv, NEW r \in Runner, ReadFails(r) PROVE RunInv'
  <1>1. /\ pc[r] # "idle" /\ UNCHANGED <<chan, frame, pauseChan, pauses, down, left>>
        /\ frame \in [Runner -> FrameKind] /\ left \in 0..MaxFrames
        /\ chans \in Seq(Channel) /\ pauseChan \in 0..Len(chans) /\ Used(chans, pauseChan)
        /\ Leave(r, ReadErrors(r)) /\ chans' = [chans EXCEPT ![chan[r]].buf = {}]
    BY DEF ReadFails, RunInv, TypeOK, Drain
  <1>2. chan[r] \in 1..Len(chans) /\ chans[chan[r]].buf \in Reason
    BY <1>1, RunType
  <1>3. ReadErrors(r) \in SUBSET Error
    <2>1. chans[chan[r]].buf \subseteq Error
      BY <1>2, ReasonType
    <2> QED
      BY <2>1 DEF ReadErrors, Error
  <1>4. chans' \in Seq(Channel) /\ Len(chans') = Len(chans) /\ Used(chans', pauseChan)
    BY <1>1, <1>2, TouchUses
  <1> QED
    BY <1>1, <1>3, <1>4, LeaveType, RunInvFrom

LEMMA RouteStep == ASSUME RunInv, NEW r \in Runner, Route(r) PROVE RunInv'
  <1>1. /\ pc[r] # "idle" /\ UNCHANGED <<chan, frame, pauses, down, left>>
        /\ frame \in [Runner -> FrameKind] /\ left \in 0..MaxFrames
        /\ chans \in Seq(Channel) /\ pauseChan \in 0..Len(chans) /\ Used(chans, pauseChan)
    BY DEF Route, RunInv, TypeOK
  <1>2. chan[r] \in 1..Len(chans)
    BY <1>1, RunType
  <1> DEFINE counted == IF Closed(r) THEN [chans EXCEPT ![chan[r]].late = @ + 1] ELSE chans
  <1>3. counted \in Seq(Channel) /\ Len(counted) = Len(chans) /\ Used(counted, pauseChan)
    <2>1. CASE Closed(r)
      BY <2>1, <1>1, <1>2, TouchUses
    <2>2. CASE ~Closed(r)
      BY <2>2, <1>1
    <2> QED
      BY <2>1, <2>2
  <1>4. \/ Leave(r, {"ruleErr"}) /\ chans' = counted /\ UNCHANGED pauseChan
        \/ Goto(r, NextTurn) /\ chans' = counted /\ UNCHANGED <<returned, pauseChan>>
        \/ Goto(r, NextTurn) /\ PauseListen(counted, {}, "hook") /\ UNCHANGED returned
    BY DEF Route
  <1> HIDE DEF counted
  <1>5. NextTurn \in Running /\ {"ruleErr"} \in SUBSET Error
    BY DEF NextTurn, Running, Error
  <1>6. CASE Leave(r, {"ruleErr"}) /\ chans' = counted /\ UNCHANGED pauseChan
    BY <1>1, <1>3, <1>5, <1>6, LeaveType, RunInvFrom
  <1>7. CASE Goto(r, NextTurn) /\ chans' = counted /\ UNCHANGED <<returned, pauseChan>>
    BY <1>1, <1>3, <1>5, <1>7, MoveType, RunInvFrom
  <1>8. CASE Goto(r, NextTurn) /\ PauseListen(counted, {}, "hook") /\ UNCHANGED returned
    <2>1. chans' \in Seq(Channel) /\ Len(chans') = Len(counted) /\ pauseChan' = 0 /\ Used(chans', 0)
      BY <1>1, <1>3, <1>8, ReasonType, PauseListenUses
    <2> QED
      BY <1>1, <1>3, <1>5, <1>8, <2>1, MoveType, RunInvFrom
  <1> QED
    BY <1>4, <1>6, <1>7, <1>8

LEMMA ReleaseStep == ASSUME RunInv, NEW r \in Runner, Release(r) PROVE RunInv'
  <1>1. /\ pc[r] # "idle" /\ pc' = [pc EXCEPT ![r] = "idle"]
        /\ UNCHANGED <<chan, frame, returned, pauses, down, left>>
        /\ pc \in [Runner -> Running \cup {"idle", "leaving"}] /\ returned \in [Runner -> Seq(Return)]
        /\ frame \in [Runner -> FrameKind] /\ left \in 0..MaxFrames
        /\ chans \in Seq(Channel) /\ pauseChan \in 0..Len(chans) /\ Used(chans, pauseChan)
    BY DEF Release, RunInv, TypeOK, Goto
  <1>2. PICK by \in {"pauser", "hook", "self", "other"} : PauseListen(chans, {}, by)
    BY DEF Release
  <1>3. chans' \in Seq(Channel) /\ Len(chans') = Len(chans) /\ pauseChan' = 0 /\ Used(chans', 0)
    BY <1>1, <1>2, ReasonType, PauseListenUses
  <1>4. \A s \in Runner : pc'[s] # "idle" => pc[s] # "idle"
    BY <1>1
  <1> QED
    BY <1>1, <1>3, <1>4, RunInvFrom

LEMMA PauseStep == ASSUME RunInv, NEW p \in Pauser, Pause(p) PROVE RunInv'
  <1>1. /\ UNCHANGED <<run, down, left>>
        /\ chans \in Seq(Channel) /\ pauseChan \in 0..Len(chans) /\ Used(chans, pauseChan)
    BY DEF Pause, RunInv, TypeOK
  <1>2. PICK errs \in {{}, {p}} : PauseListen(chans, errs, "pauser")
    BY DEF Pause
  <1>3. chans' \in Seq(Channel) /\ Len(chans') = Len(chans) /\ pauseChan' = 0 /\ Used(chans', 0)
    BY <1>1, <1>2, ReasonType, PauseListenUses
  <1>4. pauses' \in [Pauser -> 0..MaxPauses]
    BY ListenerRunAssumption DEF Pause, RunInv, TypeOK
  <1>5. TypeOK'
    BY <1>1, <1>3, <1>4 DEF RunInv, TypeOK, run
  <1>6. RunHasChannel'
    BY <1>1 DEF RunInv, RunHasChannel, run
  <1> QED
    BY <1>3, <1>5, <1>6 DEF RunInv

LEMMA RunInit == Init => RunInv
  <1> SUFFICES ASSUME Init PROVE RunInv
    OBVIOUS
  <1>1. chans \in Seq(Channel) /\ Len(chans) = 0 /\ pauseChan = 0
    BY DEF Init
  <1>2. /\ pc \in [Runner -> Running \cup {"idle", "leaving"}] /\ chan \in [Runner -> 0..Len(chans)]
        /\ frame \in [Runner -> FrameKind] /\ returned \in [Runner -> Seq(Return)]
    BY <1>1 DEF Init, FrameKind
  <1>3. pauses \in [Pauser -> 0..MaxPauses] /\ left \in 0..MaxFrames /\ down \in BOOLEAN
    <2>1. MaxPauses \in Nat /\ MaxFrames \in Nat
      BY ListenerRunAssumption DEF ListenerRunAssumption
    <2>2. 0 \in 0..MaxPauses /\ MaxFrames \in 0..MaxFrames
      BY <2>1
    <2> QED
      BY <2>2 DEF Init
  <1>4. TypeOK
    BY <1>1, <1>2, <1>3 DEF TypeOK
  <1> QED
    BY <1>1, <1>4 DEF Init, RunInv, RunHasChannel, Used

LEMMA RunStep == RunInv /\ [Next]_vars => RunInv'
  <1> SUFFICES ASSUME RunInv, [Next]_vars PROVE RunInv'
    OBVIOUS
  <1>1. ASSUME NEW r \in Runner, Listen(r) \/ ReadFrame(r) \/ ReadFails(r) \/ Turn(r)
        PROVE  RunInv'
    BY <1>1, ListenStep, ReadFrameStep, ReadFailsStep, CheckStep, ArmStep, RouteStep, ReleaseStep
       DEF Turn
  <1>2. ASSUME NEW p \in Pauser, Pause(p) PROVE RunInv'
    BY <1>2, PauseStep
  <1>3. CASE CloseConn
    BY <1>3 DEF CloseConn, run, RunInv, TypeOK, RunHasChannel, Used
  <1>4. CASE UNCHANGED vars
    BY <1>4 DEF vars, run, RunInv, TypeOK, RunHasChannel, Used
  <1> QED
    BY <1>1, <1>2, <1>3, <1>4 DEF Next, Finished

LEMMA RunInvariant == Spec => []RunInv
  BY RunInit, RunStep, PTL DEF Spec

\* Every variable of ListenerRun keeps its type, and a channel's buffer never
\* holds more than one error (ListenerListen.go:88), however runs overlap.
THEOREM RunTypes == Spec => []TypeOK
  <1>1. RunInv => TypeOK
    BY DEF RunInv
  <1> QED
    BY <1>1, RunInvariant, PTL

\* However many goroutines and hooks pause, and even when runs overlap, pauseListen
\* sends to a channel once at most and closes it once (ListenerListen.go:207-219):
\* it neither blocks under listenLocker nor panics.
THEOREM ChannelsUsedOnce == Spec => []ChannelUsedOnce
  <1>1. RunInv => ChannelUsedOnce
    <2> SUFFICES ASSUME RunInv, NEW c \in 1..Len(chans)
                 PROVE  /\ chans[c].sends <= 1 /\ chans[c].closes <= 1
                        /\ chans[c].closes = 0 <=> pauseChan = c
      BY DEF ChannelUsedOnce
    <2>1. CASE c = pauseChan
      BY <2>1 DEF RunInv, Used, Untouched
    <2>2. CASE c # pauseChan
      BY <2>2 DEF RunInv, Used, UsedUp
    <2> QED
      BY <2>1, <2>2
  <1> QED
    BY <1>1, RunInvariant, PTL

-----------------------------------------------------------------------------
(* One loop at a time, for callers that wait.                                *)

\* At most one call is past its claim, its deferred release included.
OneRun == \A r, s \in Runner : pc[r] # "idle" /\ pc[s] # "idle" => r = s

LEMMA OneRunStep ==
    ASSUME WaitsReturn, RunInv, OneRun, [Next]_vars
    PROVE  OneRun'
  <1> USE DEF OneRun
  <1>1. pc \in [Runner -> Running \cup {"idle", "leaving"}]
    BY DEF RunInv, TypeOK
  <1>2. ASSUME NEW r \in Runner, Listen(r) PROVE OneRun'
    <2>1. CASE ~MayClaim
      BY <1>2, <2>1 DEF Listen
    <2>2. CASE MayClaim
      <3>1. pc' = [pc EXCEPT ![r] = "check"] /\ pauseChan = 0 /\ ~Parting
        BY <1>2, <2>2 DEF Listen, MayClaim, Goto
      <3>2. \A s \in Runner : pc[s] = "idle"
        <4>1. ASSUME NEW s \in Runner, pc[s] # "idle" PROVE FALSE
          <5>1. chan[s] # pauseChan
            BY <4>1, <3>1 DEF RunInv, RunHasChannel
          <5>2. pc[s] \in Running \cup {"leaving"}
            BY <4>1, <1>1
          <5> QED
            BY <5>1, <5>2, <3>1 DEF Parting
        <4> QED
          BY <4>1
      <3> QED
        BY <3>1, <3>2, <1>1
    <2> QED
      BY <2>1, <2>2
  <1>3. ASSUME NEW r \in Runner, ReadFrame(r) \/ ReadFails(r) \/ Turn(r) PROVE OneRun'
    <2>1. pc[r] # "idle"
      BY <1>3 DEF ReadFrame, ReadFails, Turn, Check, Arm, Route, Release
    <2>2. PICK where : pc' = [pc EXCEPT ![r] = where]
      BY <1>3 DEF ReadFrame, ReadFails, Turn, Check, Arm, Route, Release, Leave, Goto
    <2> QED
      BY <2>1, <2>2, <1>1
  <1>4. ASSUME NEW p \in Pauser, Pause(p) PROVE OneRun'
    BY <1>4 DEF Pause, run
  <1>5. CASE CloseConn
    BY <1>5 DEF CloseConn, run
  <1>6. CASE UNCHANGED vars
    BY <1>6 DEF vars, run
  <1> QED
    BY <1>2, <1>3, <1>4, <1>5, <1>6 DEF Next, Finished

\* When callers wait for a paused run to return before they call Listen again,
\* at most one loop reads the connection (claimListen, ListenerListen.go:72-82).
\* Without that the run listener_second_loop shows two.
THEOREM OneLoopAtATime == ASSUME WaitsReturn PROVE Spec => []OneLoop
  <1>1. Init => OneRun
    BY DEF Init, OneRun
  <1>2. RunInv /\ OneRun /\ [Next]_vars => OneRun'
    BY OneRunStep
  <1>3. OneRun => OneLoop
    BY DEF OneRun, OneLoop, Reading, Running
  <1> QED
    BY <1>1, <1>2, <1>3, RunInvariant, PTL DEF Spec

-----------------------------------------------------------------------------
(* What a run returns, and how late it sees a pause.  Nothing is assumed of   *)
(* when Listen is called: runs may overlap.                                   *)

\* Every run watches a channel of its own.
OwnChannel == \A r, s \in Runner : chan[r] # 0 /\ chan[r] = chan[s] => r = s

\* Who paused a channel is on record once it is closed, and only then; a frame is
\* late on a closed channel, and there is one.
Accounted(c) ==
    /\ c.by = "nobody" <=> c.closes = 0
    /\ c.by = "nobody" => c.reason = {}
    /\ c.late <= 1 /\ (c.late > 0 => c.closes > 0)

\* The pause's reason is still in the buffer for the run to find, and a run that
\* routed a frame late is on its way to the look at the pause.
Watching ==
    \A r \in Runner :
        /\ pc[r] \in Running => chans[chan[r]].buf = chans[chan[r]].reason
        /\ pc[r] \in {"arm", "reading", "routing"} => chans[chan[r]].late = 0

\* A result on the books.
GoodResult(res) ==
    /\ res.chan \in 0..Len(chans)
    /\ res.chan # 0 =>
          /\ res.errs \cap Pauser \subseteq res.paused
          /\ res.paused \subseteq res.errs \/ "ruleErr" \in res.errs \/ HasTimeout

GoodResults == \A r \in Runner : \A i \in 1..Len(returned[r]) : GoodResult(returned[r][i])

ResultInv ==
    /\ OwnChannel
    /\ \A c \in 1..Len(chans) : Accounted(chans[c])
    /\ Watching
    /\ GoodResults

\* pauseListen on channels that are used as they should be, field by field.
LEMMA PauseListenFields ==
    ASSUME NEW cs \in Seq(Channel), pauseChan \in 0..Len(cs), Used(cs, pauseChan),
           \A c \in 1..Len(cs) : Accounted(cs[c]),
           NEW errs \in Reason, NEW by \in {"pauser", "hook", "self", "other"},
           PauseListen(cs, errs, by)
    PROVE  /\ Len(chans') = Len(cs)
           /\ \A c \in 1..Len(cs) : c # pauseChan => chans'[c] = cs[c]
           /\ pauseChan # 0 => /\ chans'[pauseChan].buf = errs
                               /\ chans'[pauseChan].reason = errs
                               /\ chans'[pauseChan].by = by
                               /\ chans'[pauseChan].closes = 1
                               /\ chans'[pauseChan].late = cs[pauseChan].late
  <1>1. CASE pauseChan = 0
    BY <1>1 DEF PauseListen
  <1>2. CASE pauseChan # 0
    <2>1. pauseChan \in 1..Len(cs) /\ cs[pauseChan] \in Channel
      BY <1>2
    <2>2. Untouched(cs[pauseChan]) /\ cs[pauseChan].by = "nobody"
      BY <2>1 DEF Used, Accounted, Untouched
    <2> DEFINE q == Paused(cs[pauseChan], errs, by)
    <2>3. /\ q.buf = errs /\ q.reason = errs /\ q.by = by /\ q.closes = 1
          /\ q.late = cs[pauseChan].late
      BY <2>1, <2>2 DEF Paused, Untouched, Channel
    <2>4. chans' = [cs EXCEPT ![pauseChan] = q]
      BY <1>2 DEF PauseListen
    <2> HIDE DEF q
    <2> QED
      BY <2>1, <2>3, <2>4
  <1> QED
    BY <1>1, <1>2

\* What a step leaves as it found it: results stay good, and one more may join.
LEMMA ResultsGrow ==
    ASSUME RunInv, GoodResults, Len(chans) <= Len(chans'),
           Len(chans) \in Nat, Len(chans') \in Nat,
           \A s \in Runner :
               \/ returned'[s] = returned[s]
               \/ \E res \in Return : returned'[s] = Append(returned[s], res) /\ GoodResult(res)'
    PROVE  GoodResults'
  <1> SUFFICES ASSUME NEW s \in Runner, NEW i \in 1..Len(returned'[s])
               PROVE  GoodResult(returned[s][i])'
    BY DEF GoodResults
  <1>1. returned[s] \in Seq(Return)
    BY DEF RunInv, TypeOK
  <1>2. ASSUME i \in 1..Len(returned[s]), returned'[s][i] = returned[s][i]
        PROVE  GoodResult(returned[s][i])'
    BY <1>2 DEF GoodResults, GoodResult
  <1>3. CASE returned'[s] = returned[s]
    BY <1>2, <1>3
  <1>4. ASSUME NEW res \in Return, returned'[s] = Append(returned[s], res), GoodResult(res)'
        PROVE  GoodResult(returned[s][i])'
    <2>1. CASE i \in 1..Len(returned[s])
      BY <1>1, <1>2, <1>4, <2>1
    <2>2. CASE i = Len(returned[s]) + 1
      <3>1. returned'[s][i] = res
        BY <1>1, <1>4, <2>2
      <3> QED
        BY <1>4, <3>1 DEF GoodResult
    <2> QED
      BY <1>1, <1>4, <2>1, <2>2
  <1> QED
    BY <1>3, <1>4

\* Leave adds a result with the reason as it is.
LEMMA LeaveAdds ==
    ASSUME RunInv, NEW r \in Runner, pc[r] # "idle", NEW errs \in SUBSET Error, Leave(r, errs),
           Len(chans') = Len(chans),
           errs \cap Pauser \subseteq chans[chan[r]].reason,
           chans[chan[r]].reason \subseteq errs \/ "ruleErr" \in errs \/ HasTimeout
    PROVE  \A s \in Runner :
               \/ returned'[s] = returned[s]
               \/ \E res \in Return : returned'[s] = Append(returned[s], res) /\ GoodResult(res)'
  <1> DEFINE leaves == [chan |-> chan[r], errs |-> errs, paused |-> chans[chan[r]].reason]
  <1>1. chan[r] \in 1..Len(chans) /\ chans[chan[r]].reason \in Reason
    BY RunType
  <1>2. PICK res \in Return : res = leaves
    <2>1. leaves \in Return
      BY <1>1 DEF Return
    <2> QED
      BY <2>1
  <1>3. returned \in [Runner -> Seq(Return)] /\ returned' = [returned EXCEPT ![r] = Append(@, res)]
    BY <1>2 DEF RunInv, TypeOK, Leave
  <1>4. res.chan = chan[r] /\ res.errs = errs /\ res.paused = chans[chan[r]].reason
    BY <1>2
  <1>5. GoodResult(res)'
    BY <1>1, <1>4 DEF GoodResult
  <1> QED
    BY <1>2, <1>3, <1>5

\* The three parts a step of a run in progress has to keep, OwnChannel being kept
\* by every step that makes no channel.
LEMMA ResultInvFrom ==
    ASSUME RunInv, ResultInv, chan' = chan, Len(chans') = Len(chans),
           \A c \in 1..Len(chans) : Accounted(chans'[c]),
           Watching',
           \A s \in Runner :
               \/ returned'[s] = returned[s]
               \/ \E res \in Return : returned'[s] = Append(returned[s], res) /\ GoodResult(res)'
    PROVE  ResultInv'
  <1>1. Len(chans) \in Nat
    BY DEF RunInv, TypeOK
  <1>2. GoodResults'
    BY <1>1, ResultsGrow DEF ResultInv
  <1> QED
    BY <1>2 DEF ResultInv, OwnChannel

\* A step of r that leaves every other channel alone disturbs no other run.
LEMMA WatchingFrom ==
    ASSUME RunInv, ResultInv, NEW r \in Runner, chan' = chan, chan[r] # 0,
           \A s \in Runner : s # r => pc'[s] = pc[s],
           \A c \in 1..Len(chans) : c # chan[r] =>
               \/ chans'[c] = chans[c]
               \/ chans'[c].buf = chans'[c].reason /\ chans'[c].late = chans[c].late,
           pc'[r] \in Running => chans'[chan[r]].buf = chans'[chan[r]].reason,
           pc'[r] \in {"arm", "reading", "routing"} => chans'[chan[r]].late = 0
    PROVE  Watching'
  <1> SUFFICES ASSUME NEW s \in Runner
               PROVE  /\ pc'[s] \in Running => chans'[chan[s]].buf = chans'[chan[s]].reason
                      /\ pc'[s] \in {"arm", "reading", "routing"} => chans'[chan[s]].late = 0
    BY DEF Watching
  <1>1. CASE s = r
    BY <1>1
  <1>2. CASE s # r /\ pc[s] # "idle"
    <2>1. chan[s] \in 1..Len(chans) /\ chan[s] # chan[r]
      BY <1>2, RunType DEF ResultInv, OwnChannel
    <2>2. \/ chans'[chan[s]] = chans[chan[s]]
          \/ chans'[chan[s]].buf = chans'[chan[s]].reason /\ chans'[chan[s]].late = chans[chan[s]].late
      BY <2>1
    <2> QED
      BY <1>2, <2>2 DEF ResultInv, Watching
  <1>3. CASE s # r /\ pc[s] = "idle"
    BY <1>3 DEF Running
  <1> QED
    BY <1>1, <1>2, <1>3

LEMMA ListenResults == ASSUME RunInv, ResultInv, NEW r \in Runner, Listen(r) PROVE ResultInv'
  <1>1. chans \in Seq(Channel) /\ Len(chans) \in Nat /\ pc \in [Runner -> Running \cup {"idle", "leaving"}]
        /\ chan \in [Runner -> 0..Len(chans)] /\ returned \in [Runner -> Seq(Return)]
    BY DEF RunInv, TypeOK
  <1>2. CASE ~MayClaim
    <2>1. PICK res \in Return : res = [chan |-> 0, errs |-> {"ErrListenerIsListening"}, paused |-> {}]
      <3>1. [chan |-> 0, errs |-> {"ErrListenerIsListening"}, paused |-> {}] \in Return
        BY ReasonType DEF Return, Error
      <3> QED
        BY <3>1
    <2>2. /\ returned' = [returned EXCEPT ![r] = Append(@, res)]
          /\ UNCHANGED <<pc, chan, chans>>
      BY <1>2, <2>1 DEF Listen
    <2>3. GoodResult(res)'
      BY <1>1, <2>1, <2>2 DEF GoodResult
    <2>4. Watching' /\ \A c \in 1..Len(chans) : Accounted(chans'[c])
      BY <2>2 DEF ResultInv, Watching
    <2> QED
      BY <1>1, <2>2, <2>3, <2>4, ResultInvFrom
  <1>3. CASE MayClaim
    <2>1. /\ chans' = Append(chans, NewChan)
          /\ chan' = [chan EXCEPT ![r] = Len(chans')] /\ pc' = [pc EXCEPT ![r] = "check"]
          /\ returned' = returned
      BY <1>3 DEF Listen, Goto
    <2>2. /\ Len(chans') = Len(chans) + 1 /\ chans'[Len(chans) + 1] = NewChan
          /\ \A c \in 1..Len(chans) : chans'[c] = chans[c]
      BY <1>1, <2>1, NewChanType
    <2>3. OwnChannel'
      BY <1>1, <2>1, <2>2 DEF ResultInv, OwnChannel
    <2>4. Accounted(NewChan)
      BY DEF Accounted, NewChan
    <2>5. ASSUME NEW c \in 1..Len(chans') PROVE Accounted(chans'[c])
      <3>1. c \in 1..Len(chans) \/ c = Len(chans) + 1
        BY <1>1, <2>2
      <3>2. c \in 1..Len(chans) => Accounted(chans[c])
        BY DEF ResultInv
      <3> QED
        BY <2>2, <2>4, <3>1, <3>2
    <2>6. Watching'
      <3> SUFFICES ASSUME NEW s \in Runner
                   PROVE  /\ pc'[s] \in Running => chans'[chan'[s]].buf = chans'[chan'[s]].reason
                          /\ pc'[s] \in {"arm", "reading", "routing"} => chans'[chan'[s]].late = 0
        BY DEF Watching
      <3>1. CASE s = r
        BY <1>1, <2>1, <2>2, <3>1 DEF NewChan
      <3>2. CASE s # r /\ pc[s] # "idle"
        <4>1. chan'[s] = chan[s] /\ pc'[s] = pc[s] /\ chan[s] \in 1..Len(chans)
          BY <1>1, <2>1, <3>2, RunType
        <4> QED
          BY <2>2, <4>1 DEF ResultInv, Watching
      <3>3. CASE s # r /\ pc[s] = "idle"
        BY <1>1, <2>1, <3>3 DEF Running
      <3> QED
        BY <3>1, <3>2, <3>3
    <2>7. GoodResults'
      BY <1>1, <2>1, <2>2, ResultsGrow DEF ResultInv
    <2> QED
      BY <2>3, <2>5, <2>6, <2>7 DEF ResultInv
  <1> QED
    BY <1>2, <1>3

LEMMA EmptiedIsAccounted ==
    ASSUME NEW cs \in Seq(Channel), NEW k \in 1..Len(cs), NEW ds, ds = [cs EXCEPT ![k].buf = {}],
           \A c \in 1..Len(cs) : Accounted(cs[c])
    PROVE  /\ Len(ds) = Len(cs)
           /\ \A c \in 1..Len(cs) : Accounted(ds[c])
           /\ \A c \in 1..Len(cs) : c # k => ds[c] = cs[c]
           /\ ds[k].by = cs[k].by /\ ds[k].reason = cs[k].reason
  <1>1. cs[k] \in Channel
    OBVIOUS
  <1> DEFINE d == [cs[k] EXCEPT !.buf = {}]
  <1>2. d.by = cs[k].by /\ d.closes = cs[k].closes /\ d.reason = cs[k].reason /\ d.late = cs[k].late
    BY <1>1 DEF Channel
  <1>3. ds = [cs EXCEPT ![k] = d]
    OBVIOUS
  <1> HIDE DEF d
  <1>4. Accounted(cs[k]) /\ Accounted(d)
    BY <1>2 DEF Accounted
  <1>5. Len(ds) = Len(cs) /\ ds[k] = d /\ \A c \in 1..Len(cs) : c # k => ds[c] = cs[c]
    BY <1>3
  <1>6. ASSUME NEW c \in 1..Len(cs) PROVE Accounted(ds[c])
    BY <1>4, <1>5
  <1> QED
    BY <1>2, <1>5, <1>6

LEMMA CheckResults == ASSUME RunInv, ResultInv, NEW r \in Runner, Check(r) PROVE ResultInv'
  <1>1. pc[r] = "check" /\ chan' = chan /\ chans \in Seq(Channel)
        /\ pc \in [Runner -> Running \cup {"idle", "leaving"}]
    BY DEF Check, RunInv, TypeOK
  <1>2. chan[r] \in 1..Len(chans) /\ chans[chan[r]] \in Channel /\ chans[chan[r]].buf \in Reason
    BY <1>1, RunType
  <1>3. chans[chan[r]].buf = chans[chan[r]].reason
    BY <1>1 DEF ResultInv, Watching, Running
  <1>4. CASE Closed(r)
    <2>1. Leave(r, chans[chan[r]].buf) /\ chans' = [chans EXCEPT ![chan[r]].buf = {}]
      BY <1>4 DEF Check, Drain
    <2>2. chans[chan[r]].buf \in SUBSET Error
      BY <1>2, ReasonType
    <2>3. /\ Len(chans') = Len(chans)
          /\ \A c \in 1..Len(chans) : Accounted(chans'[c])
          /\ \A c \in 1..Len(chans) : c # chan[r] => chans'[c] = chans[c]
      BY <1>1, <1>2, <2>1, EmptiedIsAccounted DEF ResultInv
    <2>4. pc' = [pc EXCEPT ![r] = "leaving"]
      BY <2>1 DEF Leave, Goto
    <2>5. Watching'
      <3>1. pc'[r] \notin Running /\ pc'[r] \notin {"arm", "reading", "routing"}
        BY <1>1, <2>4 DEF Running
      <3> QED
        BY <1>1, <1>2, <2>3, <2>4, <3>1, WatchingFrom
    <2>6. \A s \in Runner :
               \/ returned'[s] = returned[s]
               \/ \E res \in Return : returned'[s] = Append(returned[s], res) /\ GoodResult(res)'
      <3>1. pc[r] # "idle" /\ chans[chan[r]].buf \cap Pauser \subseteq chans[chan[r]].reason
            /\ chans[chan[r]].reason \subseteq chans[chan[r]].buf
        BY <1>1, <1>3
      <3> QED
        BY <2>1, <2>2, <2>3, <3>1, LeaveAdds
    <2> QED
      BY <1>1, <2>3, <2>5, <2>6, ResultInvFrom
  <1>5. CASE ~Closed(r)
    <2>1. pc' = [pc EXCEPT ![r] = "arm"] /\ UNCHANGED <<returned, chans>>
      BY <1>5 DEF Check, Goto
    <2>2. chans[chan[r]].late = 0
      <3>1. Accounted(chans[chan[r]]) /\ ~(chans[chan[r]].closes > 0) /\ chans[chan[r]].late \in Nat
        BY <1>2, <1>5 DEF ResultInv, Closed, Channel
      <3> QED
        BY <3>1 DEF Accounted
    <2>3. Watching'
      BY <1>1, <1>2, <1>3, <2>1, <2>2, WatchingFrom
    <2>4. \A c \in 1..Len(chans) : Accounted(chans'[c])
      BY <2>1 DEF ResultInv
    <2> QED
      BY <1>1, <2>1, <2>3, <2>4, ResultInvFrom
  <1> QED
    BY <1>4, <1>5

LEMMA ArmResults == ASSUME RunInv, ResultInv, NEW r \in Runner, Arm(r) PROVE ResultInv'
  <1>1. /\ pc[r] = "arm" /\ UNCHANGED <<chan, chans>>
        /\ pc \in [Runner -> Running \cup {"idle", "leaving"}]
    BY DEF Arm, RunInv, TypeOK
  <1>2. chan[r] \in 1..Len(chans) /\ chans[chan[r]].reason \in Reason
    BY <1>1, RunType
  <1>3. chans[chan[r]].buf = chans[chan[r]].reason /\ chans[chan[r]].late = 0
    BY <1>1 DEF ResultInv, Watching, Running
  <1>4. \A c \in 1..Len(chans) : Accounted(chans'[c])
    BY <1>1 DEF ResultInv
  <1>5. CASE HasTimeout /\ down
    <2>1. Leave(r, {"deadlineErr"}) /\ {"deadlineErr"} \in SUBSET Error /\ "deadlineErr" \notin Pauser
      BY <1>5, ListenerRunAssumption DEF Arm, Error
    <2>2. {"deadlineErr"} \cap Pauser \subseteq chans[chan[r]].reason
      BY <2>1
    <2>3. pc' = [pc EXCEPT ![r] = "leaving"]
      BY <2>1 DEF Leave, Goto
    <2>4. Watching'
      BY <1>1, <1>2, <1>3, <2>3, WatchingFrom
    <2>5. \A s \in Runner :
               \/ returned'[s] = returned[s]
               \/ \E res \in Return : returned'[s] = Append(returned[s], res) /\ GoodResult(res)'
      BY <1>1, <1>5, <2>1, <2>2, LeaveAdds
    <2> QED
      BY <1>1, <1>4, <2>4, <2>5, ResultInvFrom
  <1>6. CASE ~(HasTimeout /\ down)
    <2>1. pc' = [pc EXCEPT ![r] = "reading"] /\ UNCHANGED returned
      BY <1>6 DEF Arm, Goto
    <2>2. Watching'
      BY <1>1, <1>2, <1>3, <2>1, WatchingFrom
    <2> QED
      BY <1>1, <1>4, <2>1, <2>2, ResultInvFrom
  <1> QED
    BY <1>5, <1>6

LEMMA ReadFrameResults == ASSUME RunInv, ResultInv, NEW r \in Runner, ReadFrame(r) PROVE ResultInv'
  <1>1. /\ pc[r] = "reading" /\ UNCHANGED <<chan, chans, returned>>
        /\ pc' = [pc EXCEPT ![r] = "routing"]
        /\ pc \in [Runner -> Running \cup {"idle", "leaving"}]
    BY DEF ReadFrame, RunInv, TypeOK, Goto
  <1>2. chan[r] \in 1..Len(chans)
    BY <1>1, RunType
  <1>3. chans[chan[r]].buf = chans[chan[r]].reason /\ chans[chan[r]].late = 0
    BY <1>1 DEF ResultInv, Watching, Running
  <1>4. \A c \in 1..Len(chans) : Accounted(chans'[c])
    BY <1>1 DEF ResultInv
  <1>5. Watching'
    BY <1>1, <1>2, <1>3, WatchingFrom
  <1> QED
    BY <1>1, <1>4, <1>5, ResultInvFrom

LEMMA ReadFailsResults == ASSUME RunInv, ResultInv, NEW r \in Runner, ReadFails(r) PROVE ResultInv'
  <1>1. /\ pc[r] = "reading" /\ chan' = chan /\ chans \in Seq(Channel)
        /\ pc \in [Runner -> Running \cup {"idle", "leaving"}]
        /\ Leave(r, ReadErrors(r)) /\ chans' = [chans EXCEPT ![chan[r]].buf = {}]
    BY DEF ReadFails, RunInv, TypeOK, Drain
  <1>2. chan[r] \in 1..Len(chans) /\ chans[chan[r]].buf \in Reason
    BY <1>1, RunType
  <1>3. chans[chan[r]].buf = chans[chan[r]].reason
    BY <1>1 DEF ResultInv, Watching, Running
  <1>4. /\ Len(chans') = Len(chans)
        /\ \A c \in 1..Len(chans) : Accounted(chans'[c])
        /\ \A c \in 1..Len(chans) : c # chan[r] => chans'[c] = chans[c]
    BY <1>1, <1>2, EmptiedIsAccounted DEF ResultInv
  <1>5. pc' = [pc EXCEPT ![r] = "leaving"]
    BY <1>1 DEF Leave, Goto
  <1>6. Watching'
    <2>1. pc'[r] \notin Running /\ pc'[r] \notin {"arm", "reading", "routing"}
      BY <1>1, <1>5 DEF Running
    <2> QED
      BY <1>1, <1>2, <1>4, <1>5, <2>1, WatchingFrom
  <1>7. /\ ReadErrors(r) \in SUBSET Error
        /\ ReadErrors(r) \cap Pauser \subseteq chans[chan[r]].reason
        /\ chans[chan[r]].reason \subseteq ReadErrors(r)
    <2>1. chans[chan[r]].buf \subseteq Error
      BY <1>2, ReasonType
    <2>2. "readErr" \notin Pauser /\ "readErr" \in Error
      BY ListenerRunAssumption DEF Error
    <2> QED
      BY <1>3, <2>1, <2>2 DEF ReadErrors
  <1>8. pc[r] # "idle"
    BY <1>1
  <1>9. \A s \in Runner :
             \/ returned'[s] = returned[s]
             \/ \E res \in Return : returned'[s] = Append(returned[s], res) /\ GoodResult(res)'
    BY <1>1, <1>4, <1>7, <1>8, LeaveAdds
  <1> QED
    BY <1>1, <1>4, <1>6, <1>9, ResultInvFrom

\* A late frame is counted once: a run in hand of one has routed none before.
LEMMA CountedIsAccounted ==
    ASSUME NEW cs \in Seq(Channel), NEW k \in 1..Len(cs),
           NEW ds, ds = [cs EXCEPT ![k].late = @ + 1],
           cs[k].late = 0, cs[k].closes > 0,
           \A c \in 1..Len(cs) : Accounted(cs[c])
    PROVE  /\ Len(ds) = Len(cs)
           /\ \A c \in 1..Len(cs) : Accounted(ds[c])
           /\ \A c \in 1..Len(cs) : c # k => ds[c] = cs[c]
           /\ ds[k].buf = cs[k].buf /\ ds[k].reason = cs[k].reason
           /\ ds[k].by = cs[k].by /\ ds[k].closes = cs[k].closes
  <1>1. cs[k] \in Channel /\ Accounted(cs[k])
    OBVIOUS
  <1> DEFINE d == [cs[k] EXCEPT !.late = @ + 1]
  <1>2. /\ d.by = cs[k].by /\ d.closes = cs[k].closes /\ d.reason = cs[k].reason
        /\ d.buf = cs[k].buf /\ d.late = 1
    BY <1>1 DEF Channel
  <1>3. ds = [cs EXCEPT ![k] = d]
    OBVIOUS
  <1> HIDE DEF d
  <1>4. Accounted(d)
    BY <1>1, <1>2 DEF Accounted
  <1>5. Len(ds) = Len(cs) /\ ds[k] = d /\ \A c \in 1..Len(cs) : c # k => ds[c] = cs[c]
    BY <1>3
  <1>6. ASSUME NEW c \in 1..Len(cs) PROVE Accounted(ds[c])
    BY <1>4, <1>5
  <1> QED
    BY <1>2, <1>5, <1>6

\* What PauseListenFields leaves for the invariant.
LEMMA PausedIsAccounted ==
    ASSUME NEW cs \in Seq(Channel), pauseChan \in 0..Len(cs), Used(cs, pauseChan),
           \A c \in 1..Len(cs) : Accounted(cs[c]),
           NEW errs \in Reason, NEW by \in {"pauser", "hook", "self", "other"},
           PauseListen(cs, errs, by)
    PROVE  /\ Len(chans') = Len(cs)
           /\ \A c \in 1..Len(cs) : Accounted(chans'[c])
           /\ \A c \in 1..Len(cs) :
                  \/ chans'[c] = cs[c]
                  \/ chans'[c].buf = chans'[c].reason /\ chans'[c].late = cs[c].late
  <1>1. /\ Len(chans') = Len(cs)
        /\ \A c \in 1..Len(cs) : c # pauseChan => chans'[c] = cs[c]
        /\ pauseChan # 0 => /\ chans'[pauseChan].buf = errs
                            /\ chans'[pauseChan].reason = errs
                            /\ chans'[pauseChan].by = by
                            /\ chans'[pauseChan].closes = 1
                            /\ chans'[pauseChan].late = cs[pauseChan].late
    BY PauseListenFields
  <1>2. ASSUME NEW c \in 1..Len(cs), c = pauseChan PROVE Accounted(chans'[c])
    <2>1. Accounted(cs[c]) /\ c # 0
      BY <1>2
    <2> QED
      BY <1>1, <1>2, <2>1 DEF Accounted
  <1> QED
    BY <1>1, <1>2

LEMMA RouteResults == ASSUME RunInv, ResultInv, NEW r \in Runner, Route(r) PROVE ResultInv'
  <1>1. /\ pc[r] = "routing" /\ chan' = chan /\ chans \in Seq(Channel)
        /\ pc \in [Runner -> Running \cup {"idle", "leaving"}]
        /\ pauseChan \in 0..Len(chans) /\ Used(chans, pauseChan)
    BY DEF Route, RunInv, TypeOK
  <1>2. chan[r] \in 1..Len(chans) /\ chans[chan[r]].reason \in Reason /\ pc[r] # "idle" /\ chan[r] # 0
    BY <1>1, RunType
  <1>3. chans[chan[r]].buf = chans[chan[r]].reason /\ chans[chan[r]].late = 0
    BY <1>1 DEF ResultInv, Watching, Running
  <1> DEFINE counted == IF Closed(r) THEN [chans EXCEPT ![chan[r]].late = @ + 1] ELSE chans
  <1>4. /\ counted \in Seq(Channel) /\ Len(counted) = Len(chans) /\ Used(counted, pauseChan)
        /\ \A c \in 1..Len(chans) : Accounted(counted[c])
        /\ \A c \in 1..Len(chans) : c # chan[r] => counted[c] = chans[c]
        /\ counted[chan[r]].buf = counted[chan[r]].reason
    <2>1. CASE Closed(r)
      <3>1. counted = [chans EXCEPT ![chan[r]].late = @ + 1] /\ chans[chan[r]].closes > 0
        BY <2>1 DEF Closed
      <3>2. counted \in Seq(Channel) /\ Len(counted) = Len(chans) /\ Used(counted, pauseChan)
        <4>1. chan[r] \in 1..Len(chans) /\ pauseChan \in 0..Len(chans) /\ chans \in Seq(Channel)
          BY <1>1, <1>2
        <4>2. Used(chans, pauseChan)
          BY <1>1
        <4> QED
          BY <2>1, <4>1, <4>2, TouchUses
      <3> HIDE DEF counted
      <3>3. /\ \A c \in 1..Len(chans) : Accounted(counted[c])
            /\ \A c \in 1..Len(chans) : c # chan[r] => counted[c] = chans[c]
            /\ counted[chan[r]].buf = counted[chan[r]].reason
        BY <1>1, <1>2, <1>3, <3>1, CountedIsAccounted DEF ResultInv
      <3> QED
        BY <3>2, <3>3
    <2>2. CASE ~Closed(r)
      BY <1>1, <1>3, <2>2 DEF ResultInv
    <2> QED
      BY <2>1, <2>2
  <1>5. \/ Leave(r, {"ruleErr"}) /\ chans' = counted
        \/ Goto(r, NextTurn) /\ chans' = counted /\ UNCHANGED returned
        \/ Goto(r, NextTurn) /\ PauseListen(counted, {}, "hook") /\ UNCHANGED returned
    BY DEF Route
  <1> HIDE DEF counted
  <1>6. CASE Leave(r, {"ruleErr"}) /\ chans' = counted
    <2>1. pc' = [pc EXCEPT ![r] = "leaving"]
      BY <1>6 DEF Leave, Goto
    <2>2. Watching'
      BY <1>1, <1>2, <1>4, <1>6, <2>1, WatchingFrom
    <2>3. {"ruleErr"} \in SUBSET Error /\ {"ruleErr"} \cap Pauser \subseteq chans[chan[r]].reason
      BY ListenerRunAssumption DEF Error
    <2>4. \A s \in Runner :
               \/ returned'[s] = returned[s]
               \/ \E res \in Return : returned'[s] = Append(returned[s], res) /\ GoodResult(res)'
      BY <1>2, <1>4, <1>6, <2>3, LeaveAdds
    <2> QED
      BY <1>1, <1>4, <1>6, <2>2, <2>4, ResultInvFrom
  <1>7. CASE Goto(r, NextTurn) /\ chans' = counted /\ UNCHANGED returned
    <2>1. pc' = [pc EXCEPT ![r] = "check"]
      BY <1>7 DEF Goto, NextTurn
    <2>2. Watching'
      BY <1>1, <1>2, <1>4, <1>7, <2>1, WatchingFrom
    <2> QED
      BY <1>1, <1>4, <1>7, <2>2, ResultInvFrom
  <1>8. CASE Goto(r, NextTurn) /\ PauseListen(counted, {}, "hook") /\ UNCHANGED returned
    <2>1. pc' = [pc EXCEPT ![r] = "check"]
      BY <1>8 DEF Goto, NextTurn
    <2>2. /\ Len(chans') = Len(counted)
          /\ \A c \in 1..Len(counted) : Accounted(chans'[c])
          /\ \A c \in 1..Len(counted) :
                  \/ chans'[c] = counted[c]
                  \/ chans'[c].buf = chans'[c].reason /\ chans'[c].late = counted[c].late
      BY <1>1, <1>4, <1>8, ReasonType, PausedIsAccounted
    <2>3. chans'[chan[r]].buf = chans'[chan[r]].reason
      BY <1>2, <1>4, <2>2
    <2>4. \A c \in 1..Len(chans) : c # chan[r] =>
               \/ chans'[c] = chans[c]
               \/ chans'[c].buf = chans'[c].reason /\ chans'[c].late = chans[c].late
      BY <1>4, <2>2
    <2>5. Watching'
      BY <1>1, <1>2, <2>1, <2>3, <2>4, WatchingFrom
    <2>6. Len(chans') = Len(chans) /\ \A c \in 1..Len(chans) : Accounted(chans'[c])
      BY <1>4, <2>2
    <2> QED
      BY <1>1, <1>8, <2>5, <2>6, ResultInvFrom
  <1> QED
    BY <1>5, <1>6, <1>7, <1>8

\* A pause from outside, and the release of a run that returns.
LEMMA PauseResults ==
    ASSUME RunInv, ResultInv, NEW errs \in Reason, NEW by \in {"pauser", "hook", "self", "other"},
           PauseListen(chans, errs, by), UNCHANGED <<chan, returned>>,
           \A s \in Runner : pc'[s] = pc[s] \/ pc'[s] = "idle"
    PROVE  ResultInv'
  <1>1. chans \in Seq(Channel) /\ pauseChan \in 0..Len(chans) /\ Used(chans, pauseChan)
    BY DEF RunInv, TypeOK
  <1>2. /\ Len(chans') = Len(chans)
        /\ \A c \in 1..Len(chans) : Accounted(chans'[c])
        /\ \A c \in 1..Len(chans) :
                \/ chans'[c] = chans[c]
                \/ chans'[c].buf = chans'[c].reason /\ chans'[c].late = chans[c].late
    BY <1>1, PausedIsAccounted DEF ResultInv
  <1>3. Watching'
    <2> SUFFICES ASSUME NEW s \in Runner
                 PROVE  /\ pc'[s] \in Running => chans'[chan[s]].buf = chans'[chan[s]].reason
                        /\ pc'[s] \in {"arm", "reading", "routing"} => chans'[chan[s]].late = 0
      BY DEF Watching
    <2>1. CASE pc'[s] = "idle"
      BY <2>1 DEF Running
    <2>2. CASE pc'[s] = pc[s] /\ pc[s] # "idle"
      <3>1. chan[s] \in 1..Len(chans)
        BY <2>2, RunType
      <3> QED
        BY <1>2, <2>2, <3>1 DEF ResultInv, Watching
    <2> QED
      BY <2>1, <2>2
  <1> QED
    BY <1>2, <1>3, ResultInvFrom

LEMMA ResultInit == Init => ResultInv
  BY DEF Init, ResultInv, OwnChannel, Watching, Running, GoodResults

LEMMA ResultStep == RunInv /\ ResultInv /\ [Next]_vars => ResultInv'
  <1> SUFFICES ASSUME RunInv, ResultInv, [Next]_vars PROVE ResultInv'
    OBVIOUS
  <1>1. ASSUME NEW r \in Runner, Release(r) PROVE ResultInv'
    <2>1. /\ UNCHANGED <<chan, returned>> /\ pc' = [pc EXCEPT ![r] = "idle"]
          /\ pc \in [Runner -> Running \cup {"idle", "leaving"}]
      BY <1>1 DEF Release, Goto, RunInv, TypeOK
    <2>2. PICK by \in {"pauser", "hook", "self", "other"} : PauseListen(chans, {}, by)
      BY <1>1 DEF Release
    <2>3. \A s \in Runner : pc'[s] = pc[s] \/ pc'[s] = "idle"
      BY <2>1
    <2> QED
      BY <2>1, <2>2, <2>3, ReasonType, PauseResults
  <1>2. ASSUME NEW p \in Pauser, Pause(p) PROVE ResultInv'
    <2>1. UNCHANGED <<chan, returned, pc>>
      BY <1>2 DEF Pause, run
    <2>2. PICK errs \in {{}, {p}} : PauseListen(chans, errs, "pauser")
      BY <1>2 DEF Pause
    <2> QED
      BY <2>1, <2>2, ReasonType, PauseResults
  <1>3. ASSUME NEW r \in Runner, Listen(r) \/ ReadFrame(r) \/ ReadFails(r) \/ Turn(r)
        PROVE  ResultInv'
    BY <1>1, <1>3, ListenResults, ReadFrameResults, ReadFailsResults, CheckResults, ArmResults,
       RouteResults DEF Turn
  <1>4. ASSUME UNCHANGED <<run, pauseChan, chans>> PROVE ResultInv'
    BY <1>4 DEF run, ResultInv, OwnChannel, Watching, GoodResults, GoodResult
  <1> QED
    BY <1>2, <1>3, <1>4 DEF Next, CloseConn, Finished, vars

LEMMA ResultInvariant == Spec => [](RunInv /\ ResultInv)
  <1>1. Init => RunInv /\ ResultInv
    BY RunInit, ResultInit
  <1>2. RunInv /\ ResultInv /\ [Next]_vars => (RunInv /\ ResultInv)'
    BY RunStep, ResultStep
  <1> QED
    BY <1>1, <1>2, PTL DEF Spec

\* However runs overlap and whoever pauses, a run routes one frame at most after its
\* channel was closed: the frame it had in hand (ListenerListen.go:120-150).
THEOREM PauseIsSeenBetweenFrames == Spec => []OneFrameAfterPause
  <1>1. ResultInv => OneFrameAfterPause
    BY DEF ResultInv, Accounted, OneFrameAfterPause
  <1> QED
    BY <1>1, ResultInvariant, PTL

\* Without a read deadline Listen returns the reason it was paused with, and no
\* other pauser's, whatever ends the run but a frame that breaks a rule
\* (ListenerListen.go:103-150).  The run listener_reason_lost shows what a
\* deadline does to it.
THEOREM ReasonsAreReturned == ASSUME ~HasTimeout PROVE Spec => []PauseReasonReturned
  <1>1. RunInv /\ ResultInv => PauseReasonReturned
    <2> SUFFICES ASSUME RunInv, ResultInv, NEW res \in Ended
                 PROVE  /\ res.errs \cap Pauser \subseteq res.paused
                        /\ res.paused \subseteq res.errs \/ "ruleErr" \in res.errs
      BY DEF PauseReasonReturned
    <2>1. PICK r \in Runner : \E i \in 1..Len(returned[r]) : res = returned[r][i]
      BY DEF Ended, Result
    <2>2. PICK i \in 1..Len(returned[r]) : res = returned[r][i]
      BY <2>1
    <2> QED
      BY <2>2 DEF ResultInv, GoodResults, GoodResult, Ended
  <1> QED
    BY <1>1, ResultInvariant, PTL

-----------------------------------------------------------------------------
(* What nil means, for callers that wait.                                    *)

\* The claim is that of a run in progress, whose channel no release has closed.
Claimed    == pauseChan # 0 => \E r \in Runner : pc[r] # "idle" /\ chan[r] = pauseChan
Unreleased == \A r \in Runner : pc[r] # "idle" => chans[chan[r]].by \notin {"self", "other"}

NilGood(res) ==
    res.chan # 0 /\ res.errs = {} =>
        chans[res.chan].by \in {"pauser", "hook"} /\ chans[res.chan].reason = {}

NilResults == \A r \in Runner : \A i \in 1..Len(returned[r]) : NilGood(returned[r][i])

WaitInv == OneRun /\ Claimed /\ Unreleased /\ NilResults

\* From the channels cs to ds, what is on record stays on record.
OnRecord(cs, ds, by) ==
    \A c \in 1..Len(cs) :
        \/ ds[c].by = cs[c].by /\ ds[c].reason = cs[c].reason
        \/ cs[c].by = "nobody" /\ ds[c].by = by

LEMMA PauseOnRecord ==
    ASSUME NEW cs \in Seq(Channel), pauseChan \in 0..Len(cs), Used(cs, pauseChan),
           \A c \in 1..Len(cs) : Accounted(cs[c]),
           NEW errs \in Reason, NEW by \in {"pauser", "hook", "self", "other"},
           PauseListen(cs, errs, by)
    PROVE  OnRecord(cs, chans', by) /\ pauseChan' = 0
  <1>1. /\ \A c \in 1..Len(cs) : c # pauseChan => chans'[c] = cs[c]
        /\ pauseChan # 0 => chans'[pauseChan].by = by
    BY PauseListenFields
  <1>2. ASSUME NEW c \in 1..Len(cs), c = pauseChan PROVE cs[c].by = "nobody"
    BY <1>2 DEF Used, Untouched, Accounted
  <1> QED
    BY <1>1, <1>2 DEF OnRecord, PauseListen

LEMMA NilResultsGrow ==
    ASSUME RunInv, ResultInv, NilResults,
           NEW by \in {"pauser", "hook", "self", "other"}, OnRecord(chans, chans', by),
           \A s \in Runner :
               \/ returned'[s] = returned[s]
               \/ \E res \in Return : returned'[s] = Append(returned[s], res) /\ NilGood(res)'
    PROVE  NilResults'
  <1> SUFFICES ASSUME NEW s \in Runner, NEW i \in 1..Len(returned'[s])
               PROVE  NilGood(returned[s][i])'
    BY DEF NilResults
  <1>1. returned[s] \in Seq(Return)
    BY DEF RunInv, TypeOK
  <1>2. ASSUME i \in 1..Len(returned[s]), returned'[s][i] = returned[s][i]
        PROVE  NilGood(returned[s][i])'
    <2>1. GoodResult(returned[s][i]) /\ NilGood(returned[s][i])
      BY <1>2 DEF ResultInv, GoodResults, NilResults
    <2>2. CASE returned[s][i].chan # 0 /\ returned[s][i].errs = {}
      <3>1. /\ returned[s][i].chan \in 1..Len(chans)
            /\ chans[returned[s][i].chan].by \in {"pauser", "hook"}
            /\ chans[returned[s][i].chan].reason = {}
        BY <2>1, <2>2 DEF GoodResult, NilGood
      <3> QED
        BY <1>2, <3>1 DEF OnRecord, NilGood
    <2>3. CASE ~(returned[s][i].chan # 0 /\ returned[s][i].errs = {})
      BY <1>2, <2>3 DEF NilGood
    <2> QED
      BY <2>2, <2>3
  <1>3. CASE returned'[s] = returned[s]
    BY <1>2, <1>3
  <1>4. ASSUME NEW res \in Return, returned'[s] = Append(returned[s], res), NilGood(res)'
        PROVE  NilGood(returned[s][i])'
    <2>1. CASE i \in 1..Len(returned[s])
      BY <1>1, <1>2, <1>4, <2>1
    <2>2. CASE i = Len(returned[s]) + 1
      <3>1. returned'[s][i] = res
        BY <1>1, <1>4, <2>2
      <3> QED
        BY <1>4, <3>1 DEF NilGood
    <2> QED
      BY <1>1, <1>4, <2>1, <2>2
  <1> QED
    BY <1>3, <1>4

\* A step of the run in progress that neither claims nor releases.
LEMMA WaitInvFrom ==
    ASSUME RunInv, ResultInv, WaitInv, OneRun', chan' = chan, pauseChan' \in {0, pauseChan},
           \A s \in Runner : pc'[s] # "idle" <=> pc[s] # "idle",
           NEW by \in {"pauser", "hook"}, OnRecord(chans, chans', by),
           \A s \in Runner :
               \/ returned'[s] = returned[s]
               \/ \E res \in Return : returned'[s] = Append(returned[s], res) /\ NilGood(res)'
    PROVE  WaitInv'
  <1>1. Claimed'
    BY DEF WaitInv, Claimed
  <1>2. Unreleased'
    <2> SUFFICES ASSUME NEW s \in Runner, pc'[s] # "idle"
                 PROVE  chans'[chan[s]].by \notin {"self", "other"}
      BY DEF Unreleased
    <2>1. pc[s] # "idle" /\ chan[s] \in 1..Len(chans)
      BY RunType
    <2> QED
      BY <2>1 DEF WaitInv, Unreleased, OnRecord
  <1>3. NilResults'
    BY NilResultsGrow DEF WaitInv
  <1> QED
    BY <1>1, <1>2, <1>3 DEF WaitInv

LEMMA LeaveNil ==
    ASSUME RunInv, NEW r \in Runner, pc[r] # "idle", NEW errs \in SUBSET Error, Leave(r, errs),
           errs = {} => chans'[chan[r]].by \in {"pauser", "hook"} /\ chans'[chan[r]].reason = {}
    PROVE  /\ \A s \in Runner :
                 \/ returned'[s] = returned[s]
                 \/ \E res \in Return : returned'[s] = Append(returned[s], res) /\ NilGood(res)'
           /\ \A s \in Runner : pc'[s] # "idle" <=> pc[s] # "idle"
  <1> DEFINE leaves == [chan |-> chan[r], errs |-> errs, paused |-> chans[chan[r]].reason]
  <1>1. chan[r] \in 1..Len(chans) /\ chans[chan[r]].reason \in Reason
    BY RunType
  <1>2. PICK res \in Return : res = leaves
    <2>1. leaves \in Return
      BY <1>1 DEF Return
    <2> QED
      BY <2>1
  <1>3. /\ returned \in [Runner -> Seq(Return)] /\ returned' = [returned EXCEPT ![r] = Append(@, res)]
        /\ pc \in [Runner -> Running \cup {"idle", "leaving"}] /\ pc' = [pc EXCEPT ![r] = "leaving"]
    BY <1>2 DEF RunInv, TypeOK, Leave, Goto
  <1>4. res.chan = chan[r] /\ res.errs = errs
    BY <1>2
  <1>5. NilGood(res)'
    BY <1>1, <1>4 DEF NilGood
  <1> QED
    BY <1>2, <1>3, <1>5

LEMMA ListenWaits ==
    ASSUME RunInv, ResultInv, WaitInv, OneRun', NEW r \in Runner, Listen(r)
    PROVE  WaitInv'
  <1>1. chans \in Seq(Channel) /\ Len(chans) \in Nat /\ pc \in [Runner -> Running \cup {"idle", "leaving"}]
        /\ chan \in [Runner -> 0..Len(chans)] /\ returned \in [Runner -> Seq(Return)]
    BY DEF RunInv, TypeOK
  <1>2. CASE ~MayClaim
    <2>1. PICK res \in Return : res = [chan |-> 0, errs |-> {"ErrListenerIsListening"}, paused |-> {}]
      <3>1. [chan |-> 0, errs |-> {"ErrListenerIsListening"}, paused |-> {}] \in Return
        BY ReasonType DEF Return, Error
      <3> QED
        BY <3>1
    <2>2. /\ returned' = [returned EXCEPT ![r] = Append(@, res)]
          /\ UNCHANGED <<pc, chan, chans, pauseChan>>
      BY <1>2, <2>1 DEF Listen
    <2>3. NilGood(res)'
      BY <2>1 DEF NilGood
    <2>4. OnRecord(chans, chans', "hook")
      BY <2>2 DEF OnRecord
    <2> QED
      BY <1>1, <2>2, <2>3, <2>4, WaitInvFrom
  <1>3. CASE MayClaim
    <2>1. /\ chans' = Append(chans, NewChan) /\ pauseChan' = Len(chans')
          /\ chan' = [chan EXCEPT ![r] = Len(chans')] /\ pc' = [pc EXCEPT ![r] = "check"]
          /\ returned' = returned
      BY <1>3 DEF Listen, Goto
    <2>2. /\ Len(chans') = Len(chans) + 1 /\ chans'[Len(chans) + 1] = NewChan
          /\ \A c \in 1..Len(chans) : chans'[c] = chans[c]
      BY <1>1, <2>1, NewChanType
    <2>3. Claimed'
      BY <1>1, <2>1 DEF Claimed
    <2>4. ASSUME NEW s \in Runner, pc'[s] # "idle"
          PROVE  chans'[chan'[s]].by \notin {"self", "other"}
      <3>1. CASE s = r
        BY <1>1, <2>1, <2>2, <3>1 DEF NewChan
      <3>2. CASE s # r
        <4>1. chan'[s] = chan[s] /\ pc[s] # "idle" /\ chan[s] \in 1..Len(chans)
          BY <1>1, <2>1, <2>4, <3>2, RunType
        <4> QED
          BY <2>2, <4>1 DEF WaitInv, Unreleased
      <3> QED
        BY <3>1, <3>2
    <2>5. OnRecord(chans, chans', "hook")
      BY <2>2 DEF OnRecord
    <2>6. NilResults'
      BY <2>1, <2>5, NilResultsGrow DEF WaitInv
    <2> QED
      BY <2>3, <2>4, <2>6 DEF WaitInv, Unreleased
  <1> QED
    BY <1>2, <1>3

LEMMA CheckWaits ==
    ASSUME RunInv, ResultInv, WaitInv, OneRun', NEW r \in Runner, Check(r)
    PROVE  WaitInv'
  <1>1. pc[r] = "check" /\ UNCHANGED <<chan, pauseChan>> /\ chans \in Seq(Channel)
        /\ pc \in [Runner -> Running \cup {"idle", "leaving"}]
    BY DEF Check, RunInv, TypeOK
  <1>2. chan[r] \in 1..Len(chans) /\ chans[chan[r]] \in Channel /\ chans[chan[r]].buf \in Reason
    BY <1>1, RunType
  <1>3. chans[chan[r]].buf = chans[chan[r]].reason
    BY <1>1 DEF ResultInv, Watching, Running
  <1>4. CASE Closed(r)
    <2>1. Leave(r, chans[chan[r]].buf) /\ chans' = [chans EXCEPT ![chan[r]].buf = {}]
      BY <1>4 DEF Check, Drain
    <2>2. chans[chan[r]].buf \in SUBSET Error
      BY <1>2, ReasonType
    <2>3. /\ Len(chans') = Len(chans)
          /\ \A c \in 1..Len(chans) : c # chan[r] => chans'[c] = chans[c]
          /\ chans'[chan[r]].by = chans[chan[r]].by /\ chans'[chan[r]].reason = chans[chan[r]].reason
      BY <1>1, <1>2, <2>1, EmptiedIsAccounted DEF ResultInv
    <2>4. OnRecord(chans, chans', "hook")
      BY <2>3 DEF OnRecord
    <2>5. chans[chan[r]].by \in {"pauser", "hook"}
      <3>1. chans[chan[r]].by \in {"nobody", "pauser", "hook", "self", "other"}
        BY <1>2 DEF Channel
      <3>2. chans[chan[r]].by \notin {"self", "other"}
        BY <1>1 DEF WaitInv, Unreleased
      <3>3. chans[chan[r]].by # "nobody"
        BY <1>2, <1>4 DEF ResultInv, Accounted, Closed
      <3> QED
        BY <3>1, <3>2, <3>3
    <2>6. chans[chan[r]].buf = {} => chans'[chan[r]].by \in {"pauser", "hook"} /\ chans'[chan[r]].reason = {}
      BY <1>3, <2>3, <2>5
    <2>7. /\ \A s \in Runner :
                \/ returned'[s] = returned[s]
                \/ \E res \in Return : returned'[s] = Append(returned[s], res) /\ NilGood(res)'
          /\ \A s \in Runner : pc'[s] # "idle" <=> pc[s] # "idle"
      <3>1. pc[r] # "idle"
        BY <1>1
      <3> QED
        BY <2>1, <2>2, <2>6, <3>1, LeaveNil
    <2> QED
      BY <1>1, <2>4, <2>7, WaitInvFrom
  <1>5. CASE ~Closed(r)
    <2>1. pc' = [pc EXCEPT ![r] = "arm"] /\ UNCHANGED <<returned, chans>>
      BY <1>5 DEF Check, Goto
    <2>2. OnRecord(chans, chans', "hook") /\ \A s \in Runner : pc'[s] # "idle" <=> pc[s] # "idle"
      BY <1>1, <2>1 DEF OnRecord
    <2> QED
      BY <1>1, <2>1, <2>2, WaitInvFrom
  <1> QED
    BY <1>4, <1>5

\* Arm, ReadFrame and ReadFails return an error or nothing.
LEMMA ReadingWaits ==
    ASSUME RunInv, ResultInv, WaitInv, OneRun', NEW r \in Runner, Arm(r) \/ ReadFrame(r) \/ ReadFails(r)
    PROVE  WaitInv'
  <1>1. pc[r] # "idle" /\ UNCHANGED <<chan, pauseChan>> /\ chans \in Seq(Channel)
        /\ pc \in [Runner -> Running \cup {"idle", "leaving"}]
    BY DEF Arm, ReadFrame, ReadFails, RunInv, TypeOK
  <1>2. chan[r] \in 1..Len(chans) /\ chans[chan[r]].buf \in Reason
    BY <1>1, RunType
  <1>3. OnRecord(chans, chans', "hook")
    <2>1. CASE ReadFails(r)
      <3>1. chans' = [chans EXCEPT ![chan[r]].buf = {}]
        BY <2>1 DEF ReadFails, Drain
      <3>2. /\ \A c \in 1..Len(chans) : c # chan[r] => chans'[c] = chans[c]
            /\ chans'[chan[r]].by = chans[chan[r]].by /\ chans'[chan[r]].reason = chans[chan[r]].reason
        BY <1>1, <1>2, <3>1, EmptiedIsAccounted DEF ResultInv
      <3> QED
        BY <3>2 DEF OnRecord
    <2>2. CASE Arm(r) \/ ReadFrame(r)
      BY <2>2 DEF Arm, ReadFrame, OnRecord
    <2> QED
      BY <2>1, <2>2
  <1>4. \/ \E errs \in SUBSET Error : errs # {} /\ Leave(r, errs)
        \/ \E where \in Running : Goto(r, where) /\ UNCHANGED returned
    <2>1. CASE Arm(r)
      <3>1. {"deadlineErr"} \in SUBSET Error
        BY DEF Error
      <3> QED
        BY <2>1, <3>1 DEF Arm, Running
    <2>2. CASE ReadFrame(r)
      BY <2>2 DEF ReadFrame, Running
    <2>3. CASE ReadFails(r)
      <3>1. ReadErrors(r) \in SUBSET Error /\ ReadErrors(r) # {}
        <4>1. chans[chan[r]].buf \subseteq Error
          BY <1>2, ReasonType
        <4> QED
          BY <4>1 DEF ReadErrors, Error
      <3> QED
        BY <2>3, <3>1 DEF ReadFails
    <2> QED
      BY <2>1, <2>2, <2>3
  <1>5. ASSUME NEW errs \in SUBSET Error, errs # {}, Leave(r, errs) PROVE WaitInv'
    BY <1>1, <1>3, <1>5, LeaveNil, WaitInvFrom
  <1>6. ASSUME NEW where \in Running, Goto(r, where), UNCHANGED returned PROVE WaitInv'
    <2>1. \A s \in Runner : pc'[s] # "idle" <=> pc[s] # "idle"
      BY <1>1, <1>6 DEF Goto, Running
    <2> QED
      BY <1>1, <1>3, <1>6, <2>1, WaitInvFrom
  <1> QED
    BY <1>4, <1>5, <1>6

LEMMA RouteWaits ==
    ASSUME RunInv, ResultInv, WaitInv, OneRun', NEW r \in Runner, Route(r)
    PROVE  WaitInv'
  <1>1. pc[r] = "routing" /\ chan' = chan /\ chans \in Seq(Channel)
        /\ pc \in [Runner -> Running \cup {"idle", "leaving"}]
        /\ pauseChan \in 0..Len(chans) /\ Used(chans, pauseChan)
    BY DEF Route, RunInv, TypeOK
  <1>2. chan[r] \in 1..Len(chans) /\ pc[r] # "idle"
    BY <1>1, RunType
  <1>3. chans[chan[r]].late = 0
    BY <1>1 DEF ResultInv, Watching
  <1> DEFINE counted == IF Closed(r) THEN [chans EXCEPT ![chan[r]].late = @ + 1] ELSE chans
  <1>4. /\ counted \in Seq(Channel) /\ Len(counted) = Len(chans) /\ Used(counted, pauseChan)
        /\ \A c \in 1..Len(chans) : Accounted(counted[c])
        /\ \A c \in 1..Len(chans) : counted[c].by = chans[c].by /\ counted[c].reason = chans[c].reason
    <2>1. CASE Closed(r)
      <3>1. counted = [chans EXCEPT ![chan[r]].late = @ + 1] /\ chans[chan[r]].closes > 0
        BY <2>1 DEF Closed
      <3>2. counted \in Seq(Channel) /\ Len(counted) = Len(chans) /\ Used(counted, pauseChan)
        <4>1. chan[r] \in 1..Len(chans) /\ pauseChan \in 0..Len(chans) /\ chans \in Seq(Channel)
          BY <1>1, <1>2
        <4>2. Used(chans, pauseChan)
          BY <1>1
        <4> QED
          BY <2>1, <4>1, <4>2, TouchUses
      <3> HIDE DEF counted
      <3>3. /\ \A c \in 1..Len(chans) : Accounted(counted[c])
            /\ \A c \in 1..Len(chans) : c # chan[r] => counted[c] = chans[c]
            /\ counted[chan[r]].by = chans[chan[r]].by /\ counted[chan[r]].reason = chans[chan[r]].reason
        BY <1>1, <1>2, <1>3, <3>1, CountedIsAccounted DEF ResultInv
      <3> QED
        BY <3>2, <3>3
    <2>2. CASE ~Closed(r)
      BY <1>1, <2>2 DEF ResultInv
    <2> QED
      BY <2>1, <2>2
  <1>5. \/ Leave(r, {"ruleErr"}) /\ chans' = counted /\ UNCHANGED pauseChan
        \/ Goto(r, "check") /\ UNCHANGED returned /\ chans' = counted /\ UNCHANGED pauseChan
        \/ Goto(r, "check") /\ UNCHANGED returned /\ PauseListen(counted, {}, "hook")
    BY DEF Route, NextTurn
  <1> HIDE DEF counted
  <1>6. pauseChan' \in {0, pauseChan} /\ OnRecord(chans, chans', "hook")
    <2>1. CASE chans' = counted /\ UNCHANGED pauseChan
      BY <1>4, <2>1 DEF OnRecord
    <2>2. CASE PauseListen(counted, {}, "hook")
      <3>1. OnRecord(counted, chans', "hook") /\ pauseChan' = 0
        BY <1>1, <1>4, <2>2, ReasonType, PauseOnRecord
      <3> QED
        BY <1>4, <3>1 DEF OnRecord
    <2> QED
      BY <1>5, <2>1, <2>2
  <1>7. /\ \A s \in Runner : pc'[s] # "idle" <=> pc[s] # "idle"
        /\ \A s \in Runner :
              \/ returned'[s] = returned[s]
              \/ \E res \in Return : returned'[s] = Append(returned[s], res) /\ NilGood(res)'
    <2>1. CASE Leave(r, {"ruleErr"})
      <3>1. {"ruleErr"} \in SUBSET Error /\ {"ruleErr"} # {}
        BY DEF Error
      <3> QED
        BY <1>2, <2>1, <3>1, LeaveNil
    <2>2. CASE Goto(r, "check") /\ UNCHANGED returned
      BY <1>1, <1>2, <2>2 DEF Goto
    <2> QED
      BY <1>5, <2>1, <2>2
  <1> QED
    BY <1>1, <1>6, <1>7, WaitInvFrom

\* The release closes the claim only if it is the run's own, and ends the run.
LEMMA ReleaseWaits ==
    ASSUME RunInv, ResultInv, WaitInv, OneRun', NEW r \in Runner, Release(r)
    PROVE  WaitInv'
  <1>1. /\ UNCHANGED <<chan, returned>> /\ pc' = [pc EXCEPT ![r] = "idle"] /\ pc[r] # "idle"
        /\ pc \in [Runner -> Running \cup {"idle", "leaving"}]
        /\ chans \in Seq(Channel) /\ pauseChan \in 0..Len(chans) /\ Used(chans, pauseChan)
    BY DEF Release, Goto, RunInv, TypeOK
  <1>2. PICK by \in {"pauser", "hook", "self", "other"} : PauseListen(chans, {}, by)
    BY DEF Release
  <1>3. OnRecord(chans, chans', by) /\ pauseChan' = 0
    BY <1>1, <1>2, ReasonType, PauseOnRecord DEF ResultInv
  <1>4. \A s \in Runner : pc'[s] = "idle"
    BY <1>1 DEF WaitInv, OneRun
  <1>5. NilResults'
    BY <1>1, <1>3, NilResultsGrow DEF WaitInv
  <1> QED
    BY <1>3, <1>4, <1>5 DEF WaitInv, Claimed, Unreleased

LEMMA WaitStep == WaitsReturn /\ RunInv /\ ResultInv /\ WaitInv /\ [Next]_vars => WaitInv'
  <1> SUFFICES ASSUME WaitsReturn, RunInv, ResultInv, WaitInv, [Next]_vars PROVE WaitInv'
    OBVIOUS
  <1>1. OneRun'
    BY OneRunStep DEF WaitInv
  <1>2. ASSUME NEW p \in Pauser, Pause(p) PROVE WaitInv'
    <2>1. UNCHANGED <<chan, returned, pc>>
      BY <1>2 DEF Pause, run
    <2>2. PICK errs \in {{}, {p}} : PauseListen(chans, errs, "pauser")
      BY <1>2 DEF Pause
    <2>3. chans \in Seq(Channel) /\ pauseChan \in 0..Len(chans) /\ Used(chans, pauseChan)
      BY DEF RunInv, TypeOK
    <2>4. OnRecord(chans, chans', "pauser") /\ pauseChan' = 0
      BY <2>2, <2>3, ReasonType, PauseOnRecord DEF ResultInv
    <2> QED
      BY <1>1, <2>1, <2>4, WaitInvFrom
  <1>3. ASSUME NEW r \in Runner, Listen(r) \/ ReadFrame(r) \/ ReadFails(r) \/ Turn(r)
        PROVE  WaitInv'
    BY <1>1, <1>3, ListenWaits, ReadingWaits, CheckWaits, RouteWaits, ReleaseWaits DEF Turn
  <1>4. ASSUME UNCHANGED <<run, pauseChan, chans>> PROVE WaitInv'
    BY <1>4 DEF run, WaitInv, OneRun, Claimed, Unreleased, NilResults, NilGood
  <1> QED
    BY <1>2, <1>3, <1>4 DEF Next, CloseConn, Finished, vars

\* For callers that wait, Listen returns nil only to a caller whose run somebody
\* paused with nil: no goroutine's deferred release ends a run that is not its own
\* (ListenerListen.go:94-101, 207-219).
THEOREM NilIsAPause == ASSUME WaitsReturn PROVE Spec => []NilMeansPaused
  <1>1. Init => WaitInv
    BY DEF Init, WaitInv, OneRun, Claimed, Unreleased, NilResults
  <1>2. RunInv /\ ResultInv /\ WaitInv /\ [Next]_vars => WaitInv'
    BY WaitStep
  <1>3. WaitInv => NilMeansPaused
    <2> SUFFICES ASSUME WaitInv, NEW res \in Ended, res.errs = {}
                 PROVE  chans[res.chan].by \in {"pauser", "hook"} /\ chans[res.chan].reason = {}
      BY DEF NilMeansPaused
    <2>1. PICK r \in Runner : \E i \in 1..Len(returned[r]) : res = returned[r][i]
      BY DEF Ended, Result
    <2>2. PICK i \in 1..Len(returned[r]) : res = returned[r][i]
      BY <2>1
    <2> QED
      BY <2>2 DEF WaitInv, NilResults, NilGood, Ended
  <1> QED
    BY <1>1, <1>2, <1>3, ResultInvariant, PTL DEF Spec
=============================================================================
