---------------------------- MODULE ListenerRun ----------------------------
(***************************************************************************)
(* The life of Listen: the claim a run takes, the read loop, PauseListen     *)
(* from other goroutines and from hooks, the deferred release, and Listen     *)
(* called again (ListenerListen.go).                                          *)
(*                                                                           *)
(* A frame is "data" (its hook lets the loop go on), "close" (its hook calls  *)
(* PauseListen(nil), as RFC6455CloseHook and RFC6455UnknownHook do) or "bad"  *)
(* (validateFrame or routeFrame returns an error).  listenLocker is held only *)
(* for the few lines of claimListen and pauseListen, so each is one step.     *)
(* Every claim makes a fresh channel: channels are numbered, 0 is nil.  A      *)
(* Listener built by hand, without a connection, is refused and not modelled.  *)
(***************************************************************************)
EXTENDS Naturals, Sequences, FiniteSets

CONSTANTS
    Runner,       \* goroutines that call Listen
    Pauser,       \* goroutines that call PauseListen, each with its own error or nil
    HasTimeout,   \* FrameReadTimeout > 0
    WaitsReturn,  \* whether callers wait for a paused run to return before Listen
    MaxRuns,      \* bound: calls of Listen, by each Runner
    MaxPauses,    \* bound: calls of PauseListen, by each Pauser
    MaxFrames     \* bound: frames the peer sends

ASSUME ListenerRunAssumption ==
    /\ HasTimeout \in BOOLEAN /\ WaitsReturn \in BOOLEAN
    /\ MaxRuns \in Nat /\ MaxPauses \in Nat /\ MaxFrames \in Nat
    /\ Pauser \cap {"readErr", "deadlineErr", "ruleErr", "ErrListenerIsListening"} = {}

VARIABLES
    pc,         \* where each Runner is in Listen
    chan,       \* the channel its run watches
    frame,      \* the frame it has in hand
    returned,   \* what each Runner's calls returned: the run's channel, the errors
                \* joined (none for nil), the reason of a pause already there
    pauseChan,  \* l.pauseChan
    chans,      \* every channel a claim has made
    pauses,     \* calls of PauseListen made by each Pauser
    down,       \* the connection is closed
    left        \* frames the peer still sends

run  == <<pc, chan, frame, returned>>
vars == <<run, pauseChan, chans, pauses, down, left>>

FrameKind == {"data", "close", "bad"}
Error     == Pauser \cup {"readErr", "deadlineErr", "ruleErr", "ErrListenerIsListening"}
Running   == {"check", "arm", "reading", "routing"}

\* Past its look at the pause: the loop reads a frame or routes one, whatever has
\* become of its claim.
Reading == {"arm", "reading", "routing"}

\* What a pause is given: an error of its own, or nil.
Reason == {{}} \cup {{p} : p \in Pauser}

\* What a call of Listen returns.
Return == [chan : Nat, errs : SUBSET Error, paused : Reason]

\* A channel: the error in its buffer, how often it was sent to and closed, the
\* reason it was first paused with, who paused it, frames routed after that.
Channel == [buf : Reason, sends : Nat, closes : Nat, reason : Reason,
            by : {"nobody", "pauser", "hook", "self", "other"}, late : Nat]
NewChan == [buf |-> {}, sends |-> 0, closes |-> 0, reason |-> {}, by |-> "nobody", late |-> 0]

Goto(r, where) == pc' = [pc EXCEPT ![r] = where]

-----------------------------------------------------------------------------
(* PauseListen.                                                              *)

\* The send, when there is an error (errs is {} for nil), and the close.
Paused(c, errs, by) ==
    [c EXCEPT !.buf = @ \cup errs, !.sends = @ + Cardinality(errs), !.closes = @ + 1,
              !.reason = IF c.by = "nobody" THEN errs ELSE @,
              !.by = IF c.by = "nobody" THEN by ELSE @]

\* Mutant: the claim is not cleared, so the next pause finds the closed channel.
PauseWithoutClearing(cs, errs, by) ==
    /\ UNCHANGED pauseChan
    /\ chans' = IF pauseChan = 0 THEN cs ELSE [cs EXCEPT ![pauseChan] = Paused(@, errs, by)]

\* Mutant: closed, but the error is not handed over.
PauseWithoutSend(cs, errs, by) ==
    /\ pauseChan' = 0
    /\ chans' = IF pauseChan = 0 THEN cs
                ELSE [cs EXCEPT ![pauseChan] = [Paused(@, errs, by) EXCEPT !.buf = {}]]

\* pauseListen(err) on the channels cs: the claim's channel is paused and the
\* claim cleared; without a claim nothing happens, the error is dropped too.
PauseListen(cs, errs, by) ==
    /\ pauseChan' = 0
    /\ chans' = IF pauseChan = 0 THEN cs ELSE [cs EXCEPT ![pauseChan] = Paused(@, errs, by)]

\* Another goroutine pauses, with an error of its own or with nil.
Pause(p) ==
    /\ pauses[p] < MaxPauses
    /\ pauses' = [pauses EXCEPT ![p] = @ + 1]
    /\ \E errs \in {{}, {p}} : PauseListen(chans, errs, "pauser")
    /\ UNCHANGED <<run, down, left>>

\* Somebody closes the connection, which is what wakes a parked read.
CloseConn ==
    /\ ~down
    /\ down' = TRUE
    /\ UNCHANGED <<run, pauseChan, chans, pauses, left>>

-----------------------------------------------------------------------------
(* Listen.                                                                   *)

\* A run that lost its claim and has not returned.
Parting == \E r \in Runner : pc[r] \in Running \cup {"leaving"} /\ chan[r] # pauseChan

\* Mutant: the check for a run in progress is dropped.
MayClaimAlways == TRUE

MayClaim == pauseChan = 0

Listen(r) ==
    /\ pc[r] = "idle"
    /\ Len(returned[r]) < MaxRuns
    /\ WaitsReturn => ~Parting
    /\ \/ /\ ~MayClaim
          /\ returned' = [returned EXCEPT ![r] =
                Append(@, [chan |-> 0, errs |-> {"ErrListenerIsListening"}, paused |-> {}])]
          /\ UNCHANGED <<pc, chan, frame, pauseChan, chans>>
       \/ /\ MayClaim
          /\ chans' = Append(chans, NewChan)
          /\ pauseChan' = Len(chans')
          /\ chan' = [chan EXCEPT ![r] = Len(chans')]
          /\ Goto(r, "check")
          /\ UNCHANGED <<frame, returned>>
    /\ UNCHANGED <<pauses, down, left>>

\* listenFrames returns errs, kept for the deferred release to pass on.
Leave(r, errs) ==
    /\ Goto(r, "leaving")
    /\ returned' = [returned EXCEPT ![r] =
          Append(@, [chan |-> chan[r], errs |-> errs, paused |-> chans[chan[r]].reason])]

Closed(r) == chans[chan[r]].closes > 0
Drain(r)  == chans' = [chans EXCEPT ![chan[r]].buf = {}]

\* The top of the loop: the pause's error, nil from a channel closed without one.
Check(r) ==
    /\ pc[r] = "check"
    /\ IF Closed(r) THEN Leave(r, chans[chan[r]].buf) /\ Drain(r)
       ELSE Goto(r, "arm") /\ UNCHANGED <<returned, chans>>
    /\ UNCHANGED <<chan, frame, pauseChan, pauses, down, left>>

\* SetReadDeadline fails on a closed connection.
Arm(r) ==
    /\ pc[r] = "arm"
    /\ IF HasTimeout /\ down THEN Leave(r, {"deadlineErr"})
       ELSE Goto(r, "reading") /\ UNCHANGED returned
    /\ UNCHANGED <<chan, frame, pauseChan, chans, pauses, down, left>>

ReadFrame(r) ==
    /\ pc[r] = "reading"
    /\ ~down /\ left > 0
    /\ left' = left - 1
    /\ \E k \in FrameKind : frame' = [frame EXCEPT ![r] = k]
    /\ Goto(r, "routing")
    /\ UNCHANGED <<chan, returned, pauseChan, chans, pauses, down>>

\* Mutant: a failed read returns alone, without looking for a pause.
ReadErrorAlone(r) == {"readErr"}

\* errors.Join(pauseErr, err) when a pause is waiting, the read error otherwise.
ReadErrors(r) == {"readErr"} \cup chans[chan[r]].buf

\* The connection was closed here or by the peer, or its deadline passed.
ReadFails(r) ==
    /\ pc[r] = "reading"
    /\ Leave(r, ReadErrors(r))
    /\ Drain(r)
    /\ UNCHANGED <<chan, frame, pauseChan, pauses, down, left>>

\* Mutant: the loop reads on without a look at the pause.
NextTurnUnchecked == "arm"

NextTurn == "check"

\* A frame already read is validated and routed whatever has happened since.
Route(r) ==
    /\ pc[r] = "routing"
    /\ LET counted == IF Closed(r) THEN [chans EXCEPT ![chan[r]].late = @ + 1] ELSE chans
       IN  \/ /\ frame[r] = "bad"
              /\ Leave(r, {"ruleErr"})
              /\ chans' = counted /\ UNCHANGED pauseChan
           \/ /\ frame[r] = "data"
              /\ Goto(r, NextTurn)
              /\ chans' = counted /\ UNCHANGED <<returned, pauseChan>>
           \/ /\ frame[r] = "close"
              /\ Goto(r, NextTurn)
              /\ PauseListen(counted, {}, "hook") /\ UNCHANGED returned
    /\ UNCHANGED <<chan, frame, pauses, down, left>>

\* The deferred pauseListen(nil): it releases whatever claim stands by now.
Release(r) ==
    /\ pc[r] = "leaving"
    /\ PauseListen(chans, {}, IF pauseChan = chan[r] THEN "self" ELSE "other")
    /\ Goto(r, "idle")
    /\ UNCHANGED <<chan, frame, returned, pauses, down, left>>

-----------------------------------------------------------------------------

Init ==
    /\ pc = [r \in Runner |-> "idle"]
    /\ chan = [r \in Runner |-> 0]
    /\ frame = [r \in Runner |-> "data"]
    /\ returned = [r \in Runner |-> <<>>]
    /\ pauseChan = 0
    /\ chans = <<>>
    /\ pauses = [p \in Pauser |-> 0]
    /\ down = FALSE
    /\ left = MaxFrames

\* No caller is left in Listen, and none has a call left to make.
Finished ==
    /\ \A r \in Runner : pc[r] = "idle" /\ Len(returned[r]) = MaxRuns
    /\ UNCHANGED vars

Turn(r) == Check(r) \/ Arm(r) \/ Route(r) \/ Release(r)

Next ==
    \/ \E r \in Runner : Listen(r) \/ ReadFrame(r) \/ ReadFails(r) \/ Turn(r)
    \/ \E p \in Pauser : Pause(p)
    \/ CloseConn
    \/ Finished

Spec == Init /\ [][Next]_vars

\* A loop that can go on does, and a read ends once the connection is closed or
\* when it has a deadline.  Nobody need call, pause, close or send anything: a
\* read of a silent peer waits for ever.  Hooks are taken to return.
FairSpec ==
    /\ Spec
    /\ \A r \in Runner : WF_vars(Turn(r)) /\ WF_vars((down \/ HasTimeout) /\ ReadFails(r))

-----------------------------------------------------------------------------

\* The variables keep their types; a channel's buffer holds one error at most.
TypeOK ==
    /\ pc \in [Runner -> Running \cup {"idle", "leaving"}]
    /\ chan \in [Runner -> 0..Len(chans)]
    /\ frame \in [Runner -> FrameKind]
    /\ returned \in [Runner -> Seq(Return)]
    /\ pauseChan \in 0..Len(chans)
    /\ chans \in Seq(Channel)
    /\ pauses \in [Pauser -> 0..MaxPauses]
    /\ down \in BOOLEAN
    /\ left \in 0..MaxFrames

\* At most one loop reads the connection and routes its frames: two would each
\* take an arbitrary subset of them (claimListen's comment).  A run that will find
\* its pause before it reads again counts for nothing.
OneLoop == \A r, s \in Runner : pc[r] \in Reading /\ pc[s] \in Reading => r = s

\* pauseListen never sends into a full or closed channel and never closes one
\* twice, whoever pauses and whenever: the first would block under listenLocker,
\* the others panic.  The claim is held exactly while its channel is open.
ChannelUsedOnce ==
    \A c \in 1..Len(chans) :
        /\ chans[c].sends <= 1 /\ chans[c].closes <= 1
        /\ chans[c].closes = 0 <=> pauseChan = c

\* A call that claimed, and has given its result.
Result == UNION {{returned[r][i] : i \in 1..Len(returned[r])} : r \in Runner}
Ended  == {res \in Result : res.chan # 0}

\* Listen returns the reason of the pause that ended it, joined with the read error
\* the pause may have caused, and never an error somebody else paused with; only
\* a frame that broke a rule is reported in the pause's place.
PauseReasonReturned ==
    \A res \in Ended :
        /\ res.errs \cap Pauser \subseteq res.paused
        /\ res.paused \subseteq res.errs \/ "ruleErr" \in res.errs

\* Listen returns nil only to a caller somebody paused, with nothing to report:
\* PauseListen(nil) from a goroutine or from a hook.
NilMeansPaused ==
    \A res \in Ended :
        res.errs = {} => chans[res.chan].by \in {"pauser", "hook"} /\ chans[res.chan].reason = {}

\* A pause is seen between frames: once paused a run routes one frame at most.
OneFrameAfterPause == \A c \in 1..Len(chans) : chans[c].late <= 1

\* A run paused while it has a frame in hand returns when it is done with it, with
\* nobody closing the connection; a run that waits in a read returns once
\* somebody does, or when it has a deadline.
PausedRunReturns ==
    \A r \in Runner :
        (pc[r] \in {"check", "routing"} /\ Closed(r)) \/ (pc[r] = "reading" /\ (down \/ HasTimeout))
            ~> pc[r] = "idle"
=============================================================================
