CONSTANTS
    s1 = s1
    s2 = s2
    p1 = p1
    NoOne = NoOne
    Sender <- TwoSenders
    Pinger <- OnePinger
    Masked = TRUE
    MsgOpcode <- TextOnly
    ControlOp <- CloseOnly
    MaxCalls = 1
    MaxPings = 2
    MaxFrames = 2
    Faults <- KeyAndWrite
SPECIFICATION FairSpec
INVARIANT
    OnePingAfterClose
PROPERTIES
    ControlReturns
    PingLoopEnds
    SendersReturn
