CONSTANTS
    s1 = s1
    s2 = s2
    p1 = p1
    NoOne = NoOne
    Sender <- TwoSenders
    Pinger <- OnePinger
    Masked = TRUE
    MsgOpcode <- TextAndPing
    ControlOp <- CloseOnly
    MaxCalls = 2
    MaxPings = 0
    MaxFrames = 2
    Faults <- AllFaults
SYMMETRY Symmetry
SPECIFICATION Spec
INVARIANTS
    TypeOK
    LockDiscipline
    NothingFollowsClose
    CloseSentIsTheWire
    NilMeansOnTheWire
    NothingStranded
PROPERTIES
    ImplementsMessageStream
