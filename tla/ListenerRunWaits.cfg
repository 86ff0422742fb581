SPECIFICATION FairSpec
CONSTANTS
    r1 = r1
    r2 = r2
    p1 = p1
    p2 = p2
    Runner <- Runners
    Pauser <- Pausers
    HasTimeout = FALSE
    WaitsReturn = TRUE
    MaxRuns = 2
    MaxPauses = 1
    MaxFrames = 2
INVARIANTS
    OneLoop
    ChannelUsedOnce
    PauseReasonReturned
    NilMeansPaused
    OneFrameAfterPause
PROPERTY PausedRunReturns
