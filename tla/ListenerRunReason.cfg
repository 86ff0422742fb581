SPECIFICATION Spec
CONSTANTS
    r1 = r1
    r2 = r2
    p1 = p1
    p2 = p2
    Runner <- Runners
    Pauser <- Pausers
    HasTimeout = TRUE
    WaitsReturn = TRUE
    MaxRuns = 1
    MaxPauses = 1
    MaxFrames = 1
INVARIANT PauseReasonReturned
