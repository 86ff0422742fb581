SPECIFICATION Spec
CONSTANTS
    r1 = r1
    r2 = r2
    p1 = p1
    p2 = p2
    Runner <- Runners
    Pauser <- Pausers
    HasTimeout = FALSE
    WaitsReturn = FALSE
    MaxRuns = 2
    MaxPauses = 1
    MaxFrames = 1
INVARIANT OneLoop
