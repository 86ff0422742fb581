SPECIFICATION Spec
CONSTANTS
    Frame <- FewFrames
    Config <- WithLimit
    ControlMax = 3
    WordSize = 64
    MaxFrames = 2
    MaxSets = 1
INVARIANT ChangeLandsBetweenFrames
