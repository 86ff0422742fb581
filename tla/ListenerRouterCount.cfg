SPECIFICATION Spec
CONSTANTS
    Frame <- FewFrames
    Config <- TwoFrames
    ControlMax = 3
    WordSize = 64
    MaxFrames = 3
    MaxSets = 0
INVARIANT FrameCountEndsMessages
