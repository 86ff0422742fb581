SPECIFICATION Spec
CONSTANTS
    Frame <- FewFrames
    Config <- WithTimeout
    ControlMax = 3
    WordSize = 64
    MaxFrames = 2
    MaxSets = 1
INVARIANT NoTimeoutUnlessSet
