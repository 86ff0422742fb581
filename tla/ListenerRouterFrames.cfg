SPECIFICATION Spec
CONSTANTS
    Frame <- AllFrames
    Config <- AllConfigs
    ControlMax = 3
    WordSize = 64
    MaxFrames = 4
    MaxSets = 1
INVARIANTS
    RoutedIsLegal
    RefusedIsIllegal
    HooksSeeTheStream
    AllocationBounded
    RetainedBounded
