SPECIFICATION Spec
CONSTANTS
    Connection = {"c1", "c2"}
    Foreign <- ForeignTo
    Via <- Between
    Caches = {"c1"}
    Writer = {"fits", "small", "small and broken"}
    WritesFail = TRUE
    RandFails = TRUE
    MaxFrames <- Frames
INVARIANTS ClientConnIsUpgraded ServerConnIsUpgraded HandshakeSucceeds AnswerFitsTheRequest NoFrameStranded
PROPERTY HandshakeEnds
CHECK_DEADLOCK FALSE
