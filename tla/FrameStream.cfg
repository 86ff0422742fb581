SPECIFICATION Spec
CONSTANTS
    Xor <- XorByte
    GivenFrame <- Frames
    Key <- Keys
    Masks = {TRUE, FALSE}
    WriterSize <- Sizes
    MaxSends = 2
    MaxRenews = 1
    Limit = {0, 19}
    MaxCuts = 1
    Length <- Lengths
INVARIANTS FitsInTheBuffer BytesAreTheFrames FramesReadAreFramesSent LengthsSurvive
PROPERTIES NothingAfterABrokenWrite EverySendReturns
