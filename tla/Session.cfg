SPECIFICATION Spec
CONSTANTS
    AppFrame <- Frames
    MaxSends <- Sends2
    ServerApp = {"echo", "stream"}
    WriteDeadline = {TRUE, FALSE}
    MayTimeOut = {"server"}
    Capacity = 1
INVARIANTS ClosesAreOwed NothingAfterTheEnd AnswersInOrder NilMeansClosed OrderlyCloseIsSeen
PROPERTY CloseCompletes
