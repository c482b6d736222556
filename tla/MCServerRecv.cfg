SPECIFICATION FairSpec
CONSTANTS
    Sizes <- MCSizes
    Lens <- MCShortLens
    HandshakeEnds <- MCHandshakeEnds
    Overhead = 1
    Cap = 5
    MaxRecords = 3
    Window = 3
INVARIANT AlignedUntilLost
PROPERTIES ImplementsByteStream AllReceived
CHECK_DEADLOCK FALSE
