SPECIFICATION Spec
CONSTANTS
    Sizes <- MCSizes
    Lens <- MCLongLens
    HandshakeEnds <- MCNoHandshakeRest
    Overhead = 1
    Cap = 8
    MaxRecords = 3
    Window = 3
INVARIANTS RoomLeft
CHECK_DEADLOCK FALSE
