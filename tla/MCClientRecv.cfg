SPECIFICATION FairSpec
CONSTANTS
    Sizes <- MCSizes
    Lens <- MCLens
    Overhead = 1
    Cap = 5
    MaxRecords = 3
    Window = 3
INVARIANTS TypeOK BufferAligned PendingTarget FullMeansTooLong
PROPERTIES ImplementsByteStream AllDelivered
CHECK_DEADLOCK FALSE
