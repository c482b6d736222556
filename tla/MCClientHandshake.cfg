SPECIFICATION FairSpec
CONSTANTS
    NumFlights = 3
    FlightSize = 4
    MaxExtra = 3
    BufferSize = 7
INVARIANTS CertificateSeen ServerTurn HandlesLive HandlesReleased
PROPERTIES HandshakeEnds
CHECK_DEADLOCK FALSE
