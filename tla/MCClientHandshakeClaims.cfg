SPECIFICATION Spec
CONSTANTS
    NumFlights = 3
    FlightSize = 4
    MaxExtra = 3
    BufferSize = 7
INVARIANTS CertificateAlwaysSeen AnonymousAttempt CloseNotifySent ClosedOnce
CHECK_DEADLOCK FALSE
