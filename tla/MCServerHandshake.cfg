SPECIFICATION FairSpec
CONSTANTS
    NumFlights = 2
    FlightSize = 3
    MaxExtra = 2
    BufferSize = 5
    Names = {host, other}
    HostName = host
    NoName = NoName
    Handles = {h1, h2, h3}
    NoHandle = NoHandle
INVARIANTS OneCredential ExtraKept NamedCredential
PROPERTIES HandshakeEnds
