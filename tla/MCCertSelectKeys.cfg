SPECIFICATION Spec
CONSTANTS
    Byte = 16
    RandomLength = 1
    Roles = {"server", "client"}
    Hellos <- MCHellos
    Stores <- MCStores
    IssuerLists <- MCIssuerLists
    LocalHost <- MCLocalHost
    UserName <- MCUserName
    MaxRequests = 2
INVARIANT KeysKept
CHECK_DEADLOCK FALSE
