SPECIFICATION FairSpec
CONSTANTS
    Transports = {"stdio", "websocket"}
    Timeout = 2
    ServerIds = {0, 2}
    MaxPeers = 2
    MaxCalls = 2
    MaxUnread = 2
    MaxFaults = 1
INVARIANTS
    TypeOK
    HandshakeFirst
PROPERTIES
    ResultsAreOwn
    RequestsEnd
CHECK_DEADLOCK FALSE
