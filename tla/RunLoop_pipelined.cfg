SPECIFICATION FairSpec
CONSTANTS
    MAX_CONNECTION = 8
    max_connections = 1
    c1 = c1
    c2 = c2
    c3 = c3
    Conns <- TwoConns
    NoConn = NoConn
    PROTOCOL_MINIMUM_LENGTH = 3
    PROTOCOL_MAXIMUM_LENGTH = 4
    Requests <- LookupDisconnect
    MaxRequests = 2
    Segmentation = FALSE
    Pipelining = TRUE
    HalfClose = FALSE
    IoErrors = FALSE
CHECK_DEADLOCK FALSE
PROPERTIES
    DisconnectIsHonoured
