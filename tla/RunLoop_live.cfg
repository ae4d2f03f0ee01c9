SPECIFICATION FairSpec
CONSTANTS
    MAX_CONNECTION = 8
    max_connections = 1
    c1 = c1
    c2 = c2
    c3 = c3
    Conns <- ThreeConns
    NoConn = NoConn
    PROTOCOL_MINIMUM_LENGTH = 3
    PROTOCOL_MAXIMUM_LENGTH = 4
    Requests <- NewlineDisconnect
    MaxRequests = 1
    Segmentation = FALSE
    Pipelining = FALSE
    HalfClose = FALSE
    IoErrors = TRUE
CHECK_DEADLOCK FALSE
PROPERTIES
    EveryRequestIsServed
    ClosedClientsFreeTheirSlot
