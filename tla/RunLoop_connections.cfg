SPECIFICATION Spec
CONSTANTS
    MAX_CONNECTION = 2
    max_connections = 2
    c1 = c1
    c2 = c2
    c3 = c3
    Conns <- ThreeConns
    NoConn = NoConn
    PROTOCOL_MINIMUM_LENGTH = 3
    PROTOCOL_MAXIMUM_LENGTH = 4
    Requests <- UnknownOnly
    MaxRequests = 1
    Segmentation = TRUE
    Pipelining = FALSE
    HalfClose = TRUE
    IoErrors = TRUE
SYMMETRY ConnSymmetry
CHECK_DEADLOCK FALSE
INVARIANTS
    NextSlotIsEmpty
    EventsNameLiveSockets
    StrandedOnlyAfterRefusal
PROPERTIES
    SlotsChangeHandsByExit
    PoolSpec
