CONSTANTS
    Server = Server
    Client = Client
    AlsoInitiates = TRUE
    Interval <- IntervalDef
    ServerInterval = 10
    ClientInterval = 13
    ExpectTimeout = 5
    MaxDelay = 2
    Jitter = 1
SPECIFICATION Spec
CHECK_DEADLOCK FALSE
INVARIANTS
    NoFalseClose
    DeadPeerDetected
