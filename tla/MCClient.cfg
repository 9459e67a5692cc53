CONSTANTS
    MaxStarts = 2
    MaxSessions = 2
    HooksRefused = TRUE
    Initial = 1
    MaxWait = 3
    Numerator = 9
    Denominator = 2
    Jitter = TRUE
    MaxExponent = 1
    MaxAttempt = 1
SPECIFICATION FairSpec
CHECK_DEADLOCK FALSE
INVARIANTS
    TypeOK
    OnlyLatestShown
    NoOrphanSession
    ReplacedSilently
PROPERTIES
    StopCompletes
    DisconnectNotified
    Reconnects
    BackoffHolds
