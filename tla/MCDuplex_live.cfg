CONSTANTS
    A = A
    B = B
    Calls <- TwoEach
    DataLimit = 1
    ControlLimit = 1
    WireLimit = 1
    Failures = FALSE
SPECIFICATION FairSpec
CHECK_DEADLOCK FALSE
PROPERTY
    AnsweredWithoutTimeouts
