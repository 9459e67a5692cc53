CONSTANTS
    A = A
    B = B
    Calls <- TwoAndOne
    DataLimit = 2
    ControlLimit = 2
    WireLimit = 1
    Failures = TRUE
SPECIFICATION Spec
CHECK_DEADLOCK FALSE
INVARIANT
    ArrivalTellsSentOrder
