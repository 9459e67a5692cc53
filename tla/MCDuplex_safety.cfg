CONSTANTS
    A = A
    B = B
    Calls <- TwoAndOne
    DataLimit = 2
    ControlLimit = 1
    WireLimit = 1
    Failures = TRUE
SPECIFICATION Spec
CHECK_DEADLOCK FALSE
INVARIANTS
    AckMeansHandled
    MessagesInOrder
