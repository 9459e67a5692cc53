CONSTANTS
    Sends = {s1}
    Arrivals = {m1, m2}
    Beats = {}
    NoFrame = NoFrame
    PendingLimit = 1
    QueueLimit = 1
    ControlLimit = 2
    HandlerLimit = 2
    MaxIgnored = 1
SPECIFICATION FairSpec
CHECK_DEADLOCK FALSE
PROPERTIES
    CloseCompletes
    SendSettles
    MessageAnswered
