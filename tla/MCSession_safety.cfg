CONSTANTS
    Sends = {s1, s2}
    Arrivals = {m1}
    Beats = {b1}
    NoFrame = NoFrame
    PendingLimit = 2
    QueueLimit = 1
    ControlLimit = 1
    HandlerLimit = 1
    MaxIgnored = 0
SPECIFICATION Spec
SYMMETRY SendSymmetry
CHECK_DEADLOCK FALSE
INVARIANTS
    TypeOK
    NoStrandedSend
    
    PermitsMatchOwners
    AdmittedHasSlot
    NoReplyLost
    LocalFailureNeverSent
    QuiescentWhenClosed
PROPERTIES
    ImplementsApi
