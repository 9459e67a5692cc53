CONSTANTS
    b1 = b1
    b2 = b2
    Bare = {b1, b2}
    Upgrades = {}
    Outside = Outside
    HooksRefused = FALSE
SPECIFICATION FairSpec
CHECK_DEADLOCK FALSE
PROPERTIES
    ShutdownReturns
    DisconnectHookRuns
