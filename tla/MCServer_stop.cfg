CONSTANTS
    b1 = b1
    Bare = {b1}
    Upgrades = {}
    Outside = Outside
    HooksRefused = FALSE
SPECIFICATION Spec
CHECK_DEADLOCK FALSE
INVARIANT
    StopClosesEverySession
