CONSTANTS
    b1 = b1
    b2 = b2
    u1 = u1
    Bare = {b1, b2}
    Upgrades = {u1}
    Outside = Outside
    HooksRefused = TRUE
SPECIFICATION Spec
SYMMETRY BareSymmetry
CHECK_DEADLOCK FALSE
INVARIANTS
    TypeOK
    RegistryIsServed
    OpenIsRegistered
    CloseLeavesNone
    StopLeavesNoTask
