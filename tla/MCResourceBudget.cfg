CONSTANTS
    c1 = c1
    c2 = c2
    c3 = c3
    s1 = s1
    s2 = s2
    Claims = {c1, c2, c3}
    Sessions = {s1, s2}
    Shared = Shared
    SharedLimits <- MCSharedLimits
    SessionLimits <- MCSessionLimits
    Sizes = {0, 1, 3}
    MaxOverloads = 1
SPECIFICATION Spec
SYMMETRY ClaimSymmetry
INVARIANTS
    WithinLimits
    UsageIsOwned
