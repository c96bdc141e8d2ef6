SPECIFICATION Spec
CONSTANTS
    a = a
    b = b
    s1 = s1
    Sessions = {a}
    Target <- OneTarget
    Ports <- OnePort
    NoPort <- MCNoPort
    Stoppers = {s1}
    MayStall = {}
    CrashAt = {}
    MayForce = FALSE
    Uninspectable = FALSE
    MayOutlive = FALSE
INVARIANTS
    OldStopDoesNotMaskCrash
CHECK_DEADLOCK FALSE
