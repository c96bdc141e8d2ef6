SPECIFICATION Spec
CONSTANTS
    a = a
    b = b
    s1 = s1
    Sessions = {a, b}
    Target <- OneTarget
    Ports <- TwoPorts
    NoPort <- MCNoPort
    Stoppers = {}
    MayStall = {}
    CrashAt <- AfterSpawn
    MayForce = FALSE
    Uninspectable = FALSE
    MayOutlive = FALSE
PROPERTIES
    ImplementsRegistry
CHECK_DEADLOCK FALSE
