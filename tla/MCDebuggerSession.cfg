SPECIFICATION FairSpec
CONSTANTS
    a = a
    b = b
    s1 = s1
    Sessions = {a}
    Target <- OneTarget
    Ports <- OnePort
    NoPort <- MCNoPort
    Stoppers = {s1}
    MayStall = {a}
    CrashAt <- Anywhere
    MayForce = TRUE
    Uninspectable = TRUE
    MayOutlive = TRUE
INVARIANTS
    TypeOK
    ReadyTunnelListed
    LiveSessionKeepsHome
    CleanEnd
    UnaskedEndReported
PROPERTIES
    StartupStopHonoured
CHECK_DEADLOCK FALSE
