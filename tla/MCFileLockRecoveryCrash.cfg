SPECIFICATION Spec
CONSTANTS
    p1 = p1
    p2 = p2
    p3 = p3
    p4 = p4
    Procs = {p1, p2, p3, p4}
    Host <- OneHost
    Identified = {p1, p2, p3, p4}
    PidReused = {}
    SlowOwners = {}
    CrashAt <- InWorkOrRecovery
    MayTimeout = FALSE
    Tokens <- MCTokens
    NoToken <- NoTokenValue
INVARIANTS
    WorkIsCovered
CHECK_DEADLOCK FALSE
