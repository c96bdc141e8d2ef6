SPECIFICATION SceneSpec
CONSTANTS
    p1 = p1
    p2 = p2
    p3 = p3
    p4 = p4
    Procs = {p1, p2, p3}
    Host <- TwoHosts
    Identified = {p1, p3}
    PidReused = {p2, p3}
    SlowOwners = {}
    CrashAt <- WithTokenWritten
    MayTimeout = TRUE
    Tokens <- MCTokens
    NoToken <- NoTokenValue
INVARIANTS
    TypeOK
    WorkIsCovered
PROPERTIES
    DeadOwnerLeaves
    ImplementsExclusiveLock
CHECK_DEADLOCK FALSE
