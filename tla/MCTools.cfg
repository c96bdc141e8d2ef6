SPECIFICATION ToolsSpec
CONSTANTS
    a = a
    b = b
    c = c
    Commands = {a, b, c}
    Explicit = {c}
    Announcers = {}
    MaxRelease = 2
    Contenders = {1, 2, 3}
    Clients = {a, b, c}
    Org <- TwoOrgs
    Refreshers = {c}
    MaxCandidates = 1
    Starts = {a, b}
    Stops = {"x1"}
    MaxServed = 2
    MaxSent = 2
    QueueSize = 2
    BatchSize = 1
    TimeoutLimit = 2
    Stoppers = {a, b}
    Scripts = 2
    Lines = 2
    BufferLimit = 6
    Regions = {"r1"}
    Orgs = {"o1", "o2"}
    Syncs = {"full", "only"}
    Partial = {"only"}
    Only = {"r1"}
    Fetchers = {"f1"}
    Targeted = {"p1"}
    Named = {"o1"}
    Mints = {"m1", "m2"}
    Otel = {"m1"}
    MaxEdits = 1
    MaxSteps = 1
    MaxSkips = 1
    FetchLimit = 2
    Lookback = 1
    MaxLanded = 4
    MaxInstant = 3
INVARIANTS
    ToolsTypeOK
    InstallsAlone
    OneDebugger SomeoneOfTwoWins
    SoleEstablisher RunningTunnelIsListed
    DeliveredOnceInOrder RestsClosed HookIsReported
    LeftoversAreListed AnswersAreOwn
    CompletedSyncIsWhole
    MintsAreAccountedFor
    TraceLeavesNothing
    WatchPassesNothing
SYMMETRY TwoAlike
CHECK_DEADLOCK FALSE
