SPECIFICATION MCFairSpec
CONSTANTS
    Apps = {a}
    Calls = {c1}
    Retries = {r1}
    Streams = {s1, s2, s3}
    NoApp = NoApp
    NoStream = NoStream
    MaxVersion = 2
    Persistence = {TRUE, FALSE}
    Drivers = {"caller", "tail"}
    Refreshes = {q1, q2}
INVARIANTS
    TypeOK
    TrackedStreamIsCurrent
    WantedIsStarting
    StoppedIsQuiet
    RediscoveryGoesOn
    StreamsAreInCatalog
PROPERTIES
    WantedIsStreamed
CHECK_DEADLOCK FALSE
