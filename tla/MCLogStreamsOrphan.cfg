SPECIFICATION TailSpec
CONSTANTS
    Apps = {a, b}
    Calls = {c1}
    Retries = {r1}
    Streams = {s1, s2, s3}
    NoApp = NoApp
    NoStream = NoStream
    MaxVersion = 1
    Persistence = {FALSE}
    Drivers = {"caller"}
    Refreshes = {q1, q2}
INVARIANT
    StoppedAppHasNoChild
CHECK_DEADLOCK FALSE
