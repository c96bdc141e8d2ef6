SPECIFICATION TopologySpec
CONSTANTS
    Regions = {"r1", "r2"}
    Orgs = {"o1", "o2"}
    Syncs = {"only"}
    Partial = {"only"}
    Only = {"r1"}
    Fetchers = {}
    Targeted = {"p1"}
    Named = {"o1", "o2"}
PROPERTIES
    OthersKept
CHECK_DEADLOCK FALSE
