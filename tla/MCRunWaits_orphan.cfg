SPECIFICATION FairSpec
CONSTANTS
    root = root
    c1 = c1
    c2 = c2
    Root = root
    Child <- OneChild
    MaxCalls = 3
    Nobody = Nobody
    Kind = {"plain", "timed"}
    Parallel = 2
    MaxLosses = 1
    MaxCancels = 0
PROPERTIES WaitsEnd
CHECK_DEADLOCK FALSE
