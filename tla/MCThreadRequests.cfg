SPECIFICATION FairSpec
CONSTANTS
    q1 = q1
    q2 = q2
    k1 = k1
    None = None
    Threads <- MCThreads
    First = 1
    Runs <- MCRuns
    MaxMessages = 3
    Keys = {k1}
    Requests = {q1, q2}
    KeyOf <- MCKeyOf
    MaxRows = 2
    MaxCommands = 2
    MaxCrashes = 1
INVARIANTS JobFollowsRun MessagesBound OneRunPerKey
PROPERTIES ImplementsKeys KeysSettle
CHECK_DEADLOCK FALSE
