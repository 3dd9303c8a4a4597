SPECIFICATION FairSpec
CONSTANTS
    root = root
    c1 = c1
    c2 = c2
    Root = root
    Child <- TwoChildren
    MaxCalls = 3
    Nobody = Nobody
    Kind = {"plain", "delegate", "resume", "human", "timed", "outside", "approval", "external"}
    Parallel = 2
    MaxLosses = 1
    MaxCancels = 1
INVARIANTS AnsweredBeforeTurn ChildHasCaller CancelCascades
PROPERTIES AnsweredOnce WaitsEndUnlessLost
CHECK_DEADLOCK FALSE
