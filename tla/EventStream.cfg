SPECIFICATION FairSpec
CONSTANTS
    MaxEvents = 3
    MaxReconnectAttempts = 1
    MaxDrops = 2
    MaxCrashes = 1
INVARIANTS TypeOK NothingSkipped
PROPERTIES ImplementsLog EventsSeen
CHECK_DEADLOCK FALSE
