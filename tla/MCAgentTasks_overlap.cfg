SPECIFICATION Spec
CONSTANTS
    Cron <- OneCron
    MaxTime = 8
    StaleClaim = 2
    MaxCrashes = 0
    MaxManual = 0
    MaxEdits = 0
INVARIANTS NoOverlap
CHECK_DEADLOCK FALSE
