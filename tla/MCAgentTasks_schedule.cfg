SPECIFICATION FairSpec
CONSTANTS
    Cron <- TwoCrons
    MaxTime = 6
    StaleClaim = 2
    MaxCrashes = 2
    MaxManual = 1
    MaxEdits = 1
INVARIANTS ActiveIsScheduled OccurrenceOnce NeighboursTakeTurns
PROPERTIES OutcomesStand ScheduleMovesOn
CHECK_DEADLOCK FALSE
