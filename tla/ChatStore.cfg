SPECIFICATION FairSpec
CONSTANTS
    MaxRuns = 2
    MaxEvents = 3
    MaxPolls = 1
    MaxIncidents = 2
INVARIANTS Watched
PROPERTIES EndedStaysEnded NewsArrives
CHECK_DEADLOCK FALSE
