SPECIFICATION Spec
CONSTANTS
    MaxRuns = 2
    MaxEvents = 3
    MaxPolls = 1
    MaxIncidents = 2
PROPERTIES LateEventsHarmless
CHECK_DEADLOCK FALSE
