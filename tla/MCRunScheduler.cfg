SPECIFICATION FairSpec
CONSTANTS
    worker = worker
    request = request
    Drain <- MCDrain
    Nobody = Nobody
    WorkerLoop = worker
    RunRole = "root"
    LeaseTtl = 3
    BeatEvery = 1
    MaxStaleRecoveries = 2
    BaseDelay = 1
    MaxRunTurns = 2
    MaxCrashes = 1
    MaxStalls = 1
    MaxCommands = 2
    MaxWaits = 1
INVARIANTS TypeOK OneCurrentExecution JobAgrees CancelReachesExecution
PROPERTIES ImplementsLifecycle InFlightKept OwnershipUntilExpiry RunSettles WaitsResume
