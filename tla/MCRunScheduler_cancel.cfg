SPECIFICATION FairSpec
CONSTANTS
    worker = worker
    request = request
    Drain <- MCDrain
    Nobody = Nobody
    WorkerLoop = worker
    RunRole = "root"
    LeaseTtl = 3
    BeatEvery = 1
    MaxStaleRecoveries = 1
    BaseDelay = 1
    MaxRunTurns = 1
    MaxCrashes = 1
    MaxStalls = 0
    MaxCommands = 1
    MaxWaits = 0
PROPERTIES CancellationConverges
