SPECIFICATION FairSpec
CONSTANTS
    MaxEvents = 3
    MaxRetryAttempts = 2
    BatchLimit = 2
    RetryDelay = 2
    PollInterval = 2
    MaxReplays = 1
    MaxFaults = 2
    MaxCrashes = 1
INVARIANTS WakeKept StrandedByFaults TriesBounded
PROPERTY EntriesSettle
