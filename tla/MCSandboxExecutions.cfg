SPECIFICATION FairSpec
CONSTANTS
    e1 = e1
    e2 = e2
    o1 = o1
    c1 = c1
    c2 = c2
    None = None
    Execs = {e1, e2}
    Ops = {o1}
    Owner <- MCOwner
    Reviewed = {o1}
    Committers = {c1, c2}
    MaxCrashes = 1
INVARIANTS DiskAgrees JobMirrorsExecution ResultHeard
PROPERTIES Consent ExecutionsEnd
CHECK_DEADLOCK FALSE
