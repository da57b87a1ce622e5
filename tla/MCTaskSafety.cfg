CONSTANTS
    t1 = t1
    w1 = w1
    w2 = w2
    Task <- MCTask
    Worker = {w1, w2}
    Name <- MCName
    NameOf <- MCNameOf
    Operation <- MCRebuild
    Publisher = {p1}
    Slot = {1}
    MaxAttempts = 2
    MaxQueued = 2
    MaxFaults = 1
    NoTask = NoTask
    NoOne = NoOne
SPECIFICATION FairSpec
INVARIANTS
    PendingIsClaimable
    CancellationIsInterruptible
    PendingIsDispatched
PROPERTIES
    OnlyLatestClaimReports
    ImplementsLifecycle
    EveryTaskSettles
CHECK_DEADLOCK FALSE
