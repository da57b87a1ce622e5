CONSTANTS
    t1 = t1
    w1 = w1
    w2 = w2
    Task <- MCTask
    Worker = {w1}
    Name <- MCName
    NameOf <- MCNameOf
    Operation <- MCIngest
    Publisher = {p1}
    Slot = {1}
    MaxAttempts = 2
    MaxQueued = 1
    MaxFaults = 0
    NoTask = NoTask
    NoOne = NoOne
SPECIFICATION FairSpec
PROPERTIES
    CancellationIsHonoured
CHECK_DEADLOCK FALSE
