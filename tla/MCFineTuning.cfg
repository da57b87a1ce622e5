CONSTANTS
    NoOne = NoOne
    NoTask = NoTask
    Job = {j1}
    Evaluation = {e1}
    Worker = {w1, w2}
    MaxFaults = 1
SPECIFICATION FairSpec
INVARIANTS
    TaskTellsTheJob
    SuccessIsTrained
PROPERTIES
    CancelledEarlyIsFinal
    CancellationStops
    JobSettles
    FollowsLifecycle
CHECK_DEADLOCK FALSE
