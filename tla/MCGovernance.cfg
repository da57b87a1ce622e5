CONSTANTS
    NoOne = NoOne
    Admin = {a1, a2}
    Model = {m1, m2}
    Route = {r1}
    Percent = {50, 100}
    Bucket = {0, 99}
    MaxPrompts = 3
    MaxDeployments = 3
SYMMETRY Interchangeable
SPECIFICATION Spec
INVARIANTS
    OnePublished
    TrafficFits
    ActiveTakesAll
PROPERTIES
    HistoryIsKept
    ReleasedIsApproved
CHECK_DEADLOCK FALSE
