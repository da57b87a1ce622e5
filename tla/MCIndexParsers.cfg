CONSTANTS
    NoOne = NoOne
    Worker = {w1}
    Client = {c1}
    Parser = {p1, p2}
    Chunk = {n1}
    Calls = {"upload"}
    MaxVersion = 2
    MaxTasks = 2
    MaxAttempts = 1
    MaxFaults = 0
SPECIFICATION Spec
INVARIANTS
    OneUnforcedVersion
CHECK_DEADLOCK FALSE
