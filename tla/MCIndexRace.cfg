CONSTANTS
    NoOne = NoOne
    Worker = {w1, w2}
    Client = {c1, c2}
    Parser = {p1, p2}
    Chunk = {n1}
    Calls = {"upload", "force", "revive", "rollback", "delete"}
    MaxVersion = 2
    MaxTasks = 2
    MaxAttempts = 1
    MaxFaults = 1
SYMMETRY Interchangeable
SPECIFICATION Spec
INVARIANTS
    ReadyHasRows
    OneVersionPerParser
CHECK_DEADLOCK FALSE
