CONSTANTS
    NoOne = NoOne
    Worker = {w1}
    Client = {c1}
    Parser = {p1}
    Chunk = {n1}
    Calls = {"upload", "force", "reindex", "cancel", "retry"}
    MaxVersion = 2
    MaxTasks = 2
    MaxAttempts = 2
    MaxFaults = 0
SPECIFICATION FairSpec
INVARIANTS
    AtRestReadyIsIndexed
PROPERTIES
    ReadyIsVerified
    IndexingSettles
CHECK_DEADLOCK FALSE
