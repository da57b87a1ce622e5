CONSTANTS
    NoOne = NoOne
    Turn = {t1}
    Request = {q1}
    Reader = {}
    Client = {c1}
    Calls = {"truncate"}
    Window = 2
    HotLimit = 2
    Context = 2
    PageSize = 4
    MaxHistory = 1
    MaxMessages = 4
SPECIFICATION Spec
INVARIANT NoAbandonedFacts
CHECK_DEADLOCK FALSE
