CONSTANTS
    NoOne = NoOne
    Turn = {t1, t2}
    Request = {q1, q2}
    Reader = {r1}
    Client = {c1}
    Calls = {"append", "truncate", "delete"}
    Window = 2
    HotLimit = 2
    Context = 2
    PageSize = 4
    MaxHistory = 1
    MaxMessages = 4
SYMMETRY Interchangeable
SPECIFICATION Spec
INVARIANTS
    VisibleIsThePath
    AnswersItsQuestion
    SummaryIsOfItsBranch
    ModelSeesOneBranch
CHECK_DEADLOCK FALSE
