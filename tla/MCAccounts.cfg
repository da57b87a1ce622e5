CONSTANTS
    NoOne = NoOne
    u1 = u1
    u2 = u2
    i1 = i1
    i2 = i2
    User <- MCUser
    Address <- MCAddress
    Subject <- MCSubject
    Admin = {a1, a2}
    Client = {c1, c2}
    MaxAttempts = 1
    MaxTokens = 3
SYMMETRY Interchangeable
SPECIFICATION Spec
INVARIANTS
    SessionsAreOfActiveUsers
    OneTokenPerSession
    FailuresAreBounded
PROPERTIES
    DisablingKeepsAnAdmin
    ImplementsSessions
CHECK_DEADLOCK FALSE
