CONSTANTS
    NoOne = NoOne
    u1 = u1
    u2 = u2
    i1 = i1
    i2 = i2
    User <- MCUser
    Address <- MCAddress
    Subject <- MCSubject
    Admin = {a1, a2}
    Client = {c1}
    MaxAttempts = 1
    MaxTokens = 1
SPECIFICATION Spec
INVARIANT AnAdminStays
CHECK_DEADLOCK FALSE
