CONSTANTS
    NoOne = NoOne
    Socket = {s1, s2}
    Request = {q1, q2}
    MaxServed = 2
SPECIFICATION FairSpec
INVARIANTS
    GeneratorComesBack
    ReplayIsStored
PROPERTIES
    DisconnectEndsTasks
CHECK_DEADLOCK FALSE
