CONSTANTS
    NoOne = NoOne
    Socket = {s1}
    Request = {q1}
    MaxServed = 1
SPECIFICATION FairSpec
PROPERTY RequestIsAnswered
CHECK_DEADLOCK FALSE
