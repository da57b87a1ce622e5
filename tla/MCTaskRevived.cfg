CONSTANTS
    NoOne = NoOne
    NoTask = NoTask
    Job = {j1}
    Evaluation = {e1}
    Worker = {w1}
    MaxFaults = 0
SPECIFICATION Spec
PROPERTIES
    ImplementsLifecycle
CHECK_DEADLOCK FALSE
