CONSTANTS
    Nothing = Nothing
    Key = {k1}
    Content = {x1, x2}
    Client = {c1}
    Moderator = {m1}
    Builder = {b1}
    MaxVersion = 3
    MaxAudits = 3
    MaxDatasets = 1
SYMMETRY Interchangeable
SPECIFICATION FeedbackSpec
INVARIANTS
    SamplesAreAuthorised
CHECK_DEADLOCK FALSE
