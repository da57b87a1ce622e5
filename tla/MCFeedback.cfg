CONSTANTS
    Nothing = Nothing
    Key = {k1}
    Content = {x1, x2}
    Client = {c1, c2}
    Moderator = {m1, m2}
    Builder = {b1, b2}
    MaxVersion = 3
    MaxAudits = 3
    MaxDatasets = 2
SYMMETRY Interchangeable
SPECIFICATION FeedbackSpec
INVARIANTS
    AuditInOrder
    SamplesAreTraceable
PROPERTIES
    VersionsCount
CHECK_DEADLOCK FALSE
