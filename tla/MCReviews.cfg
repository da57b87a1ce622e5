CONSTANTS
    User = {u1}
    ImportKey = {f1}
    Text = {x1, x2}
    Date = {"since"}
    Poster = {p1}
    Approver = {a1}
    Importer = {i1}
    Worker = {w1}
    Clerk = {c1}
    MaxReviews = 2
    MaxId = 6
    MaxReplies = 1
SYMMETRY Interchangeable
SPECIFICATION Spec
INVARIANTS
    AnalysedIsPublished
    RepliesFit
PROPERTIES
    DecisionsStand
CHECK_DEADLOCK FALSE
