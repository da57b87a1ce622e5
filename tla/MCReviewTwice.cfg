CONSTANTS
    User = {u1}
    ImportKey = {}
    Text = {x1}
    Date = {"before", "since"}
    Poster = {p1, p2}
    Approver = {a1}
    Importer = {}
    Worker = {w1}
    Clerk = {c1}
    MaxReviews = 2
    MaxId = 6
    MaxReplies = 1
SYMMETRY Interchangeable
SPECIFICATION Spec
INVARIANTS
    OneReviewPerText
CHECK_DEADLOCK FALSE
