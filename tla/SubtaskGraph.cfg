SPECIFICATION Spec
CONSTANTS
    Subtasks = {a, b}
    Paths = {p, q}
    Scopes <- AnyScope
    Nobody = Nobody
    MaxCommits = 1
    MaxReviews = 3
    Budget <- OneOfEach
    MaxTroubles = 2
SYMMETRY Symmetry
INVARIANTS PassedIsInHistory FinalDiffStands BaseStands
PROPERTIES HandEditKept
CHECK_DEADLOCK FALSE
