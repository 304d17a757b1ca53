SPECIFICATION Spec
CONSTANTS
    Developers = {d1, d2}
    Reviewers = {r1}
    Ledgers = {l1}
    Calls = {k1, k2}
    None = None
    MaxCommits = 2
    MaxCycles = 2
    MaxTroubles = 1
SYMMETRY Symmetry
INVARIANTS OneActiveReview
PROPERTY SettledVerdictKept
CHECK_DEADLOCK FALSE
