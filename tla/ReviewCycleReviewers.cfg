SPECIFICATION FairSpec
CONSTANTS
    Developers = {d1}
    Reviewers = {r1, r2}
    Ledgers = {l1, l2}
    Calls = {k1}
    None = None
    MaxCommits = 2
    MaxCycles = 1
    MaxTroubles = 2
INVARIANTS TypeOK AuthorizedClaim PassIsCertified
PROPERTY OrphanCleared
CHECK_DEADLOCK FALSE
