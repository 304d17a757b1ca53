SPECIFICATION Spec
CONSTANTS
    t1 = t1
    None = None
    TaskOrder <- OneTask
    Presses = {p1, p2}
    Others = {}
    MaxVersions = 2
    MaxOwner = 1
    MaxJournal = 2
    MaxTroubles = 2
    Kinds = {"die", "edit", "owner", "reset", "fail", "reject"}
INVARIANTS
    AcceptedInMain
    SealedCopies
PROPERTIES
    NothingLost
CHECK_DEADLOCK FALSE
