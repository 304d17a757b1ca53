SPECIFICATION FairSpec
CONSTANTS
    t1 = t1
    None = None
    TaskOrder <- OneTask
    Presses = {p1}
    Others = {"other"}
    MaxVersions = 2
    MaxOwner = 1
    MaxJournal = 2
    MaxTroubles = 3
    Kinds = {"network", "remote", "retry", "reconcile", "owner"}

    
PROPERTIES
    UploadSettles
    
CHECK_DEADLOCK FALSE
