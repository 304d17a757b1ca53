SPECIFICATION FairSpec
CONSTANTS
    s1 = s1
    s2 = s2
    m1 = m1
    m2 = m2
    None = None
    Chain <- TwoSessions
    MessageOrder <- TwoMessages
    Wakes <- FirstIsWake
    Channels = {"inbox", "hook", "app-server", "typed"}
    MaxFailures = 2
    MaxTroubles = 3
    Kinds <- Disturbed
INVARIANTS  ReadOnce
PROPERTIES TakenBackStaysOut Arrives
CHECK_DEADLOCK FALSE
