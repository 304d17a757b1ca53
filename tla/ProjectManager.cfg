SPECIFICATION Spec
CONSTANTS
    here = here
    other = other
    Managers = {m1, m2}
    Port <- OnePort
    Projects = {here, other}
    Lists <- BothOrOne
    Workers = {1, 2, 3}
    Threads = {t1, t2}
    Kinds = {"open", "resume", "close", "pause", "delete", "register"}
    None = None
    MaxCalls = 3
    Budget <- OneOfEach
    MaxEvents = 2
SYMMETRY Symmetry
INVARIANTS ServesActive  NoOrphan
PROPERTIES PausedStaysOpen
CHECK_DEADLOCK FALSE
