SPECIFICATION Spec
CONSTANTS
    p1 = p1
    p2 = p2
    m1 = m1
    m2 = m2
    t1 = t1
    t2 = t2
    s1 = s1
    Projects = {p1, p2}
    Machines = {m1, m2}
    Requests = {t1, t2}
    Stoppers = {s1}
    None = None
    Overlapping = FALSE
    MaxCalls = 3
    MaxTroubles = 2
SYMMETRY Symmetry
INVARIANTS TypeOK    EvidenceStands
PROPERTIES StoppedNeverPublishes
CHECK_DEADLOCK FALSE
