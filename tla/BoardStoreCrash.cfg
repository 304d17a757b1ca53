SPECIFICATION Spec
CONSTANTS
    Writers = {w1, w2}
    Requests = {q}
    Agents = {a}
    None = None
    Absent = Absent
    Corrupt = Corrupt
    BackupEvery = 3
    Keep = 2
    MaxPerTxn = 2
    MaxStamps = 4
    MaxCrashes = 2
    MaxLosses = 0
    MaxCancels = 0
    TornWrites = FALSE
SYMMETRY Symmetry
INVARIANTS TypeOK LogComplete ColdOnce
PROPERTIES IsAtomicBoard
