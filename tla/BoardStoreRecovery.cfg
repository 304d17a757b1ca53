SPECIFICATION Spec
CONSTANTS
    Writers = {w1}
    Requests = {q}
    Agents = {}
    None = None
    Absent = Absent
    Corrupt = Corrupt
    BackupEvery = 2
    Keep = 3
    MaxPerTxn = 2
    MaxStamps = 5
    MaxCrashes = 2
    MaxLosses = 2
    MaxCancels = 1
    TornWrites = TRUE
SYMMETRY Symmetry
INVARIANTS RecoveryBounded
