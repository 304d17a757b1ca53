SPECIFICATION Spec
CONSTANTS
    Agents = {a1, a2, a3}
    Tasks = {t}
    Awaiting = Awaiting
    None = None
    MaxLive = 2
    MaxHandoffs = 1
    MaxEvents = 3
    Budget <- TakeoverBudget
SYMMETRY Symmetry
INVARIANTS SupersededReadOnly 
CHECK_DEADLOCK FALSE
