SPECIFICATION Spec
CONSTANTS
    Agents = {a1, a2}
    Tasks = {t1, t2}
    Awaiting = Awaiting
    None = None
    MaxLive = 2
    MaxHandoffs = 1
    MaxEvents = 3
    Budget <- OwnerBudget
SYMMETRY Symmetry
  
PROPERTIES PauseRoundTrip
CHECK_DEADLOCK FALSE
