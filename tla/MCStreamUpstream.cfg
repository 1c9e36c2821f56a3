SPECIFICATION Spec
CONSTANTS
    c1 = c1
    c2 = c2
    Conns = {c1, c2}
    NumServers = 2
    Label <- DistinctLabels
    Cooldown = 1
    MaxTime = 2
    MaxPicks = 3
    MaxReloads = 1
INVARIANTS
    CleanSlotConsistent
    NoSteadySlotSkipped
SYMMETRY ConnSymmetry
CHECK_DEADLOCK FALSE
