SPECIFICATION Spec
CONSTANTS
    a = a
    b = b
    Absent = Absent
    Cloud = 1
    Nodes <- TheNodes
    Specs <- TheSpecs
    Drifts = {"data"}
    MaxEdits = 2
    MaxRoutes = 0
    MaxDrifts = 1
    MaxFaults = 1
    MaxPodFailures = 1
    MaxRestarts = 0
    MaxTroubles = 4
INVARIANTS
    ProgrammedIsBuilt
    NoOneCycleLie
    RestsOnlyWhenBuilt
