SPECIFICATION FairSpec
CONSTANTS
    a = a
    b = b
    Absent = Absent
    Cloud = 1
    Nodes <- TheNodes
    Specs <- TwoShapes
    Drifts = {"template", "delete", "foreign"}
    MaxEdits = 1
    MaxRoutes = 1
    MaxDrifts = 1
    MaxFaults = 0
    MaxPodFailures = 0
    MaxRestarts = 1
    MaxTroubles = 2
PROPERTIES
    EventuallyProgrammed
