SPECIFICATION FairSpec
CONSTANTS
    s1 = s1
    s2 = s2
    None = None
    Streams = {s1, s2}
    Contents <- AllContents
    InitContent <- Good
    EditsAtBoot = FALSE
    MaxEdits = 3
    MaxRestarts = 1
INVARIANTS
    RestsOnlyWhenApplied
PROPERTIES
    StreamsMatchListeners
    EventuallyApplied
CHECK_DEADLOCK FALSE
