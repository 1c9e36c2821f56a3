SPECIFICATION FairSpec
CONSTANTS
    c1 = c1
    c2 = c2
    None = None
    Certs = {c1, c2}
    MaxSerial = 2
    ChangesAtBoot = FALSE
    InPlace = TRUE
    LinkSwaps = {c2}
    Mixed = TRUE
INVARIANTS
    QuietMeansCurrent
PROPERTIES
    EventuallyServed
CHECK_DEADLOCK FALSE
