SPECIFICATION Spec
CONSTANTS
    Unset = Unset
    NumCerts = 2
    Lifetime = 4
    RenewBefore = 2
    FaultKinds = {"obtain", "write", "read", "crash"}
    MaxTime = 7
    MaxSerial = 6
    MaxFaults = 3
INVARIANTS
    AllDomainsServed
    TornIsRenewed
    SleepServesDisk
CHECK_DEADLOCK FALSE
