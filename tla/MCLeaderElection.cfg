SPECIFICATION FairElectionSpec
CONSTANTS
    r1 = r1
    r2 = r2
    Replicas = {r1, r2}
    NoHolder = NoHolder
    LeaseDuration = 2
    RenewEvery = 1
    MaxLag = 2
    Crashable = {r1}
    MaxFaults = 2
INVARIANTS
    UniqueUnlessContended
    ClaimIsBacked
PROPERTIES
    NoTheftOfLiveLease
    LeaderEmerges
