SPECIFICATION FairSpec
CONSTANTS
    c1 = c1
    c2 = c2
    Conns = {c1, c2}
    MaxConnections = 1
    DrainTimeout = 2
    UseSockmap = TRUE
    Snis <- Peeked
    NoName = NoName
    Invalid = Invalid
    NoSource = NoSource
    SocketAddrs <- TheAddrs
    W = 4
    RouteOf <- MCRouteOf
    UpstreamNames <- MCNames
    NoUpstream = NoUpstream
    MaxReloads = 2
INVARIANTS
    ConnectionLimit
    CountersExact
    DrainedMeansQuiet
    SnapshotFresh
    UnknownUpstreamOnlyIfTorn
PROPERTIES
    ImplementsAdmission
    ShutdownReturns
CHECK_DEADLOCK FALSE
