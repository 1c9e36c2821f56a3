SPECIFICATION Spec
CONSTANTS
    Absent = Absent
    Keys <- TheKeys
    Worlds <- TheWorlds
    Requests <- TheRequests
    ServerNames <- TheNames
INVARIANTS
    StoreFollowsApi
    RenderedLoads
    SecretsOnDisk
PROPERTIES
    RequestsReachOwnBackends
    EventuallyJudged
    EventuallyRendered
