SPECIFICATION FairSpec
CONSTANTS
    l1 = l1
    l2 = l2
    c1 = c1
    c2 = c2
    NoGateway = NoGateway
    NoRoute = NoRoute
    WholeGateway = WholeGateway
    Kind = "HTTPRoute"
    GatewaySpecs <- SomeGateways
    RouteSpecs <- WelcomeRoutes
    Deletions = {"background", "foreground"}
    MaxEdits = 2
    MaxFaults = 1
    MaxRestarts = 1
INVARIANTS
    QuietStoreCurrent
PROPERTIES
    StoreNeverGoesBack
    EventuallyAccurate
    StatusQuiesces
CHECK_DEADLOCK FALSE
