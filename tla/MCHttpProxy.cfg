SPECIFICATION Spec
CONSTANTS
    a = a
    b = b
    Absent = Absent
    Unresolvable = Unresolvable
    Asked <- TheAsked
    Requests = {1, 2}
    MaxVersion = 4
    Configs <- TheConfigs
    MaxRetries = 1
INVARIANTS
    QuietRequestsServedByOne
    RequestGaugesExact
