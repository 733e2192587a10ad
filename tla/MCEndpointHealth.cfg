SPECIFICATION Spec
CONSTANTS
    TransientBase = 1
    GatewayTimeoutBase = 1
    TimeoutBase = 2
    AuthBase = 2
    MissingBase = 3
    ProtocolBan = 3
    MaxCooldown = 2
    SoftBan = 3
    HardBan = 4
    SoftBanAfter = 2
    HardBanAfter = 3
    ErrorCap = 3
    JitterPercent = 0
    Endpoint = {e1, e2}
    Host = {h1}
    HostOf <- OnTheSameHost
    Attempt = {a1, a2}
    Failure <- AllFailures
    RetryAfters = {0, 3}
    Thresholds = {2}
    ProbeBudgets = {1, 2}
SYMMETRY Symmetry
INVARIANTS
    MatchesDocumentedTable
    HalfOpenNeverCooling
    ProbesArePaidFor
    TrippedMeansFailing
PROPERTY ImplementsBreaker
