SPECIFICATION OneOrTheOther
CONSTANTS
    TransientBase = 1
    GatewayTimeoutBase = 1
    TimeoutBase = 1
    AuthBase = 1
    MissingBase = 1
    ProtocolBan = 1
    MaxCooldown = 1
    SoftBan = 1
    HardBan = 1
    SoftBanAfter = 2
    HardBanAfter = 2
    ErrorCap = 2
    JitterPercent = 0
    Endpoint = {e1}
    Host = {h1}
    HostOf <- OnTheSameHost
    Attempt = {a1}
    Failure <- Throttled
    RetryAfters = {0}
    Thresholds = {2}
    ProbeBudgets = {1}
INVARIANTS
    CooldownRowsAreTracked
    RestartKeepsWindows
PROPERTIES
    
    NeverDarkAfterRestart
