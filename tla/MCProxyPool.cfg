SPECIFICATION FairSpec
CONSTANTS
    p1 = p1
    p2 = p2
    Proxy = {p1, p2}
    Request = {r1}
    Lists <- Changing
    Answers <- Anything
    Latencies = {1, 2}
    Required = 1
    MaxProbes = 1
    Interval = 1
    ProbeTimeout = 0
    ReadyTTL = 1
    DownTime = 1
    None = None
INVARIANTS
    NothingKeptOfDropped
PROPERTIES
    PickIsBest
    ReadyRefilled
