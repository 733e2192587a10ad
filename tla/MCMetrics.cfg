SPECIFICATION MetricsSpec
CONSTANTS
    Label = {l1, l2, l3, l4}
    Bucket = Bucket
    Recorder = {r1, r2}
    LabelCaps = {3, 4}
    MaxAttempts = 4
    MaxCounts = 2
    NoTick = NoTick
    Torn = Torn
    Spoilt = Spoilt
    RingLen = 3
    LastMinute = 4
    MaxObs = 3
    MaxLines = 3
SYMMETRY Symmetry
INVARIANTS
    NothingLost
    CapHeld
    WindowIsRecent
    KeptUnlessRaced
