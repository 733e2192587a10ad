\* A prompt of 500 tokens: 5 s for an attempt, a budget of 12 s.
SPECIFICATION FairSpec
CONSTANTS
    e1 = e1
    e2 = e2
    Endpoint = {e1, e2}
    HostOf <- Hosts
    Tokens = 500
    CommandCode = {e2}
    Translated = {e2}
    Patience <- Patient
    ProxyTries <- Proxied
    ChainLength = 1
    Waits = {3}
    StreamIdle = 30
    Slack = 1
    Stall = 10
    Text = {"a", "b"}
    MaxText = 2
    None = None
INVARIANTS
    InterruptionBounded
    OneTerminator
    ReplayNeverInvents
    NoRerunAfterOutput
PROPERTY StreamEnds
