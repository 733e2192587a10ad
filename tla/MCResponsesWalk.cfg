\* A prompt of 500 tokens: 5 s for an attempt, a budget of 12 s.
SPECIFICATION FairSpec
CONSTANTS
    Surfaces = {"json", "sse", "ws"}
    e1 = e1
    e2 = e2
    Endpoint = {e1, e2}
    HostOf <- Hosts
    Tokens = 500
    CommandCode = {e2}
    Foreign = {e2}
    Patience <- Patient
    ProxyTries <- Proxied
    ChainLength = 1
    Waits = {3}
    StreamIdle = 4
    Slack = 1
    MaxCalls = 2
    None = None
INVARIANTS
    OneWholeResponse
    SilenceBounded
PROPERTIES
    EventuallyAnswered
    ImplementsFallback
