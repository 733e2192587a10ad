\* A prompt of 500 tokens: 5 s for an attempt, a budget of 12 s.
SPECIFICATION Spec
CONSTANTS
    e1 = e1
    e2 = e2
    e3 = e3
    Endpoint = {e1, e2, e3}
    HostOf <- Hosts
    Tokens = 500
    CommandCode = {e1}
    Patience <- Patient
    ProxyTries <- Proxied
    ChainLength = 2
    Waits = {2, 9}
    Pauses = {0, 1}
    Slack = 1
    None = None
INVARIANTS
    SilenceBounded
    SentOnce
    ChargedOnce
