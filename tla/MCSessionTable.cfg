SPECIFICATION Crowded
CONSTANTS
    s1 = s1
    s2 = s2
    e1 = e1
    e2 = e2
    Session = {s1, s2}
    Endpoint = {e1, e2}
    MaxSessions = 1
    TTL = 1
    None = None
PROPERTY TableCatchesUp
