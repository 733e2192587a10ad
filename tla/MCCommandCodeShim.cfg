SPECIFICATION Spec
CONSTANTS
    Request = {r1, r2}
    k1 = k1
    k2 = k2
    Key = {k1, k2}
    Keys <- BothOrOne
    Caps = {0, 1}
    MaxOut = 2
    None = None
INVARIANT OneCleanAnswer
PROPERTY NobodyStarves
