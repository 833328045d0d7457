SPECIFICATION Spec
CONSTANTS
    Notif = {n1, n2}
    FutureDated = {}
    Keys = {k1}
    KeyOf <- OneKey
    PriorityOf <- TwoPriorities
    Workers = {w1, w2}
    Promoters = {p1, p2}
    RetryPromoters = {p1, p2}
    Source <- Sources
    Cancellers = {x1}
    MaxAttempts = 3
    MaxFaults = 2
    None = None
    n1 = n1
    n2 = n2
    k1 = k1
    w1 = w1
    w2 = w2
    p1 = p1
    p2 = p2
    x1 = x1
SYMMETRY SymmetricRequests
INVARIANTS SingleToken
PROPERTIES Contract
