SPECIFICATION Spec
CONSTANTS
    Notif = {n1, n2}
    FutureDated = {}
    Keys = {k1}
    KeyOf <- OneKey
    PriorityOf <- TwoPriorities
    Workers = {w1}
    Promoters = {p1}
    RetryPromoters = {p1}
    Source <- Sources
    Cancellers = {}
    MaxAttempts = 1
    MaxFaults = 0
    None = None
    n1 = n1
    n2 = n2
    k1 = k1
    w1 = w1
    p1 = p1
INVARIANTS DuplicateReturnsOriginal
