SPECIFICATION Spec
CONSTANTS
    Notif = {n1}
    FutureDated = {}
    Keys = {}
    KeyOf <- NoKeys
    PriorityOf <- TwoPriorities
    Workers = {w1, w2}
    Promoters = {p1, p2}
    RetryPromoters = {p1, p2}
    Source <- Sources
    Cancellers = {}
    MaxAttempts = 3
    MaxFaults = 0
    None = None
    n1 = n1
    w1 = w1
    w2 = w2
    p1 = p1
    p2 = p2
PROPERTIES PromotedOnlyWhenDue
