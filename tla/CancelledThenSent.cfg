SPECIFICATION Spec
CONSTANTS
    Notif = {n1}
    FutureDated = {}
    Keys = {}
    KeyOf <- NoKeys
    PriorityOf <- TwoPriorities
    Workers = {w1}
    Promoters = {p1}
    RetryPromoters = {p1}
    Source <- Sources
    Cancellers = {x1}
    MaxAttempts = 1
    MaxFaults = 0
    None = None
    n1 = n1
    w1 = w1
    p1 = p1
    x1 = x1
PROPERTIES CancelledNotSent
