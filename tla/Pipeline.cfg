SPECIFICATION Spec
CONSTANTS
    Notif = {n1, n2}
    FutureDated = {n2}
    Keys = {}
    KeyOf <- NoKeys
    PriorityOf <- TwoPriorities
    Workers = {w1, w2}
    Promoters = {p1, p2}
    RetryPromoters = {p1}
    Source <- Sources
    Cancellers = {x1}
    MaxAttempts = 2
    MaxFaults = 1
    None = None
    n1 = n1
    n2 = n2
    w1 = w1
    w2 = w2
    p1 = p1
    p2 = p2
    x1 = x1
SYMMETRY Symmetric
INVARIANTS TypeOK SingleToken LossesBounded SendsBounded AttemptsMatchAudit RowTellsOutcome
PROPERTIES Contract SettledIsFinal PromotedOnlyWhenDue
