SPECIFICATION BatchSpec
CONSTANTS
    Notif = {n1, n2, n3, n4}
    FutureDated = {n2}
    Keys = {k1, k2}
    KeyOf <- TheKeys
    PriorityOf <- AllNormal
    Workers = {}
    Promoters = {}
    Source <- NoSources
    Cancellers = {}
    MaxAttempts = 1
    MaxFaults = 1
    None = None
    Batches = {b1, b2, b3}
    ItemsOf <- TheItems
    MaxBatchSize = 2
    Wishes <- TheWishes
    MaxLength <- TheLimits
    Body <- TheBody
    NoTemplate = NoTemplate
    n1 = n1
    n2 = n2
    n3 = n3
    n4 = n4
    b1 = b1
    b2 = b2
    b3 = b3
    k1 = k1
    k2 = k2
    t1 = t1
INVARIANTS BatchTypeOK SameKeySameNotification SuccessIsStored RefusedLeavesNothing BatchIsPrefix BatchAccounted StoredFits
