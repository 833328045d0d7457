SPECIFICATION Spec
CONSTANTS
    i1 = i1
    i2 = i2
    w1 = w1
    w2 = w2
    None = None
    Items <- MCItems
    Workers <- MCWorkers
    PerSec = 1
    Fractions = 2
    LastSecond = 3
    MaxFaults = 1
SYMMETRY MCSymmetry
INVARIANTS TypeOK WindowLimit BurstBounded RetriesMeetNewWindow CountersExpire
