---------------------------- MODULE MCThrottling ----------------------------
EXTENDS Throttling, TLC

CONSTANTS i1, i2, w1, w2

MCItems == {i1, i2}
MCWorkers == {w1, w2}

MCSymmetry == Permutations(MCItems) \cup Permutations(MCWorkers)
=============================================================================
