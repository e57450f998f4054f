--------------------------- MODULE MCResidentPool ---------------------------
EXTENDS ResidentPool
CONSTANTS k1, k2
KeySymmetry == Permutations(PoolKeys)
=============================================================================
