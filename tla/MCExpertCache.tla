--------------------------- MODULE MCExpertCache ---------------------------
EXTENDS ExpertCache, TLC
CONSTANTS k1, k2, k3, k4, b1, b2, b3

CacheSymmetry == Permutations(Key) \cup Permutations(Buf)
=============================================================================
