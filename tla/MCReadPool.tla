----------------------------- MODULE MCReadPool -----------------------------
EXTENDS ReadPool, TLC
CONSTANTS t1, t2, t3, t4, w1, w2, c1, c2

PoolSymmetry == Permutations(Task) \cup Permutations(Worker) \cup Permutations(Caller)
=============================================================================
