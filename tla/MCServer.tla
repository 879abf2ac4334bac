------------------------------ MODULE MCServer ------------------------------
(* Bounded instances of Server.                                            *)
EXTENDS Server, TLC
CONSTANTS c1, c2
ConnSymmetry == Permutations(Conn)
=============================================================================
