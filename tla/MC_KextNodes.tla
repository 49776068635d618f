---------------------------- MODULE MC_KextNodes ----------------------------
(* Model values and symmetry for KextNodes.                                *)
EXTENDS KextNodes, TLC

CONSTANTS t1, t2, t3, d1, d2, f1, f2, b1, b2, b3, v1, v2, v3

Symmetric ==
    Permutations(Threads) \cup Permutations(Dirs) \cup Permutations(Files)
        \cup Permutations(Nodes) \cup Permutations(Vnodes)
=============================================================================
