---- MODULE MCHybridClock ----
EXTENDS HybridClock, TLC
MCJumps == {-10}
MCNever == -1000
NodeSymmetry == Permutations(Nodes)
====
