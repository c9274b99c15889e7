------------------------------ MODULE MCBcache ------------------------------
(* Two processes and a pinned block need three buffers; there are four     *)
(* blocks to compete for them.                                             *)
EXTENDS Bcache, TLC
CONSTANTS p1, p2, k1, k2, k3, k4
MCProcs == {p1, p2}
MCBlocks == {k1, k2, k3, k4}
MCSymmetry == Permutations(MCProcs) \cup Permutations(MCBlocks)
=============================================================================
