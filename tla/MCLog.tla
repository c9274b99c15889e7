------------------------------- MODULE MCLog --------------------------------
(* Three callers, one that writes up to two blocks in a call, and room for *)
(* two of them at a time.                                                  *)
EXTENDS Log, TLC
CONSTANTS b1, b2, b3, b4, p1, p2, p3
MCBlocks == {b1, b2, b3, b4}
MCCallers == {p1, p2, p3}
MCOpBlocks == [p \in MCCallers |-> IF p = p1 THEN 2 ELSE 1]
MCValues == {0, 1}
MCSymmetry == Permutations(MCBlocks) \cup Permutations({p2, p3})
=============================================================================
