---------------------------- MODULE MCTargetPack ----------------------------
EXTENDS TargetPack, TLC
CONSTANTS p1, p2, absent, seed, mine, ours, other
Symmetry == Permutations({p1, p2})
=============================================================================
