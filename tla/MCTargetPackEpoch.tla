-------------------------- MODULE MCTargetPackEpoch --------------------------
EXTENDS TargetPackEpoch, TLC
CONSTANTS p1, p2, p3
Symmetry == Permutations({p1, p2, p3})
=============================================================================
