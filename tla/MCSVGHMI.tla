----------------------------- MODULE MCSVGHMI -----------------------------
\* Instances of SVGHMI for TLC.
EXTENDS SVGHMI, TLC

CONSTANTS a, b, c1, c2

MCIndexes == 0..1
Symmetry == Permutations(Items) \cup Permutations(Connections)
=============================================================================
