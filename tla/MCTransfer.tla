---------------------------- MODULE MCTransfer ----------------------------
\* Instances of Transfer for TLC.  One build has an extra file that the other has not.
EXTENDS Transfer, TLC

CONSTANTS i1, i2, b1, b2, x, y

MCFiles == (b1 :> {x, y}) @@ (b2 :> {x})

Symmetry == Permutations(Ides)
=============================================================================
