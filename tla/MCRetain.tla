----------------------------- MODULE MCRetain -----------------------------
\* Instances of Retain for TLC.
EXTENDS Retain

CONSTANTS p, q

MCValues == {0, 1}
=============================================================================
