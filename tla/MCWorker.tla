----------------------------- MODULE MCWorker -----------------------------
\* Instances of Worker for TLC.
EXTENDS Worker

CONSTANTS c1, c2, c3
=============================================================================
