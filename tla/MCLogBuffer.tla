---------------------------- MODULE MCLogBuffer ----------------------------
\* Instances of LogBuffer for TLC.
EXTENDS LogBuffer

CONSTANTS plc, job

MCSizes == {1, 2}
=============================================================================
