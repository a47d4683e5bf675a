----------------------------- MODULE MCPyEval -----------------------------
\* An instance of PyEval for TLC.
EXTENDS PyEval

CONSTANTS f1, f2, k1, k2

\* CODE of a block that polls is constant, that of the other one changes.
MCCodesOf == [f \in FBs |-> IF f \in PollFBs THEN {k1} ELSE Codes]
=============================================================================
