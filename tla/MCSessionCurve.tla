--------------------------- MODULE MCSessionCurve ---------------------------
EXTENDS SessionCurve, TLC
CONSTANTS b1, b2
MCBuilders == {b1, b2}
Symmetric == Permutations(MCBuilders)
=============================================================================
