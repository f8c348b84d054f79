--------------------------- MODULE MCCodexServer ---------------------------
EXTENDS CodexServer
CONSTANTS s1, k1
OneStarter == {s1}
OneKeeper == {k1}
=============================================================================
