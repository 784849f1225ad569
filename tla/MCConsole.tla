----------------------------- MODULE MCConsole -----------------------------
EXTENDS Console

CONSTANTS k1, k2

MCKeys == {k1, k2}
=============================================================================
