----------------------------- MODULE MC_TestTlc -----------------------------
EXTENDS TestTlc

CONSTANTS c, f1
=============================================================================
