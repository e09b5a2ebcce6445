----------------------------- MODULE MCDocStore -----------------------------
EXTENDS DocStore

CONSTANTS c1, c2, v1, v2
=============================================================================
