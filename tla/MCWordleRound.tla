--------------------------- MODULE MCWordleRound ---------------------------
EXTENDS WordleRound

CONSTANTS h1, h2, crane, slate
=============================================================================
