----------------------------- MODULE MCRenderer -----------------------------
\* Two commands and one slot, as in the code.
EXTENDS Renderer
=============================================================================
