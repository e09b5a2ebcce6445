--------------------------- MODULE MCStockDividend ---------------------------
EXTENDS StockDividend

CONSTANTS w1, w2, NotHeld
=============================================================================
