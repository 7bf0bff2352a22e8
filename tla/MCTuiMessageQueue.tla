------------------------- MODULE MCTuiMessageQueue --------------------------
EXTENDS TuiMessageQueue

CONSTANTS w1, w2, r1, r2, b1, b2, b3

MCWriters == {w1, w2}
MCReaders == {r1, r2}
MCBlock == {b1, b2, b3}
MCTotals == {5}
=============================================================================
