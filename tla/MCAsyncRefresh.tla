--------------------------- MODULE MCAsyncRefresh ---------------------------
EXTENDS AsyncRefresh
CONSTANTS w1, w2, t1, k1, k2
MCWorkers == {w1, w2}
MCThreads == {w1, w2, t1}
MCTokens == {k1, k2}
=============================================================================
