----------------------------- MODULE MCService -----------------------------
EXTENDS Service
CONSTANTS t1, t2, i1
MCThreads == {t1, t2}
MCOneThread == {t1}
MCItems == {i1}
MCCallsOf == [t \in Threads |-> IF t = t1 THEN Operations ELSE {delete}]
=============================================================================
