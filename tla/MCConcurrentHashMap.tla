------------------------- MODULE MCConcurrentHashMap -------------------------
EXTENDS ConcurrentHashMapProofs

CONSTANTS k1, k2, k3, v1, v2, t1, t2

MCKey == {k1, k2, k3}
\* k1 and k2 share a bucket and a lock; k3 has a bucket and a lock of its own.
MCHash == [k \in MCKey |-> CASE k = k1 -> 0 [] k = k2 -> 2 [] k = k3 -> 1]
MCValue == {v1, v2}
MCThread == {t1, t2}
=============================================================================
