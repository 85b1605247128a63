---------------------------- MODULE MCLiveOrders ----------------------------
EXTENDS LiveOrders, TLC
CONSTANTS s1, s2, r1, r2
Symmetry == Permutations(Submitters) \cup Permutations(Reconcilers)
\* No guard and no checked property reads the mirror.
View == <<durable, resv, healthy, outside, pc, job, snap, crashes, handlerFails>>
=============================================================================
