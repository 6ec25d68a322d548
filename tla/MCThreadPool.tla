----------------------------- MODULE MCThreadPool -----------------------------
(* A pool of one thread that may grow to two, three ids of threads, a queue of *)
(* two places, and three calls of submit, in either mode.                      *)
EXTENDS ThreadPool

CONSTANTS w1, w2, w3, t1, t2, t3
MCWorkers == {w1, w2, w3}
MCTasks   == {t1, t2, t3}
BothModes == {MODE_FIXED, MODE_CACHED}
CachedMode == {MODE_CACHED}
=============================================================================
