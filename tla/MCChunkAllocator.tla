--------------------------- MODULE MCChunkAllocator ---------------------------
(* Three threads, five addresses, blocks of one and of two units, and a cache *)
(* of at most three.                                                          *)
EXTENDS ChunkAllocator, TLC

CONSTANTS t1, t2, t3, b1, b2, b3, b4, b5

MCThreads == {t1, t2, t3}
MCBlocks == {b1, b2, b3, b4, b5}
MCSizes == {1, 2}

\* Threads and addresses are interchangeable.
Symmetry == Permutations(MCThreads) \cup Permutations(MCBlocks)
=============================================================================
