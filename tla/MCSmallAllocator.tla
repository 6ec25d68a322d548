--------------------------- MODULE MCSmallAllocator ---------------------------
(* Chunks of two blocks, at most four blocks in use at a time; two threads    *)
(* that allocate and give back. SmallAllocator.cfg follows a behaviour for as  *)
(* long as InTurn, since its properties say nothing of what comes after.       *)
EXTENDS SmallAllocator

CONSTANTS t1, t2, c1, c2, c3

MCThreads == {t1, t2}
MCChunks == {c1, c2, c3}

InTurn == ~overlapped
=============================================================================
