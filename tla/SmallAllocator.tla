---------------------------- MODULE SmallAllocator ----------------------------
(***************************************************************************)
(* mmrUtil::FixedAllocator, of which SmallAllocator keeps one per size: a  *)
(* list of chunks, each a lock-free stack of the indices of its free       *)
(* blocks. The first byte of a free block is the index below it; a block   *)
(* in use belongs to its user, first byte included.                        *)
(*                                                                         *)
(* Every access to the stack's head or to the count of a chunk is a step   *)
(* of its own.  m_ptrAllocChunk is written under m_mutexChunks and read    *)
(* without it (190, 212).  The walk for a chunk to allocate from (194-210) *)
(* is one step; releaseFreeMemory looks at one chunk per step and holds    *)
(* the mutex while `scan' is not empty.                                    *)
(*                                                                         *)
(* Threads outside Allocators give blocks back only: make_shared on one    *)
(* thread, the last reference dropped on another. Blocks have at most 32   *)
(* bytes, so that a chunk has UCHAR_MAX of them, the largest count.        *)
(***************************************************************************)
EXTENDS Integers, Sequences, FiniteSets, SequencesExt

CONSTANTS
  Threads, Allocators,
  Chunks,               \* addresses of chunks
  UCHAR_MAX,            \* the largest byte, and m_numBlocks
  MaxInUse,             \* bound: blocks asked for or in use at a time
  NoChunk, NoBlock

ASSUME SmallAssumption ==
  /\ Allocators \subseteq Threads /\ IsFiniteSet(Threads)
  /\ UCHAR_MAX \in Nat \ {0} /\ MaxInUse \in Nat
  /\ NoChunk \notin Chunks /\ NoBlock \notin Nat

m_numBlocks == UCHAR_MAX
Bytes == 0..UCHAR_MAX
Indices == 0..(m_numBlocks - 1)
UserData == UCHAR_MAX + 1     \* a first byte that belongs to the block's user

VARIABLES
  m_listChunks,
  m_ptrAllocChunk,
  head,         \* m_availaBlockCurr of each chunk
  count,        \* m_availaBlockNum of each chunk
  next,         \* the first byte of each block of each chunk
  held,         \* blocks in use, as pairs of chunk and index
  scan,         \* chunks that releaseFreeMemory has still to look at
  pc, chunk,    \* of each thread: where it is, and the chunk it works on,
  block,        \* ... current_avail or block_index,
  below,        \* ... next_avail
  overlapped    \* history: two threads have been in allocate at the same time

chunkVars == <<head, count, next>>
listVars == <<m_listChunks, m_ptrAllocChunk, scan>>
vars == <<listVars, chunkVars, held, pc, chunk, block, below, overlapped>>

Init ==
  /\ m_listChunks = <<>> /\ m_ptrAllocChunk = NoChunk /\ scan = <<>>
  /\ head = [c \in Chunks |-> 0] /\ count = [c \in Chunks |-> 0]
  /\ next = [c \in Chunks |-> [b \in Indices |-> UserData]]
  /\ held = {}
  /\ pc = [t \in Threads |-> "idle"]
  /\ chunk = [t \in Threads |-> NoChunk]
  /\ block = [t \in Threads |-> NoBlock]
  /\ below = [t \in Threads |-> NoBlock]
  /\ overlapped = FALSE

Listed == ToSet(m_listChunks)
Goto(t, from, to) == pc[t] = from /\ pc' = [pc EXCEPT ![t] = to]

\* Threads that are allocating, and those that are giving a block back.
Allocating == {t \in Threads : pc[t] \in {"test", "find", "take", "load",
                                          "read", "cas", "uncount"}}
Giving == {t \in Threads : pc[t] \in {"push", "count"}}

----------------------------------------------------------------------------
(* FixedAllocator::allocate *)

Ask(t) ==
  /\ Goto(t, "idle", "test")
  /\ t \in Allocators
  /\ Cardinality(held) + Cardinality(Allocating \cup Giving) < MaxInUse
  /\ overlapped' = (overlapped \/ Allocating # {})
  /\ UNCHANGED <<listVars, chunkVars, held, chunk, block, below>>

TestChunk(t) ==                                                \* line 190
  /\ LET none == m_ptrAllocChunk = NoChunk
     IN Goto(t, "test", IF none THEN "find"
                        ELSE IF count[m_ptrAllocChunk] = 0 THEN "find"
                        ELSE "take")
  /\ UNCHANGED <<listVars, chunkVars, held, chunk, block, below, overlapped>>

FindAndForget(t) ==       \* a slip: line 207 is missing
  /\ Goto(t, "find", "take")
  /\ scan = <<>>
  /\ \E i \in DOMAIN m_listChunks : count[m_listChunks[i]] > 0
  /\ UNCHANGED <<listVars, chunkVars, held, chunk, block, below, overlapped>>

\* Lines 205-208: the first chunk of the list that has a free block.
Find(t) ==
  /\ Goto(t, "find", "take")
  /\ scan = <<>>
  /\ \E i \in DOMAIN m_listChunks :
       /\ count[m_listChunks[i]] > 0
       /\ \A j \in 1..(i - 1) : count[m_listChunks[j]] = 0
       /\ m_ptrAllocChunk' = m_listChunks[i]
  /\ UNCHANGED <<m_listChunks, scan, chunkVars, held, chunk, block, below, overlapped>>

\* Lines 61-65: each free block names the one after it, the last one m_numBlocks.
Linked == [b \in Indices |-> b + 1]

\* Lines 197-204 and init: no chunk has one, so add a chunk.
AddChunk(t) ==
  /\ Goto(t, "find", "take")
  /\ scan = <<>>
  /\ \A i \in DOMAIN m_listChunks : count[m_listChunks[i]] = 0
  /\ \E c \in Chunks \ Listed :
       /\ m_listChunks' = Append(m_listChunks, c)
       /\ m_ptrAllocChunk' = c
       /\ head' = [head EXCEPT ![c] = 0]
       /\ count' = [count EXCEPT ![c] = m_numBlocks]
       /\ next' = [next EXCEPT ![c] = Linked]
  /\ UNCHANGED <<scan, held, chunk, block, below, overlapped>>

TakeChunk(t) ==                                                \* line 212
  /\ Goto(t, "take", "load")
  /\ chunk' = [chunk EXCEPT ![t] = m_ptrAllocChunk]
  /\ UNCHANGED <<listVars, chunkVars, held, block, below, overlapped>>

(* ChunkLockFree::allocate *)

\* current_avail is loaded, at first (70) or by a compare-exchange that fails
\* (85); the weak one may fail with nothing changed. With no free block the
\* allocation starts again (75-79, 215).
LoadHead(t, from) ==
  LET h == head[chunk[t]]
      none == h = m_numBlocks
  IN /\ Goto(t, from, IF none THEN "test" ELSE "read")
     /\ block' = [block EXCEPT ![t] = IF none THEN NoBlock ELSE h]
     /\ chunk' = [chunk EXCEPT ![t] = IF none THEN NoChunk ELSE @]
     /\ below' = [below EXCEPT ![t] = NoBlock]
     /\ UNCHANGED <<listVars, chunkVars, held, overlapped>>

FirstLoad(t) == LoadHead(t, "load")
PopFails(t) == LoadHead(t, "cas")

\* Line 83. A byte that belongs to a user may have any value.
ReadNext(t) ==
  /\ Goto(t, "read", "cas")
  /\ LET byte == next[chunk[t]][block[t]]
     IN \E n \in (IF byte = UserData THEN Bytes ELSE {byte}) :
          below' = [below EXCEPT ![t] = n]
  /\ UNCHANGED <<listVars, chunkVars, held, chunk, block, overlapped>>

PopUncompared(t) ==       \* a slip: a store instead of the compare-exchange
  /\ Goto(t, "cas", "uncount")
  /\ head' = [head EXCEPT ![chunk[t]] = below[t]]
  /\ UNCHANGED <<listVars, count, next, held, chunk, block, below, overlapped>>

Pop(t) ==                                                      \* line 85
  /\ Goto(t, "cas", "uncount")
  /\ head[chunk[t]] = block[t]
  /\ head' = [head EXCEPT ![chunk[t]] = below[t]]
  /\ UNCHANGED <<listVars, count, next, held, chunk, block, below, overlapped>>

\* The block is the caller's, who constructs an object in it.
Receive(t) ==
  /\ held' = held \cup {<<chunk[t], block[t]>>}
  /\ next' = [next EXCEPT ![chunk[t]][block[t]] = UserData]
  /\ chunk' = [chunk EXCEPT ![t] = NoChunk]
  /\ block' = [block EXCEPT ![t] = NoBlock]
  /\ below' = [below EXCEPT ![t] = NoBlock]

KeepCount(t) ==           \* a slip: line 91 is missing
  /\ Goto(t, "uncount", "idle")
  /\ Receive(t)
  /\ UNCHANGED <<listVars, head, count, overlapped>>

\* Line 91, on a byte.
Uncount(t) ==
  /\ Goto(t, "uncount", "idle")
  /\ count' = [count EXCEPT ![chunk[t]] = (@ + UCHAR_MAX) % (UCHAR_MAX + 1)]
  /\ Receive(t)
  /\ UNCHANGED <<listVars, head, overlapped>>

----------------------------------------------------------------------------
(* ChunkLockFree::deallocate *)

\* Line 104: the object is destroyed, its first byte names the head.
GiveBack(t) ==
  /\ Goto(t, "idle", "push")
  /\ \E u \in held :
       /\ held' = held \ {u}
       /\ chunk' = [chunk EXCEPT ![t] = u[1]]
       /\ block' = [block EXCEPT ![t] = u[2]]
       /\ next' = [next EXCEPT ![u[1]][u[2]] = head[u[1]]]
  /\ UNCHANGED <<listVars, head, count, below, overlapped>>

PushFails(t) ==           \* lines 106-107: *toRelease is the new head
  /\ Goto(t, "push", "push")
  /\ next' = [next EXCEPT ![chunk[t]][block[t]] = head[chunk[t]]]
  /\ UNCHANGED <<listVars, head, count, held, chunk, block, below, overlapped>>

Push(t) ==
  /\ Goto(t, "push", "count")
  /\ head[chunk[t]] = next[chunk[t]][block[t]]
  /\ head' = [head EXCEPT ![chunk[t]] = block[t]]
  /\ UNCHANGED <<listVars, count, next, held, chunk, block, below, overlapped>>

Count(t) ==                                                    \* line 111
  /\ Goto(t, "count", "idle")
  /\ count' = [count EXCEPT ![chunk[t]] = (@ + 1) % (UCHAR_MAX + 1)]
  /\ chunk' = [chunk EXCEPT ![t] = NoChunk]
  /\ block' = [block EXCEPT ![t] = NoBlock]
  /\ UNCHANGED <<listVars, head, next, held, below, overlapped>>

----------------------------------------------------------------------------
(* releaseFreeMemory, on the timer: whether the limits of onTimer are         *)
(* exceeded depends on time and on the other sizes.                           *)

StartRelease ==
  /\ scan = <<>> /\ scan' = m_listChunks
  /\ UNCHANGED <<m_listChunks, m_ptrAllocChunk, chunkVars, held, pc, chunk,
                 block, below, overlapped>>

FreeAnyway(c) == count[c] = m_numBlocks     \* a slip: the current chunk, too

\* Line 174: c is free and is not the one that is allocated from.
Releasable(c) == count[c] = m_numBlocks /\ c # m_ptrAllocChunk

\* Lines 172-182; ~ChunkLockFree of a chunk that is erased.
ReleaseOrKeep ==
  /\ scan # <<>> /\ scan' = Tail(scan)
  /\ \E i \in DOMAIN m_listChunks :
       /\ m_listChunks[i] = Head(scan)
       /\ m_listChunks' = IF Releasable(Head(scan)) THEN RemoveAt(m_listChunks, i)
                                                    ELSE m_listChunks
  /\ UNCHANGED <<m_ptrAllocChunk, chunkVars, held, pc, chunk, block, below, overlapped>>

----------------------------------------------------------------------------
Allocate(t) ==
  \/ TestChunk(t) \/ Find(t) \/ AddChunk(t) \/ TakeChunk(t) \/ FirstLoad(t)
  \/ PopFails(t) \/ ReadNext(t) \/ Pop(t) \/ Uncount(t)

Next ==
  \/ \E t \in Threads : Ask(t) \/ Allocate(t) \/ GiveBack(t) \/ PushFails(t)
                          \/ Push(t) \/ Count(t)
  \/ StartRelease \/ ReleaseOrKeep

Spec == Init /\ [][Next]_vars

\* Threads are scheduled; a compare-exchange that could succeed again and again
\* does not fail for ever; the timer, which releases memory once in minutes, does
\* not keep the others from the mutex.
Fairness ==
  /\ \A t \in Threads :
       WF_vars(Allocate(t)) /\ SF_vars(Pop(t)) /\ SF_vars(Find(t) \/ AddChunk(t))
  /\ WF_vars(ReleaseOrKeep)

FairSpec == Spec /\ Fairness

----------------------------------------------------------------------------
(* Properties. What they say of the lists, the counts and the chunks ends when *)
(* two threads are in allocate at the same time, as the event loops of a       *)
(* server may be: the compare-exchange of 85 cannot tell a block that was      *)
(* popped and pushed back from one that stayed.                                *)

\* The variables keep their types: no index runs out of its chunk.
TypeOK ==
  /\ m_listChunks \in Seq(Chunks) /\ m_ptrAllocChunk \in Chunks \cup {NoChunk}
  /\ scan \in Seq(Chunks)
  /\ head \in [Chunks -> Bytes] /\ count \in [Chunks -> Bytes]
  /\ next \in [Chunks -> [Indices -> Bytes \cup {UserData}]]
  /\ held \subseteq Chunks \X Indices
  /\ DOMAIN pc = Threads /\ Allocating \subseteq Allocators
  /\ chunk \in [Threads -> Chunks \cup {NoChunk}]
  /\ block \in [Threads -> Indices \cup {NoBlock}]
  /\ below \in [Threads -> Bytes \cup {NoBlock}]

\* The k-th link from the head of c.
Link(c) ==
  LET f[k \in 0..m_numBlocks] ==
        IF k = 0 THEN head[c]
        ELSE IF f[k - 1] \in Indices THEN next[c][f[k - 1]] ELSE f[k - 1]
  IN f

FreeBlocks(c) == {Link(c)[k] : k \in 0..m_numBlocks} \cap Indices

\* Blocks of c that are in use, were popped just now, or are about to be pushed.
UsedBlocks(c) ==
  {b \in Indices : <<c, b>> \in held}
    \cup {block[t] : t \in {u \in Threads : pc[u] \in {"uncount", "push"}
                                              /\ chunk[u] = c}}

\* Until two allocations overlap, every block of a chunk is free or in use and not
\* both, and following the links from the head one comes to the end: no block is
\* handed out twice, none is lost, and no user's data is taken for a link.
FreeListIntact ==
  /\ TypeOK
  /\ ~overlapped => \A c \in Listed :
       /\ Link(c)[m_numBlocks] = m_numBlocks
       /\ UsedBlocks(c) = Indices \ FreeBlocks(c)

\* Until two allocations overlap, m_availaBlockNum, of the width of a byte, is the
\* number of free blocks but for those popped or pushed just now: it never wraps
\* from 0 to UCHAR_MAX, which releaseFreeMemory would take for a free chunk.
CountExact ==
  ~overlapped => \A c \in Listed :
    LET at(place) == {t \in Threads : pc[t] = place /\ chunk[t] = c}
    IN count[c] + Cardinality(at("count"))
         = Cardinality(FreeBlocks(c)) + Cardinality(at("uncount"))

\* Line 170 "so that the pointer m_ptrAllocChunk is guaranteed to be valid all
\* the time": it, the copies of it that threads allocate from, and the chunks of
\* blocks in use are on the list, and are not deleted.
ReleasedChunkUnused ==
  /\ m_ptrAllocChunk \in Listed \cup {NoChunk}
  /\ \A t \in Threads : chunk[t] \in Listed \cup {NoChunk}
  /\ \A u \in held : u[1] \in Listed

\* Until two allocations overlap, releaseFreeMemory (161-185) deletes no chunk in
\* use, whatever is given back meanwhile.
UnusedUntilOverlap == ~overlapped => ReleasedChunkUnused

\* Unless two allocations overlap, allocate comes back with a block, though it
\* tries again for as long as the chunk it picked turns out to be empty.
AllocateReturns ==
  \A t \in Allocators : pc[t] = "test" ~> pc[t] = "idle" \/ overlapped
=============================================================================
