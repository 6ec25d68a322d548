---------------------------- MODULE ChunkAllocator ----------------------------
(***************************************************************************)
(* mmrUtil::ChunkAllocator: blocks of memory that their users gave back    *)
(* are cached per size, up to a limit, and handed out again.               *)
(*                                                                         *)
(* The counters are atomics that deallocate raises before it takes the     *)
(* mutex, and alloMemory without the mutex; so deallocate is several steps *)
(* (148; 150-152; 160-188; 190-206), with `lock' held between the last     *)
(* three. A size is one that allocate has rounded up. The address of a     *)
(* deleted block may be used again.                                        *)
(***************************************************************************)
EXTENDS Integers, Sequences, FiniteSets, FiniteSetsExt

CONSTANTS
  Threads,
  Blocks,                \* addresses
  Sizes,                 \* sizes that are asked for
  m_usMaxFreeCacheSize,
  NoThread, NoBlock

ASSUME ChunkAssumption ==
  /\ Sizes \subseteq Nat \ {0} /\ IsFiniteSet(Sizes)
  /\ IsFiniteSet(Blocks)
  /\ m_usMaxFreeCacheSize \in Nat
  /\ NoThread \notin Threads /\ NoBlock \notin Blocks

VARIABLES
  cache,        \* memBuffer: the deque of each size ...
  keys,         \* ... and the sizes that have an entry, perhaps an empty deque
  m_sizeFree,
  m_sizeTotal,
  lock,         \* the thread that holds mt from one step to the next
  live,         \* addresses of memory that is allocated and not deleted
  size,         \* the size of each block since it was allocated last
  held,         \* blocks in the hands of users
  pc,           \* where each thread is
  asked,        \* the size a thread is making a block of
  giving,       \* the block a thread is giving back
  undefined     \* the behaviour of the program is undefined from here on

threadVars == <<asked, giving>>
vars == <<cache, keys, m_sizeFree, m_sizeTotal, lock, live, size, held, pc,
          asked, giving, undefined>>

Init ==
  /\ cache = [n \in Sizes |-> <<>>] /\ keys = {}
  /\ m_sizeFree = 0 /\ m_sizeTotal = 0
  /\ lock = NoThread
  /\ live = {} /\ held = {}
  /\ size = [b \in Blocks |-> 0]
  /\ pc = [t \in Threads |-> "idle"]
  /\ asked = [t \in Threads |-> 0]
  /\ giving = [t \in Threads |-> NoBlock]
  /\ undefined = FALSE

Goto(t, from, to) == pc[t] = from /\ pc' = [pc EXCEPT ![t] = to]

SizeOf(S) == MapThenSumSet(LAMBDA b : size[b], S)   \* of a set of blocks
BlocksOf(q) == {q[i] : i \in DOMAIN q}
Cached == UNION {BlocksOf(cache[n]) : n \in Sizes}

----------------------------------------------------------------------------
(* alloMemory *)

AllocMiss(t, n) ==
  /\ Goto(t, "idle", "new")
  /\ lock = NoThread /\ n \notin keys
  /\ asked' = [asked EXCEPT ![t] = n]
  /\ UNCHANGED <<cache, keys, m_sizeFree, m_sizeTotal, lock, live, size, held,
                 giving, undefined>>

\* Hand b out and leave the deque q behind.
HandOut(n, b, q) ==
  /\ held' = held \cup {b}
  /\ cache' = [cache EXCEPT ![n] = q]
  /\ m_sizeFree' = m_sizeFree - n
  /\ UNCHANGED <<keys, m_sizeTotal, lock, live, size, pc, threadVars, undefined>>

TakeBackPopFront(t, n) == \* a slip: back() is followed by pop_front()
  /\ pc[t] = "idle" /\ lock = NoThread
  /\ n \in keys /\ cache[n] # <<>>
  /\ HandOut(n, cache[n][Len(cache[n])], Tail(cache[n]))

\* Lines 136-141: the youngest block of the size. The entry stays when its deque
\* is empty now.
AllocHit(t, n) ==
  /\ pc[t] = "idle" /\ lock = NoThread
  /\ n \in keys /\ cache[n] # <<>>
  /\ HandOut(n, cache[n][Len(cache[n])], SubSeq(cache[n], 1, Len(cache[n]) - 1))

\* The same lines with an entry whose deque is empty: back() and pop_back().
AllocUndefined(t, n) ==
  /\ pc[t] = "idle" /\ lock = NoThread
  /\ n \in keys /\ cache[n] = <<>>
  /\ undefined' = TRUE
  /\ UNCHANGED <<cache, keys, m_sizeFree, m_sizeTotal, lock, live, size, held,
                 pc, threadVars>>

New(t) ==                                                      \* 124-125
  /\ Goto(t, "new", "idle")
  /\ \E b \in Blocks \ live :
       /\ live' = live \cup {b} /\ held' = held \cup {b}
       /\ size' = [size EXCEPT ![b] = asked[t]]
  /\ m_sizeTotal' = m_sizeTotal + asked[t]
  /\ asked' = [asked EXCEPT ![t] = 0]
  /\ UNCHANGED <<cache, keys, m_sizeFree, lock, giving, undefined>>

----------------------------------------------------------------------------
(* deallocate, the deleter of the shared_ptr, on the thread that drops it last *)

Give(t, b) ==                                                  \* line 148
  /\ Goto(t, "idle", "push")
  /\ b \in held /\ held' = held \ {b}
  /\ giving' = [giving EXCEPT ![t] = b]
  /\ m_sizeFree' = m_sizeFree + size[b]
  /\ UNCHANGED <<cache, keys, m_sizeTotal, lock, live, size, asked, undefined>>

Push(t) ==                                                     \* 149-152
  LET b == giving[t]
      n == size[b]
      over == m_sizeFree > m_usMaxFreeCacheSize
  IN /\ Goto(t, "push", IF over THEN "expire" ELSE "idle")
     /\ lock = NoThread /\ lock' = IF over THEN t ELSE NoThread
     /\ cache' = [cache EXCEPT ![n] = Append(@, b)]
     /\ keys' = keys \cup {n}
     /\ giving' = IF over THEN giving ELSE [giving EXCEPT ![t] = NoBlock]
     /\ UNCHANGED <<m_sizeFree, m_sizeTotal, live, size, held, asked, undefined>>

\* Delete the blocks of S, all of them cached; `left' is what remains of the cache
\* and `total' what m_sizeTotal becomes.
Delete(S, left, total) ==
  /\ cache' = left
  /\ live' = live \ S
  /\ m_sizeFree' = m_sizeFree - SizeOf(S)
  /\ m_sizeTotal' = total

\* Of each deque the first old[n] blocks have expired: a deque is in the order of
\* time. Every entry without a block left is erased.
DeleteExpired(old) ==
  LET left == [n \in Sizes |-> SubSeq(cache[n], old[n] + 1, Len(cache[n]))]
      gone == UNION {BlocksOf(SubSeq(cache[n], 1, old[n])) : n \in Sizes}
  IN /\ Delete(gone, left, m_sizeTotal - SizeOf(gone))
     /\ keys' = {n \in keys : left[n] # <<>>}

Ages == {old \in [Sizes -> 0..Cardinality(Blocks)] :
           \A n \in Sizes : old[n] <= Len(cache[n])}

\* Lines 160-188. The block that was just pushed is not expired.
Expire(t) ==
  /\ Goto(t, "expire", "trim")
  /\ \E old \in Ages :
       /\ LET n == size[giving[t]] IN old[n] < Len(cache[n])
       /\ DeleteExpired(old)
  /\ UNCHANGED <<lock, size, held, threadVars, undefined>>

SmallestKey == Min(keys)  \* a slip: begin() instead of rbegin()

\* The size whose oldest block is deleted, line 192: the last entry of the map.
LargestKey == Max(keys)

TrimOf(n, total) ==
  LET left == [cache EXCEPT ![n] = Tail(@)]
  IN /\ Delete({Head(cache[n])}, left, total)
     /\ keys' = IF left[n] = <<>> THEN keys \ {n} ELSE keys

TrimKeepsTotal(t) ==      \* a slip: line 200 is missing
  /\ Goto(t, "trim", "idle")
  /\ lock' = NoThread
  /\ giving' = [giving EXCEPT ![t] = NoBlock]
  /\ IF m_sizeFree > m_usMaxFreeCacheSize
     THEN TrimOf(LargestKey, m_sizeTotal)
     ELSE UNCHANGED <<cache, keys, live, m_sizeFree, m_sizeTotal>>
  /\ UNCHANGED <<size, held, asked, undefined>>

\* Lines 190-206, if there still is too much.
Trim(t) ==
  /\ Goto(t, "trim", "idle")
  /\ lock' = NoThread
  /\ giving' = [giving EXCEPT ![t] = NoBlock]
  /\ IF m_sizeFree > m_usMaxFreeCacheSize
     THEN TrimOf(LargestKey, m_sizeTotal - LargestKey)
     ELSE UNCHANGED <<cache, keys, live, m_sizeFree, m_sizeTotal>>
  /\ UNCHANGED <<size, held, asked, undefined>>

\* freeExpiredMemory, on the timer.
freeExpiredMemory ==
  /\ lock = NoThread
  /\ \E old \in Ages : DeleteExpired(old)
  /\ UNCHANGED <<lock, size, held, pc, threadVars, undefined>>

----------------------------------------------------------------------------
Next ==
  /\ ~undefined
  /\ \/ \E t \in Threads, n \in Sizes :
          AllocMiss(t, n) \/ AllocHit(t, n) \/ AllocUndefined(t, n)
     \/ \E t \in Threads, b \in Blocks : Give(t, b)
     \/ \E t \in Threads : New(t) \/ Push(t) \/ Expire(t) \/ Trim(t)
     \/ freeExpiredMemory

Spec == Init /\ [][Next]_vars

----------------------------------------------------------------------------
(* Properties, of the states before the program's behaviour is undefined *)

\* The variables keep their types; no subtraction takes an unsigned counter below
\* zero, and the mutex is held between the steps of a deallocation only.
TypeOK ==
  /\ cache \in [Sizes -> Seq(Blocks)] /\ keys \subseteq Sizes
  /\ m_sizeFree \in Nat /\ m_sizeTotal \in Nat
  /\ live \subseteq Blocks /\ held \subseteq live
  /\ size \in [Blocks -> Sizes \cup {0}]
  /\ pc \in [Threads -> {"idle", "new", "push", "expire", "trim"}]
  /\ \A t \in Threads : pc[t] \in {"expire", "trim"} <=> lock = t
  /\ asked \in [Threads -> Sizes \cup {0}]
  /\ giving \in [Threads -> Blocks \cup {NoBlock}]
  /\ undefined \in BOOLEAN

\* Blocks on their way into the cache.
Given == {giving[t] : t \in {u \in Threads : pc[u] = "push"}}

\* A block is with its user, on its way back, or once in the cache, under its
\* size; it is deleted only from there: no user's memory is given to another.
BlockInOnePlace ==
  /\ \A n \in Sizes : \A i \in DOMAIN cache[n] :
       /\ cache[n][i] \in live \ (held \cup Given) /\ size[cache[n][i]] = n
       /\ \A j \in DOMAIN cache[n] : cache[n][j] = cache[n][i] => j = i
  /\ Given \subseteq live \ held
  /\ live \subseteq held \cup Given \cup Cached

\* m_sizeFree is what is cached or on its way there, though it is raised outside
\* the mutex and lowered inside (deallocate decides by it), and m_sizeTotal is all
\* the memory that is allocated, lent out or not; neither falls below zero.
CountersExact ==
  /\ TypeOK
  /\ m_sizeFree = SizeOf(Cached \cup Given)
  /\ m_sizeTotal = SizeOf(live)

\* When nobody is in the middle of deallocate the cache is within its limit:
\* each deallocation deletes at most one unexpired block, and that is enough.
CacheBounded ==
  (\A t \in Threads : pc[t] \in {"idle", "new"}) =>
    m_sizeFree <= m_usMaxFreeCacheSize

\* testAllocator/main.cpp:166 "allocate the second block", while the first one
\* of that size is in use: allocate always has a block to return.
AllocationsServed == ~undefined
=============================================================================
