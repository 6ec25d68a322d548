------------------------- MODULE SmallAllocatorProofs -------------------------
(***************************************************************************)
(* Theorems about SmallAllocator. Until two threads are in allocate at the *)
(* same time the free lists, the counts and the chunks in use are right,   *)
(* for any number of threads that allocate and give blocks back, any       *)
(* blocks to a chunk and any chunks. After that, too, no index runs out of *)
(* its chunk.                                                              *)
(***************************************************************************)
EXTENDS SmallAllocator, FiniteSetTheorems, SequenceTheorems, WellFoundedInduction, TLAPS

-----------------------------------------------------------------------------
(* The invariant. *)

Popping == {"load", "read", "cas", "uncount"}      \* places in allocate of a chunk ...
Pushing == {"push", "count"}                       \* ... and in deallocate
Idling == {"idle", "test", "find", "take"}
Owns(t) == pc[t] \in {"uncount", "push"}           \* has a block that is nobody else's

Typed ==
  /\ TypeOK
  /\ pc \in [Threads -> Idling \cup Popping \cup Pushing]

\* Where a thread is says what it works on: the one thread in allocate does so
\* from m_ptrAllocChunk, which had a free block when it was tested, and has one still.
Working ==
  \A t \in Threads :
    /\ pc[t] \in Idling => chunk[t] = NoChunk
    /\ pc[t] \in Popping \cup Pushing => chunk[t] \in Listed
    /\ pc[t] \in Popping => chunk[t] = m_ptrAllocChunk
    /\ pc[t] \in {"take"} \cup Popping =>
         m_ptrAllocChunk \in Chunks /\ count[m_ptrAllocChunk] > 0
    /\ pc[t] \in {"read", "cas", "uncount"} \cup Pushing => block[t] \in Indices

\* A block has one owner.
Owned ==
  /\ m_ptrAllocChunk \in Listed \cup {NoChunk}
  /\ \A u \in held : u[1] \in Listed
  /\ \A t \in Threads : Owns(t) => <<chunk[t], block[t]>> \notin held
  /\ \A t, u \in Threads :
       Owns(t) /\ Owns(u) /\ chunk[t] = chunk[u] /\ block[t] = block[u] => t = u

Unused(c) == Indices \ UsedBlocks(c)

\* p runs along the links nx from the head h through the m blocks of F to the end.
Path(p, m, h, nx, F) ==
  /\ p[0] = h /\ p[m] = m_numBlocks
  /\ \A i \in 0..(m - 1) : p[i] \in F /\ nx[p[i]] = p[i + 1]
  /\ \A i, j \in 0..(m - 1) : p[i] = p[j] => i = j
  /\ \A b \in F : \E i \in 0..(m - 1) : p[i] = b

Chain(h, nx, F) ==
  \E p \in [0..Cardinality(F) -> Bytes] : Path(p, Cardinality(F), h, nx, F)

Chained == \A c \in Listed : Chain(head[c], next[c], Unused(c))

\* What the allocating thread saw of the list is still so when it exchanges the head:
\* only it takes blocks from a list, and only used blocks change their first byte.
SeenStill ==
  \A t \in Threads, c \in Chunks : chunk[t] = c =>
    /\ pc[t] \in {"read", "cas"} => block[t] \in Unused(c)
    /\ pc[t] = "cas" => below[t] = next[c][block[t]]

At(place, c) == {t \in Threads : pc[t] = place /\ chunk[t] = c}

Counts ==
  \A c \in Listed :
    count[c] + Cardinality(At("count", c))
      = Cardinality(Unused(c)) + Cardinality(At("uncount", c))

SmallInv == Typed /\ Working /\ Owned /\ Chained /\ SeenStill /\ Counts
-----------------------------------------------------------------------------
(* Chains of free blocks. *)

LEMMA LeastNatural ==
  ASSUME NEW T \in SUBSET Nat, T # {}
  PROVE  \E x \in T : \A y \in T : x <= y
<1>1. PICK x \in T : \A y \in T : ~(<<y, x>> \in OpToRel(<, Nat))
  BY Zenon, WFMin, NatLessThanWellFounded
<1>2. \A y \in T : ~(y < x)
  BY <1>1 DEF OpToRel
<1> QED BY <1>2

LEMMA IndicesAre ==
  /\ m_numBlocks \in Nat \ {0} /\ m_numBlocks \notin Indices /\ m_numBlocks \in Bytes
  /\ Indices \subseteq Bytes /\ Bytes \subseteq Nat /\ UserData \notin Bytes /\ 0 \in Indices
  /\ Indices \subseteq Nat
  /\ IsFiniteSet(Indices) /\ Cardinality(Indices) = m_numBlocks
  /\ \A x : x \in Bytes <=> x \in Indices \/ x = m_numBlocks
<1>1. m_numBlocks = UCHAR_MAX /\ UCHAR_MAX \in Nat \ {0}
  BY SmallAssumption DEF m_numBlocks
<1>2. IsFiniteSet(Indices) /\ Cardinality(Indices) = m_numBlocks
  <2>1. Indices = 0..(UCHAR_MAX - 1)
    BY <1>1 DEF Indices
  <2> QED BY <1>1, <2>1, FS_Interval
<1> QED BY <1>1, <1>2 DEF Indices, Bytes, UserData

LEMMA Sizes ==
  ASSUME NEW F \in SUBSET Indices
  PROVE  /\ Cardinality(F) \in 0..m_numBlocks
         /\ F = {} <=> Cardinality(F) = 0
         /\ F = Indices <=> Cardinality(F) = m_numBlocks
         /\ \A b \in F : Cardinality(F \ {b}) = Cardinality(F) - 1
         /\ \A b \in Indices \ F : Cardinality(F \cup {b}) = Cardinality(F) + 1
<1>1. IsFiniteSet(F) /\ Cardinality(F) \in Nat /\ Cardinality(F) <= m_numBlocks
  BY IndicesAre, FS_Subset, FS_CardinalityType
<1>2. F = {} <=> Cardinality(F) = 0
  BY <1>1, FS_EmptySet
<1>3. F = Indices <=> Cardinality(F) = m_numBlocks
  BY IndicesAre, FS_Subset
<1>4. \A b \in F : Cardinality(F \ {b}) = Cardinality(F) - 1
  BY <1>1, FS_RemoveElement
<1>5. \A b \in Indices \ F : Cardinality(F \cup {b}) = Cardinality(F) + 1
  BY <1>1, FS_AddElement
<1> QED BY <1>1, <1>2, <1>3, <1>4, <1>5, IndicesAre

LEMMA ChainHead ==
  ASSUME NEW F \in SUBSET Indices, NEW h, NEW nx, Chain(h, nx, F)
  PROVE  /\ h \in Bytes /\ (F = {} <=> h = m_numBlocks) /\ (h # m_numBlocks => h \in F)
         /\ \A b \in F : nx[b] \in Bytes
<1> DEFINE m == Cardinality(F)
<1>1. m \in Nat /\ (F = {} <=> m = 0)
  BY Sizes, IndicesAre
<1>2. PICK p : p \in [0..m -> Bytes] /\ Path(p, m, h, nx, F)
  BY DEF Chain
<1> HIDE DEF m
<1>3. p[0] = h /\ p[0] \in Bytes
  BY <1>1, <1>2 DEF Path
<1>4. CASE m = 0
  BY <1>1, <1>2, <1>3, <1>4 DEF Path
<1>5. CASE m # 0
  <2>1. 0 \in 0..(m - 1)
    BY <1>1, <1>5
  <2>2. h \in F
    BY <1>2, <1>3, <2>1 DEF Path
  <2>3. \A b \in F : nx[b] \in Bytes
    <3> SUFFICES ASSUME NEW b \in F PROVE nx[b] \in Bytes
      OBVIOUS
    <3>1. PICK i \in 0..(m - 1) : p[i] = b
      BY <1>2 DEF Path
    <3>2. i + 1 \in 0..m
      BY <1>1, <3>1
    <3>3. nx[b] = p[i + 1]
      BY <1>2, <3>1 DEF Path
    <3> QED BY <1>2, <3>2, <3>3
  <2> QED BY <1>1, <1>3, <1>5, <2>2, <2>3, IndicesAre
<1> QED BY <1>4, <1>5

LEMMA ChainPop ==
  ASSUME NEW F \in SUBSET Indices, NEW h, NEW nx, Chain(h, nx, F), h # m_numBlocks
  PROVE  Chain(nx[h], nx, F \ {h})
<1> DEFINE m == Cardinality(F)
           k == m - 1
<1>1. h \in F /\ m \in Nat \ {0} /\ Cardinality(F \ {h}) = k
  <2>1. h \in F
    BY ChainHead
  <2>2. m \in 0..m_numBlocks /\ (F = {} <=> m = 0)
    BY Sizes
  <2>3. Cardinality(F \ {h}) = k
    BY <2>1, Sizes
  <2> QED BY <2>1, <2>2, <2>3, IndicesAre
<1>2. PICK p : p \in [0..m -> Bytes] /\ Path(p, m, h, nx, F)
  BY DEF Chain
<1> HIDE DEF m
<1> DEFINE q == [i \in 0..k |-> p[i + 1]]
<1>3. \A i \in 0..k : i + 1 \in 0..m
  BY <1>1
<1>4. q \in [0..k -> Bytes]
  BY <1>2, <1>3
<1>5. /\ 0 \in 0..(m - 1) /\ 0 \in 0..k /\ k \in 0..k /\ k + 1 = m /\ 0 + 1 = 1
      /\ \A i \in 0..(k - 1) : /\ i \in 0..k /\ i + 1 \in 0..k /\ i + 1 \in 0..(m - 1)
                               /\ i + 1 # 0
  BY <1>1
<1>6. q[0] = nx[h] /\ q[k] = m_numBlocks
  BY <1>2, <1>5 DEF Path
<1>7. ASSUME NEW i \in 0..(k - 1)
      PROVE  q[i] \in F \ {h} /\ nx[q[i]] = q[i + 1]
  <2>1. q[i] = p[i + 1] /\ q[i + 1] = p[(i + 1) + 1]
    BY <1>5
  <2>2. p[i + 1] \in F /\ nx[p[i + 1]] = p[(i + 1) + 1] /\ p[i + 1] # p[0]
    BY <1>2, <1>5 DEF Path
  <2> QED BY <1>2, <2>1, <2>2 DEF Path
<1>8. ASSUME NEW i \in 0..(k - 1), NEW j \in 0..(k - 1), q[i] = q[j]
      PROVE  i = j
  <2>1. p[i + 1] = p[j + 1]
    BY <1>5, <1>8
  <2>2. i + 1 = j + 1
    BY <1>2, <1>5, <2>1 DEF Path
  <2> QED BY <2>2
<1>9. ASSUME NEW b \in F \ {h}
      PROVE  \E i \in 0..(k - 1) : q[i] = b
  <2>1. PICK j \in 0..(m - 1) : p[j] = b
    BY <1>2 DEF Path
  <2>2. j # 0
    BY <1>2, <2>1 DEF Path
  <2>3. j - 1 \in 0..(k - 1) /\ (j - 1) + 1 = j
    BY <1>1, <2>1, <2>2
  <2>4. q[j - 1] = b
    BY <1>5, <2>1, <2>3
  <2> QED BY <2>3, <2>4
<1> HIDE DEF q, k
<1>10. Path(q, k, nx[h], nx, F \ {h})
  BY <1>6, <1>7, <1>8, <1>9 DEF Path
<1> QED BY <1>1, <1>4, <1>10 DEF Chain

LEMMA ChainPush ==
  ASSUME NEW F \in SUBSET Indices, NEW h, NEW nx, Chain(h, nx, F),
         NEW b \in Indices \ F, nx[b] = h
  PROVE  Chain(b, nx, F \cup {b})
<1> DEFINE m == Cardinality(F)
           k == m + 1
<1>1. m \in Nat /\ Cardinality(F \cup {b}) = k
  BY Sizes, IndicesAre
<1>2. PICK p : p \in [0..m -> Bytes] /\ Path(p, m, h, nx, F)
  BY DEF Chain
<1> HIDE DEF m
<1> DEFINE q == [i \in 0..k |-> IF i = 0 THEN b ELSE p[i - 1]]
<1>3. \A i \in 0..k : i # 0 => i - 1 \in 0..m
  BY <1>1
<1>4. q \in [0..k -> Bytes]
  BY <1>2, <1>3, IndicesAre
<1>5. /\ 0 \in 0..k /\ k \in 0..k /\ k - 1 = m /\ k # 0 /\ 0 \in 0..m
      /\ \A i \in 0..(k - 1) : /\ i \in 0..k /\ i + 1 \in 0..k /\ i + 1 # 0 /\ (i + 1) - 1 = i
                               /\ i # 0 => i - 1 \in 0..(m - 1) /\ (i - 1) + 1 = i
  BY <1>1
<1>6. q[0] = b /\ q[k] = m_numBlocks
  BY <1>2, <1>5 DEF Path
<1>7. ASSUME NEW i \in 0..(k - 1)
      PROVE  q[i] \in F \cup {b} /\ nx[q[i]] = q[i + 1]
  <2>1. q[i + 1] = p[i]
    BY <1>5
  <2>2. CASE i = 0
    BY <1>2, <1>6, <2>1, <2>2 DEF Path
  <2>3. CASE i # 0
    <3>1. q[i] = p[i - 1] /\ i - 1 \in 0..(m - 1) /\ (i - 1) + 1 = i
      BY <1>5, <2>3
    <3>2. p[i - 1] \in F /\ nx[p[i - 1]] = p[(i - 1) + 1]
      BY <1>2, <3>1 DEF Path
    <3> QED BY <2>1, <3>1, <3>2
  <2> QED BY <2>2, <2>3
<1>8. ASSUME NEW i \in 0..(k - 1), i # 0
      PROVE  q[i] # b /\ q[i] = p[i - 1] /\ i - 1 \in 0..(m - 1)
  BY <1>2, <1>5, <1>8 DEF Path
<1>9. ASSUME NEW i \in 0..(k - 1), NEW j \in 0..(k - 1), q[i] = q[j]
      PROVE  i = j
  <2>1. CASE i = 0 \/ j = 0
    BY <1>6, <1>8, <1>9, <2>1
  <2>2. CASE i # 0 /\ j # 0
    <3>1. i - 1 = j - 1
      <4>1. i - 1 \in 0..(m - 1) /\ j - 1 \in 0..(m - 1) /\ p[i - 1] = p[j - 1]
        BY <1>8, <1>9, <2>2
      <4> QED BY <1>2, <4>1 DEF Path
    <3> QED BY <3>1
  <2> QED BY <2>1, <2>2
<1>10. ASSUME NEW x \in F \cup {b}
       PROVE  \E i \in 0..(k - 1) : q[i] = x
  <2>1. CASE x = b
    <3>1. 0 \in 0..(k - 1)
      BY <1>1
    <3> QED BY <1>6, <2>1, <3>1
  <2>2. CASE x \in F
    <3>1. PICK j \in 0..(m - 1) : p[j] = x
      BY <1>2, <2>2 DEF Path
    <3>2. j + 1 \in 0..(k - 1) /\ (j + 1) - 1 = j /\ j + 1 # 0 /\ j + 1 \in 0..k
      BY <1>1, <3>1
    <3>3. q[j + 1] = x
      BY <3>1, <3>2
    <3> QED BY <3>2, <3>3
  <2> QED BY <2>1, <2>2
<1> HIDE DEF q, k
<1>11. Path(q, k, b, nx, F \cup {b})
  BY <1>6, <1>7, <1>9, <1>10 DEF Path
<1> QED BY <1>1, <1>4, <1>11 DEF Chain

LEMMA ChainSame ==
  ASSUME NEW F, NEW h, NEW nx, Chain(h, nx, F), NEW mx, \A b \in F : mx[b] = nx[b]
  PROVE  Chain(h, mx, F)
<1> DEFINE m == Cardinality(F)
<1>1. PICK p \in [0..m -> Bytes] : Path(p, m, h, nx, F)
  BY DEF Chain
<1> HIDE DEF m
<1>2. Path(p, m, h, mx, F)
  BY <1>1 DEF Path
<1> QED BY <1>2 DEF Chain, m

LEMMA ChainAll == Chain(0, Linked, Indices)
<1> DEFINE n == m_numBlocks
           p == [i \in 0..n |-> i]
<1>1. n \in Nat \ {0} /\ Indices = 0..(n - 1) /\ Bytes = 0..n
  BY SmallAssumption DEF m_numBlocks, Indices, Bytes
<1> HIDE DEF n
<1>2. p \in [0..n -> Bytes]
  BY <1>1
<1>3. /\ p[0] = 0 /\ p[n] = n
      /\ \A i \in 0..(n - 1) : p[i] = i /\ p[i + 1] = i + 1
  BY <1>1
<1>4. \A i \in 0..(n - 1) : Linked[i] = i + 1
  BY <1>1 DEF Linked
<1> HIDE DEF p
<1>5. Path(p, n, 0, Linked, Indices)
  BY <1>1, <1>3, <1>4 DEF Path, n
<1>6. Cardinality(Indices) = n
  BY IndicesAre DEF n
<1> QED BY <1>2, <1>5, <1>6 DEF Chain

\* The links that the model follows are those of the chain.
LEMMA ChainLink ==
  ASSUME NEW c, NEW F \in SUBSET Indices, Chain(head[c], next[c], F)
  PROVE  Link(c)[m_numBlocks] = m_numBlocks /\ FreeBlocks(c) = F
<1> DEFINE n == m_numBlocks
           m == Cardinality(F)
           nx == next[c]
           h == head[c]
           f == Link(c)
<1>1. n \in Nat \ {0} /\ m \in 0..n /\ n \notin Indices /\ Indices \subseteq Nat
  BY IndicesAre, Sizes
<1>2. PICK p : p \in [0..m -> Bytes] /\ Path(p, m, h, nx, F)
  BY DEF Chain
<1> HIDE DEF n, m
<1> DEFINE g == [k \in 0..n |-> IF k <= m THEN p[k] ELSE n]
<1>3. g = [k \in 0..n |-> IF k = 0 THEN h
                         ELSE IF g[k - 1] \in Indices THEN nx[g[k - 1]] ELSE g[k - 1]]
  <2>1. ASSUME NEW k \in 0..n
        PROVE  g[k] = IF k = 0 THEN h
                      ELSE IF g[k - 1] \in Indices THEN nx[g[k - 1]] ELSE g[k - 1]
    <3>1. CASE k = 0
      BY <1>1, <1>2, <3>1 DEF Path
    <3>2. CASE k # 0
      <4>1. k - 1 \in 0..n /\ (k - 1) + 1 = k
        BY <1>1, <3>2
      <4>2. CASE k <= m
        <5>1. k - 1 \in 0..(m - 1) /\ k - 1 <= m
          BY <1>1, <3>2, <4>2
        <5>2. p[k - 1] \in F /\ nx[p[k - 1]] = p[(k - 1) + 1]
          BY <1>2, <5>1 DEF Path
        <5>3. g[k - 1] = p[k - 1] /\ g[k] = p[k]
          BY <4>1, <4>2, <5>1
        <5> HIDE DEF g
        <5> QED BY <3>2, <4>1, <5>2, <5>3
      <4>3. CASE k = m + 1
        <5>1. g[k - 1] = p[m] /\ g[k] = n
          BY <1>1, <4>1, <4>3
        <5>2. p[m] = n
          BY <1>2 DEF Path, n
        <5> HIDE DEF g
        <5> QED BY <1>1, <3>2, <5>1, <5>2
      <4>4. CASE k > m + 1
        <5>1. g[k - 1] = n /\ g[k] = n
          BY <1>1, <4>1, <4>4
        <5> HIDE DEF g
        <5> QED BY <1>1, <3>2, <5>1
      <4> QED BY <1>1, <4>2, <4>3, <4>4
    <3> QED BY <3>1, <3>2
  <2> QED BY <2>1
<1>4. f = [k \in 0..n |-> IF k = 0 THEN h
                         ELSE IF f[k - 1] \in Indices THEN nx[f[k - 1]] ELSE f[k - 1]]
  <2> DEFINE ff == CHOOSE ff : ff = [k \in 0..n |-> IF k = 0 THEN h
                          ELSE IF ff[k - 1] \in Indices THEN nx[ff[k - 1]] ELSE ff[k - 1]]
  <2>1. f = ff
    BY Zenon DEF Link, n
  <2> HIDE DEF g, f, h, nx
  <2>2. ff = [k \in 0..n |-> IF k = 0 THEN h
                          ELSE IF ff[k - 1] \in Indices THEN nx[ff[k - 1]] ELSE ff[k - 1]]
    BY <1>3
  <2> HIDE DEF ff
  <2> QED BY <2>1, <2>2
<1> HIDE DEF g, f, h, nx
<1>5. \A k \in 0..n : f[k] = g[k]
  <2> DEFINE T == {k \in 0..n : f[k] # g[k]}
  <2> SUFFICES ASSUME T # {} PROVE FALSE
    OBVIOUS
  <2>1. T \in SUBSET Nat
    BY <1>1
  <2>2. PICK k \in T : \A y \in T : k <= y
    BY <2>1, LeastNatural
  <2>3. CASE k = 0
    BY <1>3, <1>4, <2>2, <2>3
  <2>4. CASE k # 0
    <3>1. k - 1 \in 0..n /\ ~(k <= k - 1)
      BY <1>1, <2>4
    <3>2. f[k - 1] = g[k - 1]
      BY <2>2, <3>1
    <3>3. f[k] = IF f[k - 1] \in Indices THEN nx[f[k - 1]] ELSE f[k - 1]
      BY <1>4, <2>4
    <3>4. g[k] = IF g[k - 1] \in Indices THEN nx[g[k - 1]] ELSE g[k - 1]
      BY <1>3, <2>4
    <3> QED BY <2>2, <3>2, <3>3, <3>4
  <2> QED BY <2>3, <2>4
<1>6. f[n] = n
  <2>1. n \in 0..n /\ (n <= m => n = m)
    BY <1>1
  <2>2. p[m] = n
    BY <1>2 DEF Path, n
  <2> QED BY <1>5, <2>1, <2>2 DEF g
<1>7. ASSUME NEW x PROVE x \in FreeBlocks(c) <=> x \in F
  <2>1. x \in FreeBlocks(c) <=> x \in Indices /\ \E k \in 0..n : f[k] = x
    BY DEF FreeBlocks, f, n
  <2>2. ASSUME NEW k \in 0..n, f[k] = x, x \in Indices PROVE x \in F
    <3>1. CASE k \in 0..(m - 1)
      <4>1. f[k] = p[k]
        BY <1>1, <1>5, <3>1 DEF g
      <4> QED BY <1>2, <2>2, <3>1, <4>1 DEF Path
    <3>2. CASE k \notin 0..(m - 1)
      <4>1. k >= m
        BY <1>1, <3>2
      <4>2. g[k] = n
        BY <1>1, <1>2, <4>1 DEF g, Path, n
      <4> QED BY <1>1, <1>5, <2>2, <4>2
    <3> QED BY <3>1, <3>2
  <2>3. ASSUME x \in F PROVE \E k \in 0..n : f[k] = x
    <3>1. PICK i \in 0..(m - 1) : p[i] = x
      BY <1>2, <2>3 DEF Path
    <3>2. i \in 0..n /\ i <= m
      BY <1>1, <3>1
    <3>3. f[i] = p[i]
      BY <1>5, <3>2 DEF g
    <3> QED BY <3>1, <3>2, <3>3
  <2> QED BY <2>1, <2>2, <2>3
<1> QED BY <1>6, <1>7 DEF f, n
-----------------------------------------------------------------------------
(* Lists, used blocks and threads. *)

LEMMA ListAppend ==
  ASSUME NEW S, NEW q \in Seq(S), NEW c \in S
  PROVE  Append(q, c) \in Seq(S) /\ ToSet(Append(q, c)) = ToSet(q) \cup {c}
<1> DEFINE r == Append(q, c)
<1>1. Len(q) \in Nat /\ DOMAIN q = 1..Len(q)
  BY LenProperties
<1>2. /\ r \in Seq(S) /\ Len(r) = Len(q) + 1 /\ r[Len(q) + 1] = c
      /\ \A i \in 1..Len(q) : r[i] = q[i]
  BY AppendProperties
<1> HIDE DEF r
<1>3. DOMAIN r = 1..(Len(q) + 1)
  BY <1>2, LenProperties
<1>4. ToSet(r) = ToSet(q) \cup {c}
  BY <1>1, <1>2, <1>3 DEF ToSet
<1> QED BY <1>2, <1>4 DEF r

LEMMA ListErase ==
  ASSUME NEW S, NEW q \in Seq(S), NEW k \in 1..Len(q)
  PROVE  /\ RemoveAt(q, k) \in Seq(S) /\ ToSet(RemoveAt(q, k)) \subseteq ToSet(q)
         /\ \A x \in ToSet(q) : x # q[k] => x \in ToSet(RemoveAt(q, k))
<1> DEFINE front == SubSeq(q, 1, k - 1)
           back == SubSeq(q, k + 1, Len(q))
           r == front \o back
<1>1. PICK n \in Nat : Len(q) = n
  OBVIOUS
<1>2. k \in 1..n /\ DOMAIN q = 1..n
  BY <1>1
<1>3. /\ front \in Seq(S) /\ Len(front) = k - 1
      /\ \A j \in 1..(k - 1) : front[j] = q[j]
  BY <1>1, <1>2
<1>4. /\ back \in Seq(S) /\ Len(back) = n - k
      /\ \A j \in 1..(n - k) : back[j] = q[j + k]
  BY <1>1, <1>2
<1> HIDE DEF front, back
<1>5. /\ r \in Seq(S) /\ DOMAIN r = 1..((k - 1) + (n - k))
      /\ \A j \in 1..((k - 1) + (n - k)) :
           r[j] = IF j <= k - 1 THEN front[j] ELSE back[j - (k - 1)]
  <2>1. /\ r \in Seq(S) /\ Len(r) = Len(front) + Len(back)
        /\ \A j \in 1..(Len(front) + Len(back)) :
             r[j] = IF j <= Len(front) THEN front[j] ELSE back[j - Len(front)]
    BY <1>3, <1>4, ConcatProperties
  <2> HIDE DEF r
  <2>2. DOMAIN r = 1..Len(r)
    BY <2>1, LenProperties
  <2> QED BY <1>3, <1>4, <2>1, <2>2
<1>6. (k - 1) + (n - k) = n - 1
  BY <1>2
<1>7. ASSUME NEW j \in 1..(n - 1)
      PROVE  r[j] = IF j < k THEN q[j] ELSE q[j + 1]
  <2>1. CASE j < k
    BY <1>2, <1>3, <1>5, <1>6, <2>1
  <2>2. CASE ~(j < k)
    <3>1. j - (k - 1) \in 1..(n - k) /\ (j - (k - 1)) + k = j + 1 /\ ~(j <= k - 1)
      BY <1>2, <2>2
    <3> QED BY <1>4, <1>5, <1>6, <2>2, <3>1
  <2> QED BY <2>1, <2>2
<1>8. ToSet(r) \subseteq ToSet(q)
  <2> SUFFICES ASSUME NEW j \in 1..(n - 1) PROVE r[j] \in ToSet(q)
    BY <1>5, <1>6 DEF ToSet
  <2>1. j \in 1..n /\ j + 1 \in 1..n
    BY <1>2
  <2> QED BY <1>2, <1>7, <2>1 DEF ToSet
<1>9. ASSUME NEW x \in ToSet(q), x # q[k] PROVE x \in ToSet(r)
  <2>1. PICK i \in 1..n : q[i] = x
    BY <1>2 DEF ToSet
  <2>2. \E j \in 1..(n - 1) : r[j] = x
    <3>1. CASE i < k
      <4>1. i \in 1..(n - 1)
        BY <1>2, <2>1, <3>1
      <4>2. r[i] = q[i]
        BY <1>7, <3>1, <4>1
      <4> QED BY <2>1, <4>1, <4>2
    <3>2. CASE ~(i < k)
      <4>1. i # k
        BY <1>9, <2>1
      <4>2. i - 1 \in 1..(n - 1) /\ ~(i - 1 < k) /\ (i - 1) + 1 = i
        BY <1>2, <2>1, <3>2, <4>1
      <4> QED BY <1>7, <2>1, <4>2
    <3> QED BY <3>1, <3>2
  <2> QED BY <1>5, <1>6, <2>2 DEF ToSet
<1> QED BY <1>5, <1>8, <1>9 DEF r, front, back, RemoveAt

LEMMA UsedAre ==
  /\ \A c, b : b \in UsedBlocks(c) <=>
       \/ b \in Indices /\ <<c, b>> \in held
       \/ \E t \in Threads : Owns(t) /\ chunk[t] = c /\ block[t] = b
  /\ \A c, b : b \in UsedBlocks(c)' <=>
       \/ b \in Indices /\ <<c, b>> \in held'
       \/ \E t \in Threads : Owns(t)' /\ chunk'[t] = c /\ block'[t] = b
BY DEF UsedBlocks, Owns

LEMMA UnusedIs ==
  \A c : Unused(c) \in SUBSET Indices
BY DEF Unused

LEMMA AtIs ==
  ASSUME NEW place, NEW c
  PROVE  /\ IsFiniteSet(At(place, c)) /\ Cardinality(At(place, c)) \in Nat
         /\ \A t \in Threads \ At(place, c) :
              Cardinality(At(place, c) \cup {t}) = Cardinality(At(place, c)) + 1
         /\ \A t \in At(place, c) : Cardinality(At(place, c) \ {t}) = Cardinality(At(place, c)) - 1
<1> DEFINE S == At(place, c)
<1>1. S \in SUBSET Threads /\ IsFiniteSet(Threads)
  BY SmallAssumption DEF At
<1> HIDE DEF S
<1>2. IsFiniteSet(S) /\ Cardinality(S) \in Nat
  BY <1>1, FS_Subset, FS_CardinalityType
<1>3. \A t \in Threads \ S : Cardinality(S \cup {t}) = Cardinality(S) + 1
  BY <1>2, FS_AddElement
<1>4. \A t \in S : Cardinality(S \ {t}) = Cardinality(S) - 1
  BY <1>2, FS_RemoveElement
<1> QED BY <1>2, <1>3, <1>4 DEF S

\* The other threads do nothing in a step of t.
Alone(t) ==
  /\ pc' \in [Threads -> Idling \cup Popping \cup Pushing]
  /\ \A u \in Threads : u # t => pc'[u] = pc[u] /\ chunk'[u] = chunk[u] /\ block'[u] = block[u]
                                 /\ below'[u] = below[u]

InAllocate == {"test", "find", "take"} \cup Popping

\* At most one thread is in allocate.
InTurn == \A t, u \in Threads : pc[t] \in InAllocate /\ pc[u] \in InAllocate => t = u

LEMMA OnlyAllocator ==
  ASSUME InTurn, NEW t \in Threads, pc[t] \in InAllocate, NEW u \in Threads, u # t
  PROVE  pc[u] \notin InAllocate
BY DEF InTurn

LEMMA StillAllocating ==
  ASSUME Typed, NEW t \in Threads, Alone(t), pc'[t] \in InAllocate => t \in Allocators
  PROVE  DOMAIN pc' = Threads /\ Allocating' \subseteq Allocators
BY DEF Typed, TypeOK, Alone, Allocating, InAllocate, Popping

\* A thread that has no block and gets none leaves the blocks and their owners alone.
LEMMA QuietStep ==
  ASSUME SmallInv, NEW t \in Threads, Alone(t), ~Owns(t), pc[t] # "count",
         pc'[t] \notin {"uncount", "push", "count"},
         UNCHANGED held
  PROVE  /\ \A c : UsedBlocks(c)' = UsedBlocks(c) /\ Unused(c)' = Unused(c)
         /\ \A c : At("count", c)' = At("count", c) /\ At("uncount", c)' = At("uncount", c)
         /\ \A u \in Threads : Owns(u)' <=> Owns(u)
         /\ \A u \in Threads : Owns(u)' => <<chunk'[u], block'[u]>> \notin held'
         /\ \A u, w \in Threads :
              Owns(u)' /\ Owns(w)' /\ chunk'[u] = chunk'[w] /\ block'[u] = block'[w] => u = w
<1>1. \A u \in Threads : /\ Owns(u)' <=> Owns(u)
                         /\ Owns(u) => u # t /\ chunk'[u] = chunk[u] /\ block'[u] = block[u]
                         /\ pc'[u] = "count" <=> pc[u] = "count"
                         /\ pc'[u] = "uncount" <=> pc[u] = "uncount"
                         /\ pc[u] \in {"count", "uncount"} => chunk'[u] = chunk[u]
  BY DEF Alone, Owns
<1>2. \A c : UsedBlocks(c)' = UsedBlocks(c)
  <2>1. ASSUME NEW c, NEW b PROVE b \in UsedBlocks(c)' <=> b \in UsedBlocks(c)
    <3>1. (\E u \in Threads : Owns(u)' /\ chunk'[u] = c /\ block'[u] = b)
            <=> \E u \in Threads : Owns(u) /\ chunk[u] = c /\ block[u] = b
      BY <1>1
    <3> QED BY <3>1, UsedAre
  <2> QED BY <2>1
<1>3. \A c : Unused(c)' = Unused(c)
  BY <1>2 DEF Unused
<1>4. \A c : At("count", c)' = At("count", c) /\ At("uncount", c)' = At("uncount", c)
  BY <1>1 DEF At
<1> QED BY <1>1, <1>2, <1>3, <1>4 DEF SmallInv, Owned

LEMMA QuietChunks ==
  ASSUME SmallInv, NEW t \in Threads, Alone(t), ~Owns(t), pc[t] # "count",
         pc'[t] \notin {"uncount", "push", "count"},
         UNCHANGED <<held, head, count, next, m_listChunks>>
  PROVE  /\ Listed' = Listed /\ Chained' /\ Counts'
         /\ m_ptrAllocChunk' \in Listed \cup {NoChunk} => Owned'
         /\ \A u \in Threads, c \in Chunks : u # t /\ chunk'[u] = c =>
              /\ pc'[u] \in {"read", "cas"} => block'[u] \in Unused(c)'
              /\ pc'[u] = "cas" => below'[u] = next'[c][block'[u]]
<1>1. /\ \A c : UsedBlocks(c)' = UsedBlocks(c) /\ Unused(c)' = Unused(c)
      /\ \A c : At("count", c)' = At("count", c) /\ At("uncount", c)' = At("uncount", c)
      /\ \A u \in Threads : Owns(u)' => <<chunk'[u], block'[u]>> \notin held'
      /\ \A u, w \in Threads :
           Owns(u)' /\ Owns(w)' /\ chunk'[u] = chunk'[w] /\ block'[u] = block'[w] => u = w
  BY QuietStep
<1>2. Listed' = Listed
  BY DEF Listed
<1>3. Chained'
  BY <1>1, <1>2 DEF Chained, SmallInv
<1>4. Counts'
  BY <1>1, <1>2 DEF Counts, SmallInv
<1>5. m_ptrAllocChunk' \in Listed \cup {NoChunk} => Owned'
  BY <1>1, <1>2 DEF Owned, SmallInv
<1>6. ASSUME NEW u \in Threads, NEW c \in Chunks, u # t, chunk'[u] = c
      PROVE  /\ pc'[u] \in {"read", "cas"} => block'[u] \in Unused(c)'
             /\ pc'[u] = "cas" => below'[u] = next'[c][block'[u]]
  <2>1. pc'[u] = pc[u] /\ chunk'[u] = chunk[u] /\ block'[u] = block[u] /\ below'[u] = below[u]
    BY <1>6 DEF Alone
  <2>2. Unused(c)' = Unused(c)
    BY <1>1
  <2> QED BY <1>6, <2>1, <2>2 DEF SmallInv, SeenStill
<1> QED BY <1>2, <1>3, <1>4, <1>5, <1>6
-----------------------------------------------------------------------------
(* The steps. *)

LEMMA SmallInit == Init => SmallInv
<1> SUFFICES ASSUME Init PROVE SmallInv
  OBVIOUS
<1>1. Listed = {} /\ \A t \in Threads : pc[t] = "idle" /\ chunk[t] = NoChunk
  BY DEF Init, Listed, ToSet
<1>2. Typed
  <2>1. <<>> \in Seq(Chunks)
    BY EmptySeq
  <2>2. head \in [Chunks -> Bytes] /\ count \in [Chunks -> Bytes]
        /\ next \in [Chunks -> [Indices -> Bytes \cup {UserData}]]
    BY IndicesAre DEF Init
  <2>3. Allocating = {}
    BY <1>1 DEF Allocating
  <2>4. pc \in [Threads -> Idling \cup Popping \cup Pushing]
    BY DEF Init, Idling
  <2> QED BY <2>1, <2>2, <2>3, <2>4 DEF Init, Typed, TypeOK
<1>3. Working /\ Owned /\ SeenStill
  BY <1>1 DEF Working, Owned, SeenStill, Idling, Popping, Pushing, Owns, Init
<1>4. Chained /\ Counts
  BY <1>1 DEF Chained, Counts
<1> QED BY <1>2, <1>3, <1>4 DEF SmallInv

LEMMA AskStep ==
  ASSUME SmallInv, NEW t \in Threads, Ask(t)
  PROVE  SmallInv'
<1> USE DEF SmallInv
<1>1. /\ pc[t] = "idle" /\ pc' = [pc EXCEPT ![t] = "test"] /\ t \in Allocators
      /\ UNCHANGED <<m_listChunks, m_ptrAllocChunk, scan, head, count, next, held,
                     chunk, block, below>>
  BY DEF Ask, Goto, listVars, chunkVars
<1>2. Alone(t) /\ pc'[t] = "test"
  BY <1>1 DEF Alone, Typed, Idling
<1>3. ~Owns(t)
  BY <1>1 DEF Owns
<1>4. /\ Listed' = Listed /\ Chained' /\ Counts'
      /\ m_ptrAllocChunk' \in Listed \cup {NoChunk} => Owned'
      /\ \A u \in Threads, c \in Chunks : u # t /\ chunk'[u] = c =>
           /\ pc'[u] \in {"read", "cas"} => block'[u] \in Unused(c)'
           /\ pc'[u] = "cas" => below'[u] = next'[c][block'[u]]
  BY <1>1, <1>2, <1>3, QuietChunks
<1>5. Typed'
  <2>1. DOMAIN pc' = Threads /\ Allocating' \subseteq Allocators
    BY <1>1, <1>2, StillAllocating
  <2> QED BY <1>1, <1>2, <2>1 DEF Typed, TypeOK, Alone
<1>6. Working'
  BY <1>1, <1>2, <1>4 DEF Working, Alone, Idling, Popping, Pushing
<1>7. Owned'
  BY <1>1, <1>4 DEF Owned
<1>8. SeenStill'
  BY <1>2, <1>4 DEF SeenStill
<1> QED BY <1>4, <1>5, <1>6, <1>7, <1>8

LEMMA TestChunkStep ==
  ASSUME SmallInv, NEW t \in Threads, TestChunk(t)
  PROVE  SmallInv'
<1> USE DEF SmallInv
<1>1. /\ pc[t] = "test" /\ pc'[t] \in {"find", "take"}
      /\ pc'[t] = "take" => m_ptrAllocChunk # NoChunk /\ count[m_ptrAllocChunk] # 0
      /\ \A u \in Threads : u # t => pc'[u] = pc[u]
      /\ pc' \in [Threads -> Idling \cup Popping \cup Pushing]
      /\ UNCHANGED <<m_listChunks, m_ptrAllocChunk, scan, head, count, next, held,
                     chunk, block, below>>
  BY DEF TestChunk, Goto, listVars, chunkVars, Typed, Idling
<1>2. Alone(t)
  BY <1>1 DEF Alone
<1>3. ~Owns(t)
  BY <1>1 DEF Owns
<1>4. /\ Listed' = Listed /\ Chained' /\ Counts'
      /\ m_ptrAllocChunk' \in Listed \cup {NoChunk} => Owned'
      /\ \A u \in Threads, c \in Chunks : u # t /\ chunk'[u] = c =>
           /\ pc'[u] \in {"read", "cas"} => block'[u] \in Unused(c)'
           /\ pc'[u] = "cas" => below'[u] = next'[c][block'[u]]
  BY <1>1, <1>2, <1>3, QuietChunks
<1>5. Typed'
  <2>1. t \in Allocators
    BY <1>1 DEF Typed, TypeOK, Allocating
  <2>2. DOMAIN pc' = Threads /\ Allocating' \subseteq Allocators
    BY <1>2, <2>1, StillAllocating
  <2> QED BY <1>1, <2>2 DEF Typed, TypeOK
<1>6. Working'
  <2>1. pc'[t] = "take" => m_ptrAllocChunk \in Chunks /\ count[m_ptrAllocChunk] > 0
    <3>1. pc'[t] = "take" => m_ptrAllocChunk \in Chunks /\ count[m_ptrAllocChunk] \in Bytes
      BY <1>1 DEF Typed, TypeOK
    <3>2. \A x \in Bytes : x # 0 => x > 0
      BY SmallAssumption DEF Bytes
    <3> QED BY <1>1, <3>1, <3>2
  <2> QED BY <1>1, <1>4, <2>1 DEF Working, Idling, Popping, Pushing
<1>7. Owned'
  BY <1>1, <1>4 DEF Owned
<1>8. SeenStill'
  BY <1>1, <1>4 DEF SeenStill
<1> QED BY <1>4, <1>5, <1>6, <1>7, <1>8

LEMMA FindStep ==
  ASSUME InTurn, SmallInv, NEW t \in Threads, Find(t)
  PROVE  SmallInv'
<1> USE DEF SmallInv
<1>1. /\ pc[t] = "find" /\ pc' = [pc EXCEPT ![t] = "take"]
      /\ UNCHANGED <<m_listChunks, scan, head, count, next, held, chunk, block, below>>
  BY DEF Find, Goto, chunkVars
<1>2. PICK i \in DOMAIN m_listChunks :
        count[m_listChunks[i]] > 0 /\ m_ptrAllocChunk' = m_listChunks[i]
  BY DEF Find
<1>3. m_ptrAllocChunk' \in Listed /\ m_ptrAllocChunk' \in Chunks
  BY <1>2 DEF Listed, ToSet, Typed, TypeOK
<1>4. Alone(t) /\ pc'[t] = "take"
  BY <1>1 DEF Alone, Typed, Idling
<1>5. ~Owns(t)
  BY <1>1 DEF Owns
<1>6. /\ Listed' = Listed /\ Chained' /\ Counts'
      /\ m_ptrAllocChunk' \in Listed \cup {NoChunk} => Owned'
      /\ \A u \in Threads, c \in Chunks : u # t /\ chunk'[u] = c =>
           /\ pc'[u] \in {"read", "cas"} => block'[u] \in Unused(c)'
           /\ pc'[u] = "cas" => below'[u] = next'[c][block'[u]]
  BY <1>1, <1>4, <1>5, QuietChunks
<1>7. Typed'
  <2>1. t \in Allocators
    BY <1>1 DEF Typed, TypeOK, Allocating
  <2>2. DOMAIN pc' = Threads /\ Allocating' \subseteq Allocators
    BY <1>4, <2>1, StillAllocating
  <2> QED BY <1>1, <1>3, <1>4, <2>2 DEF Typed, TypeOK, Alone
<1>8. Working'
  <2>1. \A u \in Threads : u # t => pc[u] \notin InAllocate
    BY <1>1, OnlyAllocator DEF InAllocate
  <2> QED BY <1>1, <1>2, <1>3, <1>4, <1>6, <2>1
      DEF Working, Alone, Idling, Popping, Pushing, InAllocate
<1>9. Owned'
  BY <1>3, <1>6
<1>10. SeenStill'
  BY <1>4, <1>6 DEF SeenStill
<1> QED BY <1>6, <1>7, <1>8, <1>9, <1>10

LEMMA TakeChunkStep ==
  ASSUME SmallInv, NEW t \in Threads, TakeChunk(t)
  PROVE  SmallInv'
<1> USE DEF SmallInv
<1>1. /\ pc[t] = "take" /\ pc' = [pc EXCEPT ![t] = "load"]
      /\ chunk' = [chunk EXCEPT ![t] = m_ptrAllocChunk]
      /\ UNCHANGED <<m_listChunks, m_ptrAllocChunk, scan, head, count, next, held, block, below>>
  BY DEF TakeChunk, Goto, listVars, chunkVars
<1>2. Alone(t) /\ pc'[t] = "load" /\ chunk'[t] = m_ptrAllocChunk
  BY <1>1 DEF Alone, Typed, TypeOK, Popping
<1>3. ~Owns(t)
  BY <1>1 DEF Owns
<1>4. /\ Listed' = Listed /\ Chained' /\ Counts'
      /\ m_ptrAllocChunk' \in Listed \cup {NoChunk} => Owned'
      /\ \A u \in Threads, c \in Chunks : u # t /\ chunk'[u] = c =>
           /\ pc'[u] \in {"read", "cas"} => block'[u] \in Unused(c)'
           /\ pc'[u] = "cas" => below'[u] = next'[c][block'[u]]
  BY <1>1, <1>2, <1>3, QuietChunks
<1>5. Typed'
  <2>1. t \in Allocators
    BY <1>1 DEF Typed, TypeOK, Allocating
  <2>2. DOMAIN pc' = Threads /\ Allocating' \subseteq Allocators
    BY <1>2, <2>1, StillAllocating
  <2> QED BY <1>1, <1>2, <2>2 DEF Typed, TypeOK, Alone
<1>6. Working'
  <2>1. m_ptrAllocChunk \in Chunks /\ m_ptrAllocChunk \in Listed
    <3>1. m_ptrAllocChunk \in Chunks
      BY <1>1 DEF Working
    <3> QED BY <3>1, SmallAssumption DEF Owned
  <2> QED BY <1>1, <1>2, <1>4, <2>1 DEF Working, Alone, Idling, Popping, Pushing
<1>7. Owned'
  BY <1>1, <1>4 DEF Owned
<1>8. SeenStill'
  BY <1>2, <1>4 DEF SeenStill
<1> QED BY <1>4, <1>5, <1>6, <1>7, <1>8

LEMMA LoadHeadStep ==
  ASSUME SmallInv, NEW t \in Threads, NEW from \in {"load", "cas"}, LoadHead(t, from)
  PROVE  SmallInv'
<1> USE DEF SmallInv
<1> DEFINE c == chunk[t]
           h == head[c]
           none == h = m_numBlocks
<1>1. /\ pc[t] = from /\ pc' = [pc EXCEPT ![t] = IF none THEN "test" ELSE "read"]
      /\ block' = [block EXCEPT ![t] = IF none THEN NoBlock ELSE h]
      /\ chunk' = [chunk EXCEPT ![t] = IF none THEN NoChunk ELSE c]
      /\ below' = [below EXCEPT ![t] = NoBlock]
      /\ UNCHANGED <<m_listChunks, m_ptrAllocChunk, scan, head, count, next, held>>
  BY DEF LoadHead, Goto, listVars, chunkVars
<1>2. pc[t] \in Popping /\ c \in Listed /\ c = m_ptrAllocChunk /\ c \in Chunks
      /\ count[m_ptrAllocChunk] > 0
  BY <1>1 DEF Working, Popping
<1>3. h \in Bytes /\ (~none => h \in Indices /\ h \in Unused(c))
  <2>1. Chain(h, next[c], Unused(c)) /\ Unused(c) \in SUBSET Indices
    BY <1>2, UnusedIs DEF Chained
  <2> HIDE DEF c, h
  <2> QED BY <2>1, ChainHead
<1> HIDE DEF c, h, none
<1>4. /\ pc'[t] = IF none THEN "test" ELSE "read"
      /\ block'[t] = IF none THEN NoBlock ELSE h
      /\ chunk'[t] = IF none THEN NoChunk ELSE c
  BY <1>1 DEF Typed, TypeOK
<1>5. Alone(t)
  BY <1>1 DEF Alone, Typed, TypeOK, Popping, Idling
<1>6. ~Owns(t)
  BY <1>1 DEF Owns
<1>7. /\ Listed' = Listed /\ Chained' /\ Counts'
      /\ m_ptrAllocChunk' \in Listed \cup {NoChunk} => Owned'
      /\ \A u \in Threads, d \in Chunks : u # t /\ chunk'[u] = d =>
           /\ pc'[u] \in {"read", "cas"} => block'[u] \in Unused(d)'
           /\ pc'[u] = "cas" => below'[u] = next'[d][block'[u]]
  BY <1>1, <1>4, <1>5, <1>6, QuietChunks
<1>8. Typed'
  <2>1. t \in Allocators
    BY <1>1 DEF Typed, TypeOK, Allocating
  <2>2. DOMAIN pc' = Threads /\ Allocating' \subseteq Allocators
    BY <1>5, <2>1, StillAllocating
  <2>3. /\ block' \in [Threads -> Indices \cup {NoBlock}]
        /\ chunk' \in [Threads -> Chunks \cup {NoChunk}]
        /\ below' \in [Threads -> Bytes \cup {NoBlock}]
    BY <1>1, <1>2, <1>3 DEF Typed, TypeOK
  <2> QED BY <1>1, <1>5, <2>2, <2>3 DEF Typed, TypeOK, Alone
<1>9. Working'
  BY <1>1, <1>2, <1>3, <1>4, <1>5, <1>7 DEF Working, Alone, Idling, Popping, Pushing
<1>10. Owned'
  BY <1>1, <1>7 DEF Owned
<1>11. SeenStill'
  <2>1. \A d : Unused(d)' = Unused(d)
    <3>1. UNCHANGED held /\ pc'[t] \notin {"uncount", "push", "count"} /\ pc[t] # "count"
      BY <1>1, <1>4
    <3> QED BY <1>5, <1>6, <3>1, QuietStep
  <2>2. \A d \in Chunks : chunk'[t] = d /\ pc'[t] = "read" => block'[t] \in Unused(d)'
    BY <1>3, <1>4, <2>1
  <2>3. pc'[t] # "cas"
    BY <1>4
  <2> QED BY <1>7, <2>2, <2>3 DEF SeenStill
<1> QED BY <1>7, <1>8, <1>9, <1>10, <1>11

LEMMA ReadNextStep ==
  ASSUME SmallInv, NEW t \in Threads, ReadNext(t)
  PROVE  SmallInv'
<1> USE DEF SmallInv
<1> DEFINE c == chunk[t]
           b == block[t]
<1>1. /\ pc[t] = "read" /\ pc' = [pc EXCEPT ![t] = "cas"]
      /\ UNCHANGED <<m_listChunks, m_ptrAllocChunk, scan, head, count, next, held, chunk, block>>
  BY DEF ReadNext, Goto, listVars, chunkVars
<1>2. pc[t] \in Popping /\ c \in Listed /\ c = m_ptrAllocChunk /\ c \in Chunks /\ b \in Indices
      /\ count[m_ptrAllocChunk] > 0
  BY <1>1 DEF Working, Popping
<1>3. b \in Unused(c)
  BY <1>1, <1>2 DEF SeenStill
<1>4. next[c][b] \in Bytes /\ next[c][b] # UserData
  <2>1. Chain(head[c], next[c], Unused(c)) /\ Unused(c) \in SUBSET Indices
    BY <1>2, UnusedIs DEF Chained
  <2>2. \A x \in Unused(c) : next[c][x] \in Bytes
    BY <2>1, ChainHead
  <2> QED BY <1>3, <2>2, IndicesAre
<1>5. below' = [below EXCEPT ![t] = next[c][b]]
  BY <1>4 DEF ReadNext
<1> HIDE DEF c, b
<1>6. pc'[t] = "cas" /\ below'[t] = next[c][b]
  BY <1>1, <1>5 DEF Typed, TypeOK
<1>7. Alone(t)
  BY <1>1, <1>5 DEF Alone, Typed, TypeOK, Popping, Idling
<1>8. ~Owns(t)
  BY <1>1 DEF Owns
<1>9. /\ Listed' = Listed /\ Chained' /\ Counts'
      /\ m_ptrAllocChunk' \in Listed \cup {NoChunk} => Owned'
      /\ \A u \in Threads, d \in Chunks : u # t /\ chunk'[u] = d =>
           /\ pc'[u] \in {"read", "cas"} => block'[u] \in Unused(d)'
           /\ pc'[u] = "cas" => below'[u] = next'[d][block'[u]]
  BY <1>1, <1>6, <1>7, <1>8, QuietChunks
<1>10. Typed'
  <2>1. t \in Allocators
    BY <1>1 DEF Typed, TypeOK, Allocating
  <2>2. DOMAIN pc' = Threads /\ Allocating' \subseteq Allocators
    BY <1>7, <2>1, StillAllocating
  <2>3. below' \in [Threads -> Bytes \cup {NoBlock}]
    BY <1>4, <1>5 DEF Typed, TypeOK
  <2> QED BY <1>1, <1>7, <2>2, <2>3 DEF Typed, TypeOK, Alone
<1>11. Working'
  BY <1>1, <1>2, <1>6, <1>7, <1>9 DEF Working, Alone, Idling, Popping, Pushing, c, b
<1>12. Owned'
  BY <1>1, <1>9 DEF Owned
<1>13. SeenStill'
  <2>1. \A d : Unused(d)' = Unused(d)
    <3>1. UNCHANGED held /\ pc'[t] \notin {"uncount", "push", "count"} /\ pc[t] # "count"
      BY <1>1, <1>6
    <3> QED BY <1>7, <1>8, <3>1, QuietStep
  <2>2. \A d \in Chunks : chunk'[t] = d => block'[t] \in Unused(d)'
           /\ below'[t] = next'[d][block'[t]]
    BY <1>1, <1>3, <1>6, <2>1 DEF c, b
  <2> QED BY <1>6, <1>9, <2>2 DEF SeenStill
<1> QED BY <1>9, <1>10, <1>11, <1>12, <1>13
\* A step of t that works on chunk c leaves the other chunks alone.
LEMMA ChunkStep ==
  ASSUME SmallInv, NEW t \in Threads, Alone(t), NEW c \in Chunks,
         pc[t] \in Popping \cup Pushing => chunk[t] = c,
         pc'[t] \in Popping \cup Pushing => chunk'[t] = c,
         \A d, b : d # c => (<<d, b>> \in held' <=> <<d, b>> \in held),
         \A d \in Chunks : d # c => head'[d] = head[d] /\ count'[d] = count[d]
                  /\ next'[d] = next[d],
         UNCHANGED m_listChunks
  PROVE  /\ Listed' = Listed
         /\ \A d : d # c => Unused(d)' = Unused(d)
         /\ Chain(head[c], next[c], Unused(c))' => Chained'
         /\ count'[c] + Cardinality(At("count", c)')
              = Cardinality(Unused(c)') + Cardinality(At("uncount", c)') => Counts'
<1>1. Listed' = Listed /\ Listed \subseteq Chunks
  BY DEF Listed, ToSet, SmallInv, Typed, TypeOK
<1>2. \A d : \A u \in Threads : d # c =>
        /\ Owns(u)' /\ chunk'[u] = d <=> Owns(u) /\ chunk[u] = d
        /\ Owns(u) /\ chunk[u] = d => block'[u] = block[u]
        /\ pc'[u] = "count" /\ chunk'[u] = d <=> pc[u] = "count" /\ chunk[u] = d
        /\ pc'[u] = "uncount" /\ chunk'[u] = d <=> pc[u] = "uncount" /\ chunk[u] = d
  BY DEF Alone, Owns, Popping, Pushing
<1>3. ASSUME NEW d, d # c PROVE Unused(d)' = Unused(d)
  <2>1. ASSUME NEW b PROVE b \in UsedBlocks(d)' <=> b \in UsedBlocks(d)
    <3>1. (\E u \in Threads : Owns(u)' /\ chunk'[u] = d /\ block'[u] = b)
            <=> \E u \in Threads : Owns(u) /\ chunk[u] = d /\ block[u] = b
      BY <1>2, <1>3
    <3>2. <<d, b>> \in held' <=> <<d, b>> \in held
      BY <1>3
    <3> QED BY <3>1, <3>2, UsedAre
  <2> QED BY <2>1 DEF Unused
<1>4. ASSUME NEW d, d # c
      PROVE  At("count", d)' = At("count", d) /\ At("uncount", d)' = At("uncount", d)
  BY <1>2, <1>4 DEF At
<1>5. ASSUME Chain(head[c], next[c], Unused(c))' PROVE Chained'
  <2> SUFFICES ASSUME NEW d \in Listed PROVE Chain(head[d], next[d], Unused(d))'
    BY <1>1 DEF Chained
  <2>1. CASE d = c
    BY <1>5, <2>1
  <2>2. CASE d # c
    <3>1. head'[d] = head[d] /\ next'[d] = next[d] /\ Unused(d)' = Unused(d)
      BY <1>1, <1>3, <2>2
    <3> QED BY <3>1 DEF SmallInv, Chained
  <2> QED BY <2>1, <2>2
<1>6. ASSUME count'[c] + Cardinality(At("count", c)')
               = Cardinality(Unused(c)') + Cardinality(At("uncount", c)')
      PROVE  Counts'
  <2> SUFFICES ASSUME NEW d \in Listed
               PROVE  count'[d] + Cardinality(At("count", d)')
                        = Cardinality(Unused(d)') + Cardinality(At("uncount", d)')
    BY <1>1 DEF Counts
  <2>1. CASE d = c
    BY <1>6, <2>1
  <2>2. CASE d # c
    <3>1. count'[d] = count[d] /\ Unused(d)' = Unused(d)
          /\ At("count", d)' = At("count", d) /\ At("uncount", d)' = At("uncount", d)
      BY <1>1, <1>3, <1>4, <2>2
    <3> QED BY <3>1 DEF SmallInv, Counts
  <2> QED BY <2>1, <2>2
<1> QED BY <1>1, <1>3, <1>5, <1>6

\* Between a pop and its count only one thread can be.
LEMMA Room ==
  ASSUME InTurn, SmallInv, NEW c \in Listed
  PROVE  Cardinality(Unused(c)) + Cardinality(At("uncount", c)) <= m_numBlocks
<1>1. Unused(c) \in SUBSET Indices
  BY UnusedIs
<1>2. Cardinality(Unused(c)) \in 0..m_numBlocks
      /\ (Unused(c) = Indices <=> Cardinality(Unused(c)) = m_numBlocks)
  BY <1>1, Sizes
<1>3. CASE At("uncount", c) = {}
  <2>1. Cardinality(At("uncount", c)) = 0
    BY <1>3, FS_EmptySet
  <2> QED BY <1>2, <2>1, IndicesAre
<1>4. CASE At("uncount", c) # {}
  <2>1. PICK u \in Threads : pc[u] = "uncount" /\ chunk[u] = c
    BY <1>4 DEF At
  <2>2. At("uncount", c) = {u}
    <3>1. \A w \in Threads : w # u => pc[w] \notin InAllocate
      BY <2>1, OnlyAllocator DEF InAllocate, Popping, SmallInv
    <3> QED BY <2>1, <3>1 DEF At, InAllocate, Popping
  <2>3. Cardinality(At("uncount", c)) = 1
    BY <2>2, FS_Singleton
  <2>4. block[u] \in Indices /\ block[u] \in UsedBlocks(c)
    BY <2>1, UsedAre DEF SmallInv, Working, Owns
  <2>5. Unused(c) # Indices
    BY <2>4 DEF Unused
  <2> QED BY <1>2, <2>3, <2>5, IndicesAre
<1> QED BY <1>3, <1>4

LEMMA AddChunkStep ==
  ASSUME InTurn, SmallInv, NEW t \in Threads, AddChunk(t)
  PROVE  SmallInv'
<1> USE DEF SmallInv
<1>1. PICK c \in Chunks \ Listed :
        /\ m_listChunks' = Append(m_listChunks, c) /\ m_ptrAllocChunk' = c
        /\ head' = [head EXCEPT ![c] = 0] /\ count' = [count EXCEPT ![c] = m_numBlocks]
        /\ next' = [next EXCEPT ![c] = Linked]
  BY DEF AddChunk
<1>2. pc[t] = "find" /\ pc' = [pc EXCEPT ![t] = "take"]
      /\ UNCHANGED <<scan, held, chunk, block, below>>
  BY DEF AddChunk, Goto
<1>3. m_listChunks' \in Seq(Chunks) /\ Listed' = Listed \cup {c}
  BY <1>1, ListAppend DEF Listed, Typed, TypeOK
<1>4. /\ head'[c] = 0 /\ count'[c] = m_numBlocks /\ next'[c] = Linked
      /\ \A d \in Chunks : d # c => head'[d] = head[d] /\ count'[d] = count[d] /\ next'[d] = next[d]
  BY <1>1 DEF Typed, TypeOK
<1>5. Alone(t) /\ pc'[t] = "take"
  BY <1>2 DEF Alone, Typed, Idling
<1>6. ~Owns(t)
  BY <1>2 DEF Owns
<1>7. /\ \A d : UsedBlocks(d)' = UsedBlocks(d) /\ Unused(d)' = Unused(d)
      /\ \A d : At("count", d)' = At("count", d) /\ At("uncount", d)' = At("uncount", d)
      /\ \A u \in Threads : Owns(u)' => <<chunk'[u], block'[u]>> \notin held'
      /\ \A u, w \in Threads :
           Owns(u)' /\ Owns(w)' /\ chunk'[u] = chunk'[w] /\ block'[u] = block'[w] => u = w
  <2>1. UNCHANGED held /\ pc'[t] \notin {"uncount", "push", "count"} /\ pc[t] # "count"
    BY <1>2, <1>5
  <2> QED BY <1>5, <1>6, <2>1, QuietStep
\* Nobody uses a chunk that is not on the list.
<1>8. /\ Unused(c) = Indices
      /\ At("count", c) = {} /\ At("uncount", c) = {}
  <2>1. \A u \in Threads : pc[u] \in Popping \cup Pushing => chunk[u] # c
    BY <1>1 DEF Working
  <2>2. \A b : <<c, b>> \notin held
    BY <1>1 DEF Owned
  <2>3. \A u \in Threads : Owns(u) => chunk[u] # c
    BY <2>1 DEF Owns, Popping, Pushing
  <2>4. \A b : b \notin UsedBlocks(c)
    BY <2>2, <2>3, UsedAre
  <2>5. At("count", c) = {} /\ At("uncount", c) = {}
    BY <2>1 DEF At, Popping, Pushing
  <2> QED BY <2>4, <2>5 DEF Unused
<1>9. Chained'
  <2> SUFFICES ASSUME NEW d \in Listed \cup {c} PROVE Chain(head[d], next[d], Unused(d))'
    BY <1>3 DEF Chained
  <2>1. CASE d = c
    BY <1>4, <1>7, <1>8, <2>1, ChainAll
  <2>2. CASE d # c
    <3>1. d \in Listed /\ d \in Chunks
      BY <2>2 DEF Typed, TypeOK, Listed, ToSet
    <3>2. head'[d] = head[d] /\ next'[d] = next[d] /\ Unused(d)' = Unused(d)
      BY <1>4, <1>7, <2>2, <3>1
    <3> QED BY <3>1, <3>2 DEF Chained
  <2> QED BY <2>1, <2>2
<1>10. Counts'
  <2> SUFFICES ASSUME NEW d \in Listed \cup {c}
               PROVE  count'[d] + Cardinality(At("count", d)')
                        = Cardinality(Unused(d)') + Cardinality(At("uncount", d)')
    BY <1>3 DEF Counts
  <2>1. CASE d = c
    <3>1. Cardinality(Unused(c)) = m_numBlocks
      BY <1>8, IndicesAre
    <3>2. Cardinality(At("count", c)) = 0 /\ Cardinality(At("uncount", c)) = 0
      BY <1>8, FS_EmptySet
    <3> QED BY <1>4, <1>7, <2>1, <3>1, <3>2
  <2>2. CASE d # c
    <3>1. d \in Listed /\ d \in Chunks
      BY <2>2 DEF Typed, TypeOK, Listed, ToSet
    <3>2. count'[d] = count[d] /\ Unused(d)' = Unused(d)
          /\ At("count", d)' = At("count", d) /\ At("uncount", d)' = At("uncount", d)
      BY <1>4, <1>7, <2>2, <3>1
    <3> QED BY <3>1, <3>2 DEF Counts
  <2> QED BY <2>1, <2>2
<1>11. Typed'
  <2>1. t \in Allocators
    BY <1>2 DEF Typed, TypeOK, Allocating
  <2>2. DOMAIN pc' = Threads /\ Allocating' \subseteq Allocators
    BY <1>5, <2>1, StillAllocating
  <2>3. head' \in [Chunks -> Bytes] /\ count' \in [Chunks -> Bytes]
    BY <1>1, IndicesAre DEF Typed, TypeOK
  <2>4. next' \in [Chunks -> [Indices -> Bytes \cup {UserData}]]
    <3>1. Linked \in [Indices -> Bytes \cup {UserData}]
      BY SmallAssumption DEF Linked, Indices, Bytes, m_numBlocks
    <3> HIDE DEF Linked
    <3> QED BY <1>1, <3>1 DEF Typed, TypeOK
  <2> QED BY <1>1, <1>2, <1>3, <1>5, <2>2, <2>3, <2>4 DEF Typed, TypeOK, Alone
<1>12. Working'
  <2>1. \A u \in Threads : u # t => pc[u] \notin InAllocate
    BY <1>2, OnlyAllocator DEF InAllocate
  <2>2. \A u \in Threads : u # t =>
          /\ pc'[u] \in Idling => chunk'[u] = NoChunk
          /\ pc'[u] \in Popping \cup Pushing => chunk'[u] \in Listed'
          /\ pc'[u] \notin {"take"} \cup Popping
          /\ pc'[u] \in Pushing => block'[u] \in Indices
    BY <1>2, <1>3, <1>5, <2>1 DEF Working, Alone, InAllocate
  <2>3. chunk'[t] = NoChunk
    BY <1>2 DEF Working, Idling
  <2>4. m_ptrAllocChunk' \in Chunks /\ count'[m_ptrAllocChunk'] > 0
    <3>1. m_numBlocks > 0
      BY IndicesAre
    <3> QED BY <1>1, <1>4, <3>1
  <2> QED BY <1>5, <2>2, <2>3, <2>4 DEF Working, Idling, Popping, Pushing
<1>13. Owned'
  BY <1>1, <1>2, <1>3, <1>7 DEF Owned
<1>14. SeenStill'
  <2> SUFFICES ASSUME NEW u \in Threads, pc'[u] \in {"read", "cas"} PROVE FALSE
    BY DEF SeenStill
  <2>1. u # t /\ pc[u] \in {"read", "cas"}
    BY <1>5 DEF Alone
  <2> QED BY <1>2, <2>1, OnlyAllocator DEF InAllocate, Popping
<1> QED BY <1>9, <1>10, <1>11, <1>12, <1>13, <1>14
LEMMA SeenKept ==
  ASSUME SmallInv, NEW t \in Threads, Alone(t), pc'[t] \notin {"read", "cas"},
         \A d \in Chunks : \A x \in Unused(d) :
           x \in Unused(d)' /\ next'[d][x] = next[d][x]
  PROVE  SeenStill'
<1> SUFFICES ASSUME NEW u \in Threads, NEW d \in Chunks, chunk'[u] = d
             PROVE  /\ pc'[u] \in {"read", "cas"} => block'[u] \in Unused(d)'
                    /\ pc'[u] = "cas" => below'[u] = next'[d][block'[u]]
  BY DEF SeenStill
<1>1. CASE u = t
  BY <1>1
<1>2. CASE u # t
  <2>1. /\ pc'[u] = pc[u] /\ chunk[u] = d /\ block'[u] = block[u] /\ below'[u] = below[u]
    BY <1>2 DEF Alone
  <2>2. /\ pc[u] \in {"read", "cas"} => block[u] \in Unused(d)
        /\ pc[u] = "cas" => below[u] = next[d][block[u]]
    BY <2>1 DEF SmallInv, SeenStill
  <2> QED BY <2>1, <2>2
<1> QED BY <1>1, <1>2

LEMMA PopStep ==
  ASSUME InTurn, SmallInv, NEW t \in Threads, Pop(t)
  PROVE  SmallInv'
<1> USE DEF SmallInv
<1>1. /\ pc[t] = "cas" /\ pc' = [pc EXCEPT ![t] = "uncount"]
      /\ head[chunk[t]] = block[t] /\ head' = [head EXCEPT ![chunk[t]] = below[t]]
      /\ UNCHANGED <<m_listChunks, m_ptrAllocChunk, scan, count, next, held, chunk, block, below>>
  BY DEF Pop, Goto, listVars
<1>2. PICK c \in Chunks : c = chunk[t] /\ c \in Listed /\ c = m_ptrAllocChunk /\ count[c] > 0
  BY <1>1 DEF Working, Popping
<1>3. PICK b \in Indices : b = block[t]
  BY <1>1 DEF Working
<1>4. b \in Unused(c) /\ below[t] = next[c][b]
  BY <1>1, <1>2, <1>3 DEF SeenStill
<1>5. Alone(t) /\ pc'[t] = "uncount"
  BY <1>1 DEF Alone, Typed, Popping
<1>6. /\ head[c] = b /\ head'[c] = next[c][b]
      /\ \A d \in Chunks : d # c => head'[d] = head[d]
  BY <1>1, <1>2, <1>3, <1>4 DEF Typed, TypeOK
<1>7. /\ Listed' = Listed
      /\ \A d : d # c => Unused(d)' = Unused(d)
      /\ Chain(head[c], next[c], Unused(c))' => Chained'
      /\ count'[c] + Cardinality(At("count", c)')
           = Cardinality(Unused(c)') + Cardinality(At("uncount", c)') => Counts'
  BY <1>1, <1>2, <1>5, <1>6, ChunkStep
<1>8. \A u \in Threads : /\ u # t => (Owns(u)' <=> Owns(u))
                         /\ chunk'[u] = chunk[u] /\ block'[u] = block[u]
  BY <1>1, <1>5 DEF Alone, Owns
<1>9. Owns(t)' /\ ~Owns(t)
  BY <1>1, <1>5 DEF Owns
<1>10. Unused(c)' = Unused(c) \ {b}
  <2>1. ASSUME NEW x PROVE x \in UsedBlocks(c)' <=> x \in UsedBlocks(c) \/ x = b
    <3>1. (\E u \in Threads : Owns(u)' /\ chunk'[u] = c /\ block'[u] = x)
            <=> (\E u \in Threads : Owns(u) /\ chunk[u] = c /\ block[u] = x) \/ x = b
      BY <1>2, <1>3, <1>8, <1>9
    <3>2. <<c, x>> \in held' <=> <<c, x>> \in held
      BY <1>1
    <3> QED BY <3>1, <3>2, UsedAre
  <2> QED BY <2>1 DEF Unused
<1>11. Chained'
  <2>1. Chain(head[c], next[c], Unused(c)) /\ Unused(c) \in SUBSET Indices
    BY <1>2, UnusedIs DEF Chained
  <2>2. head[c] # m_numBlocks
    BY <1>6, IndicesAre
  <2>3. Chain(next[c][head[c]], next[c], Unused(c) \ {head[c]})
    BY <2>1, <2>2, ChainPop
  <2> QED BY <1>1, <1>6, <1>7, <1>10, <2>3
<1>12. Counts'
  <2>1. At("count", c)' = At("count", c) /\ At("uncount", c)' = At("uncount", c) \cup {t}
    BY <1>1, <1>2, <1>5, <1>8 DEF At, Alone
  <2>2. t \notin At("uncount", c)
    BY <1>1 DEF At
  <2>3. Cardinality(At("uncount", c) \cup {t}) = Cardinality(At("uncount", c)) + 1
        /\ Cardinality(At("uncount", c)) \in Nat /\ Cardinality(At("count", c)) \in Nat
    BY <2>2, AtIs
  <2>4. Cardinality(Unused(c) \ {b}) = Cardinality(Unused(c)) - 1 /\ Cardinality(Unused(c)) \in Nat
    BY <1>4, UnusedIs, Sizes, IndicesAre
  <2>5. count[c] + Cardinality(At("count", c))
          = Cardinality(Unused(c)) + Cardinality(At("uncount", c))
    BY <1>2 DEF Counts
  <2>6. count'[c] = count[c] /\ count[c] \in Nat
    BY <1>1, IndicesAre DEF Typed, TypeOK
  <2>7. /\ Cardinality(At("count", c)') = Cardinality(At("count", c))
        /\ Cardinality(At("uncount", c)') = Cardinality(At("uncount", c)) + 1
        /\ Cardinality(Unused(c)') = Cardinality(Unused(c)) - 1
    BY <1>10, <2>1, <2>3, <2>4
  <2> QED BY <1>7, <2>3, <2>4, <2>5, <2>6, <2>7
<1>13. Typed'
  <2>1. t \in Allocators
    BY <1>1 DEF Typed, TypeOK, Allocating
  <2>2. DOMAIN pc' = Threads /\ Allocating' \subseteq Allocators
    BY <1>5, <2>1, StillAllocating
  <2>3. head' \in [Chunks -> Bytes]
    <3>1. Chain(head[c], next[c], Unused(c)) /\ Unused(c) \in SUBSET Indices
      BY <1>2, UnusedIs DEF Chained
    <3>2. next[c][b] \in Bytes
      BY <1>4, <3>1, ChainHead
    <3> QED BY <1>1, <1>4, <3>2 DEF Typed, TypeOK
  <2> QED BY <1>1, <1>5, <2>2, <2>3 DEF Typed, TypeOK, Alone
<1>14. Working'
  BY <1>1, <1>2, <1>3, <1>5, <1>7 DEF Working, Alone, Idling, Popping, Pushing
<1>15. Owned'
  <2>1. <<c, b>> \notin held /\ \A u \in Threads : Owns(u) /\ chunk[u] = c => block[u] # b
    BY <1>4, UsedAre DEF Unused
  <2>2. \A u \in Threads : Owns(u)' => <<chunk'[u], block'[u]>> \notin held'
    BY <1>1, <1>2, <1>3, <1>8, <2>1 DEF Owned
  <2>3. \A u, w \in Threads :
          Owns(u)' /\ Owns(w)' /\ chunk'[u] = chunk'[w] /\ block'[u] = block'[w] => u = w
    BY <1>2, <1>3, <1>8, <2>1 DEF Owned
  <2>4. m_ptrAllocChunk' \in Listed' \cup {NoChunk} /\ \A u \in held' : u[1] \in Listed'
    BY <1>1, <1>7 DEF Owned
  <2> QED BY <2>2, <2>3, <2>4 DEF Owned
<1>16. SeenStill'
  <2> SUFFICES ASSUME NEW u \in Threads, pc'[u] \in {"read", "cas"} PROVE FALSE
    BY DEF SeenStill
  <2>1. u # t /\ pc[u] \in {"read", "cas"}
    BY <1>5 DEF Alone
  <2> QED BY <1>1, <2>1, OnlyAllocator DEF InAllocate, Popping
<1> QED BY <1>11, <1>12, <1>13, <1>14, <1>15, <1>16

LEMMA UncountStep ==
  ASSUME InTurn, SmallInv, NEW t \in Threads, Uncount(t)
  PROVE  SmallInv'
<1> USE DEF SmallInv
<1>1. /\ pc[t] = "uncount" /\ pc' = [pc EXCEPT ![t] = "idle"]
      /\ count' = [count EXCEPT ![chunk[t]] = (@ + UCHAR_MAX) % (UCHAR_MAX + 1)]
      /\ held' = held \cup {<<chunk[t], block[t]>>}
      /\ next' = [next EXCEPT ![chunk[t]][block[t]] = UserData]
      /\ chunk' = [chunk EXCEPT ![t] = NoChunk] /\ block' = [block EXCEPT ![t] = NoBlock]
      /\ below' = [below EXCEPT ![t] = NoBlock]
      /\ UNCHANGED <<m_listChunks, m_ptrAllocChunk, scan, head>>
  BY DEF Uncount, Receive, Goto, listVars
<1>2. PICK c \in Chunks : c = chunk[t] /\ c \in Listed /\ c = m_ptrAllocChunk /\ count[c] > 0
  BY <1>1 DEF Working, Popping
<1>3. PICK b \in Indices : b = block[t]
  BY <1>1 DEF Working
<1>4. /\ held' = held \cup {<<c, b>>}
      /\ \A d \in Chunks, x \in Indices :
           next'[d][x] = IF d = c /\ x = b THEN UserData ELSE next[d][x]
      /\ \A d \in Chunks : d # c => count'[d] = count[d] /\ next'[d] = next[d]
      /\ next' \in [Chunks -> [Indices -> Bytes \cup {UserData}]]
  BY <1>1, <1>2, <1>3 DEF Typed, TypeOK
<1>5. count[c] \in Bytes /\ count'[c] = count[c] - 1
  <2>1. count[c] \in Bytes /\ count'[c] = (count[c] + UCHAR_MAX) % (UCHAR_MAX + 1)
    BY <1>1, <1>2 DEF Typed, TypeOK
  <2>2. ASSUME NEW n \in Bytes, n > 0 PROVE (n + UCHAR_MAX) % (UCHAR_MAX + 1) = n - 1
    BY <2>2, SmallAssumption DEF Bytes
  <2> QED BY <1>2, <2>1, <2>2
<1>6. Alone(t) /\ pc'[t] = "idle" /\ chunk'[t] = NoChunk
  BY <1>1 DEF Alone, Typed, TypeOK, Idling
<1>7. /\ Listed' = Listed
      /\ \A d : d # c => Unused(d)' = Unused(d)
      /\ Chain(head[c], next[c], Unused(c))' => Chained'
      /\ count'[c] + Cardinality(At("count", c)')
           = Cardinality(Unused(c)') + Cardinality(At("uncount", c)') => Counts'
  <2>1. /\ pc[t] \in Popping \cup Pushing => chunk[t] = c
        /\ pc'[t] \in Popping \cup Pushing => chunk'[t] = c
    BY <1>2, <1>6 DEF Popping, Pushing
  <2>2. /\ \A d, x : d # c => (<<d, x>> \in held' <=> <<d, x>> \in held)
        /\ \A d \in Chunks : d # c => head'[d] = head[d] /\ count'[d] = count[d]
                 /\ next'[d] = next[d]
        /\ UNCHANGED m_listChunks
    BY <1>1, <1>4
  <2> QED BY <1>6, <2>1, <2>2, ChunkStep
<1>8. \A u \in Threads : u # t => /\ Owns(u)' <=> Owns(u)
                                  /\ chunk'[u] = chunk[u] /\ block'[u] = block[u]
  BY <1>6 DEF Alone, Owns
<1>9. ~Owns(t)' /\ Owns(t)
  BY <1>1, <1>6 DEF Owns
<1>10. Unused(c)' = Unused(c) /\ b \notin Unused(c)
  <2>1. ASSUME NEW x PROVE x \in UsedBlocks(c)' <=> x \in UsedBlocks(c)
    <3>1. CASE x = b
      BY <1>2, <1>3, <1>4, <1>9, <3>1, UsedAre
    <3>2. CASE x # b
      <4>1. <<c, x>> \in held' <=> <<c, x>> \in held
        BY <1>4, <3>2
      <4>2. (\E u \in Threads : Owns(u)' /\ chunk'[u] = c /\ block'[u] = x)
              <=> \E u \in Threads : Owns(u) /\ chunk[u] = c /\ block[u] = x
        BY <1>3, <1>8, <1>9, <3>2
      <4> QED BY <4>1, <4>2, UsedAre
    <3> QED BY <3>1, <3>2
  <2>2. b \in UsedBlocks(c)
    BY <1>2, <1>3, <1>9, UsedAre
  <2> QED BY <2>1, <2>2 DEF Unused
<1>11. Chained'
  <2>1. Chain(head[c], next[c], Unused(c)) /\ Unused(c) \in SUBSET Indices
    BY <1>2, UnusedIs DEF Chained
  <2>2. \A x \in Unused(c) : next'[c][x] = next[c][x]
    BY <1>4, <1>10, <2>1
  <2>3. Chain(head[c], next'[c], Unused(c))
    BY <2>1, <2>2, ChainSame
  <2> QED BY <1>1, <1>7, <1>10, <2>3
<1>12. Counts'
  <2>1. At("count", c)' = At("count", c) /\ At("uncount", c)' = At("uncount", c) \ {t}
    BY <1>1, <1>2, <1>6, <1>8 DEF At, Alone
  <2>2. t \in At("uncount", c)
    BY <1>1, <1>2 DEF At
  <2>3. Cardinality(At("uncount", c) \ {t}) = Cardinality(At("uncount", c)) - 1
        /\ Cardinality(At("uncount", c)) \in Nat /\ Cardinality(At("count", c)) \in Nat
    BY <2>2, AtIs
  <2>4. Cardinality(Unused(c)) \in Nat
    BY UnusedIs, Sizes, IndicesAre
  <2>5. count[c] + Cardinality(At("count", c))
          = Cardinality(Unused(c)) + Cardinality(At("uncount", c))
    BY <1>2 DEF Counts
  <2>6. count[c] \in Nat
    BY <1>5, IndicesAre
  <2>7. /\ Cardinality(At("count", c)') = Cardinality(At("count", c))
        /\ Cardinality(At("uncount", c)') = Cardinality(At("uncount", c)) - 1
        /\ Cardinality(Unused(c)') = Cardinality(Unused(c))
    BY <1>10, <2>1, <2>3
  <2> QED BY <1>5, <1>7, <2>3, <2>4, <2>5, <2>6, <2>7
<1>13. Typed'
  <2>1. DOMAIN pc' = Threads /\ Allocating' \subseteq Allocators
    BY <1>6, StillAllocating DEF InAllocate, Popping
  <2>2. count' \in [Chunks -> Bytes]
    <3>1. count[c] - 1 \in Bytes
      <4>1. \A n \in Bytes : n > 0 => n - 1 \in Bytes
        BY SmallAssumption DEF Bytes
      <4> QED BY <1>2, <1>5, <4>1
    <3>2. (count[c] + UCHAR_MAX) % (UCHAR_MAX + 1) \in Bytes
      BY <1>1, <1>2, <1>5, <3>1 DEF Typed, TypeOK
    <3> QED BY <1>1, <1>2, <3>2 DEF Typed, TypeOK
  <2>3. held' \subseteq Chunks \X Indices
    BY <1>4 DEF Typed, TypeOK
  <2> QED BY <1>1, <1>4, <1>6, <2>1, <2>2, <2>3 DEF Typed, TypeOK, Alone
<1>14. Working'
  <2>1. \A u \in Threads : u # t => pc[u] \notin InAllocate
    BY <1>1, OnlyAllocator DEF InAllocate, Popping
  <2>2. \A u \in Threads : u # t =>
          /\ pc'[u] \in Idling => chunk'[u] = NoChunk
          /\ pc'[u] \in Popping \cup Pushing => chunk'[u] \in Listed'
          /\ pc'[u] \notin {"take"} \cup Popping
          /\ pc'[u] \in Pushing => block'[u] \in Indices
    BY <1>7, <1>6, <2>1 DEF Working, Alone, InAllocate
  <2> QED BY <1>6, <2>2 DEF Working, Idling, Popping, Pushing
<1>15. Owned'
  <2>1. \A u \in held' : u[1] \in Listed'
    BY <1>2, <1>4, <1>7 DEF Owned
  <2>2. ASSUME NEW u \in Threads, Owns(u)' PROVE <<chunk'[u], block'[u]>> \notin held'
    <3>1. u # t /\ Owns(u) /\ chunk'[u] = chunk[u] /\ block'[u] = block[u]
      BY <1>8, <1>9, <2>2
    <3>2. <<chunk[u], block[u]>> \notin held /\ ~(chunk[u] = c /\ block[u] = b)
      BY <1>2, <1>3, <1>9, <3>1 DEF Owned
    <3> QED BY <1>4, <3>1, <3>2
  <2>3. \A u, w \in Threads :
          Owns(u)' /\ Owns(w)' /\ chunk'[u] = chunk'[w] /\ block'[u] = block'[w] => u = w
    BY <1>8, <1>9 DEF Owned
  <2>4. m_ptrAllocChunk' \in Listed' \cup {NoChunk}
    BY <1>1, <1>7 DEF Owned
  <2> QED BY <2>1, <2>2, <2>3, <2>4 DEF Owned
<1>16. SeenStill'
  <2> SUFFICES ASSUME NEW u \in Threads, pc'[u] \in {"read", "cas"} PROVE FALSE
    BY DEF SeenStill
  <2>1. u # t /\ pc[u] \in {"read", "cas"}
    BY <1>6 DEF Alone
  <2> QED BY <1>1, <2>1, OnlyAllocator DEF InAllocate, Popping
<1> QED BY <1>11, <1>12, <1>13, <1>14, <1>15, <1>16
LEMMA GiveBackStep ==
  ASSUME SmallInv, NEW t \in Threads, GiveBack(t)
  PROVE  SmallInv'
<1> USE DEF SmallInv
<1>1. PICK o \in held :
        /\ held' = held \ {o}
        /\ chunk' = [chunk EXCEPT ![t] = o[1]] /\ block' = [block EXCEPT ![t] = o[2]]
        /\ next' = [next EXCEPT ![o[1]][o[2]] = head[o[1]]]
  BY DEF GiveBack
<1>2. /\ pc[t] = "idle" /\ pc' = [pc EXCEPT ![t] = "push"]
      /\ UNCHANGED <<m_listChunks, m_ptrAllocChunk, scan, head, count, below>>
  BY DEF GiveBack, Goto, listVars
<1>3. PICK c \in Chunks, b \in Indices : o = <<c, b>>
  BY <1>1 DEF Typed, TypeOK
<1>4. c \in Listed /\ o[1] = c /\ o[2] = b
  BY <1>1, <1>3 DEF Owned
<1>5. /\ held' = held \ {<<c, b>>} /\ <<c, b>> \in held
      /\ \A d \in Chunks, x \in Indices :
           next'[d][x] = IF d = c /\ x = b THEN head[c] ELSE next[d][x]
      /\ \A d \in Chunks : d # c => next'[d] = next[d]
      /\ next' \in [Chunks -> [Indices -> Bytes \cup {UserData}]]
  BY <1>1, <1>3, <1>4 DEF Typed, TypeOK
<1>6. Alone(t) /\ pc'[t] = "push" /\ chunk'[t] = c /\ block'[t] = b
  BY <1>1, <1>2, <1>4 DEF Alone, Typed, TypeOK, Pushing
<1>7. /\ Listed' = Listed
      /\ \A d : d # c => Unused(d)' = Unused(d)
      /\ Chain(head[c], next[c], Unused(c))' => Chained'
      /\ count'[c] + Cardinality(At("count", c)')
           = Cardinality(Unused(c)') + Cardinality(At("uncount", c)') => Counts'
  <2>1. pc[t] \notin Popping \cup Pushing
    BY <1>2 DEF Popping, Pushing
  <2>2. /\ \A d, x : d # c => (<<d, x>> \in held' <=> <<d, x>> \in held)
        /\ \A d \in Chunks : d # c => head'[d] = head[d] /\ count'[d] = count[d]
                 /\ next'[d] = next[d]
        /\ UNCHANGED m_listChunks
    BY <1>2, <1>5
  <2> QED BY <1>6, <2>1, <2>2, ChunkStep
<1>8. \A u \in Threads : u # t => /\ Owns(u)' <=> Owns(u)
                                  /\ chunk'[u] = chunk[u] /\ block'[u] = block[u]
  BY <1>6 DEF Alone, Owns
<1>9. Owns(t)' /\ ~Owns(t)
  BY <1>2, <1>6 DEF Owns
<1>10. Unused(c)' = Unused(c) /\ b \notin Unused(c)
  <2>1. ASSUME NEW x PROVE x \in UsedBlocks(c)' <=> x \in UsedBlocks(c)
    <3>1. CASE x = b
      BY <1>5, <1>6, <1>9, <3>1, UsedAre
    <3>2. CASE x # b
      <4>1. <<c, x>> \in held' <=> <<c, x>> \in held
        BY <1>5, <3>2
      <4>2. (\E u \in Threads : Owns(u)' /\ chunk'[u] = c /\ block'[u] = x)
              <=> \E u \in Threads : Owns(u) /\ chunk[u] = c /\ block[u] = x
        BY <1>6, <1>8, <1>9, <3>2
      <4> QED BY <4>1, <4>2, UsedAre
    <3> QED BY <3>1, <3>2
  <2>2. b \in UsedBlocks(c)
    BY <1>5, UsedAre
  <2> QED BY <2>1, <2>2 DEF Unused
<1>11. Chained'
  <2>1. Chain(head[c], next[c], Unused(c)) /\ Unused(c) \in SUBSET Indices
    BY <1>4, UnusedIs DEF Chained
  <2>2. \A x \in Unused(c) : next'[c][x] = next[c][x]
    BY <1>5, <1>10, <2>1
  <2>3. Chain(head[c], next'[c], Unused(c))
    BY <2>1, <2>2, ChainSame
  <2> QED BY <1>2, <1>7, <1>10, <2>3
<1>12. Counts'
  <2>1. At("count", c)' = At("count", c) /\ At("uncount", c)' = At("uncount", c)
    BY <1>2, <1>6, <1>8 DEF At, Alone
  <2>2. count[c] + Cardinality(At("count", c))
          = Cardinality(Unused(c)) + Cardinality(At("uncount", c))
    BY <1>4 DEF Counts
  <2> QED BY <1>2, <1>7, <1>10, <2>1, <2>2
<1>13. Typed'
  <2>1. DOMAIN pc' = Threads /\ Allocating' \subseteq Allocators
    BY <1>6, StillAllocating DEF InAllocate, Popping
  <2>2. held' \subseteq Chunks \X Indices
    BY <1>5 DEF Typed, TypeOK
  <2>3. /\ chunk' \in [Threads -> Chunks \cup {NoChunk}]
        /\ block' \in [Threads -> Indices \cup {NoBlock}]
    BY <1>1, <1>3, <1>4 DEF Typed, TypeOK
  <2> QED BY <1>2, <1>5, <1>6, <2>1, <2>2, <2>3 DEF Typed, TypeOK, Alone
<1>14. Working'
  <2>1. ASSUME NEW u \in Threads, u # t
        PROVE  /\ pc'[u] \in Idling => chunk'[u] = NoChunk
               /\ pc'[u] \in Popping \cup Pushing => chunk'[u] \in Listed'
               /\ pc'[u] \in Popping => chunk'[u] = m_ptrAllocChunk'
               /\ pc'[u] \in {"take"} \cup Popping =>
                    m_ptrAllocChunk' \in Chunks /\ count'[m_ptrAllocChunk'] > 0
               /\ pc'[u] \in {"read", "cas", "uncount"} \cup Pushing => block'[u] \in Indices
    BY <1>2, <1>6, <1>7, <2>1 DEF Working, Alone
  <2> QED BY <1>4, <1>6, <1>7, <2>1 DEF Working, Idling, Popping, Pushing
<1>15. Owned'
  <2>1. \A u \in held' : u[1] \in Listed'
    BY <1>5, <1>7 DEF Owned
  <2>2. \A u \in Threads : u # t /\ Owns(u) => ~(chunk[u] = c /\ block[u] = b)
    BY <1>5 DEF Owned
  <2>3. ASSUME NEW u \in Threads, Owns(u)' PROVE <<chunk'[u], block'[u]>> \notin held'
    <3>1. CASE u = t
      BY <1>5, <1>6, <3>1
    <3>2. CASE u # t
      BY <1>5, <1>8, <2>3, <3>2 DEF Owned
    <3> QED BY <3>1, <3>2
  <2>4. \A u, w \in Threads :
          Owns(u)' /\ Owns(w)' /\ chunk'[u] = chunk'[w] /\ block'[u] = block'[w] => u = w
    BY <1>6, <1>8, <2>2 DEF Owned
  <2>5. m_ptrAllocChunk' \in Listed' \cup {NoChunk}
    BY <1>2, <1>7 DEF Owned
  <2> QED BY <2>1, <2>3, <2>4, <2>5 DEF Owned
<1>16. SeenStill'
  <2>1. pc'[t] \notin {"read", "cas"}
    BY <1>6
  <2>2. ASSUME NEW d \in Chunks, NEW x \in Unused(d)
        PROVE  x \in Unused(d)' /\ next'[d][x] = next[d][x]
    <3>1. x \in Indices
      BY UnusedIs
    <3> QED BY <1>5, <1>7, <1>10, <3>1
  <2> QED BY <1>6, <2>1, <2>2, SeenKept
<1> QED BY <1>11, <1>12, <1>13, <1>14, <1>15, <1>16

LEMMA PushFailsStep ==
  ASSUME SmallInv, NEW t \in Threads, PushFails(t)
  PROVE  SmallInv'
<1> USE DEF SmallInv
<1>1. /\ pc[t] = "push" /\ pc' = [pc EXCEPT ![t] = "push"]
      /\ next' = [next EXCEPT ![chunk[t]][block[t]] = head[chunk[t]]]
      /\ UNCHANGED <<m_listChunks, m_ptrAllocChunk, scan, head, count, held, chunk, block, below>>
  BY DEF PushFails, Goto, listVars
<1>2. PICK c \in Chunks : c = chunk[t] /\ c \in Listed
  BY <1>1 DEF Working, Pushing, Typed, TypeOK, Listed, ToSet
<1>3. PICK b \in Indices : b = block[t]
  BY <1>1 DEF Working, Pushing
<1>4. /\ \A d \in Chunks, x \in Indices :
           next'[d][x] = IF d = c /\ x = b THEN head[c] ELSE next[d][x]
      /\ \A d \in Chunks : d # c => next'[d] = next[d]
      /\ next' \in [Chunks -> [Indices -> Bytes \cup {UserData}]]
  BY <1>1, <1>2, <1>3 DEF Typed, TypeOK
<1>5. pc' = pc
  BY <1>1 DEF Typed
<1>6. Alone(t)
  BY <1>1, <1>5 DEF Alone, Typed
<1>7. /\ Listed' = Listed
      /\ \A d : d # c => Unused(d)' = Unused(d)
      /\ Chain(head[c], next[c], Unused(c))' => Chained'
      /\ count'[c] + Cardinality(At("count", c)')
           = Cardinality(Unused(c)') + Cardinality(At("uncount", c)') => Counts'
  BY <1>1, <1>2, <1>4, <1>6, ChunkStep
<1>8. Unused(c)' = Unused(c) /\ b \notin Unused(c)
  <2>1. UsedBlocks(c)' = UsedBlocks(c)
    BY <1>1, <1>5 DEF UsedBlocks
  <2>2. b \in UsedBlocks(c)
    BY <1>1, <1>2, <1>3, UsedAre DEF Owns
  <2> QED BY <2>1, <2>2 DEF Unused
<1>9. Chained'
  <2>1. Chain(head[c], next[c], Unused(c)) /\ Unused(c) \in SUBSET Indices
    BY <1>2, UnusedIs DEF Chained
  <2>2. \A x \in Unused(c) : next'[c][x] = next[c][x]
    BY <1>4, <1>8, <2>1
  <2>3. Chain(head[c], next'[c], Unused(c))
    BY <2>1, <2>2, ChainSame
  <2> QED BY <1>1, <1>7, <1>8, <2>3
<1>10. Counts'
  <2>1. At("count", c)' = At("count", c) /\ At("uncount", c)' = At("uncount", c)
    BY <1>1, <1>5 DEF At
  <2>2. count[c] + Cardinality(At("count", c))
          = Cardinality(Unused(c)) + Cardinality(At("uncount", c))
    BY <1>2 DEF Counts
  <2> QED BY <1>1, <1>7, <1>8, <2>1, <2>2
<1>11. Typed'
  <2>1. Allocating' = Allocating
    BY <1>5 DEF Allocating
  <2> QED BY <1>1, <1>4, <1>5, <2>1 DEF Typed, TypeOK
<1>12. Working'
  BY <1>1, <1>5, <1>7 DEF Working
<1>13. Owned'
  BY <1>1, <1>5, <1>7 DEF Owned, Owns
<1>14. SeenStill'
  <2>1. pc'[t] \notin {"read", "cas"}
    BY <1>1, <1>5
  <2>2. ASSUME NEW d \in Chunks, NEW x \in Unused(d)
        PROVE  x \in Unused(d)' /\ next'[d][x] = next[d][x]
    <3>1. x \in Indices
      BY UnusedIs
    <3> QED BY <1>4, <1>7, <1>8, <3>1
  <2> QED BY <1>6, <2>1, <2>2, SeenKept
<1> QED BY <1>9, <1>10, <1>11, <1>12, <1>13, <1>14

LEMMA PushStep ==
  ASSUME SmallInv, NEW t \in Threads, Push(t)
  PROVE  SmallInv'
<1> USE DEF SmallInv
<1>1. /\ pc[t] = "push" /\ pc' = [pc EXCEPT ![t] = "count"]
      /\ head[chunk[t]] = next[chunk[t]][block[t]]
      /\ head' = [head EXCEPT ![chunk[t]] = block[t]]
      /\ UNCHANGED <<m_listChunks, m_ptrAllocChunk, scan, count, next, held, chunk, block, below>>
  BY DEF Push, Goto, listVars
<1>2. PICK c \in Chunks : c = chunk[t] /\ c \in Listed
  BY <1>1 DEF Working, Pushing, Typed, TypeOK, Listed, ToSet
<1>3. PICK b \in Indices : b = block[t]
  BY <1>1 DEF Working, Pushing
<1>4. Alone(t) /\ pc'[t] = "count"
  BY <1>1 DEF Alone, Typed, Pushing
<1>5. /\ next[c][b] = head[c] /\ head'[c] = b
      /\ \A d \in Chunks : d # c => head'[d] = head[d]
      /\ head' \in [Chunks -> Bytes]
  BY <1>1, <1>2, <1>3, IndicesAre DEF Typed, TypeOK
<1>6. /\ Listed' = Listed
      /\ \A d : d # c => Unused(d)' = Unused(d)
      /\ Chain(head[c], next[c], Unused(c))' => Chained'
      /\ count'[c] + Cardinality(At("count", c)')
           = Cardinality(Unused(c)') + Cardinality(At("uncount", c)') => Counts'
  BY <1>1, <1>2, <1>4, <1>5, ChunkStep
<1>7. \A u \in Threads : /\ u # t => (Owns(u)' <=> Owns(u))
                         /\ chunk'[u] = chunk[u] /\ block'[u] = block[u]
  BY <1>1, <1>4 DEF Alone, Owns
<1>8. ~Owns(t)' /\ Owns(t)
  BY <1>1, <1>4 DEF Owns
<1>9. Unused(c)' = Unused(c) \cup {b} /\ b \notin Unused(c)
  <2>1. <<c, b>> \notin held /\ \A u \in Threads : u # t /\ Owns(u) /\ chunk[u] = c => block[u] # b
    BY <1>2, <1>3, <1>8 DEF Owned
  <2>2. ASSUME NEW x PROVE x \in UsedBlocks(c)' <=> x \in UsedBlocks(c) /\ x # b
    <3>1. (\E u \in Threads : Owns(u)' /\ chunk'[u] = c /\ block'[u] = x)
            <=> (\E u \in Threads : Owns(u) /\ chunk[u] = c /\ block[u] = x) /\ x # b
      BY <1>2, <1>3, <1>7, <1>8, <2>1
    <3>2. (<<c, x>> \in held' <=> <<c, x>> \in held) /\ (<<c, x>> \in held => x # b)
      BY <1>1, <2>1
    <3> QED BY <3>1, <3>2, UsedAre
  <2>3. b \in UsedBlocks(c)
    BY <1>2, <1>3, <1>8, UsedAre
  <2> QED BY <2>2, <2>3 DEF Unused
<1>10. Chained'
  <2>1. Chain(head[c], next[c], Unused(c)) /\ Unused(c) \in SUBSET Indices
    BY <1>2, UnusedIs DEF Chained
  <2>2. Chain(b, next[c], Unused(c) \cup {b})
    BY <1>5, <1>9, <2>1, ChainPush
  <2> QED BY <1>1, <1>5, <1>6, <1>9, <2>2
<1>11. Counts'
  <2>1. At("count", c)' = At("count", c) \cup {t} /\ At("uncount", c)' = At("uncount", c)
    BY <1>1, <1>2, <1>4, <1>7 DEF At, Alone
  <2>2. t \notin At("count", c)
    BY <1>1 DEF At
  <2>3. Cardinality(At("count", c) \cup {t}) = Cardinality(At("count", c)) + 1
        /\ Cardinality(At("uncount", c)) \in Nat /\ Cardinality(At("count", c)) \in Nat
    BY <2>2, AtIs
  <2>4. Cardinality(Unused(c) \cup {b}) = Cardinality(Unused(c)) + 1
           /\ Cardinality(Unused(c)) \in Nat
    BY <1>9, UnusedIs, Sizes, IndicesAre
  <2>5. count[c] + Cardinality(At("count", c))
          = Cardinality(Unused(c)) + Cardinality(At("uncount", c))
    BY <1>2 DEF Counts
  <2>6. count'[c] = count[c] /\ count[c] \in Nat
    BY <1>1, IndicesAre DEF Typed, TypeOK
  <2>7. /\ Cardinality(At("count", c)') = Cardinality(At("count", c)) + 1
        /\ Cardinality(At("uncount", c)') = Cardinality(At("uncount", c))
        /\ Cardinality(Unused(c)') = Cardinality(Unused(c)) + 1
    BY <1>9, <2>1, <2>3, <2>4
  <2> QED BY <1>6, <2>3, <2>4, <2>5, <2>6, <2>7
<1>12. Typed'
  <2>1. DOMAIN pc' = Threads /\ Allocating' \subseteq Allocators
    BY <1>4, StillAllocating DEF InAllocate, Popping
  <2> QED BY <1>1, <1>4, <1>5, <2>1 DEF Typed, TypeOK, Alone
<1>13. Working'
  BY <1>1, <1>2, <1>3, <1>4, <1>6 DEF Working, Alone, Idling, Popping, Pushing
<1>14. Owned'
  <2>1. m_ptrAllocChunk' \in Listed' \cup {NoChunk} /\ \A u \in held' : u[1] \in Listed'
    BY <1>1, <1>6 DEF Owned
  <2>2. \A u \in Threads : Owns(u)' => Owns(u)
    BY <1>7, <1>8
  <2> QED BY <1>1, <1>7, <2>1, <2>2 DEF Owned
<1>15. SeenStill'
  <2>1. pc'[t] \notin {"read", "cas"}
    BY <1>4
  <2>2. ASSUME NEW d \in Chunks, NEW x \in Unused(d)
        PROVE  x \in Unused(d)' /\ next'[d][x] = next[d][x]
    BY <1>1, <1>6, <1>9
  <2> QED BY <1>4, <2>1, <2>2, SeenKept
<1> QED BY <1>10, <1>11, <1>12, <1>13, <1>14, <1>15

LEMMA CountStep ==
  ASSUME InTurn, SmallInv, NEW t \in Threads, Count(t)
  PROVE  SmallInv'
<1> USE DEF SmallInv
<1>1. /\ pc[t] = "count" /\ pc' = [pc EXCEPT ![t] = "idle"]
      /\ count' = [count EXCEPT ![chunk[t]] = (@ + 1) % (UCHAR_MAX + 1)]
      /\ chunk' = [chunk EXCEPT ![t] = NoChunk] /\ block' = [block EXCEPT ![t] = NoBlock]
      /\ UNCHANGED <<m_listChunks, m_ptrAllocChunk, scan, head, next, held, below>>
  BY DEF Count, Goto, listVars
<1>2. PICK c \in Chunks : c = chunk[t] /\ c \in Listed
  BY <1>1 DEF Working, Pushing, Typed, TypeOK, Listed, ToSet
<1>3. Alone(t) /\ pc'[t] = "idle" /\ chunk'[t] = NoChunk
  BY <1>1 DEF Alone, Typed, TypeOK, Idling
\* The count has not reached UCHAR_MAX: it does not wrap.
<1>4. /\ Cardinality(At("count", c) \ {t}) = Cardinality(At("count", c)) - 1
      /\ Cardinality(At("count", c)) \in Nat \ {0} /\ Cardinality(At("uncount", c)) \in Nat
      /\ Cardinality(Unused(c)) \in Nat
      /\ count[c] + Cardinality(At("count", c))
              = Cardinality(Unused(c)) + Cardinality(At("uncount", c))
  <2>1. t \in At("count", c)
    BY <1>1, <1>2 DEF At
  <2>2. Cardinality(At("count", c) \ {t}) = Cardinality(At("count", c)) - 1
    BY <2>1, AtIs
  <2>3. Cardinality(At("count", c)) \in Nat /\ Cardinality(At("uncount", c)) \in Nat
    BY AtIs
  <2>4. Cardinality(At("count", c)) # 0
    BY <2>1, AtIs, FS_EmptySet
  <2>5. Cardinality(Unused(c)) \in Nat
    BY UnusedIs, Sizes, IndicesAre
  <2>6. count[c] + Cardinality(At("count", c))
          = Cardinality(Unused(c)) + Cardinality(At("uncount", c))
    BY <1>2 DEF Counts
  <2> QED BY <2>2, <2>3, <2>4, <2>5, <2>6
<1>5. count[c] \in Nat /\ count'[c] = count[c] + 1 /\ count'[c] \in Bytes
      /\ \A d \in Chunks : d # c => count'[d] = count[d]
  <2>1. count[c] \in Bytes /\ count[c] \in Nat
    BY IndicesAre DEF Typed, TypeOK
  <2>2. Cardinality(Unused(c)) + Cardinality(At("uncount", c)) <= m_numBlocks
    BY <1>2, Room
  <2>3. count[c] + 1 <= m_numBlocks
    BY <1>4, <2>1, <2>2, IndicesAre
  <2>4. (count[c] + 1) % (UCHAR_MAX + 1) = count[c] + 1 /\ count[c] + 1 \in Bytes
    BY <2>1, <2>3, SmallAssumption DEF Bytes, m_numBlocks
  <2> QED BY <1>1, <1>2, <2>1, <2>4 DEF Typed, TypeOK
<1>6. /\ Listed' = Listed
      /\ \A d : d # c => Unused(d)' = Unused(d)
      /\ Chain(head[c], next[c], Unused(c))' => Chained'
      /\ count'[c] + Cardinality(At("count", c)')
           = Cardinality(Unused(c)') + Cardinality(At("uncount", c)') => Counts'
  <2>1. /\ pc[t] \in Popping \cup Pushing => chunk[t] = c
        /\ pc'[t] \in Popping \cup Pushing => chunk'[t] = c
    BY <1>2, <1>3 DEF Popping, Pushing
  <2> QED BY <1>1, <1>3, <1>5, <2>1, ChunkStep
<1>7. \A u \in Threads : u # t => chunk'[u] = chunk[u] /\ block'[u] = block[u]
  BY <1>3 DEF Alone
<1>8. ~Owns(t)' /\ ~Owns(t) /\ \A u \in Threads : u # t => (Owns(u)' <=> Owns(u))
  BY <1>1, <1>3 DEF Owns, Alone
<1>9. Unused(c)' = Unused(c)
  <2>1. ASSUME NEW x PROVE x \in UsedBlocks(c)' <=> x \in UsedBlocks(c)
    <3>1. (\E u \in Threads : Owns(u)' /\ chunk'[u] = c /\ block'[u] = x)
            <=> \E u \in Threads : Owns(u) /\ chunk[u] = c /\ block[u] = x
      BY <1>7, <1>8
    <3>2. <<c, x>> \in held' <=> <<c, x>> \in held
      BY <1>1
    <3> QED BY <3>1, <3>2, UsedAre
  <2> QED BY <2>1 DEF Unused
<1>10. Chained'
  BY <1>1, <1>2, <1>6, <1>9 DEF Chained
<1>11. Counts'
  <2>1. At("count", c)' = At("count", c) \ {t} /\ At("uncount", c)' = At("uncount", c)
    BY <1>1, <1>2, <1>3, <1>7 DEF At, Alone
  <2>2. /\ Cardinality(At("count", c)') = Cardinality(At("count", c)) - 1
        /\ Cardinality(At("uncount", c)') = Cardinality(At("uncount", c))
        /\ Cardinality(Unused(c)') = Cardinality(Unused(c))
    BY <1>4, <1>9, <2>1
  <2> QED BY <1>4, <1>5, <1>6, <2>2
<1>12. Typed'
  <2>1. DOMAIN pc' = Threads /\ Allocating' \subseteq Allocators
    BY <1>3, StillAllocating DEF InAllocate, Popping
  <2>2. count' \in [Chunks -> Bytes]
    BY <1>1, <1>2, <1>5 DEF Typed, TypeOK
  <2> QED BY <1>1, <1>3, <2>1, <2>2 DEF Typed, TypeOK, Alone
<1>13. Working'
  <2>1. \A d \in Chunks : count[d] > 0 => count'[d] > 0
    BY <1>5
  <2>2. ASSUME NEW u \in Threads, u # t
        PROVE  /\ pc'[u] \in Idling => chunk'[u] = NoChunk
               /\ pc'[u] \in Popping \cup Pushing => chunk'[u] \in Listed'
               /\ pc'[u] \in Popping => chunk'[u] = m_ptrAllocChunk'
               /\ pc'[u] \in {"take"} \cup Popping =>
                    m_ptrAllocChunk' \in Chunks /\ count'[m_ptrAllocChunk'] > 0
               /\ pc'[u] \in {"read", "cas", "uncount"} \cup Pushing => block'[u] \in Indices
    BY <1>1, <1>3, <1>6, <2>1, <2>2 DEF Working, Alone
  <2> QED BY <1>3, <2>2 DEF Working, Idling, Popping, Pushing
<1>14. Owned'
  <2>1. m_ptrAllocChunk' \in Listed' \cup {NoChunk} /\ \A u \in held' : u[1] \in Listed'
    BY <1>1, <1>6 DEF Owned
  <2> QED BY <1>1, <1>7, <1>8, <2>1 DEF Owned
<1>15. SeenStill'
  <2>1. pc'[t] \notin {"read", "cas"}
    BY <1>3
  <2>2. ASSUME NEW d \in Chunks, NEW x \in Unused(d)
        PROVE  x \in Unused(d)' /\ next'[d][x] = next[d][x]
    BY <1>1, <1>6, <1>9
  <2> QED BY <1>3, <2>1, <2>2, SeenKept
<1> QED BY <1>10, <1>11, <1>12, <1>13, <1>14, <1>15
LEMMA StartReleaseStep ==
  ASSUME SmallInv, StartRelease
  PROVE  SmallInv'
<1> USE DEF SmallInv
<1>1. scan' = m_listChunks
      /\ UNCHANGED <<m_listChunks, m_ptrAllocChunk, head, count, next, held, pc,
                     chunk, block, below>>
  BY DEF StartRelease, chunkVars
<1>2. Listed' = Listed /\ Allocating' = Allocating
  BY <1>1 DEF Listed, Allocating
<1>3. \A c : UsedBlocks(c)' = UsedBlocks(c)
  BY <1>1 DEF UsedBlocks
<1>4. \A c : Unused(c)' = Unused(c)
  BY <1>3 DEF Unused
<1>5. \A place, c : At(place, c)' = At(place, c)
  BY <1>1 DEF At
<1>6. Typed'
  BY <1>1, <1>2 DEF Typed, TypeOK
<1>7. Working' /\ Owned'
  BY <1>1, <1>2 DEF Working, Owned, Owns
<1>8. Chained'
  BY <1>1, <1>2, <1>4 DEF Chained
<1>9. SeenStill'
  BY <1>1, <1>4 DEF SeenStill
<1>10. Counts'
  BY <1>1, <1>2, <1>4, <1>5 DEF Counts
<1> QED BY <1>6, <1>7, <1>8, <1>9, <1>10

\* A chunk whose count is full, other than the one allocated from, is nobody's.
LEMMA FullIsUnused ==
  ASSUME InTurn, SmallInv, NEW c \in Listed, Releasable(c)
  PROVE  (\A t \in Threads : chunk[t] # c) /\ (\A u \in held : u[1] # c)
<1> USE DEF SmallInv
<1>1. c \in Chunks /\ count[c] = m_numBlocks /\ c # m_ptrAllocChunk
  BY DEF Releasable, Listed, ToSet, Typed, TypeOK
<1>2. At("uncount", c) = {}
  BY <1>1 DEF At, Working, Popping
<1>3. At("count", c) = {} /\ Unused(c) = Indices
  <2>1. Cardinality(At("uncount", c)) = 0
    BY <1>2, FS_EmptySet
  <2>2. IsFiniteSet(At("count", c)) /\ Cardinality(At("count", c)) \in Nat
    BY AtIs
  <2>3. Cardinality(Unused(c)) \in 0..m_numBlocks
        /\ (Unused(c) = Indices <=> Cardinality(Unused(c)) = m_numBlocks)
    BY UnusedIs, Sizes
  <2>4. count[c] + Cardinality(At("count", c))
          = Cardinality(Unused(c)) + Cardinality(At("uncount", c))
    BY DEF Counts
  <2>5. Cardinality(At("count", c)) = 0 /\ Cardinality(Unused(c)) = m_numBlocks
    BY <1>1, <2>1, <2>2, <2>3, <2>4, IndicesAre
  <2>6. At("count", c) = {}
    BY <2>2, <2>5, FS_EmptySet
  <2> QED BY <2>3, <2>5, <2>6
<1>4. \A b \in Indices : b \notin UsedBlocks(c)
  BY <1>3 DEF Unused
<1>5. ASSUME NEW t \in Threads PROVE chunk[t] # c
  <2>1. CASE pc[t] \in Idling
    BY <1>1, <2>1, SmallAssumption DEF Working
  <2>2. CASE pc[t] \in Popping
    BY <1>1, <2>2 DEF Working
  <2>3. CASE pc[t] = "push"
    <3>1. block[t] \in Indices /\ Owns(t)
      BY <2>3 DEF Working, Pushing, Owns
    <3> QED BY <1>4, <3>1, UsedAre
  <2>4. CASE pc[t] = "count"
    BY <1>3, <2>4 DEF At
  <2>5. pc[t] \in Idling \cup Popping \cup Pushing
    BY DEF Typed
  <2> QED BY <2>1, <2>2, <2>3, <2>4, <2>5 DEF Pushing
<1>6. ASSUME NEW u \in held PROVE u[1] # c
  <2>1. PICK d \in Chunks, b \in Indices : u = <<d, b>>
    BY DEF Typed, TypeOK
  <2> QED BY <1>4, <2>1, UsedAre
<1> QED BY <1>5, <1>6

LEMMA ReleaseOrKeepStep ==
  ASSUME InTurn, SmallInv, ReleaseOrKeep
  PROVE  SmallInv'
<1> USE DEF SmallInv
<1>1. scan # <<>> /\ scan' = Tail(scan)
      /\ UNCHANGED <<m_ptrAllocChunk, head, count, next, held, pc, chunk, block, below>>
  BY DEF ReleaseOrKeep, chunkVars
<1>2. PICK i \in DOMAIN m_listChunks :
        /\ m_listChunks[i] = Head(scan)
        /\ m_listChunks' = IF Releasable(Head(scan)) THEN RemoveAt(m_listChunks, i)
                                                     ELSE m_listChunks
  BY DEF ReleaseOrKeep
<1>3. PICK c \in Listed : c = Head(scan) /\ c = m_listChunks[i]
  BY <1>2 DEF Listed, ToSet
<1>4. scan' \in Seq(Chunks)
  BY <1>1, HeadTailProperties DEF Typed, TypeOK
<1>5. /\ m_listChunks' \in Seq(Chunks) /\ Listed' \subseteq Listed
      /\ \A d \in Listed : d # c \/ ~Releasable(c) => d \in Listed'
  <2>1. CASE Releasable(c)
    <3>1. m_listChunks' = RemoveAt(m_listChunks, i) /\ m_listChunks \in Seq(Chunks)
      BY <1>2, <1>3, <2>1 DEF Typed, TypeOK
    <3>2. i \in 1..Len(m_listChunks)
      BY <3>1, LenProperties
    <3>3. /\ RemoveAt(m_listChunks, i) \in Seq(Chunks)
          /\ ToSet(RemoveAt(m_listChunks, i)) \subseteq ToSet(m_listChunks)
          /\ \A x \in ToSet(m_listChunks) :
               x # m_listChunks[i] => x \in ToSet(RemoveAt(m_listChunks, i))
      BY <3>1, <3>2, ListErase
    <3> QED BY <1>3, <2>1, <3>1, <3>3 DEF Listed
  <2>2. CASE ~Releasable(c)
    BY <1>2, <1>3, <2>2 DEF Typed, TypeOK, Listed
  <2> QED BY <2>1, <2>2
<1>6. /\ \A t \in Threads : chunk[t] \in Listed => chunk[t] \in Listed'
      /\ \A u \in held : u[1] \in Listed'
      /\ m_ptrAllocChunk \in Listed' \cup {NoChunk}
  <2>1. CASE Releasable(c)
    <3>1. (\A t \in Threads : chunk[t] # c) /\ (\A u \in held : u[1] # c) /\ c # m_ptrAllocChunk
      BY <2>1, FullIsUnused DEF Releasable
    <3> QED BY <1>5, <3>1 DEF Owned
  <2>2. CASE ~Releasable(c)
    BY <1>5, <2>2 DEF Owned
  <2> QED BY <2>1, <2>2
<1>7. \A d : UsedBlocks(d)' = UsedBlocks(d)
  BY <1>1 DEF UsedBlocks
<1>8. \A d : Unused(d)' = Unused(d)
  BY <1>7 DEF Unused
<1>9. \A place, d : At(place, d)' = At(place, d)
  BY <1>1 DEF At
<1>10. Typed'
  <2>1. Allocating' = Allocating
    BY <1>1 DEF Allocating
  <2> QED BY <1>1, <1>4, <1>5, <2>1 DEF Typed, TypeOK
<1>11. Working'
  BY <1>1, <1>6 DEF Working
<1>12. Owned'
  BY <1>1, <1>6 DEF Owned, Owns
<1>13. Chained'
  BY <1>1, <1>5, <1>8 DEF Chained
<1>14. SeenStill'
  BY <1>1, <1>8 DEF SeenStill
<1>15. Counts'
  BY <1>1, <1>5, <1>8, <1>9 DEF Counts
<1> QED BY <1>10, <1>11, <1>12, <1>13, <1>14, <1>15

LEMMA SmallStutter ==
  ASSUME SmallInv, UNCHANGED vars
  PROVE  SmallInv'
<1> USE DEF SmallInv
<1>1. UNCHANGED <<m_listChunks, m_ptrAllocChunk, scan, head, count, next, held, pc,
                chunk, block, below>>
  BY DEF vars, listVars, chunkVars
<1>2. Listed' = Listed /\ Allocating' = Allocating
  BY <1>1 DEF Listed, Allocating
<1>3. \A c : UsedBlocks(c)' = UsedBlocks(c)
  BY <1>1 DEF UsedBlocks
<1>4. \A c : Unused(c)' = Unused(c)
  BY <1>3 DEF Unused
<1>5. \A place, c : At(place, c)' = At(place, c)
  BY <1>1 DEF At
<1>6. Typed'
  BY <1>1, <1>2 DEF Typed, TypeOK
<1>7. Working' /\ Owned'
  BY <1>1, <1>2 DEF Working, Owned, Owns
<1>8. Chained'
  BY <1>1, <1>2, <1>4 DEF Chained
<1>9. SeenStill'
  BY <1>1, <1>4 DEF SeenStill
<1>10. Counts'
  BY <1>1, <1>2, <1>4, <1>5 DEF Counts
<1> QED BY <1>6, <1>7, <1>8, <1>9, <1>10

LEMMA SmallStep ==
  ASSUME InTurn, SmallInv, [Next]_vars
  PROVE  SmallInv'
<1>1. ASSUME NEW t \in Threads, Ask(t) PROVE SmallInv'
  BY <1>1, AskStep
<1>2. ASSUME NEW t \in Threads, TestChunk(t) PROVE SmallInv'
  BY <1>2, TestChunkStep
<1>3. ASSUME NEW t \in Threads, Find(t) PROVE SmallInv'
  BY <1>3, FindStep
<1>4. ASSUME NEW t \in Threads, AddChunk(t) PROVE SmallInv'
  BY <1>4, AddChunkStep
<1>5. ASSUME NEW t \in Threads, TakeChunk(t) PROVE SmallInv'
  BY <1>5, TakeChunkStep
<1>6. ASSUME NEW t \in Threads, FirstLoad(t) \/ PopFails(t) PROVE SmallInv'
  <2>1. \E from \in {"load", "cas"} : LoadHead(t, from)
    BY <1>6 DEF FirstLoad, PopFails
  <2> QED BY <2>1, LoadHeadStep
<1>7. ASSUME NEW t \in Threads, ReadNext(t) PROVE SmallInv'
  BY <1>7, ReadNextStep
<1>8. ASSUME NEW t \in Threads, Pop(t) PROVE SmallInv'
  BY <1>8, PopStep
<1>9. ASSUME NEW t \in Threads, Uncount(t) PROVE SmallInv'
  BY <1>9, UncountStep
<1>10. ASSUME NEW t \in Threads, GiveBack(t) PROVE SmallInv'
  BY <1>10, GiveBackStep
<1>11. ASSUME NEW t \in Threads, PushFails(t) PROVE SmallInv'
  BY <1>11, PushFailsStep
<1>12. ASSUME NEW t \in Threads, Push(t) PROVE SmallInv'
  BY <1>12, PushStep
<1>13. ASSUME NEW t \in Threads, Count(t) PROVE SmallInv'
  BY <1>13, CountStep
<1>14. CASE StartRelease
  BY <1>14, StartReleaseStep
<1>15. CASE ReleaseOrKeep
  BY <1>15, ReleaseOrKeepStep
<1>16. CASE UNCHANGED vars
  BY <1>16, SmallStutter
<1> QED BY <1>1, <1>2, <1>3, <1>4, <1>5, <1>6, <1>7, <1>8, <1>9, <1>10, <1>11, <1>12, <1>13,
           <1>14, <1>15, <1>16 DEF Next, Allocate

\* `overlapped' is never taken back.
LEMMA OverlapKept ==
  ASSUME [Next]_vars, ~overlapped'
  PROVE  ~overlapped
BY DEF Next, Ask, Allocate, TestChunk, Find, AddChunk, TakeChunk, FirstLoad, PopFails, LoadHead,
       ReadNext, Pop, Uncount, GiveBack, PushFails, Push, Count, StartRelease, ReleaseOrKeep, vars

\* Who enters allocate while another thread is there sets `overlapped', for good.
LEMMA OverlapStep ==
  ASSUME SmallInv, InTurn, [Next]_vars, ~overlapped'
  PROVE  InTurn'
<1>1. pc \in [Threads -> Idling \cup Popping \cup Pushing]
  BY DEF SmallInv, Typed
<1>2. ASSUME \A u \in Threads : pc'[u] \in InAllocate => pc[u] \in InAllocate
      PROVE  InTurn'
  BY <1>2 DEF InTurn
<1>3. ASSUME NEW t \in Threads, Ask(t)
      PROVE  InTurn'
  <2>1. /\ pc' = [pc EXCEPT ![t] = "test"]
        /\ overlapped' = (overlapped \/ Allocating # {})
    BY <1>3 DEF Ask, Goto
  <2>2. ASSUME Allocating = {} PROVE InTurn'
    <3>1. \A u \in Threads : pc[u] \notin InAllocate
      BY <2>2 DEF Allocating, InAllocate, Popping
    <3>2. \A u \in Threads : u # t => pc'[u] \notin InAllocate
      BY <1>1, <2>1, <3>1
    <3> QED BY <3>2 DEF InTurn
  <2> QED BY <2>1, <2>2
<1>4. ASSUME NEW t \in Threads, Allocate(t)
      PROVE  \A u \in Threads : pc'[u] \in InAllocate => pc[u] \in InAllocate
  <2>1. pc[t] \in InAllocate
    BY <1>4 DEF Allocate, TestChunk, Find, AddChunk, TakeChunk, FirstLoad, PopFails, LoadHead,
                ReadNext, Pop, Uncount, Goto, InAllocate, Popping
  <2>2. \E p : pc' = [pc EXCEPT ![t] = p]
    BY <1>4 DEF Allocate, TestChunk, Find, AddChunk, TakeChunk, FirstLoad, PopFails, LoadHead,
                ReadNext, Pop, Uncount, Goto
  <2>3. \A u \in Threads : u # t => pc'[u] = pc[u]
    BY <1>1, <2>2
  <2> QED BY <2>1, <2>3
<1>5. ASSUME NEW t \in Threads, GiveBack(t) \/ PushFails(t) \/ Push(t) \/ Count(t)
      PROVE  \A u \in Threads : pc'[u] \in InAllocate => pc[u] \in InAllocate
  <2>1. \E p \in {"push", "count", "idle"} : pc' = [pc EXCEPT ![t] = p]
    BY <1>5 DEF GiveBack, PushFails, Push, Count, Goto
  <2> QED BY <1>1, <2>1 DEF InAllocate, Popping
<1>6. ASSUME StartRelease \/ ReleaseOrKeep \/ UNCHANGED vars
      PROVE  UNCHANGED pc
  BY <1>6 DEF StartRelease, ReleaseOrKeep, vars
<1>7. CASE \E t \in Threads : Ask(t)
  BY <1>3, <1>7
<1>8. CASE \E t \in Threads : \/ Allocate(t) \/ GiveBack(t) \/ PushFails(t)
                              \/ Push(t) \/ Count(t)
  BY <1>2, <1>4, <1>5, <1>8
<1>9. CASE StartRelease \/ ReleaseOrKeep \/ UNCHANGED vars
  BY <1>2, <1>6, <1>9
<1> QED BY <1>7, <1>8, <1>9 DEF Next

LEMMA SmallInvCorrect == Spec => [](~overlapped => SmallInv)
<1>1. Init => InTurn /\ SmallInv
  BY SmallInit DEF Init, InTurn, InAllocate, Popping
<1>2. (~overlapped => InTurn /\ SmallInv) /\ [Next]_vars
        => (~overlapped' => InTurn' /\ SmallInv')
  <2> SUFFICES ASSUME ~overlapped => InTurn /\ SmallInv, [Next]_vars, ~overlapped'
               PROVE  InTurn' /\ SmallInv'
    OBVIOUS
  <2>1. ~overlapped
    BY OverlapKept
  <2>2. SmallInv /\ InTurn
    BY <2>1
  <2> QED BY <2>2, OverlapStep, SmallStep
<1> QED BY <1>1, <1>2, PTL DEF Spec

-----------------------------------------------------------------------------
(* What holds however many threads allocate. *)

\* Who reads or writes the first byte of a block (lines 83, 104 and 107), or has taken
\* one, does so inside a chunk.
StaysInChunk ==
  \A t \in Threads : pc[t] \in {"read", "cas", "uncount"} \cup Pushing =>
    chunk[t] \in Chunks /\ block[t] \in Indices

Memory ==
  /\ m_listChunks \in Seq(Chunks) /\ m_ptrAllocChunk \in Chunks \cup {NoChunk}
  /\ scan \in Seq(Chunks)
  /\ head \in [Chunks -> Bytes] /\ count \in [Chunks -> Bytes]
  /\ next \in [Chunks -> [Indices -> Bytes \cup {UserData}]]
  /\ held \subseteq Chunks \X Indices
Places ==
  /\ pc \in [Threads -> Idling \cup Popping \cup Pushing]
  /\ chunk \in [Threads -> Chunks \cup {NoChunk}]
  /\ block \in [Threads -> Indices \cup {NoBlock}]
  /\ below \in [Threads -> Bytes \cup {NoBlock}]

\* What thread t at place p knows of its chunk c, its block b and the block w below it.
Knows(t, p, c, b, w) ==
  /\ p \in InAllocate => t \in Allocators
  /\ p \in Popping \cup Pushing => c \in Chunks
  /\ p \in {"read", "cas", "uncount"} \cup Pushing => b \in Indices
  /\ p = "cas" => w \in Bytes

InBounds ==
  /\ Memory /\ Places
  /\ \A t \in Threads : Knows(t, pc[t], chunk[t], block[t], below[t])
  /\ \A t \in Threads : pc[t] = "take" => m_ptrAllocChunk \in Chunks

LEMMA BoundsKept ==
  ASSUME InBounds, Memory', Places', NEW t \in Threads, Alone(t),
         Knows(t, pc'[t], chunk'[t], block'[t], below'[t]),
         m_ptrAllocChunk' \in Chunks \/ UNCHANGED m_ptrAllocChunk,
         pc'[t] = "take" => m_ptrAllocChunk' \in Chunks
  PROVE  InBounds'
<1>1. \A u \in Threads : Knows(u, pc'[u], chunk'[u], block'[u], below'[u])
  <2> SUFFICES ASSUME NEW u \in Threads, u # t
               PROVE  Knows(u, pc'[u], chunk'[u], block'[u], below'[u])
    OBVIOUS
  <2>1. /\ pc'[u] = pc[u] /\ chunk'[u] = chunk[u] /\ block'[u] = block[u]
        /\ below'[u] = below[u]
    BY DEF Alone
  <2> QED BY <2>1 DEF InBounds
<1>2. \A u \in Threads : pc'[u] = "take" => m_ptrAllocChunk' \in Chunks
  BY DEF Alone, InBounds
<1> QED BY <1>1, <1>2 DEF InBounds, Knows

LEMMA BoundsFind ==
  ASSUME InBounds, NEW t \in Threads, Find(t) \/ AddChunk(t)
  PROVE  InBounds'
<1>1. /\ pc[t] = "find" /\ pc' = [pc EXCEPT ![t] = "take"]
      /\ UNCHANGED <<scan, held, chunk, block, below>>
  BY DEF Find, AddChunk, Goto
<1>2. /\ m_listChunks \in Seq(Chunks) /\ DOMAIN m_listChunks = 1..Len(m_listChunks)
      /\ \A i \in 1..Len(m_listChunks) : m_listChunks[i] \in Chunks
  BY LenProperties, ElementOfSeq DEF InBounds, Memory
<1>3. m_ptrAllocChunk' \in Chunks
  BY <1>2 DEF Find, AddChunk
<1>m. Memory /\ UNCHANGED <<scan, held>>
  BY <1>1 DEF InBounds
<1>4. ASSUME Find(t) PROVE Memory'
  <2>1. UNCHANGED <<m_listChunks, head, count, next>>
    BY <1>4 DEF Find, chunkVars
  <2> QED BY <1>m, <1>3, <2>1 DEF Memory
<1>5. ASSUME AddChunk(t) PROVE Memory'
  <2>1. PICK c \in Chunks : /\ m_listChunks' = Append(m_listChunks, c)
                            /\ head' = [head EXCEPT ![c] = 0]
                            /\ count' = [count EXCEPT ![c] = m_numBlocks]
                            /\ next' = [next EXCEPT ![c] = Linked]
    BY <1>5 DEF AddChunk
  <2>2. Append(m_listChunks, c) \in Seq(Chunks)
    BY <1>2, AppendProperties
  <2>3. 0 \in Bytes /\ m_numBlocks \in Bytes
    BY IndicesAre
  <2>4. Linked \in [Indices -> Bytes \cup {UserData}]
    BY SmallAssumption DEF Linked, Indices, Bytes, m_numBlocks
  <2>5. head' \in [Chunks -> Bytes] /\ count' \in [Chunks -> Bytes]
        /\ next' \in [Chunks -> [Indices -> Bytes \cup {UserData}]]
    BY <2>1, <2>3, <2>4 DEF InBounds, Memory
  <2>6. m_listChunks' \in Seq(Chunks)
    BY <2>1, <2>2
  <2> QED BY <1>m, <1>3, <2>5, <2>6 DEF Memory
<1>6. Memory'
  BY <1>4, <1>5
<1>7. Places' /\ Alone(t) /\ pc'[t] = "take"
  BY <1>1 DEF InBounds, Places, Alone, Idling
<1>8. Knows(t, "take", chunk'[t], block'[t], below'[t])
  BY <1>1 DEF InBounds, Knows, InAllocate, Popping, Pushing
<1> QED BY <1>3, <1>6, <1>7, <1>8, BoundsKept

\* The steps of a thread that leave the memory alone.
LEMMA BoundsQuiet ==
  ASSUME InBounds, NEW t \in Threads,
         \/ Ask(t) \/ TestChunk(t) \/ TakeChunk(t) \/ FirstLoad(t) \/ PopFails(t)
         \/ ReadNext(t)
  PROVE  InBounds'
<1>1. UNCHANGED <<m_listChunks, m_ptrAllocChunk, scan, head, count, next, held>>
  BY DEF Ask, TestChunk, TakeChunk, FirstLoad, PopFails, LoadHead, ReadNext, listVars,
     chunkVars
<1>2. Memory'
  BY <1>1 DEF InBounds, Memory
<1>3. CASE Ask(t) \/ TestChunk(t)
  <2>1. /\ \E to \in {"test", "find", "take"} : pc' = [pc EXCEPT ![t] = to]
        /\ pc'[t] = "take" => m_ptrAllocChunk \in Chunks
        /\ t \in Allocators
        /\ UNCHANGED <<chunk, block, below>>
    BY <1>3 DEF Ask, TestChunk, Goto, InBounds, Memory, Places, Knows, InAllocate
  <2>2. Places' /\ Alone(t) /\ pc'[t] \in {"test", "find", "take"}
    BY <2>1 DEF InBounds, Places, Alone, Idling
  <2>3. Knows(t, pc'[t], chunk'[t], block'[t], below'[t])
    BY <2>1, <2>2 DEF Knows, Popping, Pushing
  <2> QED BY <1>1, <1>2, <2>1, <2>2, <2>3, BoundsKept
<1>4. CASE TakeChunk(t)
  <2>1. /\ pc[t] = "take" /\ pc' = [pc EXCEPT ![t] = "load"]
        /\ chunk' = [chunk EXCEPT ![t] = m_ptrAllocChunk] /\ UNCHANGED <<block, below>>
    BY <1>4 DEF TakeChunk, Goto
  <2>2. m_ptrAllocChunk \in Chunks /\ t \in Allocators
    BY <2>1 DEF InBounds, Knows, InAllocate
  <2>3. Places' /\ Alone(t) /\ pc'[t] = "load" /\ chunk'[t] \in Chunks
    BY <2>1, <2>2 DEF InBounds, Places, Alone, Popping
  <2>4. Knows(t, pc'[t], chunk'[t], block'[t], below'[t])
    BY <2>2, <2>3 DEF Knows, Pushing
  <2> QED BY <1>1, <1>2, <2>3, <2>4, BoundsKept
<1>5. CASE FirstLoad(t) \/ PopFails(t)
  <2> DEFINE h == head[chunk[t]]
             none == h = m_numBlocks
  <2>1. PICK from \in {"load", "cas"} : LoadHead(t, from)
    BY <1>5 DEF FirstLoad, PopFails
  <2>2. /\ pc[t] = from /\ pc' = [pc EXCEPT ![t] = IF none THEN "test" ELSE "read"]
        /\ block' = [block EXCEPT ![t] = IF none THEN NoBlock ELSE h]
        /\ chunk' = [chunk EXCEPT ![t] = IF none THEN NoChunk ELSE @]
        /\ below' = [below EXCEPT ![t] = NoBlock]
    BY <2>1 DEF LoadHead, Goto
  <2>3. chunk[t] \in Chunks /\ t \in Allocators
    BY <2>2 DEF InBounds, Knows, InAllocate, Popping
  <2>4. h \in Bytes /\ (~none => h \in Indices)
    BY <2>3, IndicesAre DEF InBounds, Memory
  <2> HIDE DEF h
  <2>5. CASE none
    <3>1. Places' /\ Alone(t) /\ pc'[t] = "test"
      BY <2>2, <2>5 DEF InBounds, Places, Alone, Idling
    <3>2. Knows(t, pc'[t], chunk'[t], block'[t], below'[t])
      BY <2>3, <3>1 DEF Knows, Popping, Pushing
    <3> QED BY <1>1, <1>2, <3>1, <3>2, BoundsKept
  <2>6. CASE ~none
    <3>1. /\ pc' = [pc EXCEPT ![t] = "read"] /\ block' = [block EXCEPT ![t] = h]
          /\ chunk' = [chunk EXCEPT ![t] = @] /\ below' = [below EXCEPT ![t] = NoBlock]
      BY <2>2, <2>6
    <3>2. Places' /\ Alone(t) /\ pc'[t] = "read" /\ chunk'[t] \in Chunks
          /\ block'[t] \in Indices
      BY <2>3, <2>4, <2>6, <3>1 DEF InBounds, Places, Alone, Popping
    <3>3. Knows(t, pc'[t], chunk'[t], block'[t], below'[t])
      BY <2>3, <3>2 DEF Knows, Pushing
    <3> QED BY <1>1, <1>2, <3>2, <3>3, BoundsKept
  <2> QED BY <2>5, <2>6
<1>6. CASE ReadNext(t)
  <2>1. PICK n : /\ n \in (IF next[chunk[t]][block[t]] = UserData THEN Bytes
                           ELSE {next[chunk[t]][block[t]]})
                 /\ below' = [below EXCEPT ![t] = n]
    BY <1>6 DEF ReadNext
  <2>2. pc[t] = "read" /\ pc' = [pc EXCEPT ![t] = "cas"] /\ UNCHANGED <<chunk, block>>
    BY <1>6 DEF ReadNext, Goto
  <2>3. chunk[t] \in Chunks /\ block[t] \in Indices /\ t \in Allocators
    BY <2>2 DEF InBounds, Knows, InAllocate, Popping
  <2>4. n \in Bytes
    <3>1. next[chunk[t]] \in [Indices -> Bytes \cup {UserData}]
      BY <2>3 DEF InBounds, Memory
    <3>2. next[chunk[t]][block[t]] \in Bytes \cup {UserData}
      BY <2>3, <3>1
    <3> QED BY <2>1, <3>2
  <2>5. Places' /\ Alone(t) /\ pc'[t] = "cas" /\ below'[t] = n
    BY <2>1, <2>2, <2>4 DEF InBounds, Places, Alone, Popping
  <2>6. Knows(t, pc'[t], chunk'[t], block'[t], below'[t])
    BY <2>2, <2>3, <2>4, <2>5 DEF Knows
  <2> QED BY <1>1, <1>2, <2>5, <2>6, BoundsKept
<1> QED BY <1>3, <1>4, <1>5, <1>6

LEMMA ByteSums ==
  ASSUME NEW n \in Bytes, NEW k \in Nat
  PROVE  (n + k) % (UCHAR_MAX + 1) \in Bytes
BY SmallAssumption DEF Bytes

\* The steps of a thread that change heads, links or counts.
LEMMA BoundsChange ==
  ASSUME InBounds, NEW t \in Threads,
         Pop(t) \/ Uncount(t) \/ GiveBack(t) \/ PushFails(t) \/ Push(t) \/ Count(t)
  PROVE  InBounds'
<1>1. UNCHANGED <<m_listChunks, m_ptrAllocChunk, scan>>
  BY DEF Pop, Uncount, GiveBack, PushFails, Push, Count, listVars
<1>2. CASE GiveBack(t)
  <2>1. PICK o \in held :
          /\ held' = held \ {o}
          /\ chunk' = [chunk EXCEPT ![t] = o[1]] /\ block' = [block EXCEPT ![t] = o[2]]
          /\ next' = [next EXCEPT ![o[1]][o[2]] = head[o[1]]]
    BY <1>2 DEF GiveBack
  <2>2. /\ pc' = [pc EXCEPT ![t] = "push"] /\ UNCHANGED <<head, count, below>>
    BY <1>2 DEF GiveBack, Goto
  <2>3. PICK c \in Chunks, b \in Indices : c = o[1] /\ b = o[2]
    BY <2>1 DEF InBounds, Memory
  <2>4. next' = [next EXCEPT ![c][b] = head[c]] /\ head[c] \in Bytes
    BY <2>1, <2>3 DEF InBounds, Memory
  <2>5. Memory'
    BY <1>1, <2>1, <2>2, <2>3, <2>4 DEF InBounds, Memory
  <2>6. Places' /\ Alone(t) /\ pc'[t] = "push" /\ chunk'[t] = c /\ block'[t] = b
    BY <2>1, <2>2, <2>3 DEF InBounds, Places, Alone, Pushing
  <2>7. Knows(t, "push", c, b, below'[t])
    BY <2>3 DEF Knows, InAllocate, Popping
  <2> QED BY <1>1, <2>5, <2>6, <2>7, BoundsKept
<1>3. ASSUME ~GiveBack(t)
      PROVE  InBounds'
  <2>1. pc[t] \in {"cas", "uncount"} \cup Pushing
    BY <1>3 DEF Pop, Uncount, PushFails, Push, Count, Goto, Pushing
  <2>2. PICK c \in Chunks, b \in Indices : c = chunk[t] /\ b = block[t]
    BY <2>1 DEF InBounds, Knows, Popping
  <2>3. CASE Pop(t)
    <3>1. /\ pc[t] = "cas" /\ pc' = [pc EXCEPT ![t] = "uncount"]
          /\ head' = [head EXCEPT ![c] = below[t]]
          /\ UNCHANGED <<count, next, held, chunk, block, below>>
      BY <2>2, <2>3 DEF Pop, Goto
    <3>2. below[t] \in Bytes /\ t \in Allocators
      BY <3>1 DEF InBounds, Knows, InAllocate, Popping
    <3>3. Memory'
      BY <1>1, <3>1, <3>2 DEF InBounds, Memory
    <3>4. Places' /\ Alone(t) /\ pc'[t] = "uncount"
      BY <3>1 DEF InBounds, Places, Alone, Popping
    <3>5. Knows(t, "uncount", chunk'[t], block'[t], below'[t])
      BY <2>2, <3>1, <3>2 DEF Knows
    <3> QED BY <1>1, <3>3, <3>4, <3>5, BoundsKept
  <2>4. CASE Uncount(t)
    <3>1. /\ pc' = [pc EXCEPT ![t] = "idle"]
          /\ count' = [count EXCEPT ![c] = (@ + UCHAR_MAX) % (UCHAR_MAX + 1)]
          /\ held' = held \cup {<<c, b>>} /\ next' = [next EXCEPT ![c][b] = UserData]
          /\ chunk' = [chunk EXCEPT ![t] = NoChunk] /\ block' = [block EXCEPT ![t] = NoBlock]
          /\ below' = [below EXCEPT ![t] = NoBlock] /\ UNCHANGED head
      BY <2>2, <2>4 DEF Uncount, Receive, Goto
    <3>2. (count[c] + UCHAR_MAX) % (UCHAR_MAX + 1) \in Bytes
      BY <2>2, ByteSums, SmallAssumption DEF InBounds, Memory
    <3>3. count' \in [Chunks -> Bytes]
      BY <3>1, <3>2 DEF InBounds, Memory
    <3>4. Memory'
      BY <1>1, <3>1, <3>3 DEF InBounds, Memory
    <3>5. Places' /\ Alone(t) /\ pc'[t] = "idle"
      BY <3>1 DEF InBounds, Places, Alone, Idling
    <3>6. Knows(t, "idle", chunk'[t], block'[t], below'[t])
      BY DEF Knows, InAllocate, Popping, Pushing
    <3> QED BY <1>1, <3>4, <3>5, <3>6, BoundsKept
  <2>5. CASE PushFails(t)
    <3>1. /\ pc[t] = "push" /\ pc' = [pc EXCEPT ![t] = "push"]
          /\ next' = [next EXCEPT ![c][b] = head[c]]
          /\ UNCHANGED <<head, count, held, chunk, block, below>>
      BY <2>2, <2>5 DEF PushFails, Goto
    <3>2. Memory'
      <4>1. head[c] \in Bytes
        BY DEF InBounds, Memory
      <4> QED BY <1>1, <3>1, <4>1 DEF InBounds, Memory
    <3>3. Places' /\ Alone(t) /\ pc'[t] = "push"
      BY <3>1 DEF InBounds, Places, Alone, Pushing
    <3>4. Knows(t, "push", chunk'[t], block'[t], below'[t])
      BY <2>2, <3>1 DEF Knows, InAllocate, Popping
    <3> QED BY <1>1, <3>2, <3>3, <3>4, BoundsKept
  <2>6. CASE Push(t)
    <3>1. /\ pc[t] = "push" /\ pc' = [pc EXCEPT ![t] = "count"]
          /\ head' = [head EXCEPT ![c] = b]
          /\ UNCHANGED <<count, next, held, chunk, block, below>>
      BY <2>2, <2>6 DEF Push, Goto
    <3>2. Memory'
      <4>1. b \in Bytes
        BY IndicesAre
      <4> QED BY <1>1, <3>1, <4>1 DEF InBounds, Memory
    <3>3. Places' /\ Alone(t) /\ pc'[t] = "count"
      BY <3>1 DEF InBounds, Places, Alone, Pushing
    <3>4. Knows(t, "count", chunk'[t], block'[t], below'[t])
      BY <2>2, <3>1 DEF Knows, InAllocate, Popping
    <3> QED BY <1>1, <3>2, <3>3, <3>4, BoundsKept
  <2>7. CASE Count(t)
    <3>1. /\ pc' = [pc EXCEPT ![t] = "idle"]
          /\ count' = [count EXCEPT ![c] = (@ + 1) % (UCHAR_MAX + 1)]
          /\ chunk' = [chunk EXCEPT ![t] = NoChunk] /\ block' = [block EXCEPT ![t] = NoBlock]
          /\ UNCHANGED <<head, next, held, below>>
      BY <2>2, <2>7 DEF Count, Goto
    <3>2. (count[c] + 1) % (UCHAR_MAX + 1) \in Bytes
      BY ByteSums DEF InBounds, Memory
    <3>3. count' \in [Chunks -> Bytes]
      BY <3>1, <3>2 DEF InBounds, Memory
    <3>4. Memory'
      BY <1>1, <3>1, <3>3 DEF InBounds, Memory
    <3>5. Places' /\ Alone(t) /\ pc'[t] = "idle"
      BY <3>1 DEF InBounds, Places, Alone, Idling
    <3>6. Knows(t, "idle", chunk'[t], block'[t], below'[t])
      BY DEF Knows, InAllocate, Popping, Pushing
    <3> QED BY <1>1, <3>4, <3>5, <3>6, BoundsKept
  <2> QED BY <1>3, <2>3, <2>4, <2>5, <2>6, <2>7
<1> QED BY <1>2, <1>3

LEMMA BoundsRelease ==
  ASSUME InBounds, StartRelease \/ ReleaseOrKeep \/ UNCHANGED vars
  PROVE  InBounds'
<1>1. UNCHANGED <<m_ptrAllocChunk, head, count, next, held, pc, chunk, block, below>>
  BY DEF StartRelease, ReleaseOrKeep, vars, listVars, chunkVars
<1>2. m_listChunks' \in Seq(Chunks) /\ scan' \in Seq(Chunks)
  <2>0. m_listChunks \in Seq(Chunks) /\ scan \in Seq(Chunks)
        /\ DOMAIN m_listChunks = 1..Len(m_listChunks)
    BY LenProperties DEF InBounds, Memory
  <2>1. CASE StartRelease \/ UNCHANGED vars
    BY <2>0, <2>1 DEF StartRelease, vars, listVars
  <2>2. CASE ReleaseOrKeep
    <3>1. /\ scan # <<>> /\ scan' = Tail(scan)
          /\ \E i \in DOMAIN m_listChunks :
               m_listChunks' \in {RemoveAt(m_listChunks, i), m_listChunks}
      BY <2>2 DEF ReleaseOrKeep
    <3>2. Tail(scan) \in Seq(Chunks)
      BY <2>0, <3>1, HeadTailProperties
    <3>3. \A i \in 1..Len(m_listChunks) : RemoveAt(m_listChunks, i) \in Seq(Chunks)
      BY <2>0, ListErase
    <3> QED BY <2>0, <3>1, <3>2, <3>3
  <2> QED BY <2>1, <2>2
<1>3. Memory' /\ Places'
  BY <1>1, <1>2 DEF InBounds, Memory, Places
<1>4. /\ \A t \in Threads : Knows(t, pc'[t], chunk'[t], block'[t], below'[t])
      /\ \A t \in Threads : pc'[t] = "take" => m_ptrAllocChunk' \in Chunks
  BY <1>1 DEF InBounds
<1> QED BY <1>3, <1>4 DEF InBounds, Knows

\* However many threads allocate and give back at once, and whatever becomes of the free
\* lists then (a compare-exchange that takes a block pushed back for one that stayed), no
\* index, link or count runs out of its byte or its chunk (lines 66-112).
THEOREM StaysInChunkCorrect == Spec => [](TypeOK /\ StaysInChunk)
<1>1. Init => InBounds
  <2> SUFFICES ASSUME Init PROVE InBounds
    OBVIOUS
  <2>1. <<>> \in Seq(Chunks) /\ 0 \in Bytes
    BY EmptySeq, IndicesAre
  <2>2. Memory /\ Places
    BY <2>1 DEF Init, Memory, Places, Idling
  <2>3. \A t \in Threads : pc[t] = "idle"
    BY DEF Init
  <2> QED BY <2>2, <2>3 DEF InBounds, Knows, InAllocate, Popping, Pushing
<1>2. InBounds /\ [Next]_vars => InBounds'
  BY BoundsFind, BoundsQuiet, BoundsChange, BoundsRelease DEF Next, Allocate
<1>3. InBounds => TypeOK /\ StaysInChunk
  <2> SUFFICES ASSUME InBounds PROVE TypeOK /\ StaysInChunk
    OBVIOUS
  <2>1. DOMAIN pc = Threads /\ Allocating \subseteq Allocators
    BY DEF InBounds, Places, Knows, Allocating, InAllocate, Popping
  <2>2. StaysInChunk
    BY DEF InBounds, Knows, StaysInChunk, Popping
  <2> QED BY <2>1, <2>2 DEF InBounds, Memory, Places, TypeOK
<1> QED BY <1>1, <1>2, <1>3, PTL DEF Spec
-----------------------------------------------------------------------------
(* What the invariant says of the properties. *)

\* The blocks that the links of a listed chunk run through are the unused ones.
LEMMA LinksAre ==
  ASSUME SmallInv, NEW c \in Listed
  PROVE  /\ Link(c)[m_numBlocks] = m_numBlocks /\ FreeBlocks(c) = Unused(c)
         /\ UsedBlocks(c) \subseteq Indices
<1>1. Chain(head[c], next[c], Unused(c))
  BY DEF SmallInv, Chained
<1>2. Link(c)[m_numBlocks] = m_numBlocks /\ FreeBlocks(c) = Unused(c)
  BY <1>1, UnusedIs, ChainLink
<1>3. UsedBlocks(c) \subseteq Indices
  <2> SUFFICES ASSUME NEW b \in UsedBlocks(c) PROVE b \in Indices
    OBVIOUS
  <2>1. CASE <<c, b>> \in held
    BY <2>1 DEF SmallInv, Typed, TypeOK
  <2>2. ASSUME NEW t \in Threads, Owns(t), block[t] = b PROVE b \in Indices
    BY <2>2 DEF SmallInv, Working, Owns, Pushing
  <2>3. <<c, b>> \in held \/ \E t \in Threads : Owns(t) /\ chunk[t] = c /\ block[t] = b
    BY UsedAre
  <2> QED BY <2>1, <2>2, <2>3
<1> QED BY <1>2, <1>3

\* Until two threads are in allocate at the same time, and whatever threads give blocks
\* back meanwhile, every block of a chunk on the list is free or in use and not both, and
\* the links from the head (SmallAllocator.cpp 66-112) run through the free ones to the end.
THEOREM FreeListIntactCorrect == Spec => []FreeListIntact
<1>1. TypeOK /\ (~overlapped => SmallInv) => FreeListIntact
  <2> SUFFICES ASSUME TypeOK, SmallInv PROVE FreeListIntact
    BY DEF FreeListIntact
  <2>1. \A c \in Listed : Link(c)[m_numBlocks] = m_numBlocks
                          /\ UsedBlocks(c) = Indices \ FreeBlocks(c)
    BY LinksAre DEF Unused
  <2> QED BY <2>1 DEF FreeListIntact
<1> QED BY <1>1, SmallInvCorrect, StaysInChunkCorrect, PTL

\* Until two threads are in allocate at the same time m_availaBlockNum is the number of
\* free blocks of the chunk but for those popped or pushed just now, and does not wrap
\* around at either end of its byte (lines 91 and 111).
THEOREM CountExactCorrect == Spec => []CountExact
<1>1. (~overlapped => SmallInv) => CountExact
  <2> SUFFICES ASSUME SmallInv, NEW c \in Listed
               PROVE  count[c] + Cardinality(At("count", c))
                        = Cardinality(FreeBlocks(c)) + Cardinality(At("uncount", c))
    BY DEF CountExact, At
  <2> QED BY LinksAre DEF SmallInv, Counts
<1> QED BY <1>1, SmallInvCorrect, PTL

\* Until two threads are in allocate at the same time releaseFreeMemory (161-185) deletes
\* no chunk that is allocated from, that a thread works on, or that has a block in use.
THEOREM UnusedUntilOverlapCorrect == Spec => []UnusedUntilOverlap
<1>1. (~overlapped => SmallInv) => UnusedUntilOverlap
  <2> SUFFICES ASSUME SmallInv PROVE ReleasedChunkUnused
    BY DEF UnusedUntilOverlap
  <2>1. \A t \in Threads : chunk[t] \in Listed \cup {NoChunk}
    BY DEF SmallInv, Typed, Working
  <2> QED BY <2>1 DEF ReleasedChunkUnused, SmallInv, Owned
<1> QED BY <1>1, SmallInvCorrect, PTL
=============================================================================
