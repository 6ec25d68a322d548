------------------------- MODULE ChunkAllocatorProofs -------------------------
(***************************************************************************)
(* Proofs about the chunk allocator: a block is in one place, the counters *)
(* are exact, and the cache is within its limit, for any threads, blocks,  *)
(* sizes and limit.                                                        *)
(***************************************************************************)
EXTENDS ChunkAllocator, FiniteSetTheorems, SequenceTheorems, WellFoundedInduction, TLAPS

-----------------------------------------------------------------------------
(* The invariant. *)

\* In deallocate, with a block that nobody else has.
Giver(t) == pc[t] \in {"push", "expire", "trim"}
Giving == {giving[t] : t \in {u \in Threads : Giver(u)}}

Typed ==
  /\ cache \in [Sizes -> Seq(Blocks)] /\ keys \subseteq Sizes
  /\ live \subseteq Blocks /\ held \subseteq live
  /\ size \in [Blocks -> Sizes \cup {0}] /\ \A b \in live : size[b] \in Sizes
  /\ pc \in [Threads -> {"idle", "new", "push", "expire", "trim"}]
  /\ asked \in [Threads -> Sizes \cup {0}]
  /\ \A t \in Threads : pc[t] = "new" => asked[t] \in Sizes
  /\ giving \in [Threads -> Blocks \cup {NoBlock}]
  /\ undefined \in BOOLEAN

Locked ==
  /\ lock \in Threads \cup {NoThread}
  /\ \A t \in Threads : pc[t] \in {"expire", "trim"} <=> lock = t

Distinct(q) == \A i, j \in DOMAIN q : q[i] = q[j] => i = j

\* The deques hold blocks of their size, each once, that nobody else has.
Deques ==
  /\ \A n \in Sizes :
       /\ Distinct(cache[n])
       /\ \A b \in BlocksOf(cache[n]) : b \in live \ held /\ size[b] = n
       /\ cache[n] # <<>> => n \in keys
  /\ live \subseteq held \cup Given \cup Cached

\* While a thread holds the mutex its block stays in the cache, and the map has no
\* empty deque between the two halves of deallocate.
Givers ==
  /\ \A t \in Threads : Giver(t) => giving[t] \in live \ held
  /\ \A t, u \in Threads : Giver(t) /\ Giver(u) /\ giving[t] = giving[u] => t = u
  /\ \A t \in Threads : pc[t] = "push" => giving[t] \notin Cached
  /\ \A t \in Threads : pc[t] = "expire" =>
       LET q == cache[size[giving[t]]] IN q # <<>> /\ q[Len(q)] = giving[t]
  /\ \A t \in Threads : pc[t] = "trim" =>
       /\ giving[t] \in BlocksOf(cache[size[giving[t]]])
       /\ \A n \in keys : cache[n] # <<>>

\* What is over the limit is no more than what its threads are giving.
Counted ==
  /\ m_sizeFree = SizeOf(Cached \cup Given)
  /\ m_sizeTotal = SizeOf(live)
  /\ m_sizeFree <= m_usMaxFreeCacheSize + SizeOf(Giving)

ChunkInv == Typed /\ Locked /\ Deques /\ Givers /\ Counted

-----------------------------------------------------------------------------
(* Sums over finite sets. *)

LEMMA LeastNatural ==
  ASSUME NEW T \in SUBSET Nat, T # {}
  PROVE  \E x \in T : \A y \in T : x <= y
<1>1. PICK x \in T : \A y \in T : ~(<<y, x>> \in OpToRel(<, Nat))
  BY Zenon, WFMin, NatLessThanWellFounded
<1>2. \A y \in T : ~(y < x)
  BY <1>1 DEF OpToRel
<1> QED BY <1>2

LEMMA AllNaturals ==
  ASSUME NEW T \in SUBSET Nat, 0 \in T, \A n \in T : n + 1 \in T
  PROVE  T = Nat
<1> SUFFICES ASSUME T # Nat PROVE FALSE
  OBVIOUS
<1>1. PICK x \in Nat \ T : \A y \in Nat \ T : x <= y
  BY LeastNatural
<1>2. x - 1 \in T
  BY <1>1
<1> QED BY <1>1, <1>2

\* Natural induction over the finite subsets of B, by their cardinality.
LEMMA AllSubsets ==
  ASSUME NEW B, IsFiniteSet(B), NEW G \in SUBSET SUBSET B, {} \in G,
         \A s \in G : \A b \in B \ s : s \cup {b} \in G
  PROVE  G = SUBSET B
<1> DEFINE T == {n \in Nat : \A s \in SUBSET B : Cardinality(s) = n => s \in G}
<1>1. 0 \in T
  <2>1. ASSUME NEW s \in SUBSET B, Cardinality(s) = 0 PROVE s = {}
    BY <2>1, FS_Subset, FS_EmptySet
  <2> QED BY <2>1
<1>2. ASSUME NEW n \in T PROVE n + 1 \in T
  <2> SUFFICES ASSUME NEW s \in SUBSET B, Cardinality(s) = n + 1 PROVE s \in G
    OBVIOUS
  <2>1. IsFiniteSet(s) /\ s # {}
    BY FS_Subset, FS_EmptySet
  <2>2. PICK b : b \in s
    BY <2>1
  <2>3. Cardinality(s \ {b}) = n /\ s \ {b} \in SUBSET B
    <3>1. Cardinality(s \ {b}) = Cardinality(s) - 1 /\ n \in Nat
      BY <2>1, <2>2, FS_RemoveElement
    <3> QED BY <3>1
  <2>4. s \ {b} \in G
    BY <2>3
  <2>5. (s \ {b}) \cup {b} = s /\ b \in B \ (s \ {b})
    BY <2>2
  <2> HIDE DEF T
  <2> QED BY <2>4, <2>5
<1>3. T = Nat
  <2> HIDE DEF T
  <2>1. T \in SUBSET Nat
    BY DEF T
  <2> QED BY <1>1, <1>2, <2>1, AllNaturals
<1>4. ASSUME NEW s \in SUBSET B PROVE s \in G
  <2>1. Cardinality(s) \in Nat
    BY FS_Subset, FS_CardinalityType
  <2>2. Cardinality(s) \in T
    <3> HIDE DEF T
    <3> QED BY <1>3, <2>1
  <2> QED BY <2>2
<1> QED BY <1>4

Some(s) == CHOOSE x \in s : TRUE

LEMMA SomeIn == \A s : s # {} => Some(s) \in s
BY DEF Some

\* f gives the sums of w over the sets of D, which have all their subsets in D.
Sums(f, w, D) ==
  \A s \in D : f[s] = IF s = {} THEN 0 ELSE w[Some(s)] + f[s \ {Some(s)}]

Upto(B, n) == {s \in SUBSET B : Cardinality(s) <= n}

LEMMA UptoLess ==
  ASSUME NEW B, IsFiniteSet(B), NEW n \in Nat, NEW s \in Upto(B, n + 1), s # {}
  PROVE  s \ {Some(s)} \in Upto(B, n)
<1>1. IsFiniteSet(s) /\ Cardinality(s) \in Nat /\ Cardinality(s) <= n + 1
  BY FS_Subset, FS_CardinalityType DEF Upto
<1>2. Some(s) \in s
  BY SomeIn
<1>3. Cardinality(s \ {Some(s)}) = Cardinality(s) - 1
  BY <1>1, <1>2, FS_RemoveElement
<1> QED BY <1>1, <1>3 DEF Upto

LEMMA SumsExist ==
  ASSUME NEW B, IsFiniteSet(B), NEW w \in [B -> Nat]
  PROVE  \E f \in [SUBSET B -> Nat] : Sums(f, w, SUBSET B)
<1> DEFINE Has(n) == \E f \in [Upto(B, n) -> Nat] : Sums(f, w, Upto(B, n))
           T == {n \in Nat : Has(n)}
<1>1. 0 \in T
  <2> DEFINE f == [s \in Upto(B, 0) |-> 0]
  <2>1. \A s \in Upto(B, 0) : s = {}
    <3> SUFFICES ASSUME NEW s \in Upto(B, 0) PROVE s = {}
      OBVIOUS
    <3>1. IsFiniteSet(s) /\ Cardinality(s) \in Nat /\ Cardinality(s) <= 0
      BY FS_Subset, FS_CardinalityType DEF Upto
    <3> QED BY <3>1, FS_EmptySet
  <2>2. f \in [Upto(B, 0) -> Nat] /\ Sums(f, w, Upto(B, 0))
    BY <2>1 DEF Sums
  <2> QED BY <2>2
<1>2. ASSUME NEW n \in T PROVE n + 1 \in T
  <2>1. n \in Nat /\ Has(n)
    OBVIOUS
  <2>2. PICK f \in [Upto(B, n) -> Nat] : Sums(f, w, Upto(B, n))
    BY <2>1
  <2> DEFINE g == [s \in Upto(B, n + 1) |->
                     IF s = {} THEN 0 ELSE w[Some(s)] + f[s \ {Some(s)}]]
  <2>3. \A s \in Upto(B, n + 1) : s # {} => s \ {Some(s)} \in Upto(B, n) /\ w[Some(s)] \in Nat
    BY <2>1, UptoLess, SomeIn DEF Upto
  <2>4. g \in [Upto(B, n + 1) -> Nat]
    BY <2>3
  <2>5. Upto(B, n) \subseteq Upto(B, n + 1)
    <3> SUFFICES ASSUME NEW s \in Upto(B, n) PROVE s \in Upto(B, n + 1)
      OBVIOUS
    <3>1. Cardinality(s) \in Nat /\ Cardinality(s) <= n /\ s \in SUBSET B
      BY FS_Subset, FS_CardinalityType DEF Upto
    <3> QED BY <2>1, <3>1 DEF Upto
  <2>6. \A s \in Upto(B, n) : g[s] = f[s]
    BY <2>2, <2>5 DEF Sums
  <2>7. Sums(g, w, Upto(B, n + 1))
    BY <2>3, <2>6 DEF Sums
  <2>8. Has(n + 1)
    <3> HIDE DEF g
    <3> QED BY <2>4, <2>7
  <2> QED BY <2>1, <2>8
<1>3. T = Nat
  <2> HIDE DEF T
  <2>1. T \in SUBSET Nat
    BY DEF T
  <2> QED BY <1>1, <1>2, <2>1, AllNaturals
<1>4. Cardinality(B) \in Nat /\ Upto(B, Cardinality(B)) = SUBSET B
  <2>1. Cardinality(B) \in Nat
    BY FS_CardinalityType
  <2>2. \A s \in SUBSET B : Cardinality(s) <= Cardinality(B)
    BY FS_Subset
  <2> QED BY <2>1, <2>2 DEF Upto
<1>5. Cardinality(B) \in T
  <2> HIDE DEF T
  <2> QED BY <1>3, <1>4
<1>6. Has(Cardinality(B))
  BY <1>5
<1> QED BY <1>4, <1>6

\* Two functions equal on D, and a function of sets that adds a block's size with the block.
Agree(f, g, D) == \A x \in D : f[x] = g[x]
AddsUp(f, w, B) == \A s \in SUBSET B : \A b \in B \ s : f[s \cup {b}] = f[s] + w[b]

LEMMA SumsAgree ==
  ASSUME NEW B, IsFiniteSet(B), NEW f, NEW w, Sums(f, w, SUBSET B),
         NEW g, NEW v, Sums(g, v, SUBSET B), Agree(w, v, B)
  PROVE  Agree(f, g, SUBSET B)
<1> DEFINE T == {n \in Nat : \A s \in Upto(B, n) : f[s] = g[s]}
<1>1. 0 \in T
  <2> SUFFICES ASSUME NEW s \in Upto(B, 0) PROVE f[s] = g[s]
    OBVIOUS
  <2>1. IsFiniteSet(s) /\ Cardinality(s) \in Nat /\ Cardinality(s) <= 0 /\ s \in SUBSET B
    BY FS_Subset, FS_CardinalityType DEF Upto
  <2>2. s = {}
    BY <2>1, FS_EmptySet
  <2> QED BY <2>1, <2>2 DEF Sums
<1>2. ASSUME NEW n \in T PROVE n + 1 \in T
  <2>0. n \in Nat /\ \A s \in Upto(B, n) : f[s] = g[s]
    OBVIOUS
  <2> SUFFICES ASSUME NEW s \in Upto(B, n + 1) PROVE f[s] = g[s]
    BY <2>0
  <2>1. s \in SUBSET B
    BY DEF Upto
  <2>2. CASE s = {}
    BY <2>1, <2>2 DEF Sums
  <2>3. CASE s # {}
    <3>1. s \ {Some(s)} \in Upto(B, n)
      BY <2>0, <2>3, UptoLess
    <3>2. f[s \ {Some(s)}] = g[s \ {Some(s)}]
      BY <2>0, <3>1
    <3>3. Some(s) \in B
      BY <2>1, <2>3, SomeIn
    <3>4. f[s] = w[Some(s)] + f[s \ {Some(s)}] /\ g[s] = v[Some(s)] + g[s \ {Some(s)}]
      BY <2>1, <2>3 DEF Sums
    <3>5. w[Some(s)] = v[Some(s)]
      BY <3>3 DEF Agree
    <3> QED BY <3>2, <3>4, <3>5
  <2> QED BY <2>2, <2>3
<1>3. T = Nat
  <2> HIDE DEF T
  <2>1. T \in SUBSET Nat
    BY DEF T
  <2> QED BY <1>1, <1>2, <2>1, AllNaturals
<1>4. Cardinality(B) \in T
  <2> HIDE DEF T
  <2> QED BY <1>3, FS_CardinalityType
<1> SUFFICES ASSUME NEW s \in SUBSET B PROVE f[s] = g[s]
  BY DEF Agree
<1>5. s \in Upto(B, Cardinality(B))
  BY FS_Subset DEF Upto
<1> QED BY <1>4, <1>5

\* The operator of the model, SizeOf, of any sizes.
Sum(w, S) ==
  LET iter[s \in SUBSET S] ==
        IF s = {} THEN 0
        ELSE w[CHOOSE x \in s : TRUE] + iter[s \ {CHOOSE x \in s : TRUE}]
  IN  iter[S]

LEMMA SumIs ==
  ASSUME NEW B, IsFiniteSet(B), NEW w, NEW f \in [SUBSET B -> Nat], Sums(f, w, SUBSET B),
         NEW S \in SUBSET B
  PROVE  Sum(w, S) = f[S]
<1> DEFINE F == CHOOSE g : g = [s \in SUBSET S |->
                  IF s = {} THEN 0
                  ELSE w[CHOOSE x \in s : TRUE] + g[s \ {CHOOSE x \in s : TRUE}]]
           h == [s \in SUBSET S |-> f[s]]
<1>1. Sum(w, S) = F[S]
  BY DEF Sum
<1>2. h = [s \in SUBSET S |-> IF s = {} THEN 0
                              ELSE w[CHOOSE x \in s : TRUE] + h[s \ {CHOOSE x \in s : TRUE}]]
  <2>1. \A s \in SUBSET S :
          h[s] = IF s = {} THEN 0
                 ELSE w[CHOOSE x \in s : TRUE] + h[s \ {CHOOSE x \in s : TRUE}]
    <3> SUFFICES ASSUME NEW s \in SUBSET S
                 PROVE  h[s] = IF s = {} THEN 0 ELSE w[Some(s)] + h[s \ {Some(s)}]
      BY DEF Some
    <3>1. s \in SUBSET B /\ s \ {Some(s)} \in SUBSET S
      OBVIOUS
    <3>2. f[s] = IF s = {} THEN 0 ELSE w[Some(s)] + f[s \ {Some(s)}]
      BY <3>1 DEF Sums
    <3> QED BY <3>1, <3>2
  <2> QED BY <2>1
<1>3. F = [s \in SUBSET S |-> IF s = {} THEN 0
                              ELSE w[CHOOSE x \in s : TRUE] + F[s \ {CHOOSE x \in s : TRUE}]]
  <2> HIDE DEF h
  <2> QED BY <1>2
<1>4. Sums(F, w, SUBSET S)
  <2> HIDE DEF F
  <2> QED BY <1>3 DEF Sums, Some
<1>5. f[S] = F[S]
  <2> HIDE DEF F, h
  <2>1. IsFiniteSet(S) /\ S \in SUBSET S
    BY FS_Subset
  <2>2. Sums(f, w, SUBSET S) /\ Agree(w, w, S)
    BY DEF Sums, Agree
  <2>3. Agree(f, F, SUBSET S)
    BY <1>4, <2>1, <2>2, SumsAgree
  <2> QED BY <2>1, <2>3 DEF Agree
<1> QED BY <1>1, <1>5

LEMMA SumsAdd ==
  ASSUME NEW B, IsFiniteSet(B), NEW w \in [B -> Nat], NEW f \in [SUBSET B -> Nat],
         Sums(f, w, SUBSET B)
  PROVE  AddsUp(f, w, B)
<1> DEFINE Adds(s) == \A b \in B \ s : f[s \cup {b}] = f[s] + w[b]
           T == {n \in Nat : \A s \in Upto(B, n) : Adds(s)}
<1>0. \A s \in SUBSET B : s # {} => /\ f[s] = w[Some(s)] + f[s \ {Some(s)}] /\ Some(s) \in s
                                    /\ w[Some(s)] \in Nat /\ f[s \ {Some(s)}] \in Nat
  BY SomeIn DEF Sums
<1>1. ASSUME NEW s \in SUBSET B, \A b \in s : Adds(s \ {b})
      PROVE  Adds(s)
  <2> SUFFICES ASSUME NEW b \in B \ s PROVE f[s \cup {b}] = f[s] + w[b]
    OBVIOUS
  <2> DEFINE x == Some(s \cup {b})
  <2>1. f[s \cup {b}] = w[x] + f[(s \cup {b}) \ {x}] /\ x \in s \cup {b} /\ w[x] \in Nat
    BY <1>0
  <2>2. f[s] \in Nat /\ w[b] \in Nat
    OBVIOUS
  <2> HIDE DEF x
  <2>3. CASE x = b
    <3>1. (s \cup {b}) \ {x} = s
      BY <2>3
    <3>2. f[(s \cup {b}) \ {x}] = f[s] /\ w[x] = w[b]
      BY <2>3, <3>1
    <3> QED BY <2>1, <2>2, <3>2
  <2>4. CASE x # b
    <3>1. x \in s /\ (s \cup {b}) \ {x} = (s \ {x}) \cup {b} /\ b \in B \ (s \ {x})
      BY <2>1, <2>4
    <3>2. f[(s \ {x}) \cup {b}] = f[s \ {x}] + w[b]
      BY <1>1, <3>1
    <3>3. (s \ {x}) \cup {x} = s /\ x \in B \ (s \ {x})
      BY <3>1
    <3>4. f[s] = f[s \ {x}] + w[x]
      BY <1>1, <3>1, <3>3
    <3>5. f[s \ {x}] \in Nat
      OBVIOUS
    <3>6. f[(s \cup {b}) \ {x}] = f[(s \ {x}) \cup {b}]
      BY <3>1
    <3> QED BY <2>1, <2>2, <3>2, <3>4, <3>5, <3>6
  <2> QED BY <2>3, <2>4
<1>2. ASSUME NEW s \in SUBSET B, NEW n \in Nat, Cardinality(s) <= n + 1, NEW b \in s
      PROVE  s \ {b} \in Upto(B, n)
  <2>1. IsFiniteSet(s) /\ Cardinality(s) \in Nat
    BY FS_Subset, FS_CardinalityType
  <2>2. Cardinality(s \ {b}) = Cardinality(s) - 1
    BY <2>1, FS_RemoveElement
  <2> QED BY <1>2, <2>1, <2>2 DEF Upto
<1>3. 0 \in T
  <2> SUFFICES ASSUME NEW s \in Upto(B, 0) PROVE Adds(s)
    OBVIOUS
  <2>1. IsFiniteSet(s) /\ Cardinality(s) \in Nat /\ Cardinality(s) <= 0 /\ s \in SUBSET B
    BY FS_Subset, FS_CardinalityType DEF Upto
  <2>2. s = {}
    BY <2>1, FS_EmptySet
  <2> HIDE DEF Adds
  <2> QED BY <1>1, <2>1, <2>2
<1>4. ASSUME NEW n \in T PROVE n + 1 \in T
  <2> HIDE DEF Adds
  <2>1. n \in Nat /\ \A s \in Upto(B, n) : Adds(s)
    OBVIOUS
  <2>2. ASSUME NEW s \in Upto(B, n + 1) PROVE Adds(s)
    <3>1. s \in SUBSET B /\ Cardinality(s) <= n + 1
      BY DEF Upto
    <3>2. \A b \in s : Adds(s \ {b})
      BY <1>2, <2>1, <3>1
    <3> QED BY <1>1, <3>1, <3>2
  <2> QED BY <2>1, <2>2
<1>5. T = Nat
  <2> HIDE DEF T
  <2>1. T \in SUBSET Nat
    BY DEF T
  <2> QED BY <1>3, <1>4, <2>1, AllNaturals
<1>6. Cardinality(B) \in T
  <2> HIDE DEF T
  <2> QED BY <1>5, FS_CardinalityType
<1> SUFFICES ASSUME NEW s \in SUBSET B PROVE Adds(s)
  BY DEF AddsUp
<1>7. s \in Upto(B, Cardinality(B))
  BY FS_Subset DEF Upto
<1> QED BY <1>6, <1>7

\* What the sums of a finite set's subsets are.
LEMMA SumOf ==
  ASSUME NEW B, IsFiniteSet(B), NEW w \in [B -> Nat]
  PROVE  /\ Sum(w, {}) = 0
         /\ \A S \in SUBSET B : Sum(w, S) \in Nat
         /\ \A S \in SUBSET B : \A b \in B \ S : Sum(w, S \cup {b}) = Sum(w, S) + w[b]
<1>1. PICK f \in [SUBSET B -> Nat] : Sums(f, w, SUBSET B)
  BY SumsExist
<1>2. \A S \in SUBSET B : Sum(w, S) = f[S] /\ f[S] \in Nat
  BY <1>1, SumIs
<1>3. {} \in SUBSET B /\ f[{}] = 0
  BY <1>1 DEF Sums
<1>4. ASSUME NEW S \in SUBSET B, NEW b \in B \ S
      PROVE  Sum(w, S \cup {b}) = Sum(w, S) + w[b]
  <2>0. AddsUp(f, w, B)
    BY <1>1, SumsAdd
  <2>1. f[S \cup {b}] = f[S] + w[b]
    BY <2>0 DEF AddsUp
  <2>2. S \cup {b} \in SUBSET B
    OBVIOUS
  <2> QED BY <1>2, <2>1, <2>2
<1> QED BY <1>2, <1>3, <1>4

LEMMA SumUnion ==
  ASSUME NEW B, IsFiniteSet(B), NEW w \in [B -> Nat], NEW S \in SUBSET B, NEW R \in SUBSET B,
         S \cap R = {}
  PROVE  Sum(w, S \cup R) = Sum(w, S) + Sum(w, R)
<1> DEFINE C == B \ S
           G == {s \in SUBSET C : Sum(w, S \cup s) = Sum(w, S) + Sum(w, s)}
<1>1. {} \in G
  <2>1. S \cup {} = S /\ Sum(w, {}) = 0 /\ Sum(w, S) \in Nat
    BY SumOf
  <2> QED BY <2>1
<1>2. ASSUME NEW s \in G, NEW b \in C \ s PROVE s \cup {b} \in G
  <2>1. s \in SUBSET C /\ s \in SUBSET B /\ S \cup s \in SUBSET B /\ b \in B \ s
        /\ b \in B \ (S \cup s)
    OBVIOUS
  <2>2. Sum(w, (S \cup s) \cup {b}) = Sum(w, S \cup s) + w[b]
        /\ Sum(w, s \cup {b}) = Sum(w, s) + w[b]
    <3> DEFINE u == S \cup s
    <3>1. u \in SUBSET B /\ b \in B \ u
      BY <2>1
    <3>2. \A q \in SUBSET B : \A c \in B \ q : Sum(w, q \cup {c}) = Sum(w, q) + w[c]
      BY SumOf
    <3> HIDE DEF u
    <3>3. Sum(w, u \cup {b}) = Sum(w, u) + w[b] /\ Sum(w, s \cup {b}) = Sum(w, s) + w[b]
      BY <2>1, <3>1, <3>2
    <3> QED BY <3>3 DEF u
  <2>3. Sum(w, S) \in Nat /\ Sum(w, s) \in Nat /\ w[b] \in Nat
    BY <2>1, SumOf
  <2>4. (S \cup s) \cup {b} = S \cup (s \cup {b})
    OBVIOUS
  <2>5. Sum(w, S \cup s) = Sum(w, S) + Sum(w, s)
    OBVIOUS
  <2>6. Sum(w, S \cup (s \cup {b})) = Sum(w, S) + Sum(w, s \cup {b})
    <3>1. Sum(w, S \cup (s \cup {b})) = Sum(w, (S \cup s) \cup {b})
      BY <2>4
    <3> QED BY <2>2, <2>3, <2>5, <3>1
  <2> QED BY <2>1, <2>6
<1>3. G = SUBSET C
  <2>1. IsFiniteSet(C) /\ G \in SUBSET SUBSET C
    BY FS_Subset
  <2> HIDE DEF G, C
  <2> QED BY <1>1, <1>2, <2>1, AllSubsets
<1>4. R \in SUBSET C
  OBVIOUS
<1> QED BY <1>3, <1>4

LEMMA SumLess ==
  ASSUME NEW B, IsFiniteSet(B), NEW w \in [B -> Nat], NEW S \in SUBSET B, NEW R \in SUBSET S
  PROVE  Sum(w, S \ R) = Sum(w, S) - Sum(w, R) /\ Sum(w, R) <= Sum(w, S)
<1>1. R \in SUBSET B /\ S \ R \in SUBSET B /\ (S \ R) \cap R = {} /\ (S \ R) \cup R = S
  OBVIOUS
<1>2. Sum(w, S) = Sum(w, S \ R) + Sum(w, R)
  <2>1. Sum(w, (S \ R) \cup R) = Sum(w, S \ R) + Sum(w, R)
    BY <1>1, SumUnion
  <2> QED BY <1>1, <2>1
<1>3. Sum(w, S \ R) \in Nat /\ Sum(w, R) \in Nat
  BY <1>1, SumOf
<1> QED BY <1>2, <1>3

\* Sums read the sizes of the blocks of their set only.
LEMMA SumSame ==
  ASSUME NEW B, IsFiniteSet(B), NEW w \in [B -> Nat], NEW v \in [B -> Nat], NEW S \in SUBSET B,
         \A b \in S : w[b] = v[b]
  PROVE  Sum(w, S) = Sum(v, S)
<1>1. PICK f \in [SUBSET B -> Nat] : Sums(f, w, SUBSET B)
  BY SumsExist
<1>2. PICK g \in [SUBSET B -> Nat] : Sums(g, v, SUBSET B)
  BY SumsExist
<1>3. IsFiniteSet(S) /\ Sums(f, w, SUBSET S) /\ Sums(g, v, SUBSET S)
  BY <1>1, <1>2, FS_Subset DEF Sums
<1>4. Agree(w, v, S)
  BY DEF Agree
<1>5. Agree(f, g, SUBSET S)
  BY <1>3, <1>4, SumsAgree
<1>6. f[S] = g[S]
  BY <1>5 DEF Agree
<1> QED BY <1>1, <1>2, <1>6, SumIs

-----------------------------------------------------------------------------
(* Deques. *)

LEMMA BlocksAre ==
  ASSUME NEW S, NEW q \in Seq(S)
  PROVE  /\ DOMAIN q = 1..Len(q) /\ Len(q) \in Nat /\ BlocksOf(q) \subseteq S
         /\ \A x : x \in BlocksOf(q) <=> \E i \in 1..Len(q) : q[i] = x
         /\ q = <<>> <=> BlocksOf(q) = {}
<1>1. DOMAIN q = 1..Len(q) /\ Len(q) \in Nat /\ \A i \in 1..Len(q) : q[i] \in S
  OBVIOUS
<1>2. q = <<>> <=> Len(q) = 0
  BY EmptySeq
<1>3. BlocksOf(q) \subseteq S /\ \A x : x \in BlocksOf(q) <=> \E i \in 1..Len(q) : q[i] = x
  BY <1>1 DEF BlocksOf
<1>4. q = <<>> <=> BlocksOf(q) = {}
  <2>1. ASSUME Len(q) # 0 PROVE BlocksOf(q) # {}
    <3>1. 1 \in 1..Len(q)
      BY <1>1, <2>1
    <3>2. q[1] \in BlocksOf(q)
      BY <1>3, <3>1
    <3> QED BY <3>2
  <2>2. ASSUME Len(q) = 0 PROVE BlocksOf(q) = {}
    <3>1. \A i \in 1..Len(q) : FALSE
      BY <2>2
    <3> QED BY <1>3, <3>1
  <2> QED BY <1>2, <2>1, <2>2
<1> QED BY <1>1, <1>3, <1>4

\* Without its first k blocks, of n.
Shortened(q, n, k, S) ==
  LET left == SubSeq(q, k + 1, n)
      gone == SubSeq(q, 1, k)
  IN  /\ left \in Seq(S) /\ gone \in Seq(S) /\ Distinct(left)
      /\ BlocksOf(left) = BlocksOf(q) \ BlocksOf(gone)
      /\ BlocksOf(gone) \subseteq BlocksOf(q)
      /\ k < n => left # <<>> /\ left[Len(left)] = q[n]

LEMMA DequeOld ==
  ASSUME NEW S, NEW n \in Nat, NEW q \in Seq(S), Len(q) = n, Distinct(q), NEW k \in 0..n
  PROVE  Shortened(q, n, k, S)
<1> DEFINE left == SubSeq(q, k + 1, n)
           gone == SubSeq(q, 1, k)
<1>1. DOMAIN q = 1..n
  OBVIOUS
<1>2. left \in Seq(S) /\ Len(left) = n - k /\ \A i \in 1..(n - k) : left[i] = q[i + k]
  OBVIOUS
<1>3. gone \in Seq(S) /\ Len(gone) = k /\ \A i \in 1..k : gone[i] = q[i]
  OBVIOUS
<1> HIDE DEF left, gone
<1>4. Distinct(left)
  <2>1. DOMAIN left = 1..Len(left)
    BY <1>2
  <2>2. ASSUME NEW i \in 1..Len(left), NEW j \in 1..Len(left), left[i] = left[j]
        PROVE  i = j
    <3>1. i + k \in DOMAIN q /\ j + k \in DOMAIN q /\ q[i + k] = q[j + k]
      BY <1>1, <1>2, <2>2
    <3>2. i + k = j + k
      BY <3>1 DEF Distinct
    <3> QED BY <3>2
  <2> QED BY <2>1, <2>2 DEF Distinct
<1>5. ASSUME NEW x
      PROVE  x \in BlocksOf(left) <=> x \in BlocksOf(q) \ BlocksOf(gone)
  <2>1. ASSUME x \in BlocksOf(left) PROVE x \in BlocksOf(q) \ BlocksOf(gone)
    <3>1. PICK i \in 1..Len(left) : left[i] = x
      BY <1>2, <2>1, BlocksAre
    <3>2. i + k \in 1..n /\ q[i + k] = x
      BY <1>1, <1>2, <3>1
    <3>3. x \in BlocksOf(q)
      BY <3>2, BlocksAre
    <3>4. ASSUME x \in BlocksOf(gone) PROVE FALSE
      <4>1. PICK j \in 1..k : gone[j] = x
        BY <1>3, <3>4, BlocksAre
      <4>2. j \in DOMAIN q /\ i + k \in DOMAIN q /\ q[j] = q[i + k]
        BY <1>1, <1>3, <3>2, <4>1
      <4>3. j = i + k
        BY <4>2 DEF Distinct
      <4> QED BY <4>3
    <3> QED BY <3>3, <3>4
  <2>2. ASSUME x \in BlocksOf(q), x \notin BlocksOf(gone) PROVE x \in BlocksOf(left)
    <3>1. PICK i \in 1..n : q[i] = x
      BY <2>2, BlocksAre
    <3>2. i > k
      <4> SUFFICES ASSUME i \in 1..k PROVE FALSE
        BY <1>1
      <4>1. gone[i] = x /\ i \in 1..Len(gone)
        BY <1>3, <3>1
      <4> QED BY <1>3, <2>2, <4>1, BlocksAre
    <3>3. i - k \in 1..Len(left) /\ left[i - k] = x
      BY <1>1, <1>2, <3>1, <3>2
    <3> QED BY <1>2, <3>3, BlocksAre
  <2> QED BY <2>1, <2>2
<1>6. BlocksOf(gone) \subseteq BlocksOf(q)
  <2> SUFFICES ASSUME NEW x \in BlocksOf(gone) PROVE x \in BlocksOf(q)
    OBVIOUS
  <2>1. PICK j \in 1..k : gone[j] = x
    BY <1>3, BlocksAre
  <2>2. j \in 1..n /\ q[j] = x
    BY <1>1, <1>3, <2>1
  <2> QED BY <2>2, BlocksAre
<1>7. k < n => left # <<>> /\ left[Len(left)] = q[n]
  <2> SUFFICES ASSUME k < n PROVE left # <<>> /\ left[Len(left)] = q[n]
    OBVIOUS
  <2>1. Len(left) = n - k
    BY <1>2
  <2>2. Len(left) \in 1..Len(left) /\ Len(left) + k = n /\ Len(left) # 0
    BY <1>1, <2>1
  <2>3. left[Len(left)] = q[Len(left) + k]
    BY <1>2, <2>2
  <2> QED BY <2>2, <2>3, EmptySeq
<1> QED BY <1>2, <1>3, <1>4, <1>5, <1>6, <1>7 DEF left, gone, Shortened

\* Without the first, and without the last.
LEMMA DequeTail ==
  ASSUME NEW S, NEW q \in Seq(S), Distinct(q), q # <<>>
  PROVE  /\ Tail(q) \in Seq(S) /\ Distinct(Tail(q)) /\ Head(q) \in BlocksOf(q)
         /\ BlocksOf(Tail(q)) = BlocksOf(q) \ {Head(q)}
<1>1. PICK n \in Nat \ {0} : Len(q) = n
  BY EmptySeq
<1>2. Tail(q) = SubSeq(q, 1 + 1, n) /\ Head(q) = q[1]
  BY <1>1, TailIsSubSeq
<1>3. 1 \in 0..n /\ 1 \in 1..n
  BY <1>1
<1>4. /\ SubSeq(q, 1 + 1, n) \in Seq(S) /\ Distinct(SubSeq(q, 1 + 1, n))
      /\ BlocksOf(SubSeq(q, 1 + 1, n)) = BlocksOf(q) \ BlocksOf(SubSeq(q, 1, 1))
      /\ SubSeq(q, 1, 1) \in Seq(S)
  <2>1. Shortened(q, n, 1, S)
    BY <1>1, <1>3, DequeOld
  <2> QED BY <2>1 DEF Shortened
<1>5. BlocksOf(SubSeq(q, 1, 1)) = {q[1]}
  <2> DEFINE r == SubSeq(q, 1, 1)
  <2>1. r \in Seq(S) /\ Len(r) = 1 /\ r[1] = q[1]
    BY <1>1, <1>3
  <2> HIDE DEF r
  <2>2. \A x : x \in BlocksOf(r) <=> x = q[1]
    BY <2>1, BlocksAre
  <2> QED BY <2>2 DEF r
<1>6. q[1] \in BlocksOf(q)
  BY <1>1, <1>3, BlocksAre
<1> QED BY <1>2, <1>4, <1>5, <1>6

LEMMA DequeFront ==
  ASSUME NEW S, NEW q \in Seq(S), Distinct(q), q # <<>>
  PROVE  LET front == SubSeq(q, 1, Len(q) - 1)
         IN  /\ front \in Seq(S) /\ Distinct(front) /\ q[Len(q)] \in BlocksOf(q)
             /\ BlocksOf(front) = BlocksOf(q) \ {q[Len(q)]}
<1> DEFINE front == SubSeq(q, 1, Len(q) - 1)
<1>1. PICK n \in Nat : Len(q) = n + 1
  <2>1. Len(q) \in Nat \ {0}
    BY EmptySeq
  <2> QED BY <2>1
<1>2. front \in Seq(S) /\ Len(front) = n /\ \A i \in 1..n : front[i] = q[i]
  BY <1>1
<1> HIDE DEF front
<1>3. DOMAIN q = 1..(n + 1) /\ DOMAIN front = 1..n /\ n + 1 \in 1..(n + 1)
      /\ \A i \in 1..n : i \in 1..(n + 1) /\ i # n + 1
  BY <1>1, <1>2
<1>4. Distinct(front)
  BY <1>2, <1>3 DEF Distinct
<1>5. q[n + 1] \in BlocksOf(q)
  BY <1>1, <1>3, BlocksAre
<1>6. ASSUME NEW x PROVE x \in BlocksOf(front) <=> x \in BlocksOf(q) \ {q[n + 1]}
  <2>1. ASSUME x \in BlocksOf(front) PROVE x \in BlocksOf(q) \ {q[n + 1]}
    <3>1. PICK i \in 1..n : front[i] = x
      BY <1>2, <2>1, BlocksAre
    <3>2. i \in 1..(n + 1) /\ i # n + 1 /\ q[i] = x
      BY <1>2, <1>3, <3>1
    <3>3. q[i] # q[n + 1]
      BY <1>3, <3>2 DEF Distinct
    <3> QED BY <1>1, <3>2, <3>3, BlocksAre
  <2>2. ASSUME x \in BlocksOf(q), x # q[n + 1] PROVE x \in BlocksOf(front)
    <3>1. PICK i \in 1..(n + 1) : q[i] = x
      BY <1>1, <2>2, BlocksAre
    <3>2. i \in 1..n
      BY <2>2, <3>1
    <3>3. front[i] = x
      BY <1>2, <3>1, <3>2
    <3> QED BY <1>2, <3>2, <3>3, BlocksAre
  <2> QED BY <2>1, <2>2
<1> QED BY <1>1, <1>2, <1>4, <1>5, <1>6 DEF front

LEMMA DequePush ==
  ASSUME NEW S, NEW q \in Seq(S), Distinct(q), NEW b \in S, b \notin BlocksOf(q)
  PROVE  /\ Append(q, b) \in Seq(S) /\ Distinct(Append(q, b))
         /\ BlocksOf(Append(q, b)) = BlocksOf(q) \cup {b}
         /\ Append(q, b) # <<>> /\ Append(q, b)[Len(Append(q, b))] = b
<1> DEFINE more == Append(q, b)
<1>1. Len(q) \in Nat /\ DOMAIN q = 1..Len(q)
  OBVIOUS
<1>2. /\ more \in Seq(S) /\ Len(more) = Len(q) + 1 /\ more[Len(q) + 1] = b
      /\ \A i \in 1..Len(q) : more[i] = q[i]
  BY AppendProperties
<1> HIDE DEF more
<1>3. DOMAIN more = 1..Len(more) /\ more # <<>>
  BY <1>1, <1>2, EmptySeq
<1>4. \A i \in 1..Len(q) : q[i] # b
  BY BlocksAre
<1>5. Distinct(more)
  BY <1>1, <1>2, <1>3, <1>4 DEF Distinct
<1>6. BlocksOf(more) = BlocksOf(q) \cup {b}
  BY <1>1, <1>2, <1>3 DEF BlocksOf
<1> QED BY <1>2, <1>3, <1>5, <1>6 DEF more
-----------------------------------------------------------------------------
(* The cache as a set, and its sums. *)

LEMMA CachedAre ==
  /\ \A b : b \in Cached <=> \E n \in Sizes : b \in BlocksOf(cache[n])
  /\ \A b : b \in Cached' <=> \E n \in Sizes : b \in BlocksOf(cache'[n])
BY DEF Cached, BlocksOf

LEMMA GivenAre ==
  /\ \A b : b \in Given <=> \E t \in Threads : pc[t] = "push" /\ giving[t] = b
  /\ \A b : b \in Given' <=> \E t \in Threads : pc'[t] = "push" /\ giving'[t] = b
  /\ \A b : b \in Giving <=> \E t \in Threads : Giver(t) /\ giving[t] = b
  /\ \A b : b \in Giving' <=> \E t \in Threads : Giver(t)' /\ giving'[t] = b
BY DEF Given, Giving

\* A block is in the deque of its size.
LEMMA CachedBySize ==
  ASSUME Deques
  PROVE  /\ \A b \in Cached : size[b] \in Sizes /\ b \in BlocksOf(cache[size[b]])
                              /\ b \in live \ held
         /\ \A n \in Sizes : \A b \in BlocksOf(cache[n]) : b \in Cached /\ size[b] = n
BY CachedAre DEF Deques

LEMMA BlockSets ==
  ASSUME Typed, Deques, Givers
  PROVE  /\ Cached \subseteq live /\ Given \subseteq Giving /\ Giving \subseteq live
         /\ Cached \cup Given \subseteq live /\ Cached \cap Given = {}
         /\ \A b \in Giving : b \notin held
<1>1. Cached \subseteq live
  BY CachedBySize
<1>2. Given \subseteq Giving /\ Giving \subseteq live /\ \A b \in Giving : b \notin held
  BY GivenAre DEF Givers, Giver
<1>3. Cached \cap Given = {}
  BY GivenAre DEF Givers
<1> QED BY <1>1, <1>2, <1>3

LEMMA SizesAreSums ==
  ASSUME NEW S
  PROVE  SizeOf(S) = Sum(size, S)
BY DEF SizeOf, MapThenSumSet, MapThenFoldSet, Sum

LEMMA CountedSums ==
  /\ Counted <=> /\ m_sizeFree = Sum(size, Cached \cup Given)
                 /\ m_sizeTotal = Sum(size, live)
                 /\ m_sizeFree <= m_usMaxFreeCacheSize + Sum(size, Giving)
  /\ Counted' <=> /\ m_sizeFree' = Sum(size', Cached' \cup Given')
                  /\ m_sizeTotal' = Sum(size', live')
                  /\ m_sizeFree' <= m_usMaxFreeCacheSize + Sum(size', Giving')
BY Zenon DEF Counted, SizeOf, MapThenSumSet, MapThenFoldSet, Sum

\* Blocks is finite and every size a natural number.
LEMMA Summing ==
  ASSUME Typed
  PROVE  /\ IsFiniteSet(Blocks) /\ size \in [Blocks -> Nat] /\ m_usMaxFreeCacheSize \in Nat
         /\ Sizes \subseteq Nat \ {0} /\ NoThread \notin Threads
BY ChunkAssumption DEF Typed

LEMMA SumTypes ==
  ASSUME Typed, NEW S \in SUBSET Blocks
  PROVE  Sum(size, S) \in Nat
BY Summing, SumOf

LEMMA CountedTypes ==
  ASSUME Typed, Deques, Givers, Counted
  PROVE  m_sizeFree \in Nat /\ m_sizeTotal \in Nat
<1>1. Cached \cup Given \in SUBSET Blocks /\ live \in SUBSET Blocks
  BY BlockSets DEF Typed
<1> QED BY <1>1, SumTypes, CountedSums

LEMMA SumOne ==
  ASSUME Typed, NEW b \in Blocks
  PROVE  Sum(size, {b}) = size[b] /\ size[b] \in Nat
<1>1. IsFiniteSet(Blocks) /\ size \in [Blocks -> Nat]
  BY Summing
<1>2. Sum(size, {}) = 0 /\ Sum(size, {} \cup {b}) = Sum(size, {}) + size[b]
  BY <1>1, SumOf
<1>3. {} \cup {b} = {b} /\ size[b] \in Nat
  BY <1>1
<1> QED BY <1>2, <1>3

\* A set of cached blocks is deleted: what is left is counted exactly.
LEMMA CacheShrinks ==
  ASSUME Typed, Deques, NEW gone,
         \A n \in Sizes : BlocksOf(cache'[n]) = BlocksOf(cache[n]) \ gone
  PROVE  Cached' = Cached \ gone
BY CachedAre

LEMMA CountedLess ==
  ASSUME Typed, Deques, Givers, Counted, NEW gone, gone \subseteq Cached,
         Cached' = Cached \ gone, Given' = Given, UNCHANGED size,
         m_sizeFree' = m_sizeFree - Sum(size, gone)
  PROVE  m_sizeFree' = Sum(size', Cached' \cup Given') /\ Sum(size, gone) \in Nat
         /\ Sum(size, gone) <= m_sizeFree
<1>1. Cached' \cup Given' = (Cached \cup Given) \ gone /\ gone \in SUBSET (Cached \cup Given)
  BY BlockSets
<1>2. Cached \cup Given \in SUBSET Blocks /\ gone \in SUBSET Blocks
  BY <1>1, BlockSets DEF Typed
<1>3. IsFiniteSet(Blocks) /\ size \in [Blocks -> Nat]
  BY Summing
<1>4. /\ Sum(size, (Cached \cup Given) \ gone) = Sum(size, Cached \cup Given) - Sum(size, gone)
      /\ Sum(size, gone) <= Sum(size, Cached \cup Given)
  BY <1>1, <1>2, <1>3, SumLess
<1>5. Sum(size, gone) \in Nat
  BY <1>2, SumTypes
<1>6. m_sizeFree = Sum(size, Cached \cup Given)
  BY CountedSums
<1> QED BY <1>1, <1>4, <1>5, <1>6

LEMMA TotalLess ==
  ASSUME Typed, NEW gone, gone \subseteq live
  PROVE  Sum(size, live \ gone) = Sum(size, live) - Sum(size, gone)
<1>1. live \in SUBSET Blocks /\ gone \in SUBSET live
  BY DEF Typed
<1>2. IsFiniteSet(Blocks) /\ size \in [Blocks -> Nat]
  BY Summing
<1> QED BY <1>1, <1>2, SumLess
-----------------------------------------------------------------------------
(* The steps. *)

LEMMA ChunkInit == Init => ChunkInv
<1> SUFFICES ASSUME Init PROVE ChunkInv
  OBVIOUS
<1>1. Typed /\ Locked
  BY ChunkAssumption, EmptySeq DEF Init, Typed, Locked
<1>2. /\ \A t \in Threads : pc[t] = "idle"
      /\ \A n \in Sizes : cache[n] = <<>> /\ BlocksOf(cache[n]) = {}
      /\ live = {}
  BY DEF Init, BlocksOf
<1>3. Cached = {} /\ Given = {} /\ Giving = {}
  BY <1>2, CachedAre, GivenAre DEF Giver
<1>4. Deques
  BY <1>2 DEF Deques, Distinct
<1>5. Givers
  BY <1>2 DEF Givers, Giver
<1>6. Counted
  <2>1. Sum(size, {}) = 0 /\ m_usMaxFreeCacheSize \in Nat
    BY <1>1, Summing, SumOf
  <2> QED BY <1>2, <1>3, <2>1, CountedSums DEF Init
<1> QED BY <1>1, <1>4, <1>5, <1>6 DEF ChunkInv

\* Threads that take a block from the heap have none to give.
LEMMA Elsewhere ==
  ASSUME Typed, NEW t \in Threads, pc[t] \in {"idle", "new"},
         pc' \in {[pc EXCEPT ![t] = "idle"], [pc EXCEPT ![t] = "new"]}, UNCHANGED giving
  PROVE  /\ Given' = Given /\ Giving' = Giving
         /\ \A u \in Threads : /\ Giver(u)' <=> Giver(u)
                               /\ pc'[u] # pc[u] => u = t
                               /\ \A p \in {"push", "expire", "trim"} : pc'[u] = p <=> pc[u] = p
<1>1. \A u \in Threads : pc'[u] = IF u = t THEN pc'[t] ELSE pc[u]
  BY DEF Typed
<1>2. pc'[t] \in {"idle", "new"}
  BY DEF Typed
<1>3. \A u \in Threads : /\ Giver(u)' <=> Giver(u)
                         /\ pc'[u] # pc[u] => u = t
                         /\ \A p \in {"push", "expire", "trim"} : pc'[u] = p <=> pc[u] = p
  BY <1>1, <1>2 DEF Giver
<1> QED BY <1>3 DEF Given, Giving

LEMMA AllocMissStep ==
  ASSUME ChunkInv, NEW t \in Threads, NEW n \in Sizes, AllocMiss(t, n)
  PROVE  ChunkInv'
<1> USE DEF ChunkInv
<1>1. /\ pc[t] = "idle" /\ pc' = [pc EXCEPT ![t] = "new"] /\ asked' = [asked EXCEPT ![t] = n]
      /\ UNCHANGED <<cache, keys, m_sizeFree, m_sizeTotal, lock, live, size, held, giving,
                     undefined>>
  BY DEF AllocMiss, Goto
<1>2. /\ Given' = Given /\ Giving' = Giving
      /\ \A u \in Threads : /\ Giver(u)' <=> Giver(u)
                            /\ \A p \in {"push", "expire", "trim"} : pc'[u] = p <=> pc[u] = p
  <2>1. /\ pc[t] \in {"idle", "new"} /\ UNCHANGED giving
        /\ pc' \in {[pc EXCEPT ![t] = "idle"], [pc EXCEPT ![t] = "new"]}
    BY <1>1
  <2> QED BY <2>1, Elsewhere
<1>20. Cached' = Cached
  BY <1>1 DEF Cached, BlocksOf
<1>3. Typed'
  BY <1>1 DEF Typed
<1>4. Locked'
  BY <1>1, <1>2 DEF Locked
<1>5. Deques'
  BY <1>1, <1>2, <1>20 DEF Deques
<1>6. Givers'
  BY <1>1, <1>2, <1>20 DEF Givers
<1>7. Counted'
  BY <1>1, <1>2, <1>20, CountedSums
<1> QED BY <1>3, <1>4, <1>5, <1>6, <1>7

LEMMA NewStep ==
  ASSUME ChunkInv, NEW t \in Threads, New(t)
  PROVE  ChunkInv'
<1> USE DEF ChunkInv
<1>1. PICK b \in Blocks \ live :
        /\ live' = live \cup {b} /\ held' = held \cup {b} /\ size' = [size EXCEPT ![b] = asked[t]]
  BY DEF New
<1>2. /\ pc[t] = "new" /\ pc' = [pc EXCEPT ![t] = "idle"] /\ asked' = [asked EXCEPT ![t] = 0]
      /\ m_sizeTotal' = m_sizeTotal + asked[t]
      /\ UNCHANGED <<cache, keys, m_sizeFree, lock, giving, undefined>>
  BY DEF New, Goto
<1>3. /\ Given' = Given /\ Giving' = Giving
      /\ \A u \in Threads : /\ Giver(u)' <=> Giver(u)
                            /\ \A p \in {"push", "expire", "trim"} : pc'[u] = p <=> pc[u] = p
  <2>1. /\ pc[t] \in {"idle", "new"} /\ UNCHANGED giving
        /\ pc' \in {[pc EXCEPT ![t] = "idle"], [pc EXCEPT ![t] = "new"]}
    BY <1>2
  <2> QED BY <2>1, Elsewhere
<1>30. Cached' = Cached
  BY <1>2 DEF Cached, BlocksOf
<1>4. asked[t] \in Sizes
  BY <1>2 DEF Typed
<1>5. \A c \in live : size'[c] = size[c] /\ c # b
  BY <1>1 DEF Typed
<1>6. Typed'
  BY <1>1, <1>2, <1>4 DEF Typed
<1>7. Locked'
  BY <1>2, <1>3 DEF Locked
<1>8. Deques'
  BY <1>1, <1>2, <1>3, <1>30, <1>5 DEF Deques
<1>9. Givers'
  <2>1. \A u \in Threads : Giver(u) => giving[u] \in live \ held
                           /\ size'[giving[u]] = size[giving[u]]
    BY <1>5 DEF Givers
  <2> QED BY <1>1, <1>2, <1>3, <1>30, <1>5, <2>1 DEF Givers, Giver
<1>10. Counted'
  <2>1. IsFiniteSet(Blocks) /\ size \in [Blocks -> Nat] /\ size' \in [Blocks -> Nat]
    BY <1>6, Summing DEF Typed
  <2>2. /\ Cached \cup Given \in SUBSET Blocks /\ Giving \in SUBSET Blocks /\ live \in SUBSET Blocks
        /\ \A c \in Cached \cup Given : c \in live
        /\ \A c \in Giving : c \in live
    BY BlockSets DEF Typed
  <2>3. /\ Sum(size, Cached \cup Given) = Sum(size', Cached \cup Given)
        /\ Sum(size, Giving) = Sum(size', Giving)
        /\ Sum(size, live) = Sum(size', live)
    BY <1>5, <2>1, <2>2, SumSame
  <2>4. Sum(size', live \cup {b}) = Sum(size', live) + size'[b]
    <3>1. \A S \in SUBSET Blocks : \A c \in Blocks \ S : Sum(size', S \cup {c})
              = Sum(size', S) + size'[c]
      BY <2>1, SumOf
    <3> QED BY <1>1, <2>2, <3>1
  <2>5. size'[b] = asked[t]
    BY <1>1 DEF Typed
  <2> QED BY <1>1, <1>2, <1>3, <1>30, <2>3, <2>4, <2>5, CountedSums
<1> QED BY <1>6, <1>7, <1>8, <1>9, <1>10

LEMMA AllocHitStep ==
  ASSUME ChunkInv, NEW t \in Threads, NEW n \in Sizes, AllocHit(t, n)
  PROVE  ChunkInv'
<1> USE DEF ChunkInv
<1> DEFINE q == cache[n]
           b == q[Len(q)]
           front == SubSeq(q, 1, Len(q) - 1)
<1>1. /\ lock = NoThread /\ n \in keys /\ q # <<>> /\ q \in Seq(Blocks) /\ Distinct(q)
      /\ held' = held \cup {b} /\ cache' = [cache EXCEPT ![n] = front]
      /\ m_sizeFree' = m_sizeFree - n
      /\ UNCHANGED <<keys, m_sizeTotal, lock, live, size, pc, giving, asked, undefined>>
  BY DEF AllocHit, HandOut, Typed, Deques, threadVars
<1>2. /\ front \in Seq(Blocks) /\ Distinct(front) /\ b \in BlocksOf(q)
      /\ BlocksOf(front) = BlocksOf(q) \ {b}
  BY <1>1, DequeFront
<1>3. b \in Cached /\ size[b] = n /\ b \in live \ held
  BY <1>2, CachedBySize
<1>4. /\ cache' \in [Sizes -> Seq(Blocks)]
      /\ \A m \in Sizes : cache'[m] = IF m = n THEN front ELSE cache[m]
  BY <1>1, <1>2 DEF Typed
<1> HIDE DEF q, front, b
<1>5. \A m \in Sizes : BlocksOf(cache'[m]) = BlocksOf(cache[m]) \ {b}
  BY <1>2, <1>3, <1>4, CachedBySize DEF q
<1>6. Cached' = Cached \ {b}
  BY <1>5, CacheShrinks
<1>7. Given' = Given /\ Giving' = Giving /\ \A u \in Threads : Giver(u)' <=> Giver(u)
  BY <1>1 DEF Given, Giving, Giver
<1>8. Typed' /\ Locked'
  BY <1>1, <1>3, <1>4 DEF Typed, Locked
<1>9. Deques'
  <2>1. ASSUME NEW m \in Sizes
        PROVE  /\ Distinct(cache'[m])
               /\ \A c \in BlocksOf(cache'[m]) : c \in live' \ held' /\ size'[c] = m
               /\ cache'[m] # <<>> => m \in keys'
    BY <1>1, <1>2, <1>4, <1>5 DEF Deques
  <2>2. live' \subseteq held' \cup Given' \cup Cached'
    BY <1>1, <1>6, <1>7 DEF Deques
  <2> QED BY <2>1, <2>2 DEF Deques
<1>10. Givers'
  <2>1. \A u \in Threads : pc[u] \notin {"expire", "trim"}
    BY <1>1, Summing DEF Locked
  <2>2. \A u \in Threads : Giver(u) => giving[u] # b
    <3>1. \A u \in Threads : Giver(u) => pc[u] = "push"
      BY <2>1 DEF Giver
    <3> QED BY <1>3, <3>1 DEF Givers
  <2> QED BY <1>1, <1>6, <1>7, <2>1, <2>2 DEF Givers
<1>11. Counted'
  <2>1. Sum(size, {b}) = n /\ n \in Nat
    BY <1>3, SumOne, Summing DEF Typed
  <2>2. m_sizeFree' = Sum(size', Cached' \cup Given')
    BY <1>1, <1>3, <1>6, <1>7, <2>1, CountedLess
  <2>3. m_sizeFree' <= m_sizeFree /\ m_sizeFree \in Nat
    BY <1>1, <2>1, CountedTypes
  <2>4. Sum(size, Giving) \in Nat /\ m_usMaxFreeCacheSize \in Nat
    BY SumTypes, BlockSets, Summing DEF Typed
  <2> QED BY <1>1, <1>7, <2>1, <2>2, <2>3, <2>4, CountedSums
<1> QED BY <1>8, <1>9, <1>10, <1>11
LEMMA AllocUndefinedStep ==
  ASSUME ChunkInv, NEW t \in Threads, NEW n \in Sizes, AllocUndefined(t, n)
  PROVE  ChunkInv'
<1> USE DEF ChunkInv
<1>1. /\ UNCHANGED <<cache, keys, m_sizeFree, m_sizeTotal, lock, live, size, held, pc,
                     giving, asked>>
      /\ undefined' = TRUE
  BY DEF AllocUndefined, threadVars
<1>2. /\ Given' = Given /\ Giving' = Giving /\ Cached' = Cached
      /\ \A u \in Threads : Giver(u)' <=> Giver(u)
  BY <1>1 DEF Given, Giving, Giver, Cached, BlocksOf
<1>3. Typed' /\ Locked'
  BY <1>1 DEF Typed, Locked
<1>4. Deques'
  BY <1>1, <1>2 DEF Deques
<1>5. Givers'
  BY <1>1, <1>2 DEF Givers
<1>6. Counted'
  BY <1>1, <1>2, CountedSums
<1> QED BY <1>3, <1>4, <1>5, <1>6

LEMMA GiveStep ==
  ASSUME ChunkInv, NEW t \in Threads, NEW b \in Blocks, Give(t, b)
  PROVE  ChunkInv'
<1> USE DEF ChunkInv
<1>1. /\ pc[t] = "idle" /\ pc' = [pc EXCEPT ![t] = "push"]
      /\ b \in held /\ held' = held \ {b} /\ giving' = [giving EXCEPT ![t] = b]
      /\ m_sizeFree' = m_sizeFree + size[b]
      /\ UNCHANGED <<cache, keys, m_sizeTotal, lock, live, size, asked, undefined>>
  BY DEF Give, Goto
<1>2. /\ \A u \in Threads : pc'[u] = (IF u = t THEN "push" ELSE pc[u])
                            /\ giving'[u] = (IF u = t THEN b ELSE giving[u])
      /\ \A u \in Threads : Giver(u)' <=> Giver(u) \/ u = t
      /\ ~Giver(t)
  BY <1>1 DEF Typed, Giver
<1>3. Cached' = Cached
  BY <1>1 DEF Cached, BlocksOf
<1>4. /\ \A c : c \in Given' <=> c \in Given \cup {b}
      /\ \A c : c \in Giving' <=> c \in Giving \cup {b}
  BY <1>1, <1>2, GivenAre
<1>5. Given' = Given \cup {b} /\ Giving' = Giving \cup {b}
  BY <1>4
<1>6. b \in live /\ b \notin Cached /\ b \notin Giving /\ b \notin Given
  BY <1>1, BlockSets, CachedBySize DEF Typed
<1>7. Typed'
  BY <1>1 DEF Typed
<1>8. Locked'
  BY <1>1, <1>2 DEF Locked
<1>9. Deques'
  BY <1>1, <1>3, <1>5 DEF Deques
<1>10. Givers'
  <2>1. \A u \in Threads : Giver(u) => giving[u] # b
    BY <1>6, GivenAre
  <2>2. \A u \in Threads : Giver(u)' => giving'[u] \in live' \ held'
    BY <1>1, <1>2, <1>6, <2>1 DEF Givers
  <2>3. \A u, v \in Threads : Giver(u)' /\ Giver(v)' /\ giving'[u] = giving'[v] => u = v
    BY <1>2, <2>1 DEF Givers
  <2>4. \A u \in Threads : pc'[u] = "push" => giving'[u] \notin Cached'
    BY <1>2, <1>3, <1>6 DEF Givers
  <2> QED BY <1>1, <1>2, <2>2, <2>3, <2>4 DEF Givers
<1>11. Counted'
  <2>1. /\ Cached \cup Given \in SUBSET Blocks /\ Giving \in SUBSET Blocks
        /\ b \in Blocks \ (Cached \cup Given) /\ b \in Blocks \ Giving
    BY <1>6, BlockSets DEF Typed
  <2>2. \A S \in SUBSET Blocks : /\ Sum(size, S) \in Nat
          /\ \A c \in Blocks \ S : Sum(size, S \cup {c}) = Sum(size, S) + size[c]
    BY Summing, SumOf
  <2>3. /\ Sum(size, (Cached \cup Given) \cup {b}) = Sum(size, Cached \cup Given) + size[b]
        /\ Sum(size, Giving \cup {b}) = Sum(size, Giving) + size[b]
        /\ Sum(size, Cached \cup Given) \in Nat /\ Sum(size, Giving) \in Nat
    BY <2>1, <2>2
  <2>4. size[b] \in Nat /\ m_usMaxFreeCacheSize \in Nat
    BY Summing
  <2>5. Cached' \cup Given' = (Cached \cup Given) \cup {b}
    BY <1>3, <1>5
  <2>6. m_sizeFree = Sum(size, Cached \cup Given) /\ m_sizeTotal = Sum(size, live)
        /\ m_sizeFree <= m_usMaxFreeCacheSize + Sum(size, Giving)
    BY CountedSums
  <2>7. /\ m_sizeFree' = Sum(size, (Cached \cup Given) \cup {b})
        /\ m_sizeFree' <= m_usMaxFreeCacheSize + Sum(size, Giving \cup {b})
    BY <1>1, <2>3, <2>4, <2>6
  <2>8. size' = size /\ live' = live /\ m_sizeTotal' = m_sizeTotal
    BY <1>1
  <2> QED BY <1>5, <2>5, <2>6, <2>7, <2>8, CountedSums
<1> QED BY <1>7, <1>8, <1>9, <1>10, <1>11

LEMMA PushStep ==
  ASSUME ChunkInv, NEW t \in Threads, Push(t)
  PROVE  ChunkInv'
<1> USE DEF ChunkInv
<1> DEFINE b == giving[t]
           n == size[b]
           q == cache[n]
           more == Append(q, b)
           over == m_sizeFree > m_usMaxFreeCacheSize
<1>1. /\ pc[t] = "push" /\ pc' = [pc EXCEPT ![t] = IF over THEN "expire" ELSE "idle"]
      /\ lock = NoThread /\ lock' = (IF over THEN t ELSE NoThread)
      /\ cache' = [cache EXCEPT ![n] = more] /\ keys' = keys \cup {n}
      /\ giving' = (IF over THEN giving ELSE [giving EXCEPT ![t] = NoBlock])
      /\ UNCHANGED <<m_sizeFree, m_sizeTotal, live, size, held, asked, undefined>>
  BY DEF Push, Goto
<1>2. /\ Giver(t) /\ b \in live \ held /\ b \notin Cached /\ b \in Blocks /\ n \in Sizes
      /\ q \in Seq(Blocks) /\ Distinct(q)
  BY <1>1 DEF Giver, Givers, Typed, Deques
<1>3. b \notin BlocksOf(q)
  BY <1>2, CachedBySize
<1>4. /\ more \in Seq(Blocks) /\ Distinct(more) /\ BlocksOf(more) = BlocksOf(q) \cup {b}
      /\ more # <<>> /\ more[Len(more)] = b
  BY <1>2, <1>3, DequePush
<1> HIDE DEF more
<1>5. /\ cache' \in [Sizes -> Seq(Blocks)]
      /\ \A m \in Sizes : cache'[m] = IF m = n THEN more ELSE cache[m]
  BY <1>1, <1>2, <1>4 DEF Typed
<1> HIDE DEF b, n, q, over
<1>6. \A m \in Sizes : BlocksOf(cache'[m]) = IF m = n THEN BlocksOf(cache[m]) \cup {b}
                                             ELSE BlocksOf(cache[m])
  BY <1>4, <1>5 DEF q
<1>7. Cached' = Cached \cup {b}
  BY <1>2, <1>6, CachedAre
<1>8. \A u \in Threads : pc[u] \notin {"expire", "trim"}
  BY <1>1, Summing DEF Locked
<1>9. \A u \in Threads : /\ u # t => pc'[u] = pc[u] /\ giving'[u] = giving[u]
                         /\ u = t => pc'[u] = IF over THEN "expire" ELSE "idle"
  BY <1>1 DEF Typed
<1>10. \A u \in Threads : /\ Giver(u) <=> pc[u] = "push"
                          /\ Giver(u)' <=> Giver(u) /\ (u # t \/ over)
                          /\ pc'[u] = "push" <=> pc[u] = "push" /\ u # t
                          /\ Giver(u)' => giving'[u] = giving[u]
                          /\ pc'[u] = "expire" <=> u = t /\ over
                          /\ pc'[u] # "trim"
  BY <1>1, <1>8, <1>9 DEF Giver
<1>11. \A u \in Threads : Giver(u) /\ giving[u] = b => u = t
  BY <1>2 DEF Givers, b
<1>12. Given' = Given \ {b}
  <2>1. \A c : c \in Given' <=> c \in Given \ {b}
    BY <1>10, <1>11, GivenAre DEF b
  <2> QED BY <2>1
<1>13. b \in Given
  BY <1>1, GivenAre DEF b
<1>14. Giving' = IF over THEN Giving ELSE Giving \ {b}
  <2>1. CASE over
    <3>1. \A c : c \in Giving' <=> c \in Giving
      BY <1>10, <2>1, GivenAre
    <3> QED BY <2>1, <3>1
  <2>2. CASE ~over
    <3>1. \A c : c \in Giving' <=> c \in Giving \ {b}
      BY <1>10, <1>11, <2>2, GivenAre DEF b
    <3> QED BY <2>2, <3>1
  <2> QED BY <2>1, <2>2
<1>15. Typed'
  <2>1. pc' \in [Threads -> {"idle", "new", "push", "expire", "trim"}]
        /\ giving' \in [Threads -> Blocks \cup {NoBlock}]
    BY <1>1 DEF Typed
  <2> QED BY <1>1, <1>2, <1>5, <1>10, <2>1, <1>9 DEF Typed
<1>16. Locked'
  <2>1. \A u \in Threads : pc'[u] \in {"expire", "trim"} <=> u = t /\ over
    BY <1>10
  <2> QED BY <1>1, <2>1, Summing DEF Locked
<1>17. Deques'
  <2>1. ASSUME NEW m \in Sizes
        PROVE  /\ Distinct(cache'[m])
               /\ \A c \in BlocksOf(cache'[m]) : c \in live' \ held' /\ size'[c] = m
               /\ cache'[m] # <<>> => m \in keys'
    <3>1. Distinct(cache'[m])
      BY <1>4, <1>5 DEF Deques
    <3>2. \A c \in BlocksOf(cache'[m]) : c \in BlocksOf(cache[m]) \/ (c = b /\ m = n)
      BY <1>6
    <3>3. \A c \in BlocksOf(cache'[m]) : c \in live' \ held' /\ size'[c] = m
      BY <1>1, <1>2, <3>2 DEF Deques, n
    <3>4. cache'[m] # <<>> => m \in keys'
      BY <1>1, <1>5 DEF Deques
    <3> QED BY <3>1, <3>3, <3>4
  <2>2. live' \subseteq held' \cup Given' \cup Cached'
    BY <1>1, <1>7, <1>12 DEF Deques
  <2> QED BY <2>1, <2>2 DEF Deques
<1>18. Givers'
  <2>1. \A u \in Threads : Giver(u)' => giving'[u] \in live' \ held'
    BY <1>1, <1>10 DEF Givers
  <2>2. \A u, v \in Threads : Giver(u)' /\ Giver(v)' /\ giving'[u] = giving'[v] => u = v
    BY <1>10 DEF Givers
  <2>3. \A u \in Threads : pc'[u] = "push" => giving'[u] \notin Cached'
    BY <1>7, <1>10, <1>11 DEF Givers
  <2>4. ASSUME NEW u \in Threads, pc'[u] = "expire"
        PROVE  LET r == cache'[size'[giving'[u]]] IN r # <<>> /\ r[Len(r)] = giving'[u]
    <3>1. u = t /\ over
      BY <1>10, <2>4
    <3>2. giving'[u] = b /\ size'[giving'[u]] = n
      BY <1>1, <3>1 DEF b, n
    <3>3. cache'[n] = more
      BY <1>2, <1>5
    <3> QED BY <1>4, <3>2, <3>3
  <2> QED BY <1>10, <2>1, <2>2, <2>3, <2>4 DEF Givers
<1>19. Counted'
  <2>1. Cached' \cup Given' = Cached \cup Given
    BY <1>7, <1>12, <1>13
  <2>2. Sum(size, Cached \cup Given) \in Nat /\ Sum(size, Giving \ {b}) \in Nat
        /\ m_usMaxFreeCacheSize \in Nat
    <3>1. Cached \cup Given \in SUBSET Blocks /\ Giving \ {b} \in SUBSET Blocks
      BY BlockSets DEF Typed
    <3> QED BY <3>1, SumTypes, Summing
  <2>3. m_sizeFree <= m_usMaxFreeCacheSize + Sum(size, Giving')
    <3>1. CASE over
      BY <1>14, <3>1, CountedSums
    <3>2. CASE ~over
      <4>1. m_sizeFree <= m_usMaxFreeCacheSize /\ m_sizeFree \in Nat
        BY <2>2, <3>2, CountedTypes DEF over
      <4> QED BY <1>14, <2>2, <3>2, <4>1
    <3> QED BY <3>1, <3>2
  <2> QED BY <1>1, <2>1, <2>3, CountedSums
<1> QED BY <1>15, <1>16, <1>17, <1>18, <1>19
\* What has expired is deleted, whichever part of each deque that is.
LEMMA DeleteExpiredLeaves ==
  ASSUME ChunkInv, NEW old \in Ages, DeleteExpired(old), UNCHANGED <<size, held>>, Given' = Given
  PROVE  /\ cache' \in [Sizes -> Seq(Blocks)] /\ keys' \subseteq Sizes /\ live' \subseteq live
         /\ held' \subseteq live' /\ Cached' \subseteq Cached
            /\ live \ live' \subseteq Cached \ Cached'
         /\ Deques' /\ \A m \in keys' : cache'[m] # <<>>
         /\ \A m \in Sizes : old[m] < Len(cache[m]) =>
              cache'[m] # <<>> /\ cache'[m][Len(cache'[m])] = cache[m][Len(cache[m])]
         /\ m_sizeFree' = Sum(size', Cached' \cup Given') /\ m_sizeTotal' = Sum(size', live')
         /\ m_sizeFree' <= m_sizeFree
<1> USE DEF ChunkInv
<1> DEFINE left == [m \in Sizes |-> SubSeq(cache[m], old[m] + 1, Len(cache[m]))]
           dead(m) == BlocksOf(SubSeq(cache[m], 1, old[m]))
           gone == UNION {dead(m) : m \in Sizes}
<1>1. /\ cache' = left /\ live' = live \ gone /\ m_sizeFree' = m_sizeFree - Sum(size, gone)
      /\ m_sizeTotal' = m_sizeTotal - Sum(size, gone)
      /\ keys' = {m \in keys : left[m] # <<>>}
  <2>1. DeleteExpired(old) <=>
          /\ Delete(gone, left, m_sizeTotal - SizeOf(gone))
          /\ keys' = {m \in keys : left[m] # <<>>}
    BY Zenon DEF DeleteExpired
  <2> HIDE DEF gone, left
  <2>2. SizeOf(gone) = Sum(size, gone)
    BY SizesAreSums
  <2> QED BY <2>1, <2>2 DEF Delete
<1>2. ASSUME NEW m \in Sizes
      PROVE  /\ left[m] \in Seq(Blocks) /\ Distinct(left[m])
             /\ BlocksOf(left[m]) = BlocksOf(cache[m]) \ dead(m)
             /\ dead(m) \subseteq BlocksOf(cache[m])
             /\ old[m] < Len(cache[m]) =>
                  left[m] # <<>> /\ left[m][Len(left[m])] = cache[m][Len(cache[m])]
  <2> DEFINE q == cache[m]
             k == old[m]
             n == Len(q)
  <2>1. q \in Seq(Blocks) /\ Distinct(q) /\ k \in 0..n /\ n \in Nat
    <3>1. q \in Seq(Blocks) /\ Distinct(q)
      BY DEF Typed, Deques
    <3>2. n \in Nat
      BY <3>1
    <3>3. \A c \in 0..Cardinality(Blocks) : c \in Int /\ 0 <= c
      OBVIOUS
    <3>4. k \in 0..Cardinality(Blocks) /\ k <= n
      BY DEF Ages
    <3> HIDE DEF k, n
    <3> QED BY <3>1, <3>2, <3>3, <3>4
  <2>2. left[m] = SubSeq(q, k + 1, n) /\ dead(m) = BlocksOf(SubSeq(q, 1, k))
    OBVIOUS
  <2> HIDE DEF left, dead, k, q
  <2>3. n = Len(q)
    OBVIOUS
  <2> HIDE DEF n
  <2>4. /\ SubSeq(q, k + 1, n) \in Seq(Blocks) /\ Distinct(SubSeq(q, k + 1, n))
        /\ BlocksOf(SubSeq(q, k + 1, n)) = BlocksOf(q) \ BlocksOf(SubSeq(q, 1, k))
        /\ BlocksOf(SubSeq(q, 1, k)) \subseteq BlocksOf(q)
        /\ k < n => /\ SubSeq(q, k + 1, n) # <<>>
                    /\ SubSeq(q, k + 1, n)[Len(SubSeq(q, k + 1, n))] = q[n]
    <3>1. Shortened(q, n, k, Blocks)
      BY <2>1, <2>3, DequeOld
    <3> QED BY <3>1 DEF Shortened
  <2> QED BY <2>2, <2>4 DEF q, k, n
<1>3. \A c : c \in gone <=> \E m \in Sizes : c \in dead(m)
  BY Zenon
<1>4. cache' \in [Sizes -> Seq(Blocks)]
  <2>1. \A m \in Sizes : left[m] \in Seq(Blocks)
    BY <1>2
  <2> QED BY <1>1, <2>1
<1> HIDE DEF left, dead, gone
<1>5. \A m \in Sizes : \A c \in dead(m) : c \in BlocksOf(cache[m]) /\ c \in Cached /\ size[c] = m
  BY <1>2, CachedBySize
<1>6. gone \subseteq Cached
  BY <1>3, <1>5
<1>7. \A m \in Sizes : BlocksOf(cache'[m]) = BlocksOf(cache[m]) \ gone
  <2> SUFFICES ASSUME NEW m \in Sizes PROVE BlocksOf(cache'[m]) = BlocksOf(cache[m]) \ gone
    OBVIOUS
  <2>1. \A c \in BlocksOf(cache[m]) : c \in gone <=> c \in dead(m)
    BY <1>3, <1>5, CachedBySize
  <2>2. BlocksOf(cache'[m]) = BlocksOf(cache[m]) \ dead(m)
    BY <1>1, <1>2
  <2> QED BY <2>1, <2>2
<1>8. Cached' = Cached \ gone
  BY <1>7, CacheShrinks
<1>9. \A c \in gone : c \in live /\ c \notin held /\ c \notin Given
  BY <1>6, BlockSets, CachedBySize
<1>10. held' \subseteq live'
  BY <1>1, <1>9 DEF Typed
<1>11. \A m \in Sizes : cache'[m] # <<>> => m \in keys'
  BY <1>1 DEF Deques, left
<1>12. Deques'
  <2>1. ASSUME NEW m \in Sizes
        PROVE  /\ Distinct(cache'[m])
               /\ \A c \in BlocksOf(cache'[m]) : c \in live' \ held' /\ size'[c] = m
               /\ cache'[m] # <<>> => m \in keys'
    <3>1. Distinct(cache'[m])
      BY <1>1, <1>2
    <3>2. \A c \in BlocksOf(cache'[m]) : c \in live' \ held' /\ size'[c] = m
      BY <1>1, <1>7 DEF Deques
    <3> QED BY <1>11, <3>1, <3>2
  <2>2. live' \subseteq held' \cup Given' \cup Cached'
    BY <1>1, <1>8 DEF Deques
  <2> QED BY <2>1, <2>2 DEF Deques
<1>13. keys' \subseteq Sizes /\ \A m \in keys' : cache'[m] # <<>>
  BY <1>1 DEF Typed
<1>14. \A m \in Sizes : old[m] < Len(cache[m]) =>
         cache'[m] # <<>> /\ cache'[m][Len(cache'[m])] = cache[m][Len(cache[m])]
  BY <1>1, <1>2
<1>15. m_sizeFree' = Sum(size', Cached' \cup Given') /\ m_sizeFree' <= m_sizeFree
  <2>1. /\ m_sizeFree' = Sum(size', Cached' \cup Given') /\ Sum(size, gone) \in Nat
        /\ Sum(size, gone) <= m_sizeFree
    BY <1>1, <1>6, <1>8, CountedLess
  <2>2. m_sizeFree \in Nat
    BY CountedTypes
  <2> QED BY <1>1, <2>1, <2>2
<1>16. m_sizeTotal' = Sum(size', live')
  <2>1. Sum(size, live \ gone) = Sum(size, live) - Sum(size, gone)
    BY <1>9, TotalLess
  <2> QED BY <1>1, <2>1, CountedSums
<1>17. live' \subseteq live /\ Cached' \subseteq Cached /\ live \ live' \subseteq Cached \ Cached'
  BY <1>1, <1>6, <1>8
<1> QED BY <1>4, <1>10, <1>12, <1>13, <1>14, <1>15, <1>16, <1>17

\* The limit is kept when only the cache shrinks.
LEMMA StillCounted ==
  ASSUME ChunkInv, m_sizeFree' = Sum(size', Cached' \cup Given'), m_sizeTotal' = Sum(size', live'),
         m_sizeFree' <= m_sizeFree, m_sizeFree' \in Nat, UNCHANGED size, Giving' = Giving
  PROVE  Counted'
<1> USE DEF ChunkInv
<1>1. Sum(size, Giving) \in Nat /\ m_usMaxFreeCacheSize \in Nat /\ m_sizeFree \in Nat
  BY SumTypes, BlockSets, Summing, CountedTypes DEF Typed
<1>2. m_sizeFree <= m_usMaxFreeCacheSize + Sum(size, Giving)
  BY CountedSums
<1>3. m_sizeFree' <= m_usMaxFreeCacheSize + Sum(size, Giving)
  BY <1>1, <1>2
<1>4. Sum(size', Giving') = Sum(size, Giving)
  OBVIOUS
<1> QED BY <1>3, <1>4, CountedSums

LEMMA ExpireStep ==
  ASSUME ChunkInv, NEW t \in Threads, Expire(t)
  PROVE  ChunkInv'
<1> USE DEF ChunkInv
<1> DEFINE b == giving[t]
           n == size[b]
<1>1. PICK old \in Ages : old[n] < Len(cache[n]) /\ DeleteExpired(old)
  BY Zenon DEF Expire
<1>2. /\ pc[t] = "expire" /\ pc' = [pc EXCEPT ![t] = "trim"]
      /\ UNCHANGED <<lock, size, held, giving, asked, undefined>>
  BY DEF Expire, Goto, threadVars
<1>3. lock = t /\ \A u \in Threads : u # t => pc[u] \notin {"expire", "trim"}
  BY <1>2 DEF Locked
<1>4. \A u \in Threads : pc'[u] = IF u = t THEN "trim" ELSE pc[u]
  BY <1>2 DEF Typed
<1>5. \A u \in Threads : /\ Giver(u)' <=> Giver(u)
                         /\ pc'[u] = "push" <=> pc[u] = "push"
                         /\ Giver(u) /\ u # t => pc[u] = "push"
                         /\ pc'[u] # "expire" /\ (pc'[u] = "trim" <=> u = t)
                         /\ pc'[u] \in {"expire", "trim"} <=> pc[u] \in {"expire", "trim"}
  BY <1>2, <1>3, <1>4 DEF Giver
<1>6. Given' = Given /\ Giving' = Giving
  BY <1>2, <1>5 DEF Given, Giving
<1>7. /\ cache' \in [Sizes -> Seq(Blocks)] /\ keys' \subseteq Sizes /\ live' \subseteq live
      /\ held' \subseteq live' /\ Cached' \subseteq Cached
         /\ live \ live' \subseteq Cached \ Cached'
      /\ Deques' /\ \A m \in keys' : cache'[m] # <<>>
      /\ \A m \in Sizes : old[m] < Len(cache[m]) =>
           cache'[m] # <<>> /\ cache'[m][Len(cache'[m])] = cache[m][Len(cache[m])]
      /\ m_sizeFree' = Sum(size', Cached' \cup Given') /\ m_sizeTotal' = Sum(size', live')
      /\ m_sizeFree' <= m_sizeFree
  BY <1>1, <1>2, <1>6, DeleteExpiredLeaves
<1>8. Typed'
  BY <1>2, <1>7 DEF Typed
<1>9. Locked'
  BY <1>2, <1>5 DEF Locked
<1>10. b \in live \ held /\ b \in Blocks /\ n \in Sizes
  BY <1>2 DEF Givers, Giver, Typed
<1>11. b \in BlocksOf(cache'[n])
  <2> DEFINE r == cache'[n]
  <2>1. r # <<>> /\ r[Len(r)] = b
    BY <1>1, <1>2, <1>7, <1>10 DEF Givers
  <2>2. r \in Seq(Blocks)
    BY <1>7, <1>10
  <2> HIDE DEF r, b
  <2>3. Len(r) \in Nat \ {0}
    BY <2>1, <2>2, EmptySeq
  <2>4. Len(r) \in 1..Len(r)
    BY <2>3
  <2>5. b \in BlocksOf(r)
    BY <2>1, <2>2, <2>4, BlocksAre
  <2> QED BY <2>5 DEF r
<1>12. b \in Cached'
  BY <1>10, <1>11, CachedAre
<1>13. Givers'
  <2>1. \A u \in Threads : Giver(u) => giving[u] \in live'
    BY <1>5, <1>7, <1>12 DEF Givers
  <2> QED BY <1>2, <1>5, <1>7, <1>11, <2>1 DEF Givers
<1>14. Counted'
  <2>1. m_sizeFree' \in Nat
    <3>1. Cached' \cup Given' \in SUBSET Blocks
      BY <1>6, <1>7, BlockSets DEF Typed
    <3> QED BY <1>2, <1>7, <3>1, SumTypes
  <2> QED BY <1>2, <1>6, <1>7, <2>1, StillCounted
<1> QED BY <1>7, <1>8, <1>9, <1>13, <1>14

LEMMA freeExpiredMemoryStep ==
  ASSUME ChunkInv, freeExpiredMemory
  PROVE  ChunkInv'
<1> USE DEF ChunkInv
<1>1. PICK old \in Ages : DeleteExpired(old)
  BY DEF freeExpiredMemory
<1>2. lock = NoThread /\ UNCHANGED <<lock, size, held, pc, giving, asked, undefined>>
  BY DEF freeExpiredMemory, threadVars
<1>3. \A u \in Threads : pc[u] \notin {"expire", "trim"}
  BY <1>2, Summing DEF Locked
<1>4. \A u \in Threads : (Giver(u)' <=> Giver(u)) /\ (Giver(u) => pc[u] = "push")
  BY <1>2, <1>3 DEF Giver
<1>5. Given' = Given /\ Giving' = Giving
  BY <1>2, <1>4 DEF Given, Giving
<1>6. /\ cache' \in [Sizes -> Seq(Blocks)] /\ keys' \subseteq Sizes /\ live' \subseteq live
      /\ held' \subseteq live' /\ Cached' \subseteq Cached
         /\ live \ live' \subseteq Cached \ Cached'
      /\ Deques'
      /\ m_sizeFree' = Sum(size', Cached' \cup Given') /\ m_sizeTotal' = Sum(size', live')
      /\ m_sizeFree' <= m_sizeFree
  BY <1>1, <1>2, <1>5, DeleteExpiredLeaves
<1>7. Typed'
  BY <1>2, <1>6 DEF Typed
<1>8. Locked'
  BY <1>2 DEF Locked
<1>9. Givers'
  <2>1. \A u \in Threads : Giver(u) => giving[u] \in live'
    BY <1>4, <1>6 DEF Givers
  <2> QED BY <1>2, <1>3, <1>4, <1>6, <2>1 DEF Givers
<1>10. Counted'
  <2>1. m_sizeFree' \in Nat
    <3>1. Cached' \cup Given' \in SUBSET Blocks
      BY <1>5, <1>6, BlockSets DEF Typed
    <3> QED BY <1>2, <1>6, <3>1, SumTypes
  <2> QED BY <1>2, <1>5, <1>6, <2>1, StillCounted
<1> QED BY <1>6, <1>7, <1>8, <1>9, <1>10
LEMMA LargestKeyIs ==
  ASSUME keys \subseteq Sizes, keys # {}
  PROVE  LargestKey \in keys /\ \A n \in keys : LargestKey >= n
<1> DEFINE Has(s) == s = {} \/ \E x \in s : \A y \in s : x >= y
           G == {s \in SUBSET Sizes : Has(s)}
<1>1. \A n \in Sizes : n \in Nat
  BY ChunkAssumption
<1>2. ASSUME NEW s \in G, NEW b \in Sizes \ s PROVE s \cup {b} \in G
  <2>1. CASE s = {}
    <3>1. s \cup {b} = {b} /\ \A y \in {b} : b >= y
      BY <1>1, <2>1
    <3> QED BY <3>1
  <2>2. CASE s # {}
    <3>1. PICK x \in s : \A y \in s : x >= y
      BY <2>2
    <3>2. s \in SUBSET Sizes /\ x \in Nat /\ b \in Nat /\ \A y \in s : y \in Nat
      BY <1>1, <3>1
    <3> DEFINE z == IF x >= b THEN x ELSE b
    <3>3. z \in s \cup {b} /\ \A y \in s \cup {b} : z >= y
      BY <3>1, <3>2
    <3> HIDE DEF z
    <3>4. Has(s \cup {b})
      BY <3>3
    <3> QED BY <3>2, <3>4
  <2> QED BY <2>1, <2>2
<1>3. G = SUBSET Sizes
  <2>1. {} \in G /\ G \in SUBSET SUBSET Sizes /\ IsFiniteSet(Sizes)
    BY ChunkAssumption
  <2> HIDE DEF G
  <2> QED BY <1>2, <2>1, AllSubsets
<1>4. Has(keys)
  BY <1>3
<1>5. \E x \in keys : \A y \in keys : x >= y
  BY <1>4
<1> QED BY <1>5 DEF LargestKey, Max

LEMMA TrimStep ==
  ASSUME ChunkInv, NEW t \in Threads, Trim(t)
  PROVE  ChunkInv'
<1> USE DEF ChunkInv
<1> DEFINE b == giving[t]
<1>1. /\ pc[t] = "trim" /\ pc' = [pc EXCEPT ![t] = "idle"] /\ lock' = NoThread
      /\ giving' = [giving EXCEPT ![t] = NoBlock]
      /\ UNCHANGED <<size, held, asked, undefined>>
  BY DEF Trim, Goto
<1>2. lock = t /\ \A u \in Threads : u # t => pc[u] \notin {"expire", "trim"}
  BY <1>1 DEF Locked
<1>3. \A u \in Threads : /\ pc'[u] = IF u = t THEN "idle" ELSE pc[u]
                         /\ u # t => giving'[u] = giving[u]
  BY <1>1 DEF Typed
<1>4. \A u \in Threads : /\ Giver(u)' <=> Giver(u) /\ u # t
                         /\ Giver(u)' => pc[u] = "push" /\ giving'[u] = giving[u]
                         /\ pc'[u] = "push" <=> pc[u] = "push"
                         /\ pc'[u] \notin {"expire", "trim"}
  BY <1>1, <1>2, <1>3 DEF Giver
<1>5. Giver(t) /\ b \in live \ held /\ b \in Blocks /\ size[b] \in Sizes
  BY <1>1 DEF Giver, Givers, Typed
<1>6. \A u \in Threads : Giver(u) /\ giving[u] = b => u = t
  BY <1>5 DEF Givers
<1>7. Giving' = Giving \ {b} /\ b \in Giving
  <2>1. \A c : c \in Giving' <=> c \in Giving \ {b}
    BY <1>4, <1>5, <1>6, GivenAre
  <2> QED BY <1>5, <2>1, GivenAre
<1>8. Given' = Given
  <2>1. \A u \in Threads : pc[u] = "push" => giving'[u] = giving[u]
    BY <1>1, <1>3
  <2>2. \A c : c \in Given' <=> c \in Given
    BY <1>4, <2>1, GivenAre
  <2> QED BY <2>2
<1>9. Locked'
  <2>1. \A u \in Threads : pc'[u] \notin {"expire", "trim"} /\ u # NoThread
    BY <1>4, Summing
  <2> QED BY <1>1, <2>1 DEF Locked
<1>10. pc' \in [Threads -> {"idle", "new", "push", "expire", "trim"}]
       /\ giving' \in [Threads -> Blocks \cup {NoBlock}]
       /\ \A u \in Threads : pc'[u] = "new" => pc[u] = "new"
  BY <1>1, <1>3 DEF Typed
<1>11. ASSUME live' \subseteq live, Cached' \subseteq Cached, live \ live' \subseteq Cached
       PROVE  Givers'
  <2>1. \A u \in Threads : Giver(u)' => giving'[u] \in live' \ held'
    BY <1>1, <1>4, <1>11 DEF Givers
  <2>2. \A u, v \in Threads : Giver(u)' /\ Giver(v)' /\ giving'[u] = giving'[v] => u = v
    BY <1>4 DEF Givers
  <2>3. \A u \in Threads : pc'[u] = "push" => giving'[u] \notin Cached'
    BY <1>1, <1>3, <1>4, <1>11 DEF Givers
  <2> QED BY <1>4, <2>1, <2>2, <2>3 DEF Givers
<1>12. /\ Sum(size, Giving \ {b}) = Sum(size, Giving) - size[b] /\ Sum(size, Giving \ {b}) \in Nat
       /\ Sum(size, Giving) \in Nat /\ size[b] \in Nat /\ m_usMaxFreeCacheSize \in Nat
       /\ m_sizeFree \in Nat
  <2>1. Giving \in SUBSET Blocks /\ {b} \in SUBSET Giving /\ Giving \ {b} \in SUBSET Blocks
    BY <1>7, BlockSets DEF Typed
  <2>2. Sum(size, Giving \ {b}) = Sum(size, Giving) - Sum(size, {b})
    BY <2>1, Summing, SumLess
  <2> QED BY <1>5, <2>1, <2>2, SumOne, SumTypes, Summing, CountedTypes
<1>13. CASE m_sizeFree > m_usMaxFreeCacheSize
  <2> DEFINE n == LargestKey
             q == cache[n]
             h == Head(q)
             rest == Tail(q)
  <2>1. keys # {} /\ size[b] \in keys
    <3>1. b \in BlocksOf(cache[size[b]])
      BY <1>1 DEF Givers
    <3>2. cache[size[b]] # <<>>
      BY <1>5, <3>1, BlocksAre DEF Typed
    <3> QED BY <1>5, <3>2 DEF Deques
  <2>2. n \in keys /\ n >= size[b] /\ n \in Sizes
    BY <2>1, LargestKeyIs DEF Typed
  <2>3. q # <<>> /\ q \in Seq(Blocks) /\ Distinct(q)
    BY <1>1, <2>2 DEF Givers, Typed, Deques
  <2>4. /\ rest \in Seq(Blocks) /\ Distinct(rest) /\ h \in BlocksOf(q)
        /\ BlocksOf(rest) = BlocksOf(q) \ {h}
    BY <2>3, DequeTail
  <2>5. h \in Cached /\ size[h] = n /\ h \in live \ held /\ h \in Blocks
    BY <2>2, <2>4, CachedBySize DEF Typed
  <2>6. Sum(size, {h}) = n /\ n \in Nat
    BY <2>5, SumOne
  <2>7. /\ cache' = [cache EXCEPT ![n] = rest] /\ live' = live \ {h}
        /\ m_sizeFree' = m_sizeFree - Sum(size, {h}) /\ m_sizeTotal' = m_sizeTotal - n
        /\ keys' = IF rest = <<>> THEN keys \ {n} ELSE keys
    <3>1. TrimOf(n, m_sizeTotal - n)
      BY <1>13 DEF Trim
    <3>2. SizeOf({h}) = Sum(size, {h})
      BY SizesAreSums
    <3>3. [cache EXCEPT ![n] = rest][n] = rest
      BY <2>2 DEF Typed
    <3> QED BY <3>1, <3>2, <3>3 DEF TrimOf, Delete
  <2> HIDE DEF n, h, rest, q, b
  <2>8. /\ cache' \in [Sizes -> Seq(Blocks)]
        /\ \A m \in Sizes : cache'[m] = IF m = n THEN rest ELSE cache[m]
    BY <2>2, <2>4, <2>7 DEF Typed
  <2>9. \A m \in Sizes : BlocksOf(cache'[m]) = BlocksOf(cache[m]) \ {h}
    BY <2>4, <2>5, <2>8, CachedBySize DEF q
  <2>10. Cached' = Cached \ {h}
    BY <2>9, CacheShrinks
  <2>11. Typed'
    <3>1. live' \subseteq live /\ held' \subseteq live' /\ keys' \subseteq Sizes
      BY <1>1, <2>5, <2>7 DEF Typed
    <3> QED BY <1>1, <1>10, <2>8, <3>1 DEF Typed
  <2>12. Deques'
    <3>1. ASSUME NEW m \in Sizes
          PROVE  /\ Distinct(cache'[m])
                 /\ \A c \in BlocksOf(cache'[m]) : c \in live' \ held' /\ size'[c] = m
                 /\ cache'[m] # <<>> => m \in keys'
      <4>1. Distinct(cache'[m])
        BY <2>4, <2>8 DEF Deques
      <4>2. \A c \in BlocksOf(cache'[m]) : c \in live' \ held' /\ size'[c] = m
        BY <1>1, <2>7, <2>9 DEF Deques
      <4>3. cache'[m] # <<>> => m \in keys'
        BY <2>2, <2>7, <2>8 DEF Deques
      <4> QED BY <4>1, <4>2, <4>3
    <3>2. live' \subseteq held' \cup Given' \cup Cached'
      BY <1>1, <1>8, <2>7, <2>10 DEF Deques
    <3> QED BY <3>1, <3>2 DEF Deques
  <2>13. Givers'
    BY <1>11, <2>5, <2>7, <2>10
  <2>14. Counted'
    <3>1. m_sizeFree' = Sum(size', Cached' \cup Given')
      BY <1>1, <1>8, <2>5, <2>7, <2>10, CountedLess
    <3>2. m_sizeTotal' = Sum(size', live')
      <4>1. Sum(size, live \ {h}) = Sum(size, live) - n
        BY <2>5, <2>6, TotalLess
      <4>2. m_sizeTotal = Sum(size, live)
        BY CountedSums
      <4> QED BY <1>1, <2>7, <4>1, <4>2
    <3>3. m_sizeFree' <= m_usMaxFreeCacheSize + Sum(size, Giving \ {b})
      <4>1. m_sizeFree <= m_usMaxFreeCacheSize + Sum(size, Giving)
        BY CountedSums
      <4>2. m_sizeFree' = m_sizeFree - n
        BY <2>6, <2>7
      <4> QED BY <1>12, <2>2, <2>6, <4>1, <4>2 DEF b
    <3>4. Sum(size', Giving') = Sum(size, Giving \ {b})
      BY <1>1, <1>7 DEF b
    <3> QED BY <3>1, <3>2, <3>3, <3>4, CountedSums
  <2> QED BY <1>9, <2>11, <2>12, <2>13, <2>14
<1>14. CASE ~(m_sizeFree > m_usMaxFreeCacheSize)
  <2>1. UNCHANGED <<cache, keys, live, m_sizeFree, m_sizeTotal>>
    BY <1>14 DEF Trim
  <2>2. Cached' = Cached
    BY <2>1 DEF Cached, BlocksOf
  <2>3. Typed'
    BY <1>1, <1>10, <2>1 DEF Typed
  <2>4. Deques'
    BY <1>1, <1>8, <2>1, <2>2 DEF Deques
  <2>5. Givers'
    BY <1>11, <2>1, <2>2
  <2>6. Counted'
    <3>1. m_sizeFree = Sum(size, Cached \cup Given) /\ m_sizeTotal = Sum(size, live)
      BY CountedSums
    <3>2. m_sizeFree <= m_usMaxFreeCacheSize + Sum(size, Giving \ {b})
      BY <1>12, <1>14
    <3>3. Sum(size', Giving') = Sum(size, Giving \ {b})
      BY <1>1, <1>7
    <3>4. Sum(size', Cached' \cup Given') = Sum(size, Cached \cup Given)
          /\ Sum(size', live') = Sum(size, live)
      BY <1>1, <1>8, <2>1, <2>2
    <3> QED BY <2>1, <3>1, <3>2, <3>3, <3>4, CountedSums
  <2> QED BY <1>9, <2>3, <2>4, <2>5, <2>6
<1> QED BY <1>13, <1>14

LEMMA ChunkStep == ChunkInv /\ [Next]_vars => ChunkInv'
<1> SUFFICES ASSUME ChunkInv, [Next]_vars PROVE ChunkInv'
  OBVIOUS
<1>1. ASSUME NEW t \in Threads, NEW n \in Sizes, AllocMiss(t, n) PROVE ChunkInv'
  BY <1>1, AllocMissStep
<1>2. ASSUME NEW t \in Threads, NEW n \in Sizes, AllocHit(t, n) PROVE ChunkInv'
  BY <1>2, AllocHitStep
<1>3. ASSUME NEW t \in Threads, NEW n \in Sizes, AllocUndefined(t, n) PROVE ChunkInv'
  BY <1>3, AllocUndefinedStep
<1>4. ASSUME NEW t \in Threads, NEW b \in Blocks, Give(t, b) PROVE ChunkInv'
  BY <1>4, GiveStep
<1>5. ASSUME NEW t \in Threads, New(t) PROVE ChunkInv'
  BY <1>5, NewStep
<1>6. ASSUME NEW t \in Threads, Push(t) PROVE ChunkInv'
  BY <1>6, PushStep
<1>7. ASSUME NEW t \in Threads, Expire(t) PROVE ChunkInv'
  BY <1>7, ExpireStep
<1>8. ASSUME NEW t \in Threads, Trim(t) PROVE ChunkInv'
  BY <1>8, TrimStep
<1>9. ASSUME freeExpiredMemory PROVE ChunkInv'
  BY <1>9, freeExpiredMemoryStep
<1>10. CASE UNCHANGED vars
  <2>1. UNCHANGED <<cache, keys, m_sizeFree, m_sizeTotal, lock, live, size, held, pc,
                    asked, giving, undefined>>
    BY <1>10 DEF vars
  <2>2. /\ Given' = Given /\ Giving' = Giving /\ Cached' = Cached
        /\ \A u \in Threads : Giver(u)' <=> Giver(u)
    BY <2>1 DEF Given, Giving, Giver, Cached, BlocksOf
  <2>3. Typed' /\ Locked'
    BY <2>1 DEF ChunkInv, Typed, Locked
  <2>4. Deques'
    BY <2>1, <2>2 DEF ChunkInv, Deques
  <2>5. Givers'
    BY <2>1, <2>2 DEF ChunkInv, Givers
  <2>6. Counted'
    BY <2>1, <2>2, CountedSums DEF ChunkInv
  <2> QED BY <2>3, <2>4, <2>5, <2>6 DEF ChunkInv
<1> QED BY <1>1, <1>2, <1>3, <1>4, <1>5, <1>6, <1>7, <1>8, <1>9, <1>10 DEF Next

LEMMA ChunkInvCorrect == Spec => []ChunkInv
BY ChunkInit, ChunkStep, PTL DEF Spec

-----------------------------------------------------------------------------
(* The theorems. *)

\* A block is with one user, with one thread that gives it back, or once in the
\* deque of its size: alloMemory never lends memory that somebody has, and nothing
\* is deleted that is not in the cache, however many threads allocate, give back
\* and let the timer run.
THEOREM BlockInOnePlaceCorrect == Spec => []BlockInOnePlace
<1>1. ChunkInv => BlockInOnePlace
  <2> SUFFICES ASSUME ChunkInv PROVE BlockInOnePlace
    OBVIOUS
  <2> USE DEF ChunkInv
  <2>1. ASSUME NEW n \in Sizes, NEW i \in DOMAIN cache[n]
        PROVE  /\ cache[n][i] \in live \ (held \cup Given) /\ size[cache[n][i]] = n
               /\ \A j \in DOMAIN cache[n] : cache[n][j] = cache[n][i] => j = i
    <3>1. cache[n][i] \in BlocksOf(cache[n])
      BY DEF BlocksOf
    <3>2. cache[n][i] \in Cached
      BY <3>1, CachedAre
    <3>3. cache[n][i] \notin Given
      BY <3>2, BlockSets
    <3>4. cache[n][i] \in live \ held /\ size[cache[n][i]] = n
      BY <3>1 DEF Deques
    <3>5. \A j \in DOMAIN cache[n] : cache[n][j] = cache[n][i] => j = i
      BY DEF Deques, Distinct
    <3> QED BY <3>3, <3>4, <3>5
  <2>2. Given \subseteq live \ held
    BY BlockSets
  <2>3. live \subseteq held \cup Given \cup Cached
    BY DEF Deques
  <2> QED BY <2>1, <2>2, <2>3 DEF BlockInOnePlace
<1> QED BY <1>1, ChunkInvCorrect, PTL

\* m_sizeFree, which deallocate raises before it takes the mutex, and m_sizeTotal,
\* which alloMemory raises without it, are the sums of the sizes they stand for
\* between any two steps, and neither is ever taken below zero.
THEOREM CountersExactCorrect == Spec => []CountersExact
<1>1. ChunkInv => CountersExact
  <2> SUFFICES ASSUME ChunkInv PROVE CountersExact
    OBVIOUS
  <2> USE DEF ChunkInv
  <2>1. TypeOK
    BY CountedTypes DEF TypeOK, Typed, Locked
  <2>2. m_sizeFree = SizeOf(Cached \cup Given) /\ m_sizeTotal = SizeOf(live)
    BY DEF Counted
  <2> QED BY <2>1, <2>2 DEF CountersExact
<1> QED BY <1>1, ChunkInvCorrect, PTL

\* When no thread is inside deallocate the cache is within m_usMaxFreeCacheSize:
\* each call frees one unexpired block at most, of the largest size there is, and
\* that is no less than it brought.
THEOREM CacheBoundedCorrect == Spec => []CacheBounded
<1>1. ChunkInv => CacheBounded
  <2> SUFFICES ASSUME ChunkInv, \A t \in Threads : pc[t] \in {"idle", "new"}
               PROVE  m_sizeFree <= m_usMaxFreeCacheSize
    BY DEF CacheBounded
  <2> USE DEF ChunkInv
  <2>1. \A t \in Threads : ~Giver(t)
    BY DEF Giver
  <2>2. Giving = {}
    BY <2>1, GivenAre
  <2>3. Sum(size, {}) = 0 /\ m_usMaxFreeCacheSize \in Nat /\ m_sizeFree \in Nat
    BY Summing, SumOf, CountedTypes
  <2> QED BY <2>2, <2>3, CountedSums
<1> QED BY <1>1, ChunkInvCorrect, PTL
=============================================================================
