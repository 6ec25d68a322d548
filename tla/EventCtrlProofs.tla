---------------------------- MODULE EventCtrlProofs ----------------------------
(***************************************************************************)
(* Theorems about EventCtrl, for any events, topics and callbacks.         *)
(***************************************************************************)
EXTENDS EventCtrl, SequenceTheorems, TLAPS

USE EventAssumption

\* Outside the section under m_mutexFunc the dealing thread's own queue is empty.
\* The thread lives from start to the join in stop, and is told to end before.
Phases ==
  /\ dealer \notin {"deal", "call"} => queueDeal = <<>>
  /\ owner = "idle" => (m_bTheadRun <=> dealer # "off")
  /\ owner = "join" => ~m_bTheadRun /\ dealer # "off"
  /\ owner \in {"clear", "clearFuncs"} => ~m_bTheadRun /\ dealer = "off"
  /\ owner = "idle" => dealer # "done"

\* The places of the owner and of the dealing thread, without the data.
Places ==
  /\ dealer \in {"off", "loop", "added", "swap", "deal", "call", "wait", "done"}
  /\ owner \in {"idle", "join", "clear", "clearFuncs"}
  /\ m_bTheadRun \in BOOLEAN

LEMMA PlacesInit == Init => Places /\ Phases
  BY DEF Init, Places, Phases

LEMMA PlacesStep == Places /\ Phases /\ [Next]_vars => Places' /\ Phases'
<1> SUFFICES ASSUME Places, Phases, [Next]_vars
             PROVE  Places' /\ Phases'
  OBVIOUS
<1> USE DEF Places, Phases
<1>1. CASE \/ \E p \in Topics, s \in Subs : addFunc(p, s)
           \/ \E s \in Subs : Release(s)
           \/ \E e \in Events : addEvenVartData(e)
           \/ UNCHANGED vars
  BY <1>1 DEF addFunc, Release, addEvenVartData, dealVars, vars
<1>2. CASE Dealer
  <2> USE DEF Deal
  <2>1. CASE TestRun
    BY <2>1 DEF TestRun
  <2>2. CASE TestAdded \/ Swap \/ Wake
    BY <2>2 DEF TestAdded, Swap, Wake
  <2>3. CASE CallNext \/ CallReturns \/ EraseExpired \/ PopEvent
    BY <2>3 DEF CallNext, CallReturns, EraseExpired, PopEvent
  <2>4. CASE DealtAll
    BY <2>4 DEF DealtAll
  <2> QED BY <1>2, <2>1, <2>2, <2>3, <2>4 DEF Dealer
<1>3. CASE start
  BY <1>3 DEF start
<1>4. CASE stop
  BY <1>4 DEF stop, dealVars
<1>5. CASE Join
  BY <1>5 DEF Join
<1>6. CASE clearData
  BY <1>6 DEF clearData
<1>7. CASE clearFuncs
  BY <1>7 DEF clearFuncs, dealVars
<1> QED BY <1>1, <1>2, <1>3, <1>4, <1>5, <1>6, <1>7 DEF Next

LEMMA PlacesCorrect == Spec => [](Places /\ Phases)
<1> QED BY PlacesInit, PlacesStep, PTL DEF Spec

----------------------------------------------------------------------------
(* Types *)

LEMMA CurrentListType ==
  ASSUME TypeOK, queueDeal # <<>>
  PROVE  CurrentList \in Seq(Subs) /\ Head(queueDeal) \in Events
<1>1. Head(queueDeal) \in Events
  BY HeadTailProperties DEF TypeOK
<1> QED BY <1>1 DEF TypeOK, CurrentList

LEMMA HearsType ==
  ASSUME TypeOK, NEW s \in Subs, NEW e \in Events, Hears(s, e)
  PROVE  received' \in [Subs -> Seq(Events)]
<1>1. Append(received[s], e) \in Seq(Events)
  BY AppendProperties DEF TypeOK
<1> QED BY <1>1 DEF TypeOK, Hears

LEMMA RemoveAtProperties ==
  ASSUME NEW S, NEW q \in Seq(S), NEW i \in 1..Len(q)
  PROVE  RemoveAt(q, i) \in Seq(S) /\ Len(RemoveAt(q, i)) = Len(q) - 1
<1>1. SubSeq(q, 1, i - 1) \in Seq(S) /\ Len(SubSeq(q, 1, i - 1)) = i - 1
  BY SubSeqProperties
<1>2. /\ SubSeq(q, i + 1, Len(q)) \in Seq(S)
      /\ Len(SubSeq(q, i + 1, Len(q))) = Len(q) - i
  BY SubSeqProperties
<1> DEFINE front == SubSeq(q, 1, i - 1)
           back == SubSeq(q, i + 1, Len(q))
<1>3. front \o back \in Seq(S) /\ Len(front \o back) = Len(front) + Len(back)
  <2> HIDE DEF front, back
  <2> QED BY <1>1, <1>2, ConcatProperties DEF front, back
<1>4. (i - 1) + (Len(q) - i) = Len(q) - 1
  BY LenProperties
<1> QED BY <1>1, <1>2, <1>3, <1>4 DEF RemoveAt

LEMMA TypeInit == Init => TypeOK
<1> SUFFICES ASSUME Init PROVE TypeOK
  OBVIOUS
<1>1. <<>> \in Seq(Events) /\ <<>> \in Seq(Subs)
  BY EmptySeq
<1>2. /\ funcs \in [Topics -> Seq(Subs)] /\ received \in [Subs -> Seq(Events)]
      /\ queueAdd \in Seq(Events) /\ queueDeal \in Seq(Events)
  BY <1>1 DEF Init
<1>3. /\ starts \in 0..MaxStarts /\ iter \in Nat \ {0}
      /\ dealer \notin {"deal", "call"}
  BY DEF Init
<1>4. m_bTheadRun \in BOOLEAN /\ m_bDataAdded \in BOOLEAN
  BY DEF Init
<1> QED BY <1>2, <1>3, <1>4 DEF Init, TypeOK

LEMMA TypeStep == TypeOK /\ Places /\ Phases /\ [Next]_vars => TypeOK'
<1> SUFFICES ASSUME TypeOK, Places, Phases, [Next]_vars
             PROVE  TypeOK'
  OBVIOUS
<1> USE DEF old
<1>1. ASSUME NEW p \in Topics, NEW s \in Subs, addFunc(p, s)
      PROVE  TypeOK'
  <2>1. Append(funcs[p], s) \in Seq(Subs)
    BY AppendProperties DEF TypeOK
  <2>2. funcs' \in [Topics -> Seq(Subs)]
    BY <1>1, <2>1 DEF addFunc, TypeOK
  <2> QED BY <1>1, <2>2 DEF addFunc, FuncLocked, TypeOK, dealVars
<1>2. ASSUME NEW s \in Subs, Release(s)
      PROVE  TypeOK'
  BY <1>2 DEF Release, TypeOK, dealVars, CurrentList
<1>3. ASSUME NEW e \in Events, addEvenVartData(e)
      PROVE  TypeOK'
  <2>1. queueAdd' \in Seq(Events) /\ m_bDataAdded' \in BOOLEAN
    BY <1>3, AppendProperties DEF addEvenVartData, TypeOK
  <2> QED BY <1>3, <2>1 DEF addEvenVartData, TypeOK, dealVars, CurrentList
<1>4. CASE Dealer
  <2> USE DEF Deal
  <2>1. CASE TestRun \/ TestAdded \/ DealtAll \/ Wake
    BY <2>1 DEF TestRun, TestAdded, DealtAll, Wake, TypeOK
  <2>2. CASE Swap
    <3>1. queueDeal' # <<>> => CurrentList' \in Seq(Subs)
      BY <2>2, HeadTailProperties DEF Swap, TypeOK, CurrentList
    <3>2. /\ iter' = 1 /\ queueDeal' = queueAdd /\ queueAdd' = queueDeal
          /\ dealer' = "deal" /\ m_bDataAdded' = FALSE
          /\ UNCHANGED <<funcs, received, m_bTheadRun, owned, owner, starts,
                         unposted, oldFuncs, oldEvents>>
      BY <2>2 DEF Swap
    <3>3. queueDeal' # <<>> => iter' - 1 \in 0..Len(CurrentList')
      BY <3>1, <3>2, LenProperties
    <3>4. m_bDataAdded' \in BOOLEAN
      BY <3>2, Zenon
    <3>5. iter' \in Nat \ {0}
      BY <3>2
    <3>6. queueAdd' \in Seq(Events) /\ queueDeal' \in Seq(Events)
      BY <3>2 DEF TypeOK
    <3>7. /\ dealer' = "deal"
          /\ UNCHANGED <<funcs, received, m_bTheadRun, owned, owner, starts,
                         unposted, oldFuncs, oldEvents>>
      BY <3>2
    <3> QED BY <3>3, <3>4, <3>5, <3>6, <3>7 DEF TypeOK
  <2>3. CASE CallNext
    <3>1. CurrentList[iter] \in Subs /\ iter \in DOMAIN CurrentList
      BY <2>3, CurrentListType DEF CallNext, TypeOK
    <3>2. received' \in [Subs -> Seq(Events)]
      BY <2>3, <3>1, HearsType, CurrentListType DEF CallNext
    <3> QED BY <2>3, <3>1, <3>2 DEF CallNext, TypeOK, CurrentList
  <2>4. CASE CallReturns
    <3>1. queueDeal # <<>> /\ iter \in 1..Len(CurrentList)
      BY <2>4, CurrentListType DEF CallReturns, TypeOK
    <3>2. iter' - 1 \in 0..Len(CurrentList) /\ iter' \in Nat \ {0}
      BY <2>4, <3>1, CurrentListType DEF CallReturns
    <3> QED BY <2>4, <3>2 DEF CallReturns, TypeOK, CurrentList
  <2>5. CASE EraseExpired
    <3> DEFINE p == eventName[Head(queueDeal)]
    <3>1. p \in Topics /\ funcs[p] \in Seq(Subs) /\ iter \in 1..Len(funcs[p])
      BY <2>5, CurrentListType DEF EraseExpired, TypeOK, CurrentList
    <3>2. /\ RemoveAt(funcs[p], iter) \in Seq(Subs)
          /\ Len(RemoveAt(funcs[p], iter)) = Len(funcs[p]) - 1
      BY <3>1, RemoveAtProperties
    <3>3. funcs' = [funcs EXCEPT ![p] = RemoveAt(funcs[p], iter)]
      BY <2>5 DEF EraseExpired
    <3>4. funcs' \in [Topics -> Seq(Subs)] /\ funcs'[p] = RemoveAt(funcs[p], iter)
      BY <3>1, <3>2, <3>3 DEF TypeOK
    <3>5. Len(funcs'[p]) = Len(funcs[p]) - 1 /\ iter - 1 \in 0..Len(funcs'[p])
      BY <3>1, <3>2, <3>4, LenProperties
    <3>6. CurrentList' = funcs'[p] /\ iter' = iter /\ queueDeal' = queueDeal
      BY <2>5 DEF EraseExpired, CurrentList
    <3> QED BY <2>5, <3>4, <3>5, <3>6 DEF EraseExpired, TypeOK
  <2>6. CASE PopEvent
    <3>1. queueDeal' \in Seq(Events)
      BY <2>6, HeadTailProperties DEF PopEvent, TypeOK
    <3>2. queueDeal' # <<>> => CurrentList' \in Seq(Subs)
      BY <2>6, <3>1, HeadTailProperties DEF PopEvent, TypeOK, CurrentList
    <3> QED BY <2>6, <3>1, <3>2 DEF PopEvent, TypeOK
  <2> QED BY <1>4, <2>1, <2>2, <2>3, <2>4, <2>5, <2>6 DEF Dealer
<1>5. CASE start
  BY <1>5 DEF start, TypeOK
<1>6. CASE stop
  <2>1. oldFuncs' \subseteq Topics \X Subs
    BY <1>6 DEF stop
  <2>2. oldEvents' \subseteq Events
    BY <1>6, LenProperties DEF stop, Range, TypeOK
  <2> QED BY <1>6, <2>1, <2>2 DEF stop, TypeOK, dealVars, CurrentList
<1>7. CASE Join
  BY <1>7 DEF Join, TypeOK
<1>8. CASE clearData
  BY <1>8, EmptySeq DEF clearData, TypeOK, Phases
<1>9. CASE clearFuncs
  BY <1>9, EmptySeq DEF clearFuncs, TypeOK, dealVars, Phases
<1>10. CASE UNCHANGED vars
  BY <1>10 DEF vars, TypeOK, CurrentList
<1> QED BY <1>1, <1>2, <1>3, <1>4, <1>5, <1>6, <1>7, <1>8, <1>9, <1>10 DEF Next

\* The variables keep their types, and iterFunc stays on the list it runs over.
THEOREM TypeCorrect == Spec => []TypeOK
<1> QED BY TypeInit, TypeStep, PlacesCorrect, PTL DEF Spec

----------------------------------------------------------------------------
\* The flag is up exactly when events wait: no post is missed, no swap is in vain.
THEOREM FlagMatchesQueueCorrect == Spec => []FlagMatchesQueue
<1>1. Init => FlagMatchesQueue
  BY DEF Init, FlagMatchesQueue
<1>2. TypeOK /\ Phases /\ FlagMatchesQueue /\ [Next]_vars => FlagMatchesQueue'
  <2> SUFFICES ASSUME TypeOK, Phases, FlagMatchesQueue, [Next]_vars
               PROVE  FlagMatchesQueue'
    OBVIOUS
  <2> USE DEF FlagMatchesQueue
  <2>1. ASSUME NEW e \in Events, addEvenVartData(e)
        PROVE  FlagMatchesQueue'
    <3>1. queueAdd' # <<>>
      BY <2>1, AppendProperties, EmptySeq DEF addEvenVartData, TypeOK
    <3> QED BY <2>1, <3>1 DEF addEvenVartData
  <2>2. CASE Swap
    BY <2>2 DEF Swap, Deal, Phases
  <2>3. CASE clearData
    BY <2>3 DEF clearData
  <2>4. CASE UNCHANGED <<m_bDataAdded, queueAdd>>
    BY <2>4
  <2>5. ASSUME NEW p \in Topics, NEW s \in Subs, addFunc(p, s) \/ Release(s)
        PROVE  UNCHANGED <<m_bDataAdded, queueAdd>>
    BY <2>5 DEF addFunc, Release
  <2>6. Dealer => Swap \/ UNCHANGED <<m_bDataAdded, queueAdd>>
    BY DEF Dealer, TestRun, TestAdded, CallNext, CallReturns, EraseExpired,
       PopEvent, DealtAll, Wake
  <2>7. start \/ stop \/ Join \/ clearFuncs \/ UNCHANGED vars
          => UNCHANGED <<m_bDataAdded, queueAdd>>
    BY DEF start, stop, Join, clearFuncs, vars
  <2>8. \A s \in Subs : Release(s) => UNCHANGED <<m_bDataAdded, queueAdd>>
    BY DEF Release
  <2> QED BY <2>1, <2>2, <2>3, <2>4, <2>5, <2>6, <2>7, <2>8 DEF Next
<1> QED BY <1>1, <1>2, TypeCorrect, PlacesCorrect, PTL DEF Spec

----------------------------------------------------------------------------
(* The control implements the event bus. *)

\* No callback is twice on a list.
Distinct(q) == \A i, j \in 1..Len(q) : q[i] = q[j] => i = j

ListsDistinct == \A p \in Topics : Distinct(funcs[p])

LEMMA AppendElements ==
  ASSUME NEW S, NEW q \in Seq(S), NEW x \in S
  PROVE  /\ Range(Append(q, x)) = Range(q) \cup {x}
         /\ Distinct(q) /\ ~Contains(q, x) => Distinct(Append(q, x))
<1> DEFINE a == Append(q, x)
<1>1. /\ Len(a) = Len(q) + 1 /\ a[Len(q) + 1] = x
      /\ \A i \in 1..Len(q) : a[i] = q[i]
      /\ DOMAIN a = 1..Len(a) /\ DOMAIN q = 1..Len(q) /\ Len(q) \in Nat
  BY AppendProperties, LenProperties
<1>2. 1..Len(a) = (1..Len(q)) \cup {Len(q) + 1}
  BY <1>1
<1> HIDE DEF a
<1>3. Range(a) = Range(q) \cup {x}
  BY <1>1, <1>2 DEF Range
<1>4. Distinct(q) /\ ~Contains(q, x) => Distinct(a)
  BY <1>1, <1>2 DEF Distinct, Contains
<1> QED BY <1>3, <1>4 DEF a

LEMMA RemoveAtElements ==
  ASSUME NEW S, NEW q \in Seq(S), NEW i \in 1..Len(q), Distinct(q)
  PROVE  /\ \A j \in 1..(i - 1) : RemoveAt(q, i)[j] = q[j]
         /\ Range(RemoveAt(q, i)) = Range(q) \ {q[i]}
         /\ Distinct(RemoveAt(q, i))
<1> DEFINE r == RemoveAt(q, i)
           front == SubSeq(q, 1, i - 1)
           back == SubSeq(q, i + 1, Len(q))
<1>1. /\ Len(q) \in Nat /\ DOMAIN q = 1..Len(q)
      /\ r \in Seq(S) /\ Len(r) = Len(q) - 1 /\ DOMAIN r = 1..Len(r)
  BY LenProperties, RemoveAtProperties
<1>2. /\ front \in Seq(S) /\ Len(front) = i - 1
      /\ \A j \in 1..(i - 1) : front[j] = q[j]
  BY SubSeqProperties
<1>3. /\ back \in Seq(S) /\ Len(back) = Len(q) - i
      /\ \A j \in 1..(Len(q) - i) : back[j] = q[i + j]
  <2>1. /\ back \in Seq(S) /\ Len(back) = Len(q) - i
    BY SubSeqProperties
  <2>2. \A j \in 1..(Len(q) - i) : back[j] = q[(i + 1) + j - 1]
    BY SubSeqProperties
  <2>3. \A j \in 1..(Len(q) - i) : (i + 1) + j - 1 = i + j
    OBVIOUS
  <2> QED BY <2>1, <2>2, <2>3
<1>4. /\ \A j \in 1..(i - 1) : r[j] = front[j]
      /\ \A j \in i..(Len(q) - 1) : r[j] = back[j - (i - 1)]
  <2>1. r = front \o back
    BY DEF RemoveAt
  <2> HIDE DEF r, front, back
  <2>2. \A j \in 1..(Len(front) + Len(back)) :
          (front \o back)[j] = IF j <= Len(front) THEN front[j]
                               ELSE back[j - Len(front)]
    BY <1>2, <1>3, ConcatProperties
  <2>3. Len(front) = i - 1 /\ Len(front) + Len(back) = Len(q) - 1
    BY <1>1, <1>2, <1>3
  <2>4. \A j \in 1..(Len(q) - 1) :
          r[j] = IF j <= i - 1 THEN front[j] ELSE back[j - (i - 1)]
    BY <2>1, <2>2, <2>3
  <2>5. \A j \in i..(Len(q) - 1) : j \in 1..(Len(q) - 1) /\ ~(j <= i - 1)
    BY <1>1
  <2>6. \A j \in 1..(i - 1) : j \in 1..(Len(q) - 1) /\ j <= i - 1
    BY <1>1
  <2> QED BY <2>4, <2>5, <2>6
<1> HIDE DEF r, front, back
<1>5. \A j \in 1..Len(r) : r[j] = IF j < i THEN q[j] ELSE q[j + 1]
  <2> SUFFICES ASSUME NEW j \in 1..Len(r)
               PROVE  r[j] = IF j < i THEN q[j] ELSE q[j + 1]
    OBVIOUS
  <2>1. CASE j < i
    BY <1>1, <1>2, <1>4, <2>1
  <2>2. CASE j >= i
    <3>1. j - (i - 1) \in 1..(Len(q) - i) /\ i + (j - (i - 1)) = j + 1
      BY <1>1, <2>2
    <3>2. r[j] = back[j - (i - 1)]
      BY <1>1, <1>4, <2>2
    <3> QED BY <1>3, <3>1, <3>2, <2>2
  <2> QED BY <1>1, <2>1, <2>2
<1>6. \A j \in 1..(i - 1) : r[j] = q[j]
  BY <1>1, <1>5
<1>7. Range(r) = Range(q) \ {q[i]}
  <2>1. ASSUME NEW x \in Range(r) PROVE x \in Range(q) \ {q[i]}
    <3>1. PICK j \in 1..Len(r) : x = r[j]
      BY <1>1 DEF Range
    <3>2. \E k \in 1..Len(q) : k # i /\ x = q[k]
      <4>1. CASE j < i
        BY <1>1, <1>5, <3>1, <4>1
      <4>2. CASE ~(j < i)
        <5>1. j + 1 \in 1..Len(q) /\ j + 1 # i /\ x = q[j + 1]
          BY <1>1, <1>5, <3>1, <4>2
        <5> QED BY <5>1
      <4> QED BY <4>1, <4>2
    <3> QED BY <1>1, <3>2 DEF Range, Distinct
  <2>2. ASSUME NEW x \in Range(q) \ {q[i]} PROVE x \in Range(r)
    <3>1. PICK j \in 1..Len(q) : x = q[j]
      BY <1>1 DEF Range
    <3>2. CASE j < i
      BY <1>1, <1>5, <3>1, <3>2 DEF Range
    <3>3. CASE j > i
      <4>1. j - 1 \in 1..Len(r) /\ ~(j - 1 < i) /\ (j - 1) + 1 = j
        BY <1>1, <3>3
      <4> QED BY <1>1, <1>5, <3>1, <4>1 DEF Range
    <3> QED BY <3>1, <3>2, <3>3
  <2> QED BY <2>1, <2>2
<1>8. Distinct(r)
  BY <1>1, <1>5 DEF Distinct
<1> QED BY <1>6, <1>7, <1>8 DEF r

LEMMA HeadTailOfConcat ==
  ASSUME NEW S, NEW q \in Seq(S), NEW t \in Seq(S), q # <<>>
  PROVE  q \o t # <<>> /\ Head(q \o t) = Head(q) /\ Tail(q \o t) = Tail(q) \o t
<1>1. /\ q \o t \in Seq(S) /\ Len(q \o t) = Len(q) + Len(t)
      /\ \A i \in 1..(Len(q) + Len(t)) :
           (q \o t)[i] = IF i <= Len(q) THEN q[i] ELSE t[i - Len(q)]
  BY ConcatProperties
<1>2. Len(q) \in Nat \ {0} /\ Len(t) \in Nat
  BY LenProperties, EmptySeq
<1>3. q \o t # <<>>
  BY <1>1, <1>2, EmptySeq
<1>4. Head(q \o t) = Head(q)
  BY <1>1, <1>2
<1>5. /\ Tail(q) \in Seq(S) /\ Len(Tail(q)) = Len(q) - 1
      /\ \A i \in 1..Len(Tail(q)) : Tail(q)[i] = q[i + 1]
  BY HeadTailProperties
<1>6. /\ Tail(q \o t) \in Seq(S) /\ Len(Tail(q \o t)) = Len(q) + Len(t) - 1
      /\ \A i \in 1..(Len(q) + Len(t) - 1) : Tail(q \o t)[i] = (q \o t)[i + 1]
  BY <1>1, <1>3, HeadTailProperties
<1>7. /\ Tail(q) \o t \in Seq(S) /\ Len(Tail(q) \o t) = Len(q) - 1 + Len(t)
      /\ \A i \in 1..(Len(q) - 1 + Len(t)) :
           (Tail(q) \o t)[i] = IF i <= Len(q) - 1 THEN Tail(q)[i]
                               ELSE t[i - (Len(q) - 1)]
  BY <1>5, ConcatProperties
<1>8. ASSUME NEW i \in 1..(Len(q) + Len(t) - 1)
      PROVE  Tail(q \o t)[i] = (Tail(q) \o t)[i]
  <2>1. /\ i + 1 \in 1..(Len(q) + Len(t)) /\ i \in 1..(Len(q) - 1 + Len(t))
        /\ (i + 1) - Len(q) = i - (Len(q) - 1)
        /\ i + 1 <= Len(q) <=> i <= Len(q) - 1
    BY <1>2
  <2>2. CASE i <= Len(q) - 1
    <3>1. i \in 1..Len(Tail(q))
      BY <1>2, <1>5, <2>2
    <3> QED BY <1>1, <1>5, <1>6, <1>7, <2>1, <2>2, <3>1
  <2>3. CASE ~(i <= Len(q) - 1)
    BY <1>1, <1>6, <1>7, <2>1, <2>3
  <2> QED BY <2>2, <2>3
<1>9. Len(Tail(q \o t)) = Len(Tail(q) \o t) /\ Len(Tail(q \o t)) = Len(q) + Len(t) - 1
  BY <1>2, <1>6, <1>7
<1>10. Tail(q \o t) = Tail(q) \o t
  BY <1>6, <1>7, <1>8, <1>9, SeqEqual
<1> QED BY <1>3, <1>4, <1>10

LEMMA DistinctInit == Init => ListsDistinct
  BY EmptySeq DEF Init, ListsDistinct, Distinct

LEMMA DistinctStep == TypeOK /\ ListsDistinct /\ [Next]_vars => ListsDistinct'
<1> SUFFICES ASSUME TypeOK, ListsDistinct, [Next]_vars
             PROVE  ListsDistinct'
  OBVIOUS
<1> USE DEF ListsDistinct
<1>1. ASSUME NEW p \in Topics, NEW s \in Subs, addFunc(p, s)
      PROVE  ListsDistinct'
  <2>1. funcs[p] \in Seq(Subs) /\ ~Contains(funcs[p], s) /\ Distinct(funcs[p])
    BY <1>1 DEF addFunc, TypeOK
  <2>2. Distinct(Append(funcs[p], s))
    BY <2>1, AppendElements
  <2>3. funcs' = [funcs EXCEPT ![p] = Append(funcs[p], s)]
    BY <1>1 DEF addFunc
  <2>4. \A o \in Topics : funcs'[o] = IF o = p THEN Append(funcs[p], s) ELSE funcs[o]
    BY <2>3 DEF TypeOK
  <2> QED BY <2>2, <2>4
<1>2. CASE EraseExpired
  <2> DEFINE p == eventName[Head(queueDeal)]
  <2>1. p \in Topics /\ funcs[p] \in Seq(Subs) /\ iter \in 1..Len(funcs[p])
    BY <1>2, CurrentListType DEF EraseExpired, TypeOK, CurrentList
  <2>2. Distinct(RemoveAt(funcs[p], iter))
    BY <2>1, RemoveAtElements
  <2>3. funcs' = [funcs EXCEPT ![p] = RemoveAt(funcs[p], iter)]
    BY <1>2 DEF EraseExpired
  <2> HIDE DEF p
  <2>4. \A o \in Topics :
          funcs'[o] = IF o = p THEN RemoveAt(funcs[p], iter) ELSE funcs[o]
    BY <2>3 DEF TypeOK
  <2> QED BY <2>2, <2>4
<1>3. CASE clearFuncs
  BY <1>3, EmptySeq DEF clearFuncs, Distinct
<1>4. CASE UNCHANGED funcs
  BY <1>4
<1>5. Dealer => EraseExpired \/ UNCHANGED funcs
  BY DEF Dealer, TestRun, TestAdded, Swap, CallNext, CallReturns, PopEvent,
     DealtAll, Wake
<1>6. start \/ stop \/ Join \/ clearData \/ UNCHANGED vars => UNCHANGED funcs
  BY DEF start, stop, Join, clearData, vars
<1>7. \A s \in Subs, e \in Events :
        Release(s) \/ addEvenVartData(e) => UNCHANGED funcs
  BY DEF Release, addEvenVartData
<1>8. /\ \A s \in Subs : Release(s) => UNCHANGED funcs
      /\ \A e \in Events : addEvenVartData(e) => UNCHANGED funcs
  BY DEF Release, addEvenVartData
<1> QED BY <1>1, <1>2, <1>3, <1>4, <1>5, <1>6, <1>8 DEF Next

LEMMA DistinctCorrect == Spec => []ListsDistinct
<1> QED BY DistinctInit, DistinctStep, TypeCorrect, PTL DEF Spec

\* What EventBus sees of a state of the control.
Pending == queueDeal \o queueAdd
Subscribers == [p \in Topics |-> Range(funcs[p])]
Calling == IF dealer = "call" THEN {CurrentList[iter]} ELSE {}

\* The bus's view of a step that changes none of what the view depends on.
LEMMA SameView ==
  ASSUME UNCHANGED <<queueDeal, queueAdd, funcs, dealer, iter>>
  PROVE  UNCHANGED <<Pending, Subscribers, Served, Calling>>
  BY DEF Pending, Subscribers, Served, Calling, CurrentList

\* Nothing is being served outside the section under m_mutexFunc.
LEMMA QuietView ==
  /\ ~FuncLocked => Served = {} /\ Calling = {}
  /\ ~FuncLocked' => Served' = {} /\ Calling' = {}
  BY DEF FuncLocked, Served, Calling

LEMMA BusInitHolds == Init => Bus!BusInit
<1> SUFFICES ASSUME Init PROVE Bus!BusInit
  OBVIOUS
<1>1. Pending = <<>>
  BY EmptySeq, ConcatEmptySeq DEF Init, Pending
<1>2. Subscribers = [p \in Topics |-> {}]
  BY DEF Init, Subscribers, Range
<1>3. Served = {} /\ Calling = {}
  BY QuietView DEF Init, FuncLocked
<1> QED BY <1>1, <1>2, <1>3
        DEF Init, Bus!BusInit, Pending, Subscribers, Calling

LEMMA BusStepHolds ==
  ASSUME TypeOK, TypeOK', Places, Phases, ListsDistinct, [Next]_vars
  PROVE  [Bus!BusNext]_(Bus!busVars)
<1> DEFINE Topic == eventName[Head(queueDeal)]
           Stutter == UNCHANGED <<Pending, Subscribers, owned, Served, Calling,
                                  received>>
<1>0. Stutter => UNCHANGED Bus!busVars
  BY DEF Bus!busVars, Pending, Subscribers, Calling
<1>1. ASSUME NEW p \in Topics, NEW s \in Subs, addFunc(p, s)
      PROVE  Bus!Subscribe(p, s)
  <2>1. Served = {} /\ Calling = {} /\ Served' = {} /\ Calling' = {}
    BY <1>1, QuietView DEF addFunc, FuncLocked, dealVars
  <2>2. Pending' = Pending
    BY <1>1 DEF addFunc, dealVars, Pending
  <2>3. Range(Append(funcs[p], s)) = Range(funcs[p]) \cup {s}
    BY AppendElements DEF TypeOK
  <2>4. funcs' = [funcs EXCEPT ![p] = Append(funcs[p], s)]
    BY <1>1 DEF addFunc
  <2>5. Subscribers' = [Subscribers EXCEPT ![p] = @ \cup {s}]
    BY <2>3, <2>4 DEF Subscribers, TypeOK
  <2> QED BY <1>1, <2>1, <2>2, <2>5
          DEF addFunc, Bus!Subscribe, Pending, Subscribers, Calling
<1>2. ASSUME NEW s \in Subs, Release(s)
      PROVE  Bus!Release(s)
  BY <1>2, SameView
     DEF Release, dealVars, Bus!Release, Pending, Subscribers, Calling
<1>3. ASSUME NEW e \in Events, addEvenVartData(e)
      PROVE  Bus!Post(e)
  <2>1. UNCHANGED <<Subscribers, Served, Calling>>
    BY <1>3 DEF addEvenVartData, dealVars, Subscribers, Served, Calling,
       CurrentList
  <2>2. queueDeal \o Append(queueAdd, e) = Append(queueDeal \o queueAdd, e)
    <3>1. /\ <<e>> \in Seq(Events) /\ queueDeal \o queueAdd \in Seq(Events)
          /\ queueDeal \in Seq(Events) /\ queueAdd \in Seq(Events)
      BY ConcatProperties DEF TypeOK
    <3>2. Append(queueAdd, e) = queueAdd \o <<e>>
      BY <3>1, AppendIsConcat
    <3>3. Append(queueDeal \o queueAdd, e) = (queueDeal \o queueAdd) \o <<e>>
      BY <3>1, AppendIsConcat
    <3> QED BY <3>1, <3>2, <3>3, ConcatAssociative
  <2>3. Pending' = Append(Pending, e)
    BY <1>3, <2>2 DEF addEvenVartData, dealVars, Pending
  <2> QED BY <1>3, <2>1, <2>3
          DEF addEvenVartData, Bus!Post, Pending, Subscribers, Calling
<1>4. CASE Dealer
  <2> USE DEF Deal
  <2>1. CASE TestRun \/ TestAdded \/ Wake
    <3>1. ~FuncLocked /\ ~FuncLocked'
      BY <2>1 DEF TestRun, TestAdded, Wake, FuncLocked
    <3>2. UNCHANGED <<Pending, Subscribers, owned, received>>
      BY <2>1 DEF TestRun, TestAdded, Wake, Pending, Subscribers
    <3> QED BY <1>0, <3>1, <3>2, QuietView
  <2>2. CASE Swap
    <3>1. queueDeal = <<>> /\ ~FuncLocked
      BY <2>2 DEF Swap, Phases, FuncLocked
    <3>2. Pending' = Pending
      BY <2>2, <3>1, ConcatEmptySeq DEF Swap, Pending, TypeOK
    <3>3. Served' = {}
      BY <2>2 DEF Swap, Served
    <3>4. Calling' = {} /\ Served = {} /\ Calling = {}
      BY <2>2, <3>1, QuietView DEF Swap, Calling
    <3>5. UNCHANGED <<Subscribers, owned, received>>
      BY <2>2 DEF Swap, Subscribers
    <3> QED BY <1>0, <3>2, <3>3, <3>4, <3>5
  <2>3. CASE DealtAll
    <3>1. Served = {} /\ Calling = {} /\ Served' = {} /\ Calling' = {}
      BY <2>3 DEF DealtAll, Served, Calling
    <3>2. UNCHANGED <<Pending, Subscribers, owned, received>>
      BY <2>3 DEF DealtAll, Pending, Subscribers
    <3> QED BY <1>0, <3>1, <3>2
  <2>4. CASE dealer = "deal" /\ queueDeal # <<>>
    <3>1. /\ Head(queueDeal) \in Events /\ Topic \in Topics
          /\ funcs[Topic] \in Seq(Subs) /\ Distinct(funcs[Topic])
          /\ CurrentList = funcs[Topic] /\ Len(funcs[Topic]) \in Nat
          /\ DOMAIN funcs[Topic] = 1..Len(funcs[Topic])
          /\ iter \in Nat \ {0} /\ iter - 1 \in 0..Len(funcs[Topic])
      BY <2>4, CurrentListType, LenProperties
         DEF TypeOK, ListsDistinct, CurrentList
    <3>2. /\ Pending # <<>> /\ Head(Pending) = Head(queueDeal)
          /\ Tail(Pending) = Tail(queueDeal) \o queueAdd
      BY <2>4, HeadTailOfConcat DEF Pending, TypeOK
    <3>3. Calling = {} /\ Served = {funcs[Topic][i] : i \in 1..(iter - 1)}
      BY <2>4, <3>1 DEF Calling, Served
    <3>4. Subscribers[Topic] = Range(funcs[Topic])
      BY <3>1 DEF Subscribers
    <3> HIDE DEF Topic
    <3>5. CASE CallNext
      <4> DEFINE s == funcs[Topic][iter]
      <4>1. iter \in 1..Len(funcs[Topic]) /\ s \in owned /\ s \in Subs
        BY <3>1, <3>5 DEF CallNext, TypeOK
      <4>2. s \in Subscribers[Topic] /\ s \notin Served
        BY <3>1, <3>3, <3>4, <4>1 DEF Distinct, Range
      <4>3. UNCHANGED <<Pending, Subscribers, Served, owned>>
        BY <2>4, <3>5 DEF CallNext, Pending, Subscribers, Served, CurrentList
      <4>4. Calling' = {s}
        BY <3>1, <3>5 DEF CallNext, Calling, CurrentList
      <4>5. received' = [received EXCEPT ![s] = Append(@, Head(Pending))]
        BY <3>1, <3>2, <3>5 DEF CallNext, Hears
      <4> HIDE DEF s
      <4>6. Bus!Call(s)
        BY <3>2, <3>3, <4>1, <4>2, <4>3, <4>4, <4>5
           DEF Bus!Call, Pending, Subscribers, Calling, Topic
      <4> QED BY <4>1, <4>6 DEF Bus!BusNext
    <3>6. CASE EraseExpired
      <4> DEFINE s == funcs[Topic][iter]
                 r == RemoveAt(funcs[Topic], iter)
      <4>1. iter \in 1..Len(funcs[Topic]) /\ s \notin owned /\ s \in Subs
        BY <3>1, <3>6 DEF EraseExpired, TypeOK
      <4>2. s \in Subscribers[Topic] /\ s \notin Served
        BY <3>1, <3>3, <3>4, <4>1 DEF Distinct, Range
      <4>3. /\ \A j \in 1..(iter - 1) : r[j] = funcs[Topic][j]
            /\ Range(r) = Range(funcs[Topic]) \ {s}
        BY <3>1, <4>1, RemoveAtElements
      <4>4. funcs' = [funcs EXCEPT ![Topic] = r]
        BY <3>1, <3>6 DEF EraseExpired, Topic
      <4> HIDE DEF s, r
      <4>5. funcs'[Topic] = r
        BY <3>1, <4>4 DEF TypeOK
      <4>6. Subscribers' = [Subscribers EXCEPT ![Topic] = @ \ {s}]
        BY <3>1, <4>3, <4>4 DEF Subscribers, TypeOK
      <4>7. Served' = {r[i] : i \in 1..(iter - 1)}
        BY <2>4, <3>6, <4>5 DEF EraseExpired, Served, CurrentList, Topic
      <4>8. Served' = Served
        BY <3>3, <4>3, <4>7
      <4>9. Calling' = {} /\ UNCHANGED <<Pending, owned, received>>
        BY <3>6 DEF EraseExpired, Calling, Pending
      <4>10. Bus!Forget(Topic, s)
        BY <3>3, <4>1, <4>2, <4>6, <4>8, <4>9
           DEF Bus!Forget, Pending, Subscribers, Calling
      <4> QED BY <3>1, <4>1, <4>10 DEF Bus!BusNext
    <3>7. CASE PopEvent
      <4>1. iter - 1 = Len(funcs[Topic])
        BY <3>1, <3>7 DEF PopEvent
      <4>2. Served = Range(funcs[Topic])
        BY <3>1, <3>3, <4>1 DEF Range
      <4>3. Pending' = Tail(Pending)
        BY <3>2, <3>7 DEF PopEvent, Pending
      <4>4. Served' = {}
        BY <3>7 DEF PopEvent, Served
      <4>5. Calling' = {} /\ UNCHANGED <<Subscribers, owned, received>>
        BY <3>7 DEF PopEvent, Calling, Subscribers
      <4>6. Bus!Complete
        BY <3>2, <3>3, <3>4, <4>2, <4>3, <4>4, <4>5
           DEF Bus!Complete, Pending, Subscribers, Calling, Topic
      <4> QED BY <4>6 DEF Bus!BusNext
    <3> QED BY <1>4, <2>1, <2>2, <2>3, <2>4, <3>5, <3>6, <3>7
            DEF Dealer, CallReturns
  <2>5. CASE CallReturns
    <3> DEFINE s == CurrentList[iter]
    <3>1. /\ queueDeal # <<>> /\ CurrentList \in Seq(Subs)
          /\ iter \in 1..Len(CurrentList) /\ Len(CurrentList) \in Nat
      BY <2>5, CurrentListType, LenProperties DEF CallReturns, TypeOK
    <3>2. s \in Subs
      BY <3>1
    <3>3. Calling = {s} /\ Calling' = {}
      BY <2>5 DEF CallReturns, Calling
    <3>4. /\ Served = {CurrentList[i] : i \in 1..(iter - 1)}
          /\ Served' = {CurrentList[i] : i \in 1..iter}
      BY <2>5, <3>1 DEF CallReturns, Served, CurrentList
    <3>5. 1..iter = (1..(iter - 1)) \cup {iter}
      BY <3>1
    <3>6. Served' = Served \cup {s}
      BY <3>4, <3>5
    <3>7. UNCHANGED <<Pending, Subscribers, owned, received>>
      BY <2>5 DEF CallReturns, Pending, Subscribers
    <3>8. Bus!Return(s)
      BY <3>3, <3>6, <3>7 DEF Bus!Return, Pending, Subscribers, Calling
    <3> QED BY <3>2, <3>8 DEF Bus!BusNext
  <2> QED BY <1>4, <2>1, <2>2, <2>3, <2>4, <2>5
          DEF Dealer, CallNext, EraseExpired, PopEvent
<1>5. CASE start
  <2>1. ~FuncLocked /\ ~FuncLocked'
    BY <1>5 DEF start, FuncLocked, Phases, Places
  <2>2. UNCHANGED <<Pending, Subscribers, owned, received>>
    BY <1>5 DEF start, Pending, Subscribers
  <2> QED BY <1>0, <2>1, <2>2, QuietView
<1>6. CASE stop
  BY <1>0, <1>6, SameView DEF stop, dealVars
<1>7. CASE Join
  <2>1. ~FuncLocked /\ ~FuncLocked'
    BY <1>7 DEF Join, FuncLocked
  <2>2. UNCHANGED <<Pending, Subscribers, owned, received>>
    BY <1>7 DEF Join, Pending, Subscribers
  <2> QED BY <1>0, <2>1, <2>2, QuietView
<1>8. CASE clearData
  <2>1. ~FuncLocked /\ ~FuncLocked'
    BY <1>8 DEF clearData, FuncLocked, Phases
  <2>2. Pending' = <<>> /\ UNCHANGED <<Subscribers, owned, received>>
    BY <1>8, ConcatEmptySeq, EmptySeq DEF clearData, Pending, Subscribers
  <2>3. Bus!DropEvents
    BY <2>1, <2>2, QuietView
       DEF Bus!DropEvents, Pending, Subscribers, Calling
  <2> QED BY <2>3 DEF Bus!BusNext
<1>9. CASE clearFuncs
  <2>1. ~FuncLocked /\ ~FuncLocked'
    BY <1>9 DEF clearFuncs, FuncLocked, dealVars
  <2>2. Subscribers' = [p \in Topics |-> {}]
    BY <1>9 DEF clearFuncs, Subscribers, Range
  <2>3. UNCHANGED <<Pending, owned, received>>
    BY <1>9 DEF clearFuncs, Pending, dealVars
  <2>4. Bus!DropSubscribers
    BY <2>1, <2>2, <2>3, QuietView
       DEF Bus!DropSubscribers, Pending, Subscribers, Calling
  <2> QED BY <2>4 DEF Bus!BusNext
<1>10. CASE UNCHANGED vars
  BY <1>0, <1>10, SameView DEF vars
<1> QED BY <1>1, <1>2, <1>3, <1>4, <1>5, <1>6, <1>7, <1>8, <1>9, <1>10
        DEF Next, Bus!BusNext

\* Two queues, a swap and two locks show callbacks what one queue would: each
\* callback of an event's topic is called once, in the order of the posts, while
\* somebody else owns it, and no event is done with before they all were.
THEOREM ImplementsBusCorrect == Spec => ImplementsBus
<1>1. TypeOK /\ TypeOK' /\ Places /\ Phases /\ ListsDistinct /\ [Next]_vars
        => [Bus!BusNext]_(Bus!busVars)
  BY BusStepHolds
<1> QED BY <1>1, BusInitHolds, TypeCorrect, PlacesCorrect, DistinctCorrect, PTL
        DEF Spec, ImplementsBus, Bus!BusSpec
----------------------------------------------------------------------------
(* The order in which callbacks hear events *)

\* No callback was called with e; s was or is being called with the event that is
\* dealt with.
Fresh(e) == \A s \in Subs : \A i \in DOMAIN received[s] : received[s][i] # e
Had(s) ==
  \E m \in 1..Len(CurrentList) :
    CurrentList[m] = s /\ (m < iter \/ (m = iter /\ dealer = "call"))

\* Each event is posted once, so that it is in one place: to be posted, or in a queue.
PostedOnce ==
  /\ Distinct(queueDeal) /\ Distinct(queueAdd)
  /\ \A i \in 1..Len(queueDeal), j \in 1..Len(queueAdd) : queueDeal[i] # queueAdd[j]
  /\ \A i \in 1..Len(queueDeal) : queueDeal[i] \notin unposted
  /\ \A j \in 1..Len(queueAdd) : queueAdd[j] \notin unposted

\* Nobody has heard an event that is still to be dealt with.
FreshAhead ==
  /\ \A e \in unposted : Fresh(e)
  /\ \A j \in 1..Len(queueAdd) : Fresh(queueAdd[j])
  /\ \A i \in 1..Len(queueDeal) : i # 1 => Fresh(queueDeal[i])

\* Who has heard the event that is dealt with heard it last, and is on its list at or
\* before the iterator.
HeadHad ==
  queueDeal # <<>> =>
    \A s \in Subs : \A i \in DOMAIN received[s] :
      received[s][i] = queueDeal[1] => i = Len(received[s]) /\ Had(s)

OrderInv == PostedOnce /\ FreshAhead /\ HeadHad /\ HeardInOneOrder

LEMMA SameOrder ==
  ASSUME OrderInv, UNCHANGED <<queueDeal, queueAdd, unposted, received>>,
         queueDeal # <<>> => \A s \in Subs : Had(s) => Had(s)'
  PROVE  OrderInv'
<1>1. PostedOnce' /\ HeardInOneOrder'
  BY DEF OrderInv, PostedOnce, Distinct, HeardInOneOrder
<1>2. FreshAhead'
  BY DEF OrderInv, FreshAhead, Fresh
<1>3. HeadHad'
  BY DEF OrderInv, HeadHad
<1> QED BY <1>1, <1>2, <1>3 DEF OrderInv

LEMMA PostInOrder ==
  ASSUME TypeOK, OrderInv, NEW e \in Events, addEvenVartData(e)
  PROVE  OrderInv'
<1> DEFINE a == Append(queueAdd, e)
<1>1. /\ queueAdd' = a /\ unposted' = unposted \ {e} /\ e \in unposted
      /\ UNCHANGED <<queueDeal, received, funcs, iter, dealer>>
  BY DEF addEvenVartData, dealVars
<1>2. /\ \A j \in 1..Len(a) : (j \in 1..Len(queueAdd) /\ a[j] = queueAdd[j])
                                \/ (j = Len(queueAdd) + 1 /\ a[j] = e)
  <2>1. queueAdd \in Seq(Events) /\ Len(queueAdd) \in Nat
    BY LenProperties DEF TypeOK
  <2>2. /\ Len(a) = Len(queueAdd) + 1 /\ a[Len(queueAdd) + 1] = e
        /\ \A j \in 1..Len(queueAdd) : a[j] = queueAdd[j]
    BY <2>1, AppendProperties
  <2> HIDE DEF a
  <2> QED BY <2>1, <2>2
<1> HIDE DEF a
<1>3. PostedOnce'
  <2>1. /\ \A j \in 1..Len(queueAdd) : queueAdd[j] # e
        /\ \A i \in 1..Len(queueDeal) : queueDeal[i] # e
    BY <1>1 DEF OrderInv, PostedOnce
  <2>2. Distinct(a)
    BY <1>2, <2>1 DEF OrderInv, PostedOnce, Distinct
  <2>3. \A i \in 1..Len(queueDeal), j \in 1..Len(a) : queueDeal[i] # a[j]
    BY <1>2, <2>1 DEF OrderInv, PostedOnce
  <2>4. \A j \in 1..Len(a) : a[j] \notin unposted \ {e}
    BY <1>2 DEF OrderInv, PostedOnce
  <2>5. Distinct(queueDeal) /\ \A i \in 1..Len(queueDeal) : queueDeal[i] \notin unposted
    BY DEF OrderInv, PostedOnce
  <2> QED BY <1>1, <2>2, <2>3, <2>4, <2>5 DEF PostedOnce
<1>4. FreshAhead'
  <2>1. \A x : Fresh(x) => Fresh(x)'
    BY <1>1 DEF Fresh
  <2>2. \A j \in 1..Len(a) : Fresh(a[j])
    BY <1>1, <1>2 DEF OrderInv, FreshAhead
  <2> QED BY <1>1, <2>1, <2>2 DEF OrderInv, FreshAhead
<1>5. HeadHad' /\ HeardInOneOrder'
  BY <1>1 DEF OrderInv, HeadHad, HeardInOneOrder, Had, CurrentList
<1> QED BY <1>3, <1>4, <1>5 DEF OrderInv

LEMMA SwapInOrder ==
  ASSUME TypeOK, Phases, OrderInv, Swap PROVE OrderInv'
<1>1. /\ queueDeal = <<>> /\ queueDeal' = queueAdd /\ queueAdd' = <<>>
      /\ UNCHANGED <<unposted, received>>
  BY DEF Swap, Deal, Phases
<1>2. PostedOnce' /\ HeardInOneOrder'
  BY <1>1 DEF OrderInv, PostedOnce, Distinct, HeardInOneOrder
<1>3. FreshAhead'
  BY <1>1 DEF OrderInv, FreshAhead, Fresh
<1>4. HeadHad'
  <2> SUFFICES ASSUME queueAdd # <<>>, NEW s \in Subs, NEW i \in DOMAIN received[s],
                      received[s][i] = queueAdd[1]
               PROVE  FALSE
    BY <1>1 DEF HeadHad
  <2>1. 1 \in 1..Len(queueAdd)
    BY LenProperties, EmptySeq DEF TypeOK
  <2> QED BY <2>1 DEF OrderInv, FreshAhead, Fresh
<1> QED BY <1>2, <1>3, <1>4 DEF OrderInv

LEMMA PopInOrder ==
  ASSUME TypeOK, OrderInv, PopEvent PROVE OrderInv'
<1> DEFINE t == Tail(queueDeal)
<1>1. /\ queueDeal # <<>> /\ queueDeal' = t
      /\ UNCHANGED <<queueAdd, unposted, received>>
  BY DEF PopEvent, Deal
<1>2. \A i \in 1..Len(t) : /\ i + 1 \in 1..Len(queueDeal) /\ i + 1 # 1 /\ i \in Nat
                           /\ t[i] = queueDeal[i + 1]
  <2>1. queueDeal \in Seq(Events) /\ Len(queueDeal) \in Nat
    BY LenProperties DEF TypeOK
  <2>2. Len(t) = Len(queueDeal) - 1 /\ \A i \in 1..Len(t) : t[i] = queueDeal[i + 1]
    BY <1>1, <2>1, HeadTailProperties
  <2> HIDE DEF t
  <2> QED BY <2>1, <2>2
<1>3. t \in Seq(Events)
  BY <1>1, HeadTailProperties DEF TypeOK
<1> HIDE DEF t
<1>4. PostedOnce'
  <2>1. Distinct(t)
    <3> SUFFICES ASSUME NEW i \in 1..Len(t), NEW j \in 1..Len(t), t[i] = t[j]
                 PROVE  i = j
      BY DEF Distinct
    <3>1. queueDeal[i + 1] = queueDeal[j + 1]
      BY <1>2
    <3>2. i + 1 = j + 1
      BY <1>2, <3>1 DEF OrderInv, PostedOnce, Distinct
    <3> QED BY <1>2, <3>2
  <2>2. \A i \in 1..Len(t) : t[i] \notin unposted
    BY <1>2 DEF OrderInv, PostedOnce
  <2>3. \A i \in 1..Len(t), j \in 1..Len(queueAdd) : t[i] # queueAdd[j]
    BY <1>2 DEF OrderInv, PostedOnce
  <2>4. Distinct(queueAdd) /\ \A j \in 1..Len(queueAdd) : queueAdd[j] \notin unposted
    BY DEF OrderInv, PostedOnce
  <2> QED BY <1>1, <2>1, <2>2, <2>3, <2>4 DEF PostedOnce
<1>5. \A i \in 1..Len(t) : Fresh(t[i])
  BY <1>2 DEF OrderInv, FreshAhead
<1>6. \A x : Fresh(x) => Fresh(x)'
  BY <1>1 DEF Fresh
<1>7. FreshAhead'
  BY <1>1, <1>5, <1>6 DEF OrderInv, FreshAhead
<1>8. HeadHad'
  <2> SUFFICES ASSUME t # <<>>, NEW s \in Subs, NEW i \in DOMAIN received[s],
                      received[s][i] = t[1]
               PROVE  FALSE
    BY <1>1 DEF HeadHad
  <2>1. 1 \in 1..Len(t)
    BY <1>3, LenProperties, EmptySeq
  <2> QED BY <1>5, <2>1 DEF Fresh
<1>9. HeardInOneOrder'
  BY <1>1 DEF OrderInv, HeardInOneOrder
<1> QED BY <1>4, <1>7, <1>8, <1>9 DEF OrderInv

\* The event that is dealt with is heard after all that were heard before, and by a
\* callback that has not heard it: its place on the list is not before the iterator.
LEMMA CallInOrder ==
  ASSUME TypeOK, ListsDistinct, OrderInv, CallNext PROVE OrderInv'
<1> DEFINE e == queueDeal[1]
           s == CurrentList[iter]
           n == Len(received[s]) + 1
<1>1. /\ queueDeal # <<>> /\ dealer = "deal" /\ dealer' = "call"
      /\ UNCHANGED <<queueDeal, queueAdd, unposted, funcs, iter>>
      /\ received' = [received EXCEPT ![s] = Append(@, e)]
  BY DEF CallNext, Deal, Hears
<1>2. /\ CurrentList \in Seq(Subs) /\ e \in Events /\ Distinct(CurrentList)
      /\ Len(CurrentList) \in Nat
  <2>1. e = Head(queueDeal)
    BY <1>1
  <2>2. eventName[Head(queueDeal)] \in Topics
    BY <1>1, CurrentListType
  <2> QED BY <1>1, <2>1, <2>2, CurrentListType, LenProperties
          DEF ListsDistinct, CurrentList
<1>3. iter \in 1..Len(CurrentList) /\ s \in Subs
  BY <1>1, <1>2 DEF CallNext, TypeOK
<1>4. CurrentList' = CurrentList
  BY <1>1 DEF CurrentList
<1>5. \A i \in DOMAIN received[s] : received[s][i] # e
  <2> SUFFICES ASSUME NEW i \in DOMAIN received[s], received[s][i] = e PROVE FALSE
    OBVIOUS
  <2>1. PICK m \in 1..Len(CurrentList) : CurrentList[m] = s /\ m < iter
    BY <1>1, <1>3 DEF OrderInv, HeadHad, Had
  <2>2. m = iter
    BY <1>2, <1>3, <2>1 DEF Distinct
  <2> QED BY <1>3, <2>1, <2>2
<1>6. \A u \in Subs : received[u] \in Seq(Events) /\ Len(received[u]) \in Nat
        /\ DOMAIN received[u] = 1..Len(received[u])
  BY LenProperties DEF TypeOK
<1>7. /\ Len(received'[s]) = n /\ DOMAIN received'[s] = 1..n /\ received'[s][n] = e
      /\ \A i \in DOMAIN received[s] : received'[s][i] = received[s][i]
      /\ \A u \in Subs \ {s} : received'[u] = received[u]
  <2> DEFINE q == received[s]
             a == Append(q, e)
  <2>1. /\ a \in Seq(Events) /\ Len(a) = Len(q) + 1 /\ a[Len(q) + 1] = e
        /\ \A i \in 1..Len(q) : a[i] = q[i]
    BY <1>2, <1>3, <1>6, AppendProperties
  <2>2. DOMAIN a = 1..Len(a) /\ DOMAIN q = 1..Len(q)
    BY <1>3, <1>6, <2>1, LenProperties
  <2> HIDE DEF a
  <2>3. received'[s] = a /\ \A u \in Subs \ {s} : received'[u] = received[u]
    BY <1>1, <1>3 DEF a, TypeOK
  <2> QED BY <2>1, <2>2, <2>3
<1> HIDE DEF e, s
<1>8. \A u \in Subs : \A i \in DOMAIN received'[u] :
        \/ u = s /\ i = n /\ received'[u][i] = e
        \/ i \in DOMAIN received[u] /\ received'[u][i] = received[u][i]
  <2> SUFFICES ASSUME NEW u \in Subs, NEW i \in DOMAIN received'[u]
               PROVE  \/ u = s /\ i = n /\ received'[u][i] = e
                      \/ i \in DOMAIN received[u] /\ received'[u][i] = received[u][i]
    OBVIOUS
  <2>1. CASE u = s
    <3>1. i = n \/ i \in 1..Len(received[s])
      BY <1>3, <1>6, <1>7, <2>1
    <3> QED BY <1>3, <1>6, <1>7, <2>1, <3>1
  <2>2. CASE u # s
    BY <1>7, <2>2
  <2> QED BY <2>1, <2>2
<1>9. \A u \in Subs : \A i \in DOMAIN received'[u] :
        /\ i \in 1..Len(received'[u]) /\ Len(received'[u]) \in Nat
        /\ received'[u][i] = e => i = Len(received'[u])
  <2> SUFFICES ASSUME NEW u \in Subs, NEW i \in DOMAIN received'[u]
               PROVE  /\ i \in 1..Len(received'[u]) /\ Len(received'[u]) \in Nat
                      /\ received'[u][i] = e => i = Len(received'[u])
    OBVIOUS
  <2>1. CASE u = s
    BY <1>3, <1>5, <1>6, <1>7, <1>8, <2>1
  <2>2. CASE u # s
    <3>1. received'[u] = received[u] /\ DOMAIN received[u] = 1..Len(received[u])
      BY <1>6, <1>7, <2>2
    <3> QED BY <1>1, <1>6, <2>2, <3>1 DEF OrderInv, HeadHad, e
  <2> QED BY <2>1, <2>2
<1>10. \A x : x # e /\ Fresh(x) => Fresh(x)'
  BY <1>8 DEF Fresh
<1>11. PostedOnce'
  BY <1>1 DEF OrderInv, PostedOnce, Distinct
<1>12. FreshAhead'
  <2>1. 1 \in 1..Len(queueDeal)
    BY <1>1, LenProperties, EmptySeq DEF TypeOK
  <2>2. /\ e \notin unposted /\ \A j \in 1..Len(queueAdd) : queueAdd[j] # e
        /\ \A i \in 1..Len(queueDeal) : i # 1 => queueDeal[i] # e
    BY <2>1 DEF OrderInv, PostedOnce, Distinct, e
  <2>3. /\ \A x \in unposted : Fresh(x)'
        /\ \A j \in 1..Len(queueAdd) : Fresh(queueAdd[j])'
        /\ \A i \in 1..Len(queueDeal) : i # 1 => Fresh(queueDeal[i])'
    BY <1>1, <1>10, <2>2 DEF OrderInv, FreshAhead
  <2> QED BY <1>1, <2>3 DEF FreshAhead, Fresh
<1>13. HeadHad'
  <2> SUFFICES ASSUME NEW u \in Subs, NEW i \in DOMAIN received'[u],
                      received'[u][i] = e
               PROVE  i = Len(received'[u]) /\ Had(u)'
    BY <1>1 DEF HeadHad, e
  <2>1. CASE u = s
    <3>1. iter' \in 1..Len(CurrentList') /\ CurrentList'[iter'] = u /\ dealer' = "call"
      BY <1>1, <1>3, <1>4, <2>1 DEF s
    <3> QED BY <1>9, <3>1 DEF Had
  <2>2. CASE u # s
    <3>1. Had(u)
      BY <1>1, <1>8, <2>2 DEF OrderInv, HeadHad, e
    <3>2. PICK m \in 1..Len(CurrentList) : CurrentList[m] = u /\ m < iter
      BY <1>1, <3>1 DEF Had
    <3>3. m \in 1..Len(CurrentList') /\ CurrentList'[m] = u /\ m < iter'
      BY <1>1, <1>4, <3>2
    <3> QED BY <1>9, <3>3 DEF Had
  <2> QED BY <1>9, <2>1, <2>2
<1>14. HeardInOneOrder'
  <2> SUFFICES ASSUME NEW a \in Subs, NEW b \in Subs,
                      NEW i \in DOMAIN received'[a], NEW j \in DOMAIN received'[a],
                      NEW k \in DOMAIN received'[b], NEW l \in DOMAIN received'[b],
                      received'[a][i] = received'[b][k],
                      received'[a][j] = received'[b][l]
               PROVE  i < j <=> k < l
    BY DEF HeardInOneOrder
  <2>1. /\ i \in 1..Len(received'[a]) /\ j \in 1..Len(received'[a])
        /\ k \in 1..Len(received'[b]) /\ l \in 1..Len(received'[b])
        /\ Len(received'[a]) \in Nat /\ Len(received'[b]) \in Nat
    BY <1>9
  <2>2. CASE received'[a][i] = e
    <3>1. i = Len(received'[a]) /\ k = Len(received'[b])
      BY <1>9, <2>2
    <3> QED BY <2>1, <3>1
  <2>3. CASE received'[a][i] # e /\ received'[a][j] = e
    <3>1. j = Len(received'[a]) /\ l = Len(received'[b]) /\ i # j /\ k # l
      BY <1>9, <2>3
    <3> QED BY <2>1, <3>1
  <2>4. CASE received'[a][i] # e /\ received'[a][j] # e
    <3>1. /\ i \in DOMAIN received[a] /\ received'[a][i] = received[a][i]
          /\ j \in DOMAIN received[a] /\ received'[a][j] = received[a][j]
          /\ k \in DOMAIN received[b] /\ received'[b][k] = received[b][k]
          /\ l \in DOMAIN received[b] /\ received'[b][l] = received[b][l]
      BY <1>8, <2>4
    <3>2. received[a][i] = received[b][k] /\ received[a][j] = received[b][l]
      BY <3>1
    <3> QED BY <3>1, <3>2 DEF OrderInv, HeardInOneOrder
  <2> QED BY <2>2, <2>3, <2>4
<1> QED BY <1>11, <1>12, <1>13, <1>14 DEF OrderInv

\* The callbacks before the iterator stay where they are when the one at it is erased.
LEMMA EraseInOrder ==
  ASSUME TypeOK, ListsDistinct, OrderInv, EraseExpired PROVE OrderInv'
<1> DEFINE p == eventName[Head(queueDeal)]
<1>1. /\ p \in Topics /\ funcs[p] \in Seq(Subs) /\ iter \in 1..Len(funcs[p])
      /\ Distinct(funcs[p]) /\ Len(funcs[p]) \in Nat
  BY CurrentListType, LenProperties
     DEF EraseExpired, TypeOK, CurrentList, ListsDistinct
<1>2. /\ funcs' = [funcs EXCEPT ![p] = RemoveAt(funcs[p], iter)]
      /\ UNCHANGED <<queueDeal, queueAdd, unposted, received, iter>>
      /\ dealer = "deal" /\ dealer' = "deal"
  BY DEF EraseExpired, Deal
<1>3. /\ \A j \in 1..(iter - 1) : RemoveAt(funcs[p], iter)[j] = funcs[p][j]
      /\ Len(RemoveAt(funcs[p], iter)) = Len(funcs[p]) - 1
  BY <1>1, RemoveAtElements, RemoveAtProperties
<1>4. CurrentList = funcs[p] /\ CurrentList' = RemoveAt(funcs[p], iter)
  BY <1>1, <1>2 DEF CurrentList, TypeOK
<1> HIDE DEF p
<1>5. ASSUME NEW s \in Subs, Had(s) PROVE Had(s)'
  <2>1. PICK m \in 1..Len(funcs[p]) : funcs[p][m] = s /\ m < iter
    BY <1>2, <1>4, <1>5 DEF Had
  <2>2. m \in 1..(iter - 1) /\ m \in 1..(Len(funcs[p]) - 1)
    BY <1>1, <2>1
  <2> QED BY <1>2, <1>3, <1>4, <2>1, <2>2 DEF Had
<1> QED BY <1>2, <1>5, SameOrder

LEMMA OrderStep ==
  TypeOK /\ Places /\ Phases /\ ListsDistinct /\ OrderInv /\ [Next]_vars => OrderInv'
<1> SUFFICES ASSUME TypeOK, Places, Phases, ListsDistinct, OrderInv, [Next]_vars
             PROVE  OrderInv'
  OBVIOUS
<1>1. ASSUME UNCHANGED <<queueDeal, queueAdd, unposted, received>>,
             queueDeal = <<>> \/ UNCHANGED <<funcs, iter, dealer>>
      PROVE  OrderInv'
  <2>1. queueDeal # <<>> => \A s \in Subs : Had(s) => Had(s)'
    BY <1>1 DEF Had, CurrentList
  <2> QED BY <1>1, <2>1, SameOrder
<1>2. CASE UNCHANGED vars \/ stop \/ \E s \in Subs : Release(s)
  BY <1>1, <1>2 DEF vars, dealVars, stop, Release
<1>3. CASE \E p \in Topics, s \in Subs : addFunc(p, s)
  <2>1. UNCHANGED <<queueDeal, queueAdd, unposted, received>> /\ ~FuncLocked
    BY <1>3 DEF addFunc, dealVars
  <2> QED BY <1>1, <2>1 DEF FuncLocked, Phases
<1>4. CASE start \/ Join \/ clearFuncs
  BY <1>1, <1>4 DEF start, Join, clearFuncs, dealVars, Places, Phases
<1>5. CASE clearData
  <2>1. queueAdd' = <<>> /\ queueDeal' = <<>> /\ UNCHANGED <<unposted, received>>
    BY <1>5 DEF clearData
  <2> QED BY <2>1 DEF OrderInv, PostedOnce, FreshAhead, HeadHad, HeardInOneOrder, Fresh,
             Distinct
<1>6. CASE Dealer
  <2>1. CASE TestRun \/ TestAdded \/ Wake
    BY <1>1, <2>1 DEF TestRun, TestAdded, Wake, Deal, Phases
  <2>2. CASE DealtAll
    BY <1>1, <2>2 DEF DealtAll, Deal
  <2>3. CASE CallReturns
    <3>1. /\ UNCHANGED <<queueDeal, queueAdd, unposted, received, funcs>>
          /\ iter' = iter + 1 /\ iter \in Nat
      BY <2>3 DEF CallReturns, Deal, TypeOK
    <3>2. ASSUME NEW s \in Subs, Had(s) PROVE Had(s)'
      <4>1. PICK m \in 1..Len(CurrentList) : CurrentList[m] = s /\ m <= iter
        BY <3>1, <3>2 DEF Had
      <4>2. CurrentList' = CurrentList /\ m < iter'
        BY <3>1 , <4>1 DEF CurrentList
      <4> QED BY <4>1, <4>2 DEF Had
    <3> QED BY <3>1, <3>2, SameOrder
  <2> QED BY <1>6, <2>1, <2>2, <2>3, SwapInOrder, PopInOrder, CallInOrder, EraseInOrder
          DEF Dealer
<1>7. ASSUME NEW e \in Events, addEvenVartData(e) PROVE OrderInv'
  BY <1>7, PostInOrder
<1> QED BY <1>2, <1>3, <1>4, <1>5, <1>6, <1>7 DEF Next

LEMMA OrderCorrect == Spec => []OrderInv
<1>1. Init => OrderInv
  <2> SUFFICES ASSUME Init PROVE OrderInv
    OBVIOUS
  <2>1. /\ queueAdd = <<>> /\ queueDeal = <<>> /\ unposted = Events
        /\ \A s \in Subs : received[s] = <<>>
    BY DEF Init
  <2> QED BY <2>1 DEF OrderInv, PostedOnce, FreshAhead, HeadHad, HeardInOneOrder, Fresh,
             Distinct
<1> QED BY <1>1, OrderStep, TypeCorrect, PlacesCorrect, DistinctCorrect, PTL DEF Spec

\* A callback is called with an event once at most, and any two callbacks hear the
\* events that both of them hear in the same order, over any number of restarts: an
\* event is in one place at a time, and the iterator does not come back.
THEOREM HeardInOneOrderCorrect == Spec => []HeardInOneOrder
<1>1. OrderInv => HeardInOneOrder
  BY DEF OrderInv
<1> QED BY <1>1, OrderCorrect, PTL

----------------------------------------------------------------------------
(* What stop leaves behind *)

\* An event that waited when stop was called is not posted again; it is in no queue
\* once they are cleared, and no subscription of then is left once stop has returned.
OldGone ==
  /\ \A e \in oldEvents : e \notin unposted
  /\ owner \in {"clearFuncs", "idle"} =>
       \A e \in oldEvents : e \notin Range(queueDeal) \cup Range(queueAdd)
  /\ owner = "idle" => \A ps \in oldFuncs : ps[2] \notin Range(funcs[ps[1]])

LEMMA OldGoneStep ==
  TypeOK /\ ListsDistinct /\ OrderInv /\ OldGone /\ [Next]_vars => OldGone'
<1> SUFFICES ASSUME TypeOK, ListsDistinct, OrderInv, OldGone, [Next]_vars
             PROVE  OldGone'
  OBVIOUS
<1>1. ASSUME NEW p \in Topics, NEW s \in Subs, addFunc(p, s)
      PROVE  OldGone'
  <2>1. /\ funcs' = [funcs EXCEPT ![p] = Append(funcs[p], s)] /\ funcs[p] \in Seq(Subs)
        /\ oldFuncs' = oldFuncs \ {<<p, s>>} /\ oldFuncs \subseteq Topics \X Subs
        /\ UNCHANGED <<queueAdd, queueDeal, owner, unposted, oldEvents>>
    BY <1>1 DEF addFunc, dealVars, TypeOK
  <2>2. Range(Append(funcs[p], s)) = Range(funcs[p]) \cup {s}
    BY <2>1, AppendElements
  <2>3. \A o \in Topics : funcs'[o] = IF o = p THEN Append(funcs[p], s) ELSE funcs[o]
    BY <2>1 DEF TypeOK
  <2>4. ASSUME owner = "idle", NEW ps \in oldFuncs'
        PROVE  ps[2] \notin Range(funcs'[ps[1]])
    <3>1. /\ ps \in oldFuncs /\ ps # <<p, s>> /\ ps = <<ps[1], ps[2]>> /\ ps[1] \in Topics
          /\ ps[2] \notin Range(funcs[ps[1]])
      BY <2>1, <2>4 DEF OldGone
    <3>2. CASE ps[1] = p
      BY <2>2, <2>3, <3>1, <3>2
    <3>3. CASE ps[1] # p
      BY <2>3, <3>1, <3>3
    <3> QED BY <3>2, <3>3
  <2> QED BY <2>1, <2>4 DEF OldGone
<1>2. ASSUME NEW e \in Events, addEvenVartData(e)
      PROVE  OldGone'
  <2>1. /\ queueAdd' = Append(queueAdd, e) /\ unposted' = unposted \ {e} /\ e \in unposted
        /\ queueAdd \in Seq(Events)
        /\ UNCHANGED <<queueDeal, funcs, owner, oldEvents, oldFuncs>>
    BY <1>2 DEF addEvenVartData, dealVars, old, TypeOK
  <2>2. Range(queueAdd') = Range(queueAdd) \cup {e}
    BY <2>1, AppendElements
  <2> QED BY <2>1, <2>2 DEF OldGone
<1>3. CASE Swap
  BY <1>3 DEF Swap, Deal, old, OldGone
<1>4. CASE PopEvent
  <2>1. /\ queueDeal # <<>> /\ queueDeal' = Tail(queueDeal) /\ queueDeal \in Seq(Events)
        /\ UNCHANGED <<queueAdd, unposted, funcs, owner, oldEvents, oldFuncs>>
    BY <1>4 DEF PopEvent, Deal, old, TypeOK
  <2>2. Range(Tail(queueDeal)) \subseteq Range(queueDeal)
    <3>1. /\ Tail(queueDeal) \in Seq(Events) /\ Len(Tail(queueDeal)) = Len(queueDeal) - 1
          /\ \A i \in 1..Len(Tail(queueDeal)) : Tail(queueDeal)[i] = queueDeal[i + 1]
      BY <2>1, HeadTailProperties
    <3>2. /\ DOMAIN Tail(queueDeal) = 1..(Len(queueDeal) - 1)
          /\ DOMAIN queueDeal = 1..Len(queueDeal) /\ Len(queueDeal) \in Nat
      BY <2>1, <3>1, LenProperties
    <3>3. \A i \in DOMAIN Tail(queueDeal) : i + 1 \in DOMAIN queueDeal
      BY <3>2
    <3> QED BY <3>1, <3>2, <3>3 DEF Range
  <2> QED BY <2>1, <2>2 DEF OldGone
<1>5. CASE EraseExpired
  <2> DEFINE p == eventName[Head(queueDeal)]
             r == RemoveAt(funcs[p], iter)
  <2>1. /\ p \in Topics /\ funcs[p] \in Seq(Subs) /\ iter \in 1..Len(funcs[p])
        /\ Distinct(funcs[p])
    BY <1>5, CurrentListType DEF EraseExpired, TypeOK, CurrentList, ListsDistinct
  <2>2. Range(r) \subseteq Range(funcs[p])
    BY <2>1, RemoveAtElements
  <2>3. /\ funcs' = [funcs EXCEPT ![p] = r]
        /\ UNCHANGED <<queueAdd, queueDeal, unposted, owner, oldEvents, oldFuncs>>
    BY <1>5 DEF EraseExpired, Deal, old
  <2> HIDE DEF p, r
  <2>4. \A o \in Topics : Range(funcs'[o]) \subseteq Range(funcs[o])
    <3> SUFFICES ASSUME NEW o \in Topics
                 PROVE  Range(funcs'[o]) \subseteq Range(funcs[o])
      OBVIOUS
    <3>1. funcs'[o] = IF o = p THEN r ELSE funcs[o]
      BY <2>3 DEF TypeOK
    <3> QED BY <2>2, <3>1
  <2>5. \A ps \in oldFuncs : ps[1] \in Topics
    BY DEF TypeOK
  <2> QED BY <2>3, <2>4, <2>5 DEF OldGone
<1>6. CASE stop
  <2>1. /\ oldEvents' = Range(queueDeal) \cup Range(queueAdd)
        /\ owner' \in {"join", "clear"} /\ UNCHANGED unposted
    BY <1>6 DEF stop
  <2>2. /\ DOMAIN queueDeal = 1..Len(queueDeal) /\ DOMAIN queueAdd = 1..Len(queueAdd)
    BY LenProperties DEF TypeOK
  <2>3. \A e \in oldEvents' : e \notin unposted
    BY <2>1, <2>2 DEF OrderInv, PostedOnce, Range
  <2> QED BY <2>1, <2>3 DEF OldGone
<1>7. CASE clearData
  BY <1>7 DEF clearData, old, OldGone, Range
<1>8. CASE clearFuncs
  <2>1. /\ funcs' = [p \in Topics |-> <<>>] /\ owner = "clearFuncs"
        /\ UNCHANGED <<queueAdd, queueDeal, unposted, oldEvents, oldFuncs>>
    BY <1>8 DEF clearFuncs, dealVars, old
  <2>2. \A ps \in oldFuncs : ps[1] \in Topics
    BY DEF TypeOK
  <2>3. \A ps \in oldFuncs : Range(funcs'[ps[1]]) = {}
    BY <2>1, <2>2 DEF Range
  <2> QED BY <2>1, <2>3 DEF OldGone
<1>9. ASSUME UNCHANGED <<queueAdd, queueDeal, funcs, unposted, oldEvents, oldFuncs>>,
             owner' = owner \/ owner' \in {"join", "clear"}
      PROVE  OldGone'
  BY <1>9 DEF OldGone
<1>10. CASE TestRun \/ TestAdded \/ CallNext \/ CallReturns \/ DealtAll \/ Wake
  BY <1>9, <1>10 DEF TestRun, TestAdded, CallNext, CallReturns, DealtAll, Wake, Deal, old
<1>11. CASE start \/ Join \/ UNCHANGED vars
  BY <1>9, <1>11 DEF start, Join, dealVars, old, vars
<1>12. ASSUME NEW s \in Subs, Release(s)
       PROVE  OldGone'
  BY <1>9, <1>12 DEF Release, dealVars, old
<1> QED BY <1>1, <1>2, <1>3, <1>4, <1>5, <1>6, <1>7, <1>8, <1>10, <1>11, <1>12
        DEF Next, Dealer

\* After stop no callback runs or will run, and no event and no subscription of
\* before it is left: not after a restart either.
THEOREM QuietWhenStoppedCorrect == Spec => []QuietWhenStopped
<1>1. Init => OldGone
  BY DEF Init, OldGone
<1>2. Places /\ Phases /\ OldGone => QuietWhenStopped
  BY DEF Places, Phases, OldGone, QuietWhenStopped
<1> QED BY <1>1, <1>2, OldGoneStep, OrderCorrect, TypeCorrect, PlacesCorrect,
        DistinctCorrect, PTL DEF Spec
=============================================================================
