--------------------------- MODULE ThreadPoolProofs ---------------------------
(***************************************************************************)
(* Theorems about ThreadPool, for any numbers of threads, tasks and any    *)
(* capacity.                                                               *)
(***************************************************************************)
EXTENDS ThreadPool, SequenceTheorems, FiniteSetTheorems, TLAPS

USE DEF MODE_FIXED, MODE_CACHED

CallPlaces == {"new", "waiting", "made", "counted", "accepted", "rejected"}

LEMMA Remainder ==
  ASSUME NEW m \in Nat
  PROVE  /\ \A n \in Int : n % (m + 1) \in 0..m
         /\ \A n \in 0..m : n % (m + 1) = n
<1>1. \A n \in Int : n % (m + 1) \in 0..m
  OBVIOUS
<1>2. \A n \in 0..m : n % (m + 1) = n
  OBVIOUS
<1> QED BY <1>1, <1>2

\* What wrapping does: it commutes with counting up and down.
LEMMA UintFacts ==
  /\ USHRT_MAX \in Nat
  /\ \A n \in Int : Uint16(n) \in 0..USHRT_MAX
  /\ \A n \in 0..USHRT_MAX : Uint16(n) = n
  /\ \A n \in Int : Uint16(Uint16(n) + 1) = Uint16(n + 1)
  /\ \A n \in Int : Uint16(Uint16(n) - 1) = Uint16(n - 1)
<1>1. /\ USHRT_MAX \in Nat
      /\ \A n \in Int : Uint16(n) \in 0..USHRT_MAX
      /\ \A n \in 0..USHRT_MAX : Uint16(n) = n
  <2>1. USHRT_MAX \in Nat
    BY DEF USHRT_MAX
  <2> QED BY <2>1, Remainder DEF Uint16
<1>2. \A n \in Int : Uint16(Uint16(n) + 1) = Uint16(n + 1)
  BY SMTT(30) DEF Uint16, USHRT_MAX
<1>3. \A n \in Int : Uint16(Uint16(n) - 1) = Uint16(n - 1)
  BY SMTT(30) DEF Uint16, USHRT_MAX
<1> QED BY <1>1, <1>2, <1>3

LEMMA TypeInit == Init => TypeOK
<1> SUFFICES ASSUME Init PROVE TypeOK
  OBVIOUS
<1> USE DEF Init
<1>1. pc \in [Workers -> Places]
  BY DEF Places
<1>2. queue \in Seq(Tasks) /\ accepted \in Seq(Tasks) /\ started \in Seq(Tasks)
  BY EmptySeq
<1>3. cur \in 0..USHRT_MAX /\ idle \in 0..USHRT_MAX
  BY PoolAssumption, UintFacts
<1>4. /\ task \in [Workers -> Tasks \cup {NoTask}]
      /\ call \in [Tasks -> CallPlaces]
  BY DEF CallPlaces
<1> QED BY <1>1, <1>2, <1>3, <1>4 DEF TypeOK, CallPlaces

LEMMA TypeStep == TypeOK /\ [Next]_vars => TypeOK'
<1> SUFFICES ASSUME TypeOK, [Next]_vars
             PROVE  TypeOK'
  OBVIOUS
<1> USE DEF TypeOK, Places, CallPlaces
<1>1. ASSUME NEW t \in Tasks, SubmitAccept(t)
      PROVE  TypeOK'
  <2>1. queue' \in Seq(Tasks) /\ accepted' \in Seq(Tasks) /\ UNCHANGED started
    BY <1>1 DEF SubmitAccept, Accept, QueueTask
  <2>2. UNCHANGED <<poolMode, task, cur, idle>>
    BY <1>1 DEF SubmitAccept, Accept
  <2>3. \/ \E w \in Workers : CreateThread(t, w)
        \/ /\ call' = [call EXCEPT ![t] = "accepted"] /\ NotifyAll
           /\ UNCHANGED <<pc, threads>>
    BY <1>1 DEF SubmitAccept, Accept
  <2>4. /\ threads' \subseteq Workers /\ pc' \in [Workers -> Places]
        /\ call' \in [Tasks -> CallPlaces]
        /\ stopPc' = stopPc /\ stopNotified' \in BOOLEAN
    BY <2>3 DEF CreateThread, stopVars, NotifyAll
  <2> QED BY <2>1, <2>2, <2>4
<1>2. ASSUME NEW t \in Tasks,
             SubmitWait(t) \/ SubmitThrow(t) \/ RaiseCur(t) \/ RaiseIdle(t)
      PROVE  TypeOK'
  <2>1. Uint16(cur + 1) \in 0..USHRT_MAX /\ Uint16(idle + 1) \in 0..USHRT_MAX
    <3>1. cur + 1 \in Int /\ idle + 1 \in Int
      BY UintFacts
    <3> QED BY <3>1, UintFacts
  <2>2. CASE SubmitWait(t) \/ SubmitThrow(t)
    BY <2>2 DEF SubmitWait, SubmitThrow, Full, queueVars, stopVars
  <2>3. CASE RaiseCur(t) \/ RaiseIdle(t)
    BY <2>1, <2>3 DEF RaiseCur, RaiseIdle, NotifyAll, queueVars, stopVars
  <2> QED BY <1>2, <2>2, <2>3
<1>3. ASSUME NEW w \in Workers, Worker(w)
      PROVE  TypeOK'
  <2> USE DEF JustMove, LockAndMove, Move, submitVars, queueVars, stopVars
  <2>0. /\ Uint16(idle - 1) \in 0..USHRT_MAX /\ Uint16(idle + 1) \in 0..USHRT_MAX
        /\ Uint16(cur - 1) \in 0..USHRT_MAX
    <3>1. idle - 1 \in Int /\ idle + 1 \in Int /\ cur - 1 \in Int
      BY UintFacts
    <3> QED BY <3>1, UintFacts
  <2>1. CASE Test(w) \/ Wait(w) \/ Surplus(w) \/ WaitAgain(w) \/ Wake(w)
    <3>1. /\ pc' \in [Workers -> Places]
          /\ UNCHANGED <<poolMode, queue, threads, cur, idle, task, call,
                         stopPc, stopNotified, accepted, started>>
      BY <2>1 DEF Test, Wait, Surplus, WaitAgain, Wake
    <3> QED BY <3>1
  <2>2. CASE Take(w)
    <3>1. Head(queue) \in Tasks /\ Tail(queue) \in Seq(Tasks)
      BY <2>2, HeadTailProperties DEF Take
    <3> QED BY <2>0, <2>2, <3>1 DEF Take, TakeFront
  <2>3. CASE Finish(w)
    BY <2>3 DEF Finish
  <2>4. CASE CountIdle(w)
    BY <2>0, <2>4 DEF CountIdle
  <2>5. CASE UncountCur(w)
    BY <2>0, <2>5 DEF UncountCur
  <2>6. CASE UncountIdle(w)
    BY <2>0, <2>6 DEF UncountIdle
  <2>7. CASE EraseThread(w)
    BY <2>7 DEF EraseThread
  <2>8. CASE Leave(w)
    BY <2>8 DEF Leave, NotifyAll
  <2> QED BY <1>3, <2>1, <2>2, <2>3, <2>4, <2>5, <2>6, <2>7, <2>8 DEF Worker
<1>4. CASE StopStore
  BY <1>4 DEF StopStore, submitVars, queueVars
<1>5. CASE StopFirstLook \/ StopLookAgain
  BY <1>5 DEF StopFirstLook, StopLookAgain, StopLook, submitVars, queueVars
<1>6. CASE UNCHANGED vars
  BY <1>6 DEF vars
<1> QED BY <1>1, <1>2, <1>3, <1>4, <1>5, <1>6 DEF Next

\* The variables keep their types: the counters are numbers of 16 bits.
THEOREM TypeCorrect == Spec => []TypeOK
<1> QED BY TypeInit, TypeStep, PTL DEF Spec

----------------------------------------------------------------------------
(* Threads, tasks in hand and the destructor *)

\* A thread is in m_mapThreads from its making until it erases itself, it holds
\* a task exactly while it is in task(), and stop returns to an empty map.
ThreadsInv ==
  /\ \A w \in Workers : w \in threads <=> pc[w] \notin {"unborn", "notify", "gone"}
  /\ \A w \in Workers : task[w] # NoTask <=> pc[w] = "run"
  /\ stopPc = "returned" => threads = {}

LEMMA ThreadsInit == Init => ThreadsInv
  BY DEF Init, ThreadsInv

LEMMA ThreadsStep == TypeOK /\ ThreadsInv /\ [Next]_vars => ThreadsInv'
<1> SUFFICES ASSUME TypeOK, ThreadsInv, [Next]_vars
             PROVE  ThreadsInv'
  OBVIOUS
<1> USE DEF ThreadsInv
<1>0. /\ threads \subseteq Workers /\ pc \in [Workers -> Places]
      /\ task \in [Workers -> Tasks \cup {NoTask}] /\ queue \in Seq(Tasks)
  BY DEF TypeOK
<1>1. ASSUME NEW t \in Tasks, SubmitAccept(t)
      PROVE  ThreadsInv'
  <2>1. stopPc # "returned" /\ stopPc' = stopPc /\ task' = task
    BY <1>1 DEF SubmitAccept, Accept, CreateThread, stopVars, NotifyAll
  <2>2. CASE UNCHANGED <<pc, threads>>
    BY <2>1, <2>2
  <2>3. CASE \E w \in Workers : CreateThread(t, w)
    BY <1>0, <2>1, <2>3 DEF CreateThread
  <2> QED BY <1>1, <2>2, <2>3 DEF SubmitAccept, Accept
<1>2. ASSUME NEW t \in Tasks,
             SubmitWait(t) \/ SubmitThrow(t) \/ RaiseCur(t) \/ RaiseIdle(t)
      PROVE  ThreadsInv'
  BY <1>2 DEF SubmitWait, SubmitThrow, Full, RaiseCur, RaiseIdle, NotifyAll, stopVars
<1>3. ASSUME NEW w \in Workers, Worker(w)
      PROVE  ThreadsInv'
  <2> USE <1>0 DEF JustMove, LockAndMove, Move, stopVars
  <2>1. CASE Test(w)
    BY <2>1 DEF Test
  <2>2. CASE Wait(w)
    BY <2>2 DEF Wait
  <2>3. CASE Surplus(w)
    BY <2>3 DEF Surplus
  <2>4. CASE WaitAgain(w)
    BY <2>4 DEF WaitAgain
  <2>5. CASE Wake(w)
    BY <2>5 DEF Wake
  <2>6. CASE Take(w)
    <3>1. Head(queue) \in Tasks
      BY <2>6, HeadTailProperties DEF Take
    <3> QED BY <2>6, <3>1, PoolAssumption DEF Take, TakeFront
  <2>7. CASE Finish(w)
    BY <2>7 DEF Finish
  <2>8. CASE CountIdle(w)
    BY <2>8 DEF CountIdle
  <2>9. CASE UncountCur(w)
    BY <2>9 DEF UncountCur
  <2>10. CASE UncountIdle(w)
    BY <2>10 DEF UncountIdle
  <2>11. CASE EraseThread(w)
    BY <2>11 DEF EraseThread
  <2>12. CASE Leave(w)
    BY <2>12 DEF Leave, NotifyAll
  <2> QED BY <1>3, <2>1, <2>2, <2>3, <2>4, <2>5, <2>6, <2>7, <2>8, <2>9, <2>10,
             <2>11, <2>12 DEF Worker
<1>4. CASE StopStore
  BY <1>4 DEF StopStore
<1>5. CASE StopFirstLook \/ StopLookAgain
  BY <1>5 DEF StopFirstLook, StopLookAgain, StopLook
<1>6. CASE UNCHANGED vars
  BY <1>6 DEF vars
<1> QED BY <1>1, <1>2, <1>3, <1>4, <1>5, <1>6 DEF Next

LEMMA ThreadsCorrect == Spec => []ThreadsInv
<1> QED BY TypeCorrect, ThreadsInit, ThreadsStep, PTL DEF Spec

\* When the destructor's stop has returned no thread holds a task, waits for
\* one or will lock m_mutex: all that may be left of a thread is its notify_all.
THEOREM StopReturnsLastCorrect == Spec => []StopReturnsLast
<1>1. TypeOK /\ ThreadsInv => StopReturnsLast
  BY DEF TypeOK, ThreadsInv, StopReturnsLast
<1> QED BY <1>1, TypeCorrect, ThreadsCorrect, PTL

----------------------------------------------------------------------------
(* The order of tasks *)

LEMMA TakenStep == TypeOK /\ TakenInOrder /\ [Next]_vars => TakenInOrder'
<1> SUFFICES ASSUME TypeOK, TakenInOrder, [Next]_vars
             PROVE  TakenInOrder'
  OBVIOUS
<1> USE DEF TakenInOrder
<1>0. queue \in Seq(Tasks) /\ started \in Seq(Tasks)
  BY DEF TypeOK
<1>1. ASSUME NEW t \in Tasks, SubmitAccept(t)
      PROVE  TakenInOrder'
  <2>1. queue' = Append(queue, t) /\ accepted' = Append(accepted, t) /\ started' = started
    BY <1>1 DEF SubmitAccept, Accept, QueueTask
  <2>2. <<t>> \in Seq(Tasks)
    OBVIOUS
  <2>3. started \o (queue \o <<t>>) = (started \o queue) \o <<t>>
    BY <1>0, <2>2, ConcatAssociative
  <2>4. Append(queue, t) = queue \o <<t>>
    BY <1>0, AppendIsConcat
  <2>5. Append(started \o queue, t) = (started \o queue) \o <<t>>
    BY <1>0, ConcatProperties, AppendIsConcat
  <2> QED BY <2>1, <2>3, <2>4, <2>5
<1>2. ASSUME NEW w \in Workers, Take(w)
      PROVE  TakenInOrder'
  <2>1. /\ queue # <<>> /\ queue' = Tail(queue)
        /\ started' = Append(started, Head(queue)) /\ accepted' = accepted
    BY <1>2 DEF Take, TakeFront, LockAndMove, Move, submitVars
  <2>2. Head(queue) \in Tasks /\ Tail(queue) \in Seq(Tasks)
    BY <1>0, <2>1, HeadTailProperties
  <2>3. <<Head(queue)>> \in Seq(Tasks) /\ queue = <<Head(queue)>> \o Tail(queue)
    BY <1>0, <2>1, <2>2
  <2>4. Append(started, Head(queue)) = started \o <<Head(queue)>>
    BY <1>0, <2>2, AppendIsConcat
  <2>5. (started \o <<Head(queue)>>) \o Tail(queue)
          = started \o (<<Head(queue)>> \o Tail(queue))
    BY <1>0, <2>2, <2>3, ConcatAssociative
  <2> QED BY <2>1, <2>3, <2>4, <2>5
<1>3. ASSUME UNCHANGED <<queue, accepted, started>>
      PROVE  TakenInOrder'
  BY <1>3
<1>4. ASSUME NEW w \in Workers, Worker(w), ~Take(w)
      PROVE  UNCHANGED <<queue, accepted, started>>
  BY <1>4 DEF Worker, Test, Wait, Surplus, WaitAgain, Wake, Finish, CountIdle,
     UncountCur, UncountIdle, EraseThread, Leave, JustMove, LockAndMove, Move,
     submitVars, queueVars
<1>5. ASSUME NEW t \in Tasks,
             SubmitWait(t) \/ SubmitThrow(t) \/ RaiseCur(t) \/ RaiseIdle(t)
      PROVE  UNCHANGED <<queue, accepted, started>>
  BY <1>5 DEF SubmitWait, SubmitThrow, Full, RaiseCur, RaiseIdle, queueVars
<1>6. ASSUME StopStore \/ StopFirstLook \/ StopLookAgain \/ UNCHANGED vars
      PROVE  UNCHANGED <<queue, accepted, started>>
  BY <1>6 DEF StopStore, StopFirstLook, StopLookAgain, StopLook, submitVars,
     queueVars, vars
<1> QED BY <1>1, <1>2, <1>3, <1>4, <1>5, <1>6 DEF Next

\* What the threads took and what is still queued is what submit queued, in
\* submit's order: no task is lost, duplicated or overtaken.
THEOREM TakenInOrderCorrect == Spec => []TakenInOrder
<1>1. Init => TakenInOrder
  BY ConcatEmptySeq, EmptySeq DEF Init, TakenInOrder
<1> QED BY <1>1, TakenStep, TypeCorrect, PTL DEF Spec

----------------------------------------------------------------------------
(* The hands that hold a task *)

\* A call of submit that has queued its task.
Queued == {"made", "counted", "accepted"}

\* TaskHeldOnce is not inductive: it needs that what is queued or held was
\* accepted (so that the task of a new call is nowhere yet), and that the queue
\* holds no task twice.
HeldInv ==
  /\ \A i \in 1..Len(queue) : call[queue[i]] \in Queued
  /\ \A w \in Workers : task[w] # NoTask => call[task[w]] \in Queued
  /\ \A i, j \in 1..Len(queue) : queue[i] = queue[j] => i = j
  /\ TaskHeldOnce

LEMMA HeldStep == TypeOK /\ HeldInv /\ [Next]_vars => HeldInv'
<1> SUFFICES ASSUME TypeOK, HeldInv, [Next]_vars
             PROVE  HeldInv'
  OBVIOUS
<1> USE DEF HeldInv, TaskHeldOnce
<1>0. /\ queue \in Seq(Tasks) /\ task \in [Workers -> Tasks \cup {NoTask}]
      /\ call \in [Tasks -> CallPlaces]
      /\ Len(queue) \in Nat /\ \A i \in 1..Len(queue) : queue[i] \in Tasks
  BY ElementOfSeq, LenProperties DEF TypeOK, CallPlaces
<1>1. ASSUME NEW t \in Tasks, SubmitAccept(t)
      PROVE  HeldInv'
  <2>1. /\ queue' = Append(queue, t) /\ task' = task
        /\ call[t] \notin Queued
        /\ \E p \in Queued : call' = [call EXCEPT ![t] = p]
    BY <1>1 DEF SubmitAccept, Accept, CreateThread, QueueTask, Queued
  <2>2. /\ Len(queue') = Len(queue) + 1 /\ queue'[Len(queue) + 1] = t
        /\ \A i \in 1..Len(queue) : queue'[i] = queue[i]
    BY <1>0, <2>1, AppendProperties
  <2>3. \A i \in 1..Len(queue') : i = Len(queue) + 1 \/ i \in 1..Len(queue)
    BY <1>0, <2>2
  <2>4. \A i \in 1..Len(queue) : queue[i] # t
    BY <2>1
  <2>5. \A w \in Workers : task[w] # t
    BY <1>0, <2>1, PoolAssumption
  <2>6. \A i \in 1..Len(queue') : call'[queue'[i]] \in Queued
    BY <1>0, <2>1, <2>2, <2>3
  <2>7. \A w \in Workers : task'[w] # NoTask => call'[task'[w]] \in Queued
    BY <1>0, <2>1, PoolAssumption
  <2>8. \A i, j \in 1..Len(queue') : queue'[i] = queue'[j] => i = j
    BY <1>0, <2>2, <2>3, <2>4
  <2>9. TaskHeldOnce'
    BY <1>0, <2>1, <2>2, <2>3, <2>5
  <2> QED BY <2>6, <2>7, <2>8, <2>9
<1>2. ASSUME NEW t \in Tasks,
             SubmitWait(t) \/ SubmitThrow(t) \/ RaiseCur(t) \/ RaiseIdle(t)
      PROVE  HeldInv'
  <2>1. /\ UNCHANGED <<queue, task>>
        /\ \A u \in Tasks : call[u] \in Queued => call'[u] \in Queued
    BY <1>0, <1>2 DEF SubmitWait, SubmitThrow, Full, RaiseCur, RaiseIdle, Queued, queueVars
  <2> QED BY <1>0, <2>1, PoolAssumption
<1>3. ASSUME NEW w \in Workers, Take(w)
      PROVE  HeldInv'
  <2>1. /\ queue # <<>> /\ queue' = Tail(queue) /\ call' = call
        /\ task' = [task EXCEPT ![w] = queue[1]]
    BY <1>0, <1>3 DEF Take, TakeFront, LockAndMove, Move, submitVars
  <2>2. /\ 1 \in 1..Len(queue) /\ Len(queue') = Len(queue) - 1
        /\ \A i \in 1..Len(queue') :
             queue'[i] = queue[i + 1] /\ i + 1 \in 1..Len(queue) /\ i + 1 # 1
    BY <1>0, <2>1, HeadTailProperties, EmptySeq
  <2>3. queue[1] \in Tasks /\ queue[1] # NoTask
    BY <1>0, <2>2, PoolAssumption
  <2>4. \A v \in Workers : task'[v] = IF v = w THEN queue[1] ELSE task[v]
    BY <1>0, <2>1
  <2>5. \A i \in 1..Len(queue') : call'[queue'[i]] \in Queued /\ queue'[i] # queue[1]
    BY <2>1, <2>2
  <2>6. \A i, j \in 1..Len(queue') : queue'[i] = queue'[j] => i = j
    BY <1>0, <2>2
  <2>7. \A v \in Workers : task'[v] # NoTask => call'[task'[v]] \in Queued
    BY <2>1, <2>2, <2>4
  <2>8. TaskHeldOnce'
    BY <2>2, <2>3, <2>4, <2>5
  <2> QED BY <2>5, <2>6, <2>7, <2>8
<1>4. ASSUME NEW w \in Workers, Finish(w)
      PROVE  HeldInv'
  <2>1. UNCHANGED <<queue, call>> /\ task' = [task EXCEPT ![w] = NoTask]
    BY <1>4 DEF Finish, Move, submitVars, queueVars
  <2>2. \A v \in Workers : task'[v] # NoTask => v # w /\ task'[v] = task[v]
    BY <1>0, <2>1
  <2> QED BY <2>1, <2>2
<1>5. ASSUME UNCHANGED <<queue, call, task>>
      PROVE  HeldInv'
  BY <1>5
<1>6. ASSUME NEW w \in Workers, Worker(w), ~Take(w), ~Finish(w)
      PROVE  UNCHANGED <<queue, call, task>>
  BY <1>6 DEF Worker, Test, Wait, Surplus, WaitAgain, Wake, CountIdle, UncountCur,
     UncountIdle, EraseThread, Leave, JustMove, LockAndMove, Move, submitVars, queueVars
<1>7. ASSUME StopStore \/ StopFirstLook \/ StopLookAgain \/ UNCHANGED vars
      PROVE  UNCHANGED <<queue, call, task>>
  BY <1>7 DEF StopStore, StopFirstLook, StopLookAgain, StopLook, submitVars,
     queueVars, vars
<1> QED BY <1>1, <1>2, <1>3, <1>4, <1>5, <1>6, <1>7 DEF Next

\* A task is run by one thread, once: no two threads hold it, and the thread
\* that holds it has taken it out of the queue.
THEOREM TaskHeldOnceCorrect == Spec => []TaskHeldOnce
<1>1. Init => HeldInv
  BY DEF Init, HeldInv, TaskHeldOnce
<1>2. HeldInv => TaskHeldOnce
  BY DEF HeldInv
<1> QED BY <1>1, <1>2, HeldStep, TypeCorrect, PTL DEF Spec

----------------------------------------------------------------------------
(* The counters *)

LEMMA CountedFinite == IsFiniteSet(Counted) /\ IsFiniteSet(CountedIdle)
  BY PoolAssumption, FS_Subset DEF Counted, CountedIdle

\* What a step of one thread does to a counted set: in, out, or neither.
LEMMA CountThread ==
  ASSUME NEW S, NEW T, NEW w, IsFiniteSet(S)
  PROVE  /\ w \notin S /\ T = S \cup {w} => Cardinality(T) = Cardinality(S) + 1
         /\ w \in S /\ T = S \ {w} => Cardinality(T) = Cardinality(S) - 1
  BY FS_AddElement, FS_RemoveElement

\* Started and not yet raised for, in each counter, by the submit that holds m_mutex.
Behind(places) == IF \E t \in Tasks : call[t] \in places THEN 1 ELSE 0

\* The counters at every moment: each is the number of threads it stands for, less
\* the one that a submit is still counting, in 16 bits.
CountersInv ==
  /\ \A t, u \in Tasks :
       call[t] \in {"made", "counted"} /\ call[u] \in {"made", "counted"} => t = u
  /\ cur = Uint16(Cardinality(Counted) - Behind({"made"}))
  /\ idle = Uint16(Cardinality(CountedIdle) - Behind({"made", "counted"}))

LEMMA BehindInt == \A S : Behind(S) \in Int
  BY DEF Behind

LEMMA CountersStep == TypeOK /\ CountersInv /\ [Next]_vars => CountersInv'
<1> SUFFICES ASSUME TypeOK, CountersInv, [Next]_vars
             PROVE  CountersInv'
  OBVIOUS
<1>0. /\ pc \in [Workers -> Places] /\ call \in [Tasks -> CallPlaces]
  BY DEF TypeOK, CallPlaces
<1> DEFINE n == Cardinality(Counted)
           m == Cardinality(CountedIdle)
           b == Behind({"made"})
           d == Behind({"made", "counted"})
<1>a. n \in Int /\ m \in Int /\ b \in Int /\ d \in Int
  BY CountedFinite, FS_CardinalityType, BehindInt
<1>b. cur = Uint16(n - b) /\ idle = Uint16(m - d)
  BY DEF CountersInv
<1>c. ASSUME NEW k \in Int
      PROVE  /\ Uint16(Uint16(k) + 1) = Uint16(k + 1)
             /\ Uint16(Uint16(k) - 1) = Uint16(k - 1)
  BY UintFacts
<1>d. ASSUME UNCHANGED call
      PROVE  /\ b' = b /\ d' = d
             /\ \A t, u \in Tasks :
                  call'[t] \in {"made", "counted"} /\ call'[u] \in {"made", "counted"} => t = u
  BY <1>d DEF CountersInv, Behind
<1> HIDE DEF n, m, b, d
<1>1. ASSUME UNCHANGED <<pc, cur, idle, call>>
      PROVE  CountersInv'
  <2>1. n' = n /\ m' = m
    BY <1>1 DEF n, m, Counted, CountedIdle
  <2> QED BY <1>1, <1>b, <1>d, <2>1 DEF CountersInv, n, m, b, d
<1>2. ASSUME NEW t \in Tasks, SubmitAccept(t)
      PROVE  CountersInv'
  <2>1. /\ \A u \in Tasks : call[u] \notin {"made", "counted"}
        /\ UNCHANGED <<cur, idle>>
    BY <1>2 DEF SubmitAccept, Accept, MutexFree
  <2>2. b = 0 /\ d = 0
    BY <2>1 DEF b, d, Behind
  <2>3. CASE call' = [call EXCEPT ![t] = "accepted"] /\ UNCHANGED pc
    <3>1. /\ b' = 0 /\ d' = 0
          /\ \A u \in Tasks : call'[u] \notin {"made", "counted"}
      BY <1>0, <2>1, <2>3 DEF b, d, Behind
    <3>2. n' = n /\ m' = m
      BY <2>3 DEF n, m, Counted, CountedIdle
    <3> QED BY <1>b, <2>1, <2>2, <3>1, <3>2 DEF CountersInv, n, m, b, d
  <2>4. ASSUME NEW w \in Workers, CreateThread(t, w)
        PROVE  CountersInv'
    <3>1. call' = [call EXCEPT ![t] = "made"]
      BY <2>4 DEF CreateThread
    <3>2. \A u \in Tasks : call'[u] \in {"made", "counted"} <=> u = t
      BY <1>0, <2>1, <3>1
    <3>3. b' = 1 /\ d' = 1
      BY <1>0, <3>1 DEF b, d, Behind
    <3>4. /\ w \notin Counted /\ Counted' = Counted \cup {w}
          /\ w \notin CountedIdle /\ CountedIdle' = CountedIdle \cup {w}
      BY <1>0, <2>4 DEF CreateThread, Counted, CountedIdle, InLoop
    <3>5. n' = n + 1 /\ m' = m + 1
      BY <3>4, CountedFinite, CountThread DEF n, m
    <3>6. n' - b' = n - b /\ m' - d' = m - d
      BY <1>a, <2>2, <3>3, <3>5
    <3> QED BY <1>b, <2>1, <3>2, <3>6 DEF CountersInv, n, m, b, d
  <2>5. \/ call' = [call EXCEPT ![t] = "accepted"] /\ UNCHANGED pc
        \/ \E w \in Workers : CreateThread(t, w)
    BY <1>2 DEF SubmitAccept, Accept
  <2> QED BY <2>3, <2>4, <2>5
<1>3. ASSUME NEW t \in Tasks, SubmitWait(t) \/ SubmitThrow(t)
      PROVE  CountersInv'
  <2>1. /\ UNCHANGED <<pc, cur, idle>>
        /\ \A u \in Tasks : call[u] \notin {"made", "counted"}
        /\ \E p \in {"waiting", "rejected"} : call' = [call EXCEPT ![t] = p]
    BY <1>3 DEF SubmitWait, SubmitThrow, Full, MutexFree
  <2>2. \A u \in Tasks : call'[u] \notin {"made", "counted"}
    BY <1>0, <2>1
  <2>3. b' = b /\ d' = d
    BY <2>1, <2>2 DEF b, d, Behind
  <2>4. n' = n /\ m' = m
    BY <2>1 DEF n, m, Counted, CountedIdle
  <2> QED BY <1>b, <2>1, <2>2, <2>3, <2>4 DEF CountersInv, n, m, b, d
<1>4. ASSUME NEW t \in Tasks, RaiseCur(t)
      PROVE  CountersInv'
  <2>1. /\ call[t] = "made" /\ call' = [call EXCEPT ![t] = "counted"]
        /\ cur' = Uint16(cur + 1) /\ UNCHANGED <<pc, idle>>
    BY <1>4 DEF RaiseCur
  <2>2. \A u \in Tasks : u # t => call[u] \notin {"made", "counted"}
    BY <2>1 DEF CountersInv
  <2>3. \A u \in Tasks : call'[u] \in {"made", "counted"} <=> u = t
    BY <1>0, <2>1, <2>2
  <2>4. call'[t] = "counted"
    BY <1>0, <2>1
  <2>5. b = 1 /\ d = 1 /\ b' = 0 /\ d' = 1
    BY <2>1, <2>3, <2>4 DEF b, d, Behind
  <2>6. n' = n /\ m' = m
    BY <2>1 DEF n, m, Counted, CountedIdle
  <2>7. cur' = Uint16((n - b) + 1) /\ (n - b) + 1 = n' - b'
    BY <1>a, <1>b, <1>c, <2>1, <2>5, <2>6
  <2> QED BY <1>b, <2>1, <2>3, <2>5, <2>6, <2>7 DEF CountersInv, n, m, b, d
<1>5. ASSUME NEW t \in Tasks, RaiseIdle(t)
      PROVE  CountersInv'
  <2>1. /\ call[t] = "counted" /\ call' = [call EXCEPT ![t] = "accepted"]
        /\ idle' = Uint16(idle + 1) /\ UNCHANGED <<pc, cur>>
    BY <1>5 DEF RaiseIdle
  <2>2. \A u \in Tasks : u # t => call[u] \notin {"made", "counted"}
    BY <2>1 DEF CountersInv
  <2>3. \A u \in Tasks : call'[u] \notin {"made", "counted"}
    BY <1>0, <2>1, <2>2
  <2>4. \A u \in Tasks : call[u] # "made"
    BY <2>1, <2>2
  <2>5. b = 0 /\ d = 1 /\ b' = 0 /\ d' = 0
    BY <2>1, <2>3, <2>4 DEF b, d, Behind
  <2>6. n' = n /\ m' = m
    BY <2>1 DEF n, m, Counted, CountedIdle
  <2>7. idle' = Uint16((m - d) + 1) /\ (m - d) + 1 = m' - d'
    BY <1>a, <1>b, <1>c, <2>1, <2>5, <2>6
  <2> QED BY <1>b, <2>1, <2>3, <2>5, <2>6, <2>7 DEF CountersInv, n, m, b, d
<1>6. ASSUME NEW w \in Workers, Worker(w)
      PROVE  CountersInv'
  <2>0. UNCHANGED call
    BY <1>6 DEF Worker, Test, Take, Wait, Surplus, WaitAgain, Wake, Finish, CountIdle,
       UncountCur, UncountIdle, EraseThread, Leave, JustMove, LockAndMove, Move, submitVars
  \* What is left to show of a step that keeps `call`.
  <2>a. SUFFICES cur' = Uint16(n' - b) /\ idle' = Uint16(m' - d)
    BY <1>d, <2>0 DEF CountersInv, n, m, b, d
  <2>b. /\ Counted' = Counted => n' = n
        /\ CountedIdle' = CountedIdle => m' = m
        /\ w \in Counted /\ Counted' = Counted \ {w} => n' = n - 1
        /\ w \in CountedIdle /\ CountedIdle' = CountedIdle \ {w} => m' = m - 1
        /\ w \notin CountedIdle /\ CountedIdle' = CountedIdle \cup {w} => m' = m + 1
    BY CountedFinite, CountThread DEF n, m
  <2>c. /\ n' = n - 1 => n' - b = (n - b) - 1
        /\ m' = m - 1 => m' - d = (m - d) - 1
        /\ m' = m + 1 => m' - d = (m - d) + 1
    BY <1>a
  <2>d. /\ Uint16(Uint16(n - b) - 1) = Uint16((n - b) - 1)
        /\ Uint16(Uint16(m - d) - 1) = Uint16((m - d) - 1)
        /\ Uint16(Uint16(m - d) + 1) = Uint16((m - d) + 1)
    BY <1>a, <1>c
  <2> USE <1>0 DEF Move, LockAndMove
  <2>1. CASE Test(w) \/ Wait(w) \/ Surplus(w) \/ WaitAgain(w) \/ Wake(w)
    <3>1. UNCHANGED <<cur, idle>>
      BY <2>1 DEF Test, Wait, Surplus, WaitAgain, Wake, JustMove
    <3>2. \E from \in InLoop, to \in InLoop \cup {"decCur"} :
            pc[w] = from /\ pc' = [pc EXCEPT ![w] = to]
      BY <2>1 DEF Test, Wait, Surplus, WaitAgain, Wake, JustMove, InLoop
    <3>3. UNCHANGED <<Counted, CountedIdle>>
      BY <3>2 DEF Counted, CountedIdle, InLoop
    <3> QED BY <1>b, <2>b, <3>1, <3>3
  <2>2. CASE Take(w)
    <3>1. /\ UNCHANGED Counted
          /\ w \in CountedIdle /\ CountedIdle' = CountedIdle \ {w}
      BY <2>2 DEF Take, Counted, CountedIdle, InLoop
    <3>2. cur' = cur /\ idle' = Uint16(idle - 1)
      BY <2>2 DEF Take, TakeFront
    <3> QED BY <1>b, <2>b, <2>c, <2>d, <3>1, <3>2
  <2>3. CASE Finish(w) \/ EraseThread(w) \/ Leave(w)
    <3>1. UNCHANGED <<Counted, CountedIdle>>
      BY <2>3 DEF Finish, EraseThread, Leave, Counted, CountedIdle, InLoop
    <3>2. UNCHANGED <<cur, idle>>
      BY <2>3 DEF Finish, EraseThread, Leave
    <3> QED BY <1>b, <2>b, <3>1, <3>2
  <2>4. CASE CountIdle(w)
    <3>1. /\ UNCHANGED Counted
          /\ w \notin CountedIdle /\ CountedIdle' = CountedIdle \cup {w}
      BY <2>4 DEF CountIdle, Counted, CountedIdle, InLoop
    <3>2. cur' = cur /\ idle' = Uint16(idle + 1)
      BY <2>4 DEF CountIdle
    <3> QED BY <1>b, <2>b, <2>c, <2>d, <3>1, <3>2
  <2>5. CASE UncountCur(w)
    <3>1. /\ UNCHANGED CountedIdle
          /\ w \in Counted /\ Counted' = Counted \ {w}
      BY <2>5 DEF UncountCur, Counted, CountedIdle, InLoop
    <3>2. cur' = Uint16(cur - 1) /\ idle' = idle
      BY <2>5 DEF UncountCur
    <3> QED BY <1>b, <2>b, <2>c, <2>d, <3>1, <3>2
  <2>6. CASE UncountIdle(w)
    <3>1. /\ UNCHANGED Counted
          /\ w \in CountedIdle /\ CountedIdle' = CountedIdle \ {w}
      BY <2>6 DEF UncountIdle, Counted, CountedIdle, InLoop
    <3>2. cur' = cur /\ idle' = Uint16(idle - 1)
      BY <2>6 DEF UncountIdle
    <3> QED BY <1>b, <2>b, <2>c, <2>d, <3>1, <3>2
  <2> QED BY <1>6, <2>1, <2>2, <2>3, <2>4, <2>5, <2>6 DEF Worker
<1>7. CASE StopStore \/ StopFirstLook \/ StopLookAgain \/ UNCHANGED vars
  BY <1>1, <1>7 DEF StopStore, StopFirstLook, StopLookAgain, StopLook, vars, submitVars
<1> QED BY <1>2, <1>3, <1>4, <1>5, <1>6, <1>7 DEF Next

LEMMA CountersCorrect == Spec => []CountersInv
<1>1. Init => CountersInv
  <2> SUFFICES ASSUME Init PROVE CountersInv
    OBVIOUS
  <2>1. Counted = threads /\ CountedIdle = threads
    BY DEF Init, Counted, CountedIdle, InLoop
  <2>2. \A t \in Tasks : call[t] = "new"
    BY DEF Init
  <2>3. Behind({"made"}) = 0 /\ Behind({"made", "counted"}) = 0
    BY <2>2 DEF Behind
  <2>4. Cardinality(threads) - 0 = m_usThreadSize /\ Uint16(m_usThreadSize) = m_usThreadSize
    BY PoolAssumption, UintFacts DEF Init
  <2> QED BY <2>1, <2>2, <2>3, <2>4 DEF Init, CountersInv
<1> QED BY <1>1, CountersStep, TypeCorrect, PTL DEF Spec

\* While m_mutex is free the counters are the numbers of threads, in 16 bits.
LEMMA CountersWhenFree ==
  CountersInv /\ MutexFree => /\ cur = Uint16(Cardinality(Counted))
                              /\ idle = Uint16(Cardinality(CountedIdle))
<1> SUFFICES ASSUME CountersInv, MutexFree
             PROVE  /\ cur = Uint16(Cardinality(Counted))
                    /\ idle = Uint16(Cardinality(CountedIdle))
  OBVIOUS
<1>1. Behind({"made"}) = 0 /\ Behind({"made", "counted"}) = 0
  BY DEF MutexFree, Behind
<1>2. Cardinality(Counted) \in Int /\ Cardinality(CountedIdle) \in Int
  BY CountedFinite, FS_CardinalityType
<1> QED BY <1>1, <1>2 DEF CountersInv

\* A cached pool never grows past m_usMaxTreadSize threads (unless it was made
\* larger), whatever threads leave while submit decides to make one.
THEOREM GrowthBoundedCorrect == Spec => []GrowthBounded
<1>1. Init => GrowthBounded
  <2> SUFFICES ASSUME Init PROVE GrowthBounded
    OBVIOUS
  <2>1. Counted = threads
    BY DEF Init, Counted, InLoop
  <2> QED BY <2>1, PoolAssumption, UintFacts DEF Init, GrowthBounded
<1>2. TypeOK /\ CountersInv /\ GrowthBounded /\ [Next]_vars => GrowthBounded'
  <2> SUFFICES ASSUME TypeOK, CountersInv, GrowthBounded, [Next]_vars
               PROVE  GrowthBounded'
    OBVIOUS
  <2>0. /\ pc \in [Workers -> Places] /\ Cardinality(Counted) \in Nat
        /\ m_usThreadSize \in 0..USHRT_MAX /\ m_usMaxTreadSize \in 0..USHRT_MAX
        /\ USHRT_MAX \in Nat
    BY CountedFinite, FS_CardinalityType, PoolAssumption, UintFacts DEF TypeOK
  <2>1. CASE Counted' \subseteq Counted
    <3>1. Cardinality(Counted') <= Cardinality(Counted) /\ Cardinality(Counted') \in Nat
      BY <2>1, CountedFinite, FS_Subset, FS_CardinalityType
    <3> QED BY <2>0, <3>1 DEF GrowthBounded
  <2>2. ASSUME NEW t \in Tasks, SubmitAccept(t), NEW w \in Workers, CreateThread(t, w),
               LacksThread
        PROVE  GrowthBounded'
    <3>1. Counted' = Counted \cup {w} /\ w \notin Counted
      BY <2>0, <2>2 DEF CreateThread, Counted, InLoop
    <3>2. Cardinality(Counted') = Cardinality(Counted) + 1
      BY <3>1, CountedFinite, CountThread
    <3>3. cur = Uint16(Cardinality(Counted)) /\ cur < m_usMaxTreadSize
      BY <2>2, CountersWhenFree DEF SubmitAccept, Accept, LacksThread
    <3>4. Cardinality(Counted) \in 0..USHRT_MAX
      BY <2>0 DEF GrowthBounded
    <3>5. Uint16(Cardinality(Counted)) = Cardinality(Counted)
      BY <3>4, UintFacts
    <3> QED BY <2>0, <3>2, <3>3, <3>5 DEF GrowthBounded
  <2>3. ASSUME NEW t \in Tasks,
               SubmitAccept(t) \/ SubmitWait(t) \/ SubmitThrow(t) \/ RaiseCur(t) \/ RaiseIdle(t)
        PROVE  \/ UNCHANGED pc
               \/ SubmitAccept(t) /\ LacksThread /\ \E w \in Workers : CreateThread(t, w)
    BY <2>3 DEF SubmitAccept, Accept, SubmitWait, SubmitThrow, Full, RaiseCur, RaiseIdle
  <2>4. ASSUME NEW w \in Workers, Worker(w)
        PROVE  Counted' \subseteq Counted
    <3>1. \E to \in Places : /\ pc[w] \in InLoop \cup {"run", "ran", "decCur"}
                                \/ to \notin InLoop \cup {"run", "ran", "decCur"}
                             /\ pc' = [pc EXCEPT ![w] = to]
      BY <2>4 DEF Worker, Test, Take, Wait, Surplus, WaitAgain, Wake, Finish, CountIdle,
         UncountCur, UncountIdle, EraseThread, Leave, JustMove, LockAndMove, Move, InLoop,
         Places
    <3> QED BY <2>0, <3>1 DEF Counted
  <2>5. ASSUME StopStore \/ StopFirstLook \/ StopLookAgain \/ UNCHANGED vars
        PROVE  UNCHANGED pc
    BY <2>5 DEF StopStore, StopFirstLook, StopLookAgain, StopLook, vars
  <2>6. UNCHANGED pc => Counted' \subseteq Counted
    BY DEF Counted
  <2> QED BY <2>1, <2>2, <2>3, <2>4, <2>5, <2>6 DEF Next
<1> QED BY <1>1, <1>2, TypeCorrect, CountersCorrect, PTL DEF Spec

\* The two atomics, updated without the mutex and, for a new thread, only after it
\* runs, are the numbers of threads whenever submit or threadFunc can read them.
THEOREM CountersExactCorrect == Spec => []CountersExact
<1>1. CountersInv /\ GrowthBounded => CountersExact
  <2> SUFFICES ASSUME CountersInv, GrowthBounded, MutexFree
               PROVE  /\ cur = Cardinality(Counted)
                      /\ idle = Uint16(Cardinality(CountedIdle))
    BY DEF CountersExact
  <2>1. Cardinality(Counted) \in Nat
    BY CountedFinite, FS_CardinalityType
  <2>2. Cardinality(Counted) \in 0..USHRT_MAX
    BY <2>1, PoolAssumption, UintFacts DEF GrowthBounded
  <2> QED BY <2>2, CountersWhenFree, UintFacts
<1> QED BY <1>1, CountersCorrect, GrowthBoundedCorrect, PTL

----------------------------------------------------------------------------
(* The notification that stop waits for *)

\* The destructor's stop waits without a time limit. While it does there is a
\* thread left, or one that has still to notify, or m_cv was notified since.
StopNotMissed ==
  stopPc = "waiting" =>
    threads # {} \/ stopNotified \/ \E w \in Workers : pc[w] = "notify"

LEMMA StopNotMissedStep ==
  TypeOK /\ StopNotMissed /\ [Next]_vars => StopNotMissed'
<1> SUFFICES ASSUME TypeOK, StopNotMissed, [Next]_vars
             PROVE  StopNotMissed'
  OBVIOUS
<1> USE DEF StopNotMissed
<1>0. pc \in [Workers -> Places] /\ threads \subseteq Workers
  BY DEF TypeOK
<1>1. ASSUME NEW t \in Tasks, SubmitAccept(t)
      PROVE  StopNotMissed'
  BY <1>1 DEF SubmitAccept, Accept, CreateThread, NotifyAll
<1>2. ASSUME NEW t \in Tasks,
             SubmitWait(t) \/ SubmitThrow(t) \/ RaiseCur(t) \/ RaiseIdle(t)
      PROVE  StopNotMissed'
  <2>1. CASE SubmitWait(t) \/ SubmitThrow(t) \/ RaiseCur(t)
    BY <2>1 DEF SubmitWait, SubmitThrow, Full, RaiseCur, stopVars
  <2>2. CASE RaiseIdle(t)
    BY <2>2 DEF RaiseIdle, NotifyAll
  <2> QED BY <1>2, <2>1, <2>2
<1>3. ASSUME NEW w \in Workers, EraseThread(w)
      PROVE  StopNotMissed'
  <2>1. pc'[w] = "notify"
    BY <1>0, <1>3 DEF EraseThread, LockAndMove, Move
  <2> QED BY <2>1
<1>4. ASSUME NEW w \in Workers, Leave(w)
      PROVE  StopNotMissed'
  BY <1>4 DEF Leave, NotifyAll
<1>5. ASSUME NEW w \in Workers, Worker(w), ~EraseThread(w), ~Leave(w)
      PROVE  StopNotMissed'
  <2>1. UNCHANGED <<threads, stopPc, stopNotified>>
    BY <1>5 DEF Worker, Test, Take, TakeFront, Wait, Surplus, WaitAgain, Wake, Finish,
       CountIdle, UncountCur, UncountIdle, JustMove, stopVars
  <2>2. pc[w] # "notify" /\ \E to \in Places : pc' = [pc EXCEPT ![w] = to]
    BY <1>5 DEF Worker, Test, Take, Wait, Surplus, WaitAgain, Wake, Finish, CountIdle,
       UncountCur, UncountIdle, JustMove, LockAndMove, Move, Places
  <2>3. \A v \in Workers : pc[v] = "notify" => pc'[v] = "notify"
    BY <1>0, <2>2
  <2> QED BY <2>1, <2>3
<1>6. CASE StopStore
  BY <1>6 DEF StopStore
<1>7. CASE StopFirstLook \/ StopLookAgain
  BY <1>7 DEF StopFirstLook, StopLookAgain, StopLook
<1>8. CASE UNCHANGED vars
  BY <1>8 DEF vars
<1> QED BY <1>1, <1>2, <1>3, <1>4, <1>5, <1>6, <1>7, <1>8 DEF Next

\* stop does not sleep through the end of the last thread (lines 67-73 and 148),
\* whatever threads leave, and are made, between its looks at m_mapThreads.
THEOREM StopNotMissedCorrect == Spec => []StopNotMissed
<1>1. Init => StopNotMissed
  BY DEF Init, StopNotMissed
<1> QED BY <1>1, StopNotMissedStep, TypeCorrect, PTL DEF Spec

----------------------------------------------------------------------------
(* The threads of a fixed pool *)

\* Until it is stopped a fixed pool has the threads it was made with, and each of
\* them waits for a task, takes one or runs one.
FixedPoolKept ==
  poolMode = MODE_FIXED =>
    /\ MutexFree
    /\ running => /\ Cardinality(threads) = m_usThreadSize
                  /\ \A w \in Workers :
                       pc[w] \in {"unborn", "test", "lock", "wait5", "run", "ran"}

LEMMA FixedPoolStep == TypeOK /\ FixedPoolKept /\ [Next]_vars => FixedPoolKept'
<1> SUFFICES ASSUME TypeOK, FixedPoolKept, [Next]_vars, poolMode' = MODE_FIXED
             PROVE  /\ MutexFree'
                    /\ running' =>
                         /\ Cardinality(threads)' = m_usThreadSize
                         /\ \A w \in Workers :
                              pc'[w] \in {"unborn", "test", "lock", "wait5", "run", "ran"}
  BY DEF FixedPoolKept
<1> USE DEF FixedPoolKept
<1>0. /\ pc \in [Workers -> Places] /\ call \in [Tasks -> CallPlaces]
  BY DEF TypeOK, CallPlaces
<1>a. poolMode = MODE_FIXED /\ MutexFree
  <2>1. poolMode' = poolMode
    BY DEF Next, SubmitAccept, Accept, SubmitWait, SubmitThrow, Full, RaiseCur, RaiseIdle,
       Worker, Test, Take, Wait, Surplus, WaitAgain, Wake, Finish, CountIdle, UncountCur,
       UncountIdle, EraseThread, Leave, JustMove, LockAndMove, Move, StopStore,
       StopFirstLook, StopLookAgain, StopLook, vars
  <2> QED BY <2>1
<1>1. CASE UNCHANGED <<stopPc, threads, pc, call>>
  BY <1>a, <1>1 DEF running, MutexFree
<1>2. ASSUME NEW t \in Tasks, SubmitAccept(t) \/ SubmitWait(t) \/ SubmitThrow(t)
      PROVE  /\ UNCHANGED <<stopPc, threads, pc>>
             /\ \E p \in {"waiting", "accepted", "rejected"} : call' = [call EXCEPT ![t] = p]
  BY <1>a, <1>2 DEF SubmitAccept, Accept, LacksThread, NotifyAll, SubmitWait, SubmitThrow,
     Full, stopVars
<1>3. ASSUME NEW t \in Tasks, RaiseCur(t) \/ RaiseIdle(t)
      PROVE  FALSE
  BY <1>a, <1>3 DEF RaiseCur, RaiseIdle, MutexFree
<1>4. ASSUME NEW t \in Tasks, SubmitAccept(t) \/ SubmitWait(t) \/ SubmitThrow(t)
      PROVE  /\ MutexFree'
             /\ UNCHANGED <<stopPc, threads, pc>>
  BY <1>0, <1>a, <1>2, <1>4 DEF MutexFree
<1>5. ASSUME NEW w \in Workers, Worker(w)
      PROVE  /\ MutexFree' /\ UNCHANGED stopPc
             /\ running =>
                  /\ UNCHANGED threads
                  /\ \E to \in {"test", "lock", "wait5", "run", "ran"} :
                       pc' = [pc EXCEPT ![w] = to]
  <2>1. UNCHANGED <<call, stopPc>>
    BY <1>5 DEF Worker, Test, Take, TakeFront, Wait, Surplus, WaitAgain, Wake, Finish,
       CountIdle, UncountCur, UncountIdle, EraseThread, Leave, JustMove, LockAndMove, Move,
       submitVars, stopVars, NotifyAll
  <2>2. SUFFICES ASSUME running
                 PROVE  /\ UNCHANGED threads
                        /\ \E to \in {"test", "lock", "wait5", "run", "ran"} :
                             pc' = [pc EXCEPT ![w] = to]
    BY <1>a, <2>1 DEF MutexFree
  <2>3. \A v \in Workers : pc[v] \in {"unborn", "test", "lock", "wait5", "run", "ran"}
    BY <1>a, <2>2
  <2>4. CASE Test(w) \/ Wait(w) \/ Wake(w)
    BY <1>a, <2>2, <2>4 DEF Test, Wait, Wake, JustMove, Move
  <2>5. CASE Take(w) \/ Finish(w) \/ CountIdle(w)
    BY <2>5 DEF Take, TakeFront, Finish, CountIdle, LockAndMove, Move
  <2>6. ~Surplus(w) /\ ~WaitAgain(w) /\ ~UncountCur(w) /\ ~UncountIdle(w)
        /\ ~EraseThread(w) /\ ~Leave(w)
    BY <2>3 DEF Surplus, WaitAgain, UncountCur, UncountIdle, EraseThread, Leave,
       JustMove, LockAndMove, Move
  <2> QED BY <1>5, <2>4, <2>5, <2>6 DEF Worker
<1>6. ASSUME StopStore \/ StopFirstLook \/ StopLookAgain
      PROVE  MutexFree' /\ ~running'
  <2>1. UNCHANGED call /\ stopPc' # "none"
    BY <1>6 DEF StopStore, StopFirstLook, StopLookAgain, StopLook, submitVars
  <2> QED BY <1>a, <2>1 DEF MutexFree, running
<1>7. CASE UNCHANGED vars
  BY <1>1, <1>7 DEF vars
<1>8. CASE \E t \in Tasks : SubmitAccept(t) \/ SubmitWait(t) \/ SubmitThrow(t)
  BY <1>a, <1>4, <1>8 DEF running
<1>9. CASE \E w \in Workers : Worker(w)
  <2>1. PICK w \in Workers : Worker(w)
    BY <1>9
  <2>2. SUFFICES ASSUME running'
                 PROVE  /\ Cardinality(threads)' = m_usThreadSize
                        /\ \A v \in Workers :
                             pc'[v] \in {"unborn", "test", "lock", "wait5", "run", "ran"}
    BY <1>5, <2>1
  <2>3. running
    BY <1>5, <2>1, <2>2 DEF running
  <2> QED BY <1>0, <1>a, <1>5, <2>1, <2>3
<1> QED BY <1>3, <1>6, <1>7, <1>8, <1>9 DEF Next

\* What testTheadpool/main.cpp expects of the number of threads, and what a cached
\* pool does not keep, holds of a fixed pool: no thread of it leaves before stop.
THEOREM FixedPoolKeptCorrect ==
  Spec => [](FixedPoolKept /\ (poolMode = MODE_FIXED => FixedThreadsStay))
<1>1. Init => FixedPoolKept
  <2> SUFFICES ASSUME Init PROVE FixedPoolKept
    OBVIOUS
  <2>1. MutexFree /\ Cardinality(threads) = m_usThreadSize
    BY DEF Init, MutexFree
  <2>2. \A w \in Workers : pc[w] \in {"unborn", "test"}
    BY DEF Init
  <2> QED BY <2>1, <2>2 DEF FixedPoolKept
<1>2. FixedPoolKept => (poolMode = MODE_FIXED => FixedThreadsStay)
  BY PoolAssumption, UintFacts DEF FixedPoolKept, FixedThreadsStay
<1> QED BY <1>1, <1>2, FixedPoolStep, TypeCorrect, PTL DEF Spec
=============================================================================
