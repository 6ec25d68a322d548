------------------------------ MODULE ThreadPool ------------------------------
(***************************************************************************)
(* mmrUtil::ThreadPool: a bounded task queue served by detached threads,   *)
(* of a fixed number (MODE_FIXED), or growing with the load and shrinking  *)
(* when idle (MODE_CACHED).                                                *)
(*                                                                         *)
(* Grain of atomicity. A section under m_mutex without a wait in it is one *)
(* action, but for a submit that makes a thread: it starts the thread,     *)
(* then raises the two counters, one at a time, with m_mutex held all the  *)
(* while (MutexFree), and the new thread may already run, and lower them,  *)
(* in between.  What the code does outside the mutex is a step of its own: *)
(* the test of m_isPoolRunning, the task, the counter updates before a     *)
(* thread locks for the last time, and its notify_all after it unlocked.   *)
(* Both counters are 16-bit atomics read under the mutex only; submit's    *)
(* two reads are taken at once: a counter that a finishing or leaving      *)
(* thread changes between them counts as changed before or after both.     *)
(*                                                                         *)
(* The waits of the threads and of submit are wait_for: they may return at *)
(* any moment (notified, spuriously, timed out), so notify_all changes     *)
(* what is possible only for stop, whose wait has no time limit.           *)
(***************************************************************************)
EXTENDS Integers, Sequences, FiniteSets

CONSTANTS
  Workers,             \* ids of threads, each used once (m_generateId)
  Tasks,               \* calls of submit, each with the task it brings
  NoTask,              \* a thread's empty local variable `task`
  Modes,               \* the pool modes Init chooses from
  m_usThreadSize,      \* threads made by the constructor
  m_usMaxTreadSize,    \* limit on growth in MODE_CACHED
  m_ulTaskqueMaxSize   \* capacity of the queue

MODE_FIXED  == "fix"
MODE_CACHED == "cache"
USHRT_MAX   == 65535      \* the largest uint16_t

\* The constructor replaces a thread size of 0 by the number of processors;
\* nothing in the code relates m_usThreadSize to m_usMaxTreadSize; both are of
\* type uint16_t.
ASSUME PoolAssumption ==
  /\ IsFiniteSet(Workers)
  /\ Modes \subseteq {MODE_FIXED, MODE_CACHED}
  /\ m_usThreadSize \in 1..USHRT_MAX
  /\ m_usMaxTreadSize \in 0..USHRT_MAX
  /\ m_ulTaskqueMaxSize \in Nat \ {0}
  /\ NoTask \notin Tasks

VARIABLES
  poolMode,     \* m_poolMode
  queue,        \* m_queueTask
  threads,      \* the keys of m_mapThreads
  cur,          \* m_usCurThreadSize
  idle,         \* m_usIdleThreadSize
  pc,           \* where each thread is in threadFunc
  task,         \* the local variable `task` of each thread
  call,         \* where each call of submit is
  stopPc,       \* where the destructor's call of stop is
  stopNotified, \* m_cv was notified since stop last looked at m_mapThreads
  accepted,     \* history: tasks in the order submit queued them
  started       \* history: tasks in the order threads took them

submitVars == <<call, accepted>>
queueVars  == <<queue, started>>
stopVars   == <<stopPc, stopNotified>>
vars == <<poolMode, queue, threads, cur, idle, pc, task, call, stopPc,
          stopNotified, accepted, started>>

\* m_isPoolRunning: set by the constructor, cleared by stop's first step.
running == stopPc = "none"

\* The counters are std::atomic<uint16_t>: they wrap.
Uint16(n) == n % (USHRT_MAX + 1)

\* Only a submit that makes a thread holds m_mutex for more than one step.
MutexFree == \A t \in Tasks : call[t] \notin {"made", "counted"}

\* m_cv.notify_all()
NotifyAll == stopNotified' = TRUE /\ UNCHANGED stopPc

----------------------------------------------------------------------------
\* The constructor and start: m_usThreadSize threads, and no task yet.
Init ==
  /\ poolMode \in Modes
  /\ threads \in SUBSET Workers /\ Cardinality(threads) = m_usThreadSize
  /\ pc = [w \in Workers |-> IF w \in threads THEN "test" ELSE "unborn"]
  /\ cur = m_usThreadSize
  /\ idle = m_usThreadSize
  /\ task = [w \in Workers |-> NoTask]
  /\ call = [t \in Tasks |-> "new"]
  /\ stopPc = "none" /\ stopNotified = FALSE
  /\ queue = <<>> /\ accepted = <<>> /\ started = <<>>

\* createThreadInner up to line 84, called by t's submit under m_mutex: the thread
\* is in the map and runs. It is not counted yet.
CreateThread(t, w) ==
  /\ pc[w] = "unborn"
  /\ pc' = [pc EXCEPT ![w] = "test"]
  /\ threads' = threads \cup {w}
  /\ call' = [call EXCEPT ![t] = "made"]
  /\ UNCHANGED stopVars

----------------------------------------------------------------------------
(* submit *)

LacksThreadByOne ==       \* a slip: the limit on threads is off by one
  poolMode = MODE_CACHED /\ Len(queue) + 1 > idle /\ cur <= m_usMaxTreadSize

\* Line 110, evaluated after the task is queued.
LacksThread ==
  poolMode = MODE_CACHED /\ Len(queue) + 1 > idle /\ cur < m_usMaxTreadSize

QueueTaskAtFront(t) ==    \* a slip: last in, first out
  queue' = <<t>> \o queue /\ UNCHANGED started

QueueTask(t) == queue' = Append(queue, t) /\ UNCHANGED started

\* Lines 107-117: there is room. Queue the task; make a thread if the mode and
\* the counters ask for it, else notify everybody.
Accept(t) ==
  /\ MutexFree
  /\ Len(queue) < m_ulTaskqueMaxSize
  /\ QueueTask(t)
  /\ accepted' = Append(accepted, t)
  /\ IF LacksThread
     THEN \E w \in Workers : CreateThread(t, w)
     ELSE /\ call' = [call EXCEPT ![t] = "accepted"]
          /\ NotifyAll
          /\ UNCHANGED <<pc, threads>>
  /\ UNCHANGED <<poolMode, cur, idle, task>>

\* Line 86: the new thread, which may have left already, is counted ...
RaiseCur(t) ==
  /\ call[t] = "made"
  /\ call' = [call EXCEPT ![t] = "counted"]
  /\ cur' = Uint16(cur + 1)
  /\ UNCHANGED <<poolMode, queueVars, threads, idle, pc, task, stopVars, accepted>>

\* ... and line 87; then submit notifies everybody and releases m_mutex.
RaiseIdle(t) ==
  /\ call[t] = "counted"
  /\ call' = [call EXCEPT ![t] = "accepted"]
  /\ idle' = Uint16(idle + 1)
  /\ NotifyAll
  /\ UNCHANGED <<poolMode, queueVars, threads, cur, pc, task, accepted>>

\* A call of submit gets on without queueing: the queue is full. Nobody calls
\* submit on a pool whose destructor has returned.
Full(t, from, to) ==
  /\ MutexFree
  /\ stopPc # "returned"
  /\ call[t] = from
  /\ Len(queue) >= m_ulTaskqueMaxSize
  /\ call' = [call EXCEPT ![t] = to]
  /\ UNCHANGED <<poolMode, queueVars, threads, cur, idle, pc, task, stopVars,
                 accepted>>

\* wait_for finds room at once, on a wake-up, or after the time limit ...
SubmitAccept(t) ==
  stopPc # "returned" /\ call[t] \in {"new", "waiting"} /\ Accept(t)
\* ... or has to wait for up to a second ...
SubmitWait(t) == Full(t, "new", "waiting")
\* ... and throws "task queue is full!" if it is still full then.
SubmitThrow(t) == Full(t, "waiting", "rejected")

----------------------------------------------------------------------------
(* threadFunc. Places: test (98), lock (103), wait1 (107), wait5 (120), run   *)
(* (134), ran (136), decCur (141), decIdle (142), erase (143), notify (148).  *)

\* A step of a thread; none touches the variables of submit or the mode.
Move(w, from, to) ==
  /\ pc[w] = from
  /\ pc' = [pc EXCEPT ![w] = to]
  /\ UNCHANGED <<poolMode, submitVars>>

\* A step of a thread that locks m_mutex.
LockAndMove(w, from, to) == MutexFree /\ Move(w, from, to)

\* A step after which only the thread's place has changed.
JustMove(w, from, to) ==
  /\ Move(w, from, to)
  /\ UNCHANGED <<queueVars, threads, cur, idle, task, stopVars>>

Test(w) == JustMove(w, "test", IF running THEN "lock" ELSE "decCur")

TakeFront(w) ==
  /\ idle' = Uint16(idle - 1)
  /\ task' = [task EXCEPT ![w] = Head(queue)]
  /\ started' = Append(started, Head(queue))
  /\ UNCHANGED <<threads, cur, stopVars>>

TakeWithoutPop(w) ==      \* a slip: the front is read and not popped
  /\ LockAndMove(w, "lock", "run")
  /\ queue # <<>> /\ TakeFront(w) /\ UNCHANGED queue

\* Lines 123-128: take the oldest task. Nobody is told of the room this makes.
Take(w) ==
  /\ LockAndMove(w, "lock", "run")
  /\ queue # <<>> /\ TakeFront(w) /\ queue' = Tail(queue)

LeaveWhenIdle(w) ==       \* a slip: a fixed thread with nothing to do leaves
  /\ MutexFree /\ queue = <<>>
  /\ JustMove(w, "lock", IF poolMode = MODE_CACHED THEN "wait1" ELSE "decCur")

\* Lines 104-107, 120: nothing to do. MODE_CACHED waits 1 s, MODE_FIXED 5 s.
Wait(w) ==
  /\ MutexFree /\ queue = <<>>
  /\ JustMove(w, "lock", IF poolMode = MODE_CACHED THEN "wait1" ELSE "wait5")

\* Lines 107-116: the 1 s wait timed out and there are more threads than
\* m_usThreadSize. The thread leaves if it was idle for long enough, else it
\* loops. It has not looked at the queue, and is counted until line 141.
Surplus(w) ==
  /\ MutexFree /\ cur > m_usThreadSize
  /\ \E expired \in BOOLEAN :
       JustMove(w, "wait1", IF expired THEN "decCur" ELSE "test")

\* Lines 118-121: the 1 s wait was notified, or timed out with no surplus. The
\* thread waits again, for 5 s, without a look at the queue.
WaitAgain(w) == MutexFree /\ JustMove(w, "wait1", "wait5")

Wake(w) == MutexFree /\ JustMove(w, "wait5", "test")

\* Line 134: the task returns and its future is ready.
Finish(w) ==
  /\ Move(w, "run", "ran")
  /\ task' = [task EXCEPT ![w] = NoTask]
  /\ UNCHANGED <<queueVars, threads, cur, idle, stopVars>>

ForgetIdle(w) == JustMove(w, "ran", "test")    \* a slip: line 136 is missing

CountIdle(w) ==
  /\ Move(w, "ran", "test")
  /\ idle' = Uint16(idle + 1)
  /\ UNCHANGED <<queueVars, threads, cur, task, stopVars>>

UncountCur(w) ==
  /\ Move(w, "decCur", "decIdle")
  /\ cur' = Uint16(cur - 1)
  /\ UNCHANGED <<queueVars, threads, idle, task, stopVars>>

UncountIdle(w) ==
  /\ Move(w, "decIdle", "erase")
  /\ idle' = Uint16(idle - 1)
  /\ UNCHANGED <<queueVars, threads, cur, task, stopVars>>

EraseThread(w) ==
  /\ LockAndMove(w, "erase", "notify")
  /\ threads' = threads \ {w}
  /\ UNCHANGED <<queueVars, cur, idle, task, stopVars>>

LeaveSilently(w) == JustMove(w, "notify", "gone")  \* a slip: no notify_all

\* Line 148, after the mutex is released.
Leave(w) ==
  /\ Move(w, "notify", "gone")
  /\ NotifyAll
  /\ UNCHANGED <<queueVars, threads, cur, idle, task>>

\* What a thread does next; the task itself (Finish) is the client's.
Worker(w) ==
  \/ Test(w) \/ Take(w) \/ Wait(w) \/ Surplus(w) \/ WaitAgain(w) \/ Wake(w)
  \/ Finish(w) \/ CountIdle(w)
  \/ UncountCur(w) \/ UncountIdle(w) \/ EraseThread(w) \/ Leave(w)

----------------------------------------------------------------------------
(* stop, called by the destructor *)

\* Line 64: m_isPoolRunning is cleared before m_mutex is taken.
StopStore ==
  /\ stopPc = "none"
  /\ stopPc' = "lock"
  /\ UNCHANGED <<poolMode, submitVars, queueVars, threads, cur, idle, pc, task,
                 stopNotified>>

StopLookAtQueue(place) ==  \* a slip: stop waits for the tasks only
  /\ MutexFree /\ stopPc = place
  /\ stopPc' = IF queue = <<>> THEN "returned" ELSE "waiting"
  /\ stopNotified' = FALSE
  /\ UNCHANGED <<poolMode, submitVars, queueVars, threads, cur, idle, pc, task>>

\* Lines 67-73: under m_mutex, return if no thread is left, else wait (again).
StopLook(place) ==
  /\ MutexFree /\ stopPc = place
  /\ stopPc' = IF threads = {} THEN "returned" ELSE "waiting"
  /\ stopNotified' = FALSE
  /\ UNCHANGED <<poolMode, submitVars, queueVars, threads, cur, idle, pc, task>>

StopFirstLook == StopLook("lock")
\* On a wake-up, which may be spurious; only a notified one is certain to come.
StopLookAgain == StopLook("waiting")

----------------------------------------------------------------------------
Next ==
  \/ \E t \in Tasks :
       SubmitAccept(t) \/ SubmitWait(t) \/ SubmitThrow(t) \/ RaiseCur(t) \/ RaiseIdle(t)
  \/ \E w \in Workers : Worker(w)
  \/ StopStore \/ StopFirstLook \/ StopLookAgain

Spec == Init /\ [][Next]_vars

\* Threads that can run do run, timed waits end and tasks return. Nobody has to
\* call submit or to destroy the pool.
Fairness ==
  /\ \A w \in Workers : WF_vars(Worker(w))
  /\ \A t \in Tasks :
       /\ WF_vars(call[t] = "waiting" /\ (SubmitAccept(t) \/ SubmitThrow(t)))
       /\ WF_vars(RaiseCur(t) \/ RaiseIdle(t))
  /\ WF_vars(StopFirstLook)
  /\ WF_vars(stopNotified /\ StopLookAgain)

FairSpec == Spec /\ Fairness

----------------------------------------------------------------------------
(* Properties *)

Places == {"unborn", "test", "lock", "wait1", "wait5", "run", "ran",
           "decCur", "decIdle", "erase", "notify", "gone"}

\* The variables of the pool, of its threads and of the calls keep their types.
TypeOK ==
  /\ poolMode \in Modes
  /\ queue \in Seq(Tasks) /\ accepted \in Seq(Tasks) /\ started \in Seq(Tasks)
  /\ threads \subseteq Workers
  /\ cur \in 0..USHRT_MAX /\ idle \in 0..USHRT_MAX
  /\ pc \in [Workers -> Places]
  /\ task \in [Workers -> Tasks \cup {NoTask}]
  /\ call \in [Tasks -> {"new", "waiting", "made", "counted", "accepted", "rejected"}]
  /\ stopPc \in {"none", "lock", "waiting", "returned"}
  /\ stopNotified \in BOOLEAN

InLoop == {"test", "lock", "wait1", "wait5"}

\* The threads that m_usCurThreadSize and m_usIdleThreadSize stand for.
Counted == {w \in Workers : pc[w] \in InLoop \cup {"run", "ran", "decCur"}}
CountedIdle == {w \in Workers : pc[w] \in InLoop \cup {"decCur", "decIdle"}}

\* Whenever submit or threadFunc can read the counters, the atomics are the numbers
\* they stand for (of 16 bits): a thread that left before the submit that made it
\* had counted it takes a counter below zero, to 65535, but only until line 87.
CountersExact ==
  MutexFree => /\ cur = Cardinality(Counted)
               /\ idle = Uint16(Cardinality(CountedIdle))

\* submit lets a cached pool grow to m_usMaxTreadSize threads and no further,
\* whatever threads are leaving meanwhile (the constructor may have made more).
GrowthBounded ==
  \/ Cardinality(Counted) <= m_usThreadSize
  \/ Cardinality(Counted) <= m_usMaxTreadSize

\* Tasks are taken in the order submit queued them, none is lost and none is
\* taken twice: what was taken, then what is queued, is what was accepted.
TakenInOrder == accepted = started \o queue

\* No task is in the hands of two threads, and none is both queued and taken.
TaskHeldOnce ==
  \A w \in Workers : task[w] # NoTask =>
    /\ \A v \in Workers \ {w} : task[v] # task[w]
    /\ \A i \in 1..Len(queue) : queue[i] # task[w]

\* Once stop has returned and the pool is destroyed, no thread holds a task or
\* will take m_mutex again.
StopReturnsLast ==
  stopPc = "returned" =>
    \A w \in Workers : pc[w] \in {"unborn", "notify", "gone"} /\ task[w] = NoTask

\* testTheadpool/main.cpp:102 "after the sleep ... the number of threads should
\* be 4", the fixed size: the idle time takes surplus threads away, not these.
FixedThreadsStay ==
  running => Cardinality(threads) >= m_usThreadSize

\* Every task the pool queued is taken, unless the pool is stopped first. The
\* threads of a cached pool wait a second time without a look at the queue, and
\* may all leave (FixedThreadsStay): the tasks they leave behind wait for the
\* next submit that makes a thread.
PoolServes ==
  \A t \in Tasks : call[t] = "accepted" ~>
    \/ \E i \in DOMAIN started : started[i] = t
    \/ ~running
    \/ poolMode = MODE_CACHED /\ [](Counted = {})

\* stop returns, in spite of threads that wait for 5 s, leave one by one, or
\* are made by a submit that comes after the flag is cleared.
StopReturns == stopPc = "lock" ~> stopPc = "returned"
=============================================================================
