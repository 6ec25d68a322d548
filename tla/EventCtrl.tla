------------------------------ MODULE EventCtrl ------------------------------
(***************************************************************************)
(* mmrCore::CEventDealWithLock: threads post events into m_queueAddData;   *)
(* one thread, dealEventData, swaps that queue with its own, empty one and *)
(* calls the subscribed callbacks, holding m_mutexFunc until its queue is  *)
(* empty.  The owner starts the thread, and stops it by a flag.            *)
(*                                                                         *)
(* A section under a mutex is one action, except the one that deals with   *)
(* the events: there each callback starts and returns in a step of its     *)
(* own, and `dealer' tells that m_mutexFunc is held.  The thread waits for *)
(* at most 10 s, so it may wake at any moment; the wake-up lost when stop  *)
(* notifies without the mutex costs time and is no state of its own.       *)
(***************************************************************************)
EXTENDS Integers, Sequences, FiniteSets, SequencesExt

CONSTANTS
  Events,     \* calls of addEvenVartData
  Topics,     \* event names
  Subs,       \* callbacks
  eventName,  \* [Events -> Topics]
  MaxStarts   \* bound: how often the owner calls start

ASSUME EventAssumption ==
  eventName \in [Events -> Topics] /\ MaxStarts \in Nat

VARIABLES
  m_bTheadRun,
  m_bDataAdded,
  queueAdd,    \* m_queueAddData
  queueDeal,   \* m_queueDealData
  funcs,       \* m_mapFuncs: the list of each topic, <<>> if it is absent
  owned,       \* callbacks whose shared_ptr somebody else holds
  dealer,      \* where dealEventData is
  iter,        \* iterFunc, as a position of the list
  owner,       \* where the owner's call of stop is
  starts,      \* bound: calls of start so far
  unposted,    \* events whose call of addEvenVartData is still to come
  received,    \* history: what each callback was called with
  oldFuncs,    \* history: subscriptions there were when stop was last called
  oldEvents    \* history: events that waited when stop was last called

old == <<oldFuncs, oldEvents>>
dealVars == <<queueDeal, dealer, iter>>
vars == <<m_bTheadRun, m_bDataAdded, queueAdd, queueDeal, funcs, owned, dealer,
          iter, owner, starts, unposted, received, oldFuncs, oldEvents>>

----------------------------------------------------------------------------
Init ==
  /\ m_bTheadRun = FALSE /\ m_bDataAdded = FALSE
  /\ queueAdd = <<>> /\ queueDeal = <<>>
  /\ funcs = [p \in Topics |-> <<>>]
  /\ owned = Subs
  /\ dealer = "off" /\ iter = 1
  /\ owner = "idle" /\ starts = 0
  /\ unposted = Events
  /\ received = [s \in Subs |-> <<>>]
  /\ oldFuncs = {} /\ oldEvents = {}

\* Holders of m_mutexFunc other than addFunc and clear.
FuncLocked == dealer \in {"deal", "call"}

CurrentList == funcs[eventName[Head(queueDeal)]]

Hears(s, e) == received' = [received EXCEPT ![s] = Append(@, e)]

----------------------------------------------------------------------------
(* Users *)

\* addFunc. A callback is added to a topic once, by somebody who owns it.
addFunc(p, s) ==
  /\ ~FuncLocked
  /\ s \in owned /\ ~Contains(funcs[p], s)
  /\ funcs' = [funcs EXCEPT ![p] = Append(@, s)]
  /\ oldFuncs' = oldFuncs \ {<<p, s>>}
  /\ UNCHANGED <<m_bTheadRun, m_bDataAdded, queueAdd, dealVars, owned, owner,
                 starts, unposted, received, oldEvents>>

\* The owner of a callback resets its shared_ptr.
Release(s) ==
  /\ s \in owned
  /\ owned' = owned \ {s}
  /\ UNCHANGED <<m_bTheadRun, m_bDataAdded, queueAdd, dealVars, funcs, owner,
                 starts, unposted, received, old>>

PostWithoutFlag(e) ==     \* a slip: line 91 is missing
  /\ e \in unposted
  /\ unposted' = unposted \ {e}
  /\ queueAdd' = Append(queueAdd, e)
  /\ UNCHANGED <<m_bTheadRun, m_bDataAdded, dealVars, funcs, owned, owner,
                 starts, received, old>>

\* addEvenVartData, from any thread, a callback's too: running or not.
addEvenVartData(e) ==
  /\ e \in unposted
  /\ unposted' = unposted \ {e}
  /\ queueAdd' = Append(queueAdd, e)
  /\ m_bDataAdded' = TRUE
  /\ UNCHANGED <<m_bTheadRun, dealVars, funcs, owned, owner, starts, received,
                 old>>

----------------------------------------------------------------------------
(* dealEventData. Places: off (no thread), loop (97), added (99), swap (102), *)
(* deal (109 and 116), call (121), wait (142), done (returned, not joined).   *)

\* A step that moves the thread and leaves the owner and the users alone.
Deal(from, to) ==
  /\ dealer = from
  /\ dealer' = to
  /\ UNCHANGED <<m_bTheadRun, owned, owner, starts, unposted, old>>

TestRun ==
  /\ Deal("loop", IF m_bTheadRun THEN "added" ELSE "done")
  /\ UNCHANGED <<m_bDataAdded, queueAdd, queueDeal, funcs, iter, received>>

TestAdded ==
  /\ Deal("added", IF m_bDataAdded THEN "swap" ELSE "wait")
  /\ UNCHANGED <<m_bDataAdded, queueAdd, queueDeal, funcs, iter, received>>

SwapKeepingFlag ==        \* a slip: line 104 is missing
  /\ Deal("swap", "deal")
  /\ queueAdd' = queueDeal /\ queueDeal' = queueAdd
  /\ iter' = 1
  /\ UNCHANGED <<m_bDataAdded, funcs, received>>

SwapCopies ==             \* a slip: line 103 copies the queue instead
  /\ Deal("swap", "deal")
  /\ queueDeal' = queueAdd
  /\ m_bDataAdded' = FALSE
  /\ iter' = 1
  /\ UNCHANGED <<queueAdd, funcs, received>>

\* Lines 102-104, then 108: swap the queues, take m_mutexFunc (addFunc, the
\* only other user of it while the thread runs, holds it within one step).
Swap ==
  /\ Deal("swap", "deal")
  /\ queueAdd' = queueDeal /\ queueDeal' = queueAdd
  /\ m_bDataAdded' = FALSE
  /\ iter' = 1
  /\ UNCHANGED <<funcs, received>>

CallExpired ==            \* a slip: the weak_ptr is not tested
  /\ Deal("deal", "call")
  /\ queueDeal # <<>> /\ iter <= Len(CurrentList)
  /\ Hears(CurrentList[iter], Head(queueDeal))
  /\ UNCHANGED <<m_bDataAdded, queueAdd, queueDeal, funcs, iter>>

\* Lines 118-121: the next callback is still owned and is called.
CallNext ==
  /\ Deal("deal", "call")
  /\ queueDeal # <<>> /\ iter <= Len(CurrentList)
  /\ CurrentList[iter] \in owned
  /\ Hears(CurrentList[iter], Head(queueDeal))
  /\ UNCHANGED <<m_bDataAdded, queueAdd, queueDeal, funcs, iter>>

CallReturns ==
  /\ Deal("call", "deal")
  /\ iter' = iter + 1
  /\ UNCHANGED <<m_bDataAdded, queueAdd, queueDeal, funcs, received>>

\* Lines 124-127, 130-133: the next callback has expired and is erased.
EraseExpired ==
  /\ Deal("deal", "deal")
  /\ queueDeal # <<>> /\ iter <= Len(CurrentList)
  /\ CurrentList[iter] \notin owned
  /\ funcs' = [funcs EXCEPT ![eventName[Head(queueDeal)]] = RemoveAt(@, iter)]
  /\ UNCHANGED <<m_bDataAdded, queueAdd, queueDeal, iter, received>>

\* Line 135: no callback is left for the event.
PopEvent ==
  /\ Deal("deal", "deal")
  /\ queueDeal # <<>> /\ iter > Len(CurrentList)
  /\ queueDeal' = Tail(queueDeal)
  /\ iter' = 1
  /\ UNCHANGED <<m_bDataAdded, queueAdd, funcs, received>>

\* Line 109: the thread's queue is empty, m_mutexFunc is released.
DealtAll ==
  /\ Deal("deal", "wait")
  /\ queueDeal = <<>>
  /\ UNCHANGED <<m_bDataAdded, queueAdd, queueDeal, funcs, iter, received>>

WakeOnData ==             \* a slip: the wait looks at m_bDataAdded alone
  /\ Deal("wait", "loop")
  /\ m_bDataAdded
  /\ UNCHANGED <<m_bDataAdded, queueAdd, queueDeal, funcs, iter, received>>

\* Lines 141-145: leave the wait on new data or on a cleared flag.
Wake ==
  /\ Deal("wait", "loop")
  /\ m_bDataAdded \/ ~m_bTheadRun
  /\ UNCHANGED <<m_bDataAdded, queueAdd, queueDeal, funcs, iter, received>>

\* What the dealing thread does next.
Dealer ==
  \/ TestRun \/ TestAdded \/ Swap \/ CallNext \/ CallReturns \/ EraseExpired
  \/ PopEvent \/ DealtAll \/ Wake

----------------------------------------------------------------------------
(* The owner: start, and stop's steps (70-72, 74, 26-31, 34-35). start is not *)
(* called again before stop.                                                  *)

start ==
  /\ owner = "idle" /\ ~m_bTheadRun
  /\ starts < MaxStarts /\ starts' = starts + 1
  /\ m_bTheadRun' = TRUE
  /\ dealer' = "loop"
  /\ UNCHANGED <<m_bDataAdded, queueAdd, queueDeal, funcs, owned, iter, owner,
                 unposted, received, old>>

stop ==
  /\ owner = "idle"
  /\ m_bTheadRun' = FALSE
  /\ owner' = IF m_bTheadRun THEN "join" ELSE "clear"
  /\ oldFuncs' = {ps \in Topics \X Subs : ps[2] \in Range(funcs[ps[1]])}
  /\ oldEvents' = Range(queueDeal) \cup Range(queueAdd)
  /\ UNCHANGED <<m_bDataAdded, queueAdd, dealVars, funcs, owned, starts,
                 unposted, received>>

JoinNobody ==             \* a slip: m_future.get() is missing
  /\ owner = "join"
  /\ owner' = "clear"
  /\ UNCHANGED <<m_bTheadRun, m_bDataAdded, queueAdd, dealVars, funcs, owned,
                 starts, unposted, received, old>>

Join ==
  /\ owner = "join" /\ dealer = "done"
  /\ dealer' = "off"
  /\ owner' = "clear"
  /\ UNCHANGED <<m_bTheadRun, m_bDataAdded, queueAdd, queueDeal, iter, funcs,
                 owned, starts, unposted, received, old>>

clearData ==
  /\ owner = "clear"
  /\ owner' = "clearFuncs"
  /\ m_bDataAdded' = FALSE
  /\ queueAdd' = <<>> /\ queueDeal' = <<>>
  /\ UNCHANGED <<m_bTheadRun, dealer, iter, funcs, owned, starts, unposted,
                 received, old>>

KeepFuncs ==              \* a slip: line 35 is missing
  /\ owner = "clearFuncs" /\ ~FuncLocked
  /\ owner' = "idle"
  /\ UNCHANGED <<m_bTheadRun, m_bDataAdded, queueAdd, dealVars, funcs, owned,
                 starts, unposted, received, old>>

clearFuncs ==
  /\ owner = "clearFuncs" /\ ~FuncLocked
  /\ owner' = "idle"
  /\ funcs' = [p \in Topics |-> <<>>]
  /\ UNCHANGED <<m_bTheadRun, m_bDataAdded, queueAdd, dealVars, owned, starts,
                 unposted, received, old>>

----------------------------------------------------------------------------
Next ==
  \/ \E p \in Topics, s \in Subs : addFunc(p, s)
  \/ \E s \in Subs : Release(s)
  \/ \E e \in Events : addEvenVartData(e)
  \/ Dealer
  \/ start \/ stop \/ Join \/ clearData \/ clearFuncs

Spec == Init /\ [][Next]_vars

\* The dealing thread is scheduled, callbacks return, a call of stop goes on.
Fairness ==
  /\ WF_vars(Dealer)
  /\ WF_vars(Join) /\ WF_vars(clearData) /\ WF_vars(clearFuncs)

FairSpec == Spec /\ Fairness

----------------------------------------------------------------------------
(* Properties *)

\* The variables keep their types, and iterFunc stays on the list of the event
\* that is dealt with: on an element while that is called, never past the end.
TypeOK ==
  /\ m_bTheadRun \in BOOLEAN /\ m_bDataAdded \in BOOLEAN
  /\ queueAdd \in Seq(Events) /\ queueDeal \in Seq(Events)
  /\ funcs \in [Topics -> Seq(Subs)]
  /\ owned \subseteq Subs
  /\ dealer \in {"off", "loop", "added", "swap", "deal", "call", "wait", "done"}
  /\ iter \in Nat \ {0}
  /\ dealer = "call" => queueDeal # <<>> /\ iter \in DOMAIN CurrentList
  /\ dealer = "deal" /\ queueDeal # <<>> => iter - 1 \in 0..Len(CurrentList)
  /\ owner \in {"idle", "join", "clear", "clearFuncs"}
  /\ starts \in 0..MaxStarts
  /\ unposted \subseteq Events
  /\ received \in [Subs -> Seq(Events)]
  /\ oldFuncs \subseteq Topics \X Subs /\ oldEvents \subseteq Events

\* The flag, tested without the mutex, is up exactly when events wait to be
\* swapped: no event waits behind a flag that is down, and no swap is in vain.
FlagMatchesQueue == m_bDataAdded <=> queueAdd # <<>>

\* The two queues, the swap and the locks implement one queue that is dealt
\* with in order (EventBus): callbacks see what they would see there.
Served ==
  IF dealer \in {"deal", "call"} /\ queueDeal # <<>>
  THEN {CurrentList[i] : i \in 1..(iter - 1)} ELSE {}

Bus == INSTANCE EventBus WITH
  pending <- queueDeal \o queueAdd,
  subscribers <- [p \in Topics |-> Range(funcs[p])],
  served <- Served,
  calling <- IF dealer = "call" THEN {CurrentList[iter]} ELSE {}

ImplementsBus == Bus!BusSpec

\* However often the control is stopped and started again, a callback is called with
\* an event once at most, and any two callbacks are called with the events that both
\* of them hear in the same order.
HeardInOneOrder ==
  \A s, u \in Subs :
    \A i, j \in DOMAIN received[s], k, l \in DOMAIN received[u] :
      received[s][i] = received[u][k] /\ received[s][j] = received[u][l]
        => (i < j <=> k < l)

\* Between the return of stop and the next start nothing of the control runs, so
\* that the objects the callbacks use can be destroyed. When stop has returned, and
\* after any restart, no event that waited and no subscription that was there when
\* it was called is left (what came while it was at work may be).
QuietWhenStopped ==
  /\ owner \in {"clear", "clearFuncs"} \/ (owner = "idle" /\ ~m_bTheadRun)
       => dealer = "off" /\ queueDeal = <<>>
  /\ owner = "idle" =>
       /\ \A ps \in oldFuncs : ps[2] \notin Range(funcs[ps[1]])
       /\ \A e \in oldEvents : e \notin Range(queueDeal) \cup Range(queueAdd)

\* A posted event is dealt with, or the control is stopped.
EventsDealt ==
  \A e \in Events :
    m_bTheadRun /\ e \in Range(queueAdd) ~>
      ~m_bTheadRun \/ e \notin Range(queueDeal \o queueAdd)

\* stop returns.
StopReturns == owner = "join" ~> owner = "idle"
=============================================================================
