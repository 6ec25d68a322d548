------------------------------- MODULE EventBus -------------------------------
(***************************************************************************)
(* What the event control of the framework promises its users: posted      *)
(* events are dealt with one at a time and in the order they were posted;  *)
(* the callbacks of an event's topic are called one after the other, each  *)
(* once, and only while somebody else still owns it; the next event comes  *)
(* when no live callback of this one is left out; what is not dealt with   *)
(* when the control is stopped is dropped, subscriptions included.         *)
(*                                                                         *)
(* There is one queue here, and dealing with an event takes no lock.       *)
(***************************************************************************)
EXTENDS Sequences, FiniteSets

CONSTANTS
  Events,        \* posts: each event is posted once
  Topics,
  Subs,          \* callbacks, shared_ptr<CallbackFunc>
  eventName      \* the topic of an event

VARIABLES
  pending,       \* events posted, not completely dealt with
  subscribers,   \* the callbacks of each topic
  owned,         \* callbacks some owner still holds
  served,        \* callbacks that got the first pending event
  calling,       \* the callback being called, as a set of at most one
  received       \* what each callback was called with, in order

busVars == <<pending, subscribers, owned, served, calling, received>>

BusInit ==
  /\ pending = <<>>
  /\ subscribers = [p \in Topics |-> {}]
  /\ owned = Subs
  /\ served = {} /\ calling = {}
  /\ received = [s \in Subs |-> <<>>]

Post(e) ==
  /\ pending' = Append(pending, e)
  /\ UNCHANGED <<subscribers, owned, served, calling, received>>

\* Nobody subscribes to a topic while an event is being dealt with.
Subscribe(p, s) ==
  /\ s \in owned
  /\ served = {} /\ calling = {}
  /\ subscribers' = [subscribers EXCEPT ![p] = @ \cup {s}]
  /\ UNCHANGED <<pending, owned, served, calling, received>>

\* The owner gives its callback up, perhaps in the middle of a call of it.
Release(s) ==
  /\ owned' = owned \ {s}
  /\ UNCHANGED <<pending, subscribers, served, calling, received>>

Call(s) ==
  /\ pending # <<>> /\ calling = {}
  /\ s \in (subscribers[eventName[Head(pending)]] \cap owned) \ served
  /\ calling' = {s}
  /\ received' = [received EXCEPT ![s] = Append(@, Head(pending))]
  /\ UNCHANGED <<pending, subscribers, owned, served>>

Return(s) ==
  /\ calling = {s}
  /\ calling' = {}
  /\ served' = served \cup {s}
  /\ UNCHANGED <<pending, subscribers, owned, received>>

\* The bus forgets a callback that nobody owns.
Forget(p, s) ==
  /\ s \in subscribers[p] \ owned /\ s \notin served
  /\ subscribers' = [subscribers EXCEPT ![p] = @ \ {s}]
  /\ UNCHANGED <<pending, owned, served, calling, received>>

\* The first event is done with: every callback of its topic had its call.
Complete ==
  /\ pending # <<>> /\ calling = {}
  /\ subscribers[eventName[Head(pending)]] \cap owned \subseteq served
  /\ pending' = Tail(pending)
  /\ served' = {}
  /\ UNCHANGED <<subscribers, owned, calling, received>>

\* The control is stopped, between two events.
DropEvents ==
  /\ served = {} /\ calling = {}
  /\ pending' = <<>>
  /\ UNCHANGED <<subscribers, owned, served, calling, received>>

DropSubscribers ==
  /\ served = {} /\ calling = {}
  /\ subscribers' = [p \in Topics |-> {}]
  /\ UNCHANGED <<pending, owned, served, calling, received>>

BusNext ==
  \/ \E e \in Events : Post(e)
  \/ \E p \in Topics, s \in Subs : Subscribe(p, s) \/ Forget(p, s)
  \/ \E s \in Subs : Release(s) \/ Call(s) \/ Return(s)
  \/ Complete \/ DropEvents \/ DropSubscribers

BusSpec == BusInit /\ [][BusNext]_busVars
=============================================================================
