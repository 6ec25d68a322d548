------------------------------ MODULE Framework ------------------------------
(***************************************************************************)
(* mmrCore::CCompFramework::run as a server: the main thread starts the    *)
(* event control and the components, loops over the timers, and tears all  *)
(* down again; beside it run the event thread (EventCtrl), the detached    *)
(* command thread dealCmd, and the license thread, which posts one event   *)
(* "stop" when there is no license.                                        *)
(*                                                                         *)
(* The variables and actions of EventCtrl are part of this module; what    *)
(* the callbacks do, which EventCtrl leaves open, happens here as they     *)
(* return. After std::terminate nothing happens any more.                  *)
(***************************************************************************)
EXTENDS Integers, Sequences, FiniteSets

CONSTANTS
  Events, Topics, Subs, eventName, MaxStarts,    \* as in EventCtrl
  StopTopic,      \* "stop"
  LicenseEvent,   \* the event of licenseThread; the others are components'
  handler         \* handleEvent as a callback; the others are components'

ASSUME FrameworkAssumption ==
  /\ eventName \in [Events -> Topics] /\ MaxStarts \in Nat
  /\ StopTopic \in Topics /\ handler \in Subs
  /\ LicenseEvent \in Events /\ eventName[LicenseEvent] = StopTopic

VARIABLES
  m_bTheadRun, m_bDataAdded, queueAdd, queueDeal, funcs, owned, dealer, iter,
  owner, starts, unposted, received, oldFuncs, oldEvents,  \* as in EventCtrl
  main,        \* where the main thread is in run
  bRunflag,
  cmd,         \* where dealCmd is
  license,     \* where licenseThread is
  comps,       \* m_mapComponents: none, loaded, started, stopped
  libs,        \* libraries of m_libHandl are loaded
  registered,  \* which tables of the framework hold anything of components
  asked,       \* history: -q was confirmed or a stop event was handled
  terminated   \* std::terminate was called

EC == INSTANCE EventCtrl

eventVars == <<m_bTheadRun, m_bDataAdded, queueAdd, queueDeal, funcs, owned,
               dealer, iter, owner, starts, unposted, received, oldFuncs, oldEvents>>
threadVars == <<cmd, license, asked, terminated>>
compVars == <<comps, libs, registered>>
vars == <<eventVars, main, bRunflag, threadVars, compVars>>

\* What the components put into the framework: services (registService), log
\* wrappers, timers (addTimerCallbackWk), and commands.
Tables == {"services", "loggers", "timers", "commands"}

Init ==
  /\ EC!Init
  /\ main = "events" /\ bRunflag = FALSE
  /\ cmd = "off" /\ license = "off"
  /\ comps = "none" /\ libs = FALSE /\ registered = {}
  /\ asked = FALSE /\ terminated = FALSE

\* A step of the main thread, which alone touches comps, libs and registered.
Main(from, to) == main = from /\ main' = to /\ UNCHANGED threadVars

----------------------------------------------------------------------------
(* start, in its order *)

StartEvents ==                                                 \* line 243
  /\ Main("events", "load")
  /\ EC!start
  /\ UNCHANGED <<bRunflag, compVars>>

Starting == {"events", "load", "init", "subscribe", "license", "flag"}

\* A configuration that is missing or incomplete (130-134, 245-250), or anything
\* that throws (370-379), the last thread included, for which the flag is set
\* already (366). start returns false and leaves the event thread, and the license
\* thread if it got so far, running.
StartFails ==
  /\ \E at \in Starting : Main(at, "failed")
  /\ bRunflag' \in IF main = "flag" THEN {bRunflag, TRUE} ELSE {bRunflag}
  /\ UNCHANGED <<eventVars, compVars>>

\* Lines 252-286: loading a library registers its component (CCompRegister).
LoadLibs ==
  /\ Main("load", "init")
  /\ libs' = TRUE /\ comps' = "loaded"
  /\ UNCHANGED <<eventVars, bRunflag, registered>>

\* Within lines 288-303: initialise of a component subscribes a callback.
InitSubscribes(p, s) ==
  /\ Main("init", "init")
  /\ s # handler /\ EC!addFunc(p, s)
  /\ UNCHANGED <<bRunflag, compVars>>

\* Lines 288-312: the components fill the tables as they initialise and start.
InitComps ==
  /\ Main("init", "subscribe")
  /\ comps' = "started"
  /\ registered' \in SUBSET Tables
  /\ UNCHANGED <<eventVars, bRunflag, libs>>

SubscribeStop ==                                               \* line 316
  /\ Main("subscribe", "license")
  /\ EC!addFunc(StopTopic, handler)
  /\ UNCHANGED <<bRunflag, compVars>>

\* Lines 327-362: the license thread, and the framework's own commands.
StartLicense ==
  /\ main = "license" /\ main' = "flag"
  /\ license' = "waiting"
  /\ registered' = registered \cup {"commands"}
  /\ UNCHANGED <<eventVars, bRunflag, cmd, asked, terminated, comps, libs>>

DetachOnly ==             \* a slip: line 366 is missing
  /\ main = "flag" /\ main' = "test"
  /\ cmd' = "test"
  /\ UNCHANGED <<eventVars, bRunflag, license, asked, terminated, compVars>>

\* Lines 366-367: set bRunflag, detach dealCmd.
StartCommands ==
  /\ main = "flag" /\ main' = "test"
  /\ bRunflag' = TRUE
  /\ cmd' = "test"
  /\ UNCHANGED <<eventVars, license, asked, terminated, compVars>>

----------------------------------------------------------------------------
(* waitAndDealTimer *)

TestRunflag ==                                                 \* line 489
  /\ Main("test", IF bRunflag THEN "tick" ELSE "stopEvents")
  /\ UNCHANGED <<eventVars, bRunflag, compVars>>

\* Lines 494-516: the timers, then a wait of a second that any wake-up ends.
Tick ==
  /\ Main("tick", "test")
  /\ UNCHANGED <<eventVars, bRunflag, compVars>>

----------------------------------------------------------------------------
(* stop, in its order *)

StopEventsLast ==         \* a slip: the components are stopped first
  /\ Main("stopEvents", "stopComps")
  /\ UNCHANGED <<eventVars, bRunflag, compVars>>

\* Line 388: m_ptrEventCtrl->stop(), a call of several steps.
StopEvents ==
  /\ Main("stopEvents", "joinEvents")
  /\ EC!stop
  /\ UNCHANGED <<bRunflag, compVars>>

StopEventsGoesOn(step) ==
  /\ Main("joinEvents", "joinEvents")
  /\ step
  /\ UNCHANGED <<bRunflag, compVars>>

JoinsNobody == StopEventsGoesOn(EC!JoinNobody)     \* a slip

JoinEventThread == StopEventsGoesOn(EC!Join)
ClearEvents == StopEventsGoesOn(EC!clearData)
ClearCallbacks == StopEventsGoesOn(EC!clearFuncs)

EventsStopped ==
  /\ Main("joinEvents", "stopComps")
  /\ owner = "idle"
  /\ UNCHANGED <<eventVars, bRunflag, compVars>>

StopComps ==                                                   \* 391-394
  /\ Main("stopComps", "clear")
  /\ comps' = "stopped"
  /\ UNCHANGED <<eventVars, bRunflag, libs, registered>>

ClearCompsOnly ==         \* a slip: lines 399-401 come after the unloading
  /\ Main("clear", "unload")
  /\ comps' = "none"
  /\ UNCHANGED <<eventVars, bRunflag, libs, registered>>

\* Lines 397-401: the components are destroyed, the tables cleared.
ClearComps ==
  /\ Main("clear", "unload")
  /\ comps' = "none" /\ registered' = {}
  /\ UNCHANGED <<eventVars, bRunflag, libs>>

UnloadLibs ==                                                  \* 404-412
  /\ Main("unload", "singletons")
  /\ libs' = FALSE
  /\ UNCHANGED <<eventVars, bRunflag, comps, registered>>

\* Lines 421-428: the thread pool, the allocators, the logger, in this order.
DestroySingletons ==
  /\ Main("singletons", "returned")
  /\ UNCHANGED <<eventVars, bRunflag, compVars>>

MainThread ==
  \/ StartEvents \/ LoadLibs \/ InitComps \/ SubscribeStop \/ StartLicense
  \/ StartCommands \/ TestRunflag \/ Tick
  \/ StopEvents \/ JoinEventThread \/ ClearEvents \/ ClearCallbacks
  \/ EventsStopped \/ StopComps \/ ClearComps \/ UnloadLibs
  \/ DestroySingletons

----------------------------------------------------------------------------
(* The event thread *)

\* handleEvent is called with a stop event, whoever posted it, and returns.
Handling == dealer = "call" /\ EC!CurrentList[iter] = handler

HandleAnyway ==           \* a slip: the handler forgets to clear bRunflag
  /\ Handling
  /\ EC!CallReturns
  /\ asked' = TRUE
  /\ UNCHANGED <<main, bRunflag, cmd, license, terminated, compVars>>

HandleStop ==                                                  \* 93-97
  /\ Handling /\ bRunflag
  /\ EC!CallReturns
  /\ bRunflag' = FALSE /\ asked' = TRUE
  /\ UNCHANGED <<main, cmd, license, terminated, compVars>>

HandleTerminate ==                                             \* 88-91
  /\ Handling /\ ~bRunflag
  /\ terminated' = TRUE
  /\ UNCHANGED <<eventVars, main, bRunflag, cmd, license, asked, compVars>>

\* All else the event thread does, a component's callback included.
DealEvents ==
  /\ ~Handling
  /\ EC!Dealer
  /\ UNCHANGED <<main, bRunflag, threadVars, compVars>>

EventThread == HandleStop \/ HandleTerminate \/ DealEvents

----------------------------------------------------------------------------
(* dealCmd *)

Cmd(from, to) ==
  /\ cmd = from /\ cmd' = to
  /\ UNCHANGED <<eventVars, main, license, terminated, compVars>>

CmdTest ==                                                     \* line 541
  /\ Cmd("test", IF bRunflag THEN "read" ELSE "exit")
  /\ UNCHANGED <<bRunflag, asked>>

\* Lines 547-551: the line names a command of m_mapCmdFunc, which may read on.
CmdRun ==
  /\ Cmd("read", "command") /\ "commands" \in registered
  /\ UNCHANGED <<bRunflag, asked>>

CmdReturns == Cmd("command", "test") /\ UNCHANGED <<bRunflag, asked>>

\* -h, an unknown command, or a -q that is not confirmed.
CmdOther == Cmd("read", "test") /\ UNCHANGED <<bRunflag, asked>>

CmdQuit ==                                                     \* 563-573
  /\ Cmd("read", "exit")
  /\ asked' = TRUE
  /\ UNCHANGED bRunflag

CmdExitKeeps == Cmd("exit", "done") /\ UNCHANGED <<bRunflag, asked>>  \* a slip

CmdExit ==                                                     \* 587-588
  /\ Cmd("exit", "done")
  /\ bRunflag' = FALSE
  /\ UNCHANGED asked

----------------------------------------------------------------------------
(* The license thread and the components *)

\* Lines 90-111: the trial time is over, or the wait ends early and spuriously;
\* the license is not OK (CLicenseObj::checkLicense accepts none).
LicenseStops ==
  /\ license = "waiting" /\ license' = "done"
  /\ EC!addEvenVartData(LicenseEvent)
  /\ UNCHANGED <<main, bRunflag, cmd, asked, terminated, compVars>>

\* A component posts an event or gives a callback up, from a thread of its own.
CompPosts(e) ==
  /\ comps \in {"loaded", "started"}
  /\ e # LicenseEvent /\ EC!addEvenVartData(e)
  /\ UNCHANGED <<main, bRunflag, threadVars, compVars>>

CompReleases(s) ==
  /\ comps \in {"loaded", "started"}
  /\ s # handler /\ EC!Release(s)
  /\ UNCHANGED <<main, bRunflag, threadVars, compVars>>

----------------------------------------------------------------------------
Step ==
  \/ MainThread \/ StartFails
  \/ \E p \in Topics, s \in Subs : InitSubscribes(p, s)
  \/ EventThread
  \/ CmdTest \/ CmdRun \/ CmdReturns \/ CmdOther \/ CmdQuit \/ CmdExit
  \/ LicenseStops
  \/ \E e \in Events : CompPosts(e)
  \/ \E s \in Subs : CompReleases(s)

Next == ~terminated /\ Step

Spec == Init /\ [][Next]_vars

\* The main thread and the event thread are scheduled and their callbacks
\* return; dealCmd goes on once it leaves its loop, but waits for its user.
Fairness ==
  /\ WF_vars(~terminated /\ MainThread)
  /\ WF_vars(~terminated /\ EventThread)
  /\ WF_vars(~terminated /\ CmdExit)

FairSpec == Spec /\ Fairness

----------------------------------------------------------------------------
(* Properties *)

Stopping == {"stopComps", "clear", "unload", "singletons", "returned"}

\* The variables, those of the event control included, keep their types and
\* iterFunc stays on its list: stop does not clear what the thread works on.
TypeOK ==
  /\ EC!TypeOK
  /\ main \in Starting \cup Stopping
               \cup {"test", "tick", "stopEvents", "joinEvents", "failed"}
  /\ bRunflag \in BOOLEAN /\ asked \in BOOLEAN /\ terminated \in BOOLEAN
  /\ cmd \in {"off", "test", "read", "command", "exit", "done"}
  /\ license \in {"off", "waiting", "done"}
  /\ comps \in {"none", "loaded", "started", "stopped"}
  /\ libs \in BOOLEAN /\ registered \subseteq Tables

\* No event callback runs, and none can start, from the moment the first
\* component is stopped: callbacks use what stop of a component takes apart.
NoCallbackInTeardown ==
  TypeOK /\ (main \in Stopping => dealer = "off" /\ ~m_bTheadRun)

\* Line 396 "before the libraries are unloaded, clear the pointers that come from
\* them": with no library loaded, no component, service, timer, log wrapper,
\* command or subscription of one is left, and no event thread to call one.
NothingLeftOfLibs ==
  ~libs /\ main \in Stopping =>
    /\ comps = "none" /\ registered = {}
    /\ \A p \in Topics : funcs[p] = <<>>
    /\ dealer = "off"

\* The server does not end by itself: it tears down only after a confirmed -q or
\* a handled stop event (and not because its flag is not yet set).
RunsUntilAsked == main \in {"stopEvents", "joinEvents"} \cup Stopping => asked

\* The stop event of the license thread ends the program, and so does a confirmed
\* -q, whatever else goes on, by a return of run or by std::terminate, unless start
\* has failed meanwhile: the event is neither posted before its handler is subscribed
\* nor lost on the way, and the notify, which takes no mutex, may be missed.
AskedEndsRun ==
  license = "done" \/ cmd = "exit" ~> main \in {"returned", "failed"} \/ terminated

=============================================================================
