---------------------------- MODULE FrameworkProofs ----------------------------
(***************************************************************************)
(* Theorems about Framework, for any components' events, topics and        *)
(* callbacks.  What the event control keeps to is taken from its own       *)
(* theorems: every step of the framework is one of the control, or leaves  *)
(* the control alone.                                                      *)
(***************************************************************************)
EXTENDS Framework, TLAPS

ECP == INSTANCE EventCtrlProofs

LEMMA ControlAssumption == ECP!EventAssumption
  BY FrameworkAssumption DEF ECP!EventAssumption

\* The control as Framework names it is the one the theorems are about.
LEMMA SameControl ==
  /\ EC!Init => ECP!Init
  /\ EC!Next => ECP!Next
  /\ EC!vars = ECP!vars
  /\ EC!TypeOK <=> ECP!TypeOK
<1>1. EC!Init => ECP!Init
  BY DEF EC!Init, ECP!Init
<1>2. EC!vars = ECP!vars
  BY DEF EC!vars, ECP!vars
<1>3. EC!TypeOK <=> ECP!TypeOK
  BY DEF EC!TypeOK, ECP!TypeOK, EC!CurrentList, ECP!CurrentList
<1>4. EC!Dealer => ECP!Dealer
  BY DEF EC!Dealer, EC!TestRun, EC!TestAdded, EC!Swap, EC!CallNext, EC!CallReturns,
     EC!EraseExpired, EC!PopEvent, EC!DealtAll, EC!Wake, EC!Deal, EC!CurrentList,
     EC!Hears, EC!RemoveAt, EC!old,
     ECP!Dealer, ECP!TestRun, ECP!TestAdded, ECP!Swap, ECP!CallNext,
     ECP!CallReturns, ECP!EraseExpired, ECP!PopEvent, ECP!DealtAll, ECP!Wake,
     ECP!Deal, ECP!CurrentList, ECP!Hears, ECP!RemoveAt, ECP!old
<1>5. /\ \A p \in Topics, s \in Subs : EC!addFunc(p, s) => ECP!addFunc(p, s)
      /\ \A s \in Subs : EC!Release(s) => ECP!Release(s)
      /\ \A e \in Events : EC!addEvenVartData(e) => ECP!addEvenVartData(e)
  BY DEF EC!addFunc, EC!Release, EC!addEvenVartData, EC!FuncLocked, EC!dealVars,
     EC!Contains, EC!old,
     ECP!addFunc, ECP!Release, ECP!addEvenVartData, ECP!FuncLocked, ECP!dealVars,
     ECP!Contains, ECP!old
<1>6. /\ EC!start => ECP!start
      /\ EC!stop => ECP!stop
      /\ EC!Join => ECP!Join
      /\ EC!clearData => ECP!clearData
      /\ EC!clearFuncs => ECP!clearFuncs
  BY DEF EC!start, EC!stop, EC!Join, EC!clearData, EC!clearFuncs, EC!FuncLocked,
     EC!dealVars, EC!old, EC!Range,
     ECP!start, ECP!stop, ECP!Join, ECP!clearData, ECP!clearFuncs, ECP!FuncLocked,
     ECP!dealVars, ECP!old, ECP!Range
<1>7. EC!Next => ECP!Next
  BY <1>4, <1>5, <1>6 DEF EC!Next, ECP!Next
<1> QED BY <1>1, <1>2, <1>3, <1>7

\* What the framework does to its event control, the control allows.
LEMMA ControlStep == [Next]_vars => [EC!Next]_(EC!vars)
<1> SUFFICES ASSUME [Next]_vars PROVE [EC!Next]_(EC!vars)
  OBVIOUS
<1>1. UNCHANGED eventVars => UNCHANGED EC!vars
  BY DEF eventVars, EC!vars
<1>2. MainThread => EC!Next \/ UNCHANGED eventVars
  BY FrameworkAssumption
     DEF MainThread, StartEvents, LoadLibs, InitComps, SubscribeStop, StartLicense,
     StartCommands, TestRunflag, Tick, StopEvents, JoinEventThread, ClearEvents,
     ClearCallbacks, StopEventsGoesOn, EventsStopped, StopComps, ClearComps,
     UnloadLibs, DestroySingletons, EC!Next
<1>3. StartFails => UNCHANGED eventVars
  BY DEF StartFails
<1>4. EventThread => EC!Next \/ UNCHANGED eventVars
  BY DEF EventThread, HandleStop, HandleTerminate, DealEvents, EC!Next, EC!Dealer
<1>5. CmdTest \/ CmdRun \/ CmdReturns \/ CmdOther \/ CmdQuit \/ CmdExit
        => UNCHANGED eventVars
  BY DEF CmdTest, CmdRun, CmdReturns, CmdOther, CmdQuit, CmdExit, Cmd
<1>6. LicenseStops => EC!Next
  BY FrameworkAssumption DEF LicenseStops, EC!Next
<1>7. \A e \in Events : CompPosts(e) => EC!Next
  BY DEF CompPosts, EC!Next
<1>8. \A s \in Subs : CompReleases(s) => EC!Next
  BY DEF CompReleases, EC!Next
<1>9. \A p \in Topics, s \in Subs : InitSubscribes(p, s) => EC!Next
  BY DEF InitSubscribes, EC!Next
<1>10. UNCHANGED vars => UNCHANGED eventVars
  BY DEF vars
<1> QED BY <1>1, <1>2, <1>3, <1>4, <1>5, <1>6, <1>7, <1>8, <1>9, <1>10
        DEF Next, Step

\* The framework, seen through the event control's variables, is the control.
THEOREM ControlUsed == Spec => EC!Spec
<1>1. Init => EC!Init
  BY DEF Init
<1> QED BY <1>1, ControlStep, PTL DEF Spec, EC!Spec

\* What the control's own theorems say of the framework's states.
Control == ECP!TypeOK /\ ECP!Places /\ ECP!Phases

LEMMA ControlCorrect == Spec => []Control
<1>1. Init => Control
  BY ControlAssumption, SameControl, ECP!PlacesInit, ECP!TypeInit
     DEF Init, Control
<1>2. [Next]_vars => [ECP!Next]_(ECP!vars)
  BY SameControl, ControlStep DEF EC!vars, ECP!vars
<1>3. ECP!Places /\ ECP!Phases /\ [ECP!Next]_(ECP!vars)
        => ECP!Places' /\ ECP!Phases'
  BY ControlAssumption, ECP!PlacesStep
<1>4. ECP!TypeOK /\ ECP!Places /\ ECP!Phases /\ [ECP!Next]_(ECP!vars)
        => ECP!TypeOK'
  BY ControlAssumption, ECP!TypeStep
<1>5. Control /\ [Next]_vars => Control'
  BY <1>2, <1>3, <1>4 DEF Control
<1> QED BY <1>1, <1>5, PTL DEF Spec

----------------------------------------------------------------------------
(* Where the main thread is in run tells what it has and has not done yet. *)

\* Types of what the framework adds to the control.
Threads ==
  /\ main \in Starting \cup Stopping
               \cup {"test", "tick", "stopEvents", "joinEvents", "failed"}
  /\ bRunflag \in BOOLEAN /\ asked \in BOOLEAN /\ terminated \in BOOLEAN
  /\ cmd \in {"off", "test", "read", "command", "exit", "done"}
  /\ license \in {"off", "waiting", "done"}
  /\ comps \in {"none", "loaded", "started", "stopped"}
  /\ libs \in BOOLEAN /\ registered \subseteq Tables

\* The flag is raised before the timers run and the command thread is there, and
\* whoever clears it, or leaves the command loop, was asked to.
FlagKept ==
  /\ main \in {"test", "tick"} => cmd # "off"
  /\ cmd # "off" => bRunflag \/ asked
  /\ cmd = "exit" => asked
  /\ main \in {"stopEvents", "joinEvents"} \cup Stopping => asked

\* stop has told the event thread to end, and waits for that, before it turns to
\* the components.
ControlStopped ==
  /\ main \in {"joinEvents"} \cup Stopping => ~m_bTheadRun
  /\ main \in Stopping => owner = "idle"
  /\ main \in Stopping \/ (main = "joinEvents" /\ owner = "idle")
       => \A p \in Topics : funcs[p] = <<>>

\* The libraries stay while a component, or a table, may hold anything of them.
LibsKept ==
  /\ main \in {"init", "subscribe", "license", "flag", "test", "tick", "stopEvents",
               "joinEvents", "stopComps", "clear", "unload"} => libs
  /\ main \in {"unload", "singletons", "returned"}
       => comps = "none" /\ registered = {}

Inv == Threads /\ FlagKept /\ ControlStopped /\ LibsKept

LEMMA InvInit == Init => Inv
  BY DEF Init, Inv, Threads, FlagKept, ControlStopped, LibsKept, Starting, Stopping,
     Tables, EC!Init

LEMMA ThreadsStep == Threads /\ [Next]_vars => Threads'
<1> SUFFICES ASSUME Threads, [Next]_vars PROVE Threads'
  OBVIOUS
<1> USE DEF Threads, Starting, Stopping
<1>1. CASE InitComps
  BY <1>1 DEF InitComps, Main, threadVars
<1>2. CASE StartLicense
  BY <1>2 DEF StartLicense, Tables
<1>3. CASE StartEvents \/ LoadLibs \/ SubscribeStop \/ StopEvents \/ StartFails
  <2>1. CASE StartEvents \/ LoadLibs
    BY <2>1 DEF StartEvents, LoadLibs, Main, threadVars, compVars
  <2>2. CASE SubscribeStop \/ StopEvents
    BY <2>2 DEF SubscribeStop, StopEvents, Main, threadVars, compVars
  <2>3. CASE StartFails
    <3>1. main' = "failed" /\ UNCHANGED compVars
      BY <2>3 DEF StartFails, Main
    <3>2. bRunflag' \in {bRunflag, TRUE}
      BY <2>3 DEF StartFails
    <3> QED BY <2>3, <3>1, <3>2 DEF StartFails, Main, threadVars, compVars
  <2> QED BY <1>3, <2>1, <2>2, <2>3
<1>4. CASE StartCommands \/ TestRunflag \/ Tick
  BY <1>4 DEF StartCommands, TestRunflag, Tick, Main, threadVars, compVars
<1>5. CASE JoinEventThread \/ ClearEvents \/ ClearCallbacks \/ EventsStopped
  BY <1>5 DEF JoinEventThread, ClearEvents, ClearCallbacks, StopEventsGoesOn,
     EventsStopped, Main, threadVars, compVars
<1>6. CASE StopComps \/ ClearComps \/ UnloadLibs \/ DestroySingletons
  <2>1. CASE StopComps \/ ClearComps
    BY <2>1 DEF StopComps, ClearComps, Main, threadVars, compVars
  <2>2. CASE UnloadLibs
    BY <2>2 DEF UnloadLibs, Main, threadVars
  <2>3. CASE DestroySingletons
    BY <2>3 DEF DestroySingletons, Main, threadVars, compVars
  <2> QED BY <1>6, <2>1, <2>2, <2>3
<1>7. CASE EventThread
  <2>1. CASE HandleStop \/ HandleTerminate
    BY <2>1 DEF HandleStop, HandleTerminate, threadVars, compVars
  <2>2. CASE DealEvents
    BY <2>2 DEF DealEvents, threadVars, compVars
  <2> QED BY <1>7, <2>1, <2>2 DEF EventThread
<1>8. CASE CmdTest \/ CmdRun \/ CmdReturns \/ CmdOther \/ CmdQuit \/ CmdExit
  BY <1>8 DEF CmdTest, CmdRun, CmdReturns, CmdOther, CmdQuit, CmdExit, Cmd, compVars
<1>9. CASE LicenseStops
  BY <1>9 DEF LicenseStops, compVars
<1>10. CASE \/ \E e \in Events : CompPosts(e)
            \/ \E s \in Subs : CompReleases(s)
            \/ \E p \in Topics, s \in Subs : InitSubscribes(p, s)
  BY <1>10 DEF CompPosts, CompReleases, InitSubscribes, Main, threadVars, compVars
<1>11. CASE UNCHANGED vars
  BY <1>11 DEF vars, threadVars, compVars
<1> QED BY <1>1, <1>2, <1>3, <1>4, <1>5, <1>6, <1>7, <1>8, <1>9, <1>10, <1>11
        DEF Next, Step, MainThread

LEMMA FlagKeptStep == Threads /\ FlagKept /\ [Next]_vars => FlagKept'
<1> SUFFICES ASSUME Threads, FlagKept, [Next]_vars PROVE FlagKept'
  OBVIOUS
<1> USE DEF Threads, FlagKept, Starting, Stopping
<1>1. CASE StartEvents \/ LoadLibs \/ InitComps \/ SubscribeStop \/ StartFails
  BY <1>1 DEF StartEvents, LoadLibs, InitComps, SubscribeStop, StartFails, Main,
     threadVars
<1>2. CASE StartLicense \/ StartCommands \/ TestRunflag \/ Tick
  BY <1>2 DEF StartLicense, StartCommands, TestRunflag, Tick, Main, threadVars
<1>3. CASE StopEvents \/ JoinEventThread \/ ClearEvents \/ ClearCallbacks
  BY <1>3 DEF StopEvents, JoinEventThread, ClearEvents, ClearCallbacks,
     StopEventsGoesOn, Main, threadVars
<1>4. CASE EventsStopped \/ StopComps \/ ClearComps \/ UnloadLibs \/ DestroySingletons
  BY <1>4 DEF EventsStopped, StopComps, ClearComps, UnloadLibs, DestroySingletons,
     Main, threadVars
<1>5. CASE EventThread
  BY <1>5 DEF EventThread, HandleStop, HandleTerminate, DealEvents, threadVars
<1>6. CASE CmdTest \/ CmdRun \/ CmdReturns \/ CmdOther \/ CmdQuit \/ CmdExit
  BY <1>6 DEF CmdTest, CmdRun, CmdReturns, CmdOther, CmdQuit, CmdExit, Cmd
<1>7. CASE LicenseStops
  BY <1>7 DEF LicenseStops
<1>8. CASE \/ \E e \in Events : CompPosts(e)
           \/ \E s \in Subs : CompReleases(s)
           \/ \E p \in Topics, s \in Subs : InitSubscribes(p, s)
  BY <1>8 DEF CompPosts, CompReleases, InitSubscribes, Main, threadVars
<1>9. CASE UNCHANGED vars
  BY <1>9 DEF vars, threadVars
<1> QED BY <1>1, <1>2, <1>3, <1>4, <1>5, <1>6, <1>7, <1>8, <1>9
        DEF Next, Step, MainThread

LEMMA LibsKeptStep == LibsKept /\ [Next]_vars => LibsKept'
<1> SUFFICES ASSUME LibsKept, [Next]_vars PROVE LibsKept'
  OBVIOUS
<1> USE DEF LibsKept
<1>1. CASE StartEvents \/ LoadLibs \/ SubscribeStop \/ StartFails
  BY <1>1 DEF StartEvents, LoadLibs, SubscribeStop, StartFails, Main, compVars
<1>2. CASE InitComps \/ StartLicense
  BY <1>2 DEF InitComps, StartLicense, Main
<1>3. CASE StartCommands \/ TestRunflag \/ Tick
  BY <1>3 DEF StartCommands, TestRunflag, Tick, Main, compVars
<1>4. CASE StopEvents \/ JoinEventThread \/ ClearEvents \/ ClearCallbacks
  BY <1>4 DEF StopEvents, JoinEventThread, ClearEvents, ClearCallbacks,
     StopEventsGoesOn, Main, compVars
<1>5. CASE EventsStopped \/ StopComps \/ ClearComps \/ UnloadLibs \/ DestroySingletons
  BY <1>5 DEF EventsStopped, StopComps, ClearComps, UnloadLibs, DestroySingletons,
     Main, compVars
<1>6. CASE EventThread \/ LicenseStops
  BY <1>6 DEF EventThread, HandleStop, HandleTerminate, DealEvents, LicenseStops,
     compVars
<1>7. CASE CmdTest \/ CmdRun \/ CmdReturns \/ CmdOther \/ CmdQuit \/ CmdExit
  BY <1>7 DEF CmdTest, CmdRun, CmdReturns, CmdOther, CmdQuit, CmdExit, Cmd, compVars
<1>8. CASE \/ \E e \in Events : CompPosts(e)
           \/ \E s \in Subs : CompReleases(s)
           \/ \E p \in Topics, s \in Subs : InitSubscribes(p, s)
  BY <1>8 DEF CompPosts, CompReleases, InitSubscribes, Main, compVars
<1>9. CASE UNCHANGED vars
  BY <1>9 DEF vars, compVars
<1> QED BY <1>1, <1>2, <1>3, <1>4, <1>5, <1>6, <1>7, <1>8, <1>9
        DEF Next, Step, MainThread

\* Only the main thread moves the owner's side of the control.
LEMMA OwnerLeftAlone ==
  /\ EventThread \/ LicenseStops \/ (\E e \in Events : CompPosts(e))
       \/ (\E s \in Subs : CompReleases(s))
       => UNCHANGED <<main, owner, m_bTheadRun>>
  /\ LicenseStops \/ (\E e \in Events : CompPosts(e))
       \/ (\E s \in Subs : CompReleases(s)) \/ HandleStop \/ HandleTerminate
       => UNCHANGED funcs
<1>1. EC!Dealer => UNCHANGED <<owner, m_bTheadRun>>
  BY DEF EC!Dealer, EC!TestRun, EC!TestAdded, EC!Swap, EC!CallNext, EC!CallReturns,
     EC!EraseExpired, EC!PopEvent, EC!DealtAll, EC!Wake, EC!Deal
<1>2. EventThread => UNCHANGED <<main, owner, m_bTheadRun>>
  BY <1>1 DEF EventThread, HandleStop, HandleTerminate, DealEvents, eventVars,
     EC!CallReturns, EC!Deal
<1>3. HandleStop \/ HandleTerminate => UNCHANGED funcs
  BY DEF HandleStop, HandleTerminate, eventVars, EC!CallReturns
<1>4. LicenseStops => UNCHANGED <<main, owner, m_bTheadRun, funcs>>
  BY DEF LicenseStops, EC!addEvenVartData
<1>5. \A e \in Events : CompPosts(e)
        => UNCHANGED <<main, owner, m_bTheadRun, funcs>>
  BY DEF CompPosts, EC!addEvenVartData
<1>6. \A s \in Subs : CompReleases(s)
        => UNCHANGED <<main, owner, m_bTheadRun, funcs>>
  BY DEF CompReleases, EC!Release
<1> QED BY <1>2, <1>3, <1>4, <1>5, <1>6

LEMMA ControlStoppedStep ==
  Control /\ ControlStopped /\ [Next]_vars => ControlStopped'
<1> SUFFICES ASSUME Control, ControlStopped, [Next]_vars PROVE ControlStopped'
  OBVIOUS
<1> USE DEF ControlStopped, Stopping
<1>1. CASE StartEvents \/ SubscribeStop
            \/ (\E p \in Topics, s \in Subs : InitSubscribes(p, s))
  BY <1>1 DEF StartEvents, SubscribeStop, InitSubscribes, Main
<1>2. CASE LoadLibs \/ InitComps \/ StartLicense \/ StartFails
  BY <1>2 DEF LoadLibs, InitComps, StartLicense, StartFails, Main
<1>3. CASE StartCommands \/ TestRunflag \/ Tick
  BY <1>3 DEF StartCommands, TestRunflag, Tick, Main
<1>4. CASE StopEvents
  BY <1>4 DEF StopEvents, EC!stop, Main
<1>5. CASE JoinEventThread \/ ClearEvents
  BY <1>5 DEF JoinEventThread, ClearEvents, StopEventsGoesOn, EC!Join, EC!clearData,
     Main
<1>6. CASE ClearCallbacks
  BY <1>6 DEF ClearCallbacks, StopEventsGoesOn, EC!clearFuncs, Main
<1>7. CASE EventsStopped \/ StopComps \/ ClearComps \/ UnloadLibs \/ DestroySingletons
  BY <1>7 DEF EventsStopped, StopComps, ClearComps, UnloadLibs, DestroySingletons,
     Main, eventVars
<1>8. CASE DealEvents
  <2>1. UNCHANGED <<main, owner, m_bTheadRun>>
    BY <1>8, OwnerLeftAlone DEF EventThread
  <2>2. dealer = "off" => UNCHANGED funcs
    BY <1>8 DEF DealEvents, EC!Dealer, EC!TestRun, EC!TestAdded, EC!Swap,
       EC!CallNext, EC!CallReturns, EC!EraseExpired, EC!PopEvent, EC!DealtAll,
       EC!Wake, EC!Deal
  <2>3. owner = "idle" /\ ~m_bTheadRun => dealer = "off"
    BY DEF Control, ECP!Places, ECP!Phases
  <2> QED BY <2>1, <2>2, <2>3
<1>9. CASE HandleStop \/ HandleTerminate \/ LicenseStops
            \/ (\E e \in Events : CompPosts(e)) \/ (\E s \in Subs : CompReleases(s))
  BY <1>9, OwnerLeftAlone DEF EventThread
<1>10. CASE CmdTest \/ CmdRun \/ CmdReturns \/ CmdOther \/ CmdQuit \/ CmdExit
  BY <1>10 DEF CmdTest, CmdRun, CmdReturns, CmdOther, CmdQuit, CmdExit, Cmd,
     eventVars
<1>11. CASE UNCHANGED vars
  BY <1>11 DEF vars, eventVars
<1> QED BY <1>1, <1>2, <1>3, <1>4, <1>5, <1>6, <1>7, <1>8, <1>9, <1>10, <1>11
        DEF Next, Step, MainThread, EventThread

LEMMA InvCorrect == Spec => [](Control /\ Inv)
<1>1. Control /\ Inv /\ [Next]_vars => Inv'
  BY ThreadsStep, FlagKeptStep, LibsKeptStep, ControlStoppedStep DEF Inv
<1> QED BY <1>1, InvInit, ControlCorrect, PTL DEF Spec

----------------------------------------------------------------------------
\* No callback runs, and none can start, once stop turns to the components; and
\* iterFunc never leaves its list, whatever the callbacks and stop do.
THEOREM NoCallbackInTeardownCorrect == Spec => []NoCallbackInTeardown
<1>1. Control /\ Inv => NoCallbackInTeardown
  <2> SUFFICES ASSUME Control, Inv PROVE NoCallbackInTeardown
    OBVIOUS
  <2>1. TypeOK
    BY SameControl DEF Control, Inv, Threads, TypeOK
  <2>2. main \in Stopping => dealer = "off" /\ ~m_bTheadRun
    BY DEF Control, Inv, ControlStopped, ECP!Places, ECP!Phases
  <2> QED BY <2>1, <2>2 DEF NoCallbackInTeardown
<1> QED BY <1>1, InvCorrect, PTL

\* Nothing that points into a library survives its unloading: no component, no
\* entry of a table, no subscription, and no event thread.
THEOREM NothingLeftOfLibsCorrect == Spec => []NothingLeftOfLibs
<1>1. Control /\ Inv => NothingLeftOfLibs
  BY DEF Control, Inv, ControlStopped, LibsKept, NothingLeftOfLibs, Stopping,
     ECP!Places, ECP!Phases
<1> QED BY <1>1, InvCorrect, PTL

\* The server tears down only when it was asked to, by -q or by a stop event.
THEOREM RunsUntilAskedCorrect == Spec => []RunsUntilAsked
<1>1. Inv => RunsUntilAsked
  BY DEF Inv, FlagKept, RunsUntilAsked
<1> QED BY <1>1, InvCorrect, PTL
=============================================================================
