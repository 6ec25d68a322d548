--------------------------- MODULE ComponentsProofs ---------------------------
(***************************************************************************)
(* Theorems about Components, for any set of the components in any order,  *)
(* any policy of the registry, and any number of threads of the server.    *)
(***************************************************************************)
EXTENDS Components, FiniteSetTheorems, SequenceTheorems, TLAPS

RpcServer == "ProtoRpcServer"
Authority == "AuthorityManager"

\* The components that the loop of this phase has visited.
Visited == {m_mapComponents[i] : i \in 1..visited}

Types ==
  /\ policy \in Policies
  /\ phase \in Phases /\ visited \in 0 .. Len(m_mapComponents)
  /\ m_mapComponents \in Seq(Components)
  /\ loggers \subseteq Enabled
  /\ server \in {"none", "made", "started", "closing", "gone"}
  /\ m_mapCallbacks_ \subseteq {"login"}
  /\ threads \in [Threads -> {"none", "polling", "login", "calling"}]
  /\ g_rpcServer \in BOOLEAN /\ g_althorProcesser \in BOOLEAN /\ alive \in BOOLEAN
  /\ index \in [Interfaces -> Int] /\ m_vecServices \in Seq(Components)

\* In each phase the logger and the activator of ProtoRpcServer are there or not
\* as its loop has or has not visited that component, and so is the server.
Life ==
  /\ phase = "initialise" =>
       /\ loggers = Visited
       /\ g_rpcServer <=> RpcServer \in Visited
       /\ server = IF RpcServer \in Visited THEN "made" ELSE "none"
       /\ m_mapCallbacks_ = {} /\ ~g_althorProcesser
  /\ phase \in {"start", "run"} =>
       /\ loggers = Enabled
       /\ g_rpcServer <=> RpcServer \in Enabled
  /\ phase = "stop" =>
       /\ loggers = Enabled \ Visited
       /\ g_rpcServer <=> RpcServer \in Enabled \ Visited
  /\ phase \in {"start", "run", "stop", "stopped"} =>
       /\ server \in {"none", "made", "started"}
       /\ server = "none" <=> RpcServer \notin Enabled
  /\ phase \in {"stopped", "closing", "unloaded"} => ~g_rpcServer
  /\ phase = "closing" => server \in {"none", "closing", "gone"}
  /\ phase = "unloaded" => server \in {"none", "gone"}
  /\ server \notin {"started", "closing"} => \A t \in Threads : threads[t] = "none"

Registering == Registered \cap DOMAIN Provides

\* What the registry holds under each policy: what was registered, no more.
Registry ==
  /\ phase \in {"closing", "unloaded"} => m_mapServices = <<>> /\ m_vecServices = <<>>
  /\ phase \notin {"closing", "unloaded"} =>
       /\ policy \in {"TypeID", "GUID"} =>
            /\ DOMAIN m_mapServices = {Provides[c] : c \in Registering}
            /\ \A c \in Registering : m_mapServices[Provides[c]] = c
       /\ policy = "Index" =>
            \A c \in DOMAIN Provides :
              IF c \in Registering
              THEN /\ index[Provides[c]] \in 0..(Len(m_vecServices) - 1)
                   /\ m_vecServices[index[Provides[c]] + 1] = c
              ELSE index[Provides[c]] = -1

LoginHung ==
  g_althorProcesser /\ (RpcServer \in Enabled => m_mapCallbacks_ = {"login"})

\* The processor is made before a thread can call it; a start that has visited
\* AuthorityManager has hung the callback on the server there is.
Login ==
  /\ phase \in {"start", "run"} =>
       /\ "login" \in m_mapCallbacks_ => g_althorProcesser
       /\ (\E t \in Threads : threads[t] = "calling") => g_althorProcesser
  /\ phase = "start" /\ Authority \in Visited => LoginHung
  /\ phase = "run" /\ Authority \in Enabled => LoginHung

Inv == Types /\ Life /\ Registry /\ Login /\ DiesOnlyInStop

----------------------------------------------------------------------------
LEMMA ProvidesFacts ==
  /\ DOMAIN Provides = {"ProtoRpcServer", "AppController", "ComponentDemo"}
  /\ \A c, d \in DOMAIN Provides : Provides[c] = Provides[d] => c = d
  /\ Provides["ProtoRpcServer"] = "IProtoRpcServer"
  /\ Interfaces = {Provides[c] : c \in DOMAIN Provides}
  /\ \A c \in DOMAIN Provides : Provides[c] \in Interfaces
<1>1. DOMAIN Provides = {"ProtoRpcServer", "AppController", "ComponentDemo"}
  BY DEF Provides
<1>2. \A c, d \in DOMAIN Provides : Provides[c] = Provides[d] => c = d
  BY DEF Provides
<1>3. Provides["ProtoRpcServer"] = "IProtoRpcServer"
  BY DEF Provides
<1>4. Interfaces = {Provides[c] : c \in DOMAIN Provides}
  BY ComponentsAssumption DEF Range
<1> QED BY <1>1, <1>2, <1>3, <1>4

\* The loop's next component is one of the components, and is visited then.
LEMMA VisitStep ==
  ASSUME Types, NEW c, NEW loop, Visits(c, loop)
  PROVE  /\ c \in Enabled /\ c \in Components
         /\ Visited' = Visited \cup {c} /\ Enabled' = Enabled
         /\ visited' \in 0..Len(m_mapComponents)
<1>1. /\ Len(m_mapComponents) \in Nat
      /\ DOMAIN m_mapComponents = 1..Len(m_mapComponents)
      /\ visited + 1 \in 1..Len(m_mapComponents)
      /\ c = m_mapComponents[visited + 1]
      /\ visited' = visited + 1 /\ m_mapComponents' = m_mapComponents
  BY LenProperties DEF Types, Visits
<1>2. c \in Components
  BY <1>1 DEF Types
<1>3. 1..visited' = (1..visited) \cup {visited + 1}
  BY <1>1 DEF Types
<1>4. Visited' = Visited \cup {c}
  BY <1>1, <1>3 DEF Visited
<1> QED BY <1>1, <1>2, <1>4 DEF Enabled, Range

LEMMA VisitedBounds ==
  ASSUME Types
  PROVE  /\ Visited \subseteq Enabled /\ Enabled \subseteq Components
         /\ visited = 0 => Visited = {}
         /\ visited = Len(m_mapComponents) => Visited = Enabled
<1>1. /\ Len(m_mapComponents) \in Nat /\ visited \in 0..Len(m_mapComponents)
      /\ DOMAIN m_mapComponents = 1..Len(m_mapComponents)
      /\ \A i \in 1..Len(m_mapComponents) : m_mapComponents[i] \in Components
  BY LenProperties, ElementOfSeq DEF Types
<1>2. 1..visited \subseteq 1..Len(m_mapComponents)
  BY <1>1
<1>3. Enabled = {m_mapComponents[i] : i \in 1..Len(m_mapComponents)}
  BY <1>1 DEF Enabled, Range
<1>4. Visited \subseteq Enabled /\ Enabled \subseteq Components
  BY <1>1, <1>2, <1>3 DEF Visited
<1>5. visited = 0 => Visited = {}
  BY DEF Visited
<1> QED BY <1>3, <1>4, <1>5 DEF Visited

LEMMA FrontElements ==
  ASSUME NEW S, NEW q \in Seq(S), NEW n \in 0..Len(q)
  PROVE  Range(SubSeq(q, 1, n)) = {q[i] : i \in 1..n}
<1> DEFINE front == SubSeq(q, 1, n)
<1>1. Len(q) \in Nat
  BY LenProperties
<1>2. /\ front \in Seq(S)
      /\ Len(front) = IF 1 <= n THEN n - 1 + 1 ELSE 0
      /\ \A i \in 1..(n - 1 + 1) : front[i] = q[1 + i - 1]
  BY <1>1, SubSeqProperties
<1>3. Len(front) = n /\ \A i \in 1..n : front[i] = q[i]
  BY <1>1, <1>2
<1> HIDE DEF front
<1>4. DOMAIN front = 1..n
  BY <1>2, <1>3, LenProperties
<1>5. Range(front) = {q[i] : i \in 1..n}
  BY <1>3, <1>4 DEF Range
<1> QED BY <1>5 DEF front

LEMMA RegisteredSoFar ==
  Types => Registered = CASE phase = "initialise" -> Visited
                          [] phase \in {"start", "run", "stop", "stopped"} -> Enabled
                          [] OTHER -> {}
<1>1. Types => Range(SubSeq(m_mapComponents, 1, visited)) = Visited
  BY FrontElements DEF Types, Visited
<1> QED BY <1>1 DEF Registered

\* What a step of the server's threads leaves alone.
LEMMA ThreadFrame ==
  ASSUME NEW t \in Threads, ServerThread(t)
  PROVE  UNCHANGED <<servVars, compVars, phase, visited>>
  BY DEF ServerThread, DealOther, DealLogin, Unregistered, CallProcessor, Respond,
     ThreadGoes, ThreadEnds

LEMMA registServiceType ==
  ASSUME Types, NEW t \in Interfaces, NEW c \in Components, registService(t, c)
  PROVE  /\ index' \in [Interfaces -> Int] /\ m_vecServices' \in Seq(Components)
         /\ policy' = policy
<1>1. CASE policy = "Index"
  <2>1. /\ m_vecServices' = Append(m_vecServices, c)
        /\ index' = [index EXCEPT ![t] = Len(m_vecServices') - 1]
    BY <1>1 DEF registService, EmplaceBack, LastIndex
  <2>2. m_vecServices' \in Seq(Components) /\ Len(m_vecServices') \in Nat
    BY <2>1, AppendProperties, LenProperties DEF Types
  <2> QED BY <2>1, <2>2 DEF registService, Types
<1>2. CASE policy # "Index"
  BY <1>2 DEF registService, Types
<1> QED BY <1>1, <1>2

LEMMA InitInv == Init => Inv
<1> SUFFICES ASSUME Init PROVE Inv
  OBVIOUS
<1>1. PICK enabled \in SUBSET Components : m_mapComponents \in SetToSeqs(enabled)
  BY DEF Init
<1>2. IsFiniteSet(Components)
  <2>1. IsFiniteSet({"ProtoRpcServer"})
    BY FS_Singleton
  <2>2. IsFiniteSet({"ProtoRpcServer"} \cup {"AuthorityManager"})
    BY <2>1, FS_AddElement
  <2>3. IsFiniteSet(({"ProtoRpcServer"} \cup {"AuthorityManager"})
                      \cup {"AppController"})
    BY <2>2, FS_AddElement
  <2>4. IsFiniteSet((({"ProtoRpcServer"} \cup {"AuthorityManager"})
                      \cup {"AppController"}) \cup {"ComponentDemo"})
    BY <2>3, FS_AddElement
  <2>5. Components = (({"ProtoRpcServer"} \cup {"AuthorityManager"})
                      \cup {"AppController"}) \cup {"ComponentDemo"}
    BY DEF Components
  <2> QED BY <2>4, <2>5
<1>3. Cardinality(enabled) \in Nat
  BY <1>2, FS_Subset, FS_CardinalityType
<1>4. m_mapComponents \in [1..Cardinality(enabled) -> Components]
  BY <1>1 DEF SetToSeqs
<1>5. m_mapComponents \in Seq(Components) /\ Len(m_mapComponents) \in Nat
  BY <1>3, <1>4, IsASeq, LenProperties
<1>6. Visited = {}
  BY DEF Init, Visited
<1>7. Types
  <2>1. visited \in 0..Len(m_mapComponents) /\ m_mapComponents \in Seq(Components)
    BY <1>5 DEF Init
  <2>2. /\ policy \in Policies /\ index \in [Interfaces -> Int]
        /\ m_vecServices \in Seq(Components)
    BY EmptySeq DEF Init, ServInit
  <2>3. threads \in [Threads -> {"none", "polling", "login", "calling"}]
    BY DEF Init
  <2>4. /\ phase \in Phases /\ loggers = {} /\ m_mapCallbacks_ = {}
        /\ server = "none" /\ g_rpcServer = FALSE /\ g_althorProcesser = FALSE
        /\ alive = TRUE
    BY DEF Init, Phases
  <2> QED BY <2>1, <2>2, <2>3, <2>4, Zenon DEF Types
<1>8. Life
  BY <1>6 DEF Init, Life
<1>9. Registry
  <2>1. Registering = {}
    BY <1>6, <1>7, RegisteredSoFar DEF Registering, Init
  <2>2. DOMAIN m_mapServices = {}
    BY EmptySeq DEF Init, ServInit
  <2>3. \A c \in DOMAIN Provides : index[Provides[c]] = -1
    BY ProvidesFacts DEF Init, ServInit
  <2> QED BY <2>1, <2>2, <2>3 DEF Registry, Init
<1>10. Login
  BY DEF Init, Login
<1>11. DiesOnlyInStop
  BY DEF Init, DiesOnlyInStop
<1> QED BY <1>7, <1>8, <1>9, <1>10, <1>11 DEF Inv

----------------------------------------------------------------------------
LEMMA TypesStep == Types /\ [Next]_vars => Types'
<1> SUFFICES ASSUME Types, [Next]_vars PROVE Types'
  OBVIOUS
<1>1. ASSUME NEW c, NEW loop, Visits(c, loop)
      PROVE  /\ c \in Enabled /\ c \in Components /\ Enabled' = Enabled
             /\ visited' \in 0..Len(m_mapComponents')
             /\ m_mapComponents' = m_mapComponents
             /\ phase' \in Phases /\ alive' \in BOOLEAN
  BY <1>1, VisitStep DEF Visits, Types
<1>2. ASSUME NEW from, NEW to \in Phases, Goes(from, to)
      PROVE  /\ Enabled' = Enabled /\ visited' \in 0..Len(m_mapComponents')
             /\ m_mapComponents' = m_mapComponents
             /\ phase' \in Phases /\ alive' \in BOOLEAN
  BY <1>2, LenProperties DEF Goes, Types, Enabled
<1>3. CASE initialiseRpcServer
  <2>1. /\ index' \in [Interfaces -> Int] /\ m_vecServices' \in Seq(Components)
        /\ policy' = policy
    BY <1>3, registServiceType, ProvidesFacts DEF initialiseRpcServer, Components
  <2> QED BY <1>1, <1>3, <2>1 DEF initialiseRpcServer, makeLogger, Types
<1>4. ASSUME NEW c \in Components, initialiseOther(c)
      PROVE  Types'
  <2>1. /\ index' \in [Interfaces -> Int] /\ m_vecServices' \in Seq(Components)
        /\ policy' = policy
    <3>1. CASE c \in DOMAIN Provides
      BY <1>4, <3>1, registServiceType, ProvidesFacts DEF initialiseOther
    <3>2. CASE c \notin DOMAIN Provides
      BY <1>4, <3>2 DEF initialiseOther, servVars, Types
    <3> QED BY <3>1, <3>2
  <2> QED BY <1>1, <1>4, <2>1 DEF initialiseOther, makeLogger, Types
<1>5. ASSUME NEW socketMade \in BOOLEAN, startRpcServer(socketMade)
      PROVE  Types'
  BY <1>1, <1>5 DEF startRpcServer, servVars, Types
<1>6. CASE startAuthority
  BY <1>1, <1>6 DEF startAuthority, servVars, Types
<1>7. ASSUME NEW c \in Components, startOther(c)
      PROVE  Types'
  BY <1>1, <1>7 DEF startOther, servVars, Types
<1>8. CASE stopRpcServer
  BY <1>1, <1>8 DEF stopRpcServer, servVars, Types
<1>9. CASE stopAuthority
  BY <1>1, <1>9 DEF stopAuthority, servVars, Types
<1>10. ASSUME NEW c \in Components, stopOther(c)
       PROVE  Types'
  BY <1>1, <1>10 DEF stopOther, servVars, Types
<1>11. ASSUME NEW from, NEW to \in Phases, Goes(from, to) /\ Untouched
       PROVE  Types'
  BY <1>2, <1>11 DEF Untouched, servVars, compVars, Types
<1>12. CASE ClearServices
  <2>1. /\ Enabled' = Enabled /\ visited' \in 0..Len(m_mapComponents')
        /\ m_mapComponents' = m_mapComponents
        /\ phase' \in Phases /\ alive' \in BOOLEAN
    BY <1>2, <1>12 DEF ClearServices, Phases
  <2>2. m_vecServices' \in Seq(Components) /\ UNCHANGED <<policy, index>>
    BY <1>12, EmptySeq DEF ClearServices, clearServices
  <2> QED BY <1>12, <2>1, <2>2 DEF ClearServices, DropServer, Types
<1>13. CASE JoinThreads
  BY <1>13 DEF JoinThreads, servVars, Types, Enabled
<1>14. ASSUME NEW t \in Threads, ServerThread(t)
       PROVE  Types'
  <2>1. threads' \in [Threads -> {"none", "polling", "login", "calling"}]
    BY <1>14 DEF ServerThread, DealOther, DealLogin, Unregistered, CallProcessor,
       Respond, ThreadGoes, ThreadEnds, Types
  <2>2. alive' \in BOOLEAN
    BY <1>14 DEF ServerThread, DealOther, DealLogin, Unregistered, CallProcessor,
       Respond, ThreadGoes, ThreadEnds, Types
  <2> QED BY <1>14, <2>1, <2>2, ThreadFrame DEF servVars, compVars, Types, Enabled
<1>15. CASE UNCHANGED vars
  BY <1>15 DEF vars, servVars, compVars, Types, Enabled
<1>16. {"initialise", "start", "run", "stop", "stopped", "closing", "unloaded"}
         \subseteq Phases
  BY DEF Phases
<1>17. CASE \/ LoopEnds("initialise", "start") /\ Untouched
            \/ LoopEnds("start", "run") /\ Untouched
            \/ AskedToStop
            \/ LoopEnds("stop", "stopped") /\ Untouched
            \/ UnloadLibs
  BY <1>11, <1>16, <1>17 DEF LoopEnds, AskedToStop, UnloadLibs
<1> QED BY <1>3, <1>4, <1>5, <1>6, <1>7, <1>8, <1>9, <1>10, <1>12, <1>13, <1>14,
           <1>15, <1>17
        DEF Next, Main, InitialiseLoop, StartLoop, StopLoop

\* A step of a loop, and a step from one phase to the next, without the data.
LEMMA GoesStep ==
  ASSUME NEW from, NEW to, Goes(from, to)
  PROVE  phase = from /\ phase' = to /\ Visited' = {} /\ Enabled' = Enabled
         /\ alive /\ alive'
<1>1. visited' = 0 /\ m_mapComponents' = m_mapComponents
  BY DEF Goes
<1>2. Visited' = {}
  BY <1>1 DEF Visited
<1> QED BY <1>1, <1>2 DEF Goes, Enabled

LEMMA LifeStep == Types /\ Life /\ [Next]_vars => Life'
<1> SUFFICES ASSUME Types, Life, [Next]_vars PROVE Life'
  OBVIOUS
<1> USE DEF Life
<1>1. ASSUME NEW c, NEW loop, Visits(c, loop)
      PROVE  /\ c \in Enabled /\ Visited' = Visited \cup {c} /\ Enabled' = Enabled
             /\ phase = loop /\ phase' = loop
  BY <1>1, VisitStep DEF Visits
<1>2. CASE initialiseRpcServer
  BY <1>1, <1>2 DEF initialiseRpcServer, makeLogger, RpcServer
<1>3. ASSUME NEW c \in Components, initialiseOther(c)
      PROVE  Life'
  BY <1>1, <1>3 DEF initialiseOther, makeLogger, RpcServer
<1>4. ASSUME NEW socketMade \in BOOLEAN, startRpcServer(socketMade)
      PROVE  Life'
  BY <1>1, <1>4 DEF startRpcServer, RpcServer
<1>5. CASE startAuthority
  BY <1>1, <1>5 DEF startAuthority
<1>6. ASSUME NEW c \in Components, startOther(c)
      PROVE  Life'
  BY <1>1, <1>6 DEF startOther
<1>7. CASE stopRpcServer
  BY <1>1, <1>7 DEF stopRpcServer, RpcServer
<1>8. CASE stopAuthority
  BY <1>1, <1>8 DEF stopAuthority, RpcServer
<1>9. ASSUME NEW c \in Components, stopOther(c)
      PROVE  Life'
  BY <1>1, <1>9 DEF stopOther, RpcServer
<1>10. CASE LoopEnds("initialise", "start") /\ Untouched
  <2>1. phase = "initialise" /\ phase' = "start" /\ Enabled' = Enabled
        /\ Visited = Enabled
    BY <1>10, GoesStep, VisitedBounds DEF LoopEnds
  <2> QED BY <1>10, <2>1 DEF Untouched, compVars
<1>11. CASE LoopEnds("start", "run") /\ Untouched
  BY <1>11, GoesStep DEF LoopEnds, Untouched, compVars
<1>12. CASE AskedToStop
  BY <1>12, GoesStep DEF AskedToStop, Untouched, compVars
<1>13. CASE LoopEnds("stop", "stopped") /\ Untouched
  <2>1. phase = "stop" /\ phase' = "stopped" /\ Enabled' = Enabled
        /\ Visited = Enabled
    BY <1>13, GoesStep, VisitedBounds DEF LoopEnds
  <2> QED BY <1>13, <2>1 DEF Untouched, compVars
<1>14. CASE ClearServices
  <2>1. phase = "stopped" /\ phase' = "closing"
    BY <1>14, GoesStep DEF ClearServices
  <2> QED BY <1>14, <2>1 DEF ClearServices, DropServer
<1>15. CASE JoinThreads
  BY <1>15 DEF JoinThreads
<1>16. CASE UnloadLibs
  BY <1>16, GoesStep DEF UnloadLibs, Untouched, compVars
<1>17. ASSUME NEW t \in Threads, ServerThread(t)
       PROVE  Life'
  <2>1. UNCHANGED <<phase, Visited, Enabled, loggers, g_rpcServer, server,
                    m_mapCallbacks_, g_althorProcesser>>
    BY <1>17, ThreadFrame DEF compVars, Visited, Enabled
  <2>2. threads[t] # "none"
    BY <1>17 DEF ServerThread, DealOther, DealLogin, Unregistered, CallProcessor,
       Respond, ThreadGoes, ThreadEnds
  <2>3. server \in {"started", "closing"}
    BY <2>2
  <2> QED BY <2>1, <2>3
<1>18. CASE UNCHANGED vars
  BY <1>18 DEF vars, compVars, Visited, Enabled
<1> QED BY <1>2, <1>3, <1>4, <1>5, <1>6, <1>7, <1>8, <1>9, <1>10, <1>11, <1>12,
           <1>13, <1>14, <1>15, <1>16, <1>17, <1>18
        DEF Next, Main, InitialiseLoop, StartLoop, StopLoop

LEMMA DiesOnlyInStopStep == Types /\ Life /\ DiesOnlyInStop /\ [Next]_vars
                              => DiesOnlyInStop'
<1> SUFFICES ASSUME Types, Life, DiesOnlyInStop, [Next]_vars PROVE DiesOnlyInStop'
  OBVIOUS
<1> USE DEF DiesOnlyInStop
<1>1. ASSUME NEW t \in Threads, ServerThread(t), ~alive'
      PROVE  DiesOnlyInStop'
  <2>1. UNCHANGED <<phase, g_rpcServer, server>>
    BY <1>1, ThreadFrame DEF compVars
  <2>2. threads[t] # "none" /\ RpcServer \notin loggers
    BY <1>1 DEF ServerThread, DealOther, DealLogin, Unregistered, CallProcessor,
       Respond, ThreadGoes, ThreadEnds, RpcServer
  <2>3. server \in {"started", "closing"}
    BY <2>2 DEF Life
  <2>4. phase \in {"stop", "stopped", "closing"} /\ ~g_rpcServer
    BY <2>2, <2>3 DEF Life, Types, Phases
  <2> QED BY <2>1, <2>3, <2>4
<1>2. Main \/ AskedToStop => alive /\ alive'
  <2>1. \A from, to : Goes(from, to) => alive /\ alive'
    BY GoesStep
  <2>2. \A c, loop : Visits(c, loop) => alive /\ alive'
    BY DEF Visits
  <2>3. InitialiseLoop => alive /\ alive'
    BY <2>1, <2>2 DEF InitialiseLoop, initialiseRpcServer, initialiseOther, LoopEnds
  <2>4. StartLoop => alive /\ alive'
    BY <2>1, <2>2 DEF StartLoop, startRpcServer, startAuthority, startOther, LoopEnds
  <2>5. StopLoop => alive /\ alive'
    BY <2>1, <2>2 DEF StopLoop, stopRpcServer, stopAuthority, stopOther, LoopEnds
  <2>6. ClearServices \/ JoinThreads \/ UnloadLibs \/ AskedToStop => alive /\ alive'
    BY <2>1 DEF ClearServices, JoinThreads, UnloadLibs, AskedToStop
  <2> QED BY <2>3, <2>4, <2>5, <2>6 DEF Main
<1>3. CASE UNCHANGED vars
  BY <1>3 DEF vars, compVars
<1> QED BY <1>1, <1>2, <1>3 DEF Next

----------------------------------------------------------------------------
LEMMA RegisteredNext ==
  ASSUME Types'
  PROVE  Registered' =
           CASE phase' = "initialise" -> Visited'
             [] phase' \in {"start", "run", "stop", "stopped"} -> Enabled'
             [] OTHER -> {}
<1>1. Range(SubSeq(m_mapComponents', 1, visited')) = Visited'
  BY FrontElements DEF Types, Visited
<1> QED BY <1>1 DEF Registered

\* A component that the loop of initialise visits adds its service, if it has one.
LEMMA RegistersOne ==
  ASSUME Types, Types', Registry, phase = "initialise", phase' = "initialise",
         NEW c \in DOMAIN Provides, Visited' = Visited \cup {c},
         registService(Provides[c], c)
  PROVE  Registry'
<1> DEFINE t == Provides[c]
<1>1. Registering = Visited \cap DOMAIN Provides
  BY RegisteredSoFar DEF Registering
<1>2. Registering' = (Visited \cup {c}) \cap DOMAIN Provides
  BY RegisteredNext DEF Registering
<1>3. Registering' = Registering \cup {c}
  BY <1>1, <1>2
<1>4. policy' = policy
  BY DEF registService
<1>5. CASE policy = "Index"
  <2>1. /\ m_vecServices' = Append(m_vecServices, c)
        /\ index' = [index EXCEPT ![t] = Len(m_vecServices') - 1]
    BY <1>5 DEF registService, EmplaceBack, LastIndex
  <2>2. c \in Components
    BY ProvidesFacts DEF Components
  <2>3. /\ Len(m_vecServices) \in Nat /\ Len(m_vecServices') = Len(m_vecServices) + 1
        /\ \A i \in 1..Len(m_vecServices) : m_vecServices'[i] = m_vecServices[i]
        /\ m_vecServices'[Len(m_vecServices) + 1] = c
    BY <2>1, <2>2, AppendProperties, LenProperties DEF Types
  <2>4. /\ index'[t] = Len(m_vecServices)
        /\ \A u \in Interfaces : u # t => index'[u] = index[u]
    BY <2>1, <2>3, ProvidesFacts DEF Types
  <2>5. ASSUME NEW d \in DOMAIN Provides
        PROVE  IF d \in Registering'
               THEN /\ index'[Provides[d]] \in 0..(Len(m_vecServices') - 1)
                    /\ m_vecServices'[index'[Provides[d]] + 1] = d
               ELSE index'[Provides[d]] = -1
    <3>1. CASE d = c
      BY <1>3, <2>3, <2>4, <3>1
    <3>2. CASE d # c
      <4>1. Provides[d] # t /\ Provides[d] \in Interfaces
        BY <3>2, ProvidesFacts
      <4>2. index'[Provides[d]] = index[Provides[d]]
        BY <2>4, <4>1
      <4>3. d \in Registering' <=> d \in Registering
        BY <1>3, <3>2
      <4>4. CASE d \in Registering
        <5>1. /\ index[Provides[d]] \in 0..(Len(m_vecServices) - 1)
              /\ m_vecServices[index[Provides[d]] + 1] = d
          BY <1>5, <4>4 DEF Registry
        <5> QED BY <2>3, <4>2, <4>3, <4>4, <5>1
      <4>5. CASE d \notin Registering
        BY <1>5, <4>2, <4>3, <4>5 DEF Registry
      <4> QED BY <4>4, <4>5
    <3> QED BY <3>1, <3>2
  <2> QED BY <1>4, <1>5, <2>5 DEF Registry
<1>6. CASE policy \in {"TypeID", "GUID"}
  <2>1. /\ DOMAIN m_mapServices = {Provides[d] : d \in Registering}
        /\ \A d \in Registering : m_mapServices[Provides[d]] = d
    BY <1>6 DEF Registry
  <2>2. /\ DOMAIN m_mapServices' = DOMAIN m_mapServices \cup {t}
        /\ \A u \in DOMAIN m_mapServices : u # t => m_mapServices'[u] = m_mapServices[u]
        /\ m_mapServices'[t] = c
    <3>1. t \in DOMAIN m_mapServices => m_mapServices[t] = c
      BY <2>1, ProvidesFacts DEF Registering
    <3>2. CASE policy = "TypeID"
      BY <3>1, <3>2 DEF registService, InsertIfNew
    <3>3. CASE policy = "GUID"
      BY <3>3 DEF registService, Assign
    <3> QED BY <1>6, <3>2, <3>3
  <2>3. DOMAIN m_mapServices' = {Provides[d] : d \in Registering'}
    BY <1>3, <2>1, <2>2
  <2>4. ASSUME NEW d \in Registering' PROVE m_mapServices'[Provides[d]] = d
    <3>1. CASE d = c
      BY <2>2, <3>1
    <3>2. CASE d # c
      <4>1. d \in Registering /\ d \in DOMAIN Provides
        BY <1>3, <3>2 DEF Registering
      <4>2. Provides[d] # t
        BY <3>2, <4>1, ProvidesFacts
      <4> QED BY <2>1, <2>2, <4>1, <4>2
    <3> QED BY <3>1, <3>2
  <2> QED BY <1>4, <1>6, <2>3, <2>4 DEF Registry
<1>7. policy \in {"TypeID", "Index", "GUID"}
  BY ServiceCtrlAssumption DEF Types
<1> QED BY <1>5, <1>6, <1>7

\* A step that leaves the registry, and who has registered, as they are.
LEMMA RegistryFrame ==
  ASSUME Registry, UNCHANGED servVars, Registered' = Registered,
         phase \in {"closing", "unloaded"} <=> phase' \in {"closing", "unloaded"}
  PROVE  Registry'
  BY DEF Registry, Registering, servVars

LEMMA RegistryStep == Types /\ Types' /\ Registry /\ [Next]_vars => Registry'
<1> SUFFICES ASSUME Types, Types', Registry, [Next]_vars PROVE Registry'
  OBVIOUS
<1>1. ASSUME NEW c, NEW loop, Visits(c, loop)
      PROVE  /\ c \in Enabled /\ Visited' = Visited \cup {c} /\ Enabled' = Enabled
             /\ phase = loop /\ phase' = loop
  BY <1>1, VisitStep DEF Visits
<1>2. CASE initialiseRpcServer
  <2>1. "ProtoRpcServer" \in DOMAIN Provides
        /\ registService(Provides["ProtoRpcServer"], "ProtoRpcServer")
    BY <1>2, ProvidesFacts DEF initialiseRpcServer
  <2>2. phase = "initialise" /\ phase' = "initialise"
        /\ Visited' = Visited \cup {"ProtoRpcServer"}
    BY <1>1, <1>2 DEF initialiseRpcServer
  <2> QED BY <2>1, <2>2, RegistersOne
<1>3. ASSUME NEW c \in Components, initialiseOther(c)
      PROVE  Registry'
  <2>1. phase = "initialise" /\ phase' = "initialise" /\ Visited' = Visited \cup {c}
    BY <1>1, <1>3 DEF initialiseOther
  <2>2. CASE c \in DOMAIN Provides
    BY <1>3, <2>1, <2>2, RegistersOne DEF initialiseOther
  <2>3. CASE c \notin DOMAIN Provides
    <3>1. UNCHANGED servVars
      BY <1>3, <2>3 DEF initialiseOther
    <3>2. Registering' = Registering
      BY <2>1, <2>3, RegisteredSoFar, RegisteredNext DEF Registering
    <3> QED BY <2>1, <3>1, <3>2 DEF Registry, servVars
  <2> QED BY <2>2, <2>3
<1>4. ASSUME NEW c, Visits(c, "start") \/ Visits(c, "stop"), UNCHANGED servVars
      PROVE  Registry'
  <2>1. phase' = phase /\ phase \in {"start", "stop"} /\ Enabled' = Enabled
    BY <1>1, <1>4
  <2> QED BY <1>4, <2>1, RegisteredSoFar, RegisteredNext, RegistryFrame
<1>5. (\E socketMade \in BOOLEAN : startRpcServer(socketMade)) \/ startAuthority
        \/ (\E c \in Components : startOther(c))
        => \E c : Visits(c, "start") /\ UNCHANGED servVars
  BY DEF startRpcServer, startAuthority, startOther
<1>6. stopRpcServer \/ stopAuthority \/ (\E c \in Components : stopOther(c))
        => \E c : Visits(c, "stop") /\ UNCHANGED servVars
  BY DEF stopRpcServer, stopAuthority, stopOther
<1>7. CASE LoopEnds("initialise", "start") /\ Untouched
  <2>1. phase = "initialise" /\ phase' = "start" /\ Enabled' = Enabled
        /\ Visited = Enabled /\ UNCHANGED servVars
    BY <1>7, GoesStep, VisitedBounds DEF LoopEnds, Untouched
  <2> QED BY <2>1, RegisteredSoFar, RegisteredNext, RegistryFrame
<1>8. CASE \/ LoopEnds("start", "run") /\ Untouched
           \/ AskedToStop
           \/ LoopEnds("stop", "stopped") /\ Untouched
  <2>1. /\ phase \in {"start", "run", "stop"} /\ phase' \in {"run", "stop", "stopped"}
        /\ Enabled' = Enabled /\ UNCHANGED servVars
    BY <1>8, GoesStep DEF LoopEnds, AskedToStop, Untouched
  <2> QED BY <2>1, RegisteredSoFar, RegisteredNext, RegistryFrame
<1>9. CASE ClearServices
  <2>1. phase' = "closing"
    BY <1>9, GoesStep DEF ClearServices
  <2> QED BY <1>9, <2>1 DEF ClearServices, clearServices, Registry
<1>10. CASE UnloadLibs
  <2>1. phase = "closing" /\ phase' = "unloaded" /\ UNCHANGED servVars
    BY <1>10, GoesStep DEF UnloadLibs, Untouched
  <2> QED BY <2>1, RegisteredSoFar, RegisteredNext, RegistryFrame
<1>11. CASE JoinThreads \/ (\E t \in Threads : ServerThread(t)) \/ UNCHANGED vars
  <2>1. UNCHANGED <<servVars, phase, visited, m_mapComponents>>
    BY <1>11, ThreadFrame DEF JoinThreads, vars, compVars
  <2>2. Registered' = Registered
    BY <2>1 DEF Registered, Enabled
  <2> QED BY <2>1, <2>2, RegistryFrame
<1> QED BY <1>2, <1>3, <1>4, <1>5, <1>6, <1>7, <1>8, <1>9, <1>10, <1>11
        DEF Next, Main, InitialiseLoop, StartLoop, StopLoop

LEMMA FoundInRegistry == Types /\ Registry => ServicesFound
<1> SUFFICES ASSUME Types, Registry PROVE ServicesFound
  OBVIOUS
<1>1. TypeOK
  BY DEF Types, TypeOK
<1>2. ASSUME NEW t \in Interfaces
      PROVE  LET providers == {c \in Registered \cap DOMAIN Provides : Provides[c] = t}
             IN  IF providers = {} THEN getService(t) = NoService
                                   ELSE getService(t) \in providers
  <2> DEFINE providers == {c \in Registered \cap DOMAIN Provides : Provides[c] = t}
  <2>1. PICK d \in DOMAIN Provides : Provides[d] = t
    BY ProvidesFacts
  <2>2. providers = IF d \in Registering THEN {d} ELSE {}
    BY <2>1, ProvidesFacts DEF Registering
  <2>3. getService(t) = IF d \in Registering THEN d ELSE NoService
    <3>1. CASE phase \in {"closing", "unloaded"}
      <4>1. m_mapServices = <<>> /\ m_vecServices = <<>> /\ d \notin Registering
        BY <3>1, RegisteredSoFar DEF Registry, Registering
      <4>2. Len(m_vecServices) = 0 /\ DOMAIN m_mapServices = {} /\ index[t] \in Int
        BY <4>1, EmptySeq DEF Types
      <4> QED BY <4>1, <4>2 DEF getService
    <3>2. CASE phase \notin {"closing", "unloaded"} /\ policy = "Index"
      <4>1. IF d \in Registering
            THEN /\ index[t] \in 0..(Len(m_vecServices) - 1)
                 /\ m_vecServices[index[t] + 1] = d
            ELSE index[t] = -1
        BY <2>1, <3>2 DEF Registry
      <4>2. Len(m_vecServices) \in Nat
        BY LenProperties DEF Types
      <4>3. CASE d \in Registering
        <5>1. index[t] >= 0 /\ index[t] < Len(m_vecServices)
          BY <4>1, <4>2, <4>3
        <5> QED BY <3>2, <4>1, <4>3, <5>1 DEF getService
      <4>4. CASE d \notin Registering
        <5>1. ~(index[t] >= 0)
          BY <4>1, <4>4
        <5> QED BY <3>2, <4>4, <5>1 DEF getService
      <4> QED BY <4>3, <4>4
    <3>3. CASE phase \notin {"closing", "unloaded"} /\ policy \in {"TypeID", "GUID"}
      <4>1. /\ DOMAIN m_mapServices = {Provides[c] : c \in Registering}
            /\ \A c \in Registering : m_mapServices[Provides[c]] = c
        BY <3>3 DEF Registry
      <4>2. t \in DOMAIN m_mapServices <=> d \in Registering
        BY <2>1, <4>1, ProvidesFacts DEF Registering
      <4> QED BY <2>1, <3>3, <4>1, <4>2 DEF getService
    <3> QED BY <3>1, <3>2, <3>3, ServiceCtrlAssumption DEF Types
  <2> QED BY <2>2, <2>3
<1> QED BY <1>1, <1>2 DEF ServicesFound

LEMMA LoginStep ==
  Types /\ Life /\ Registry /\ Login /\ [Next]_vars => Login'
<1> SUFFICES ASSUME Types, Life, Registry, Login, [Next]_vars PROVE Login'
  OBVIOUS
<1> USE DEF Login, LoginHung
<1>1. ASSUME NEW c, NEW loop, Visits(c, loop)
      PROVE  /\ c \in Enabled /\ Visited' = Visited \cup {c} /\ Enabled' = Enabled
             /\ phase = loop /\ phase' = loop
  BY <1>1, VisitStep DEF Visits
<1>2. CASE initialiseRpcServer \/ (\E c \in Components : initialiseOther(c))
  <2>1. phase' = "initialise"
    BY <1>1, <1>2 DEF initialiseRpcServer, initialiseOther
  <2> QED BY <2>1
<1>3. ASSUME NEW socketMade \in BOOLEAN, startRpcServer(socketMade)
      PROVE  Login'
  <2>1. /\ phase = "start" /\ phase' = "start" /\ Enabled' = Enabled
        /\ Authority \in Visited' => Authority \in Visited
        /\ UNCHANGED <<m_mapCallbacks_, g_althorProcesser>>
    BY <1>1, <1>3 DEF startRpcServer, Authority
  <2>2. \A t \in Threads : threads'[t] = "calling" => threads[t] = "calling"
    BY <1>3 DEF startRpcServer
  <2> QED BY <2>1, <2>2
<1>4. CASE startAuthority
  <2>1. phase = "start" /\ phase' = "start" /\ Enabled' = Enabled
        /\ g_althorProcesser' = TRUE
    BY <1>1, <1>4 DEF startAuthority
  <2>2. ASSUME RpcServer \in Enabled PROVE getService("IProtoRpcServer") = "ProtoRpcServer"
    <3>1. "ProtoRpcServer" \in Registered \cap DOMAIN Provides
      BY <2>1, <2>2, RegisteredSoFar, ProvidesFacts DEF RpcServer
    <3>2. "IProtoRpcServer" \in Interfaces
      BY ProvidesFacts
    <3> QED BY <3>1, <3>2, FoundInRegistry, ProvidesFacts DEF ServicesFound
  <2>3. RpcServer \in Enabled => m_mapCallbacks_' = {"login"}
    BY <1>4, <2>2 DEF startAuthority, Types
  <2> QED BY <2>1, <2>3
<1>5. ASSUME NEW c \in Components, startOther(c)
      PROVE  Login'
  <2>1. /\ phase = "start" /\ phase' = "start" /\ Enabled' = Enabled
        /\ Authority \in Visited' => Authority \in Visited
        /\ UNCHANGED <<m_mapCallbacks_, g_althorProcesser, threads>>
    BY <1>1, <1>5 DEF startOther, Authority
  <2> QED BY <2>1
<1>6. CASE StopLoop \/ AskedToStop \/ ClearServices \/ UnloadLibs
  <2>1. phase' \notin {"start", "run"}
    BY <1>1, <1>6, GoesStep
       DEF StopLoop, stopRpcServer, stopAuthority, stopOther, LoopEnds, AskedToStop,
           ClearServices, UnloadLibs
  <2> QED BY <2>1
<1>7. CASE LoopEnds("initialise", "start") /\ Untouched
  <2>1. /\ phase = "initialise" /\ phase' = "start" /\ Visited' = {}
        /\ UNCHANGED <<m_mapCallbacks_, threads>>
    BY <1>7, GoesStep DEF LoopEnds, Untouched, compVars
  <2> QED BY <2>1 DEF Life
<1>8. CASE LoopEnds("start", "run") /\ Untouched
  <2>1. /\ phase = "start" /\ phase' = "run" /\ Enabled' = Enabled
        /\ Visited = Enabled /\ UNCHANGED <<m_mapCallbacks_, g_althorProcesser, threads>>
    BY <1>8, GoesStep, VisitedBounds DEF LoopEnds, Untouched, compVars
  <2> QED BY <2>1
<1>9. CASE JoinThreads
  BY <1>9 DEF JoinThreads, Visited, Enabled
<1>10. ASSUME NEW t \in Threads, ServerThread(t)
       PROVE  Login'
  <2>1. UNCHANGED <<phase, Visited, Enabled, m_mapCallbacks_, g_althorProcesser>>
    BY <1>10, ThreadFrame DEF compVars, Visited, Enabled
  <2>2. \A u \in Threads : threads'[u] = "calling" =>
          threads[u] = "calling" \/ "login" \in m_mapCallbacks_
    BY <1>10 DEF ServerThread, DealOther, DealLogin, Unregistered, CallProcessor,
       Respond, ThreadGoes, ThreadEnds, Types
  <2> QED BY <2>1, <2>2
<1>11. CASE UNCHANGED vars
  BY <1>11 DEF vars, compVars, Visited, Enabled
<1> QED BY <1>2, <1>3, <1>4, <1>5, <1>6, <1>7, <1>8, <1>9, <1>10, <1>11
        DEF Next, Main, InitialiseLoop, StartLoop

LEMMA InvCorrect == Spec => []Inv
<1>1. Inv /\ [Next]_vars => Inv'
  BY TypesStep, LifeStep, RegistryStep, LoginStep, DiesOnlyInStopStep DEF Inv
<1> QED BY <1>1, InitInv, PTL DEF Spec

----------------------------------------------------------------------------
\* The registry gives a service to whoever asks by its interface once it is
\* registered, and nothing before and after, whatever the policy and the order.
THEOREM ServicesFoundCorrect == Spec => []ServicesFound
<1>1. Inv => ServicesFound
  BY FoundInRegistry DEF Inv
<1> QED BY <1>1, InvCorrect, PTL

\* The login callback hangs on the server in either order of the starts, and no
\* thread of the server calls a processor that is not there before the stop.
THEOREM LoginServedCorrect == Spec => []LoginServed
<1>1. Inv => LoginServed
  BY DEF Inv, Login, LoginHung, LoginServed, RpcServer, Authority
<1> QED BY <1>1, InvCorrect, PTL

\* A thread of the server meets the null logger only after the stop of its
\* component and before the server is destroyed.
THEOREM DiesOnlyInStopCorrect == Spec => []DiesOnlyInStop
<1>1. Inv => DiesOnlyInStop
  BY DEF Inv
<1> QED BY <1>1, InvCorrect, PTL

\* The libraries are unloaded when the server is destroyed and its threads, which
\* run their code, have ended.
THEOREM ServerGoneBeforeUnloadCorrect == Spec => []ServerGoneBeforeUnload
<1>1. Inv => ServerGoneBeforeUnload
  BY DEF Inv, Life, ServerGoneBeforeUnload
<1> QED BY <1>1, InvCorrect, PTL
=============================================================================
