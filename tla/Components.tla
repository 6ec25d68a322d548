----------------------------- MODULE Components -----------------------------
(***************************************************************************)
(* The four components of the repository as the framework drives them      *)
(* (CCompFramework.cpp 287-312 and 385-412): every enabled one is          *)
(* initialised, then every one is started, and at the end every one is     *)
(* stopped, in the order of an unordered_map, which is any order but the   *)
(* same in the three loops.  Against that run the threads of the RPC       *)
(* server, which ProtoRpcServer registers as a service, AuthorityManager   *)
(* asks for and hangs its login callback on, and which lives as long as    *)
(* the activator or the registry refers to it.                             *)
(***************************************************************************)
EXTENDS ServiceCtrl, FiniteSetsExt, SequencesExt

CONSTANT Threads         \* the event loop threads of the server

Components == {"ProtoRpcServer", "AuthorityManager", "AppController", "ComponentDemo"}

\* What a component registers in initialise.
Provides == [ProtoRpcServer |-> "IProtoRpcServer",
             AppController  |-> "ICmdService",
             ComponentDemo  |-> "IHelloService"]

ASSUME ComponentsAssumption ==
  /\ Interfaces = Range(Provides)
  /\ NoService \notin Components

VARIABLES
  phase,                 \* where the framework is in its life
  visited,               \* how many components the loop of this phase has visited
  m_mapComponents,       \* the components, in the order the map gives them
  loggers,               \* the components whose g_LoggerPtr is not null
  g_rpcServer,           \* the activator of ProtoRpcServer refers to the server
  server,                \* the server object: none, made, started, closing or gone
  m_mapCallbacks_,       \* the requests with a callback
  g_althorProcesser,     \* the processor that the login callback is bound to exists
  threads,               \* where each thread of the server is
  alive                  \* FALSE once the process has died of a null pointer

compVars == <<m_mapComponents, loggers, g_rpcServer, server, m_mapCallbacks_,
              g_althorProcesser>>
vars == <<servVars, compVars, phase, visited, threads, alive>>

Enabled == Range(m_mapComponents)

Init ==
  /\ ServInit
  /\ \E enabled \in SUBSET Components : m_mapComponents \in SetToSeqs(enabled)
  /\ phase = "initialise" /\ visited = 0
  /\ loggers = {} /\ g_rpcServer = FALSE
  /\ server = "none" /\ m_mapCallbacks_ = {} /\ g_althorProcesser = FALSE
  /\ threads = [t \in Threads |-> "none"]
  /\ alive = TRUE

-----------------------------------------------------------------------------
(* The loops of the framework.                                             *)

\* The loop of this phase visits its next component, c.
Visits(c, loop) ==
  /\ alive /\ phase = loop /\ visited < Len(m_mapComponents)
  /\ c = m_mapComponents[visited + 1]
  /\ visited' = visited + 1
  /\ UNCHANGED <<phase, m_mapComponents, alive>>

\* The framework goes on from one phase to the next.
Goes(from, to) ==
  /\ alive /\ phase = from
  /\ phase' = to /\ visited' = 0
  /\ UNCHANGED <<m_mapComponents, alive>>

LoopEnds(from, to) == visited = Len(m_mapComponents) /\ Goes(from, to)

Untouched == UNCHANGED <<servVars, compVars, threads>>

-----------------------------------------------------------------------------
(* initialise, start and stop of the components.                           *)

\* A slip: the component uses the logger without making it.
forgetLogger(c) == UNCHANGED loggers

makeLogger(c) == loggers' = loggers \union {c}

initialiseRpcServer ==
  /\ Visits("ProtoRpcServer", "initialise")
  /\ makeLogger("ProtoRpcServer")
  /\ g_rpcServer' = TRUE /\ server' = "made"
  /\ registService("IProtoRpcServer", "ProtoRpcServer")
  /\ UNCHANGED <<m_mapCallbacks_, g_althorProcesser, threads>>

initialiseOther(c) ==
  /\ Visits(c, "initialise") /\ c # "ProtoRpcServer"
  /\ makeLogger(c)
  /\ IF c \in DOMAIN Provides THEN registService(Provides[c], c) ELSE UNCHANGED servVars
  /\ UNCHANGED <<g_rpcServer, server, m_mapCallbacks_, g_althorProcesser, threads>>

\* A slip: start begins with a new server, without the callbacks.
startFresh(socketMade) ==
  /\ Visits("ProtoRpcServer", "start")
  /\ IF socketMade
     THEN server' = "started" /\ threads' = [t \in Threads |-> "polling"]
     ELSE UNCHANGED <<server, threads>>
  /\ m_mapCallbacks_' = {}
  /\ UNCHANGED <<servVars, loggers, g_rpcServer, g_althorProcesser>>

\* start returns false without a socket; the framework only logs that.
startRpcServer(socketMade) ==
  /\ Visits("ProtoRpcServer", "start")
  /\ IF socketMade
     THEN server' = "started" /\ threads' = [t \in Threads |-> "polling"]
     ELSE UNCHANGED <<server, threads>>
  /\ UNCHANGED <<servVars, loggers, g_rpcServer, m_mapCallbacks_, g_althorProcesser>>

startAuthority ==
  /\ Visits("AuthorityManager", "start")
  /\ g_althorProcesser' = TRUE
  /\ m_mapCallbacks_' = IF getService("IProtoRpcServer") = "ProtoRpcServer"
                        THEN m_mapCallbacks_ \union {"login"} ELSE m_mapCallbacks_
  /\ UNCHANGED <<servVars, loggers, g_rpcServer, server, threads>>

startOther(c) ==
  /\ Visits(c, "start") /\ c \notin {"ProtoRpcServer", "AuthorityManager"}
  /\ UNCHANGED <<servVars, loggers, g_rpcServer, server, m_mapCallbacks_,
                 g_althorProcesser, threads>>

\* The registry still refers to the server, which goes on serving.
stopRpcServer ==
  /\ Visits("ProtoRpcServer", "stop")
  /\ g_rpcServer' = FALSE
  /\ loggers' = loggers \ {"ProtoRpcServer"}
  /\ UNCHANGED <<servVars, server, m_mapCallbacks_, g_althorProcesser, threads>>

stopAuthority ==
  /\ Visits("AuthorityManager", "stop")
  /\ loggers' = loggers \ {"AuthorityManager"}
  /\ g_althorProcesser' = FALSE
  /\ UNCHANGED <<servVars, g_rpcServer, server, m_mapCallbacks_, threads>>

stopOther(c) ==
  /\ Visits(c, "stop") /\ c \notin {"ProtoRpcServer", "AuthorityManager"}
  /\ loggers' = loggers \ {c}
  /\ UNCHANGED <<servVars, g_rpcServer, server, m_mapCallbacks_,
                 g_althorProcesser, threads>>

-----------------------------------------------------------------------------
(* The end: the registry is cleared, and with the last reference the       *)
(* server is destroyed, its callbacks first and then its threads, which it *)
(* joins; then the libraries are unloaded.                                 *)

\* The server is destroyed with the last reference to it.
DropServer ==
  IF server \in {"made", "started"} /\ ~g_rpcServer
  THEN /\ server' = IF server = "made" THEN "gone" ELSE "closing"
       /\ m_mapCallbacks_' = {}
  ELSE UNCHANGED <<server, m_mapCallbacks_>>

\* A slip: the registry is not cleared, the map of components is.
KeepServices ==
  /\ Goes("stopped", "closing")
  /\ Untouched

ClearServices ==
  /\ Goes("stopped", "closing")
  /\ clearServices /\ DropServer
  /\ UNCHANGED <<loggers, g_rpcServer, g_althorProcesser, threads>>

\* A thread leaves its loop when it has dealt with what it read.
ThreadEnds(t) ==
  /\ alive /\ server = "closing" /\ threads[t] = "polling"
  /\ threads' = [threads EXCEPT ![t] = "none"]
  /\ UNCHANGED <<servVars, compVars, phase, visited, alive>>

JoinThreads ==
  /\ alive /\ phase = "closing" /\ server = "closing"
  /\ \A t \in Threads : threads[t] = "none"
  /\ server' = "gone"
  /\ UNCHANGED <<servVars, m_mapComponents, loggers, g_rpcServer, m_mapCallbacks_,
                 g_althorProcesser, phase, visited, threads, alive>>

\* A slip: it is waited for a server that there may never have been.
UnloadWhenGone == server = "gone" /\ Goes("closing", "unloaded") /\ Untouched

UnloadLibs == server # "closing" /\ Goes("closing", "unloaded") /\ Untouched

-----------------------------------------------------------------------------
(* The threads of the server.  Every path of a message or of a connection  *)
(* through CProtoServer evaluates a LOG macro, which reads g_LoggerPtr of  *)
(* ProtoRpcServer.                                                         *)

ThreadGoes(t, from, to) ==
  /\ alive /\ threads[t] = from
  /\ IF "ProtoRpcServer" \in loggers
     THEN threads' = [threads EXCEPT ![t] = to] /\ UNCHANGED alive
     ELSE alive' = FALSE /\ UNCHANGED threads
  /\ UNCHANGED <<servVars, compVars, phase, visited>>

\* A connection, or a buffer that is no request that may be served.
DealOther(t) == ThreadGoes(t, "polling", "polling")

\* A login request is decoded and logged.
DealLogin(t) == ThreadGoes(t, "polling", "login")

Unregistered(t) == "login" \notin m_mapCallbacks_ /\ ThreadGoes(t, "login", "polling")

CallProcessor(t) ==
  /\ alive /\ threads[t] = "login" /\ "login" \in m_mapCallbacks_
  /\ threads' = [threads EXCEPT ![t] = "calling"]
  /\ UNCHANGED <<servVars, compVars, phase, visited, alive>>

\* The response is written, the client is legal, and that is logged.
Respond(t) == ThreadGoes(t, "calling", "polling")

ServerThread(t) ==
  \/ DealOther(t) \/ DealLogin(t) \/ Unregistered(t) \/ CallProcessor(t)
  \/ Respond(t) \/ ThreadEnds(t)

-----------------------------------------------------------------------------
InitialiseLoop ==
  \/ initialiseRpcServer
  \/ \E c \in Components : initialiseOther(c)
  \/ LoopEnds("initialise", "start") /\ Untouched

StartLoop ==
  \/ \E socketMade \in BOOLEAN : startRpcServer(socketMade)
  \/ startAuthority
  \/ \E c \in Components : startOther(c)
  \/ LoopEnds("start", "run") /\ Untouched

AskedToStop == Goes("run", "stop") /\ Untouched

StopLoop ==
  \/ stopRpcServer
  \/ stopAuthority
  \/ \E c \in Components : stopOther(c)
  \/ LoopEnds("stop", "stopped") /\ Untouched

Main == InitialiseLoop \/ StartLoop \/ StopLoop \/ ClearServices \/ JoinThreads \/ UnloadLibs

Next == Main \/ AskedToStop \/ \E t \in Threads : ServerThread(t)

\* The main thread runs on and, once the server closes, so does every thread
\* of it; that clients send anything, or anybody stops the program, is not
\* assumed.
Fairness ==
  /\ WF_vars(Main)
  /\ \A t \in Threads :
       /\ WF_vars(Unregistered(t) \/ CallProcessor(t) \/ Respond(t))
       /\ WF_vars(ThreadEnds(t))

Spec == Init /\ [][Next]_vars /\ Fairness

-----------------------------------------------------------------------------
Phases == {"initialise", "start", "run", "stop", "stopped", "closing", "unloaded"}

\* The variables have the values that are listed with them.
TypeOK ==
  /\ policy \in Policies
  /\ phase \in Phases /\ visited \in 0 .. Len(m_mapComponents)
  /\ m_mapComponents \in Seq(Components)
  /\ loggers \subseteq Enabled
  /\ server \in {"none", "made", "started", "closing", "gone"}
  /\ m_mapCallbacks_ \subseteq {"login"}
  /\ threads \in [Threads -> {"none", "polling", "login", "calling"}]

\* The components that have registered what they register.
Registered ==
  CASE phase = "initialise" -> Range(SubSeq(m_mapComponents, 1, visited))
    [] phase \in {"start", "run", "stop", "stopped"} -> Enabled
    [] OTHER -> {}

\* getService gives the service of the component that registered the
\* interface and nothing when none has, under every policy and whatever the
\* order of the components.
ServicesFound ==
  /\ TypeOK
  /\ \A t \in Interfaces :
       LET providers == {c \in Registered \cap DOMAIN Provides : Provides[c] = t}
       IN  IF providers = {} THEN getService(t) = NoService
                             ELSE getService(t) \in providers

\* AuthorityManager hangs its callback on the server whichever of the two is
\* started first: while the framework runs with both, a login is served by a
\* processor that exists, and no thread ever calls one that does not exist
\* before the framework stops.
LoginServed ==
  /\ phase = "run" /\ {"ProtoRpcServer", "AuthorityManager"} \subseteq Enabled
       => m_mapCallbacks_ = {"login"} /\ g_althorProcesser
  /\ phase \in {"start", "run"} /\ (\E t \in Threads : threads[t] = "calling")
       => g_althorProcesser

\* The null logger of ProtoRpcServer can meet a thread of the server only
\* between the stop of that component and the destruction of the server:
\* the server, which the framework starts before other components are, and
\* keeps running while it stops them, logs safely up to then.
DiesOnlyInStop ==
  ~alive => phase \in {"stop", "stopped", "closing"} /\ server \in {"started", "closing"}
            /\ ~g_rpcServer

\* CCompFramework::stop lines 396-412: when the libraries are unloaded the
\* server of ProtoRpcServer is destroyed and none of its threads, which run
\* code of that library, is left.
ServerGoneBeforeUnload ==
  phase = "unloaded" =>
    server \in {"none", "gone"} /\ \A t \in Threads : threads[t] = "none"

\* stop, which waits for the threads of the server in its destructor, ends
\* with the libraries unloaded, unless the process dies of the null logger.
StopEnds == phase = "stop" ~> phase = "unloaded" \/ ~alive

=============================================================================
