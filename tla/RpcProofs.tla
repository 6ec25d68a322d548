------------------------------- MODULE RpcProofs -------------------------------
(***************************************************************************)
(* Theorems about Rpc, for any calls of any kind and any number of         *)
(* connections.                                                            *)
(***************************************************************************)
EXTENDS Rpc, SequenceTheorems, TLAPS

\* The parts of the types that the proofs need.
Types ==
  /\ toClient \in Seq(Messages \cup {Echo})
  /\ toServer \in [Conns -> Seq(Calls)]
  /\ served \in [Conns -> Seq(Calls)]
  /\ legal \in [Conns -> BOOLEAN]
  /\ responsePtr \in [Calls -> Messages \cup {NoCall}]
  /\ result \in [Calls -> Messages \cup {NoCall}]

LEMMA SuffixType ==
  ASSUME NEW S, NEW q \in Seq(S), NEW k \in 1..Len(q)
  PROVE  SubSeq(q, k + 1, Len(q)) \in Seq(S)
BY SubSeqProperties

\* Where the steps of a connection's server take the state.
LEMMA ServedStep ==
  ASSUME Types, NEW n \in Conns, Readable(n)
  PROVE  /\ Head(toServer[n]) \in Calls
         /\ Tail(toServer[n]) \in Seq(Calls)
         /\ Append(served[n], Head(toServer[n])) \in Seq(Calls)
         /\ toClient \o <<Response(Head(toServer[n]))>> \in Seq(Messages \cup {Echo})
<1>1. toServer[n] \in Seq(Calls) /\ toServer[n] # <<>>
  BY DEF Types, Readable
<1>2. Head(toServer[n]) \in Calls /\ Tail(toServer[n]) \in Seq(Calls)
  BY <1>1, HeadTailProperties
<1>3. <<Response(Head(toServer[n]))>> \in Seq(Messages \cup {Echo})
  BY <1>2 DEF Response, Messages
<1>4. toClient \o <<Response(Head(toServer[n]))>> \in Seq(Messages \cup {Echo})
  BY <1>3, ConcatProperties DEF Types
<1> QED BY <1>1, <1>2, <1>4, AppendProperties DEF Types

LEMMA TypesInit == Init => Types
<1> SUFFICES ASSUME Init PROVE Types
  OBVIOUS
<1>1. <<>> \in Seq(Calls) /\ <<>> \in Seq(Messages \cup {Echo})
  BY EmptySeq
<1> QED BY <1>1 DEF Init, Types

\* Steps of the client's threads, of its connection, and registrations: they
\* neither serve nor send to the client.
ClientStep ==
  \/ Store \/ Start \/ Connected \/ Disconnected
  \/ \E c \in Calls : Refuse(c) \/ Number(c) \/ Call(c)
  \/ \E k \in Kinds : registerMessageCallback(k)

LEMMA ClientStepTypes ==
  ASSUME Types, ClientStep
  PROVE  /\ Types'
         /\ UNCHANGED <<served, legal, responsePtr>>
         /\ toClient' \in {toClient, <<>>}
         /\ \/ UNCHANGED result
            \/ \E c \in Calls :
                 result' = [result EXCEPT ![c] = responsePtr[c]]
<1> USE DEF Types, callVars, linkVars, serverVars
<1>1. <<>> \in Seq(Messages \cup {Echo})
  BY EmptySeq
<1>2. CASE Store \/ Start \/ Connected
  BY <1>2 DEF Store, Start, Connected
<1>3. CASE Disconnected
  BY <1>1, <1>3 DEF Disconnected
<1>4. ASSUME NEW c \in Calls, Refuse(c) \/ Number(c)
      PROVE  UNCHANGED <<toClient, toServer, served, legal, responsePtr, result>>
  BY <1>4 DEF Refuse, Number
<1>5. ASSUME NEW c \in Calls,
             Register(c) \/ BeginWait(c) \/ EndWait(c) \/ EraseCall(c)
      PROVE  UNCHANGED <<toClient, toServer, served, legal, responsePtr, result>>
  BY <1>5 DEF Register, BeginWait, EndWait, EraseCall
<1>6. ASSUME NEW c \in Calls, ReadResponse(c)
      PROVE  /\ UNCHANGED <<toClient, toServer, served, legal, responsePtr>>
             /\ result' = [result EXCEPT ![c] = responsePtr[c]]
             /\ result' \in [Calls -> Messages \cup {NoCall}]
  BY <1>6 DEF ReadResponse
<1>7. ASSUME NEW c \in Calls, Write(c)
      PROVE  /\ UNCHANGED <<toClient, served, legal, responsePtr, result>>
             /\ toServer' \in [Conns -> Seq(Calls)]
  <2>1. ASSUME NEW n \in Conns PROVE Append(toServer[n], c) \in Seq(Calls)
    BY AppendProperties
  <2>2. [toServer EXCEPT ![conn] = Append(@, c)] \in [Conns -> Seq(Calls)]
    BY <2>1
  <2> QED BY <1>7, <2>2 DEF Write
<1>8. ASSUME NEW k \in Kinds, registerMessageCallback(k)
      PROVE  UNCHANGED <<toClient, toServer, served, legal, responsePtr, result>>
  BY <1>8 DEF registerMessageCallback
<1> QED BY <1>2, <1>3, <1>4, <1>5, <1>6, <1>7, <1>8 DEF ClientStep, Call

\* A step of the server on connection n: at most one request, the first one that
\* was read, is served, and what is sent is its response; or requests are read
\* that are sent back or altered.
Serves(n, r) ==
  /\ r = Head(toServer[n])
  /\ served' = [served EXCEPT ![n] = Append(@, r)]
  /\ toClient' \in {toClient, toClient \o <<Response(r)>>}

SendsBack(n, k) ==
  /\ toServer' = [toServer EXCEPT ![n] = SubSeq(@, k + 1, Len(@))]
  /\ UNCHANGED served
  /\ \E ms \in Seq(Messages \cup {Echo}) :
       /\ toClient' \in {toClient, toClient \o ms}
       /\ \A i \in DOMAIN ms :
            ms[i] = Echo \/ \E j \in 1..k : ms[i] = SentBack(toServer[n][j])

LEMMA RejectSendsBack ==
  ASSUME Types, NEW n \in Conns, NEW k \in 1..Len(toServer[n]), Reject(n, k)
  PROVE  SendsBack(n, k)
<1>1. PICK intact \in {k - 1, k - 2} \cap Nat :
        Send(n, Append([i \in 1..intact |-> SentBack(toServer[n][i])], Echo))
  BY DEF Reject
<1> DEFINE back == [i \in 1..intact |-> SentBack(toServer[n][i])]
           ms == Append(back, Echo)
<1>2. /\ toServer[n] \in Seq(Calls) /\ Len(toServer[n]) \in Nat
      /\ DOMAIN toServer[n] = 1..Len(toServer[n])
  BY LenProperties DEF Types
<1>3. intact \in Nat /\ 1..intact \subseteq 1..k /\ 1..k \subseteq 1..Len(toServer[n])
  BY <1>2
<1>4. \A i \in 1..intact : SentBack(toServer[n][i]) \in Messages
  BY <1>2, <1>3, ElementOfSeq DEF SentBack, Messages
<1>5. /\ back \in Seq(Messages \cup {Echo}) /\ Len(back) = intact
      /\ \A i \in 1..intact : back[i] = SentBack(toServer[n][i])
  <2>1. back \in [1..intact -> Messages \cup {Echo}]
    BY <1>4
  <2> QED BY <1>3, <2>1, IsASeq, LenProperties
<1> HIDE DEF back
<1>6. /\ ms \in Seq(Messages \cup {Echo}) /\ DOMAIN ms = 1..(intact + 1)
      /\ ms[intact + 1] = Echo /\ \A i \in 1..intact : ms[i] = back[i]
  BY <1>5, AppendProperties, LenProperties
<1>7. toClient' \in {toClient, toClient \o ms}
  BY <1>1 DEF Send, back
<1> HIDE DEF ms
<1>8. ASSUME NEW i \in DOMAIN ms
      PROVE  ms[i] = Echo \/ \E j \in 1..k : ms[i] = SentBack(toServer[n][j])
  <2>1. i = intact + 1 \/ i \in 1..intact
    BY <1>3, <1>6
  <2> QED BY <1>3, <1>5, <1>6, <2>1
<1>9. /\ toServer' = [toServer EXCEPT ![n] = SubSeq(@, k + 1, Len(@))]
      /\ UNCHANGED served
  BY DEF Reject
<1> QED BY <1>6, <1>7, <1>8, <1>9 DEF SendsBack

LEMMA ServerStepTypes ==
  ASSUME Types, NEW n \in Conns,
         DealRequest(n) \/ DealLogin(n) \/ DealIllegal(n) \/ CloseChannel(n)
  PROVE  /\ Types'
         /\ UNCHANGED <<responsePtr, result>>
         /\ \/ UNCHANGED <<served, toClient, legal>>
            \/ UNCHANGED legal /\ \E k \in 1..Len(toServer[n]) : SendsBack(n, k)
            \/ /\ Serves(n, Head(toServer[n])) /\ Head(toServer[n]) \in Calls
               /\ \/ legal[n] /\ UNCHANGED legal
                  \/ /\ kind[Head(toServer[n])] = "login"
                     /\ legal' = [legal EXCEPT ![n] = TRUE]
<1> USE DEF callVars, linkVars
<1>1. CASE DealRequest(n) \/ DealLogin(n)
  <2>1. /\ Readable(n)
        /\ UNCHANGED <<responsePtr, result>>
        /\ toServer' = [toServer EXCEPT ![n] = Tail(@)]
    BY <1>1 DEF DealRequest, DealLogin
  <2>2. /\ Head(toServer[n]) \in Calls
        /\ Tail(toServer[n]) \in Seq(Calls)
        /\ Append(served[n], Head(toServer[n])) \in Seq(Calls)
        /\ toClient \o <<Response(Head(toServer[n]))>> \in Seq(Messages \cup {Echo})
    BY <2>1, ServedStep
  <2>3. \/ UNCHANGED <<served, toClient, legal>>
        \/ /\ Serves(n, Head(toServer[n]))
           /\ \/ legal[n] /\ UNCHANGED legal
              \/ /\ kind[Head(toServer[n])] = "login"
                 /\ legal' = [legal EXCEPT ![n] = TRUE]
    BY <1>1 DEF DealRequest, DealLogin, Respond, Send, NotLegalised, Serves
  <2>4. toServer' \in [Conns -> Seq(Calls)] /\ legal' \in [Conns -> BOOLEAN]
    BY <2>1, <2>2, <2>3 DEF Types
  <2>5. served' \in [Conns -> Seq(Calls)] /\ toClient' \in Seq(Messages \cup {Echo})
    BY <2>2, <2>3 DEF Types, Serves
  <2> QED BY <2>1, <2>2, <2>3, <2>4, <2>5 DEF Types
<1>2. CASE DealIllegal(n)
  <2>1. PICK k \in 1..Len(toServer[n]) : Reject(n, k)
    BY <1>2 DEF DealIllegal
  <2>2. toServer[n] \in Seq(Calls)
    BY DEF Types
  <2>3. SubSeq(toServer[n], k + 1, Len(toServer[n])) \in Seq(Calls)
    BY <2>2, SuffixType
  <2>4. SendsBack(n, k)
    BY <2>1, RejectSendsBack
  <2>5. PICK ms \in Seq(Messages \cup {Echo}) : toClient' \in {toClient, toClient \o ms}
    BY <2>4 DEF SendsBack
  <2>6. toClient' \in Seq(Messages \cup {Echo})
    <3>1. toClient \in Seq(Messages \cup {Echo})
      BY DEF Types
    <3>2. toClient \o ms \in Seq(Messages \cup {Echo})
      BY <3>1, ConcatProperties
    <3> QED BY <2>5, <3>1, <3>2
  <2>7. UNCHANGED <<responsePtr, result, legal>>
    BY <2>1 DEF Reject
  <2> QED BY <2>3, <2>4, <2>6, <2>7 DEF Types, SendsBack
<1>3. CASE CloseChannel(n)
  <2>1. <<>> \in Seq(Calls)
    BY EmptySeq
  <2> QED BY <1>3, <2>1 DEF CloseChannel, Types
<1> QED BY <1>1, <1>2, <1>3

\* The client's event loop takes messages, one or several, from the front.
LEMMA LoopStepTypes ==
  ASSUME Types, DealResponse \/ DealGarbled
  PROVE  /\ Types'
         /\ UNCHANGED <<served, legal, result>>
         /\ \E k \in 1..Len(toClient) :
              toClient' = SubSeq(toClient, k + 1, Len(toClient))
         /\ \/ UNCHANGED responsePtr
            \/ \E i \in DOMAIN toClient :
                 /\ toClient[i] \in Messages
                 /\ responsePtr' =
                      [responsePtr EXCEPT ![toClient[i].of] = toClient[i]]
<1> USE DEF linkVars, serverVars, callVars
<1>1. CASE DealResponse
  <2>1. /\ toClient \in Seq(Messages \cup {Echo}) /\ toClient # <<>>
        /\ toClient' = Tail(toClient) /\ Head(toClient) # Echo
        /\ UNCHANGED <<toServer, served, legal, result>>
    BY <1>1 DEF DealResponse, Types
  <2>2. /\ Tail(toClient) = SubSeq(toClient, 2, Len(toClient))
        /\ Len(toClient) \in Nat \ {0}
        /\ Head(toClient) = toClient[1] /\ Head(toClient) \in Messages
        /\ Tail(toClient) \in Seq(Messages \cup {Echo})
    BY <2>1, HeadTailProperties, LenProperties, TailIsSubSeq
  <2>3. \/ UNCHANGED responsePtr
        \/ responsePtr' = [responsePtr EXCEPT ![Head(toClient).of] = Head(toClient)]
    BY <1>1 DEF DealResponse, FindCall
  <2>4. /\ 1 \in 1..Len(toClient) /\ 1 \in DOMAIN toClient
        /\ toClient' = SubSeq(toClient, 1 + 1, Len(toClient))
    BY <2>1, <2>2
  <2> QED BY <2>1, <2>2, <2>3, <2>4 DEF Types
<1>2. CASE DealGarbled
  BY <1>2, SuffixType DEF DealGarbled, Types
<1> QED BY <1>1, <1>2

LEMMA TypesStep == Types /\ [Next]_vars => Types'
<1> SUFFICES ASSUME Types, [Next]_vars PROVE Types'
  OBVIOUS
<1>1. CASE UNCHANGED vars
  BY <1>1 DEF vars, callVars, serverVars, Types
<1> QED BY <1>1, ClientStepTypes, ServerStepTypes, LoopStepTypes
        DEF Next, ClientStep

LEMMA TypesCorrect == Spec => []Types
BY TypesInit, TypesStep, PTL DEF Spec

----------------------------------------------------------------------------
(* Logins *)

\* A connection is legal exactly when it has served something.
LegalFirst ==
  /\ LoginFirst
  /\ \A n \in Conns : legal[n] <=> served[n] # <<>>

LEMMA LegalFirstStep == Types /\ LegalFirst /\ [Next]_vars => LegalFirst'
<1> SUFFICES ASSUME Types, LegalFirst, [Next]_vars PROVE LegalFirst'
  OBVIOUS
<1> USE DEF LegalFirst, LoginFirst
<1>1. CASE UNCHANGED vars
  BY <1>1 DEF vars, serverVars
<1>2. CASE ClientStep
  BY <1>2, ClientStepTypes
<1>3. CASE DealResponse \/ DealGarbled
  BY <1>3, LoopStepTypes
<1>4. ASSUME NEW n \in Conns,
             DealRequest(n) \/ DealLogin(n) \/ DealIllegal(n) \/ CloseChannel(n)
      PROVE  LegalFirst'
  <2> DEFINE r == Head(toServer[n])
  <2>1. CASE UNCHANGED <<served, legal>>
    BY <2>1
  <2>2. CASE /\ Serves(n, r) /\ r \in Calls
             /\ \/ legal[n] /\ UNCHANGED legal
                \/ kind[r] = "login" /\ legal' = [legal EXCEPT ![n] = TRUE]
    <3>1. served[n] \in Seq(Calls)
      BY DEF Types
    <3>2. /\ Append(served[n], r) # <<>>
          /\ served[n] # <<>> => Append(served[n], r)[1] = served[n][1]
          /\ served[n] = <<>> => Append(served[n], r)[1] = r
      BY <3>1, <2>2, AppendProperties, LenProperties, EmptySeq
    <3>3. \A m \in Conns : served'[m] =
            IF m = n THEN Append(served[n], r) ELSE served[m]
      BY <2>2 DEF Serves, Types
    <3>4. legal'[n] /\ \A m \in Conns \ {n} : legal'[m] = legal[m]
      BY <2>2 DEF Types
    <3>5. served[n] = <<>> => kind[r] = "login"
      BY <2>2
    <3>6. ASSUME NEW m \in Conns
          PROVE  /\ served'[m] # <<>> => kind[served'[m][1]] = "login"
                 /\ legal'[m] <=> served'[m] # <<>>
      <4>1. CASE m = n
        <5>1. served'[m] = Append(served[n], r) /\ legal'[m]
          BY <3>3, <3>4, <4>1
        <5>2. served[n] # <<>> => kind[served[n][1]] = "login"
          OBVIOUS
        <5>3. kind[Append(served[n], r)[1]] = "login"
          BY <3>2, <3>5, <5>2
        <5> QED BY <3>2, <5>1, <5>3
      <4>2. CASE m # n
        BY <4>2, <3>3, <3>4
      <4> QED BY <4>1, <4>2
    <3> QED BY <3>6
  <2> QED BY <1>4, <2>1, <2>2, ServerStepTypes DEF SendsBack
<1> QED BY <1>1, <1>2, <1>3, <1>4 DEF Next, ClientStep

\* On every connection the first request that the server serves is a login, for
\* any number of requests, clients' threads and reconnections (CProtoServe.cpp:69).
THEOREM LoginFirstCorrect == Spec => []LoginFirst
<1>1. Init => LegalFirst
  BY DEF Init, LegalFirst, LoginFirst
<1>2. LegalFirst => LoginFirst
  BY DEF LegalFirst
<1> QED BY <1>1, <1>2, LegalFirstStep, TypesCorrect, PTL DEF Spec

----------------------------------------------------------------------------
(* The connection, the places of the calls, and the contexts *)

LinkTypes ==
  /\ main \in {"store", "start", "started"}
  /\ m_connState \in {"kInitialized", "kConnecting", "kConnected", "kDisconnectd"}
  /\ conn \in 0..MaxConns /\ up \in BOOLEAN
  /\ channel \in [Conns -> {"none", "open", "closing", "closed"}]
  /\ registered \subseteq Kinds

Waiting == {"write", "lock", "wait", "read", "erase"}

CallTypes ==
  /\ pc \in [Calls -> {"new", "register", "write", "lock", "wait", "read",
                       "erase", "done"}]
  /\ m_calls = {c \in Calls : pc[c] \in Waiting}
  /\ notified \in [Calls -> BOOLEAN]

LEMMA LinkTypesStep == LinkTypes /\ [Next]_vars => LinkTypes'
<1> SUFFICES ASSUME LinkTypes, [Next]_vars PROVE LinkTypes'
  OBVIOUS
<1> USE DEF LinkTypes, linkVars, serverVars
<1>1. CASE Store \/ Start \/ Disconnected
  BY <1>1 DEF Store, Start, Disconnected, SetDisconnected
<1>2. CASE Connected
  <2>1. conn + 1 \in 0..MaxConns
    BY <1>2, RpcAssumption DEF Connected
  <2>2. /\ conn' = conn + 1 /\ up' = TRUE /\ m_connState' = "kConnected"
        /\ channel' = [channel EXCEPT ![conn + 1] = "open"]
        /\ UNCHANGED <<main, registered>>
    BY <1>2 DEF Connected
  <2>3. channel' \in [Conns -> {"none", "open", "closing", "closed"}]
    BY <2>2
  <2> QED BY <2>1, <2>2, <2>3
<1>3. ASSUME NEW c \in Calls, Refuse(c) \/ Number(c) \/ Call(c)
      PROVE  LinkTypes'
  BY <1>3 DEF Refuse, Number, Call, Register, Write, BeginWait, EndWait,
     ReadResponse, EraseCall
<1>4. CASE DealResponse \/ DealGarbled
  BY <1>4 DEF DealResponse, DealGarbled
<1>5. ASSUME NEW n \in Conns,
             DealRequest(n) \/ DealLogin(n) \/ DealIllegal(n) \/ CloseChannel(n)
      PROVE  LinkTypes'
  <2>1. UNCHANGED <<linkVars, registered>>
    BY <1>5 DEF DealRequest, DealLogin, DealIllegal, Reject, CloseChannel
  <2>2. channel' = channel \/ (\E to \in {"closing", "closed"} :
                                 channel' = [channel EXCEPT ![n] = to])
    BY <1>5 DEF DealRequest, DealLogin, DealIllegal, Reject, CloseChannel, Respond,
       CloseAsync
  <2> QED BY <2>1, <2>2
<1>6. ASSUME NEW k \in Kinds, registerMessageCallback(k)
      PROVE  LinkTypes'
  BY <1>6 DEF registerMessageCallback
<1>7. CASE UNCHANGED vars
  BY <1>7 DEF vars
<1> QED BY <1>1, <1>2, <1>3, <1>4, <1>5, <1>6, <1>7 DEF Next

LEMMA CallTypesStep == CallTypes /\ [Next]_vars => CallTypes'
<1> SUFFICES ASSUME CallTypes, [Next]_vars PROVE CallTypes'
  OBVIOUS
<1> USE DEF CallTypes, Waiting, callVars
<1>1. ASSUME NEW c \in Calls, Refuse(c) \/ Number(c)
      PROVE  CallTypes'
  BY <1>1 DEF Refuse, Number, Goto
<1>2. ASSUME NEW c \in Calls, Register(c)
      PROVE  CallTypes'
  <2>1. /\ pc[c] = "register" /\ pc' = [pc EXCEPT ![c] = "write"]
        /\ m_calls' = m_calls \cup {c} /\ notified' = notified
    BY <1>2 DEF Register, Goto
  <2>2. \A d \in Calls : pc'[d] \in Waiting <=> pc[d] \in Waiting \/ d = c
    BY <2>1
  <2> QED BY <2>1, <2>2
<1>3. ASSUME NEW c \in Calls,
             Write(c) \/ BeginWait(c) \/ EndWait(c) \/ ReadResponse(c)
      PROVE  CallTypes'
  <2>1. PICK from \in Waiting, to \in Waiting :
          pc[c] = from /\ pc' = [pc EXCEPT ![c] = to]
    BY <1>3 DEF Write, BeginWait, EndWait, ReadResponse, Goto
  <2>2. \A d \in Calls : pc'[d] \in Waiting <=> pc[d] \in Waiting
    BY <2>1
  <2>3. UNCHANGED <<m_calls, notified>>
    BY <1>3 DEF Write, BeginWait, EndWait, ReadResponse
  <2> QED BY <2>1, <2>2, <2>3
<1>4. ASSUME NEW c \in Calls, EraseCall(c)
      PROVE  CallTypes'
  <2>1. /\ pc[c] = "erase" /\ pc' = [pc EXCEPT ![c] = "done"]
        /\ m_calls' = m_calls \ {c} /\ notified' = notified
    BY <1>4 DEF EraseCall, Goto
  <2>2. \A d \in Calls : pc'[d] \in Waiting <=> pc[d] \in Waiting /\ d # c
    BY <2>1
  <2> QED BY <2>1, <2>2
<1>5. CASE DealResponse
  <2>1. UNCHANGED <<pc, m_calls>>
    BY <1>5 DEF DealResponse
  <2>2. notified' \in [Calls -> BOOLEAN]
    <3>1. \/ UNCHANGED notified
          \/ \E c \in Calls :
               notified' = [notified EXCEPT ![c] = @ \/ pc[c] = "wait"]
      BY <1>5 DEF DealResponse, FindCall
    <3>2. ASSUME NEW c \in Calls
          PROVE  (notified[c] \/ pc[c] = "wait") \in BOOLEAN
      BY Zenon
    <3> QED BY <3>1, <3>2
  <2> QED BY <2>1, <2>2
<1>6. CASE UNCHANGED callVars
  BY <1>6
<1>7. Store \/ Start \/ Connected \/ Disconnected \/ DealGarbled \/ UNCHANGED vars
        => UNCHANGED callVars
  BY DEF Store, Start, Connected, Disconnected, DealGarbled, vars
<1>8. \A n \in Conns :
        DealRequest(n) \/ DealLogin(n) \/ DealIllegal(n) \/ CloseChannel(n)
          => UNCHANGED callVars
  BY DEF DealRequest, DealLogin, DealIllegal, Reject, CloseChannel
<1>9. \A k \in Kinds : registerMessageCallback(k) => UNCHANGED callVars
  BY DEF registerMessageCallback
<1> QED BY <1>1, <1>2, <1>3, <1>4, <1>5, <1>6, <1>7, <1>8, <1>9 DEF Next, Call

LEMMA CallTypesCorrect == Spec => []CallTypes
<1>1. Init => CallTypes
  BY DEF Init, CallTypes, Waiting
<1> QED BY <1>1, CallTypesStep, PTL DEF Spec

\* m_calls holds a context for exactly the calls that may still be answered, so
\* that none is left behind by a timeout, and the types are kept.
THEOREM TypeCorrect == Spec => []TypeOK
<1>1. Init => LinkTypes
  <2> SUFFICES ASSUME Init PROVE LinkTypes
    OBVIOUS
  <2>1. conn \in 0..MaxConns
    BY RpcAssumption DEF Init
  <2>2. channel \in [Conns -> {"none", "open", "closing", "closed"}]
    BY DEF Init
  <2> QED BY <2>1, <2>2 DEF Init, LinkTypes
<1>2. Types /\ LinkTypes /\ CallTypes => TypeOK
  BY DEF Types, LinkTypes, CallTypes, Waiting, TypeOK
<1> QED BY <1>1, <1>2, LinkTypesStep, CallTypesCorrect, TypesCorrect, PTL DEF Spec

----------------------------------------------------------------------------
(* Each request is served once *)

\* Rows of calls, one row for each connection: no call is twice in f; c is not in
\* f; f and g have no call in common.
Spread(f) ==
  \A n, m \in Conns : \A i \in DOMAIN f[n], j \in DOMAIN f[m] :
    f[n][i] = f[m][j] => n = m /\ i = j
Nowhere(f, c) == \A n \in Conns : \A i \in DOMAIN f[n] : f[n][i] # c
Apart(f, g) ==
  \A n, m \in Conns : \A i \in DOMAIN f[n], j \in DOMAIN g[m] : f[n][i] # g[m][j]

\* ServedOnce is not inductive: it needs that what is served leaves the row of the
\* requests, and that a call which has yet to write is in neither.
OnceInv ==
  /\ Spread(served) /\ Spread(toServer) /\ Apart(served, toServer)
  /\ \A c \in Calls : pc[c] \in {"new", "register", "write"} =>
       Nowhere(served, c) /\ Nowhere(toServer, c)

\* g is f with r at the end of row n; g is f without the first calls of each row.
Extends(f, g, n, r) ==
  \A m \in Conns : \A i \in DOMAIN g[m] :
    \/ m = n /\ i = Len(f[n]) + 1 /\ g[m][i] = r
    \/ i \in DOMAIN f[m] /\ g[m][i] = f[m][i]
Shortens(f, g, k) ==
  \A m \in Conns : \A i \in DOMAIN g[m] :
    i \in Nat /\ i + k[m] \in DOMAIN f[m] /\ g[m][i] = f[m][i + k[m]]

LEMMA AppendExtends ==
  ASSUME NEW f \in [Conns -> Seq(Calls)], NEW n \in Conns, NEW r \in Calls,
         NEW g, g = [f EXCEPT ![n] = Append(@, r)]
  PROVE  Extends(f, g, n, r)
<1> SUFFICES ASSUME NEW m \in Conns, NEW i \in DOMAIN g[m]
             PROVE  \/ m = n /\ i = Len(f[n]) + 1 /\ g[m][i] = r
                    \/ i \in DOMAIN f[m] /\ g[m][i] = f[m][i]
  BY DEF Extends
<1>1. CASE m # n
  BY <1>1
<1>2. CASE m = n
  <2> DEFINE a == Append(f[n], r)
  <2>1. f[n] \in Seq(Calls) /\ g[n] = a
    OBVIOUS
  <2>2. /\ a \in Seq(Calls) /\ Len(a) = Len(f[n]) + 1 /\ a[Len(f[n]) + 1] = r
        /\ \A j \in 1..Len(f[n]) : a[j] = f[n][j]
    BY <2>1, AppendProperties
  <2>3. DOMAIN a = 1..Len(a) /\ DOMAIN f[n] = 1..Len(f[n]) /\ Len(f[n]) \in Nat
    BY <2>1, <2>2, LenProperties
  <2> HIDE DEF a
  <2>4. i \in 1..(Len(f[n]) + 1)
    BY <1>2, <2>1, <2>2, <2>3
  <2>5. i = Len(f[n]) + 1 \/ i \in 1..Len(f[n])
    BY <2>3, <2>4
  <2> QED BY <1>2, <2>1, <2>2, <2>3, <2>5
<1> QED BY <1>1, <1>2

LEMMA ExtendedRows ==
  ASSUME NEW f, NEW g, NEW n \in Conns, NEW r, Extends(f, g, n, r), Nowhere(f, r)
  PROVE  /\ Spread(f) => Spread(g)
         /\ \A c : Nowhere(f, c) /\ c # r => Nowhere(g, c)
<1>1. ASSUME Spread(f) PROVE Spread(g)
  <2> SUFFICES ASSUME NEW a \in Conns, NEW b \in Conns, NEW i \in DOMAIN g[a],
                      NEW j \in DOMAIN g[b], g[a][i] = g[b][j]
               PROVE  a = b /\ i = j
    BY DEF Spread
  <2>1. \/ a = n /\ i = Len(f[n]) + 1 /\ g[a][i] = r
        \/ i \in DOMAIN f[a] /\ g[a][i] = f[a][i] /\ f[a][i] # r
    BY DEF Extends, Nowhere
  <2>2. \/ b = n /\ j = Len(f[n]) + 1 /\ g[b][j] = r
        \/ j \in DOMAIN f[b] /\ g[b][j] = f[b][j] /\ f[b][j] # r
    BY DEF Extends, Nowhere
  <2> QED BY <1>1, <2>1, <2>2 DEF Spread
<1>2. ASSUME NEW c, Nowhere(f, c), c # r PROVE Nowhere(g, c)
  BY <1>2 DEF Nowhere, Extends
<1> QED BY <1>1, <1>2

LEMMA ShortenedRows ==
  ASSUME NEW f, NEW g, NEW k \in [Conns -> Nat], Shortens(f, g, k)
  PROVE  /\ Spread(f) => Spread(g)
         /\ \A c : Nowhere(f, c) => Nowhere(g, c)
         /\ \A h : Apart(h, f) => Apart(h, g)
<1>1. ASSUME Spread(f) PROVE Spread(g)
  <2> SUFFICES ASSUME NEW a \in Conns, NEW b \in Conns, NEW i \in DOMAIN g[a],
                      NEW j \in DOMAIN g[b], g[a][i] = g[b][j]
               PROVE  a = b /\ i = j
    BY DEF Spread
  <2>1. i \in Nat /\ i + k[a] \in DOMAIN f[a] /\ g[a][i] = f[a][i + k[a]]
    BY DEF Shortens
  <2>2. j \in Nat /\ j + k[b] \in DOMAIN f[b] /\ g[b][j] = f[b][j + k[b]]
    BY DEF Shortens
  <2>3. a = b /\ i + k[a] = j + k[b]
    <3> DEFINE p == i + k[a]
               q == j + k[b]
    <3>1. p \in DOMAIN f[a] /\ q \in DOMAIN f[b] /\ f[a][p] = f[b][q]
      BY <2>1, <2>2
    <3> HIDE DEF p, q
    <3>2. a = b /\ p = q
      BY <1>1, <3>1 DEF Spread
    <3> QED BY <3>2 DEF p, q
  <2>4. k[a] \in Nat
    OBVIOUS
  <2> QED BY <2>1, <2>2, <2>3, <2>4
<1>2. ASSUME NEW c, Nowhere(f, c) PROVE Nowhere(g, c)
  BY <1>2 DEF Nowhere, Shortens
<1>3. ASSUME NEW h, Apart(h, f) PROVE Apart(h, g)
  BY <1>3 DEF Apart, Shortens
<1> QED BY <1>1, <1>2, <1>3

\* g is f without the first calls of each row, k of them in row n.
Loses(f, g, n, k) == \E l \in [Conns -> Nat] : l[n] = k /\ Shortens(f, g, l)

\* The rows of requests when k of connection n have been read.
LEMMA SuffixShortens ==
  ASSUME NEW f \in [Conns -> Seq(Calls)], NEW n \in Conns, NEW k \in 1..Len(f[n]),
         NEW g, g = [f EXCEPT ![n] = SubSeq(@, k + 1, Len(@))]
  PROVE  Loses(f, g, n, k)
<1> DEFINE l == [m \in Conns |-> IF m = n THEN k ELSE 0]
           s == SubSeq(f[n], k + 1, Len(f[n]))
<1>1. f[n] \in Seq(Calls) /\ Len(f[n]) \in Nat /\ DOMAIN f[n] = 1..Len(f[n]) /\ k \in Nat
  BY LenProperties
<1>2. s \in Seq(Calls) /\ Len(s) = Len(f[n]) - k
      /\ \A i \in 1..(Len(f[n]) - k) : s[i] = f[n][k + i]
  <2>1. /\ f[n] \in Seq(Calls) /\ k + 1 \in 1..(Len(f[n]) + 1)
        /\ Len(f[n]) \in (k + 1 - 1)..Len(f[n])
    BY <1>1
  <2>2. /\ s \in Seq(Calls)
        /\ Len(s) = IF k + 1 <= Len(f[n]) THEN Len(f[n]) - (k + 1) + 1 ELSE 0
        /\ \A i \in 1..(Len(f[n]) - (k + 1) + 1) : s[i] = f[n][(k + 1) + i - 1]
    BY <2>1, SubSeqProperties
  <2>3. Len(s) = Len(f[n]) - k /\ Len(f[n]) - (k + 1) + 1 = Len(f[n]) - k
    <3> DEFINE z == Len(f[n])
    <3>1. z \in Nat /\ k \in 1..z
      BY <1>1
    <3>2. Len(s) = IF k + 1 <= z THEN z - (k + 1) + 1 ELSE 0
      BY <2>2
    <3> HIDE DEF s, z
    <3>3. Len(s) = z - k /\ z - (k + 1) + 1 = z - k
      BY <3>1, <3>2
    <3> QED BY <3>3 DEF z
  <2>4. \A i \in 1..(Len(f[n]) - k) : (k + 1) + i - 1 = k + i
    BY <1>1
  <2> HIDE DEF s
  <2>5. ASSUME NEW i \in 1..(Len(f[n]) - k) PROVE s[i] = f[n][k + i]
    <3>1. s[i] = f[n][(k + 1) + i - 1]
      BY <2>2, <2>3
    <3> QED BY <2>4, <3>1
  <2> QED BY <2>2, <2>3, <2>5
<1>3. DOMAIN s = 1..(Len(f[n]) - k)
  BY <1>2, LenProperties
<1>4. g[n] = s /\ \A m \in Conns \ {n} : g[m] = f[m]
  OBVIOUS
<1> HIDE DEF s
<1>5. ASSUME NEW m \in Conns, NEW i \in DOMAIN g[m]
      PROVE  i \in Nat /\ i + l[m] \in DOMAIN f[m] /\ g[m][i] = f[m][i + l[m]]
  <2>1. CASE m = n
    <3>1. i \in 1..(Len(f[n]) - k) /\ l[m] = k
      BY <1>3, <1>4, <2>1
    <3>2. i \in Nat /\ i + k \in 1..Len(f[n]) /\ k + i = i + k
      BY <1>1, <3>1
    <3> QED BY <1>1, <1>2, <1>4, <2>1, <3>1, <3>2
  <2>2. CASE m # n
    <3>1. l[m] = 0 /\ g[m] = f[m] /\ DOMAIN f[m] = 1..Len(f[m]) /\ Len(f[m]) \in Nat
      BY <1>4, <2>2, LenProperties
    <3>2. i \in Nat /\ i + 0 = i
      BY <3>1
    <3> QED BY <3>1, <3>2
  <2> QED BY <2>1, <2>2
<1>6. l \in [Conns -> Nat] /\ l[n] = k
  BY <1>1
<1>7. Shortens(f, g, l)
  <2> HIDE DEF l
  <2> QED BY <1>5 DEF Shortens
<1> HIDE DEF l
<1> QED BY <1>6, <1>7 DEF Loses

\* What has been taken from the rows, in which no call is twice, is not there any more.
LEMMA TakenGone ==
  ASSUME Types, Types', Spread(toServer), NEW k \in [Conns -> Nat],
         Shortens(toServer, toServer', k),
         NEW n \in Conns, NEW j \in DOMAIN toServer[n], j \in 1..k[n]
  PROVE  Nowhere(toServer', toServer[n][j])
<1> SUFFICES ASSUME NEW m \in Conns, NEW i \in DOMAIN toServer'[m],
                    toServer'[m][i] = toServer[n][j]
             PROVE  FALSE
  BY DEF Nowhere
<1>1. /\ i \in Nat /\ i + k[m] \in DOMAIN toServer[m]
      /\ toServer'[m][i] = toServer[m][i + k[m]]
  BY DEF Shortens
<1>2. m = n /\ i + k[m] = j
  <2> DEFINE z == i + k[m]
  <2>1. z \in DOMAIN toServer[m] /\ toServer[m][z] = toServer[n][j]
    BY <1>1
  <2> HIDE DEF z
  <2>2. m = n /\ z = j
    BY <2>1 DEF Spread
  <2> QED BY <2>2 DEF z
<1>3. i >= 1
  <2>1. toServer'[m] \in Seq(Calls)
    BY DEF Types
  <2> QED BY <2>1, LenProperties
<1>4. k[m] \in Nat /\ j <= k[n] /\ j \in Nat
  OBVIOUS
<1> QED BY <1>1, <1>2, <1>3, <1>4

\* A step of the server takes requests from a row, and serves the first or none.
LEMMA ServerTakes ==
  ASSUME Types, NEW n \in Conns,
         DealRequest(n) \/ DealLogin(n) \/ DealIllegal(n) \/ CloseChannel(n)
  PROVE  \E k \in [Conns -> Nat] :
           /\ Shortens(toServer, toServer', k)
           /\ \/ UNCHANGED served
              \/ /\ k[n] = 1 /\ 1 \in DOMAIN toServer[n] /\ toServer[n][1] \in Calls
                 /\ served' = [served EXCEPT ![n] = Append(@, toServer[n][1])]
<1>0. served \in [Conns -> Seq(Calls)] /\ toServer \in [Conns -> Seq(Calls)]
  BY DEF Types
<1>1. CASE DealRequest(n) \/ DealLogin(n)
  <2> DEFINE r == Head(toServer[n])
  <2>1. Readable(n) /\ toServer' = [toServer EXCEPT ![n] = Tail(@)]
    BY <1>1 DEF DealRequest, DealLogin
  <2>2. /\ toServer[n] \in Seq(Calls) /\ Len(toServer[n]) \in Nat \ {0}
        /\ r = toServer[n][1] /\ r \in Calls /\ 1 \in DOMAIN toServer[n]
        /\ Tail(toServer[n]) = SubSeq(toServer[n], 1 + 1, Len(toServer[n]))
    <3>1. toServer[n] \in Seq(Calls) /\ toServer[n] # <<>>
      BY <1>0, <2>1 DEF Readable
    <3>2. Len(toServer[n]) \in Nat \ {0} /\ DOMAIN toServer[n] = 1..Len(toServer[n])
      BY <3>1, LenProperties, EmptySeq
    <3>3. r = toServer[n][1] /\ r \in Calls
      BY <3>1, HeadTailProperties
    <3>4. Tail(toServer[n]) = SubSeq(toServer[n], 1 + 1, Len(toServer[n]))
      BY <3>1, TailIsSubSeq
    <3> QED BY <3>1, <3>2, <3>3, <3>4
  <2>3. UNCHANGED served \/ served' = [served EXCEPT ![n] = Append(@, r)]
    BY <1>1 DEF DealRequest, DealLogin, Respond
  <2> HIDE DEF r
  <2>4. 1 \in 1..Len(toServer[n])
    BY <2>2
  <2>5. toServer' = [toServer EXCEPT ![n] = SubSeq(@, 1 + 1, Len(@))]
    BY <1>0, <2>1, <2>2, Zenon
  <2>6. Loses(toServer, toServer', n, 1)
    BY <1>0, <2>4, <2>5, SuffixShortens
  <2> QED BY <2>2, <2>3, <2>6 DEF Loses
<1>2. CASE DealIllegal(n)
  <2>1. PICK k \in 1..Len(toServer[n]) : Reject(n, k)
    BY <1>2 DEF DealIllegal
  <2>2. toServer' = [toServer EXCEPT ![n] = SubSeq(@, k + 1, Len(@))] /\ UNCHANGED served
    BY <2>1 DEF Reject
  <2>3. Loses(toServer, toServer', n, k)
    BY <1>0, <2>2, SuffixShortens
  <2> QED BY <2>2, <2>3 DEF Loses
<1>3. CASE CloseChannel(n)
  <2>1. toServer' = [toServer EXCEPT ![n] = <<>>] /\ UNCHANGED served
    BY <1>3 DEF CloseChannel
  <2> DEFINE l == [m \in Conns |-> 0]
  <2>2. ASSUME NEW m \in Conns, NEW i \in DOMAIN toServer'[m]
        PROVE  i \in Nat /\ i + l[m] \in DOMAIN toServer[m]
               /\ toServer'[m][i] = toServer[m][i + l[m]]
    <3>1. m # n
      BY <1>0, <2>1, <2>2
    <3>2. toServer'[m] = toServer[m] /\ l[m] = 0 /\ DOMAIN toServer[m] = 1..Len(toServer[m])
      BY <1>0, <2>1, <3>1, LenProperties
    <3>3. i \in Nat /\ i + 0 = i
      BY <3>2
    <3> QED BY <3>2, <3>3
  <2>3. l \in [Conns -> Nat]
    OBVIOUS
  <2> HIDE DEF l
  <2>4. Shortens(toServer, toServer', l)
    BY <2>2 DEF Shortens
  <2> QED BY <2>1, <2>3, <2>4
<1> QED BY <1>1, <1>2, <1>3

\* Calls whose request was written and is neither served nor waiting to be.
Unserved ==
  {c \in Calls : /\ pc[c] \notin {"new", "register", "write"}
                 /\ Nowhere(served, c) /\ Nowhere(toServer, c)}

LEMMA ServerRows ==
  ASSUME Types, OnceInv, NEW n \in Conns,
         DealRequest(n) \/ DealLogin(n) \/ DealIllegal(n) \/ CloseChannel(n)
  PROVE  OnceInv' /\ Unserved \subseteq Unserved'
<1>0. served \in [Conns -> Seq(Calls)] /\ Types'
  BY ServerStepTypes DEF Types
<1>1. pc' = pc
  BY DEF DealRequest, DealLogin, DealIllegal, Reject, CloseChannel, callVars
<1> DEFINE r == toServer[n][1]
<1>2. PICK k \in [Conns -> Nat] :
        /\ Shortens(toServer, toServer', k)
        /\ \/ UNCHANGED served
           \/ /\ k[n] = 1 /\ 1 \in DOMAIN toServer[n] /\ r \in Calls
              /\ served' = [served EXCEPT ![n] = Append(@, r)]
  BY ServerTakes
<1>3. /\ Spread(toServer) => Spread(toServer')
      /\ \A c : Nowhere(toServer, c) => Nowhere(toServer', c)
      /\ \A h : Apart(h, toServer) => Apart(h, toServer')
  BY <1>2, ShortenedRows
<1>4. CASE UNCHANGED served
  <2>1. Spread(toServer') /\ Apart(served, toServer') /\ Spread(served)
    BY <1>3 DEF OnceInv
  <2>2. \A c \in Calls : pc[c] \in {"new", "register", "write"} =>
          Nowhere(served, c) /\ Nowhere(toServer', c)
    BY <1>3 DEF OnceInv
  <2>3. Unserved \subseteq Unserved'
    BY <1>1, <1>3, <1>4 DEF Unserved
  <2> QED BY <1>1, <1>4, <2>1, <2>2, <2>3 DEF OnceInv
<1>5. CASE /\ k[n] = 1 /\ 1 \in DOMAIN toServer[n] /\ r \in Calls
           /\ served' = [served EXCEPT ![n] = Append(@, r)]
  <2> HIDE DEF r
  <2>1. Extends(served, served', n, r)
    BY <1>0, <1>5, AppendExtends
  <2>2. Nowhere(served, r)
    BY <1>5 DEF OnceInv, Apart, Nowhere, r
  <2>3. /\ Spread(served) => Spread(served')
        /\ \A c : Nowhere(served, c) /\ c # r => Nowhere(served', c)
    BY <2>1, <2>2, ExtendedRows
  <2>4. Nowhere(toServer', r)
    <3>1. Spread(toServer) /\ 1 \in 1..k[n]
      BY <1>5 DEF OnceInv
    <3> QED BY <1>0, <1>2, <1>5, <3>1, TakenGone DEF r
  <2>5. Apart(served', toServer')
    <3>1. Apart(served, toServer')
      BY <1>3 DEF OnceInv
    <3> SUFFICES ASSUME NEW a \in Conns, NEW b \in Conns, NEW i \in DOMAIN served'[a],
                        NEW j \in DOMAIN toServer'[b]
                 PROVE  served'[a][i] # toServer'[b][j]
      BY DEF Apart
    <3>2. \/ served'[a][i] = r
          \/ i \in DOMAIN served[a] /\ served'[a][i] = served[a][i]
      BY <2>1 DEF Extends
    <3> QED BY <2>4, <3>1, <3>2 DEF Apart, Nowhere
  <2>6. \A c \in Calls : Nowhere(toServer, c) => c # r
    BY <1>5 DEF Nowhere, r
  <2>7. \A c \in Calls : Nowhere(served, c) /\ Nowhere(toServer, c)
          => Nowhere(served', c) /\ Nowhere(toServer', c)
    BY <1>3, <2>3, <2>6
  <2>8. \A c \in Calls : pc[c] \in {"new", "register", "write"} =>
          Nowhere(served', c) /\ Nowhere(toServer', c)
    BY <2>7 DEF OnceInv
  <2>9. Spread(served') /\ Spread(toServer')
    BY <1>3, <2>3 DEF OnceInv
  <2>10. OnceInv'
    BY <1>1, <2>5, <2>8, <2>9 DEF OnceInv
  <2>11. Unserved \subseteq Unserved'
    BY <1>1, <2>7 DEF Unserved
  <2> QED BY <2>10, <2>11
<1> HIDE DEF r
<1> QED BY <1>2, <1>4, <1>5

LEMMA ClientRows ==
  ASSUME Types, CallTypes, OnceInv, ClientStep
  PROVE  OnceInv' /\ Unserved \subseteq Unserved'
<1>0. pc \in [Calls -> {"new", "register", "write", "lock", "wait", "read", "erase", "done"}]
  BY DEF CallTypes
<1>1. ASSUME UNCHANGED <<served, toServer>>,
             \A c \in Calls : pc'[c] \in {"new", "register", "write"} =>
               pc[c] \in {"new", "register", "write"}
      PROVE  OnceInv' /\ Unserved \subseteq Unserved'
  BY <1>1 DEF OnceInv, Unserved
<1>2. CASE Store \/ Start \/ Connected \/ Disconnected
           \/ \E k \in Kinds : registerMessageCallback(k)
  BY <1>1, <1>2 DEF Store, Start, Connected, Disconnected, registerMessageCallback, callVars,
     serverVars
<1>3. ASSUME NEW c \in Calls, Refuse(c) \/ Number(c) \/ Register(c)
      PROVE  OnceInv' /\ Unserved \subseteq Unserved'
  <2>1. /\ UNCHANGED <<served, toServer>> /\ pc[c] \in {"new", "register"}
        /\ \E to \in {"register", "write", "done"} : pc' = [pc EXCEPT ![c] = to]
    BY <1>3 DEF Refuse, Number, Register, Goto, serverVars
  <2> QED BY <1>0, <1>1, <2>1
<1>4. ASSUME NEW c \in Calls,
             BeginWait(c) \/ EndWait(c) \/ ReadResponse(c) \/ EraseCall(c)
      PROVE  OnceInv' /\ Unserved \subseteq Unserved'
  <2>1. /\ UNCHANGED <<served, toServer>>
        /\ \E to \in {"wait", "read", "erase", "done"} : pc' = [pc EXCEPT ![c] = to]
    BY <1>4 DEF BeginWait, EndWait, ReadResponse, EraseCall, Goto, serverVars
  <2> QED BY <1>0, <1>1, <2>1
<1>5. ASSUME NEW c \in Calls, Write(c)
      PROVE  OnceInv' /\ Unserved \subseteq Unserved'
  <2>1. /\ pc[c] = "write" /\ pc' = [pc EXCEPT ![c] = "lock"] /\ UNCHANGED served
        /\ toServer' \in {toServer, [toServer EXCEPT ![conn] = Append(@, c)]}
    BY <1>5 DEF Write, Goto, serverVars
  <2>2. \A d \in Calls : pc'[d] \in {"new", "register", "write"} =>
          d # c /\ pc[d] \in {"new", "register", "write"}
    BY <1>0, <2>1
  <2>3. CASE toServer' = toServer
    BY <1>1, <2>1, <2>2, <2>3
  <2>4. CASE conn \in Conns /\ toServer' = [toServer EXCEPT ![conn] = Append(@, c)]
    <3>1. Extends(toServer, toServer', conn, c)
      BY <2>4, AppendExtends DEF Types
    <3>2. Nowhere(served, c) /\ Nowhere(toServer, c)
      BY <2>1 DEF OnceInv
    <3>3. /\ Spread(toServer) => Spread(toServer')
          /\ \A d : Nowhere(toServer, d) /\ d # c => Nowhere(toServer', d)
      <4>1. conn \in Conns
        BY <2>4
      <4> QED BY <3>1, <3>2, <4>1, ExtendedRows
    <3>4. Apart(served, toServer')
      <4> SUFFICES ASSUME NEW a \in Conns, NEW b \in Conns, NEW i \in DOMAIN served[a],
                          NEW j \in DOMAIN toServer'[b]
                   PROVE  served[a][i] # toServer'[b][j]
        BY DEF Apart
      <4>1. \/ toServer'[b][j] = c
            \/ j \in DOMAIN toServer[b] /\ toServer'[b][j] = toServer[b][j]
        BY <3>1 DEF Extends
      <4> QED BY <3>2, <4>1 DEF OnceInv, Apart, Nowhere
    <3>5. \A d \in Calls : pc'[d] \in {"new", "register", "write"} =>
            Nowhere(served, d) /\ Nowhere(toServer', d)
      BY <2>2, <3>3 DEF OnceInv
    <3>6. Spread(served) /\ Spread(toServer')
      BY <3>3 DEF OnceInv
    <3>7. OnceInv'
      BY <2>1, <3>4, <3>5, <3>6 DEF OnceInv
    <3>8. ASSUME NEW d \in Unserved
          PROVE  d \in Unserved'
      <4>1. d # c /\ pc'[d] = pc[d]
        BY <1>0, <2>1, <3>8 DEF Unserved
      <4> QED BY <2>1, <3>3, <3>8, <4>1 DEF Unserved
    <3> QED BY <3>7, <3>8
  <2>5. conn \notin Conns => [toServer EXCEPT ![conn] = Append(@, c)] = toServer
    BY DEF Types
  <2> QED BY <2>1, <2>3, <2>4, <2>5
<1> QED BY <1>2, <1>3, <1>4, <1>5 DEF ClientStep, Call

LEMMA OnceStep ==
  Types /\ CallTypes /\ OnceInv /\ [Next]_vars
    => OnceInv' /\ Unserved \subseteq Unserved'
<1> SUFFICES ASSUME Types, CallTypes, OnceInv, [Next]_vars
             PROVE  OnceInv' /\ Unserved \subseteq Unserved'
  OBVIOUS
<1>1. CASE DealResponse \/ DealGarbled \/ UNCHANGED vars
  <2>1. UNCHANGED <<served, toServer, pc>>
    BY <1>1 DEF DealResponse, DealGarbled, vars, callVars, serverVars
  <2> QED BY <2>1 DEF OnceInv, Unserved
<1> QED BY <1>1, ClientRows, ServerRows DEF Next, ClientStep

LEMMA OnceCorrect == Spec => []OnceInv
<1>1. Init => OnceInv
  <2> SUFFICES ASSUME Init PROVE OnceInv
    OBVIOUS
  <2>1. \A n \in Conns : served[n] = <<>> /\ toServer[n] = <<>>
    BY DEF Init
  <2> QED BY <2>1 DEF OnceInv, Spread, Apart, Nowhere
<1> QED BY <1>1, OnceStep, TypesCorrect, CallTypesCorrect, PTL DEF Spec

\* A request is served at most once, on whatever connection and however many are
\* set up: call writes it once, and what the server reads it does not keep.
THEOREM ServedOnceCorrect == Spec => []ServedOnce
<1>1. OnceInv => ServedOnce
  BY DEF OnceInv, Spread, ServedOnce
<1> QED BY <1>1, OnceCorrect, PTL

----------------------------------------------------------------------------
(* Answers *)

\* Calls that the server has answered on some connection.
Answered == {c \in Calls : \E n \in Conns : c \in Range(served[n])}

\* A response is to a call that was served, a request that is sent back was not
\* served and will not be.
Truthful == {Response(c) : c \in Answered} \cup {SentBack(c) : c \in Unserved}

\* What is on its way to the client, in a context, or returned, is truthful; a
\* context and a result hold a message about their own call.
OwnAnswers ==
  /\ \A i \in DOMAIN toClient : toClient[i] # Echo => toClient[i] \in Truthful
  /\ \A c \in Calls : responsePtr[c] # NoCall =>
       responsePtr[c].of = c /\ responsePtr[c] \in Truthful
  /\ \A c \in Calls : result[c] # NoCall =>
       result[c].of = c /\ result[c] \in Truthful

\* Nothing that was served is forgotten.
LEMMA AnsweredStays ==
  ASSUME Types, NEW n \in Conns, NEW r \in Calls,
         served' = [served EXCEPT ![n] = Append(@, r)]
  PROVE  /\ r \in Answered'
         /\ Answered \subseteq Answered'
<1>1. served[n] \in Seq(Calls)
  BY DEF Types
<1>2. /\ Append(served[n], r) \in Seq(Calls)
      /\ Len(Append(served[n], r)) = Len(served[n]) + 1
      /\ Append(served[n], r)[Len(served[n]) + 1] = r
      /\ \A i \in 1..Len(served[n]) : Append(served[n], r)[i] = served[n][i]
  BY <1>1, AppendProperties
<1>3. /\ DOMAIN served[n] = 1..Len(served[n]) /\ Len(served[n]) \in Nat
      /\ DOMAIN Append(served[n], r) = 1..(Len(served[n]) + 1)
  BY <1>1, <1>2, LenProperties
<1>4. /\ r \in Range(Append(served[n], r))
      /\ Range(served[n]) \subseteq Range(Append(served[n], r))
  BY <1>2, <1>3 DEF Range
<1>5. /\ served'[n] = Append(served[n], r)
      /\ \A m \in Conns \ {n} : served'[m] = served[m]
  BY DEF Types
<1> QED BY <1>4, <1>5 DEF Answered

LEMMA SuffixIn ==
  ASSUME NEW S, NEW q \in Seq(S), NEW k \in 1..Len(q)
  PROVE  \A i \in DOMAIN SubSeq(q, k + 1, Len(q)) :
           \E j \in DOMAIN q : SubSeq(q, k + 1, Len(q))[i] = q[j]
<1>1. /\ DOMAIN q = 1..Len(q) /\ Len(q) \in Nat
      /\ SubSeq(q, k + 1, Len(q)) \in Seq(S)
      /\ Len(SubSeq(q, k + 1, Len(q))) = Len(q) - k
      /\ \A i \in 1..(Len(q) - k) :
           SubSeq(q, k + 1, Len(q))[i] = q[k + i]
  BY SubSeqProperties, LenProperties
<1>2. DOMAIN SubSeq(q, k + 1, Len(q)) = 1..(Len(q) - k)
  BY <1>1, LenProperties
<1>3. ASSUME NEW i \in 1..(Len(q) - k)
      PROVE  k + i \in DOMAIN q
  <2>1. Len(q) \in Nat
    BY LenProperties
  <2>2. k + i \in 1..Len(q)
    BY <2>1
  <2> QED BY <1>1, <2>2
<1> QED BY <1>1, <1>2, <1>3

LEMMA TruthfulStays ==
  ASSUME Types, CallTypes, OnceInv, [Next]_vars
  PROVE  Truthful \subseteq Truthful'
<1>1. Answered \subseteq Answered'
  <2>1. CASE UNCHANGED served
    BY <2>1 DEF Answered
  <2>2. ASSUME NEW n \in Conns, Serves(n, Head(toServer[n])), Head(toServer[n]) \in Calls
        PROVE  Answered \subseteq Answered'
    BY <2>2, AnsweredStays DEF Serves
  <2>3. ClientStep \/ DealResponse \/ DealGarbled \/ UNCHANGED vars => UNCHANGED served
    BY ClientStepTypes, LoopStepTypes DEF vars, serverVars
  <2>4. ASSUME NEW n \in Conns,
               DealRequest(n) \/ DealLogin(n) \/ DealIllegal(n) \/ CloseChannel(n)
        PROVE  Answered \subseteq Answered'
    BY <2>1, <2>2, <2>4, ServerStepTypes DEF SendsBack
  <2> QED BY <2>1, <2>3, <2>4 DEF Next, ClientStep
<1>2. Unserved \subseteq Unserved'
  BY OnceStep
<1> QED BY <1>1, <1>2 DEF Truthful, Response, SentBack

\* What the server sends is truthful.
LEMMA SendsTruthful ==
  ASSUME Types, CallTypes, OnceInv, [Next]_vars, NEW n \in Conns,
         DealRequest(n) \/ DealLogin(n) \/ DealIllegal(n) \/ CloseChannel(n)
  PROVE  \E ms \in Seq(Messages \cup {Echo}) :
           /\ toClient' = toClient \o ms
           /\ \A i \in DOMAIN ms : ms[i] # Echo => ms[i] \in Truthful'
<1> DEFINE Goal == \E ms \in Seq(Messages \cup {Echo}) :
                     /\ toClient' = toClient \o ms
                     /\ \A i \in DOMAIN ms : ms[i] # Echo => ms[i] \in Truthful'
<1>0. ASSUME toClient' = toClient
      PROVE  Goal
  <2>1. toClient \o <<>> = toClient /\ <<>> \in Seq(Messages \cup {Echo})
    BY ConcatEmptySeq, EmptySeq DEF Types
  <2>2. \A i \in DOMAIN <<>> : FALSE
    OBVIOUS
  <2> QED BY <1>0, <2>1, <2>2
<1>1. CASE UNCHANGED <<served, toClient, legal>>
  BY <1>0, <1>1
<1>2. ASSUME NEW k \in 1..Len(toServer[n]), SendsBack(n, k)
      PROVE  Goal
  <2>1. PICK ms \in Seq(Messages \cup {Echo}) :
          /\ toClient' \in {toClient, toClient \o ms}
          /\ \A i \in DOMAIN ms :
               ms[i] = Echo \/ \E j \in 1..k : ms[i] = SentBack(toServer[n][j])
    BY <1>2 DEF SendsBack
  <2>2. ASSUME NEW j \in 1..k
        PROVE  toServer[n][j] \in Calls /\ toServer[n][j] \in Unserved'
    <3>1. toServer \in [Conns -> Seq(Calls)] /\ Types'
      BY ServerStepTypes DEF Types
    <3>2. /\ DOMAIN toServer[n] = 1..Len(toServer[n]) /\ Len(toServer[n]) \in Nat
          /\ toServer[n] \in Seq(Calls)
      BY <3>1, LenProperties
    <3>3. j \in DOMAIN toServer[n] /\ toServer[n][j] \in Calls
      BY <3>2, ElementOfSeq
    <3>4. Loses(toServer, toServer', n, k)
      BY <1>2, <3>1, SuffixShortens DEF SendsBack
    <3>5. PICK l \in [Conns -> Nat] : l[n] = k /\ Shortens(toServer, toServer', l)
      BY <3>4 DEF Loses
    <3>6. Nowhere(toServer', toServer[n][j])
      <4>1. Spread(toServer) /\ j \in 1..l[n]
        BY <3>5 DEF OnceInv
      <4> QED BY <3>1, <3>3, <3>5, <4>1, TakenGone
    <3>7. Nowhere(served', toServer[n][j])
      BY <1>2, <3>3 DEF SendsBack, OnceInv, Apart, Nowhere
    <3>8. pc'[toServer[n][j]] \notin {"new", "register", "write"}
      <4>1. pc' = pc
        BY DEF DealRequest, DealLogin, DealIllegal, Reject, CloseChannel, callVars
      <4>2. ~Nowhere(toServer, toServer[n][j])
        BY <3>3 DEF Nowhere
      <4> QED BY <3>3, <4>1, <4>2 DEF OnceInv
    <3> QED BY <3>3, <3>6, <3>7, <3>8 DEF Unserved
  <2>3. \A i \in DOMAIN ms : ms[i] # Echo => ms[i] \in Truthful'
    BY <2>1, <2>2 DEF Truthful, SentBack
  <2> QED BY <1>0, <2>1, <2>3
<1>3. CASE Serves(n, Head(toServer[n])) /\ Head(toServer[n]) \in Calls
  <2> DEFINE r == Head(toServer[n])
             ms == <<Response(r)>>
  <2>1. r \in Answered'
    BY <1>3, AnsweredStays DEF Serves
  <2>2. ms \in Seq(Messages \cup {Echo}) /\ \A i \in DOMAIN ms : ms[i] = Response(r)
    BY <1>3 DEF Response, Messages
  <2>3. Response(r) \in Truthful'
    BY <1>3, <2>1 DEF Truthful, Response
  <2>4. toClient' \in {toClient, toClient \o ms}
    BY <1>3 DEF Serves
  <2> QED BY <1>0, <2>2, <2>3, <2>4
<1> QED BY <1>1, <1>2, <1>3, ServerStepTypes

LEMMA OwnAnswersStep ==
  Types /\ CallTypes /\ OnceInv /\ OwnAnswers /\ [Next]_vars => OwnAnswers'
<1> SUFFICES ASSUME Types, CallTypes, OnceInv, OwnAnswers, [Next]_vars
             PROVE  OwnAnswers'
  OBVIOUS
<1>0. Truthful \subseteq Truthful'
  BY TruthfulStays
<1>1. CASE UNCHANGED vars
  BY <1>0, <1>1 DEF vars, serverVars, callVars, OwnAnswers
<1>2. CASE ClientStep
  <2>1. /\ UNCHANGED responsePtr
        /\ toClient' \in {toClient, <<>>}
        /\ \/ UNCHANGED result
           \/ \E c \in Calls : result' = [result EXCEPT ![c] = responsePtr[c]]
    BY <1>2, ClientStepTypes
  <2>2. \A i \in DOMAIN toClient' : toClient'[i] # Echo => toClient'[i] \in Truthful
    BY <2>1, EmptySeq, LenProperties DEF OwnAnswers
  <2>3. \A c \in Calls : result'[c] # NoCall =>
          result'[c].of = c /\ result'[c] \in Truthful
    BY <2>1 DEF OwnAnswers, Types
  <2> QED BY <1>0, <2>1, <2>2, <2>3 DEF OwnAnswers
<1>3. CASE DealResponse \/ DealGarbled
  <2>1. /\ UNCHANGED result
        /\ \E k \in 1..Len(toClient) :
             toClient' = SubSeq(toClient, k + 1, Len(toClient))
        /\ \/ UNCHANGED responsePtr
           \/ \E i \in DOMAIN toClient :
                /\ toClient[i] \in Messages
                /\ responsePtr' =
                     [responsePtr EXCEPT ![toClient[i].of] = toClient[i]]
    BY <1>3, LoopStepTypes
  <2>2. \A i \in DOMAIN toClient' : \E j \in DOMAIN toClient :
          toClient'[i] = toClient[j]
    <3>1. PICK k \in 1..Len(toClient) :
            toClient' = SubSeq(toClient, k + 1, Len(toClient))
      BY <2>1
    <3>2. toClient \in Seq(Messages \cup {Echo})
      BY DEF Types
    <3>3. \A i \in DOMAIN SubSeq(toClient, k + 1, Len(toClient)) :
            \E j \in DOMAIN toClient :
              SubSeq(toClient, k + 1, Len(toClient))[i] = toClient[j]
      BY <3>2, SuffixIn
    <3> QED BY <3>1, <3>3
  <2>3. \A i \in DOMAIN toClient' : toClient'[i] # Echo => toClient'[i] \in Truthful
    BY <2>2 DEF OwnAnswers
  <2>4. \A c \in Calls : responsePtr'[c] # NoCall =>
          responsePtr'[c].of = c /\ responsePtr'[c] \in Truthful
    BY <2>1, RpcAssumption DEF OwnAnswers, Types
  <2> QED BY <1>0, <2>1, <2>3, <2>4 DEF OwnAnswers
<1>4. ASSUME NEW n \in Conns,
             DealRequest(n) \/ DealLogin(n) \/ DealIllegal(n) \/ CloseChannel(n)
      PROVE  OwnAnswers'
  <2>1. UNCHANGED <<responsePtr, result>>
    BY <1>4, ServerStepTypes
  <2>2. PICK ms \in Seq(Messages \cup {Echo}) :
          /\ toClient' = toClient \o ms
          /\ \A i \in DOMAIN ms : ms[i] # Echo => ms[i] \in Truthful'
    BY <1>4, SendsTruthful
  <2>3. ASSUME NEW i \in DOMAIN toClient', toClient'[i] # Echo
        PROVE  toClient'[i] \in Truthful'
    <3>1. /\ DOMAIN (toClient \o ms) = 1..(Len(toClient) + Len(ms))
          /\ DOMAIN toClient = 1..Len(toClient) /\ Len(toClient) \in Nat
          /\ DOMAIN ms = 1..Len(ms) /\ Len(ms) \in Nat
          /\ \A j \in 1..(Len(toClient) + Len(ms)) :
               (toClient \o ms)[j] = IF j <= Len(toClient) THEN toClient[j]
                                     ELSE ms[j - Len(toClient)]
      BY ConcatProperties, LenProperties DEF Types
    <3>2. CASE i <= Len(toClient)
      <4>1. i \in DOMAIN toClient /\ toClient'[i] = toClient[i]
        BY <2>2, <2>3, <3>1, <3>2
      <4> QED BY <1>0, <2>3, <4>1 DEF OwnAnswers
    <3>3. CASE ~(i <= Len(toClient))
      <4>1. i - Len(toClient) \in DOMAIN ms /\ toClient'[i] = ms[i - Len(toClient)]
        BY <2>2, <2>3, <3>1, <3>3
      <4> QED BY <2>2, <2>3, <4>1
    <3> QED BY <3>2, <3>3
  <2> QED BY <1>0, <2>1, <2>3 DEF OwnAnswers
<1> QED BY <1>1, <1>2, <1>3, <1>4 DEF Next, ClientStep

\* What CProtoRpcClient::call returns is the server's answer to its own request, or
\* that request, sent back by a server that has not served it and never will, for
\* any number of calls, late responses and reconnections (lines 88 and 127).
THEOREM AnswersOwnRequestCorrect == Spec => []AnswersOwnRequest
<1>1. Init => OwnAnswers
  BY EmptySeq, LenProperties DEF Init, OwnAnswers
<1>2. Types /\ OwnAnswers => AnswersOwnRequest
  <2> SUFFICES ASSUME Types, OwnAnswers, NEW c \in Calls, result[c] # NoCall
               PROVE  \/ result[c] = Response(c) /\ \E n \in Conns : c \in Range(served[n])
                      \/ /\ result[c] = SentBack(c)
                         /\ \A n \in Conns :
                              c \notin Range(served[n]) \cup Range(toServer[n])
    BY DEF AnswersOwnRequest
  <2>1. PICK d \in Calls :
          \/ result[c] = Response(d) /\ d \in Answered
          \/ result[c] = SentBack(d) /\ d \in Unserved
    BY DEF OwnAnswers, Truthful, Answered, Unserved
  <2>2. result[c].of = c
    BY DEF OwnAnswers
  <2>3. d = c
    BY <2>1, <2>2 DEF Response, SentBack
  <2> QED BY <2>1, <2>3 DEF Answered, Unserved, Nowhere, Range
<1> QED BY <1>1, <1>2, OwnAnswersStep, OnceCorrect, TypesCorrect, CallTypesCorrect, PTL
        DEF Spec
=============================================================================
