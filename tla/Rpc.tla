---------------------------------- MODULE Rpc ----------------------------------
(***************************************************************************)
(* CProtoRpcClient and CProtoServer: threads of the client call the server *)
(* over one TCP connection, which may break and is set up again; requests  *)
(* and responses are matched by a sequence number; the server serves a     *)
(* connection after a login on it.                                         *)
(*                                                                         *)
(* A request, and its response, stand for the call they belong to:         *)
(* ulSequeNum, 32 bits, is taken to be unique.  The connection delivers    *)
(* bytes in order; neither side sets unpack_setting, so what onMessage     *)
(* gets is not a message but what has arrived: one message, or several,    *)
(* or a piece.  The checksum is at the end, and decoding accepts exactly   *)
(* one whole message.  The server sends back what it rejects.  Decoding    *)
(* has flipped bytes of it in place by then: all of a message that         *)
(* decodes, else the last four, so that requests before them go back as    *)
(* they came, and the client takes one that it reads alone for an answer.  *)
(***************************************************************************)
EXTENDS Integers, Sequences, SequencesExt

CONSTANTS
  Calls,         \* calls of CProtoRpcClient::call
  kind,          \* [Calls -> {"login", "other"}], the type of the request
  MaxConns,      \* bound: connections that are set up
  NoCall,        \* no message: an empty MessagePtr
  Echo           \* bytes sent back that do not decode

Kinds == {"login", "other"}
Conns == 1..MaxConns

\* Messages that decode: the response to a call, or its request, sent back.
Response(c) == [is |-> "response", of |-> c]
SentBack(c) == [is |-> "request", of |-> c]
Messages == [is : {"response", "request"}, of : Calls]

ASSUME RpcAssumption ==
  /\ kind \in [Calls -> Kinds]
  /\ MaxConns \in Nat
  /\ NoCall \notin Messages /\ Echo \notin Messages

VARIABLES
  main,          \* where the client's call of connect is
  m_connState,
  conn,          \* number of the client's connection, 0 before the first
  up,            \* the client's channel is connected
  pc,            \* where each call is
  m_calls,
  responsePtr,   \* the message in each call's context
  notified,      \* a wait of the call's thread was notified
  result,        \* what call returned
  toClient,      \* sent to the client and not read
  toServer,      \* sent to the server on each connection and not read
  channel,       \* the server's side of each connection
  legal,         \* getClientState of it
  registered,    \* keys of m_mapCallbacks_
  served         \* history: requests answered on each connection, in order

callVars == <<pc, m_calls, responsePtr, notified, result>>
linkVars == <<main, m_connState, conn, up>>
serverVars == <<channel, legal, registered, served>>
vars == <<linkVars, callVars, toClient, toServer, serverVars>>

Init ==
  /\ main = "store" /\ m_connState = "kInitialized"
  /\ conn = 0 /\ up = FALSE
  /\ pc = [c \in Calls |-> "new"] /\ m_calls = {}
  /\ responsePtr = [c \in Calls |-> NoCall]
  /\ notified = [c \in Calls |-> FALSE]
  /\ result = [c \in Calls |-> NoCall]
  /\ toClient = <<>> /\ toServer = [n \in Conns |-> <<>>]
  /\ channel = [n \in Conns |-> "none"]
  /\ legal = [n \in Conns |-> FALSE]
  /\ registered = {}
  /\ served = [n \in Conns |-> <<>>]

----------------------------------------------------------------------------
(* The client's connection: connect (42, 43), then the event loop. *)

\* Line 42, after createsocket.
Store ==
  /\ main = "store" /\ main' = "start"
  /\ m_connState' = "kConnecting"
  /\ UNCHANGED <<conn, up, callVars, toClient, toServer, serverVars>>

Start ==
  /\ main = "start" /\ main' = "started"
  /\ UNCHANGED <<m_connState, conn, up, callVars, toClient, toServer, serverVars>>

\* A connection comes up, the first or, by the reconnect setting, another one;
\* onDealConnection, lines 101-103.
Connected ==
  /\ main = "started" /\ ~up /\ conn < MaxConns
  /\ conn' = conn + 1 /\ up' = TRUE
  /\ m_connState' = "kConnected"
  /\ channel' = [channel EXCEPT ![conn + 1] = "open"]
  /\ UNCHANGED <<main, callVars, toClient, toServer, legal, registered, served>>

SetDisconnected == m_connState' = "kDisconnectd"               \* line 108

\* The network fails, or the server has closed; what was not read is lost.
Disconnected ==
  /\ up /\ up' = FALSE
  /\ SetDisconnected
  /\ toClient' = <<>>
  /\ UNCHANGED <<main, conn, callVars, toServer, serverVars>>

----------------------------------------------------------------------------
(* call, on any thread. Places: new (55), register (70), write (77), lock     *)
(* (80, before the wait), wait, read (88), erase (90), done.                  *)

Goto(c, from, to) == pc[c] = from /\ pc' = [pc EXCEPT ![c] = to]

Refuse(c) ==                                                   \* 55-58
  /\ Goto(c, "new", "done") /\ m_connState # "kConnected"
  /\ UNCHANGED <<m_calls, responsePtr, notified, result, linkVars, toClient,
                 toServer, serverVars>>

Number(c) ==                                                   \* 59-68
  /\ Goto(c, "new", "register") /\ m_connState = "kConnected"
  /\ UNCHANGED <<m_calls, responsePtr, notified, result, linkVars, toClient,
                 toServer, serverVars>>

Register(c) ==                                                 \* 70-73
  /\ Goto(c, "register", "write")
  /\ m_calls' = m_calls \cup {c}
  /\ UNCHANGED <<responsePtr, notified, result, linkVars, toClient, toServer,
                 serverVars>>

\* Line 77: write sends nothing on a channel that is closed by now.
Write(c) ==
  /\ Goto(c, "write", "lock")
  /\ toServer' = IF up THEN [toServer EXCEPT ![conn] = Append(@, c)]
                       ELSE toServer
  /\ UNCHANGED <<m_calls, responsePtr, notified, result, linkVars, toClient,
                 serverVars>>

BeginWait(c) ==
  /\ Goto(c, "lock", "wait")
  /\ UNCHANGED <<m_calls, responsePtr, notified, result, linkVars, toClient,
                 toServer, serverVars>>

WaitNotified(c) ==        \* a slip: wait instead of wait_for
  /\ Goto(c, "wait", "read") /\ notified[c]
  /\ UNCHANGED <<m_calls, responsePtr, notified, result, linkVars, toClient,
                 toServer, serverVars>>

WriteAgain(c) ==          \* a slip: without an answer the request is sent again
  /\ Goto(c, "wait", IF responsePtr[c] = NoCall THEN "write" ELSE "read")
  /\ UNCHANGED <<m_calls, responsePtr, notified, result, linkVars, toClient,
                 toServer, serverVars>>

\* Line 80: notified, spuriously, or after the time limit: at any moment.
EndWait(c) ==
  /\ Goto(c, "wait", "read")
  /\ UNCHANGED <<m_calls, responsePtr, notified, result, linkVars, toClient,
                 toServer, serverVars>>

ReadResponse(c) ==
  /\ Goto(c, "read", "erase")
  /\ result' = [result EXCEPT ![c] = responsePtr[c]]
  /\ UNCHANGED <<m_calls, responsePtr, notified, linkVars, toClient, toServer,
                 serverVars>>

EraseCall(c) ==                                                \* 90-93
  /\ Goto(c, "erase", "done")
  /\ m_calls' = m_calls \ {c}
  /\ UNCHANGED <<responsePtr, notified, result, linkVars, toClient, toServer,
                 serverVars>>

Call(c) ==
  \/ Register(c) \/ Write(c) \/ BeginWait(c) \/ EndWait(c) \/ ReadResponse(c)
  \/ EraseCall(c)

(* onDealMessage of the client, in its event loop *)

FindAny(m) == m_calls     \* a slip: the first call instead of the one asked for

\* Line 127: the contexts found by the number of the message m.
FindCall(m) == m_calls \cap {m.of}

\* Lines 119-142. Whatever decodes is taken for the answer, a request too. One to
\* a call that has given up is dropped; a notify reaches only a waiting thread.
DealResponse ==
  /\ toClient # <<>> /\ toClient' = Tail(toClient)
  /\ LET m == Head(toClient)
     IN /\ m # Echo
        /\ IF FindCall(m) = {}
           THEN UNCHANGED <<responsePtr, notified>>
           ELSE \E c \in FindCall(m) :
                  /\ responsePtr' = [responsePtr EXCEPT ![c] = m]
                  /\ notified' = [notified EXCEPT ![c] = @ \/ pc[c] = "wait"]
  /\ UNCHANGED <<pc, m_calls, result, linkVars, toServer, serverVars>>

\* An echo, pieces, or several messages at once do not decode and are dropped.
DealGarbled ==
  /\ \E k \in 1..Len(toClient) : toClient' = SubSeq(toClient, k + 1, Len(toClient))
  /\ UNCHANGED <<callVars, linkVars, toServer, serverVars>>

----------------------------------------------------------------------------
(* The server. close(true) lets no more be written, but the event loop goes on *)
(* reading for the rest of its turn, and more messages may be dealt with.      *)

Readable(n) == channel[n] \in {"open", "closing"} /\ toServer[n] # <<>>

\* Write messages to channel n: in vain if it is closed or the client is gone.
Send(n, ms) ==
  toClient' = IF channel[n] = "open" /\ n = conn /\ up THEN toClient \o ms
              ELSE toClient

Respond(n, r) ==
  /\ served' = [served EXCEPT ![n] = Append(@, r)]
  /\ Send(n, <<Response(r)>>)
  /\ UNCHANGED channel

CloseAsync(n) == channel' = [channel EXCEPT ![n] = "closing"]

FailedLoginCounts(n) ==   \* a slip: line 154 comes before the test of 152
  legal' = [legal EXCEPT ![n] = TRUE]

\* Lines 180 and 119: a handler that is missing or fails.
NotLegalised(n) == UNCHANGED legal

Handled(r) == kind[r] \in registered

\* onDealMessage on a connection that has logged in, 74-121.
DealRequest(n) ==
  /\ Readable(n) /\ legal[n]
  /\ toServer' = [toServer EXCEPT ![n] = Tail(@)]
  /\ LET r == Head(toServer[n])
     IN \/ Handled(r) /\ Respond(n, r)
        \/ CloseAsync(n) /\ UNCHANGED <<served, toClient>>
  /\ UNCHANGED <<callVars, linkVars, legal, registered>>

\* onDealLoginMessage, 134-182: the first message is a login.
DealLogin(n) ==
  /\ Readable(n) /\ ~legal[n]
  /\ kind[Head(toServer[n])] = "login"
  /\ toServer' = [toServer EXCEPT ![n] = Tail(@)]
  /\ LET r == Head(toServer[n])
     IN \/ /\ Handled(r) /\ Respond(n, r)
           /\ legal' = [legal EXCEPT ![n] = TRUE]
        \/ /\ NotLegalised(n) /\ CloseAsync(n)
           /\ UNCHANGED <<served, toClient>>
  /\ UNCHANGED <<callVars, linkVars, registered>>

\* Send back what was read of k messages, of which the last may be a piece, and
\* close: several, a piece, or, from a client that has not logged in, another
\* request (126-127, 186-187). The failed decoding has altered the last four bytes:
\* of the last message, or, if only a byte or two of it are here, of two.
Reject(n, k) ==
  /\ toServer' = [toServer EXCEPT ![n] = SubSeq(@, k + 1, Len(@))]
  /\ \E intact \in {k - 1, k - 2} \cap Nat :
       Send(n, Append([i \in 1..intact |-> SentBack(toServer[n][i])], Echo))
  /\ CloseAsync(n)
  /\ UNCHANGED <<callVars, linkVars, legal, registered, served>>

DealIllegal(n) == Readable(n) /\ \E k \in 1..Len(toServer[n]) : Reject(n, k)

\* The event loop closes the channel, because it was told to or the client's side
\* is gone.
CloseChannel(n) ==
  /\ \/ channel[n] = "closing"
     \/ channel[n] = "open" /\ ~(n = conn /\ up)
  /\ channel' = [channel EXCEPT ![n] = "closed"]
  /\ toServer' = [toServer EXCEPT ![n] = <<>>]
  /\ UNCHANGED <<callVars, linkVars, toClient, legal, registered, served>>

\* registerMessageCallback, by another component while the server runs.
registerMessageCallback(k) ==
  /\ k \notin registered /\ registered' = registered \cup {k}
  /\ UNCHANGED <<callVars, linkVars, toClient, toServer, channel, legal, served>>

----------------------------------------------------------------------------
Next ==
  \/ Store \/ Start \/ Connected \/ Disconnected
  \/ \E c \in Calls : Refuse(c) \/ Number(c) \/ Call(c)
  \/ DealResponse \/ DealGarbled
  \/ \E n \in Conns : DealRequest(n) \/ DealLogin(n) \/ DealIllegal(n)
                        \/ CloseChannel(n)
  \/ \E k \in Kinds : registerMessageCallback(k)

Spec == Init /\ [][Next]_vars

\* The threads of calls are scheduled and timed waits end; the network and the
\* server owe nothing.
FairSpec == Spec /\ \A c \in Calls : WF_vars(Call(c))

----------------------------------------------------------------------------
(* Properties *)

\* The variables keep their types, and m_calls holds a context for exactly the
\* calls that may still get a response.
TypeOK ==
  /\ main \in {"store", "start", "started"}
  /\ m_connState \in {"kInitialized", "kConnecting", "kConnected", "kDisconnectd"}
  /\ conn \in 0..MaxConns /\ up \in BOOLEAN
  /\ pc \in [Calls -> {"new", "register", "write", "lock", "wait", "read",
                       "erase", "done"}]
  /\ m_calls =
       {c \in Calls : pc[c] \in {"write", "lock", "wait", "read", "erase"}}
  /\ responsePtr \in [Calls -> Messages \cup {NoCall}]
  /\ notified \in [Calls -> BOOLEAN]
  /\ result \in [Calls -> Messages \cup {NoCall}]
  /\ toClient \in Seq(Messages \cup {Echo}) /\ toServer \in [Conns -> Seq(Calls)]
  /\ channel \in [Conns -> {"none", "open", "closing", "closed"}]
  /\ legal \in [Conns -> BOOLEAN] /\ registered \subseteq Kinds
  /\ served \in [Conns -> Seq(Calls)]

\* What call returns is about its own request, whatever came late, out of turn, or
\* over a connection that broke: an answer of the server, which has served it, or
\* the request itself, sent back, which then has not been served and never will be.
AnswersOwnRequest ==
  \A c \in Calls : result[c] # NoCall =>
    \/ result[c] = Response(c) /\ \E n \in Conns : c \in Range(served[n])
    \/ /\ result[c] = SentBack(c)
       /\ \A n \in Conns : c \notin Range(served[n]) \cup Range(toServer[n])

\* No request is served twice, on one connection or on two: call never sends it
\* again, whether its wait ends, its answer is lost or the connection is set up anew.
ServedOnce ==
  \A n, m \in Conns : \A i \in DOMAIN served[n], j \in DOMAIN served[m] :
    served[n][i] = served[m][j] => n = m /\ i = j

\* On every connection the first request that is served is a login: one on an
\* earlier connection, or one that failed, does not count.
LoginFirst ==
  \A n \in Conns : served[n] # <<>> => kind[served[n][1]] = "login"

\* A call returns, though its request or its answer may be lost with the
\* connection, garbled, or notified before the wait; and leaves no context behind.
CallReturns ==
  \A c \in Calls : pc[c] = "register" ~> pc[c] = "done" /\ c \notin m_calls

=============================================================================
