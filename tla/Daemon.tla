------------------------------- MODULE Daemon --------------------------------
(***************************************************************************)
(* The broker behind connections: clients that send one request at a time  *)
(* and may die at any moment (rpcClient in main.go), handlers that read a  *)
(* request, call the broker and write the response (handleConn in main.go).*)
(*                                                                         *)
(* A connection is named by the goroutine of its handler, the thread that  *)
(* calls Push or Pop in module Broker.  A client uses one connection, and  *)
(* a payload is sent once.                                                 *)
(***************************************************************************)
EXTENDS Broker

VARIABLES
  client,    \* client[t]: "up", "gone" (died), "closed" (by the daemon)
  asked,     \* asked[t]: the request the client of t waits for, or Nil
  req,       \* req[t]: the request in the socket, not yet read
  hpc,       \* where the handler of t is in its loop
  resp,      \* resp[t]: the response in the socket, not yet read
  sent,      \* sent[t]: deliveries the client of t asked to push, in order
  acked,     \* payloads whose push was answered with OK
  failed,    \* payloads whose push was answered with an error
  received   \* received[t]: deliveries the client of t got, in order

clients == <<client, asked, sent, acked, failed, received>>
dvars == <<vars, clients, req, hpc, resp>>

\* The timeout of a pop is left to ContextDone.
PushRequest == [op : {"push"}, channel : Channels, payload : Messages]
PopRequest == [op : {"pop"}, channels : PopLists]
Response == [err : {"none", "nil", "timeout", "invalid"}, val : Delivery \cup {Nil}]

ASSUME DaemonAssumption ==
  Nil \notin PushRequest /\ Nil \notin PopRequest /\ Nil \notin Response

DaemonInit ==
  /\ Init
  /\ client = [t \in Threads |-> "up"]
  /\ asked = [t \in Threads |-> Nil]
  /\ req = [t \in Threads |-> Nil]
  /\ hpc = [t \in Threads |-> "read"]
  /\ resp = [t \in Threads |-> Nil]
  /\ sent = [t \in Threads |-> <<>>]
  /\ acked = {}
  /\ failed = {}
  /\ received = [t \in Threads |-> <<>>]

-----------------------------------------------------------------------------
(* The client: rpcClient.Push and rpcClient.Pop                            *)

Sent(m) == \E t \in Threads : \E i \in DOMAIN sent[t] : sent[t][i].payload = m

Ask(t, r) ==
  /\ client[t] = "up"
  /\ asked[t] = Nil
  /\ asked' = [asked EXCEPT ![t] = r]
  /\ req' = [req EXCEPT ![t] = r]
  /\ UNCHANGED <<vars, client, hpc, resp, acked, failed, received>>

AskPush(t, r) ==
  /\ ~Sent(r.payload)
  /\ sent' = [sent EXCEPT ![t] =
       Append(@, [channel |-> r.channel, payload |-> r.payload])]
  /\ Ask(t, r)

AskPop(t, r) == Ask(t, r) /\ UNCHANGED sent

\* The response arrives.  The daemon has closed the connection if it is an
\* error.
Answer(t) ==
  /\ client[t] = "up"
  /\ resp[t] # Nil
  /\ LET ok == resp[t].err = "nil"
         push == asked[t].op = "push"
     IN  /\ client' = [client EXCEPT ![t] = IF ok THEN "up" ELSE "closed"]
         /\ acked' = acked \cup {m \in Messages : push /\ ok /\ m = asked[t].payload}
         /\ failed' = failed \cup {m \in Messages : push /\ ~ok /\ m = asked[t].payload}
         /\ received' = IF ok /\ ~push
                        THEN [received EXCEPT ![t] = Append(@, resp[t].val)]
                        ELSE received
  /\ asked' = [asked EXCEPT ![t] = Nil]
  /\ resp' = [resp EXCEPT ![t] = Nil]
  /\ UNCHANGED <<vars, sent, req, hpc>>

\* What the client has sent stays in the socket buffer.
ClientDies(t) ==
  /\ client[t] = "up"
  /\ client' = [client EXCEPT ![t] = "gone"]
  /\ UNCHANGED <<vars, asked, sent, acked, failed, received, req, hpc, resp>>

-----------------------------------------------------------------------------
(* handleConn                                                              *)

\* The handler goes on in its loop body when the broker call has returned.
InCall(t) == hpc' = [hpc EXCEPT ![t] = IF pc'[t] = "idle" THEN "write" ELSE "call"]

HandlerPush(t) ==
  /\ hpc[t] = "read"
  /\ req[t] # Nil /\ req[t].op = "push"
  /\ \/ PushCall(t, req[t].channel, req[t].payload)
     \/ PushInvalid(t, req[t].channel, req[t].payload)
  /\ InCall(t)
  /\ req' = [req EXCEPT ![t] = Nil]
  /\ UNCHANGED <<clients, resp>>

HandlerPop(t) ==
  /\ hpc[t] = "read"
  /\ req[t] # Nil /\ req[t].op = "pop"
  /\ PopCall(t, req[t].channels) \/ PopInvalid(t, req[t].channels)
  /\ InCall(t)
  /\ req' = [req EXCEPT ![t] = Nil]
  /\ UNCHANGED <<clients, resp>>

BrokerStep(t) ==
  /\ hpc[t] = "call"
  /\ Step(t)
  /\ InCall(t)
  /\ UNCHANGED <<clients, req, resp>>

\* A Push runs under connCtx: the watcher cancels it, as a rule but not always
\* (see ConnWatcher) because the client has gone, and a shutdown cancels it.  A
\* Pop runs under a context with its own timeout; one that never expires is a
\* Pop without a timeout.
ContextDone(t) ==
  /\ hpc[t] = "call"
  /\ CtxDone(t)
  /\ UNCHANGED <<clients, req, hpc, resp>>

\* writeResponse fails when the client has gone; an error ends the loop.
HandlerWrite(t) ==
  /\ hpc[t] = "write"
  /\ \/ /\ client[t] = "up"
        /\ resp' = [resp EXCEPT ![t] = result[t]]
        /\ hpc' = [hpc EXCEPT ![t] = IF result[t].err = "nil" THEN "read" ELSE "closed"]
     \/ /\ client[t] = "gone"
        /\ hpc' = [hpc EXCEPT ![t] = "closed"]
        /\ UNCHANGED resp
  /\ UNCHANGED <<vars, clients, req>>

HandlerEOF(t) ==
  /\ hpc[t] = "read"
  /\ req[t] = Nil
  /\ client[t] = "gone"
  /\ hpc' = [hpc EXCEPT ![t] = "closed"]
  /\ UNCHANGED <<vars, clients, req, resp>>

DaemonNext ==
  \/ \E t \in Pushers, r \in PushRequest : AskPush(t, r)
  \/ \E t \in Poppers, r \in PopRequest : AskPop(t, r)
  \/ \E t \in Threads :
       \/ Answer(t) \/ ClientDies(t)
       \/ HandlerPush(t) \/ HandlerPop(t) \/ BrokerStep(t) \/ ContextDone(t)
       \/ HandlerWrite(t) \/ HandlerEOF(t)

DaemonSpec == DaemonInit /\ [][DaemonNext]_dvars

-----------------------------------------------------------------------------
\* Payload m is in the response that the daemon has for the live client of t.
Answering(t, m) ==
  /\ client[t] = "up"
  /\ \/ hpc[t] = "write" /\ result[t].val # Nil /\ result[t].val.payload = m
     \/ resp[t] # Nil /\ resp[t].val # Nil /\ resp[t].val.payload = m

\* Payload m is with a call of the handler of t that has not returned.
Calling(t, m) ==
  /\ pc[t] # "idle"
  /\ \/ msg[t] # Nil /\ msg[t].payload = m
     \/ reply[t] # Nil /\ reply[t].payload = m

Received(t, m) == \E i \in DOMAIN received[t] : received[t][i].payload = m

Accounted(m) ==
  \/ Queued(m)
  \/ \E t \in Threads : Calling(t, m) \/ Answering(t, m) \/ Received(t, m)

\* No payload reaches two clients, or one of them twice.
ReceivedOnce ==
  \A t, u \in Threads : \A i \in DOMAIN received[t], j \in DOMAIN received[u] :
    received[t][i].payload = received[u][j].payload => t = u /\ i = j

\* A push that was answered with an error has no effect, now or later, so the
\* client may try it again.
FailedLeavesNothing == \A m \in failed : ~Accounted(m)

\* An acknowledged payload is lost in one way only: it was the answer to the
\* last pop of a client that died, one for each such client.
LostWithItsConsumer ==
  \A m \in acked : \/ Accounted(m)
                   \/ \E t \in Threads : /\ client[t] = "gone"
                                         /\ result[t].val # Nil
                                         /\ result[t].val.payload = m

\* What a client gets from a channel of what another client pushed to it comes
\* in the order of the pushes.
ProducerOrder ==
  \A t, u \in Threads :
    \A i, j \in DOMAIN received[t] : \A k, l \in DOMAIN sent[u] :
      /\ received[t][i] = sent[u][k]
      /\ received[t][j] = sent[u][l]
      /\ received[t][i].channel = received[t][j].channel
      /\ i < j
      => k < l
=============================================================================
