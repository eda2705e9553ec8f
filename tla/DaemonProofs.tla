---------------------------- MODULE DaemonProofs -----------------------------
(***************************************************************************)
(* Machine-checked proofs about Daemon: where a payload can be between the *)
(* client that pushes it and the client that pops it, for any number of    *)
(* connections, channels and messages and for any caps.                    *)
(***************************************************************************)
EXTENDS Daemon, BrokerProofs

\* Payload m is somewhere in the broker.
InBroker(m) == Queued(m) \/ Held(m)

\* The handler of t has taken m out of the broker, and the client does not have
\* it: it is in the response, or lost with the client.
Leaving(t, m) ==
  /\ asked[t] # Nil /\ req[t] = Nil
  /\ result[t].val # Nil /\ result[t].val.payload = m

Nowhere(m) == ~InBroker(m) /\ \A t \in Threads : ~Leaving(t, m) /\ ~Received(t, m)

PushAsked(t, m) == asked[t] # Nil /\ asked[t].op = "push" /\ asked[t].payload = m

\* The request of t that is not answered yet: in the socket, in the broker or
\* with a result that is about to be, is being, or never will be read.
Waiting(t) == asked[t] # Nil /\ req[t] = Nil /\ hpc[t] # "call"

DaemonTypes ==
  /\ client \in [Threads -> {"up", "gone", "closed"}]
  /\ asked \in [Threads -> PushRequest \cup PopRequest \cup {Nil}]
  /\ req \in [Threads -> PushRequest \cup PopRequest \cup {Nil}]
  /\ hpc \in [Threads -> {"read", "call", "write", "closed"}]
  /\ resp \in [Threads -> Response \cup {Nil}]
  /\ sent \in [Threads -> Seq(Delivery)]
  /\ acked \subseteq Messages
  /\ failed \subseteq Messages
  /\ received \in [Threads -> Seq(Delivery)]

\* A client has one request under way, and it is in one stage.
StageOK(t) ==
  /\ req[t] # Nil => asked[t] = req[t] /\ resp[t] = Nil /\ hpc[t] \in {"read", "closed"}
  /\ asked[t] \in PushRequest => t \in Pushers
  /\ asked[t] \in PopRequest => t \in Poppers
  /\ resp[t] # Nil => asked[t] # Nil /\ resp[t] = result[t] /\ hpc[t] \in {"read", "closed"}
  /\ hpc[t] = "call" <=> pc[t] # "idle"
  /\ hpc[t] \in {"call", "write"} => asked[t] # Nil /\ req[t] = Nil
  /\ hpc[t] = "call" => /\ result[t] = Returned("none", Nil)
                        /\ asked[t] \in PushRequest =>
                             /\ pc[t] \in PushPC
                             /\ msg[t] = [channel |-> asked[t].channel,
                                          payload |-> asked[t].payload]
                        /\ asked[t] \in PopRequest => pc[t] \in PopPC
  /\ hpc[t] = "read" /\ resp[t] # Nil => resp[t].err = "nil"
  /\ hpc[t] = "closed" => client[t] # "up" \/ (resp[t] # Nil /\ resp[t].err # "nil")
  /\ hpc[t] = "read" => (asked[t] = Nil <=> req[t] = Nil /\ resp[t] = Nil)
  /\ client[t] = "closed" => hpc[t] = "closed" /\ asked[t] = Nil
  /\ Waiting(t) /\ asked[t] \in PushRequest => result[t].val = Nil
  /\ Waiting(t) /\ asked[t] \in PopRequest => (result[t].err = "nil" <=> result[t].val # Nil)

StagesOK == \A t \in Threads : StageOK(t)

\* A payload is sent once, so a settled one is not under way again.
SentOnce ==
  /\ \A t \in Threads, m \in Messages : PushAsked(t, m) => Sent(m)
  /\ \A t, u \in Threads, m \in Messages : PushAsked(t, m) /\ PushAsked(u, m) => t = u
  /\ \A m \in acked \cup failed : Sent(m) /\ \A t \in Threads : ~PushAsked(t, m)

\* OnePlace, beyond the broker.
OneOwner ==
  /\ \A t \in Threads, m \in Messages : Leaving(t, m) \/ Received(t, m) => ~InBroker(m)
  /\ \A t, u \in Threads, m \in Messages : Leaving(t, m) => ~Received(u, m)
  /\ \A t, u \in Threads, m \in Messages : Leaving(t, m) /\ Leaving(u, m) => t = u
  /\ ReceivedOnce

\* Whether a payload is in the system: not before its push is called and not
\* after it failed, but for ever once it succeeded.
Fate ==
  /\ \A m \in Messages : ~Sent(m) => Nowhere(m)
  /\ \A m \in failed : Nowhere(m)
  /\ \A m \in acked : ~Nowhere(m)
  /\ \A t \in Threads, m \in Messages : PushAsked(t, m) =>
       /\ req[t] # Nil => Nowhere(m)
       /\ Waiting(t) => (Nowhere(m) <=> result[t].err # "nil")

DaemonInv ==
  /\ CoreInv /\ OnePlace
  /\ DaemonTypes /\ StagesOK /\ SentOnce /\ OneOwner /\ Fate

-----------------------------------------------------------------------------
(* What the steps of the broker do to the payloads that it has             *)

LEMMA EnqueuedPayloads ==
  ASSUME CoreInv, NEW e \in Channels, NEW p \in Messages,
         queues' = [queues EXCEPT ![e] = Append(@, p)]
  PROVE  \A m : Queued(m)' <=> Queued(m) \/ m = p
<1>1. queues \in [Channels -> Seq(Messages)]
  BY DEF CoreInv, TypeOK
<1>2. \A c \in Channels : c # e => queues'[c] = queues[c]
  BY <1>1
<1>3. queues'[e] = Append(queues[e], p) /\ queues[e] \in Seq(Messages)
  BY <1>1
<1>4. \A m : (\E i \in DOMAIN queues'[e] : queues'[e][i] = m) <=>
             (m = p \/ \E i \in DOMAIN queues[e] : queues[e][i] = m)
  BY <1>3, AppendElements
<1> QED BY <1>2, <1>4 DEF Queued

LEMMA DequeuedPayloads ==
  ASSUME CoreInv, OnePlace, NEW e \in Channels, queues[e] # <<>>,
         queues' = [queues EXCEPT ![e] = Tail(@)]
  PROVE  /\ Queued(Head(queues[e]))
         /\ \A m : Queued(m)' <=> Queued(m) /\ m # Head(queues[e])
<1>1. queues \in [Channels -> Seq(Messages)]
  BY DEF CoreInv, TypeOK
<1>2. \A c \in Channels : c # e => queues'[c] = queues[c]
  BY <1>1
<1>3. queues'[e] = Tail(queues[e]) /\ queues[e] \in Seq(Messages)
  BY <1>1
<1>4. Len(queues[e]) \in Nat \ {0} /\ DOMAIN queues[e] = 1..Len(queues[e])
  BY <1>3, LenProperties, EmptySeq
<1>5. /\ queues'[e] \in Seq(Messages) /\ Len(queues'[e]) = Len(queues[e]) - 1
      /\ \A i \in 1..Len(queues'[e]) : queues'[e][i] = queues[e][i + 1]
  BY <1>3, HeadTailProperties
<1>h. Head(queues[e]) = queues[e][1]
  BY <1>3
<1>6. DOMAIN queues'[e] = 1..(Len(queues[e]) - 1)
  BY <1>5, LenProperties
<1>7. 1 \in DOMAIN queues[e]
  BY <1>4
<1>8. ASSUME NEW i \in DOMAIN queues'[e]
      PROVE  \E k \in DOMAIN queues[e] : k # 1 /\ queues[e][k] = queues'[e][i]
  <2>1. i + 1 \in DOMAIN queues[e] /\ i + 1 # 1 /\ queues'[e][i] = queues[e][i + 1]
    BY <1>4, <1>5, <1>6
  <2> QED BY <2>1
<1>9. ASSUME NEW k \in DOMAIN queues[e], k # 1
      PROVE  \E i \in DOMAIN queues'[e] : queues'[e][i] = queues[e][k]
  <2>1. k - 1 \in DOMAIN queues'[e] /\ queues'[e][k - 1] = queues[e][k]
    BY <1>4, <1>5, <1>6, <1>9
  <2> QED BY <2>1
<1>10. \A c \in Channels : \A k \in DOMAIN queues[c] :
         queues[c][k] = Head(queues[e]) <=> c = e /\ k = 1
  BY <1>h, <1>7 DEF OnePlace
<1>11. Queued(Head(queues[e]))
  BY <1>h, <1>7 DEF Queued
<1>12. ASSUME NEW m PROVE Queued(m)' => Queued(m) /\ m # Head(queues[e])
  BY <1>2, <1>8, <1>10 DEF Queued
<1>13. ASSUME NEW m, Queued(m), m # Head(queues[e]) PROVE Queued(m)'
  <2>1. PICK c \in Channels, k \in Int : k \in DOMAIN queues[c] /\ queues[c][k] = m
    BY <1>1, <1>13, LenProperties DEF Queued
  <2>2. c = e => k # 1
    BY <1>10, <1>13, <2>1
  <2> QED BY <1>2, <1>9, <2>1, <2>2 DEF Queued
<1> QED BY <1>11, <1>12, <1>13

\* The call of t has ended, or it has not.
StillIn(t) ==
  /\ pc'[t] # "idle" /\ (pc'[t] \in PushPC <=> pc[t] \in PushPC)
  /\ msg'[t] = msg[t] /\ result'[t] = result[t]

Returns(t, err, val) == pc'[t] = "idle" /\ result'[t] = Returned(err, val)

SamePayloads == \A m : InBroker(m)' <=> InBroker(m)

LosesPayload(p) == InBroker(p) /\ \A m : InBroker(m)' <=> InBroker(m) /\ m # p

LEMMA ReturnReturns ==
  ASSUME CoreInv, NEW t \in Threads, NEW err, NEW val, Return(t, err, val)
  PROVE  /\ Returns(t, err, val) /\ msg'[t] = Nil
         /\ \A u \in Threads \ {t} : pc'[u] = pc[u] /\ msg'[u] = msg[u] /\ result'[u] = result[u]
BY DEF CoreInv, TypeOK, Return, Goto, Returns

LEMMA PushMoves ==
  ASSUME CoreInv, OnePlace, NEW t \in Threads, PushStep(t)
  PROVE  /\ \A u \in Threads \ {t} : pc'[u] = pc[u] /\ msg'[u] = msg[u] /\ result'[u] = result[u]
         /\ pc[t] \in PushPC /\ msg[t] # Nil
         /\ \/ StillIn(t) /\ SamePayloads
            \/ Returns(t, "nil", Nil) /\ SamePayloads
            \/ Returns(t, "timeout", Nil) /\ LosesPayload(msg[t].payload)
<1> USE DEF PushPC
<1>0. pc[t] \in PushPC /\ msg[t] # Nil
  BY DEF PushStep, PushHandoff, PushSend, PushEnqueue, PushBlock, PushNotify, PushWake,
         PushCancelled, CoreInv, ControlOK
<1>1. CASE PushHandoff(t) \/ PushBlock(t) \/ PushNotify(t) \/ PushWake(t)
  <2>1. /\ UNCHANGED <<queues, msg, reply, result>>
        /\ \E l \in PushPC : pc' = [pc EXCEPT ![t] = l]
    BY <1>1 DEF PushHandoff, PushBlock, PushNotify, PushWake, shared, Goto
  <2>2. SamePayloads
    BY <2>1 DEF SamePayloads, InBroker, Queued, Held
  <2>3. StillIn(t) /\ \A u \in Threads \ {t} : pc'[u] = pc[u]
    BY <1>0, <2>1 DEF StillIn, CoreInv, TypeOK
  <2> QED BY <1>0, <2>1, <2>2, <2>3
<1>2. CASE PushSend(t)
  <2>1. target[t] \in Threads
    BY <1>2, Locals DEF PushSend
  <2>2. /\ \A u \in Threads : msg'[u] = IF u = t THEN Nil ELSE msg[u]
        /\ \A u \in Threads : reply'[u] = IF u = target[t] THEN msg[t] ELSE reply[u]
        /\ reply[target[t]] = Nil /\ UNCHANGED queues
    BY <1>2, <2>1 DEF PushSend, Return, shared, CoreInv, TypeOK
  <2>3. \A m : Held(m)' <=> Held(m)
    BY <1>0, <2>1, <2>2 DEF Held
  <2>4. SamePayloads
    BY <2>2, <2>3 DEF SamePayloads, InBroker, Queued
  <2> QED BY <1>0, <1>2, <2>4, ReturnReturns DEF PushSend
<1>3. CASE PushEnqueue(t)
  <2>1. /\ msg[t].channel \in Channels /\ msg[t].payload \in Messages
        /\ queues' = [queues EXCEPT ![msg[t].channel] = Append(@, msg[t].payload)]
        /\ \A u \in Threads : msg'[u] = IF u = t THEN Nil ELSE msg[u]
        /\ UNCHANGED reply
    BY <1>3, Locals DEF PushEnqueue, Return, CoreInv, TypeOK
  <2>2. \A m : Queued(m)' <=> Queued(m) \/ m = msg[t].payload
    BY <2>1, EnqueuedPayloads
  <2>3. \A m : Held(m) <=> Held(m)' \/ m = msg[t].payload
    BY <1>0, <2>1 DEF Held
  <2>4. SamePayloads
    BY <2>2, <2>3 DEF SamePayloads, InBroker
  <2> QED BY <1>0, <1>3, <2>4, ReturnReturns DEF PushEnqueue
<1>4. CASE PushCancelled(t)
  <2>1. /\ UNCHANGED <<queues, reply>>
        /\ \A u \in Threads : msg'[u] = IF u = t THEN Nil ELSE msg[u]
    BY <1>4 DEF PushCancelled, Return, CoreInv, TypeOK
  <2>2. \A m : Held(m)' <=> Held(m) /\ m # msg[t].payload
    BY <1>0, <2>1 DEF Held, OnePlace
  <2>3. \A m : Queued(m)' <=> Queued(m) /\ m # msg[t].payload
    BY <1>0, <2>1 DEF Queued, OnePlace
  <2>4. LosesPayload(msg[t].payload)
    BY <1>0, <2>2, <2>3 DEF LosesPayload, InBroker, Held
  <2> QED BY <1>0, <1>4, <2>4, ReturnReturns DEF PushCancelled
<1> QED BY <1>1, <1>2, <1>3, <1>4 DEF PushStep

LEMMA PopMoves ==
  ASSUME CoreInv, OnePlace, NEW t \in Threads, PopStep(t)
  PROVE  /\ \A u \in Threads \ {t} : pc'[u] = pc[u] /\ msg'[u] = msg[u] /\ result'[u] = result[u]
         /\ pc[t] \in PopPC /\ msg[t] = Nil
         /\ \/ StillIn(t) /\ SamePayloads
            \/ Returns(t, "timeout", Nil) /\ SamePayloads
            \/ \E d \in Delivery : Returns(t, "nil", d) /\ LosesPayload(d.payload)
<1> USE DEF PopPC, PushPC
<1>0. pc[t] \in PopPC /\ msg[t] = Nil
  BY DEF PopStep, PopQueued, PopExpired, PopWait, PopReceive, PopDone, PopRemoveWaiter, PopPoll,
         CoreInv, ControlOK
<1>1. CASE PopWait(t) \/ PopDone(t) \/ PopRemoveWaiter(t)
  <2>1. /\ UNCHANGED <<queues, msg, reply, result>>
        /\ \E l \in PopPC : pc' = [pc EXCEPT ![t] = l]
    BY <1>1 DEF PopWait, PopDone, PopRemoveWaiter, shared, Goto
  <2>2. SamePayloads
    BY <2>1 DEF SamePayloads, InBroker, Queued, Held
  <2>3. StillIn(t) /\ \A u \in Threads \ {t} : pc'[u] = pc[u]
    BY <1>0, <2>1 DEF StillIn, CoreInv, TypeOK
  <2> QED BY <1>0, <2>1, <2>2, <2>3
<1>2. ASSUME NEW err, NEW val, Return(t, err, val), UNCHANGED <<queues, reply>>
      PROVE  SamePayloads
  <2>1. \A u \in Threads : msg'[u] = msg[u]
    BY <1>0, <1>2 DEF Return, CoreInv, TypeOK
  <2> QED BY <1>2, <2>1 DEF SamePayloads, InBroker, Queued, Held
<1>3. CASE PopExpired(t)
  BY <1>0, <1>2, <1>3, ReturnReturns DEF PopExpired, shared
<1>4. CASE PopReceive(t)
  <2>1. PICK d \in Delivery : d = reply[t]
    BY <1>4 DEF PopReceive, CoreInv, TypeOK
  <2>2. /\ Return(t, "nil", d) /\ UNCHANGED queues /\ reply[t] # Nil
        /\ \A u \in Threads : msg'[u] = msg[u]
        /\ \A u \in Threads : reply'[u] = IF u = t THEN Nil ELSE reply[u]
    BY <1>0, <1>4, <2>1 DEF PopReceive, Return, shared, CoreInv, TypeOK
  <2>3. \A m : Held(m)' <=> Held(m) /\ m # d.payload
    BY <2>1, <2>2 DEF Held, OnePlace
  <2>4. \A m : Queued(m)' <=> Queued(m) /\ m # d.payload
    BY <2>1, <2>2 DEF Queued, OnePlace
  <2>5. LosesPayload(d.payload)
    BY <2>1, <2>2, <2>3, <2>4 DEF LosesPayload, InBroker, Held
  <2> QED BY <1>0, <2>2, <2>5, ReturnReturns
<1>5. CASE PopPoll(t)
  <2>1. reply[t] = Nil
    BY <1>5 DEF PopPoll, CoreInv, HandoffExact, Expecting
  <2>2. Return(t, "timeout", Nil) /\ UNCHANGED <<queues, reply>>
    BY <1>5, <2>1 DEF PopPoll, shared, CoreInv, TypeOK
  <2> QED BY <1>0, <1>2, <2>2, ReturnReturns
<1>6. CASE PopQueued(t)
  <2>1. PICK i \in DOMAIN channels[t] :
          /\ queues[channels[t][i]] # <<>>
          /\ queues' = [queues EXCEPT ![channels[t][i]] = Tail(@)]
          /\ Return(t, "nil", [channel |-> channels[t][i], payload |-> Head(queues[channels[t][i]])])
    BY <1>6 DEF PopQueued, FirstQueued
  <2>2. PICK e \in Channels : e = channels[t][i]
    BY Locals
  <2>3. PICK p \in Messages : p = Head(queues[e])
    BY <2>1, <2>2, HeadTailProperties, Locals
  <2>4. PICK d \in Delivery : d = [channel |-> e, payload |-> p]
    BY DEF Delivery
  <2>5. Return(t, "nil", d) /\ d.payload = p
    BY <2>1, <2>2, <2>3, <2>4
  <2>6. Queued(p) /\ \A m : Queued(m)' <=> Queued(m) /\ m # p
    BY <2>1, <2>2, <2>3, DequeuedPayloads
  <2>7. UNCHANGED reply /\ \A u \in Threads : msg'[u] = msg[u]
    BY <1>0, <1>6, <2>5 DEF PopQueued, Return, CoreInv, TypeOK
  <2>8. \A m : (Held(m)' <=> Held(m)) /\ (Held(m) => m # p)
    BY <2>6, <2>7 DEF Held, OnePlace
  <2>9. LosesPayload(p)
    BY <2>6, <2>8 DEF LosesPayload, InBroker
  <2> QED BY <1>0, <2>5, <2>9, ReturnReturns
<1> QED BY <1>1, <1>3, <1>4, <1>5, <1>6 DEF PopStep

-----------------------------------------------------------------------------
(* Frames                                                                  *)

LEMMA Requests ==
  /\ \A r \in PushRequest : /\ r.op = "push" /\ r.channel \in Channels /\ r.payload \in Messages
                            /\ r # Nil
  /\ \A r \in PopRequest : r.op = "pop" /\ r.channels \in PopLists /\ r # Nil
BY DaemonAssumption DEF PushRequest, PopRequest

\* The step does not touch connection u.
Untouched(u) ==
  /\ client'[u] = client[u] /\ asked'[u] = asked[u] /\ req'[u] = req[u]
  /\ hpc'[u] = hpc[u] /\ resp'[u] = resp[u]
  /\ pc'[u] = pc[u] /\ msg'[u] = msg[u] /\ result'[u] = result[u]

LEMMA UntouchedStage ==
  ASSUME NEW u, StageOK(u), Untouched(u)
  PROVE  StageOK(u)'
BY DEF StageOK, Waiting, Untouched

\* No payload moves and nothing is settled.
Quiet ==
  /\ SamePayloads
  /\ UNCHANGED <<received, sent, acked, failed>>
  /\ \A u \in Threads, m \in Messages :
       /\ Leaving(u, m)' <=> Leaving(u, m)
       /\ PushAsked(u, m)' <=> PushAsked(u, m)
       /\ PushAsked(u, m) /\ req'[u] # Nil => req[u] # Nil
       /\ PushAsked(u, m) /\ Waiting(u)' => Waiting(u) /\ result'[u].err = result[u].err

LEMMA QuietKeeps ==
  ASSUME DaemonInv, Quiet
  PROVE  SentOnce' /\ OneOwner' /\ Fate'
<1>1. /\ \A m : Sent(m)' <=> Sent(m)
      /\ \A u \in Threads, m \in Messages : Received(u, m)' <=> Received(u, m)
      /\ \A m : InBroker(m)' <=> InBroker(m)
  BY DEF Quiet, SamePayloads, Sent, Received
<1>2. \A m \in Messages : Nowhere(m)' <=> Nowhere(m)
  BY <1>1 DEF Quiet, Nowhere
<1>3. acked \cup failed \subseteq Messages
  BY DEF DaemonInv, DaemonTypes
<1>4. SentOnce'
  BY <1>1, <1>3 DEF DaemonInv, Quiet, SentOnce
<1>5. OneOwner'
  BY <1>1 DEF DaemonInv, Quiet, OneOwner, ReceivedOnce
<1>6. Fate'
  BY <1>1, <1>2, <1>3 DEF DaemonInv, Quiet, Fate
<1> QED BY <1>4, <1>5, <1>6

-----------------------------------------------------------------------------
(* The steps that move no payload                                          *)

Rest == DaemonTypes /\ StagesOK /\ SentOnce /\ OneOwner /\ Fate

LEMMA AskPopKeeps ==
  ASSUME DaemonInv, NEW t \in Poppers, NEW r \in PopRequest, AskPop(t, r)
  PROVE  Rest'
<1> USE Requests
<1>1. t \in Threads
  BY DEF Threads
<1>2. /\ client[t] = "up" /\ asked[t] = Nil
      /\ asked' = [asked EXCEPT ![t] = r] /\ req' = [req EXCEPT ![t] = r]
      /\ UNCHANGED <<vars, client, hpc, resp, sent, acked, failed, received>>
      /\ UNCHANGED <<queues, pc, msg, reply, result>>
  BY DEF AskPop, Ask, vars, shared, locals
<1>3. /\ asked'[t] = r /\ req'[t] = r
      /\ \A u \in Threads \ {t} : asked'[u] = asked[u] /\ req'[u] = req[u]
  BY <1>1, <1>2 DEF DaemonInv, DaemonTypes
<1>4. DaemonTypes'
  BY <1>2 DEF DaemonInv, DaemonTypes
<1>5. StagesOK'
  <2>1. StageOK(t)'
    BY <1>1, <1>2, <1>3 DEF DaemonInv, DaemonTypes, StagesOK, StageOK, Waiting, PopRequest, PushRequest
  <2>2. \A u \in Threads \ {t} : StageOK(u)'
    BY <1>2, <1>3, UntouchedStage DEF Untouched, DaemonInv, StagesOK
  <2> QED BY <2>1, <2>2 DEF StagesOK
<1>6. Quiet
  BY <1>1, <1>2, <1>3 DEF Quiet, SamePayloads, InBroker, Queued, Held, Leaving, PushAsked, Waiting
<1> QED BY <1>4, <1>5, <1>6, QuietKeeps DEF Rest

LEMMA ClientDiesKeeps ==
  ASSUME DaemonInv, NEW t \in Threads, ClientDies(t)
  PROVE  Rest'
<1>1. /\ client[t] = "up" /\ client' = [client EXCEPT ![t] = "gone"]
      /\ UNCHANGED <<vars, asked, sent, acked, failed, received, req, hpc, resp>>
      /\ UNCHANGED <<queues, pc, msg, reply, result>>
  BY DEF ClientDies, vars, shared, locals
<1>2. client'[t] = "gone" /\ \A u \in Threads \ {t} : client'[u] = client[u]
  BY <1>1 DEF DaemonInv, DaemonTypes
<1>3. DaemonTypes'
  BY <1>1 DEF DaemonInv, DaemonTypes
<1>4. StagesOK'
  <2>1. StageOK(t)'
    BY <1>1, <1>2 DEF DaemonInv, StagesOK, StageOK, Waiting
  <2>2. \A u \in Threads \ {t} : StageOK(u)'
    BY <1>1, <1>2, UntouchedStage DEF Untouched, DaemonInv, StagesOK
  <2> QED BY <2>1, <2>2 DEF StagesOK
<1>5. Quiet
  BY <1>1 DEF Quiet, SamePayloads, InBroker, Queued, Held, Leaving, PushAsked, Waiting
<1> QED BY <1>3, <1>4, <1>5, QuietKeeps DEF Rest

LEMMA ContextDoneKeeps ==
  ASSUME DaemonInv,
         \/ \E t \in Threads : ContextDone(t)
         \/ UNCHANGED dvars
  PROVE  Rest'
<1>1. UNCHANGED <<client, asked, req, hpc, resp, sent, acked, failed, received,
                  queues, pc, msg, reply, result>>
  BY DEF ContextDone, CtxDone, dvars, clients, vars, shared, locals
<1>2. DaemonTypes'
  BY <1>1 DEF DaemonInv, DaemonTypes
<1>3. StagesOK'
  BY <1>1, UntouchedStage DEF Untouched, DaemonInv, StagesOK
<1>4. Quiet
  BY <1>1 DEF Quiet, SamePayloads, InBroker, Queued, Held, Leaving, PushAsked, Waiting
<1> QED BY <1>2, <1>3, <1>4, QuietKeeps DEF Rest

LEMMA HandlerEOFKeeps ==
  ASSUME DaemonInv, NEW t \in Threads, HandlerEOF(t)
  PROVE  Rest'
<1>1. /\ hpc[t] = "read" /\ req[t] = Nil /\ client[t] = "gone"
      /\ hpc' = [hpc EXCEPT ![t] = "closed"]
      /\ UNCHANGED <<client, asked, req, resp, sent, acked, failed, received,
                     queues, pc, msg, reply, result>>
  BY DEF HandlerEOF, clients, vars, shared, locals
<1>2. hpc'[t] = "closed" /\ \A u \in Threads \ {t} : hpc'[u] = hpc[u]
  BY <1>1 DEF DaemonInv, DaemonTypes
<1>3. DaemonTypes'
  BY <1>1 DEF DaemonInv, DaemonTypes
<1>4. StagesOK'
  <2>1. StageOK(t)'
    BY <1>1, <1>2 DEF DaemonInv, StagesOK, StageOK, Waiting
  <2>2. \A u \in Threads \ {t} : StageOK(u)'
    BY <1>1, <1>2, UntouchedStage DEF Untouched, DaemonInv, StagesOK
  <2> QED BY <2>1, <2>2 DEF StagesOK
<1>5. Quiet
  BY <1>1, <1>2 DEF Quiet, SamePayloads, InBroker, Queued, Held, Leaving, PushAsked, Waiting
<1> QED BY <1>3, <1>4, <1>5, QuietKeeps DEF Rest

LEMMA HandlerWriteKeeps ==
  ASSUME DaemonInv, NEW t \in Threads, HandlerWrite(t)
  PROVE  Rest'
<1>1. /\ hpc[t] = "write"
      /\ UNCHANGED <<vars, client, asked, sent, acked, failed, received, req>>
      /\ UNCHANGED <<queues, pc, msg, reply, result>>
  BY DEF HandlerWrite, clients, vars, shared, locals
<1>r. result[t] \in Response /\ result[t] # Nil
  BY DaemonAssumption DEF DaemonInv, CoreInv, TypeOK, Response
<1>2. /\ \/ /\ client[t] = "up" /\ resp'[t] = result[t]
            /\ hpc'[t] = IF result[t].err = "nil" THEN "read" ELSE "closed"
         \/ client[t] = "gone" /\ resp'[t] = resp[t] /\ hpc'[t] = "closed"
      /\ \A u \in Threads \ {t} : resp'[u] = resp[u] /\ hpc'[u] = hpc[u]
      /\ hpc' \in [Threads -> {"read", "call", "write", "closed"}]
      /\ resp' \in [Threads -> Response \cup {Nil}]
  BY <1>r DEF HandlerWrite, DaemonInv, DaemonTypes
<1>3. DaemonTypes'
  BY <1>1, <1>2 DEF DaemonInv, DaemonTypes
<1>4. StagesOK'
  <2>1. StageOK(t)'
    BY <1>1, <1>2, <1>r DEF DaemonInv, StagesOK, StageOK, Waiting
  <2>2. \A u \in Threads \ {t} : StageOK(u)'
    BY <1>1, <1>2, UntouchedStage DEF Untouched, DaemonInv, StagesOK
  <2> QED BY <2>1, <2>2 DEF StagesOK
<1>5. Quiet
  BY <1>1, <1>2 DEF Quiet, SamePayloads, InBroker, Queued, Held, Leaving, PushAsked, Waiting
<1> QED BY <1>3, <1>4, <1>5, QuietKeeps DEF Rest

-----------------------------------------------------------------------------
(* The client asks and is answered                                         *)

\* A list of deliveries after one more.
LEMMA AppendDelivery ==
  ASSUME NEW s \in Seq(Delivery), NEW d \in Delivery
  PROVE  LET r == Append(s, d)
         IN  /\ r \in Seq(Delivery)
             /\ \A i \in DOMAIN s : i \in DOMAIN r /\ r[i] = s[i]
             /\ \A i \in DOMAIN r : \/ i \in DOMAIN s /\ r[i] = s[i]
                                    \/ i = Len(s) + 1 /\ r[i] = d
             /\ \A m : (\E i \in DOMAIN r : r[i].payload = m) <=>
                       (m = d.payload \/ \E i \in DOMAIN s : s[i].payload = m)
<1> DEFINE r == Append(s, d)
<1>1. Len(s) \in Nat /\ DOMAIN s = 1..Len(s)
  BY LenProperties
<1>2. /\ r \in Seq(Delivery) /\ DOMAIN r = 1..(Len(s) + 1)
      /\ \A j \in DOMAIN s : r[j] = s[j]
      /\ r[Len(s) + 1] = d
  BY AppendElements
<1> HIDE DEF r
<1>3. Len(s) + 1 \in DOMAIN r /\ \A i \in DOMAIN s : i \in DOMAIN r
  BY <1>1, <1>2
<1>4. \A i \in DOMAIN r : i \in DOMAIN s \/ i = Len(s) + 1
  BY <1>1, <1>2
<1>5. ASSUME NEW m, NEW i \in DOMAIN r, r[i].payload = m
      PROVE  m = d.payload \/ \E j \in DOMAIN s : s[j].payload = m
  BY <1>2, <1>4, <1>5
<1>6. ASSUME NEW m, m = d.payload \/ \E j \in DOMAIN s : s[j].payload = m
      PROVE  \E i \in DOMAIN r : r[i].payload = m
  BY <1>2, <1>3, <1>6
<1>7. \A i \in DOMAIN s : i \in DOMAIN r /\ r[i] = s[i]
  BY <1>2, <1>3
<1>8. \A i \in DOMAIN r : \/ i \in DOMAIN s /\ r[i] = s[i]
                          \/ i = Len(s) + 1 /\ r[i] = d
  BY <1>2, <1>4
<1>9. /\ r \in Seq(Delivery)
      /\ \A i \in DOMAIN s : i \in DOMAIN r /\ r[i] = s[i]
      /\ \A i \in DOMAIN r : \/ i \in DOMAIN s /\ r[i] = s[i]
                             \/ i = Len(s) + 1 /\ r[i] = d
      /\ \A m : (\E i \in DOMAIN r : r[i].payload = m) <=>
                (m = d.payload \/ \E i \in DOMAIN s : s[i].payload = m)
  BY <1>2, <1>5, <1>6, <1>7, <1>8
<1> QED BY <1>9 DEF r

LEMMA AskPushKeeps ==
  ASSUME DaemonInv, NEW t \in Pushers, NEW r \in PushRequest, AskPush(t, r)
  PROVE  Rest'
<1> USE Requests
<1>1. t \in Threads
  BY DEF Threads
<1>2. /\ client[t] = "up" /\ asked[t] = Nil /\ ~Sent(r.payload)
      /\ asked' = [asked EXCEPT ![t] = r] /\ req' = [req EXCEPT ![t] = r]
      /\ sent' = [sent EXCEPT ![t] = Append(@, [channel |-> r.channel, payload |-> r.payload])]
      /\ UNCHANGED <<client, hpc, resp, acked, failed, received>>
      /\ UNCHANGED <<queues, pc, msg, reply, result>>
  BY DEF AskPush, Ask, vars, shared, locals
<1>3. /\ asked'[t] = r /\ req'[t] = r
      /\ \A u \in Threads \ {t} : asked'[u] = asked[u] /\ req'[u] = req[u]
  BY <1>1, <1>2 DEF DaemonInv, DaemonTypes
<1>4. PICK d \in Delivery : d = [channel |-> r.channel, payload |-> r.payload]
  BY DEF Delivery
<1>5. /\ sent[t] \in Seq(Delivery) /\ sent'[t] = Append(sent[t], d)
      /\ \A u \in Threads \ {t} : sent'[u] = sent[u]
      /\ sent' \in [Threads -> Seq(Delivery)]
  BY <1>1, <1>2, <1>4, AppendProperties DEF DaemonInv, DaemonTypes
<1>6. PICK s, q : s \in Seq(Delivery) /\ s = sent[t] /\ q = sent'[t] /\ q = Append(s, d)
  BY <1>1, <1>5
<1>7. \A m : Sent(m)' <=> Sent(m) \/ m = r.payload
  <2> SUFFICES ASSUME NEW m PROVE Sent(m)' <=> Sent(m) \/ m = r.payload
    OBVIOUS
  <2> DEFINE Has(x) == \E i \in DOMAIN x : x[i].payload = m
  <2>1. d.payload = r.payload
    BY <1>4
  <2>2. Has(q) <=> Has(s) \/ m = r.payload
    BY <1>6, <2>1, AppendDelivery
  <2>3. Sent(m) <=> \E u \in Threads : Has(sent[u])
    BY DEF Sent
  <2>4. Sent(m)' <=> \E u \in Threads : Has(sent'[u])
    BY DEF Sent
  <2> HIDE DEF Has
  <2> QED BY <1>1, <1>5, <1>6, <2>2, <2>3, <2>4
<1>8. DaemonTypes'
  BY <1>2, <1>5 DEF DaemonInv, DaemonTypes
<1>9. StagesOK'
  <2>1. StageOK(t)'
    BY <1>1, <1>2, <1>3 DEF DaemonInv, DaemonTypes, StagesOK, StageOK, Waiting, PopRequest, PushRequest
  <2>2. \A u \in Threads \ {t} : StageOK(u)'
    BY <1>2, <1>3, UntouchedStage DEF Untouched, DaemonInv, StagesOK
  <2> QED BY <2>1, <2>2 DEF StagesOK
<1>10. /\ \A m : InBroker(m)' <=> InBroker(m)
       /\ \A u \in Threads, m \in Messages : /\ Leaving(u, m)' <=> Leaving(u, m)
                                             /\ Received(u, m)' <=> Received(u, m)
       /\ \A u \in Threads : Waiting(u)' <=> Waiting(u)
  BY <1>2, <1>3 DEF InBroker, Queued, Held, Leaving, Received, Waiting
<1>11. \A m \in Messages : Nowhere(m)' <=> Nowhere(m)
  BY <1>10 DEF Nowhere
<1>12. \A u \in Threads, m \in Messages :
         PushAsked(u, m)' <=> PushAsked(u, m) \/ (u = t /\ m = r.payload)
  BY <1>1, <1>2, <1>3 DEF PushAsked
<1>13. SentOnce'
  <2>1. \A u \in Threads : ~PushAsked(u, r.payload)
    BY <1>2 DEF DaemonInv, SentOnce
  <2>2. \A u \in Threads, m \in Messages : PushAsked(u, m)' => Sent(m)'
    BY <1>7, <1>12 DEF DaemonInv, SentOnce
  <2>3. \A u, w \in Threads, m \in Messages : PushAsked(u, m)' /\ PushAsked(w, m)' => u = w
    BY <1>12, <2>1 DEF DaemonInv, SentOnce
  <2>4. \A m \in acked' \cup failed' :
          m \in Messages /\ Sent(m) /\ \A u \in Threads : ~PushAsked(u, m)
    BY <1>2 DEF DaemonInv, DaemonTypes, SentOnce
  <2>5. \A m \in acked' \cup failed' : Sent(m)' /\ \A u \in Threads : ~PushAsked(u, m)'
    BY <1>2, <1>7, <1>12, <2>4
  <2> QED BY <2>2, <2>3, <2>5 DEF SentOnce
<1>14. OneOwner'
  BY <1>2, <1>10 DEF DaemonInv, OneOwner, ReceivedOnce
<1>15. Fate'
  <2>1. \A u \in Threads \ {t}, m \in Messages : PushAsked(u, m)' =>
          /\ req'[u] # Nil => Nowhere(m)'
          /\ Waiting(u)' => (Nowhere(m)' <=> result'[u].err # "nil")
    BY <1>2, <1>3, <1>10, <1>11, <1>12 DEF DaemonInv, Fate
  <2>2. \A m \in Messages : PushAsked(t, m)' =>
          /\ Nowhere(m)'
          /\ ~Waiting(t)'
    BY <1>1, <1>2, <1>3, <1>11, <1>12 DEF DaemonInv, Fate, PushAsked, Waiting
  <2> QED BY <1>2, <1>7, <1>11, <2>1, <2>2 DEF DaemonInv, DaemonTypes, Fate
<1> QED BY <1>8, <1>9, <1>13, <1>14, <1>15 DEF Rest

\* The answer to a Pop moves its payload to the client; no other answer carries
\* one.
LEMMA AnswerMoves ==
  ASSUME DaemonInv, NEW t \in Threads, Answer(t)
  PROVE  /\ received' \in [Threads -> Seq(Delivery)]
         /\ \A u \in Threads, m \in Messages :
              Received(u, m)' <=> Received(u, m) \/ (u = t /\ Leaving(t, m))
         /\ ReceivedOnce'
         /\ \A u \in Threads : \A i \in DOMAIN received'[u] :
              \/ i \in DOMAIN received[u] /\ received'[u][i] = received[u][i]
              \/ /\ u = t /\ i = Len(received[t]) + 1
                 /\ Leaving(t, received'[u][i].payload)
<1> USE Requests
<1>1. /\ resp[t] # Nil /\ resp[t] = result[t] /\ asked[t] # Nil /\ req[t] = Nil /\ Waiting(t)
      /\ asked[t] \in PushRequest \cup PopRequest
  BY DEF Answer, DaemonInv, DaemonTypes, StagesOK, StageOK, Waiting
<1>2. CASE resp[t].err = "nil" /\ asked[t].op # "push"
  <2>1. asked[t] \in PopRequest /\ result[t].val # Nil
    BY <1>1, <1>2 DEF DaemonInv, StagesOK, StageOK
  <2>2. PICK d \in Delivery : d = result[t].val
    BY <2>1 DEF DaemonInv, CoreInv, TypeOK
  <2>3. received' = [received EXCEPT ![t] = Append(@, d)]
    BY <1>1, <1>2, <2>2 DEF Answer
  <2>4. /\ received[t] \in Seq(Delivery) /\ received'[t] = Append(received[t], d)
        /\ \A u \in Threads \ {t} : received'[u] = received[u]
        /\ received' \in [Threads -> Seq(Delivery)]
    BY <2>3, AppendProperties DEF DaemonInv, DaemonTypes
  <2>5. PICK s, q : s \in Seq(Delivery) /\ s = received[t] /\ q = received'[t] /\ q = Append(s, d)
    BY <2>4
  <2>6. /\ \A i \in DOMAIN q : \/ i \in DOMAIN s /\ q[i] = s[i]
                               \/ i = Len(s) + 1 /\ q[i] = d
        /\ \A m : (\E i \in DOMAIN q : q[i].payload = m) <=>
                  (m = d.payload \/ \E i \in DOMAIN s : s[i].payload = m)
    BY <2>5, AppendDelivery
  <2>8. \A m \in Messages : Leaving(t, m) <=> m = d.payload
    BY <1>1, <2>1, <2>2 DEF Leaving
  <2>9. d.payload \in Messages
    BY DEF Delivery
  <2>10. \A u \in Threads, m \in Messages :
           Received(u, m)' <=> Received(u, m) \/ (u = t /\ Leaving(t, m))
    <3>1. \A m \in Messages : Received(t, m)' <=> Received(t, m) \/ Leaving(t, m)
      BY <2>5, <2>6, <2>8 DEF Received
    <3>2. \A u \in Threads \ {t}, m \in Messages : Received(u, m)' <=> Received(u, m)
      BY <2>4 DEF Received
    <3> QED BY <3>1, <3>2
  <2>11. \A u \in Threads : \A i \in DOMAIN received[u] : received[u][i].payload # d.payload
    BY <2>8, <2>9 DEF DaemonInv, OneOwner, Received
  <2>12. \A u \in Threads : \A i \in DOMAIN received'[u] :
           \/ i \in DOMAIN received[u] /\ received'[u][i] = received[u][i]
           \/ u = t /\ i = Len(received[t]) + 1 /\ received'[u][i] = d
    BY <2>4, <2>5, <2>6
  <2>13. ReceivedOnce'
    BY <2>11, <2>12 DEF ReceivedOnce, DaemonInv, OneOwner
  <2> QED BY <2>4, <2>8, <2>9, <2>10, <2>12, <2>13
<1>3. CASE ~(resp[t].err = "nil" /\ asked[t].op # "push")
  <2>1. result[t].val = Nil
    BY <1>1, <1>3 DEF DaemonInv, StagesOK, StageOK
  <2>2. received' = received
    BY <1>3 DEF Answer
  <2> QED BY <2>1, <2>2 DEF DaemonInv, DaemonTypes, OneOwner, ReceivedOnce, Received, Leaving
<1> QED BY <1>2, <1>3

LEMMA AnswerKeeps ==
  ASSUME DaemonInv, NEW t \in Threads, Answer(t)
  PROVE  Rest'
<1> USE Requests
<1> DEFINE ok == resp[t].err = "nil"
           push == asked[t].op = "push"
<1>1. /\ resp[t] # Nil /\ resp[t] = result[t] /\ asked[t] # Nil /\ req[t] = Nil /\ Waiting(t)
      /\ hpc[t] \in {"read", "closed"}
  BY DEF Answer, DaemonInv, StagesOK, StageOK, Waiting
<1>2. /\ client[t] = "up"
      /\ client' = [client EXCEPT ![t] = IF ok THEN "up" ELSE "closed"]
      /\ acked' = acked \cup {m \in Messages : push /\ ok /\ m = asked[t].payload}
      /\ failed' = failed \cup {m \in Messages : push /\ ~ok /\ m = asked[t].payload}
      /\ asked' = [asked EXCEPT ![t] = Nil]
      /\ resp' = [resp EXCEPT ![t] = Nil]
      /\ UNCHANGED <<sent, req, hpc, queues, pc, msg, reply, result>>
  BY DEF Answer, vars, shared, locals
<1>3. /\ client'[t] = IF ok THEN "up" ELSE "closed"
      /\ asked'[t] = Nil /\ resp'[t] = Nil
      /\ \A u \in Threads \ {t} :
           client'[u] = client[u] /\ asked'[u] = asked[u] /\ resp'[u] = resp[u]
  BY <1>2 DEF DaemonInv, DaemonTypes
<1>4. DaemonTypes'
  BY <1>2, AnswerMoves DEF DaemonInv, DaemonTypes
<1>5. StagesOK'
  <2>1. StageOK(t)'
    BY <1>1, <1>2, <1>3 DEF DaemonInv, StagesOK, StageOK, Waiting
  <2>2. \A u \in Threads \ {t} : StageOK(u)'
    BY <1>2, <1>3, UntouchedStage DEF Untouched, DaemonInv, StagesOK
  <2> QED BY <2>1, <2>2 DEF StagesOK
<1>6. /\ \A m : (InBroker(m)' <=> InBroker(m)) /\ (Sent(m)' <=> Sent(m))
      /\ \A u \in Threads, m \in Messages : Leaving(u, m)' <=> Leaving(u, m) /\ u # t
      /\ \A u \in Threads, m \in Messages : PushAsked(u, m)' <=> PushAsked(u, m) /\ u # t
      /\ \A u \in Threads : Waiting(u)' <=> Waiting(u) /\ u # t
  BY <1>2, <1>3 DEF InBroker, Queued, Held, Sent, Leaving, PushAsked, Waiting
<1>7. \A u \in Threads, m \in Messages :
        Received(u, m)' <=> Received(u, m) \/ (u = t /\ Leaving(t, m))
  BY AnswerMoves
<1>8. \A m \in Messages : Nowhere(m)' <=> Nowhere(m)
  BY <1>6, <1>7 DEF Nowhere
<1>9. \A m \in Messages : /\ m \in acked' <=> m \in acked \/ (PushAsked(t, m) /\ ok)
                          /\ m \in failed' <=> m \in failed \/ (PushAsked(t, m) /\ ~ok)
  BY <1>1, <1>2 DEF PushAsked
<1>10. acked' \subseteq Messages /\ failed' \subseteq Messages
  BY <1>4 DEF DaemonTypes
<1> HIDE DEF ok, push
<1>11. SentOnce'
  BY <1>6, <1>9, <1>10 DEF DaemonInv, SentOnce
<1>12. OneOwner'
  BY <1>6, <1>7, AnswerMoves DEF DaemonInv, OneOwner
<1>13. \A m \in Messages : PushAsked(t, m) => (Nowhere(m) <=> ~ok)
  BY <1>1 DEF ok, DaemonInv, Fate
<1>14. Fate'
  BY <1>2, <1>6, <1>8, <1>9, <1>10, <1>13 DEF DaemonInv, Fate
<1> QED BY <1>4, <1>5, <1>11, <1>12, <1>14 DEF Rest
-----------------------------------------------------------------------------
(* The handler calls the broker                                            *)

\* A step of connection t on a payload that no other connection pushes.
LEMMA OwnPayload ==
  ASSUME DaemonInv, NEW t \in Threads,
         UNCHANGED <<asked, sent, acked, failed>>,
         \A u \in Threads \ {t} : Untouched(u),
         \A m \in Messages : (Nowhere(m)' <=> Nowhere(m)) \/ PushAsked(t, m),
         \A m \in Messages : PushAsked(t, m) =>
           /\ req'[t] # Nil => Nowhere(m)'
           /\ Waiting(t)' => (Nowhere(m)' <=> result'[t].err # "nil")
  PROVE  SentOnce' /\ Fate'
<1>1. /\ \A m : Sent(m)' <=> Sent(m)
      /\ \A u \in Threads, m \in Messages : PushAsked(u, m)' <=> PushAsked(u, m)
      /\ \A u \in Threads \ {t} : Waiting(u)' <=> Waiting(u)
  BY DEF Sent, PushAsked, Untouched, Waiting
<1>2. acked \cup failed \subseteq Messages
  BY DEF DaemonInv, DaemonTypes
<1>3. SentOnce'
  BY <1>1, <1>2 DEF DaemonInv, SentOnce
<1>4. \A m \in Messages : ~Sent(m) \/ m \in acked \cup failed => ~PushAsked(t, m)
  BY <1>2 DEF DaemonInv, SentOnce
<1>5. \A u \in Threads \ {t}, m \in Messages : PushAsked(u, m) => ~PushAsked(t, m)
  BY DEF DaemonInv, SentOnce
<1>6. \A u \in Threads, m \in Messages : PushAsked(u, m)' =>
        /\ req'[u] # Nil => Nowhere(m)'
        /\ Waiting(u)' => (Nowhere(m)' <=> result'[u].err # "nil")
  <2>1. ASSUME NEW u \in Threads \ {t}, NEW m \in Messages, PushAsked(u, m)'
        PROVE  /\ req'[u] # Nil => Nowhere(m)'
               /\ Waiting(u)' => (Nowhere(m)' <=> result'[u].err # "nil")
    <3>1. PushAsked(u, m) /\ (Nowhere(m)' <=> Nowhere(m))
      BY <1>1, <1>5, <2>1
    <3>2. req'[u] = req[u] /\ result'[u] = result[u] /\ (Waiting(u)' <=> Waiting(u))
      BY <1>1 DEF Untouched
    <3> QED BY <3>1, <3>2 DEF DaemonInv, Fate
  <2> QED BY <1>1, <2>1
<1>7. \A m \in Messages : ~Sent(m)' => Nowhere(m)'
  BY <1>1, <1>4 DEF DaemonInv, Fate
<1>8. (\A m \in failed' : Nowhere(m)') /\ (\A m \in acked' : ~Nowhere(m)')
  BY <1>2, <1>4 DEF DaemonInv, Fate
<1> QED BY <1>3, <1>6, <1>7, <1>8 DEF Fate

\* What the handler knows when it reads a request.
LEMMA HandlerReads ==
  ASSUME DaemonInv, NEW t \in Threads, hpc[t] = "read", req[t] # Nil
  PROVE  /\ asked[t] = req[t] /\ resp[t] = Nil
         /\ req[t].op = "push" => req[t] \in PushRequest /\ t \in Pushers
         /\ req[t].op = "pop" => req[t] \in PopRequest /\ t \in Poppers
<1>1. req[t] \in PushRequest \cup PopRequest
  BY DEF DaemonInv, DaemonTypes
<1>2. /\ asked[t] = req[t] /\ resp[t] = Nil
      /\ req[t] \in PushRequest => t \in Pushers
      /\ req[t] \in PopRequest => t \in Poppers
  BY DEF DaemonInv, StagesOK, StageOK
<1>3. /\ req[t].op = "push" => req[t] \in PushRequest
      /\ req[t].op = "pop" => req[t] \in PopRequest
  BY <1>1, Requests
<1> QED BY <1>2, <1>3

LEMMA InCallGoesOn ==
  ASSUME DaemonInv, NEW t \in Threads, InCall(t)
  PROVE  /\ hpc'[t] = IF pc'[t] = "idle" THEN "write" ELSE "call"
         /\ hpc' \in [Threads -> {"read", "call", "write", "closed"}]
         /\ \A u \in Threads \ {t} : hpc'[u] = hpc[u]
<1>1. PICK l \in {"write", "call"} : l = IF pc'[t] = "idle" THEN "write" ELSE "call"
  OBVIOUS
<1>2. hpc' = [hpc EXCEPT ![t] = l]
  BY <1>1 DEF InCall
<1> QED BY <1>1, <1>2 DEF DaemonInv, DaemonTypes

LEMMA HandlerPushKeeps ==
  ASSUME DaemonInv, NEW t \in Threads, HandlerPush(t)
  PROVE  Rest'
<1> USE Requests
<1>1. /\ asked[t] = req[t] /\ resp[t] = Nil /\ req[t] \in PushRequest /\ t \in Pushers
      /\ hpc[t] = "read" /\ pc[t] = "idle" /\ InCall(t)
      /\ req' = [req EXCEPT ![t] = Nil]
      /\ UNCHANGED <<client, asked, sent, acked, failed, received, resp>>
  BY HandlerReads DEF HandlerPush, clients, PushCall, PushInvalid
<1>2. PICK c \in Channels, p \in Messages : c = req[t].channel /\ p = req[t].payload
  BY <1>1
<1>3. req'[t] = Nil /\ \A u \in Threads \ {t} : req'[u] = req[u]
  BY <1>1 DEF DaemonInv, DaemonTypes
<1>4. \A m \in Messages : PushAsked(t, m) <=> m = p
  BY <1>1, <1>2 DEF PushAsked
<1>5. Nowhere(p)
  BY <1>1, <1>4 DEF DaemonInv, Fate
<1>6. /\ \A u \in Threads \ {t} : pc'[u] = pc[u] /\ msg'[u] = msg[u] /\ result'[u] = result[u]
      /\ \/ /\ pc'[t] = "push" /\ result'[t] = Returned("none", Nil)
            /\ msg'[t] = [channel |-> c, payload |-> p]
         \/ pc'[t] = "idle" /\ result'[t] = Returned("invalid", Nil) /\ msg'[t] = Nil
      /\ UNCHANGED <<queues, reply>>
  BY <1>1, <1>2 DEF HandlerPush, PushCall, PushInvalid, Return, Goto, shared, DaemonInv, CoreInv, TypeOK
<1>7. msg[t] = Nil
  BY <1>1 DEF DaemonInv, CoreInv, ControlOK, PushPC
<1>8. \A u \in Threads \ {t} : Untouched(u)
  BY <1>1, <1>3, <1>6, InCallGoesOn DEF Untouched
<1>9. DaemonTypes'
  BY <1>1, InCallGoesOn DEF DaemonInv, DaemonTypes
<1>10. StagesOK'
  <2>1. StageOK(t)'
    BY <1>1, <1>2, <1>3, <1>6, InCallGoesOn
    DEF DaemonInv, StagesOK, StageOK, Waiting, Returned, PushPC, PopRequest, PushRequest
  <2>2. \A u \in Threads \ {t} : StageOK(u)'
    BY <1>8, UntouchedStage DEF DaemonInv, StagesOK
  <2> QED BY <2>1, <2>2 DEF StagesOK
<1>11. \A u \in Threads, m \in Messages : /\ Leaving(u, m)' <=> Leaving(u, m)
                                          /\ Received(u, m)' <=> Received(u, m)
  BY <1>1, <1>3, <1>6 DEF Leaving, Received, Returned
<1>12. \A m : InBroker(m)' <=> InBroker(m) \/ (m = p /\ pc'[t] = "push")
  <2>1. \A m : Held(m)' <=> Held(m) \/ (m = p /\ pc'[t] = "push")
    <3>1. \A m : (msg'[t] # Nil /\ msg'[t].payload = m) <=> (m = p /\ pc'[t] = "push")
      BY <1>2, <1>6, BrokerAssumption DEF Delivery
    <3> QED BY <1>6, <1>7, <3>1 DEF Held
  <2> QED BY <1>6, <2>1 DEF InBroker, Queued
<1>13. \A m \in Messages : Nowhere(m)' <=> Nowhere(m) /\ ~(m = p /\ pc'[t] = "push")
  BY <1>11, <1>12 DEF Nowhere
<1>14. SentOnce' /\ Fate'
  <2>1. Waiting(t)' => pc'[t] = "idle" /\ result'[t].err = "invalid"
    BY <1>6, InCallGoesOn, <1>1 DEF Waiting, Returned
  <2> QED BY <1>1, <1>3, <1>4, <1>5, <1>6, <1>8, <1>13, <2>1, OwnPayload
<1>15. OneOwner'
  BY <1>1, <1>5, <1>11, <1>12 DEF DaemonInv, OneOwner, Nowhere, ReceivedOnce
<1> QED BY <1>9, <1>10, <1>14, <1>15 DEF Rest

LEMMA HandlerPopKeeps ==
  ASSUME DaemonInv, NEW t \in Threads, HandlerPop(t)
  PROVE  Rest'
<1> USE Requests
<1>1. /\ asked[t] = req[t] /\ resp[t] = Nil /\ req[t] \in PopRequest /\ t \in Poppers
      /\ hpc[t] = "read" /\ pc[t] = "idle" /\ InCall(t)
      /\ req' = [req EXCEPT ![t] = Nil]
      /\ UNCHANGED <<client, asked, sent, acked, failed, received, resp>>
  BY HandlerReads DEF HandlerPop, clients, PopCall, PopInvalid
<1>2. req'[t] = Nil /\ \A u \in Threads \ {t} : req'[u] = req[u]
  BY <1>1 DEF DaemonInv, DaemonTypes
<1>3. msg[t] = Nil
  BY <1>1 DEF DaemonInv, CoreInv, ControlOK, PushPC
<1>4. /\ \A u \in Threads \ {t} : pc'[u] = pc[u] /\ result'[u] = result[u]
      /\ \/ pc'[t] = "pop" /\ result'[t] = Returned("none", Nil)
         \/ pc'[t] = "idle" /\ result'[t] = Returned("invalid", Nil)
      /\ \A u \in Threads : msg'[u] = msg[u]
      /\ UNCHANGED <<queues, reply>>
  BY <1>1, <1>3 DEF HandlerPop, PopCall, PopInvalid, Return, Goto, shared, DaemonInv, CoreInv, TypeOK
<1>5. \A u \in Threads \ {t} : Untouched(u)
  BY <1>1, <1>2, <1>4, InCallGoesOn DEF Untouched
<1>6. DaemonTypes'
  BY <1>1, InCallGoesOn DEF DaemonInv, DaemonTypes
<1>7. StagesOK'
  <2>1. StageOK(t)'
    BY <1>1, <1>2, <1>4, InCallGoesOn
    DEF DaemonInv, StagesOK, StageOK, Waiting, Returned, PopPC, PopRequest, PushRequest
  <2>2. \A u \in Threads \ {t} : StageOK(u)'
    BY <1>5, UntouchedStage DEF DaemonInv, StagesOK
  <2> QED BY <2>1, <2>2 DEF StagesOK
<1>8. Quiet
  <2>1. SamePayloads
    BY <1>4 DEF SamePayloads, InBroker, Queued, Held
  <2>2. \A u \in Threads, m \in Messages : Leaving(u, m)' <=> Leaving(u, m)
    BY <1>1, <1>2, <1>4 DEF Leaving, Returned
  <2>3. \A u \in Threads, m \in Messages :
          /\ PushAsked(u, m)' <=> PushAsked(u, m)
          /\ PushAsked(u, m) => u # t
    BY <1>1 DEF PushAsked
  <2> QED BY <1>1, <1>5, <2>1, <2>2, <2>3 DEF Quiet, Untouched, Waiting
<1> QED BY <1>6, <1>7, <1>8, QuietKeeps DEF Rest
\* What the handler knows while it is in a call.
LEMMA HandlerCalls ==
  ASSUME DaemonInv, NEW t \in Threads, hpc[t] = "call"
  PROVE  /\ asked[t] # Nil /\ req[t] = Nil /\ resp[t] = Nil /\ client[t] # "closed"
         /\ result[t].val = Nil
         /\ pc[t] \in PushPC => /\ asked[t] \in PushRequest
                                /\ msg[t].payload = asked[t].payload
                                /\ \A m \in Messages : PushAsked(t, m) <=> m = msg[t].payload
         /\ pc[t] \in PopPC => /\ asked[t] \in PopRequest
                               /\ \A m \in Messages : ~PushAsked(t, m)
<1> USE Requests
<1>1. /\ asked[t] # Nil /\ req[t] = Nil /\ resp[t] = Nil /\ client[t] # "closed"
      /\ result[t].val = Nil
      /\ asked[t] \in PushRequest => pc[t] \in PushPC /\ msg[t].payload = asked[t].payload
      /\ asked[t] \in PopRequest => pc[t] \in PopPC
  <2>1. StageOK(t)
    BY DEF DaemonInv, StagesOK
  <2>2. asked[t] # Nil /\ req[t] = Nil /\ resp[t] = Nil /\ client[t] # "closed"
    BY <2>1 DEF StageOK
  <2>3. /\ result[t] = Returned("none", Nil)
        /\ asked[t] \in PushRequest =>
             /\ pc[t] \in PushPC
             /\ msg[t] = [channel |-> asked[t].channel, payload |-> asked[t].payload]
        /\ asked[t] \in PopRequest => pc[t] \in PopPC
    BY <2>1 DEF StageOK
  <2> QED BY <2>2, <2>3 DEF Returned
<1>2. asked[t] \in PushRequest \/ asked[t] \in PopRequest
  BY <1>1 DEF DaemonInv, DaemonTypes
<1>3. ~(pc[t] \in PushPC /\ pc[t] \in PopPC)
  BY DEF PushPC, PopPC
<1> QED BY <1>1, <1>2, <1>3 DEF PushAsked

LEMMA BrokerStepKeeps ==
  ASSUME DaemonInv, CoreInv', NEW t \in Threads, BrokerStep(t)
  PROVE  Rest'
<1> USE Requests
<1>1. /\ hpc[t] = "call" /\ InCall(t)
      /\ UNCHANGED <<client, asked, sent, acked, failed, received, req, resp>>
      /\ PushStep(t) \/ PopStep(t)
  BY DEF BrokerStep, clients, Step
<1>2. /\ asked[t] # Nil /\ req[t] = Nil /\ resp[t] = Nil /\ client[t] # "closed"
      /\ result[t].val = Nil
  BY <1>1, HandlerCalls
<1>3. \A u \in Threads \ {t} : Untouched(u)
  BY <1>1, InCallGoesOn, PushMoves, PopMoves DEF Untouched, DaemonInv
<1>4. DaemonTypes'
  BY <1>1, InCallGoesOn DEF DaemonInv, DaemonTypes
<1>5. \A u \in Threads \ {t} : StageOK(u)'
  BY <1>3, UntouchedStage DEF DaemonInv, StagesOK
<1>6. /\ \A u \in Threads, m \in Messages : /\ PushAsked(u, m)' <=> PushAsked(u, m)
                                            /\ Received(u, m)' <=> Received(u, m)
      /\ \A u \in Threads \ {t}, m \in Messages : Leaving(u, m)' <=> Leaving(u, m)
      /\ \A u \in Threads \ {t} : Waiting(u)' <=> Waiting(u)
      /\ \A m \in Messages : ~Leaving(t, m)
  BY <1>1, <1>2, <1>3 DEF PushAsked, Received, Untouched, Leaving, Waiting
<1>7. /\ hpc'[t] = IF pc'[t] = "idle" THEN "write" ELSE "call"
      /\ pc'[t] \in {"idle"} \cup PushPC \cup PopPC
  BY <1>1, InCallGoesOn DEF CoreInv, TypeOK
<1>8. CASE StillIn(t) /\ SamePayloads
  <2>1. hpc'[t] = "call" /\ result'[t] = result[t] /\ msg'[t] = msg[t]
    BY <1>7, <1>8 DEF StillIn
  <2>2. StageOK(t)'
    <3>1. /\ StageOK(t) /\ pc'[t] # "idle"
          /\ pc[t] \in PushPC => pc'[t] \in PushPC
          /\ pc[t] \in PopPC => pc'[t] \in PopPC
      BY <1>7, <1>8 DEF StillIn, DaemonInv, StagesOK, PushPC, PopPC
    <3> QED BY <1>1, <1>2, <2>1, <3>1 DEF StageOK, Waiting
  <2>3. Quiet
    BY <1>1, <1>2, <1>6, <1>8, <2>1, <1>3 DEF Quiet, Untouched, Waiting, Leaving
  <2> QED BY <1>4, <1>5, <2>2, <2>3, QuietKeeps DEF Rest, StagesOK
<1>9. ASSUME PushStep(t),
             \/ Returns(t, "nil", Nil) /\ SamePayloads
             \/ Returns(t, "timeout", Nil) /\ LosesPayload(msg[t].payload)
      PROVE  Rest'
  <2>1. PICK p \in Messages : p = msg[t].payload
    BY <1>9, PushMoves, Locals DEF DaemonInv
  <2>2. /\ asked[t] \in PushRequest /\ InBroker(p)
        /\ \A m \in Messages : PushAsked(t, m) <=> m = p
    <3>1. pc[t] \in PushPC /\ msg[t] # Nil
      BY <1>9, PushMoves DEF DaemonInv
    <3> QED BY <1>1, <2>1, <3>1, HandlerCalls DEF InBroker, Held
  <2>3. /\ hpc'[t] = "write" /\ pc'[t] = "idle" /\ result'[t].val = Nil
        /\ \/ result'[t].err = "nil" /\ SamePayloads
           \/ result'[t].err = "timeout" /\ LosesPayload(p)
    BY <1>7, <1>9, <2>1 DEF Returns, Returned
  <2>4. StageOK(t)'
    <3>1. StageOK(t)
      BY DEF DaemonInv, StagesOK
    <3> QED BY <1>1, <1>2, <2>2, <2>3, <3>1 DEF StageOK, Waiting, PushRequest, PopRequest
  <2>5. \A u \in Threads, m \in Messages : Leaving(u, m)' <=> Leaving(u, m)
    BY <1>6, <2>3 DEF Leaving
  <2>6. \A u \in Threads : ~Leaving(u, p) /\ ~Received(u, p)
    BY <2>2 DEF DaemonInv, OneOwner
  <2>7. \A m \in Messages \ {p} : InBroker(m)' <=> InBroker(m)
    BY <2>3 DEF SamePayloads, LosesPayload
  <2>8. InBroker(p)' <=> result'[t].err = "nil"
    BY <2>2, <2>3 DEF SamePayloads, LosesPayload
  <2>9. /\ \A m \in Messages \ {p} : Nowhere(m)' <=> Nowhere(m)
        /\ Nowhere(p)' <=> result'[t].err # "nil"
    BY <1>6, <2>5, <2>6, <2>7, <2>8 DEF Nowhere
  <2>10. SentOnce' /\ Fate'
    BY <1>1, <1>2, <1>3, <2>2, <2>9, OwnPayload
  <2>11. \A m \in Messages : InBroker(m)' => InBroker(m)
    BY <2>2, <2>7
  <2>12. OneOwner'
    BY <1>1, <1>6, <2>5, <2>11 DEF DaemonInv, OneOwner, ReceivedOnce
  <2> QED BY <1>4, <1>5, <2>4, <2>10, <2>12 DEF Rest, StagesOK
<1>10. CASE PopStep(t) /\ Returns(t, "timeout", Nil) /\ SamePayloads
  <2>1. hpc'[t] = "write" /\ pc'[t] = "idle" /\ result'[t].val = Nil /\ result'[t].err = "timeout"
    BY <1>7, <1>10 DEF Returns, Returned
  <2>2. asked[t] \in PopRequest /\ \A m \in Messages : ~PushAsked(t, m)
    BY <1>1, <1>10, PopMoves, HandlerCalls DEF DaemonInv
  <2>3. StageOK(t)'
    <3>1. StageOK(t)
      BY DEF DaemonInv, StagesOK
    <3> QED BY <1>1, <1>2, <2>1, <2>2, <3>1 DEF StageOK, Waiting, PushRequest, PopRequest
  <2>4. \A u \in Threads, m \in Messages : Leaving(u, m)' <=> Leaving(u, m)
    BY <1>6, <2>1 DEF Leaving
  <2>5. Quiet
    BY <1>1, <1>3, <1>6, <1>10, <2>2, <2>4 DEF Quiet, Untouched
  <2> QED BY <1>4, <1>5, <2>3, <2>5, QuietKeeps DEF Rest, StagesOK
<1>11. ASSUME NEW d \in Delivery, PopStep(t), Returns(t, "nil", d), LosesPayload(d.payload)
       PROVE  Rest'
  <2>1. PICK p \in Messages : p = d.payload
    BY DEF Delivery
  <2>2. /\ hpc'[t] = "write" /\ pc'[t] = "idle" /\ result'[t].val = d /\ result'[t].err = "nil"
        /\ d # Nil
    BY <1>7, <1>11, BrokerAssumption DEF Returns, Returned
  <2>3. asked[t] \in PopRequest /\ \A m \in Messages : ~PushAsked(t, m)
    BY <1>1, <1>11, PopMoves, HandlerCalls DEF DaemonInv
  <2>4. StageOK(t)'
    <3>1. StageOK(t)
      BY DEF DaemonInv, StagesOK
    <3> QED BY <1>1, <1>2, <2>2, <2>3, <3>1 DEF StageOK, Waiting, PushRequest, PopRequest
  <2>5. InBroker(p) /\ \A m : InBroker(m)' <=> InBroker(m) /\ m # p
    BY <1>11, <2>1 DEF LosesPayload
  <2>6. \A u \in Threads : ~Leaving(u, p) /\ ~Received(u, p)
    BY <2>5 DEF DaemonInv, OneOwner
  <2>7. \A u \in Threads, m \in Messages : Leaving(u, m)' <=> Leaving(u, m) \/ (u = t /\ m = p)
    <3>1. \A m \in Messages : Leaving(t, m)' <=> m = p
      BY <1>1, <1>2, <2>1, <2>2 DEF Leaving
    <3> QED BY <1>6, <3>1
  <2>8. \A m \in Messages : Nowhere(m)' <=> Nowhere(m)
    BY <1>6, <2>5, <2>6, <2>7 DEF Nowhere
  <2>9. SentOnce' /\ Fate'
    BY <1>1, <1>3, <2>3, <2>8, OwnPayload
  <2>10. OneOwner'
    BY <1>1, <1>6, <2>5, <2>6, <2>7 DEF DaemonInv, OneOwner, ReceivedOnce
  <2> QED BY <1>4, <1>5, <2>4, <2>9, <2>10 DEF Rest, StagesOK
<1>12. CASE PushStep(t)
  <2>1. \/ StillIn(t) /\ SamePayloads
        \/ Returns(t, "nil", Nil) /\ SamePayloads
        \/ Returns(t, "timeout", Nil) /\ LosesPayload(msg[t].payload)
    BY <1>12, PushMoves DEF DaemonInv
  <2>2. CASE Returns(t, "nil", Nil) /\ SamePayloads
    BY <1>9, <1>12, <2>2
  <2>3. CASE Returns(t, "timeout", Nil) /\ LosesPayload(msg[t].payload)
    BY <1>9, <1>12, <2>3
  <2> QED BY <1>8, <2>1, <2>2, <2>3
<1>13. CASE PopStep(t)
  <2>1. \/ StillIn(t) /\ SamePayloads
        \/ Returns(t, "timeout", Nil) /\ SamePayloads
        \/ \E d \in Delivery : Returns(t, "nil", d) /\ LosesPayload(d.payload)
    BY <1>13, PopMoves DEF DaemonInv
  <2>2. CASE \E d \in Delivery : Returns(t, "nil", d) /\ LosesPayload(d.payload)
    BY <1>11, <1>13, <2>2
  <2> QED BY <1>8, <1>10, <1>13, <2>1, <2>2
<1> QED BY <1>1, <1>12, <1>13

-----------------------------------------------------------------------------
(* The invariant                                                           *)

\* The handlers use the broker as Broker says that it is used.
LEMMA DaemonCalls ==
  ASSUME DaemonInv, [DaemonNext]_dvars
  PROVE  [Next]_vars
<1> USE Requests
<1>1. ASSUME NEW t \in Threads, HandlerPush(t) PROVE Next
  <2>1. hpc[t] = "read" /\ req[t] # Nil /\ req[t].op = "push"
    BY <1>1 DEF HandlerPush
  <2>2. t \in Pushers /\ req[t].channel \in Channels /\ req[t].payload \in Messages
    BY <2>1, HandlerReads
  <2> QED BY <1>1, <2>2 DEF HandlerPush, Next
<1>2. ASSUME NEW t \in Threads, HandlerPop(t) PROVE Next
  <2>1. hpc[t] = "read" /\ req[t] # Nil /\ req[t].op = "pop"
    BY <1>2 DEF HandlerPop
  <2>2. t \in Poppers /\ req[t].channels \in PopLists
    BY <2>1, HandlerReads
  <2> QED BY <1>2, <2>2 DEF HandlerPop, Next
<1>3. ASSUME NEW t \in Threads, BrokerStep(t) \/ ContextDone(t) PROVE Next
  BY <1>3 DEF BrokerStep, ContextDone, Next
<1>4. ASSUME NEW t \in Threads,
             Answer(t) \/ ClientDies(t) \/ HandlerWrite(t) \/ HandlerEOF(t)
      PROVE  UNCHANGED vars
  BY <1>4 DEF Answer, ClientDies, HandlerWrite, HandlerEOF
<1>5. ASSUME NEW t, NEW r, AskPush(t, r) \/ AskPop(t, r) PROVE UNCHANGED vars
  BY <1>5 DEF AskPush, AskPop, Ask
<1>6. CASE UNCHANGED dvars
  BY <1>6 DEF dvars
<1> QED BY <1>1, <1>2, <1>3, <1>4, <1>5, <1>6 DEF DaemonNext

LEMMA DaemonStep == DaemonInv /\ [DaemonNext]_dvars => DaemonInv'
<1> SUFFICES ASSUME DaemonInv, [DaemonNext]_dvars PROVE DaemonInv'
  OBVIOUS
<1>1. CoreInv' /\ OnePlace'
  BY DaemonCalls, CoreStep, PlaceStep DEF DaemonInv
<1>2. Rest'
  <2>1. ASSUME NEW t \in Threads,
               \/ Answer(t) \/ ClientDies(t)
               \/ HandlerPush(t) \/ HandlerPop(t) \/ BrokerStep(t)
               \/ HandlerWrite(t) \/ HandlerEOF(t)
        PROVE  Rest'
    BY <1>1, <2>1, AnswerKeeps, ClientDiesKeeps, HandlerPushKeeps, HandlerPopKeeps, BrokerStepKeeps,
       HandlerWriteKeeps, HandlerEOFKeeps
  <2> QED BY <2>1, AskPushKeeps, AskPopKeeps, ContextDoneKeeps DEF DaemonNext
<1> QED BY <1>1, <1>2 DEF DaemonInv, Rest

LEMMA DaemonStarts == DaemonInit => DaemonInv
<1> SUFFICES ASSUME DaemonInit PROVE DaemonInv
  OBVIOUS
<1> USE Requests DEF DaemonInit
<1>1. CoreInv
  BY InitCore
<1>2. OnePlace /\ \A m : ~InBroker(m)
  BY DEF Init, OnePlace, Queued, Held, InBroker
<1>3. DaemonTypes
  BY DEF DaemonTypes
<1>4. StagesOK
  BY DaemonAssumption DEF StagesOK, StageOK, Waiting, Init
<1>5. /\ \A m : ~Sent(m)
      /\ \A t \in Threads, m \in Messages : ~PushAsked(t, m) /\ ~Leaving(t, m) /\ ~Received(t, m)
  BY DEF Sent, PushAsked, Leaving, Received
<1>6. ReceivedOnce
  BY DEF ReceivedOnce
<1> QED BY <1>1, <1>2, <1>3, <1>4, <1>5, <1>6 DEF DaemonInv, SentOnce, OneOwner, Fate, Nowhere

LEMMA DaemonInvariance == DaemonSpec => []DaemonInv
BY DaemonStarts, DaemonStep, PTL DEF DaemonSpec

\* The handlers, with their clients and connections, implement the broker's
\* specification: whatever clients ask and whenever they die, the handlers make
\* no call of Broker out of turn and with no argument that Broker leaves out.
THEOREM HandlersUseTheBroker == DaemonSpec => Spec
<1>1. DaemonInit => Init
  BY DEF DaemonInit
<1> QED BY <1>1, DaemonCalls, DaemonInvariance, PTL DEF DaemonSpec, Spec

\* So the daemon as a whole is a set of linearizable channel queues: what all
\* its clients see comes of atomic pushes and pops.
THEOREM DaemonIsLinearizable == DaemonSpec => Linearizable
BY HandlersUseTheBroker, BrokerIsLinearizable, PTL

\* No payload reaches two clients, or one of them twice, whatever clients die,
\* whatever pushes are cancelled and whatever pops expire: no retry is hidden
\* in the daemon.
THEOREM PayloadsAreReceivedOnce == DaemonSpec => []ReceivedOnce
<1>1. DaemonInv => ReceivedOnce
  BY DEF DaemonInv, OneOwner
<1> QED BY <1>1, DaemonInvariance, PTL

\* A push that was answered with an error has left nothing in the daemon and
\* will not, so that the client may send the payload again.
THEOREM FailedPushesLeaveNothing == DaemonSpec => []FailedLeavesNothing
<1>1. DaemonInv => FailedLeavesNothing
  <2> SUFFICES ASSUME DaemonInv, NEW m \in failed PROVE ~Accounted(m)
    BY DEF FailedLeavesNothing
  <2>1. Nowhere(m) /\ m \in Messages
    BY DEF DaemonInv, DaemonTypes, Fate
  <2>2. ASSUME NEW t \in Threads PROVE ~Calling(t, m) /\ ~Answering(t, m) /\ ~Received(t, m)
    <3>1. ~Calling(t, m)
      BY <2>1 DEF Calling, Nowhere, InBroker, Held
    <3>2. Answering(t, m) => Leaving(t, m)
      BY DEF Answering, Leaving, DaemonInv, StagesOK, StageOK
    <3> QED BY <2>1, <3>1, <3>2 DEF Nowhere
  <2> QED BY <2>1, <2>2 DEF Accounted, Nowhere, InBroker
<1> QED BY <1>1, DaemonInvariance, PTL

\* A payload whose push was answered with OK is queued, in a call, in an answer
\* or with its consumer; it is lost only as the answer to the last pop of a
\* client that died before it read that answer.
THEOREM AckedPayloadsAreKept == DaemonSpec => []LostWithItsConsumer
<1>1. DaemonInv => LostWithItsConsumer
  <2> SUFFICES ASSUME DaemonInv, NEW m \in acked, ~Accounted(m)
               PROVE  \E t \in Threads : /\ client[t] = "gone"
                                         /\ result[t].val # Nil
                                         /\ result[t].val.payload = m
    BY DEF LostWithItsConsumer
  <2>1. m \in Messages /\ ~Nowhere(m) /\ ~Queued(m) /\ \A t \in Threads : ~Received(t, m)
    BY DEF DaemonInv, DaemonTypes, Fate, Accounted
  <2>2. ~Held(m)
    BY DEF Held, Accounted, Calling, DaemonInv, CoreInv, ControlOK, HandoffExact, Expecting, PushPC
  <2>3. PICK t \in Threads : Leaving(t, m)
    BY <2>1, <2>2 DEF Nowhere, InBroker
  <2>4. client[t] # "up"
    <3> SUFFICES ASSUME client[t] = "up" PROVE FALSE
      OBVIOUS
    <3>1. /\ StageOK(t) /\ ~Answering(t, m) /\ hpc[t] \in {"read", "call", "write", "closed"}
          /\ asked[t] # Nil /\ req[t] = Nil /\ result[t].val # Nil /\ result[t].val.payload = m
      BY <2>3 DEF Accounted, Leaving, DaemonInv, DaemonTypes, StagesOK
    <3>2. hpc[t] \in {"read", "closed"} /\ resp[t] = Nil
      BY <3>1, HandlerCalls DEF Answering, StageOK
    <3> QED BY <3>1, <3>2 DEF StageOK
  <2>5. client[t] # "closed"
    BY <2>3 DEF Leaving, DaemonInv, StagesOK, StageOK
  <2> QED BY <2>3, <2>4, <2>5 DEF Leaving, DaemonInv, DaemonTypes
<1> QED BY <1>1, DaemonInvariance, PTL
-----------------------------------------------------------------------------
(* The order of what one client sends on one channel                       *)

\* One client sent d before e, on the same channel.
Older(d, e) ==
  \E u \in Threads : \E k, l \in DOMAIN sent[u] :
    k < l /\ sent[u][k] = d /\ sent[u][l] = e /\ d.channel = e.channel

\* The client of t is to receive payload m next.
InHand(t, m) == Leaving(t, m) \/ (reply[t] # Nil /\ reply[t].payload = m)

\* Payload m has left the queues, or was handed over without passing through
\* one.
Left(m) == \E t \in Threads : \/ pc[t] = "send" /\ msg[t].payload = m
                              \/ InHand(t, m) \/ Received(t, m)

SentApart ==
  \A t, u \in Threads : \A i \in DOMAIN sent[t], j \in DOMAIN sent[u] :
    sent[t][i].payload = sent[u][j].payload => t = u /\ i = j

\* A client that waits for an answer has sent nothing since.
AskedLast ==
  \A t \in Threads : asked[t] \in PushRequest =>
    /\ sent[t] # <<>>
    /\ sent[t][Len(sent[t])] = [channel |-> asked[t].channel, payload |-> asked[t].payload]

\* A payload is queued in the channel that it was sent to.
ChannelKept ==
  \A c \in Channels : \A i \in DOMAIN queues[c] :
    \A u \in Threads : \A k \in DOMAIN sent[u] :
      sent[u][k].payload = queues[c][i] => sent[u][k].channel = c

\* A queue, what has left it and what a client has are in the order of Older.
QueueOrder ==
  \A d, e \in Delivery : Older(d, e) => \A c \in Channels : \A i, j \in DOMAIN queues[c] :
    queues[c][i] = d.payload /\ queues[c][j] = e.payload => i < j

LeftOrder ==
  \A d, e \in Delivery : Older(d, e) /\ Queued(d.payload) => ~Left(e.payload)

HandOrder ==
  \A d, e \in Delivery : Older(d, e) =>
    \A t \in Threads : Received(t, e.payload) => ~InHand(t, d.payload)

ReceivedOrder ==
  \A d, e \in Delivery : Older(d, e) => \A t \in Threads : \A i, j \in DOMAIN received[t] :
    received[t][i].payload = d.payload /\ received[t][j].payload = e.payload => i < j

Sorted == QueueOrder /\ LeftOrder /\ HandOrder /\ ReceivedOrder

OrderInv ==
  /\ DaemonInv /\ WaitersFindNothing
  /\ SentApart /\ AskedLast /\ ChannelKept
  /\ Sorted

LEMMA OlderFacts ==
  ASSUME DaemonInv, SentApart, NEW d, NEW e, Older(d, e)
  PROVE  /\ d \in Delivery /\ e \in Delivery /\ d.channel = e.channel
         /\ d.payload # e.payload
         /\ d.payload \in Messages /\ e.payload \in Messages
         /\ \E u \in Threads, k \in Nat : k \in DOMAIN sent[u] /\ sent[u][k] = d
         /\ \E u \in Threads, k \in Nat : k \in DOMAIN sent[u] /\ sent[u][k] = e
<1>1. PICK u \in Threads : \E k, l \in DOMAIN sent[u] :
        k < l /\ sent[u][k] = d /\ sent[u][l] = e /\ d.channel = e.channel
  BY DEF Older
<1>2. PICK k \in DOMAIN sent[u], l \in DOMAIN sent[u] :
        k < l /\ sent[u][k] = d /\ sent[u][l] = e /\ d.channel = e.channel
  BY <1>1
<1>3. sent[u] \in Seq(Delivery)
  BY DEF DaemonInv, DaemonTypes
<1>4. k \in Nat /\ l \in Nat /\ sent[u][k] \in Delivery /\ sent[u][l] \in Delivery
  BY <1>3, LenProperties
<1>5. d.payload # e.payload
  BY <1>2, <1>4 DEF SentApart
<1> QED BY <1>2, <1>4, <1>5 DEF Delivery

\* What a client waits to have pushed is the last that it sent.
LEMMA PendingIsLast ==
  ASSUME DaemonInv, SentApart, AskedLast, NEW t \in Threads, NEW p, PushAsked(t, p)
  PROVE  /\ \A u \in Threads : \A k \in DOMAIN sent[u] :
              sent[u][k].payload = p => sent[u][k].channel = asked[t].channel
         /\ \A d, e : Older(d, e) => d.payload # p
<1>1. asked[t] \in PushRequest
  BY Requests DEF PushAsked, DaemonInv, DaemonTypes
<1>2. PICK s : s = sent[t]
  OBVIOUS
<1>3. s \in Seq(Delivery) /\ s # <<>>
  BY <1>1, <1>2 DEF DaemonInv, DaemonTypes, AskedLast
<1>4. Len(s) \in Nat /\ DOMAIN s = 1..Len(s) /\ Len(s) \in DOMAIN s
  BY <1>3, LenProperties, EmptySeq
<1>5. s[Len(s)] = [channel |-> asked[t].channel, payload |-> p]
  BY <1>1, <1>2 DEF AskedLast, PushAsked
<1>6. \A u \in Threads : \A k \in DOMAIN sent[u] :
        sent[u][k].payload = p => u = t /\ k = Len(s)
  BY <1>2, <1>4, <1>5 DEF SentApart
<1>7. ASSUME NEW d, NEW e, Older(d, e) PROVE d.payload # p
  <2>1. PICK u \in Threads : \E k, l \in DOMAIN sent[u] : k < l /\ sent[u][k] = d
    BY <1>7 DEF Older
  <2>2. PICK k \in DOMAIN sent[u], l \in DOMAIN sent[u] : k < l /\ sent[u][k] = d
    BY <2>1
  <2>3. u = t => ~(k = Len(s))
    BY <1>2, <1>4, <2>2
  <2> QED BY <1>6, <2>2, <2>3
<1>8. \A u \in Threads : \A k \in DOMAIN sent[u] :
        sent[u][k].payload = p => sent[u][k].channel = asked[t].channel
  BY <1>2, <1>5, <1>6
<1> QED BY <1>7, <1>8

\* The push in the call of t.
LEMMA CallIsLast ==
  ASSUME OrderInv, NEW t \in Threads, hpc[t] = "call", pc[t] \in PushPC
  PROVE  /\ msg[t] \in Delivery /\ msg[t].channel \in Channels /\ msg[t].payload \in Messages
         /\ \A u \in Threads : \A k \in DOMAIN sent[u] :
              sent[u][k].payload = msg[t].payload => sent[u][k].channel = msg[t].channel
         /\ \A d, e : Older(d, e) => /\ d.payload # msg[t].payload
                                     /\ e.payload = msg[t].payload => e.channel = msg[t].channel
<1>1. msg[t] \in Delivery /\ msg[t].channel \in Channels /\ msg[t].payload \in Messages
  BY Locals DEF OrderInv, DaemonInv
<1>2. PushAsked(t, msg[t].payload) /\ asked[t].channel = msg[t].channel
  <2>1. asked[t] \in PushRequest /\ PushAsked(t, msg[t].payload)
    BY <1>1, HandlerCalls DEF OrderInv
  <2>2. msg[t] = [channel |-> asked[t].channel, payload |-> asked[t].payload]
    BY <2>1 DEF OrderInv, DaemonInv, StagesOK, StageOK
  <2> QED BY <2>1, <2>2
<1>3. PICK p : p = msg[t].payload
  OBVIOUS
<1>4. /\ \A u \in Threads : \A k \in DOMAIN sent[u] :
           sent[u][k].payload = p => sent[u][k].channel = asked[t].channel
      /\ \A d, e : Older(d, e) => d.payload # p
  BY <1>2, <1>3, PendingIsLast DEF OrderInv
<1>5. \A d, e : Older(d, e) /\ e.payload = p => e.channel = asked[t].channel
  BY <1>4 DEF Older
<1> QED BY <1>1, <1>2, <1>3, <1>4, <1>5

LEMMA SameOlder ==
  ASSUME UNCHANGED sent
  PROVE  \A d, e : Older(d, e)' <=> Older(d, e)
BY DEF Older

\* A step in which a payload may move, but not past an older one.
LEMMA SortedKeeps ==
  ASSUME OrderInv, UNCHANGED <<sent, received>>, QueueOrder',
         \A d, e \in Delivery : Older(d, e) =>
           /\ Queued(d.payload)' /\ Left(e.payload)' => Queued(d.payload) /\ Left(e.payload)
           /\ \A t \in Threads : InHand(t, d.payload)' => \/ InHand(t, d.payload)
                                                          \/ ~Received(t, e.payload)
  PROVE  Sorted'
<1>1. \A d, e : Older(d, e)' <=> Older(d, e)
  BY SameOlder
<1>2. \A t \in Threads : \A m : Received(t, m)' <=> Received(t, m)
  BY DEF Received
<1>3. LeftOrder'
  BY <1>1 DEF OrderInv, Sorted, LeftOrder
<1>4. HandOrder'
  BY <1>1, <1>2 DEF OrderInv, Sorted, HandOrder
<1>5. ReceivedOrder'
  BY <1>1 DEF OrderInv, Sorted, ReceivedOrder
<1> QED BY <1>3, <1>4, <1>5 DEF Sorted

LEMMA SortedQuiet ==
  ASSUME OrderInv, UNCHANGED <<queues, sent, received>>,
         \A m : Left(m)' => Left(m),
         \A t \in Threads : \A m : InHand(t, m)' => InHand(t, m)
  PROVE  Sorted' /\ ChannelKept'
<1>1. \A m : Queued(m)' <=> Queued(m)
  BY DEF Queued
<1>2. QueueOrder'
  BY SameOlder DEF OrderInv, Sorted, QueueOrder
<1>3. ChannelKept'
  BY DEF OrderInv, ChannelKept
<1> QED BY <1>1, <1>2, <1>3, SortedKeeps

\* A Push changes the places of its own payload only.
LEMMA PushPlaces ==
  ASSUME OrderInv, NEW t \in Threads, BrokerStep(t), PushStep(t)
  PROVE  /\ \A m : Left(m)' => Left(m) \/ (PushHandoff(t) /\ m = msg[t].payload)
         /\ \A u \in Threads : \A m : InHand(u, m)' => InHand(u, m) \/ m = msg[t].payload
         /\ UNCHANGED <<sent, received, asked>>
         /\ hpc[t] = "call" /\ pc[t] \in PushPC
<1>1. /\ hpc[t] = "call" /\ pc[t] \in PushPC
      /\ UNCHANGED <<sent, received, asked, req>>
  BY PushMoves DEF BrokerStep, clients, OrderInv, DaemonInv
<1>2. \A u \in Threads : \A m : Received(u, m)' <=> Received(u, m)
  BY <1>1 DEF Received
<1>3. \A u \in Threads : \A m : Leaving(u, m)' => Leaving(u, m)
  <2>1. \A u \in Threads : result'[u] = result[u] \/ result'[u].val = Nil
    BY PushMoves DEF StillIn, Returns, Returned, OrderInv, DaemonInv
  <2> QED BY <1>1, <2>1 DEF Leaving
<1>4. /\ \A u \in Threads \ {t} : pc'[u] = pc[u] /\ msg'[u] = msg[u]
      /\ pc'[t] = "send" => msg'[t] = msg[t] /\ PushHandoff(t)
  <2>1. \A u \in Threads \ {t} : pc'[u] = pc[u] /\ msg'[u] = msg[u]
    BY PushMoves DEF OrderInv, DaemonInv
  <2>2. pc'[t] = "send" => msg'[t] = msg[t] /\ PushHandoff(t)
    BY DEF PushStep, PushHandoff, PushSend, PushEnqueue, PushBlock, PushNotify, PushWake,
           PushCancelled, Return, Goto, OrderInv, DaemonInv, CoreInv, TypeOK
  <2> QED BY <2>1, <2>2
<1>5. \/ UNCHANGED reply
      \/ /\ pc[t] = "send"
         /\ \A u \in Threads : reply'[u] = reply[u] \/ reply'[u] = msg[t]
  BY DEF PushStep, PushHandoff, PushSend, PushEnqueue, PushBlock, PushNotify, PushWake,
         PushCancelled, OrderInv, DaemonInv, CoreInv, TypeOK
<1>6. \A u \in Threads : \A m : InHand(u, m)' =>
        \/ InHand(u, m)
        \/ pc[t] = "send" /\ m = msg[t].payload
  BY <1>3, <1>5 DEF InHand
<1>7. \A m : Left(m)' => Left(m) \/ (PushHandoff(t) /\ m = msg[t].payload)
  BY <1>2, <1>4, <1>6 DEF Left
<1> QED BY <1>1, <1>6, <1>7

LEMMA PushSorts ==
  ASSUME OrderInv, NEW t \in Threads, BrokerStep(t), PushStep(t)
  PROVE  Sorted' /\ ChannelKept'
<1>1. hpc[t] = "call" /\ pc[t] \in PushPC /\ UNCHANGED <<sent, received>>
  BY PushPlaces
<1>2. PICK p \in Messages, c \in Channels : p = msg[t].payload /\ c = msg[t].channel
  BY <1>1, CallIsLast
<1>3. /\ \A u \in Threads : \A k \in DOMAIN sent[u] :
           sent[u][k].payload = p => sent[u][k].channel = c
      /\ \A d, e : Older(d, e) => d.payload # p /\ (e.payload = p => e.channel = c)
  BY <1>1, <1>2, CallIsLast
<1>4. /\ \A m : Left(m)' => Left(m) \/ (PushHandoff(t) /\ m = p)
      /\ \A u \in Threads : \A m : InHand(u, m)' => InHand(u, m) \/ m = p
  BY <1>2, PushPlaces
<1>5. CASE PushEnqueue(t)
  <2>1. queues' = [queues EXCEPT ![c] = Append(@, p)]
    BY <1>2, <1>5 DEF PushEnqueue
  <2>2. \A m : Queued(m)' <=> Queued(m) \/ m = p
    BY <2>1, EnqueuedPayloads DEF OrderInv, DaemonInv
  <2>3. ~PushHandoff(t)
    BY <1>5 DEF PushEnqueue, PushHandoff, NoMatch, FirstMatch
  <2>4. \A b \in Channels : \A i \in DOMAIN queues'[b] :
          \/ i \in DOMAIN queues[b] /\ queues'[b][i] = queues[b][i]
          \/ b = c /\ i = Len(queues[c]) + 1 /\ queues'[b][i] = p
    <3>1. PICK q \in Seq(Messages) : q = queues[c]
      BY DEF OrderInv, DaemonInv, CoreInv, TypeOK
    <3>2. Len(q) \in Nat /\ DOMAIN q = 1..Len(q)
      BY LenProperties
    <3>3. \A i \in DOMAIN Append(q, p) : \/ i \in DOMAIN q /\ Append(q, p)[i] = q[i]
                                         \/ i = Len(q) + 1 /\ Append(q, p)[i] = p
      BY <3>2, AppendElements
    <3>4. queues'[c] = Append(q, p) /\ \A b \in Channels \ {c} : queues'[b] = queues[b]
      BY <2>1, <3>1 DEF OrderInv, DaemonInv, CoreInv, TypeOK
    <3> QED BY <3>1, <3>3, <3>4
  <2>5. ChannelKept'
    BY <1>1, <1>3, <2>4 DEF ChannelKept, OrderInv
  <2>6. QueueOrder'
    <3> SUFFICES ASSUME NEW d \in Delivery, NEW e \in Delivery, Older(d, e), NEW b \in Channels,
                        NEW i \in DOMAIN queues'[b], NEW j \in DOMAIN queues'[b],
                        queues'[b][i] = d.payload, queues'[b][j] = e.payload
                 PROVE  i < j
      BY <1>1, SameOlder DEF QueueOrder
    <3>1. i \in DOMAIN queues[b] /\ queues[b][i] = d.payload
      BY <1>3, <2>4
    <3>2. CASE j \in DOMAIN queues[b] /\ queues[b][j] = e.payload
      BY <3>1, <3>2 DEF OrderInv, Sorted, QueueOrder
    <3>3. CASE b = c /\ j = Len(queues[c]) + 1
      <4>1. queues[c] \in Seq(Messages)
        BY DEF OrderInv, DaemonInv, CoreInv, TypeOK
      <4> QED BY <3>1, <3>3, <4>1, LenProperties
    <3> QED BY <2>4, <3>2, <3>3
  <2> QED BY <1>1, <1>3, <1>4, <2>2, <2>3, <2>5, <2>6, SortedKeeps
<1>6. CASE PushHandoff(t)
  <2>1. UNCHANGED queues /\ queues[c] = <<>>
    <3>1. PICK i \in DOMAIN waiters : FirstMatch(i, c)
      BY <1>2, <1>6 DEF PushHandoff
    <3>2. NoneQueued(waiters[i])
      BY DEF OrderInv, WaitersFindNothing
    <3> QED BY <1>6, <3>1, <3>2 DEF PushHandoff, FirstMatch, waiterMatches, NoneQueued
  <2>2. /\ \A m : Queued(m)' <=> Queued(m)
        /\ QueueOrder' /\ ChannelKept'
    BY <1>1, <2>1, SameOlder DEF Queued, OrderInv, Sorted, QueueOrder, ChannelKept
  <2>3. ASSUME NEW d \in Delivery, NEW e \in Delivery, Older(d, e), e.payload = p
        PROVE  ~Queued(d.payload)
    <3>1. d.channel = c
      BY <1>3, <2>3, OlderFacts DEF OrderInv
    <3>2. PICK u \in Threads, k \in Nat : k \in DOMAIN sent[u] /\ sent[u][k] = d
      BY <2>3, OlderFacts DEF OrderInv
    <3>3. \A b \in Channels : \A i \in DOMAIN queues[b] : queues[b][i] = d.payload => b = c
      BY <3>1, <3>2 DEF OrderInv, ChannelKept
    <3> QED BY <2>1, <3>3 DEF Queued
  <2> QED BY <1>1, <1>3, <1>4, <2>2, <2>3, SortedKeeps
<1>7. CASE ~PushEnqueue(t) /\ ~PushHandoff(t)
  <2>1. UNCHANGED queues
    BY <1>7 DEF PushStep, PushSend, PushBlock, PushNotify, PushWake, PushCancelled, shared
  <2>2. /\ \A m : Queued(m)' <=> Queued(m)
        /\ QueueOrder' /\ ChannelKept'
    BY <1>1, <2>1, SameOlder DEF Queued, OrderInv, Sorted, QueueOrder, ChannelKept
  <2> QED BY <1>1, <1>3, <1>4, <1>7, <2>2, SortedKeeps
<1> QED BY <1>5, <1>6, <1>7
\* A Pop changes the places of its answer only.
LEMMA PopPlaces ==
  ASSUME OrderInv, NEW t \in Threads, BrokerStep(t), PopStep(t)
  PROVE  /\ UNCHANGED <<sent, received, asked>>
         /\ ~PopQueued(t) =>
              /\ UNCHANGED queues
              /\ \A m : Left(m)' => Left(m)
              /\ \A u \in Threads : \A m : InHand(u, m)' => InHand(u, m)
         /\ \A p : PopQueued(t) /\ result'[t].val.payload = p =>
              /\ \A m : Left(m)' => Left(m) \/ m = p
              /\ \A u \in Threads : \A m : InHand(u, m)' => InHand(u, m) \/ m = p
<1>1. /\ hpc[t] = "call" /\ asked[t] # Nil /\ req[t] = Nil
      /\ UNCHANGED <<sent, received, asked, req>>
  BY HandlerCalls DEF BrokerStep, clients, OrderInv
<1>2. /\ \A u \in Threads \ {t} : pc'[u] = pc[u] /\ msg'[u] = msg[u] /\ result'[u] = result[u]
      /\ pc'[t] # "send"
  <2>1. pc'[t] # "send"
    BY DEF PopStep, PopQueued, PopExpired, PopWait, PopReceive, PopDone, PopRemoveWaiter, PopPoll,
           Return, Goto, OrderInv, DaemonInv, CoreInv, TypeOK
  <2> QED BY <2>1, PopMoves DEF OrderInv, DaemonInv
<1>3. \A u \in Threads : \A m : Received(u, m)' <=> Received(u, m)
  BY <1>1 DEF Received
<1>4. \A u \in Threads \ {t} : \A m : Leaving(u, m)' <=> Leaving(u, m)
  BY <1>1, <1>2 DEF Leaving
<1>5. \A u \in Threads : reply'[u] = reply[u] \/ reply'[u] = Nil
  BY DEF PopStep, PopQueued, PopExpired, PopWait, PopReceive, PopDone, PopRemoveWaiter, PopPoll,
         OrderInv, DaemonInv, CoreInv, TypeOK
<1>6. ASSUME NEW p, \A m : Leaving(t, m)' => InHand(t, m) \/ m = p
      PROVE  /\ \A m : Left(m)' => Left(m) \/ m = p
             /\ \A u \in Threads : \A m : InHand(u, m)' => InHand(u, m) \/ m = p
  <2>1. \A u \in Threads : \A m : InHand(u, m)' => InHand(u, m) \/ m = p
    BY <1>4, <1>5, <1>6 DEF InHand
  <2> QED BY <1>2, <1>3, <2>1 DEF Left
<1>7. ASSUME \A m : Leaving(t, m)' => InHand(t, m)
      PROVE  /\ \A m : Left(m)' => Left(m)
             /\ \A u \in Threads : \A m : InHand(u, m)' => InHand(u, m)
  <2>1. \A u \in Threads : \A m : InHand(u, m)' => InHand(u, m)
    BY <1>4, <1>5, <1>7 DEF InHand
  <2> QED BY <1>2, <1>3, <2>1 DEF Left
<1>8. ASSUME NEW p, PopQueued(t), result'[t].val.payload = p
      PROVE  \A m : Leaving(t, m)' => InHand(t, m) \/ m = p
  BY <1>8 DEF Leaving
<1>9. ASSUME ~PopQueued(t)
      PROVE  UNCHANGED queues /\ \A m : Leaving(t, m)' => InHand(t, m)
  <2>1. UNCHANGED queues
    BY <1>9 DEF PopStep, PopExpired, PopWait, PopReceive, PopDone, PopRemoveWaiter, PopPoll, shared
  <2>2. \/ result'[t].val = Nil
        \/ result'[t] = result[t]
        \/ reply[t] # Nil /\ result'[t].val = reply[t]
    BY <1>9 DEF PopStep, PopExpired, PopWait, PopReceive, PopDone, PopRemoveWaiter, PopPoll,
                Return, Returned, OrderInv, DaemonInv, CoreInv, TypeOK
  <2>3. \A m : Leaving(t, m)' => InHand(t, m)
    BY <1>1, <2>2 DEF Leaving, InHand
  <2> QED BY <2>1, <2>3
<1> QED BY <1>1, <1>6, <1>7, <1>8, <1>9

LEMMA PopSorts ==
  ASSUME OrderInv, NEW t \in Threads, BrokerStep(t), PopStep(t)
  PROVE  Sorted' /\ ChannelKept'
<1>1. UNCHANGED <<sent, received>>
  BY PopPlaces
<1>2. CASE ~PopQueued(t)
  BY <1>1, <1>2, PopPlaces, SortedQuiet
<1>3. CASE PopQueued(t)
  <2>1. PICK c \in Channels : /\ queues[c] # <<>>
                              /\ queues' = [queues EXCEPT ![c] = Tail(@)]
                              /\ Return(t, "nil", [channel |-> c, payload |-> Head(queues[c])])
    <3>1. PICK i \in DOMAIN channels[t] :
            /\ queues[channels[t][i]] # <<>>
            /\ queues' = [queues EXCEPT ![channels[t][i]] = Tail(@)]
            /\ Return(t, "nil", [channel |-> channels[t][i], payload |-> Head(queues[channels[t][i]])])
      BY <1>3 DEF PopQueued, FirstQueued
    <3> QED BY <3>1, Locals DEF OrderInv, DaemonInv
  <2>2. PICK p \in Messages : p = Head(queues[c])
    BY <2>1, HeadTailProperties, Locals DEF OrderInv, DaemonInv
  <2>3. result'[t].val.payload = p
    BY <2>1, <2>2 DEF Return, Returned, OrderInv, DaemonInv, CoreInv, TypeOK
  <2>4. /\ \A m : Left(m)' => Left(m) \/ m = p
        /\ \A u \in Threads : \A m : InHand(u, m)' => InHand(u, m) \/ m = p
    BY <1>3, <2>3, PopPlaces
  <2>5. Queued(p) /\ \A m : Queued(m)' <=> Queued(m) /\ m # p
    BY <2>1, <2>2, DequeuedPayloads DEF OrderInv, DaemonInv
  <2>6. /\ \A b \in Channels : \A i \in DOMAIN queues'[b] :
             LET k == IF b = c THEN i + 1 ELSE i
             IN  k \in DOMAIN queues[b] /\ queues'[b][i] = queues[b][k]
        /\ \A i \in DOMAIN queues'[c] : i \in Nat
    BY <2>1, DequeuedPlaces DEF OrderInv, DaemonInv
  <2>7. ChannelKept'
    BY <1>1, <2>6 DEF ChannelKept, OrderInv
  <2>8. QueueOrder'
    <3> SUFFICES ASSUME NEW d \in Delivery, NEW e \in Delivery, Older(d, e), NEW b \in Channels,
                        NEW i \in DOMAIN queues'[b], NEW j \in DOMAIN queues'[b],
                        queues'[b][i] = d.payload, queues'[b][j] = e.payload
                 PROVE  i < j
      BY <1>1, SameOlder DEF QueueOrder
    <3>1. CASE b = c
      <4>1. /\ i \in Nat /\ j \in Nat /\ i + 1 \in DOMAIN queues[b] /\ j + 1 \in DOMAIN queues[b]
            /\ queues[b][i + 1] = d.payload /\ queues[b][j + 1] = e.payload
        BY <2>6, <3>1
      <4>2. i + 1 < j + 1
        BY <4>1 DEF OrderInv, Sorted, QueueOrder
      <4> QED BY <4>1, <4>2
    <3>2. CASE b # c
      <4>1. /\ i \in DOMAIN queues[b] /\ j \in DOMAIN queues[b]
            /\ queues[b][i] = d.payload /\ queues[b][j] = e.payload
        BY <2>6, <3>2
      <4> QED BY <4>1 DEF OrderInv, Sorted, QueueOrder
    <3> QED BY <3>1, <3>2
  <2>9. ASSUME NEW d \in Delivery, NEW e \in Delivery, Older(d, e), e.payload = p
        PROVE  ~Queued(d.payload)'
    <3> SUFFICES ASSUME Queued(d.payload), d.payload # p PROVE FALSE
      BY <2>5
    <3>1. PICK u \in Threads, k \in Nat : k \in DOMAIN sent[u] /\ sent[u][k] = d
      BY <2>9, OlderFacts DEF OrderInv
    <3>2. PICK v \in Threads, l \in Nat : l \in DOMAIN sent[v] /\ sent[v][l] = e
      BY <2>9, OlderFacts DEF OrderInv
    <3>3. queues[c] \in Seq(Messages) /\ 1 \in DOMAIN queues[c] /\ queues[c][1] = p
      <4>1. queues[c] \in Seq(Messages)
        BY DEF OrderInv, DaemonInv, CoreInv, TypeOK
      <4> QED BY <2>1, <2>2, <4>1, LenProperties, EmptySeq
    <3>4. e.channel = c
      BY <2>9, <3>2, <3>3 DEF OrderInv, ChannelKept
    <3>5. d.channel = c
      BY <2>9, <3>4, OlderFacts DEF OrderInv
    <3>6. PICK b \in Channels : \E i \in DOMAIN queues[b] : queues[b][i] = d.payload
      BY DEF Queued
    <3>7. PICK i \in DOMAIN queues[b] : queues[b][i] = d.payload
      BY <3>6
    <3>8. b = c
      BY <3>1, <3>5, <3>7 DEF OrderInv, ChannelKept
    <3>9. i < 1
      BY <2>9, <3>3, <3>7, <3>8 DEF OrderInv, Sorted, QueueOrder
    <3> QED BY <3>3, <3>7, <3>8, <3>9, LenProperties
  <2>10. ASSUME NEW d \in Delivery, NEW e \in Delivery, Older(d, e), d.payload = p, NEW u \in Threads
         PROVE  ~Received(u, e.payload)
    BY <2>5, <2>10 DEF OrderInv, Sorted, LeftOrder, Left
  <2> QED BY <1>1, <2>4, <2>5, <2>7, <2>8, <2>9, <2>10, SortedKeeps
<1> QED BY <1>2, <1>3

\* The steps that give nothing to a consumer and take nothing from a producer.
LEMMA OthersSort ==
  ASSUME OrderInv,
         \/ \E t \in Threads : \/ ClientDies(t) \/ HandlerPush(t) \/ HandlerPop(t)
                               \/ ContextDone(t) \/ HandlerWrite(t) \/ HandlerEOF(t)
         \/ \E t \in Poppers, r \in PopRequest : AskPop(t, r)
         \/ UNCHANGED dvars
  PROVE  Sorted' /\ ChannelKept'
<1>1. ASSUME UNCHANGED <<queues, sent, received, reply>>,
             \A u \in Threads : \A m : Leaving(u, m)' => Leaving(u, m),
             \A u \in Threads : pc'[u] = "send" => pc[u] = "send" /\ msg'[u] = msg[u]
      PROVE  Sorted' /\ ChannelKept'
  <2>1. \A u \in Threads : \A m : InHand(u, m)' => InHand(u, m)
    BY <1>1 DEF InHand
  <2>2. \A m : Left(m)' => Left(m)
    BY <1>1, <2>1 DEF Left, Received
  <2> QED BY <1>1, <2>1, <2>2, SortedQuiet
<1>2. ASSUME NEW t \in Threads, ClientDies(t) \/ ContextDone(t) \/ HandlerWrite(t) \/ HandlerEOF(t)
      PROVE  Sorted' /\ ChannelKept'
  <2>1. UNCHANGED <<queues, sent, received, reply, asked, req, result, pc, msg>>
    BY <1>2 DEF ClientDies, ContextDone, HandlerWrite, HandlerEOF, CtxDone, vars, shared, locals, clients
  <2> QED BY <1>1, <2>1 DEF Leaving
<1>3. CASE UNCHANGED dvars
  <2>1. UNCHANGED <<queues, sent, received, reply, asked, req, result, pc, msg>>
    BY <1>3 DEF dvars, vars, shared, locals, clients
  <2> QED BY <1>1, <2>1 DEF Leaving
<1>4. ASSUME NEW t \in Poppers, NEW r \in PopRequest, AskPop(t, r) PROVE Sorted' /\ ChannelKept'
  <2>1. /\ UNCHANGED <<queues, sent, received, reply, result, pc, msg>>
        /\ asked' = [asked EXCEPT ![t] = r] /\ req' = [req EXCEPT ![t] = r]
        /\ asked[t] = Nil /\ r # Nil /\ t \in Threads
    BY <1>4, Requests DEF AskPop, Ask, vars, shared, locals, Threads
  <2>2. \A u \in Threads : \A m : Leaving(u, m)' => Leaving(u, m)
    BY <2>1 DEF Leaving, OrderInv, DaemonInv, DaemonTypes
  <2> QED BY <1>1, <2>1, <2>2
<1>5. ASSUME NEW t \in Threads, HandlerPush(t) \/ HandlerPop(t) PROVE Sorted' /\ ChannelKept'
  <2>1. UNCHANGED <<queues, sent, received, reply, asked>> /\ req' = [req EXCEPT ![t] = Nil]
    BY <1>5 DEF HandlerPush, HandlerPop, PushCall, PushInvalid, PopCall, PopInvalid, shared, clients
  <2>2. result'[t].val = Nil /\ \A u \in Threads \ {t} : result'[u] = result[u]
    BY <1>5 DEF HandlerPush, HandlerPop, PushCall, PushInvalid, PopCall, PopInvalid, Return, Returned,
                OrderInv, DaemonInv, CoreInv, TypeOK
  <2>3. \A u \in Threads : pc'[u] = "send" => pc[u] = "send" /\ msg'[u] = msg[u]
    <3>1. pc'[t] # "send" /\ \A u \in Threads \ {t} : pc'[u] = pc[u] /\ msg'[u] = msg[u]
      BY <1>5 DEF HandlerPush, HandlerPop, PushCall, PushInvalid, PopCall, PopInvalid, Return, Goto,
                  OrderInv, DaemonInv, CoreInv, TypeOK
    <3> QED BY <3>1
  <2>4. \A u \in Threads : \A m : Leaving(u, m)' => Leaving(u, m)
    BY <2>1, <2>2 DEF Leaving, OrderInv, DaemonInv, DaemonTypes
  <2> QED BY <1>1, <2>1, <2>3, <2>4
<1> QED BY <1>2, <1>3, <1>4, <1>5
\* What a client sends next is nowhere yet.
LEMMA AskPushSorts ==
  ASSUME OrderInv, NEW t \in Pushers, NEW r \in PushRequest, AskPush(t, r)
  PROVE  Sorted' /\ ChannelKept' /\ SentApart' /\ AskedLast'
<1> USE Requests
<1>1. t \in Threads /\ r.payload \in Messages
  BY DEF Threads
<1>2. /\ asked[t] = Nil /\ ~Sent(r.payload)
      /\ asked' = [asked EXCEPT ![t] = r] /\ req' = [req EXCEPT ![t] = r]
      /\ sent' = [sent EXCEPT ![t] = Append(@, [channel |-> r.channel, payload |-> r.payload])]
      /\ UNCHANGED <<received, queues, pc, msg, reply, result>>
  BY DEF AskPush, Ask, vars, shared, locals
<1>3. PICK x \in Delivery : x = [channel |-> r.channel, payload |-> r.payload]
  BY DEF Delivery
<1>4. PICK s \in Seq(Delivery) : s = sent[t]
  BY <1>1 DEF OrderInv, DaemonInv, DaemonTypes
<1>5. /\ sent'[t] = Append(s, x)
      /\ \A u \in Threads \ {t} : sent'[u] = sent[u]
      /\ asked'[t] = r /\ \A u \in Threads \ {t} : asked'[u] = asked[u]
  BY <1>1, <1>2, <1>3, <1>4 DEF OrderInv, DaemonInv, DaemonTypes
<1>6. Len(s) \in Nat /\ DOMAIN s = 1..Len(s)
  BY LenProperties
<1>7. \A u \in Threads : \A i \in DOMAIN sent'[u] :
        \/ i \in DOMAIN sent[u] /\ sent'[u][i] = sent[u][i]
        \/ u = t /\ i = Len(s) + 1 /\ sent'[u][i] = x
  <2>1. \A i \in DOMAIN Append(s, x) : \/ i \in DOMAIN s /\ Append(s, x)[i] = s[i]
                                       \/ i = Len(s) + 1 /\ Append(s, x)[i] = x
    BY AppendDelivery
  <2> QED BY <1>4, <1>5, <2>1
<1>8. \A u \in Threads : \A i \in DOMAIN sent[u] : sent[u][i].payload # x.payload
  BY <1>2, <1>3 DEF Sent
<1>9. SentApart'
  BY <1>7, <1>8 DEF SentApart, OrderInv
<1>10. AskedLast'
  <2>1. /\ sent'[t] # <<>>
        /\ sent'[t][Len(sent'[t])] = [channel |-> asked'[t].channel, payload |-> asked'[t].payload]
    <3>1. Append(s, x) # <<>> /\ Len(Append(s, x)) = Len(s) + 1
      BY AppendProperties
    <3>2. Append(s, x)[Len(s) + 1] = x
      BY AppendElements
    <3> QED BY <1>3, <1>5, <3>1, <3>2
  <2> QED BY <1>5, <2>1 DEF AskedLast, OrderInv
<1>11. Nowhere(x.payload) /\ x.payload \in Messages
  BY <1>1, <1>2, <1>3 DEF OrderInv, DaemonInv, Fate
<1>12. ChannelKept'
  <2>1. \A c \in Channels : \A i \in DOMAIN queues[c] : queues[c][i] # x.payload
    BY <1>11 DEF Nowhere, InBroker, Queued
  <2> QED BY <1>2, <1>7, <2>1 DEF ChannelKept, OrderInv
<1>13. \A d, e : Older(d, e)' => Older(d, e) \/ e = x
  <2> SUFFICES ASSUME NEW d, NEW e, Older(d, e)', e # x PROVE Older(d, e)
    OBVIOUS
  <2>1. PICK u \in Threads : \E k, l \in DOMAIN sent'[u] :
          k < l /\ sent'[u][k] = d /\ sent'[u][l] = e /\ d.channel = e.channel
    BY DEF Older
  <2>2. PICK k \in DOMAIN sent'[u], l \in DOMAIN sent'[u] :
          k < l /\ sent'[u][k] = d /\ sent'[u][l] = e /\ d.channel = e.channel
    BY <2>1
  <2>3. l \in DOMAIN sent[u] /\ sent[u][l] = e
    BY <1>7, <2>2
  <2>4. ~(u = t /\ k = Len(s) + 1)
    BY <1>4, <1>6, <2>2, <2>3
  <2>5. k \in DOMAIN sent[u] /\ sent[u][k] = d
    BY <1>7, <2>2, <2>4
  <2> QED BY <2>2, <2>3, <2>5 DEF Older
<1>14. /\ \A m : Queued(m)' <=> Queued(m)
       /\ \A u \in Threads : \A m : Received(u, m)' <=> Received(u, m)
       /\ \A u \in Threads : \A m : Leaving(u, m)' <=> Leaving(u, m)
  <2>1. \A u \in Threads : \A m : Leaving(u, m)' <=> Leaving(u, m)
    BY <1>1, <1>2 DEF Leaving, OrderInv, DaemonInv, DaemonTypes
  <2> QED BY <1>2, <2>1 DEF Queued, Received
<1>15. /\ \A u \in Threads : \A m : InHand(u, m)' <=> InHand(u, m)
       /\ \A m : Left(m)' <=> Left(m)
  <2>1. \A u \in Threads : \A m : InHand(u, m)' <=> InHand(u, m)
    BY <1>2, <1>14 DEF InHand
  <2> QED BY <1>2, <1>14, <2>1 DEF Left
<1>16. ~Queued(x.payload) /\ ~Left(x.payload) /\ \A u \in Threads : ~Received(u, x.payload)
  <2>1. \A u \in Threads : pc[u] = "send" => msg[u] # Nil
    BY DEF OrderInv, DaemonInv, CoreInv, ControlOK, PushPC
  <2> QED BY <1>11, <2>1 DEF Nowhere, InBroker, Held, Left, InHand
<1>17. QueueOrder'
  BY <1>2, <1>13, <1>16 DEF QueueOrder, OrderInv, Sorted, Queued
<1>18. LeftOrder'
  BY <1>13, <1>14, <1>15, <1>16 DEF LeftOrder, OrderInv, Sorted
<1>19. HandOrder'
  BY <1>13, <1>14, <1>15, <1>16 DEF HandOrder, OrderInv, Sorted
<1>20. ReceivedOrder'
  BY <1>2, <1>13, <1>16 DEF ReceivedOrder, OrderInv, Sorted, Received
<1> QED BY <1>9, <1>10, <1>12, <1>17, <1>18, <1>19, <1>20 DEF Sorted

LEMMA AnswerSorts ==
  ASSUME OrderInv, NEW t \in Threads, Answer(t)
  PROVE  Sorted' /\ ChannelKept'
<1> USE Requests
<1>1. /\ resp[t] # Nil /\ asked' = [asked EXCEPT ![t] = Nil]
      /\ UNCHANGED <<sent, req, queues, pc, msg, reply, result>>
  BY DEF Answer, vars, shared, locals
<1>2. /\ \A u \in Threads : \A m : Leaving(u, m)' => Leaving(u, m) /\ u # t
      /\ \A m : Leaving(t, m) => m \in Messages
  <2>1. result[t].val # Nil => result[t].val.payload \in Messages
    BY DEF OrderInv, DaemonInv, CoreInv, TypeOK, Delivery
  <2> QED BY <1>1, <2>1 DEF Leaving, OrderInv, DaemonInv, DaemonTypes
<1>3. reply[t] = Nil
  BY <1>1 DEF OrderInv, DaemonInv, StagesOK, StageOK, CoreInv, HandoffExact, Expecting
<1>4. \A u \in Threads, m \in Messages :
        Received(u, m)' <=> Received(u, m) \/ (u = t /\ Leaving(t, m))
  BY AnswerMoves DEF OrderInv
<1>5. \A u \in Threads : \A i \in DOMAIN received'[u] :
        \/ i \in DOMAIN received[u] /\ received'[u][i] = received[u][i]
        \/ u = t /\ i = Len(received[t]) + 1 /\ Leaving(t, received'[u][i].payload)
  BY AnswerMoves DEF OrderInv
<1>6. \A d, e : Older(d, e)' <=> Older(d, e)
  BY <1>1, SameOlder
<1>7. \A m : Queued(m)' <=> Queued(m)
  BY <1>1 DEF Queued
<1>8. /\ \A u \in Threads : \A m : InHand(u, m)' => InHand(u, m)
      /\ \A m : ~InHand(t, m)'
  BY <1>1, <1>2, <1>3 DEF InHand
<1>9. \A m \in Messages : Left(m)' => Left(m)
  BY <1>1, <1>4, <1>8 DEF Left, InHand
<1>10. QueueOrder' /\ ChannelKept'
  BY <1>1, <1>6 DEF QueueOrder, ChannelKept, OrderInv, Sorted
<1>11. \A d, e : Older(d, e) => d.payload \in Messages /\ e.payload \in Messages
  BY OlderFacts DEF OrderInv
<1>12. LeftOrder'
  BY <1>6, <1>7, <1>9, <1>11 DEF LeftOrder, OrderInv, Sorted
<1>13. HandOrder'
  BY <1>4, <1>6, <1>8, <1>11 DEF HandOrder, OrderInv, Sorted
<1>14. ReceivedOrder'
  <2> SUFFICES ASSUME NEW d \in Delivery, NEW e \in Delivery, Older(d, e), NEW u \in Threads,
                      NEW i \in DOMAIN received'[u], NEW j \in DOMAIN received'[u],
                      received'[u][i].payload = d.payload, received'[u][j].payload = e.payload
               PROVE  i < j
    BY <1>6 DEF ReceivedOrder
  <2>1. d.payload # e.payload
    BY OlderFacts DEF OrderInv
  <2>2. PICK s : s = received[u]
    OBVIOUS
  <2>3. Len(s) \in Nat /\ DOMAIN s = 1..Len(s)
    BY <2>2, LenProperties DEF OrderInv, DaemonInv, DaemonTypes
  <2>4. CASE i \in DOMAIN received[u] /\ j \in DOMAIN received[u]
    BY <1>5, <2>3, <2>2, <2>4 DEF OrderInv, Sorted, ReceivedOrder
  <2>5. CASE i \in DOMAIN received[u] /\ j \notin DOMAIN received[u]
    BY <1>5, <2>2, <2>3, <2>5
  <2>6. CASE i \notin DOMAIN received[u] /\ j \in DOMAIN received[u]
    <3>1. u = t /\ InHand(t, d.payload)
      BY <1>5, <2>6 DEF InHand
    <3>2. Received(t, e.payload)
      <4>1. received[u][j] = received'[u][j]
        BY <1>5, <2>2, <2>3, <2>6, <3>1
      <4> QED BY <2>6, <3>1, <4>1 DEF Received
    <3> QED BY <3>1, <3>2 DEF OrderInv, Sorted, HandOrder
  <2>7. CASE i \notin DOMAIN received[u] /\ j \notin DOMAIN received[u]
    <3>1. i = j
      BY <1>5, <2>7
    <3> QED BY <2>1, <3>1
  <2> QED BY <2>4, <2>5, <2>6, <2>7
<1> QED BY <1>10, <1>12, <1>13, <1>14 DEF Sorted

LEMMA OrderStarts == DaemonInit => OrderInv
<1> SUFFICES ASSUME DaemonInit PROVE OrderInv
  OBVIOUS
<1>1. DaemonInv /\ DaemonTypes
  BY DaemonStarts DEF DaemonInv
<1>2. WaitersFindNothing
  BY DEF DaemonInit, Init, WaitersFindNothing
<1>3. SentApart /\ AskedLast /\ \A d, e : ~Older(d, e)
  BY Requests DEF DaemonInit, SentApart, AskedLast, Older
<1>4. ChannelKept
  BY DEF DaemonInit, Init, ChannelKept
<1> QED BY <1>1, <1>2, <1>3, <1>4
  DEF OrderInv, Sorted, QueueOrder, LeftOrder, HandOrder, ReceivedOrder

LEMMA OrderStep == OrderInv /\ [DaemonNext]_dvars => OrderInv'
<1> SUFFICES ASSUME OrderInv, [DaemonNext]_dvars PROVE OrderInv'
  OBVIOUS
<1>1. DaemonInv'
  BY DaemonStep DEF OrderInv
<1>2. WaitersFindNothing'
  <2>1. [Next]_vars
    BY DaemonCalls DEF OrderInv
  <2>2. CoreInv /\ CoreInv'
    BY <1>1 DEF OrderInv, DaemonInv
  <2> QED BY <2>1, <2>2, WaitersStep DEF OrderInv
<1>3. Sorted' /\ ChannelKept'
  <2>1. ASSUME NEW t \in Threads, BrokerStep(t) PROVE Sorted' /\ ChannelKept'
    <3>1. PushStep(t) \/ PopStep(t)
      BY <2>1 DEF BrokerStep, Step
    <3> QED BY <2>1, <3>1, PushSorts, PopSorts
  <2>2. ASSUME NEW t \in Pushers, NEW r \in PushRequest, AskPush(t, r) PROVE Sorted' /\ ChannelKept'
    BY <2>2, AskPushSorts
  <2>3. ASSUME NEW t \in Threads, Answer(t) PROVE Sorted' /\ ChannelKept'
    BY <2>3, AnswerSorts
  <2>4. ASSUME \/ \E t \in Threads : \/ ClientDies(t) \/ HandlerPush(t) \/ HandlerPop(t)
                                     \/ ContextDone(t) \/ HandlerWrite(t) \/ HandlerEOF(t)
               \/ \E t \in Poppers, r \in PopRequest : AskPop(t, r)
               \/ UNCHANGED dvars
        PROVE  Sorted' /\ ChannelKept'
    BY <2>4, OthersSort
  <2> QED BY <2>1, <2>2, <2>3, <2>4 DEF DaemonNext
<1>4. SentApart' /\ AskedLast'
  <2>1. ASSUME NEW t \in Pushers, NEW r \in PushRequest, AskPush(t, r) PROVE SentApart' /\ AskedLast'
    BY <2>1, AskPushSorts
  <2>2. ASSUME UNCHANGED sent,
               \A u \in Threads : asked'[u] = asked[u] \/ asked'[u] \notin PushRequest
        PROVE  SentApart' /\ AskedLast'
    BY <2>2 DEF OrderInv, SentApart, AskedLast
  <2>3. ASSUME NEW t \in Threads, Answer(t)
        PROVE  /\ UNCHANGED sent
               /\ \A u \in Threads : asked'[u] = asked[u] \/ asked'[u] \notin PushRequest
    BY <2>3, DaemonAssumption DEF Answer, OrderInv, DaemonInv, DaemonTypes
  <2>4. ASSUME NEW t \in Poppers, NEW r \in PopRequest, AskPop(t, r)
        PROVE  /\ UNCHANGED sent
               /\ \A u \in Threads : asked'[u] = asked[u] \/ asked'[u] \notin PushRequest
    BY <2>4 DEF AskPop, Ask, OrderInv, DaemonInv, DaemonTypes, PushRequest, PopRequest
  <2>5. ASSUME NEW t \in Threads,
               \/ ClientDies(t) \/ HandlerPush(t) \/ HandlerPop(t) \/ BrokerStep(t)
               \/ ContextDone(t) \/ HandlerWrite(t) \/ HandlerEOF(t)
        PROVE  UNCHANGED <<sent, asked>>
    BY <2>5 DEF ClientDies, HandlerPush, HandlerPop, BrokerStep, ContextDone, HandlerWrite, HandlerEOF,
                clients
  <2>6. CASE UNCHANGED dvars
    BY <2>2, <2>6 DEF dvars, clients
  <2> QED BY <2>1, <2>2, <2>3, <2>4, <2>5, <2>6 DEF DaemonNext
<1> QED BY <1>1, <1>2, <1>3, <1>4 DEF OrderInv

\* What a client gets of what another client pushed to one channel comes in the
\* order of the pushes, whether it was queued or handed over, and whatever the
\* pushes, pops, cancellations and deaths of the other clients in between.
THEOREM ProducersAreInOrder == DaemonSpec => []ProducerOrder
<1>1. OrderInv => ProducerOrder
  <2> SUFFICES ASSUME OrderInv, NEW t \in Threads, NEW u \in Threads,
                      NEW i \in DOMAIN received[t], NEW j \in DOMAIN received[t],
                      NEW k \in DOMAIN sent[u], NEW l \in DOMAIN sent[u],
                      received[t][i] = sent[u][k], received[t][j] = sent[u][l],
                      received[t][i].channel = received[t][j].channel, i < j
               PROVE  k < l
    BY DEF ProducerOrder
  <2>1. sent[u] \in Seq(Delivery) /\ received[t] \in Seq(Delivery)
    BY DEF OrderInv, DaemonInv, DaemonTypes
  <2>2. i \in Nat /\ j \in Nat /\ k \in Nat /\ l \in Nat
    BY <2>1, LenProperties
  <2>3. PICK d \in Delivery, e \in Delivery : d = sent[u][k] /\ e = sent[u][l]
    BY <2>1, <2>2, LenProperties
  <2>4. k # l
    BY <2>2 DEF OrderInv, DaemonInv, OneOwner, ReceivedOnce
  <2>5. ~(l < k)
    <3> SUFFICES ASSUME l < k PROVE FALSE
      OBVIOUS
    <3>1. Older(e, d)
      BY <2>3 DEF Older
    <3>2. j < i
      BY <2>3, <3>1 DEF OrderInv, Sorted, ReceivedOrder
    <3> QED BY <2>2, <3>2
  <2> QED BY <2>2, <2>4, <2>5
<1>2. DaemonSpec => []OrderInv
  BY OrderStarts, OrderStep, PTL DEF DaemonSpec
<1> QED BY <1>1, <1>2, PTL
=============================================================================
