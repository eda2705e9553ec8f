---------------------------- MODULE ChannelQueue ----------------------------
(***************************************************************************)
(* What the broker promises its callers, as an atomic object: a FIFO queue *)
(* per channel, on which every Push and every Pop takes effect in a single *)
(* step between its call and its return.  There is no mutex, no list of    *)
(* waiters and no signal here; Broker is shown to implement this module.   *)
(*                                                                         *)
(* The state of a call that is still to take effect is in msg (a Push) or  *)
(* in channels (a Pop).                                                    *)
(***************************************************************************)
EXTENDS Integers, Sequences

CONSTANTS Threads, Channels, Messages, PopLists, Nil

VARIABLES queues, msg, channels, ctxDone, result

vars == <<queues, msg, channels, ctxDone, result>>

Delivery == [channel : Channels, payload : Messages]

Returned(err, val) == [err |-> err, val |-> val]

Init ==
  /\ queues = [c \in Channels |-> <<>>]
  /\ msg = [t \in Threads |-> Nil]
  /\ channels = [t \in Threads |-> <<>>]
  /\ ctxDone = [t \in Threads |-> FALSE]
  /\ result = [t \in Threads |-> Returned("none", Nil)]

Idle(t) == msg[t] = Nil /\ channels[t] = <<>>

Pushing(t) == msg[t] # Nil

Popping(t) == channels[t] # <<>>

\* The calls in T take effect and have the results r.
Complete(T, r) ==
  /\ msg' = [t \in Threads |-> IF t \in T THEN Nil ELSE msg[t]]
  /\ channels' = [t \in Threads |-> IF t \in T THEN <<>> ELSE channels[t]]
  /\ ctxDone' = [t \in Threads |-> IF t \in T THEN FALSE ELSE ctxDone[t]]
  /\ result' = [t \in Threads |-> IF t \in T THEN r[t] ELSE result[t]]

CallPush(t, d) ==
  /\ Idle(t)
  /\ msg' = [msg EXCEPT ![t] = d]
  /\ result' = [result EXCEPT ![t] = Returned("none", Nil)]
  /\ UNCHANGED <<queues, channels, ctxDone>>

CallPop(t, cs) ==
  /\ Idle(t)
  /\ cs # <<>>
  /\ channels' = [channels EXCEPT ![t] = cs]
  /\ result' = [result EXCEPT ![t] = Returned("none", Nil)]
  /\ UNCHANGED <<queues, msg, ctxDone>>

Reject(t) ==
  /\ Idle(t)
  /\ Complete({t}, [u \in {t} |-> Returned("invalid", Nil)])
  /\ UNCHANGED queues

Expire(t) ==
  /\ ~Idle(t)
  /\ ctxDone' = [ctxDone EXCEPT ![t] = TRUE]
  /\ UNCHANGED <<queues, msg, channels, result>>

Enqueue(t) ==
  /\ Pushing(t)
  /\ queues' = [queues EXCEPT ![msg[t].channel] = Append(@, msg[t].payload)]
  /\ Complete({t}, [u \in {t} |-> Returned("nil", Nil)])

\* A cancelled Push leaves nothing behind.
CancelPush(t) ==
  /\ Pushing(t)
  /\ ctxDone[t]
  /\ Complete({t}, [u \in {t} |-> Returned("timeout", Nil)])
  /\ UNCHANGED queues

NothingFor(t) == \A i \in DOMAIN channels[t] : queues[channels[t][i]] = <<>>

\* A Pop takes the oldest message of the first channel in its list with one.
Dequeue(t) ==
  \E i \in DOMAIN channels[t] :
    LET c == channels[t][i]
    IN  /\ queues[c] # <<>>
        /\ \A j \in 1..(i - 1) : queues[channels[t][j]] = <<>>
        /\ queues' = [queues EXCEPT ![c] = Tail(@)]
        /\ Complete({t}, [u \in {t} |->
             Returned("nil", [channel |-> c, payload |-> Head(queues[c])])])

\* A Push immediately followed by the Pop that takes its message.  It overtakes
\* nothing, because nothing is queued on any channel of the Pop.
Exchange(t, u) ==
  /\ Pushing(t)
  /\ NothingFor(u)
  /\ \E i \in DOMAIN channels[u] : channels[u][i] = msg[t].channel
  /\ Complete({t, u}, [v \in {t, u} |->
       Returned("nil", IF v = u THEN msg[t] ELSE Nil)])
  /\ UNCHANGED queues

\* A Pop gives up only when its context is done and nothing was there for it.
TimeoutPop(t) ==
  /\ Popping(t)
  /\ ctxDone[t]
  /\ NothingFor(t)
  /\ Complete({t}, [u \in {t} |-> Returned("timeout", Nil)])
  /\ UNCHANGED queues

Next ==
  \E t \in Threads :
    \/ Reject(t) \/ Expire(t)
    \/ Enqueue(t) \/ CancelPush(t)
    \/ Dequeue(t) \/ TimeoutPop(t)
    \/ \E u \in Threads : Exchange(t, u)
    \/ \E cs \in PopLists : CallPop(t, cs)
    \/ \E d \in Delivery : CallPush(t, d)

Spec == Init /\ [][Next]_vars
=============================================================================
