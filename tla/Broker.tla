------------------------------- MODULE Broker -------------------------------
(***************************************************************************)
(* The in-memory broker of atomic-queue (broker.go).                       *)
(*                                                                         *)
(* Many goroutines call Push and Pop on one Broker.  Everything inside the *)
(* Broker struct is read and written under b.mu only, so each critical     *)
(* section is one action.  What happens outside the mutex is a step of its *)
(* own: the send on a waiter's reply channel, the onBlock callback, the    *)
(* selects on the drain signal, on the reply channel and on the context.   *)
(***************************************************************************)
EXTENDS Integers, Sequences, SequencesExt

CONSTANTS
  Pushers,         \* goroutines that call Push
  Poppers,         \* goroutines that call Pop (a connection may do both)
  Channels,        \* channel names a caller may pass
  ValidChannels,   \* the names that match channelPattern
  Messages,        \* payloads, each with an identity of its own
  Size,            \* Size[m] is len(payload)
  MaxBytes,        \* Broker.maxBytes, the largest payload
  MaxQueuedBytes,  \* Broker.maxQueuedBytes, the cap on all queues together
  PopLists,        \* channel lists that are passed to Pop
  Nil              \* absence of a delivery or of a waiter

Threads == Pushers \cup Poppers

Delivery == [channel : Channels, payload : Messages]

ASSUME BrokerAssumption ==
  /\ ValidChannels \subseteq Channels
  /\ Size \in [Messages -> Nat]
  /\ MaxBytes \in Nat
  /\ MaxQueuedBytes \in Nat
  /\ PopLists \subseteq Seq(Channels)
  /\ Nil \notin Threads
  /\ Nil \notin Delivery

VARIABLES
  queues,       \* [channel -> payloads], an absent key is an empty sequence
  waiters,      \* blocked Pops, oldest first; a Pop is named by its goroutine
  queuedBytes,
  drainSignal,  \* pushes whose sig is the channel now in b.drainSignal; every
                \* other captured sig has been closed
  pc,
  msg,          \* msg[t]: what the Push of t is to deliver
  channels,     \* channels[t]: the list of the Pop of t
  target,       \* target[t]: the waiter the Push of t has taken off the list
  reply,        \* reply[t]: buffer (capacity 1) of the waiter of t
  ctxDone,      \* ctxDone[t]: the context of the call of t is done
  result        \* result[t]: what the last call of t returned

shared == <<queues, waiters, queuedBytes, drainSignal>>
locals == <<pc, msg, channels, target, reply, ctxDone, result>>
vars == <<shared, locals>>

PushPC == {"push", "notify", "select", "send"}
PopPC == {"pop", "wait", "expired", "recv", "poll"}

Returned(err, val) == [err |-> err, val |-> val]

Init ==
  /\ queues = [c \in Channels |-> <<>>]
  /\ waiters = <<>>
  /\ queuedBytes = 0
  /\ drainSignal = {}
  /\ pc = [t \in Threads |-> "idle"]
  /\ msg = [t \in Threads |-> Nil]
  /\ channels = [t \in Threads |-> <<>>]
  /\ target = [t \in Threads |-> Nil]
  /\ reply = [t \in Threads |-> Nil]
  /\ ctxDone = [t \in Threads |-> FALSE]
  /\ result = [t \in Threads |-> Returned("none", Nil)]

Goto(t, label) == pc' = [pc EXCEPT ![t] = label]

\* The call of t returns; its locals and its context go out of scope.
Return(t, err, val) ==
  /\ Goto(t, "idle")
  /\ result' = [result EXCEPT ![t] = Returned(err, val)]
  /\ msg' = [msg EXCEPT ![t] = Nil]
  /\ channels' = [channels EXCEPT ![t] = <<>>]
  /\ target' = [target EXCEPT ![t] = Nil]
  /\ ctxDone' = [ctxDone EXCEPT ![t] = FALSE]

-----------------------------------------------------------------------------
(* Push and PushOwned                                                      *)

Queued(m) == \E c \in Channels : \E i \in DOMAIN queues[c] : queues[c][i] = m

Held(m) == \E t \in Threads : \/ msg[t] # Nil /\ msg[t].payload = m
                              \/ reply[t] # Nil /\ reply[t].payload = m

ValidPush(c, m) == c \in ValidChannels /\ Size[m] <= MaxBytes

\* A payload in flight is not pushed again, so that its copies can be told
\* apart: readRequest allocates a fresh buffer for every request.
PushCall(t, c, m) ==
  /\ pc[t] = "idle"
  /\ ValidPush(c, m)
  /\ ~Queued(m) /\ ~Held(m)
  /\ Goto(t, "push")
  /\ msg' = [msg EXCEPT ![t] = [channel |-> c, payload |-> m]]
  /\ result' = [result EXCEPT ![t] = Returned("none", Nil)]
  /\ UNCHANGED <<shared, channels, target, reply, ctxDone>>

PushInvalid(t, c, m) ==
  /\ pc[t] = "idle"
  /\ ~ValidPush(c, m)
  /\ Return(t, "invalid", Nil)
  /\ UNCHANGED <<shared, reply>>

\* Mutant: looks at the first channel of the list only.
waiterMatchesFirst(w, c) == channels[w] # <<>> /\ channels[w][1] = c

waiterMatches(w, c) == \E i \in DOMAIN channels[w] : channels[w][i] = c

\* Mutant: the youngest matching waiter is served first.
LastMatch(i, c) ==
  /\ waiterMatches(waiters[i], c)
  /\ \A j \in DOMAIN waiters : j > i => ~waiterMatches(waiters[j], c)

FirstMatch(i, c) ==
  /\ waiterMatches(waiters[i], c)
  /\ \A j \in 1..(i - 1) : ~waiterMatches(waiters[j], c)

NoMatch(c) == \A i \in DOMAIN waiters : ~waiterMatches(waiters[i], c)

\* Mutant: the message to be queued is left out of the comparison.
HasRoomBefore(m) == queuedBytes <= MaxQueuedBytes

HasRoom(m) == queuedBytes + Size[m] <= MaxQueuedBytes

\* Mutant: the last slot is cleared and the slice is not shortened.
removeWaiterKeepLen(i) == Append(RemoveAt(waiters, i), Nil)

removeWaiterAtLocked(i) == RemoveAt(waiters, i)

\* Under the mutex: the oldest matching waiter leaves the list.
PushHandoff(t) ==
  /\ pc[t] = "push"
  /\ \E i \in DOMAIN waiters :
       /\ FirstMatch(i, msg[t].channel)
       /\ target' = [target EXCEPT ![t] = waiters[i]]
       /\ waiters' = removeWaiterAtLocked(i)
  /\ Goto(t, "send")
  /\ UNCHANGED <<queues, queuedBytes, drainSignal, msg, channels, reply,
                 ctxDone, result>>

\* Mutant: the return after the send is missing, so the loop runs again.
PushSendNoReturn(t) ==
  /\ pc[t] = "send"
  /\ reply[target[t]] = Nil
  /\ reply' = [reply EXCEPT ![target[t]] = msg[t]]
  /\ target' = [target EXCEPT ![t] = Nil]
  /\ Goto(t, "push")
  /\ UNCHANGED <<shared, msg, channels, ctxDone, result>>

\* Mutant: a push that was cancelled meanwhile reports that after the send.
PushSendReportsCtx(t) ==
  /\ pc[t] = "send"
  /\ reply[target[t]] = Nil
  /\ reply' = [reply EXCEPT ![target[t]] = msg[t]]
  /\ Return(t, IF ctxDone[t] THEN "timeout" ELSE "nil", Nil)
  /\ UNCHANGED shared

\* After the mutex is released: w.reply <- delivery, and return.
PushSend(t) ==
  /\ pc[t] = "send"
  /\ reply[target[t]] = Nil
  /\ reply' = [reply EXCEPT ![target[t]] = msg[t]]
  /\ Return(t, "nil", Nil)
  /\ UNCHANGED shared

\* Mutant: the payload is put in front of the queue.
PushEnqueueFront(t) ==
  /\ pc[t] = "push"
  /\ NoMatch(msg[t].channel)
  /\ HasRoom(msg[t].payload)
  /\ queues' = [queues EXCEPT ![msg[t].channel] = <<msg[t].payload>> \o @]
  /\ queuedBytes' = queuedBytes + Size[msg[t].payload]
  /\ Return(t, "nil", Nil)
  /\ UNCHANGED <<waiters, drainSignal, reply>>

PushEnqueue(t) ==
  /\ pc[t] = "push"
  /\ NoMatch(msg[t].channel)
  /\ HasRoom(msg[t].payload)
  /\ queues' = [queues EXCEPT ![msg[t].channel] = Append(@, msg[t].payload)]
  /\ queuedBytes' = queuedBytes + Size[msg[t].payload]
  /\ Return(t, "nil", Nil)
  /\ UNCHANGED <<waiters, drainSignal, reply>>

\* Under the mutex: no waiter and no room, so the drain signal is captured.
PushBlock(t) ==
  /\ pc[t] = "push"
  /\ NoMatch(msg[t].channel)
  /\ ~HasRoom(msg[t].payload)
  /\ drainSignal' = drainSignal \cup {t}
  /\ Goto(t, "notify")
  /\ UNCHANGED <<queues, waiters, queuedBytes, msg, channels, target, reply,
                 ctxDone, result>>

\* Mutant: b.drainSignal is read after the unlock, in the select.
PushNotifyLateSignal(t) ==
  /\ pc[t] = "notify"
  /\ Goto(t, "select")
  /\ drainSignal' = drainSignal \cup {t}
  /\ UNCHANGED <<queues, waiters, queuedBytes, msg, channels, target, reply,
                 ctxDone, result>>

\* The onBlock callback runs outside the mutex, before the select.
PushNotify(t) ==
  /\ pc[t] = "notify"
  /\ Goto(t, "select")
  /\ UNCHANGED <<shared, msg, channels, target, reply, ctxDone, result>>

PushWake(t) ==
  /\ pc[t] = "select"
  /\ t \notin drainSignal
  /\ Goto(t, "push")
  /\ UNCHANGED <<shared, msg, channels, target, reply, ctxDone, result>>

PushCancelled(t) ==
  /\ pc[t] = "select"
  /\ ctxDone[t]
  /\ drainSignal' = drainSignal \ {t}
  /\ Return(t, "timeout", Nil)
  /\ UNCHANGED <<queues, waiters, queuedBytes, reply>>

-----------------------------------------------------------------------------
(* Pop                                                                     *)

ValidPop(cs) == cs # <<>> /\ \A i \in DOMAIN cs : cs[i] \in ValidChannels

PopCall(t, cs) ==
  /\ pc[t] = "idle"
  /\ ValidPop(cs)
  /\ Goto(t, "pop")
  /\ channels' = [channels EXCEPT ![t] = cs]
  /\ result' = [result EXCEPT ![t] = Returned("none", Nil)]
  /\ UNCHANGED <<shared, msg, target, reply, ctxDone>>

PopInvalid(t, cs) ==
  /\ pc[t] = "idle"
  /\ ~ValidPop(cs)
  /\ Return(t, "invalid", Nil)
  /\ UNCHANGED <<shared, reply>>

\* Mutant: any channel of the list that has data, whatever its place.
AnyQueued(t, i) == queues[channels[t][i]] # <<>>

\* channels[t][i] is the first channel of the list that has data.
FirstQueued(t, i) ==
  /\ queues[channels[t][i]] # <<>>
  /\ \A j \in 1..(i - 1) : queues[channels[t][j]] = <<>>

NoneQueued(t) == \A i \in DOMAIN channels[t] : queues[channels[t][i]] = <<>>

\* Mutant: the drain signal is never closed.
KeepDrainSignal == UNCHANGED drainSignal

\* close(b.drainSignal) and a fresh channel in its place.
CloseDrainSignal == drainSignal' = {}

\* Mutant: the bytes of a popped message stay accounted for when it was the
\* last one of its queue.
PopQueuedLastCounts(t) ==
  /\ pc[t] = "pop"
  /\ \E i \in DOMAIN channels[t] :
       LET c == channels[t][i]
           m == Head(queues[c])
       IN  /\ FirstQueued(t, i)
           /\ queues' = [queues EXCEPT ![c] = Tail(@)]
           /\ queuedBytes' = queuedBytes - IF Len(queues[c]) = 1 THEN 0 ELSE Size[m]
           /\ Return(t, "nil", [channel |-> c, payload |-> m])
  /\ CloseDrainSignal
  /\ UNCHANGED <<waiters, reply>>

\* popQueuedLocked
PopQueued(t) ==
  /\ pc[t] = "pop"
  /\ \E i \in DOMAIN channels[t] :
       LET c == channels[t][i]
           m == Head(queues[c])
       IN  /\ FirstQueued(t, i)
           /\ queues' = [queues EXCEPT ![c] = Tail(@)]
           /\ queuedBytes' = queuedBytes - Size[m]
           /\ Return(t, "nil", [channel |-> c, payload |-> m])
  /\ CloseDrainSignal
  /\ UNCHANGED <<waiters, reply>>

PopExpired(t) ==
  /\ pc[t] = "pop"
  /\ NoneQueued(t)
  /\ ctxDone[t]
  /\ Return(t, "timeout", Nil)
  /\ UNCHANGED <<shared, reply>>

PopWait(t) ==
  /\ pc[t] = "pop"
  /\ NoneQueued(t)
  /\ ~ctxDone[t]
  /\ waiters' = Append(waiters, t)
  /\ Goto(t, "wait")
  /\ UNCHANGED <<queues, queuedBytes, drainSignal, msg, channels, target, reply,
                 ctxDone, result>>

\* Mutant: a Pop that finds its waiter taken off the list does not receive.
PopReceiveInSelect(t) ==
  /\ pc[t] = "wait"
  /\ reply[t] # Nil
  /\ reply' = [reply EXCEPT ![t] = Nil]
  /\ Return(t, "nil", reply[t])
  /\ UNCHANGED shared

\* A receive from w.reply: in the first select, or after the waiter was found
\* to have been taken off the list by a Push.
PopReceive(t) ==
  /\ pc[t] \in {"wait", "recv"}
  /\ reply[t] # Nil
  /\ reply' = [reply EXCEPT ![t] = Nil]
  /\ Return(t, "nil", reply[t])
  /\ UNCHANGED shared

\* The select takes the ctx.Done case; the mutex is not held yet.
PopDone(t) ==
  /\ pc[t] = "wait"
  /\ ctxDone[t]
  /\ Goto(t, "expired")
  /\ UNCHANGED <<shared, msg, channels, target, reply, ctxDone, result>>

\* Mutant: the result of removeWaiterLocked is ignored and Pop polls.
PopRemoveWaiterPoll(t) ==
  /\ pc[t] = "expired"
  /\ waiters' = SelectSeq(waiters, LAMBDA w : w # t)
  /\ Goto(t, "poll")
  /\ UNCHANGED <<queues, queuedBytes, drainSignal, msg, channels, target, reply,
                 ctxDone, result>>

\* removeWaiterLocked, under the mutex.
PopRemoveWaiter(t) ==
  /\ pc[t] = "expired"
  /\ \/ \E i \in DOMAIN waiters :
          /\ waiters[i] = t
          /\ waiters' = removeWaiterAtLocked(i)
          /\ Goto(t, "poll")
     \/ /\ \A i \in DOMAIN waiters : waiters[i] # t
        /\ Goto(t, "recv")
        /\ UNCHANGED waiters
  /\ UNCHANGED <<queues, queuedBytes, drainSignal, msg, channels, target, reply,
                 ctxDone, result>>

\* The non-blocking select after the waiter was removed.
PopPoll(t) ==
  /\ pc[t] = "poll"
  /\ Return(t, IF reply[t] = Nil THEN "timeout" ELSE "nil", reply[t])
  /\ reply' = [reply EXCEPT ![t] = Nil]
  /\ UNCHANGED shared

-----------------------------------------------------------------------------
\* The deadline of the call of t passes, or its context is cancelled.
CtxDone(t) ==
  /\ pc[t] # "idle"
  /\ ~ctxDone[t]
  /\ ctxDone' = [ctxDone EXCEPT ![t] = TRUE]
  /\ UNCHANGED <<shared, pc, msg, channels, target, reply, result>>

PushStep(t) ==
  \/ PushHandoff(t) \/ PushSend(t) \/ PushEnqueue(t) \/ PushBlock(t)
  \/ PushNotify(t) \/ PushWake(t) \/ PushCancelled(t)

PopStep(t) ==
  \/ PopQueued(t) \/ PopExpired(t) \/ PopWait(t) \/ PopReceive(t)
  \/ PopDone(t) \/ PopRemoveWaiter(t) \/ PopPoll(t)

Step(t) == PushStep(t) \/ PopStep(t)

Next ==
  \/ \E t \in Pushers, c \in Channels, m \in Messages :
       PushCall(t, c, m) \/ PushInvalid(t, c, m)
  \/ \E t \in Poppers, cs \in PopLists : PopCall(t, cs) \/ PopInvalid(t, cs)
  \/ \E t \in Threads : Step(t) \/ CtxDone(t)

Spec == Init /\ [][Next]_vars

\* A goroutine that can run is eventually run, and sync.Mutex hands itself to
\* a waiting goroutine after a bounded time.  Nothing obliges a caller to call
\* or a context to expire.
FairSpec == Spec /\ \A t \in Threads : WF_vars(Step(t))

-----------------------------------------------------------------------------
(* Safety                                                                  *)

\* The variables keep their types; in particular b.waiters holds live waiters
\* only, never the nil that removeWaiterAtLocked writes behind the last one.
TypeOK ==
  /\ queues \in [Channels -> Seq(Messages)]
  /\ waiters \in Seq(Threads)
  /\ queuedBytes \in Int
  /\ drainSignal \in SUBSET Threads
  /\ pc \in [Threads -> {"idle"} \cup PushPC \cup PopPC]
  /\ msg \in [Threads -> Delivery \cup {Nil}]
  /\ channels \in [Threads -> Seq(Channels)]
  /\ target \in [Threads -> Threads \cup {Nil}]
  /\ reply \in [Threads -> Delivery \cup {Nil}]
  /\ ctxDone \in [Threads -> BOOLEAN]
  /\ result \in [Threads -> [err : {"none", "nil", "timeout", "invalid"},
                              val : Delivery \cup {Nil}]]

\* A Pop is blocked in b.waiters only while every channel of its list is empty:
\* Push looks for a waiter and Pop looks at the queues under the same mutex, and
\* a Push that was blocked looks again when it wakes up.
WaitersFindNothing ==
  \A i \in DOMAIN waiters : NoneQueued(waiters[i])

\* A Push that sleeps on the current drain signal has no room: whoever makes
\* room closes the very channel that the Push captured before it unlocked.
NoLostWakeup ==
  \A t \in drainSignal : msg[t] # Nil /\ ~HasRoom(msg[t].payload)

Sending(t, w) == pc[t] = "send" /\ target[t] = w

Expecting(w) == pc[w] \in {"wait", "expired", "recv"}

Listed(w) == \E i \in DOMAIN waiters : waiters[i] = w

NoRepetition == \A i, j \in DOMAIN waiters : waiters[i] = waiters[j] => i = j

\* A Pop is promised at most one message.  While it is in b.waiters nobody has
\* one for it; once a Push took it off, exactly one is on its way or in its
\* reply buffer, and the Pop does not return without it.  So the send on the
\* reply channel never blocks, and the unconditional receive after a lost race
\* with the timeout always gets its message.
HandoffExact ==
  /\ NoRepetition
  /\ \A t, u, w \in Threads : Sending(t, w) /\ Sending(u, w) => t = u
  /\ \A t, w \in Threads : Sending(t, w) =>
       Expecting(w) /\ ~Listed(w) /\ reply[w] = Nil
  /\ \A w \in Threads : reply[w] # Nil => Expecting(w) /\ ~Listed(w)
  /\ \A w \in Threads : Expecting(w) =>
       Listed(w) \/ reply[w] # Nil \/ \E t \in Threads : Sending(t, w)

\* A payload is in one place: with one Push that has not committed it, in one
\* position of one queue, or in one reply buffer.
OnePlace ==
  /\ \A c, d \in Channels : \A i \in DOMAIN queues[c], j \in DOMAIN queues[d] :
       queues[c][i] = queues[d][j] => c = d /\ i = j
  /\ \A t \in Threads : msg[t] # Nil => ~Queued(msg[t].payload)
  /\ \A t \in Threads : reply[t] # Nil => ~Queued(reply[t].payload)
  /\ \A t, u \in Threads : msg[t] # Nil /\ msg[u] # Nil =>
       (msg[t].payload = msg[u].payload => t = u)
  /\ \A t, u \in Threads : reply[t] # Nil /\ reply[u] # Nil =>
       (reply[t].payload = reply[u].payload => t = u)
  /\ \A t, u \in Threads : msg[t] # Nil /\ reply[u] # Nil =>
       msg[t].payload # reply[u].payload

\* The daemon never has more than the cap queued, whatever the pushes that wake
\* up together do.
CapRespected == queuedBytes <= MaxQueuedBytes

\* The bytes in the queues, each named by its channel, the position of its
\* payload in the queue and its own position in the payload.
BytesInQueues ==
  UNION {UNION {{<<c, i, b>> : b \in 1..Size[queues[c][i]]} : i \in DOMAIN queues[c]} :
           c \in Channels}

\* queuedBytes is the number of bytes in the queues: direct handoffs are not
\* counted and nothing drifts over any sequence of pushes and pops.
QueuedBytesExact == queuedBytes = Cardinality(BytesInQueues)

-----------------------------------------------------------------------------
(* Liveness                                                                *)

Blocked(t) == pc[t] \in {"notify", "select"}

\* A Push never stays blocked while there is room for its message.
RoomUnblocks ==
  \A t \in Pushers :
    (Blocked(t) /\ HasRoom(msg[t].payload)) ~>
      ~(Blocked(t) /\ HasRoom(msg[t].payload))

\* A Pop whose context is done, or that has been promised a message, returns.
PopReturns ==
  \A t \in Poppers :
    (pc[t] \in PopPC /\ (ctxDone[t] \/ (Expecting(t) /\ ~Listed(t)))) ~>
      (pc[t] = "idle")

HandoffOn(c) == \E t \in Pushers : PushHandoff(t) /\ msg[t].channel = c

\* Waiters are served oldest first, so no waiting Pop is passed over forever on
\* a channel on which messages keep being handed off.
NoWaiterStarves ==
  \A t \in Poppers, c \in ValidChannels :
    ([]<><<HandoffOn(c)>>_vars) => []<>~(Listed(t) /\ waiterMatches(t, c))

\* A Push that is blocked by the cap and a Pop that waits for its very channel
\* do not stay like that: a direct handoff is not subject to the cap.
HandoffIgnoresCap ==
  \A t \in Pushers, w \in Poppers :
    LET Stuck == Blocked(t) /\ Listed(w) /\ waiterMatches(w, msg[t].channel)
    IN  Stuck ~> ~Stuck

-----------------------------------------------------------------------------
(* Refinement: the broker is a linearizable ChannelQueue.                  *)

\* The call of t has taken effect although it has not returned yet.
Linearized(t) ==
  \/ pc[t] \in {"send", "recv", "poll"}
  \/ pc[t] \in {"wait", "expired"} /\ ~Listed(t)

\* The message that a Push has taken waiter w off the list for.
Promised(w) ==
  IF reply[w] # Nil THEN reply[w] ELSE msg[CHOOSE t \in Threads : Sending(t, w)]

Effect(t) ==
  CASE ~Linearized(t) -> result[t]
    [] pc[t] = "send" -> Returned("nil", Nil)
    [] pc[t] = "poll" -> Returned("timeout", Nil)
    [] OTHER -> Returned("nil", Promised(t))

CQ == INSTANCE ChannelQueue WITH
  msg <- [t \in Threads |-> IF Linearized(t) THEN Nil ELSE msg[t]],
  channels <- [t \in Threads |-> IF Linearized(t) THEN <<>> ELSE channels[t]],
  ctxDone <- [t \in Threads |-> ctxDone[t] /\ ~Linearized(t)],
  result <- [t \in Threads |-> Effect(t)]

\* Every behaviour of the broker is one of the atomic per-channel FIFO queues:
\* each call takes effect at one instant between its call and its return, a
\* message goes to exactly one Pop, in FIFO order on its channel, and a Pop
\* times out only at an instant when nothing was queued for it.
Linearizable == CQ!Spec
=============================================================================
