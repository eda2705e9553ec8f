---------------------------- MODULE BrokerProofs ----------------------------
(***************************************************************************)
(* Machine-checked proofs about Broker, for any number of goroutines,      *)
(* channels and messages and for any caps; the last part proves that       *)
(* Broker implements ChannelQueue.                                         *)
(***************************************************************************)
EXTENDS Broker, FiniteSetTheorems, SequenceTheorems, TLAPS

-----------------------------------------------------------------------------
(* The list of waiters as a sequence                                       *)

\* What removing position i leaves, as removeWaiterAtLocked's copy does: the
\* elements before i stay and the ones behind it move up by one.
LEMMA RemoveAtFacts ==
  ASSUME NEW S, NEW s \in Seq(S), NEW i \in 1..Len(s)
  PROVE  /\ RemoveAt(s, i) \in Seq(S)
         /\ Len(RemoveAt(s, i)) = Len(s) - 1
         /\ \A j \in 1..(Len(s) - 1) :
              RemoveAt(s, i)[j] = IF j < i THEN s[j] ELSE s[j + 1]
<1> DEFINE l == SubSeq(s, 1, i - 1)
           r == SubSeq(s, i + 1, Len(s))
<1>0. Len(s) \in Nat /\ \A j \in 1..Len(s) : s[j] \in S
  BY LenProperties, ElementOfSeq
<1>1. /\ l \in Seq(S) /\ Len(l) = i - 1
      /\ \A j \in 1..(i - 1) : l[j] = s[j]
  <2>1. \A j \in 1..(i - 1) : s[j] \in S
    BY <1>0
  <2>2. /\ l \in Seq(S)
        /\ Len(l) = IF 1 <= i - 1 THEN (i - 1) - 1 + 1 ELSE 0
        /\ \A j \in 1..((i - 1) - 1 + 1) : l[j] = s[1 + j - 1]
    BY <2>1, <1>0, SubSeqProperties
  <2> QED BY <2>2, <1>0
<1>2. /\ r \in Seq(S) /\ Len(r) = Len(s) - i
      /\ \A j \in 1..(Len(s) - i) : r[j] = s[i + j]
  <2>1. \A j \in (i + 1)..Len(s) : s[j] \in S
    BY <1>0
  <2>2. /\ r \in Seq(S)
        /\ Len(r) = IF i + 1 <= Len(s) THEN Len(s) - (i + 1) + 1 ELSE 0
        /\ \A j \in 1..(Len(s) - (i + 1) + 1) : r[j] = s[(i + 1) + j - 1]
    BY <2>1, <1>0, SubSeqProperties
  <2> QED BY <2>2, <1>0
<1>3. RemoveAt(s, i) = l \o r
  BY DEF RemoveAt
<1>4. /\ l \o r \in Seq(S)
      /\ Len(l \o r) = Len(l) + Len(r)
      /\ \A j \in 1..(Len(l) + Len(r)) :
           (l \o r)[j] = IF j <= Len(l) THEN l[j] ELSE r[j - Len(l)]
  BY <1>1, <1>2, ConcatProperties
<1> HIDE DEF l, r
<1> QED BY <1>0, <1>1, <1>2, <1>3, <1>4

\* Removing position i of a list without repetitions removes s[i] and nothing
\* else, and leaves no repetition.
LEMMA RemoveAtElements ==
  ASSUME NEW S, NEW s \in Seq(S), NEW i \in DOMAIN s,
         \A j, k \in DOMAIN s : s[j] = s[k] => j = k
  PROVE  LET r == RemoveAt(s, i) IN
         /\ r \in Seq(S)
         /\ \A j, k \in DOMAIN r : r[j] = r[k] => j = k
         /\ \A x : (\E j \in DOMAIN r : r[j] = x) <=>
                   (x # s[i] /\ \E j \in DOMAIN s : s[j] = x)
<1> DEFINE r == RemoveAt(s, i)
<1>0. Len(s) \in Nat /\ DOMAIN s = 1..Len(s)
  BY LenProperties
<1>1. /\ r \in Seq(S) /\ Len(r) = Len(s) - 1
      /\ \A j \in 1..(Len(s) - 1) : r[j] = IF j < i THEN s[j] ELSE s[j + 1]
  <2>1. i \in 1..Len(s)
    BY <1>0
  <2> HIDE <1>0
  <2> QED BY <2>1, RemoveAtFacts
<1>2. DOMAIN r = 1..(Len(s) - 1)
  BY <1>1, LenProperties
<1> HIDE DEF r
<1>3. ASSUME NEW j \in DOMAIN r, NEW k \in DOMAIN r, r[j] = r[k]
      PROVE  j = k
  <2> DEFINE up(n) == IF n < i THEN n ELSE n + 1
  <2>1. \A n \in DOMAIN r : up(n) \in DOMAIN s /\ r[n] = s[up(n)]
    BY <1>0, <1>1, <1>2
  <2>2. up(j) = up(k)
    BY <2>1, <1>3
  <2> QED BY <2>2, <1>0, <1>2
<1>4. ASSUME NEW j \in DOMAIN r
      PROVE  r[j] # s[i] /\ \E k \in DOMAIN s : s[k] = r[j]
  <2>1. CASE j < i
    <3>1. j \in DOMAIN s /\ r[j] = s[j]
      BY <1>0, <1>1, <1>2, <2>1
    <3> QED BY <3>1, <2>1, <1>0
  <2>2. CASE ~(j < i)
    <3>1. j + 1 \in DOMAIN s /\ r[j] = s[j + 1] /\ j + 1 # i
      BY <1>0, <1>1, <1>2, <2>2
    <3> QED BY <3>1
  <2> QED BY <2>1, <2>2
<1>5. ASSUME NEW k \in DOMAIN s, s[k] # s[i]
      PROVE  \E j \in DOMAIN r : r[j] = s[k]
  <2>1. CASE k < i
    <3>1. k \in DOMAIN r /\ r[k] = s[k]
      BY <1>0, <1>1, <1>2, <2>1
    <3> QED BY <3>1
  <2>2. CASE ~(k < i)
    <3>1. k # i
      BY <1>5
    <3>2. k - 1 \in DOMAIN r /\ r[k - 1] = s[k]
      BY <1>0, <1>1, <1>2, <2>2, <3>1
    <3> QED BY <3>2
  <2> QED BY <2>1, <2>2
<1>6. \A x : (\E j \in DOMAIN r : r[j] = x) <=>
             (x # s[i] /\ \E j \in DOMAIN s : s[j] = x)
  BY <1>4, <1>5
<1>7. /\ r \in Seq(S)
      /\ \A j, k \in DOMAIN r : r[j] = r[k] => j = k
      /\ \A x : (\E j \in DOMAIN r : r[j] = x) <=>
                (x # s[i] /\ \E j \in DOMAIN s : s[j] = x)
  BY <1>1, <1>3, <1>6
<1> QED BY <1>7 DEF r

\* The same of a new element at the end.
LEMMA AppendElements ==
  ASSUME NEW S, NEW s \in Seq(S), NEW e \in S
  PROVE  LET r == Append(s, e) IN
         /\ r \in Seq(S)
         /\ DOMAIN r = 1..(Len(s) + 1)
         /\ \A j \in DOMAIN s : r[j] = s[j]
         /\ r[Len(s) + 1] = e
         /\ \A x : (\E j \in DOMAIN r : r[j] = x) <=>
                   (x = e \/ \E j \in DOMAIN s : s[j] = x)
<1> DEFINE r == Append(s, e)
<1>0. Len(s) \in Nat /\ DOMAIN s = 1..Len(s)
  BY LenProperties
<1>1. /\ r \in Seq(S) /\ Len(r) = Len(s) + 1
      /\ \A j \in 1..Len(s) : r[j] = s[j]
      /\ r[Len(s) + 1] = e
  BY <1>0
<1>2. DOMAIN r = 1..(Len(s) + 1)
  BY <1>1, LenProperties
<1> HIDE DEF r
<1>3. \A j \in DOMAIN r : r[j] = e \/ \E k \in DOMAIN s : s[k] = r[j]
  BY <1>0, <1>1, <1>2
<1>4. Len(s) + 1 \in DOMAIN r /\ \A k \in DOMAIN s : k \in DOMAIN r
  BY <1>0, <1>2
<1>5. \A x : (\E j \in DOMAIN r : r[j] = x) <=>
             (x = e \/ \E j \in DOMAIN s : s[j] = x)
  BY <1>0, <1>1, <1>3, <1>4
<1>6. /\ r \in Seq(S) /\ DOMAIN r = 1..(Len(s) + 1)
      /\ \A j \in DOMAIN s : r[j] = s[j]
      /\ r[Len(s) + 1] = e
      /\ \A x : (\E j \in DOMAIN r : r[j] = x) <=>
                (x = e \/ \E j \in DOMAIN s : s[j] = x)
  BY <1>0, <1>1, <1>2, <1>5
<1> QED BY <1>6 DEF r

-----------------------------------------------------------------------------
(* Types and control                                                       *)

\* Where a goroutine is in the code says which of its locals are in use, who
\* may be in b.waiters and who may have captured the current drain signal.
ControlOK ==
  \A t \in Threads :
    /\ pc[t] \in PushPC <=> msg[t] # Nil
    /\ pc[t] \in PopPC <=> channels[t] # <<>>
    /\ pc[t] = "send" <=> target[t] # Nil
    /\ t \in drainSignal => pc[t] \in {"notify", "select"}
    /\ Listed(t) => pc[t] \in {"wait", "expired"}

\* The inductive invariant.  HandoffExact is part of it: without it a Pop that
\* receives could return while it is still in b.waiters.
CoreInv == TypeOK /\ ControlOK /\ HandoffExact

LEMMA InitCore == Init => CoreInv
<1> SUFFICES ASSUME Init PROVE CoreInv
  OBVIOUS
<1> USE BrokerAssumption
<1>1. TypeOK
  BY EmptySeq DEF Init, TypeOK, Returned, PushPC, PopPC
<1>2. ControlOK /\ HandoffExact
  BY DEF Init, ControlOK, HandoffExact, NoRepetition, Listed, Sending, Expecting,
         PushPC, PopPC
<1> QED BY <1>1, <1>2 DEF CoreInv

\* What a call returns has the type of result, and the call is over.
LEMMA ReturnTypes ==
  ASSUME CoreInv, NEW t \in Threads,
         NEW err \in {"none", "nil", "timeout", "invalid"},
         NEW val \in Delivery \cup {Nil},
         Return(t, err, val)
  PROVE  /\ pc' \in [Threads -> {"idle"} \cup PushPC \cup PopPC]
         /\ msg' \in [Threads -> Delivery \cup {Nil}]
         /\ channels' \in [Threads -> Seq(Channels)]
         /\ target' \in [Threads -> Threads \cup {Nil}]
         /\ ctxDone' \in [Threads -> BOOLEAN]
         /\ result' \in [Threads -> [err : {"none", "nil", "timeout", "invalid"},
                                     val : Delivery \cup {Nil}]]
<1>1. <<>> \in Seq(Channels)
  BY EmptySeq
<1>2. Returned(err, val) \in [err : {"none", "nil", "timeout", "invalid"},
                               val : Delivery \cup {Nil}]
  BY DEF Returned
<1> QED BY <1>1, <1>2 DEF CoreInv, TypeOK, Return, Goto

\* The waiters after a removal: w is gone and nobody else.
LEMMA RemovedWaiter ==
  ASSUME CoreInv, NEW i \in DOMAIN waiters,
         waiters' = removeWaiterAtLocked(i)
  PROVE  /\ waiters' \in Seq(Threads)
         /\ NoRepetition'
         /\ \A x : Listed(x)' <=> (Listed(x) /\ x # waiters[i])
<1>1. waiters \in Seq(Threads) /\ \A j, k \in DOMAIN waiters : waiters[j] = waiters[k] => j = k
  BY DEF CoreInv, TypeOK, HandoffExact, NoRepetition
<1>2. LET r == RemoveAt(waiters, i) IN
      /\ r \in Seq(Threads)
      /\ \A j, k \in DOMAIN r : r[j] = r[k] => j = k
      /\ \A x : (\E j \in DOMAIN r : r[j] = x) <=>
                 (x # waiters[i] /\ \E j \in DOMAIN waiters : waiters[j] = x)
  BY <1>1, RemoveAtElements
<1> QED BY <1>2 DEF Listed, NoRepetition, removeWaiterAtLocked

\* The waiters after a new one was appended.
LEMMA AppendedWaiter ==
  ASSUME CoreInv, NEW t \in Threads, ~Listed(t), waiters' = Append(waiters, t)
  PROVE  /\ waiters' \in Seq(Threads)
         /\ NoRepetition'
         /\ \A x : Listed(x)' <=> (Listed(x) \/ x = t)
<1> DEFINE r == Append(waiters, t)
<1>0. waiters \in Seq(Threads) /\ Len(waiters) \in Nat
      /\ DOMAIN waiters = 1..Len(waiters)
  BY LenProperties DEF CoreInv, TypeOK
<1>1. /\ r \in Seq(Threads)
      /\ DOMAIN r = 1..(Len(waiters) + 1)
      /\ \A j \in DOMAIN waiters : r[j] = waiters[j]
      /\ r[Len(waiters) + 1] = t
      /\ \A x : (\E j \in DOMAIN r : r[j] = x) <=>
                (x = t \/ \E j \in DOMAIN waiters : waiters[j] = x)
  BY <1>0, AppendElements
<1> HIDE DEF r
<1>2. ASSUME NEW j \in DOMAIN r, NEW k \in DOMAIN r, r[j] = r[k] PROVE j = k
  <2>1. \A n \in DOMAIN r : n = Len(waiters) + 1 \/ n \in DOMAIN waiters
    BY <1>0, <1>1
  <2>2. \A n \in DOMAIN waiters : waiters[n] # t
    BY DEF Listed
  <2>3. \A m, n \in DOMAIN waiters : waiters[m] = waiters[n] => m = n
    BY DEF CoreInv, HandoffExact, NoRepetition
  <2> QED BY <1>1, <1>2, <2>1, <2>2, <2>3
<1>3. waiters' = r
  BY DEF r
<1> QED BY <1>1, <1>2, <1>3 DEF Listed, NoRepetition

LEMMA ReturnControl ==
  ASSUME CoreInv, NEW t \in Threads, NEW err, NEW val, Return(t, err, val),
         drainSignal' \subseteq drainSignal \ {t},
         \A x : Listed(x)' => Listed(x) /\ x # t
  PROVE  ControlOK'
<1> SUFFICES ASSUME NEW u \in Threads
             PROVE  /\ pc'[u] \in PushPC <=> msg'[u] # Nil
                    /\ pc'[u] \in PopPC <=> channels'[u] # <<>>
                    /\ pc'[u] = "send" <=> target'[u] # Nil
                    /\ u \in drainSignal' => pc'[u] \in {"notify", "select"}
                    /\ Listed(u)' => pc'[u] \in {"wait", "expired"}
  BY DEF ControlOK
<1>1. CASE u = t
  BY <1>1 DEF CoreInv, TypeOK, Return, Goto, PushPC, PopPC
<1>2. CASE u # t
  BY <1>2 DEF CoreInv, TypeOK, ControlOK, Return, Goto
<1> QED BY <1>1, <1>2

\* The message of a Push and the list of a Pop that are under way.
LEMMA Locals ==
  ASSUME CoreInv, NEW t \in Threads
  PROVE  /\ pc[t] \in PushPC => /\ msg[t] \in Delivery
                                /\ msg[t].channel \in Channels
                                /\ msg[t].payload \in Messages
                                /\ Size[msg[t].payload] \in Nat
         /\ pc[t] = "send" => target[t] \in Threads
         /\ \A i \in DOMAIN channels[t] : channels[t][i] \in Channels
         /\ \A i \in DOMAIN waiters : waiters[i] \in Threads
         /\ \A c \in Channels : queues[c] \in Seq(Messages)
         /\ pc[t] \notin {"notify", "select"} => t \notin drainSignal
         /\ pc[t] \notin {"wait", "expired"} => ~Listed(t)
<1>1. channels[t] \in Seq(Channels) /\ waiters \in Seq(Threads)
  BY DEF CoreInv, TypeOK
<1>2. /\ \A i \in DOMAIN channels[t] : channels[t][i] \in Channels
      /\ \A i \in DOMAIN waiters : waiters[i] \in Threads
  BY <1>1, ElementOfSeq, LenProperties
<1>3. pc[t] \in PushPC => msg[t] \in Delivery
  BY DEF CoreInv, TypeOK, ControlOK
<1>4. pc[t] \in PushPC => /\ msg[t].channel \in Channels
                          /\ msg[t].payload \in Messages
                          /\ Size[msg[t].payload] \in Nat
  BY <1>3, BrokerAssumption DEF Delivery
<1>5. pc[t] = "send" => target[t] \in Threads
  BY DEF CoreInv, TypeOK, ControlOK
<1>6. \A c \in Channels : queues[c] \in Seq(Messages)
  BY DEF CoreInv, TypeOK
<1>7. /\ pc[t] \notin {"notify", "select"} => t \notin drainSignal
      /\ pc[t] \notin {"wait", "expired"} => ~Listed(t)
  BY DEF CoreInv, ControlOK
<1> QED BY <1>2, <1>3, <1>4, <1>5, <1>6, <1>7

\* The steps of Push keep the types and the control state consistent.
LEMMA TypesPush ==
  ASSUME CoreInv, NEW t \in Threads, PushStep(t)
  PROVE  TypeOK' /\ ControlOK' /\ NoRepetition'
<1> USE Locals, BrokerAssumption
<1> USE DEF PushPC, PopPC
<1>1. CASE PushHandoff(t)
  <2>1. PICK i \in DOMAIN waiters :
          /\ target' = [target EXCEPT ![t] = waiters[i]]
          /\ waiters' = removeWaiterAtLocked(i)
    BY <1>1 DEF PushHandoff
  <2>2. /\ waiters' \in Seq(Threads) /\ NoRepetition'
        /\ \A x : Listed(x)' <=> (Listed(x) /\ x # waiters[i])
    BY <2>1, RemovedWaiter
  <2>3. TypeOK'
    BY <1>1, <2>1, <2>2 DEF CoreInv, TypeOK, PushHandoff, Goto
  <2>4. ControlOK'
    BY <1>1, <2>1, <2>2 DEF CoreInv, TypeOK, ControlOK, PushHandoff, Goto
  <2> QED BY <2>2, <2>3, <2>4
<1>2. CASE PushSend(t)
  <2>1. Return(t, "nil", Nil) /\ UNCHANGED shared /\ pc[t] = "send"
    BY <1>2 DEF PushSend
  <2>2. TypeOK'
    BY <1>2, <2>1, ReturnTypes DEF CoreInv, TypeOK, PushSend, shared
  <2>3. ControlOK'
    BY <2>1, ReturnControl DEF shared, Listed
  <2> QED BY <2>1, <2>2, <2>3 DEF CoreInv, HandoffExact, NoRepetition, shared
<1>3. CASE PushEnqueue(t)
  <2>1. Return(t, "nil", Nil) /\ UNCHANGED <<waiters, drainSignal, reply>>
        /\ pc[t] = "push"
    BY <1>3 DEF PushEnqueue
  <2>2. queues' \in [Channels -> Seq(Messages)] /\ queuedBytes' \in Int
    BY <1>3, <2>1, AppendProperties DEF CoreInv, TypeOK, PushEnqueue
  <2>3. TypeOK'
    BY <2>1, <2>2, ReturnTypes DEF CoreInv, TypeOK
  <2>4. ControlOK'
    BY <2>1, ReturnControl DEF Listed
  <2> QED BY <2>1, <2>3, <2>4 DEF CoreInv, HandoffExact, NoRepetition
<1>4. CASE PushBlock(t)
  <2>1. TypeOK'
    BY <1>4 DEF CoreInv, TypeOK, PushBlock, Goto
  <2>2. ControlOK'
    BY <1>4 DEF CoreInv, TypeOK, ControlOK, PushBlock, Goto, Listed
  <2> QED BY <1>4, <2>1, <2>2 DEF CoreInv, HandoffExact, NoRepetition, PushBlock
<1>5. CASE PushNotify(t) \/ PushWake(t)
  <2>1. TypeOK'
    BY <1>5 DEF CoreInv, TypeOK, PushNotify, PushWake, Goto, shared
  <2>2. ControlOK'
    BY <1>5 DEF CoreInv, TypeOK, ControlOK, PushNotify, PushWake, Goto, Listed, shared
  <2> QED BY <1>5, <2>1, <2>2 DEF CoreInv, HandoffExact, NoRepetition, PushNotify, PushWake, shared
<1>6. CASE PushCancelled(t)
  <2>1. Return(t, "timeout", Nil) /\ UNCHANGED <<queues, waiters, queuedBytes, reply>>
        /\ pc[t] = "select" /\ drainSignal' = drainSignal \ {t}
    BY <1>6 DEF PushCancelled
  <2>2. TypeOK'
    BY <2>1, ReturnTypes DEF CoreInv, TypeOK
  <2>3. ControlOK'
    BY <2>1, ReturnControl DEF Listed
  <2> QED BY <2>1, <2>2, <2>3 DEF CoreInv, HandoffExact, NoRepetition
<1> QED BY <1>1, <1>2, <1>3, <1>4, <1>5, <1>6 DEF PushStep

\* So do the steps of Pop.
LEMMA TypesPop ==
  ASSUME CoreInv, NEW t \in Threads, PopStep(t)
  PROVE  TypeOK' /\ ControlOK' /\ NoRepetition'
<1> USE Locals, BrokerAssumption
<1> USE DEF PushPC, PopPC
<1>1. CASE PopQueued(t)
  <2>1. PICK i \in DOMAIN channels[t] :
          LET c == channels[t][i]
              m == Head(queues[c])
          IN  /\ queues[c] # <<>>
              /\ queues' = [queues EXCEPT ![c] = Tail(@)]
              /\ queuedBytes' = queuedBytes - Size[m]
              /\ Return(t, "nil", [channel |-> c, payload |-> m])
    BY <1>1 DEF PopQueued, FirstQueued
  <2> DEFINE c == channels[t][i]
             m == Head(queues[c])
  <2>2. c \in Channels /\ queues[c] \in Seq(Messages) /\ queues[c] # <<>>
    BY <2>1
  <2>3. m \in Messages /\ Tail(queues[c]) \in Seq(Messages)
    BY <2>2, HeadTailProperties
  <2>4. /\ queues' = [queues EXCEPT ![c] = Tail(queues[c])]
        /\ queuedBytes' = queuedBytes - Size[m]
        /\ Return(t, "nil", [channel |-> c, payload |-> m])
    BY <2>1
  <2>5. [channel |-> c, payload |-> m] \in Delivery \cup {Nil}
    BY <2>2, <2>3 DEF Delivery
  <2> HIDE DEF c, m
  <2>6. queues' \in [Channels -> Seq(Messages)] /\ queuedBytes' \in Int
    <3>1. queues \in [Channels -> Seq(Messages)] /\ queuedBytes \in Int
      BY DEF CoreInv, TypeOK
    <3>2. Size[m] \in Nat
      BY <2>3
    <3>3. queuedBytes' \in Int
      BY <2>4, <3>1, <3>2
    <3>4. queues' \in [Channels -> Seq(Messages)]
      BY <2>3, <2>4, <3>1
    <3> QED BY <3>3, <3>4
  <2>7. pc[t] = "pop" /\ drainSignal' = {} /\ UNCHANGED <<waiters, reply>>
    BY <1>1 DEF PopQueued, CloseDrainSignal
  <2>8. TypeOK'
    BY <2>4, <2>5, <2>6, <2>7, ReturnTypes DEF CoreInv, TypeOK
  <2>9. ControlOK'
    BY <2>4, <2>7, ReturnControl DEF Listed
  <2> QED BY <2>7, <2>8, <2>9 DEF CoreInv, HandoffExact, NoRepetition
<1>2. CASE PopExpired(t)
  <2>1. Return(t, "timeout", Nil) /\ UNCHANGED <<shared, reply>> /\ pc[t] = "pop"
    BY <1>2 DEF PopExpired
  <2>2. TypeOK'
    BY <2>1, ReturnTypes DEF CoreInv, TypeOK, shared
  <2>3. ControlOK'
    BY <2>1, ReturnControl DEF Listed, shared
  <2> QED BY <2>1, <2>2, <2>3 DEF CoreInv, HandoffExact, NoRepetition, shared
<1>3. CASE PopWait(t)
  <2>1. pc[t] = "pop" /\ waiters' = Append(waiters, t) /\ ~Listed(t)
    BY <1>3 DEF PopWait
  <2>2. /\ waiters' \in Seq(Threads) /\ NoRepetition'
        /\ \A x : Listed(x)' <=> (Listed(x) \/ x = t)
    BY <2>1, AppendedWaiter
  <2>3. TypeOK'
    BY <1>3, <2>2 DEF CoreInv, TypeOK, PopWait, Goto
  <2>4. ControlOK'
    BY <1>3, <2>2 DEF CoreInv, TypeOK, ControlOK, PopWait, Goto
  <2> QED BY <2>2, <2>3, <2>4
<1>4. CASE PopReceive(t)
  <2>1. Return(t, "nil", reply[t]) /\ UNCHANGED shared /\ pc[t] \in {"wait", "recv"}
        /\ reply' = [reply EXCEPT ![t] = Nil]
    BY <1>4 DEF PopReceive
  <2>2. ~Listed(t)
    BY <1>4 DEF PopReceive, CoreInv, HandoffExact
  <2>3. TypeOK'
    BY <2>1, ReturnTypes DEF CoreInv, TypeOK, shared
  <2>4. ControlOK'
    BY <2>1, <2>2, ReturnControl DEF Listed, shared
  <2> QED BY <2>1, <2>3, <2>4 DEF CoreInv, HandoffExact, NoRepetition, shared
<1>5. CASE PopDone(t)
  <2>1. TypeOK'
    BY <1>5 DEF CoreInv, TypeOK, PopDone, Goto, shared
  <2>2. ControlOK'
    BY <1>5 DEF CoreInv, TypeOK, ControlOK, PopDone, Goto, Listed, shared
  <2> QED BY <1>5, <2>1, <2>2 DEF CoreInv, HandoffExact, NoRepetition, PopDone, shared
<1>6. CASE PopRemoveWaiter(t)
  <2>1. CASE \E i \in DOMAIN waiters : /\ waiters[i] = t
                                      /\ waiters' = removeWaiterAtLocked(i)
                                      /\ Goto(t, "poll")
    <3>1. /\ waiters' \in Seq(Threads) /\ NoRepetition'
          /\ \A x : Listed(x)' <=> (Listed(x) /\ x # t)
      BY <2>1, RemovedWaiter
    <3>2. TypeOK'
      BY <1>6, <2>1, <3>1 DEF CoreInv, TypeOK, PopRemoveWaiter, Goto
    <3>3. ControlOK'
      BY <1>6, <2>1, <3>1 DEF CoreInv, TypeOK, ControlOK, PopRemoveWaiter, Goto
    <3> QED BY <3>1, <3>2, <3>3
  <2>2. CASE /\ \A i \in DOMAIN waiters : waiters[i] # t
             /\ Goto(t, "recv")
             /\ UNCHANGED waiters
    <3>1. TypeOK'
      BY <1>6, <2>2 DEF CoreInv, TypeOK, PopRemoveWaiter, Goto
    <3>2. ControlOK'
      BY <1>6, <2>2 DEF CoreInv, TypeOK, ControlOK, PopRemoveWaiter, Goto, Listed
    <3> QED BY <2>2, <3>1, <3>2 DEF CoreInv, HandoffExact, NoRepetition
  <2> QED BY <1>6, <2>1, <2>2 DEF PopRemoveWaiter
<1>7. CASE PopPoll(t)
  <2>1. UNCHANGED shared /\ pc[t] = "poll" /\ reply' = [reply EXCEPT ![t] = Nil]
        /\ Return(t, IF reply[t] = Nil THEN "timeout" ELSE "nil", reply[t])
    BY <1>7 DEF PopPoll
  <2>2. TypeOK'
    BY <2>1, ReturnTypes DEF CoreInv, TypeOK, shared
  <2>3. ControlOK'
    BY <2>1, ReturnControl DEF Listed, shared
  <2> QED BY <2>1, <2>2, <2>3 DEF CoreInv, HandoffExact, NoRepetition, shared
<1> QED BY <1>1, <1>2, <1>3, <1>4, <1>5, <1>6, <1>7 DEF PopStep

\* A step that leaves alone who waits, who is promised what and what is in the
\* reply buffers keeps the handoff exact.
LEMMA QuietHandoff ==
  ASSUME CoreInv, NoRepetition', UNCHANGED reply,
         \A x : Listed(x)' <=> Listed(x),
         \A u, w \in Threads : Sending(u, w)' <=> Sending(u, w),
         \A w \in Threads : Expecting(w)' <=> Expecting(w)
  PROVE  HandoffExact'
BY DEF CoreInv, HandoffExact

\* The call of t returns and had nothing to do with a handoff.
LEMMA ReturnHandoff ==
  ASSUME CoreInv, NEW t \in Threads, NEW err, NEW val, Return(t, err, val),
         pc[t] \notin {"send", "wait", "expired", "recv"},
         UNCHANGED <<waiters, reply>>
  PROVE  HandoffExact'
<1>1. NoRepetition' /\ \A x : Listed(x)' <=> Listed(x)
  BY DEF CoreInv, HandoffExact, NoRepetition, Listed
<1>2. \A u, w \in Threads : Sending(u, w)' <=> Sending(u, w)
  BY DEF Return, Goto, CoreInv, TypeOK, Sending
<1>3. \A w \in Threads : Expecting(w)' <=> Expecting(w)
  BY DEF Return, Goto, CoreInv, TypeOK, Expecting
<1> QED BY <1>1, <1>2, <1>3, QuietHandoff

LEMMA HandoffPush ==
  ASSUME CoreInv, NEW t \in Threads, PushStep(t)
  PROVE  HandoffExact'
<1> USE Locals, BrokerAssumption
<1> USE DEF PushPC, PopPC
<1>0. NoRepetition'
  BY TypesPush
<1>1. CASE PushHandoff(t)
  <2>1. PICK i \in DOMAIN waiters :
          /\ target' = [target EXCEPT ![t] = waiters[i]]
          /\ waiters' = removeWaiterAtLocked(i)
    BY <1>1 DEF PushHandoff
  <2> DEFINE v == waiters[i]
  <2>2. \A x : Listed(x)' <=> (Listed(x) /\ x # v)
    BY <2>1, RemovedWaiter
  <2>3. v \in Threads /\ Listed(v)
    BY DEF Listed
  <2>4. target' = [target EXCEPT ![t] = v] /\ pc[t] = "push"
        /\ pc' = [pc EXCEPT ![t] = "send"] /\ UNCHANGED reply
    BY <1>1, <2>1 DEF PushHandoff, Goto
  <2> HIDE DEF v
  <2>5. pc[v] \in {"wait", "expired"} /\ reply[v] = Nil /\ \A u \in Threads : ~Sending(u, v)
    BY <2>3 DEF CoreInv, ControlOK, HandoffExact
  <2>6. \A u, w \in Threads : Sending(u, w)' <=> (Sending(u, w) \/ (u = t /\ w = v))
    BY <2>4 DEF CoreInv, TypeOK, Sending
  <2>7. \A w \in Threads : Expecting(w)' <=> Expecting(w)
    BY <2>4 DEF CoreInv, TypeOK, Expecting
  <2>8. Expecting(v) /\ \A w \in Threads : ~Sending(t, w)
    BY <2>4, <2>5 DEF Sending, Expecting
  <2> QED BY <1>0, <2>2, <2>3, <2>4, <2>5, <2>6, <2>7, <2>8 DEF CoreInv, HandoffExact
<1>2. CASE PushSend(t)
  <2> DEFINE v == target[t]
  <2>1. Return(t, "nil", Nil) /\ UNCHANGED waiters /\ pc[t] = "send" /\ v \in Threads
    BY <1>2 DEF PushSend, shared
  <2>2. Sending(t, v)
    BY <2>1 DEF Sending
  <2>3. reply' = [reply EXCEPT ![v] = msg[t]] /\ msg[t] # Nil
    BY <1>2, <2>1 DEF PushSend, CoreInv, ControlOK
  <2>4. \A x : Listed(x)' <=> Listed(x)
    BY <2>1 DEF Listed
  <2>5. \A u, w \in Threads : Sending(u, w)' <=> (Sending(u, w) /\ u # t)
    BY <2>1 DEF CoreInv, TypeOK, Sending, Return, Goto
  <2>6. \A w \in Threads : Expecting(w)' <=> Expecting(w)
    BY <2>1 DEF CoreInv, TypeOK, Expecting, Return, Goto
  <2>7. \A w \in Threads : Sending(t, w) => w = v
    BY DEF Sending
  <2>8. \A w \in Threads : reply'[w] = IF w = v THEN msg[t] ELSE reply[w]
    BY <2>3 DEF CoreInv, TypeOK
  <2> HIDE DEF v
  <2> QED BY <1>0, <2>1, <2>2, <2>3, <2>4, <2>5, <2>6, <2>7, <2>8 DEF CoreInv, HandoffExact
<1>3. CASE PushEnqueue(t)
  BY <1>3, ReturnHandoff DEF PushEnqueue
<1>4. CASE PushBlock(t) \/ PushNotify(t) \/ PushWake(t)
  <2>1. pc[t] \in {"push", "notify", "select"} /\ UNCHANGED <<waiters, reply, target>>
        /\ \E l \in {"push", "notify", "select"} : pc' = [pc EXCEPT ![t] = l]
    BY <1>4 DEF PushBlock, PushNotify, PushWake, Goto, shared
  <2>2. \A x : Listed(x)' <=> Listed(x)
    BY <2>1 DEF Listed
  <2>3. \A u, w \in Threads : Sending(u, w)' <=> Sending(u, w)
    BY <2>1 DEF CoreInv, TypeOK, Sending
  <2>4. \A w \in Threads : Expecting(w)' <=> Expecting(w)
    BY <2>1 DEF CoreInv, TypeOK, Expecting
  <2> QED BY <1>0, <2>1, <2>2, <2>3, <2>4, QuietHandoff
<1>5. CASE PushCancelled(t)
  BY <1>5, ReturnHandoff DEF PushCancelled
<1> QED BY <1>1, <1>2, <1>3, <1>4, <1>5 DEF PushStep

LEMMA HandoffPop ==
  ASSUME CoreInv, NEW t \in Threads, PopStep(t)
  PROVE  HandoffExact'
<1> USE Locals, BrokerAssumption
<1> USE DEF PushPC, PopPC
<1>0. NoRepetition'
  BY TypesPop
<1>1. CASE PopQueued(t)
  BY <1>1, ReturnHandoff DEF PopQueued
<1>2. CASE PopExpired(t)
  BY <1>2, ReturnHandoff DEF PopExpired, shared
<1>3. CASE PopWait(t)
  <2>1. pc[t] = "pop" /\ waiters' = Append(waiters, t) /\ UNCHANGED <<reply, target>>
        /\ pc' = [pc EXCEPT ![t] = "wait"]
    BY <1>3 DEF PopWait, Goto
  <2>2. \A x : Listed(x)' <=> (Listed(x) \/ x = t)
    BY <2>1, AppendedWaiter
  <2>3. \A u, w \in Threads : Sending(u, w)' <=> Sending(u, w)
    BY <2>1 DEF CoreInv, TypeOK, Sending
  <2>4. \A w \in Threads : Expecting(w)' <=> (Expecting(w) \/ w = t)
    BY <2>1 DEF CoreInv, TypeOK, Expecting
  <2>5. ~Expecting(t)
    BY <2>1 DEF Expecting
  <2> QED BY <1>0, <2>1, <2>2, <2>3, <2>4, <2>5 DEF CoreInv, HandoffExact
<1>4. CASE PopReceive(t)
  <2>1. pc[t] \in {"wait", "recv"} /\ reply[t] # Nil /\ UNCHANGED waiters
        /\ reply' = [reply EXCEPT ![t] = Nil] /\ Return(t, "nil", reply[t])
    BY <1>4 DEF PopReceive, shared
  <2>2. \A x : Listed(x)' <=> Listed(x)
    BY <2>1 DEF Listed
  <2>3. \A u, w \in Threads : Sending(u, w)' <=> Sending(u, w)
    BY <2>1 DEF CoreInv, TypeOK, Sending, Return, Goto
  <2>4. \A w \in Threads : Expecting(w)' <=> (Expecting(w) /\ w # t)
    BY <2>1 DEF CoreInv, TypeOK, Expecting, Return, Goto
  <2>5. \A w \in Threads : reply'[w] = IF w = t THEN Nil ELSE reply[w]
    BY <2>1 DEF CoreInv, TypeOK
  <2> QED BY <1>0, <2>1, <2>2, <2>3, <2>4, <2>5 DEF CoreInv, HandoffExact
<1>5. CASE PopDone(t)
  <2>1. pc[t] = "wait" /\ pc' = [pc EXCEPT ![t] = "expired"]
        /\ UNCHANGED <<waiters, reply, target>>
    BY <1>5 DEF PopDone, Goto, shared
  <2>2. \A x : Listed(x)' <=> Listed(x)
    BY <2>1 DEF Listed
  <2>3. \A u, w \in Threads : Sending(u, w)' <=> Sending(u, w)
    BY <2>1 DEF CoreInv, TypeOK, Sending
  <2>4. \A w \in Threads : Expecting(w)' <=> Expecting(w)
    BY <2>1 DEF CoreInv, TypeOK, Expecting
  <2> QED BY <1>0, <2>1, <2>2, <2>3, <2>4, QuietHandoff
<1>6. CASE PopRemoveWaiter(t)
  <2>0. pc[t] = "expired" /\ UNCHANGED <<reply, target>>
    BY <1>6 DEF PopRemoveWaiter
  <2>1. CASE \E i \in DOMAIN waiters : /\ waiters[i] = t
                                      /\ waiters' = removeWaiterAtLocked(i)
                                      /\ Goto(t, "poll")
    <3>1. Listed(t) /\ \A x : Listed(x)' <=> (Listed(x) /\ x # t)
      BY <2>1, RemovedWaiter DEF Listed
    <3>2. \A u, w \in Threads : Sending(u, w)' <=> Sending(u, w)
      BY <2>0, <2>1 DEF CoreInv, TypeOK, Sending, Goto
    <3>3. \A w \in Threads : Expecting(w)' <=> (Expecting(w) /\ w # t)
      BY <2>0, <2>1 DEF CoreInv, TypeOK, Expecting, Goto
    <3> QED BY <1>0, <2>0, <3>1, <3>2, <3>3 DEF CoreInv, HandoffExact
  <2>2. CASE /\ \A i \in DOMAIN waiters : waiters[i] # t
             /\ Goto(t, "recv")
             /\ UNCHANGED waiters
    <3>1. \A x : Listed(x)' <=> Listed(x)
      BY <2>2 DEF Listed
    <3>2. \A u, w \in Threads : Sending(u, w)' <=> Sending(u, w)
      BY <2>0, <2>2 DEF CoreInv, TypeOK, Sending, Goto
    <3>3. \A w \in Threads : Expecting(w)' <=> Expecting(w)
      BY <2>0, <2>2 DEF CoreInv, TypeOK, Expecting, Goto
    <3> QED BY <1>0, <2>0, <3>1, <3>2, <3>3, QuietHandoff
  <2> QED BY <1>6, <2>1, <2>2 DEF PopRemoveWaiter
<1>7. CASE PopPoll(t)
  <2>1. pc[t] = "poll" /\ UNCHANGED waiters /\ reply' = [reply EXCEPT ![t] = Nil]
        /\ Return(t, IF reply[t] = Nil THEN "timeout" ELSE "nil", reply[t])
    BY <1>7 DEF PopPoll, shared
  <2>2. reply[t] = Nil
    BY <2>1 DEF CoreInv, HandoffExact, Expecting
  <2>3. UNCHANGED reply
    BY <2>1, <2>2 DEF CoreInv, TypeOK
  <2> QED BY <2>1, <2>3, ReturnHandoff
<1> QED BY <1>1, <1>2, <1>3, <1>4, <1>5, <1>6, <1>7 DEF PopStep

\* A new call, or an argument that is refused.
LEMMA CoreCall ==
  ASSUME CoreInv,
         \/ \E t \in Pushers, c \in Channels, m \in Messages :
              PushCall(t, c, m) \/ PushInvalid(t, c, m)
         \/ \E t \in Poppers, cs \in PopLists : PopCall(t, cs) \/ PopInvalid(t, cs)
  PROVE  CoreInv'
<1> USE BrokerAssumption
<1> USE DEF PushPC, PopPC
<1>1. ASSUME NEW t \in Threads, pc[t] = "idle", Return(t, "invalid", Nil),
             UNCHANGED <<shared, reply>>
      PROVE  CoreInv'
  <2>1. ~Listed(t) /\ t \notin drainSignal
    BY <1>1, Locals
  <2>2. TypeOK'
    BY <1>1, ReturnTypes DEF CoreInv, TypeOK, shared
  <2>3. ControlOK'
    BY <1>1, <2>1, ReturnControl DEF Listed, shared
  <2>4. HandoffExact'
    BY <1>1, ReturnHandoff DEF shared
  <2> QED BY <2>2, <2>3, <2>4 DEF CoreInv
<1>2. ASSUME NEW t \in Threads, pc[t] = "idle", UNCHANGED <<shared, target, reply, ctxDone>>,
             NEW l \in {"push", "pop"}, pc' = [pc EXCEPT ![t] = l],
             result' = [result EXCEPT ![t] = Returned("none", Nil)],
             \/ /\ l = "push" /\ UNCHANGED channels
                /\ \E d \in Delivery : msg' = [msg EXCEPT ![t] = d]
             \/ /\ l = "pop" /\ UNCHANGED msg
                /\ \E cs \in Seq(Channels) :
                     cs # <<>> /\ channels' = [channels EXCEPT ![t] = cs]
      PROVE  CoreInv'
  <2>0. Returned("none", Nil) \in [err : {"none", "nil", "timeout", "invalid"},
                                   val : Delivery \cup {Nil}]
    BY DEF Returned
  <2>1. TypeOK'
    <3>1. msg' \in [Threads -> Delivery \cup {Nil}]
      BY <1>2 DEF CoreInv, TypeOK
    <3>2. channels' \in [Threads -> Seq(Channels)]
      BY <1>2 DEF CoreInv, TypeOK
    <3>3. pc' \in [Threads -> {"idle"} \cup PushPC \cup PopPC]
      BY <1>2 DEF CoreInv, TypeOK
    <3>4. result' \in [Threads -> [err : {"none", "nil", "timeout", "invalid"},
                                  val : Delivery \cup {Nil}]]
      BY <1>2, <2>0 DEF CoreInv, TypeOK
    <3>5. UNCHANGED <<queues, waiters, queuedBytes, drainSignal, target, reply, ctxDone>>
      BY <1>2 DEF shared
    <3> QED BY <3>1, <3>2, <3>3, <3>4, <3>5 DEF CoreInv, TypeOK
  <2>2. \A x : Listed(x)' <=> Listed(x)
    BY <1>2 DEF Listed, shared
  <2>3. ControlOK'
    BY <1>2, <2>2 DEF CoreInv, TypeOK, ControlOK, shared
  <2>4. \A u, w \in Threads : Sending(u, w)' <=> Sending(u, w)
    BY <1>2 DEF CoreInv, TypeOK, Sending
  <2>5. \A w \in Threads : Expecting(w)' <=> Expecting(w)
    BY <1>2 DEF CoreInv, TypeOK, Expecting
  <2>6. NoRepetition' /\ UNCHANGED reply
    BY <1>2 DEF CoreInv, HandoffExact, NoRepetition, shared
  <2>7. HandoffExact'
    BY <2>2, <2>4, <2>5, <2>6, QuietHandoff
  <2> QED BY <2>1, <2>3, <2>7 DEF CoreInv
<1>3. ASSUME NEW t \in Pushers, NEW c \in Channels, NEW m \in Messages, PushCall(t, c, m)
      PROVE  CoreInv'
  <2>1. [channel |-> c, payload |-> m] \in Delivery /\ t \in Threads
    BY DEF Delivery, Threads
  <2> QED BY <1>2, <1>3, <2>1 DEF PushCall, Goto
<1>4. ASSUME NEW t \in Poppers, NEW cs \in PopLists, PopCall(t, cs)
      PROVE  CoreInv'
  <2>1. cs \in Seq(Channels) /\ cs # <<>> /\ t \in Threads
    BY <1>4 DEF PopCall, ValidPop, Threads
  <2> QED BY <1>2, <1>4, <2>1 DEF PopCall, Goto
<1>5. ASSUME NEW t \in Pushers, NEW c \in Channels, NEW m \in Messages, PushInvalid(t, c, m)
      PROVE  CoreInv'
  BY <1>1, <1>5 DEF PushInvalid, Threads
<1>6. ASSUME NEW t \in Poppers, NEW cs \in PopLists, PopInvalid(t, cs)
      PROVE  CoreInv'
  BY <1>1, <1>6 DEF PopInvalid, Threads
<1> QED BY <1>3, <1>4, <1>5, <1>6

LEMMA CoreCtx ==
  ASSUME CoreInv, \/ \E t \in Threads : CtxDone(t)
                  \/ UNCHANGED vars
  PROVE  CoreInv'
<1>1. UNCHANGED <<queues, waiters, queuedBytes, drainSignal, pc, msg, channels, target,
                  reply, result>>
  BY DEF CtxDone, vars, shared, locals
<1>2. ctxDone' \in [Threads -> BOOLEAN]
  BY DEF CtxDone, vars, locals, CoreInv, TypeOK
<1>3. TypeOK'
  BY <1>1, <1>2 DEF CoreInv, TypeOK
<1>4. ControlOK'
  BY <1>1 DEF CoreInv, ControlOK, Listed
<1>5. HandoffExact'
  BY <1>1 DEF CoreInv, HandoffExact, NoRepetition, Listed, Sending, Expecting
<1> QED BY <1>3, <1>4, <1>5 DEF CoreInv

LEMMA CoreStep == CoreInv /\ [Next]_vars => CoreInv'
<1> SUFFICES ASSUME CoreInv, [Next]_vars PROVE CoreInv'
  OBVIOUS
<1>1. ASSUME NEW t \in Threads, Step(t) PROVE CoreInv'
  BY <1>1, TypesPush, TypesPop, HandoffPush, HandoffPop DEF Step, CoreInv
<1> QED BY <1>1, CoreCall, CoreCtx DEF Next

LEMMA CoreInvariance == Spec => []CoreInv
BY InitCore, CoreStep, PTL DEF Spec

\* Every variable keeps its type; b.waiters holds live waiters only.
THEOREM TypeCorrect == Spec => []TypeOK
<1>1. CoreInv => TypeOK
  BY DEF CoreInv
<1> QED BY <1>1, CoreInvariance, PTL

\* A Pop is promised at most one message, nobody holds one for a Pop that is
\* still in b.waiters, and a Pop that was taken off the list gets its message:
\* the send on w.reply never blocks and the receive after a lost race with the
\* timeout always has a sender.
THEOREM HandoffIsExact == Spec => []HandoffExact
<1>1. CoreInv => HandoffExact
  BY DEF CoreInv
<1> QED BY <1>1, CoreInvariance, PTL

-----------------------------------------------------------------------------
(* Waiters and queues                                                      *)

\* The waiters after a step are waiters from before with the lists they had,
\* but for the Pop that has just found nothing and appended itself.
LEMMA WaitersFrame ==
  ASSUME CoreInv, CoreInv', Next, NEW w, Listed(w)'
  PROVE  /\ w \in Threads
         /\ \/ Listed(w) /\ channels'[w] = channels[w]
            \/ PopWait(w)
<1> USE DEF PushPC, PopPC
<1>1. w \in Threads /\ pc'[w] \in {"wait", "expired"}
  <2>1. waiters' \in Seq(Threads)
    BY DEF CoreInv, TypeOK
  <2>2. w \in Threads
    BY <2>1, ElementOfSeq, LenProperties DEF Listed
  <2> QED BY <2>2 DEF CoreInv, ControlOK
<1>2. ASSUME NEW t \in Threads, NEW err, NEW val, Return(t, err, val), UNCHANGED waiters
      PROVE  Listed(w) /\ channels'[w] = channels[w]
  <2>1. w # t
    BY <1>1, <1>2 DEF Return, Goto, CoreInv, TypeOK
  <2> QED BY <1>1, <1>2, <2>1 DEF Return, CoreInv, TypeOK, Listed
<1>3. ASSUME NEW t \in Threads, PushStep(t)
      PROVE  Listed(w) /\ channels'[w] = channels[w]
  <2>1. CASE PushHandoff(t)
    BY <2>1, RemovedWaiter DEF PushHandoff
  <2>2. CASE PushSend(t)
    BY <2>2, <1>2 DEF PushSend, shared
  <2>3. CASE PushEnqueue(t)
    BY <2>3, <1>2 DEF PushEnqueue
  <2>4. CASE PushBlock(t) \/ PushNotify(t) \/ PushWake(t)
    BY <2>4 DEF PushBlock, PushNotify, PushWake, shared, Listed
  <2>5. CASE PushCancelled(t)
    BY <2>5, <1>2 DEF PushCancelled
  <2> QED BY <1>3, <2>1, <2>2, <2>3, <2>4, <2>5 DEF PushStep
<1>4. ASSUME NEW t \in Threads, PopStep(t)
      PROVE  (Listed(w) /\ channels'[w] = channels[w]) \/ PopWait(w)
  <2>1. CASE PopQueued(t)
    BY <2>1, <1>2 DEF PopQueued
  <2>2. CASE PopExpired(t)
    BY <2>2, <1>2 DEF PopExpired, shared
  <2>3. CASE PopWait(t)
    <3>1. Listed(w)' <=> (Listed(w) \/ w = t)
      BY <2>3, AppendedWaiter, Locals DEF PopWait
    <3> QED BY <2>3, <3>1 DEF PopWait
  <2>4. CASE PopReceive(t)
    BY <2>4, <1>2 DEF PopReceive, shared
  <2>5. CASE PopDone(t)
    BY <2>5 DEF PopDone, shared, Listed
  <2>6. CASE PopRemoveWaiter(t)
    <3>1. UNCHANGED channels
      BY <2>6 DEF PopRemoveWaiter
    <3>2. Listed(w)
      BY <2>6, RemovedWaiter DEF PopRemoveWaiter, Listed
    <3> QED BY <3>1, <3>2
  <2>7. CASE PopPoll(t)
    BY <2>7, <1>2 DEF PopPoll, shared
  <2> QED BY <1>4, <2>1, <2>2, <2>3, <2>4, <2>5, <2>6, <2>7 DEF PopStep
<1>5. ASSUME NEW t \in Pushers, NEW c \in Channels, NEW m \in Messages,
             PushCall(t, c, m) \/ PushInvalid(t, c, m)
      PROVE  Listed(w) /\ channels'[w] = channels[w]
  BY <1>2, <1>5 DEF PushCall, PushInvalid, shared, Listed, Threads
<1>6. ASSUME NEW t \in Poppers, NEW cs \in PopLists, PopCall(t, cs) \/ PopInvalid(t, cs)
      PROVE  Listed(w) /\ channels'[w] = channels[w]
  <2>1. CASE PopInvalid(t, cs)
    BY <1>2, <2>1 DEF PopInvalid, shared, Threads
  <2>2. CASE PopCall(t, cs)
    <3>1. Listed(w)
      BY <2>2 DEF PopCall, shared, Listed
    <3>2. w # t
      BY <3>1, <2>2, Locals DEF PopCall, Threads
    <3> QED BY <3>1, <3>2, <1>1, <2>2 DEF PopCall, CoreInv, TypeOK
  <2> QED BY <1>6, <2>1, <2>2
<1>7. ASSUME NEW t \in Threads, CtxDone(t)
      PROVE  Listed(w) /\ channels'[w] = channels[w]
  BY <1>7 DEF CtxDone, shared, Listed
<1> QED BY <1>1, <1>3, <1>4, <1>5, <1>6, <1>7 DEF Next, Step

\* The queues change only where a Push finds no waiter and where a Pop takes
\* the head of a queue that is not empty.
LEMMA QueuesFrame ==
  ASSUME Next
  PROVE  \/ UNCHANGED <<queues, queuedBytes>>
         \/ \E t \in Threads : PushEnqueue(t) \/ PopQueued(t)
<1> USE DEF shared
<1>1. ASSUME NEW t \in Threads, Step(t)
      PROVE  \/ UNCHANGED <<queues, queuedBytes>>
             \/ PushEnqueue(t) \/ PopQueued(t)
  BY <1>1 DEF Step, PushStep, PopStep, PushHandoff, PushSend, PushBlock, PushNotify,
              PushWake, PushCancelled, PopExpired, PopWait, PopReceive, PopDone,
              PopRemoveWaiter, PopPoll
<1>2. ASSUME NEW t \in Threads, CtxDone(t) PROVE UNCHANGED <<queues, queuedBytes>>
  BY <1>2 DEF CtxDone
<1>3. ASSUME NEW t \in Pushers, NEW c \in Channels, NEW m \in Messages,
             PushCall(t, c, m) \/ PushInvalid(t, c, m)
      PROVE  UNCHANGED <<queues, queuedBytes>>
  BY <1>3 DEF PushCall, PushInvalid
<1>4. ASSUME NEW t \in Poppers, NEW cs \in PopLists, PopCall(t, cs) \/ PopInvalid(t, cs)
      PROVE  UNCHANGED <<queues, queuedBytes>>
  BY <1>4 DEF PopCall, PopInvalid
<1> QED BY <1>1, <1>2, <1>3, <1>4 DEF Next

LEMMA WaitersFindNothingListed ==
  WaitersFindNothing <=> \A w : Listed(w) => NoneQueued(w)
BY DEF WaitersFindNothing, Listed

LEMMA WaitersStep ==
  ASSUME CoreInv, CoreInv', WaitersFindNothing, [Next]_vars
  PROVE  WaitersFindNothing'
<1>1. CASE UNCHANGED vars
  BY <1>1 DEF vars, shared, locals, WaitersFindNothing, NoneQueued
<1>2. CASE Next
  <2> SUFFICES ASSUME NEW w, Listed(w)' PROVE NoneQueued(w)'
    BY DEF WaitersFindNothing, Listed
  <2>1. w \in Threads /\ ((Listed(w) /\ channels'[w] = channels[w]) \/ PopWait(w))
    BY <1>2, WaitersFrame
  <2>2. CASE PopWait(w)
    BY <2>2 DEF PopWait, NoneQueued
  <2>3. CASE Listed(w) /\ channels'[w] = channels[w]
    <3> SUFFICES ASSUME NEW i \in DOMAIN channels[w]
                 PROVE  queues'[channels[w][i]] = <<>>
      BY <2>3 DEF NoneQueued
    <3> DEFINE d == channels[w][i]
    <3>1. queues[d] = <<>> /\ d \in Channels
      BY <2>1, <2>3, WaitersFindNothingListed, Locals DEF NoneQueued
    <3>2. waiterMatches(w, d)
      BY DEF waiterMatches
    <3> HIDE DEF d
    <3>3. ASSUME NEW t \in Threads, PushEnqueue(t) PROVE queues'[d] = <<>>
      <4>1. ~waiterMatches(w, msg[t].channel)
        BY <3>3, <2>3 DEF PushEnqueue, NoMatch, Listed
      <4>2. d # msg[t].channel
        BY <4>1, <3>2
      <4> QED BY <3>1, <3>3, <4>2 DEF PushEnqueue, CoreInv, TypeOK
    <3>4. ASSUME NEW t \in Threads, PopQueued(t) PROVE queues'[d] = <<>>
      BY <3>1, <3>4 DEF PopQueued, FirstQueued, CoreInv, TypeOK
    <3>5. queues'[d] = <<>>
      BY <1>2, <3>1, <3>3, <3>4, QueuesFrame
    <3> QED BY <3>5 DEF d
  <2> QED BY <2>1, <2>2, <2>3
<1> QED BY <1>1, <1>2

\* No Pop sits in b.waiters while a channel of its list has a message queued,
\* whatever the order in which pushes and pops run: neither the check of the
\* waiters by Push nor the check of the queues by Pop can go stale.
THEOREM NoMessageBehindAWaiter == Spec => []WaitersFindNothing
<1>1. Init => WaitersFindNothing
  BY DEF Init, WaitersFindNothing
<1>2. CoreInv /\ CoreInv' /\ WaitersFindNothing /\ [Next]_vars => WaitersFindNothing'
  BY WaitersStep
<1> QED BY <1>1, <1>2, CoreInvariance, PTL DEF Spec

-----------------------------------------------------------------------------
(* The drain signal and the cap                                            *)

\* A Push that is on the drain signal after a step has either just captured it
\* or was on it before; then its message is the same and no room was made.
LEMMA DrainFrame ==
  ASSUME CoreInv, CoreInv', Next, NEW u \in drainSignal'
  PROVE  /\ u \in Threads
         /\ \/ u \in drainSignal /\ msg'[u] = msg[u] /\ queuedBytes' >= queuedBytes
            \/ PushBlock(u)
<1> USE DEF PushPC, PopPC, shared
<1>1. u \in Threads /\ pc'[u] \in {"notify", "select"} /\ queuedBytes \in Int
  BY DEF CoreInv, TypeOK, ControlOK
<1>2. ASSUME NEW t \in Threads, NEW err, NEW val, Return(t, err, val)
      PROVE  msg'[u] = msg[u]
  <2>1. u # t
    BY <1>1, <1>2 DEF Return, Goto, CoreInv, TypeOK
  <2> QED BY <1>1, <1>2, <2>1 DEF Return, CoreInv, TypeOK
<1>3. ASSUME NEW t \in Threads, PushStep(t)
      PROVE  \/ u \in drainSignal /\ msg'[u] = msg[u] /\ queuedBytes' >= queuedBytes
             \/ PushBlock(u)
  <2>1. CASE PushEnqueue(t)
    <3>1. queuedBytes' >= queuedBytes
      BY <1>1, <2>1, Locals DEF PushEnqueue
    <3>2. u \in drainSignal /\ msg'[u] = msg[u]
      BY <2>1, <1>2 DEF PushEnqueue
    <3> QED BY <3>1, <3>2
  <2>2. CASE PushSend(t) \/ PushCancelled(t)
    <3>1. UNCHANGED queuedBytes /\ u \in drainSignal
      BY <2>2 DEF PushSend, PushCancelled
    <3>2. msg'[u] = msg[u]
      BY <2>2, <1>2 DEF PushSend, PushCancelled
    <3> QED BY <1>1, <3>1, <3>2
  <2>3. CASE PushHandoff(t) \/ PushNotify(t) \/ PushWake(t)
    BY <1>1, <2>3 DEF PushHandoff, PushNotify, PushWake
  <2>4. CASE PushBlock(t)
    BY <1>1, <2>4 DEF PushBlock
  <2> QED BY <1>3, <2>1, <2>2, <2>3, <2>4 DEF PushStep
<1>4. ASSUME NEW t \in Threads, PopStep(t)
      PROVE  u \in drainSignal /\ msg'[u] = msg[u] /\ queuedBytes' >= queuedBytes
  <2>1. CASE PopQueued(t)
    BY <2>1 DEF PopQueued, CloseDrainSignal
  <2>2. CASE PopExpired(t) \/ PopReceive(t) \/ PopPoll(t)
    <3>1. UNCHANGED <<queuedBytes, drainSignal>>
      BY <2>2 DEF PopExpired, PopReceive, PopPoll
    <3>2. msg'[u] = msg[u]
      BY <2>2, <1>2 DEF PopExpired, PopReceive, PopPoll
    <3> QED BY <1>1, <3>1, <3>2
  <2>3. CASE PopWait(t) \/ PopDone(t) \/ PopRemoveWaiter(t)
    BY <1>1, <2>3 DEF PopWait, PopDone, PopRemoveWaiter
  <2> QED BY <1>4, <2>1, <2>2, <2>3 DEF PopStep
<1>5. ASSUME NEW t \in Threads, CtxDone(t)
      PROVE  u \in drainSignal /\ msg'[u] = msg[u] /\ queuedBytes' >= queuedBytes
  BY <1>1, <1>5 DEF CtxDone
<1>6. ASSUME NEW t \in Pushers, NEW c \in Channels, NEW m \in Messages,
             PushCall(t, c, m) \/ PushInvalid(t, c, m)
      PROVE  u \in drainSignal /\ msg'[u] = msg[u] /\ queuedBytes' >= queuedBytes
  <2>1. t \in Threads /\ UNCHANGED <<queuedBytes, drainSignal>> /\ pc[t] = "idle"
    BY <1>6 DEF PushCall, PushInvalid, Threads
  <2>2. u # t
    BY <2>1, Locals
  <2>3. msg'[u] = msg[u]
    BY <1>1, <1>2, <1>6, <2>1, <2>2 DEF PushCall, PushInvalid, CoreInv, TypeOK
  <2> QED BY <1>1, <2>1, <2>3
<1>7. ASSUME NEW t \in Poppers, NEW cs \in PopLists, PopCall(t, cs) \/ PopInvalid(t, cs)
      PROVE  u \in drainSignal /\ msg'[u] = msg[u] /\ queuedBytes' >= queuedBytes
  <2>1. t \in Threads /\ UNCHANGED <<queuedBytes, drainSignal>>
    BY <1>7 DEF PopCall, PopInvalid, Threads
  <2>2. msg'[u] = msg[u]
    BY <1>2, <1>7, <2>1 DEF PopCall, PopInvalid
  <2> QED BY <1>1, <2>1, <2>2
<1> QED BY <1>1, <1>3, <1>4, <1>5, <1>6, <1>7 DEF Next, Step

LEMMA WakeupStep ==
  ASSUME CoreInv, CoreInv', NoLostWakeup, [Next]_vars
  PROVE  NoLostWakeup'
<1>1. CASE UNCHANGED vars
  BY <1>1 DEF vars, shared, locals, NoLostWakeup, HasRoom
<1>2. CASE Next
  <2> SUFFICES ASSUME NEW u \in drainSignal'
               PROVE  msg'[u] # Nil /\ ~(queuedBytes' + Size[msg'[u].payload] <= MaxQueuedBytes)
    BY DEF NoLostWakeup, HasRoom
  <2>1. /\ u \in Threads
        /\ \/ u \in drainSignal /\ msg'[u] = msg[u] /\ queuedBytes' >= queuedBytes
           \/ PushBlock(u)
    BY <1>2, DrainFrame
  <2>2. queuedBytes \in Int /\ queuedBytes' \in Int /\ MaxQueuedBytes \in Nat
    BY BrokerAssumption DEF CoreInv, TypeOK
  <2>3. CASE PushBlock(u)
    <3>1. msg[u] # Nil /\ UNCHANGED <<msg, queuedBytes>> /\ ~HasRoom(msg[u].payload)
      BY <2>1, <2>3 DEF PushBlock, CoreInv, ControlOK, PushPC
    <3> QED BY <3>1 DEF HasRoom
  <2>4. CASE u \in drainSignal /\ msg'[u] = msg[u] /\ queuedBytes' >= queuedBytes
    <3>1. msg[u] # Nil /\ ~(queuedBytes + Size[msg[u].payload] <= MaxQueuedBytes)
      BY <2>4 DEF NoLostWakeup, HasRoom
    <3>2. Size[msg[u].payload] \in Nat
      BY <2>1, <2>4, Locals DEF CoreInv, ControlOK, PushPC
    <3> QED BY <2>2, <2>4, <3>1, <3>2
  <2> QED BY <2>1, <2>3, <2>4
<1> QED BY <1>1, <1>2

\* A Push never sleeps on the current drain signal while there is room for its
\* message: the signal it captured under the mutex is the one that the next Pop
\* that makes room closes.
THEOREM NoWakeupIsLost == Spec => []NoLostWakeup
<1>1. Init => NoLostWakeup
  BY DEF Init, NoLostWakeup
<1>2. CoreInv /\ CoreInv' /\ NoLostWakeup /\ [Next]_vars => NoLostWakeup'
  BY WakeupStep
<1> QED BY <1>1, <1>2, CoreInvariance, PTL DEF Spec

LEMMA CapStep ==
  ASSUME CoreInv, CapRespected, [Next]_vars
  PROVE  CapRespected'
<1>0. queuedBytes \in Int /\ MaxQueuedBytes \in Nat
  BY BrokerAssumption DEF CoreInv, TypeOK
<1>1. CASE UNCHANGED queuedBytes
  BY <1>1 DEF CapRespected
<1>2. ASSUME NEW t \in Threads, PushEnqueue(t) PROVE CapRespected'
  BY <1>2 DEF PushEnqueue, HasRoom, CapRespected
<1>3. ASSUME NEW t \in Threads, PopQueued(t) PROVE CapRespected'
  <2>1. PICK i \in DOMAIN channels[t] :
          /\ queues[channels[t][i]] # <<>>
          /\ queuedBytes' = queuedBytes - Size[Head(queues[channels[t][i]])]
    BY <1>3 DEF PopQueued, FirstQueued
  <2>2. queues[channels[t][i]] \in Seq(Messages)
    BY Locals
  <2>3. Head(queues[channels[t][i]]) \in Messages
    BY <2>1, <2>2, HeadTailProperties
  <2>4. Size[Head(queues[channels[t][i]])] \in Nat
    BY <2>3, BrokerAssumption
  <2> QED BY <1>0, <2>1, <2>4 DEF CapRespected
<1> QED BY <1>1, <1>2, <1>3, QueuesFrame DEF vars, shared

\* The accounted bytes never exceed the cap, however many pushes wake up
\* together and whatever their sizes.
THEOREM CapHolds == Spec => []CapRespected
<1>1. Init => CapRespected
  BY BrokerAssumption DEF Init, CapRespected
<1>2. CoreInv /\ CapRespected /\ [Next]_vars => CapRespected'
  BY CapStep
<1> QED BY <1>1, <1>2, CoreInvariance, PTL DEF Spec

-----------------------------------------------------------------------------
(* Every payload is in one place                                           *)

\* The positions of a queue after an append: the old ones and one at the end.
LEMMA EnqueuedPlaces ==
  ASSUME CoreInv, NEW e \in Channels, NEW m \in Messages,
         queues' = [queues EXCEPT ![e] = Append(@, m)]
  PROVE  \A c \in Channels : \A i \in DOMAIN queues'[c] :
           \/ i \in DOMAIN queues[c] /\ queues'[c][i] = queues[c][i]
           \/ c = e /\ i = Len(queues[e]) + 1 /\ queues'[c][i] = m
<1>1. queues \in [Channels -> Seq(Messages)]
  BY DEF CoreInv, TypeOK
<1>2. \A c \in Channels : c # e => queues'[c] = queues[c]
  BY <1>1
<1>3. queues'[e] = Append(queues[e], m) /\ queues[e] \in Seq(Messages)
  BY <1>1
<1>4. Len(queues[e]) \in Nat /\ DOMAIN queues[e] = 1..Len(queues[e])
  BY <1>3, LenProperties
<1>5. /\ DOMAIN queues'[e] = 1..(Len(queues[e]) + 1)
      /\ \A i \in DOMAIN queues[e] : queues'[e][i] = queues[e][i]
      /\ queues'[e][Len(queues[e]) + 1] = m
  BY <1>3, AppendElements
<1>6. \A i \in DOMAIN queues'[e] : i \in DOMAIN queues[e] \/ i = Len(queues[e]) + 1
  BY <1>4, <1>5
<1> QED BY <1>2, <1>5, <1>6

\* After the head was taken, position i has what was at i + 1.
LEMMA DequeuedPlaces ==
  ASSUME CoreInv, NEW e \in Channels, queues[e] # <<>>,
         queues' = [queues EXCEPT ![e] = Tail(@)]
  PROVE  /\ \A c \in Channels : \A i \in DOMAIN queues'[c] :
              LET k == IF c = e THEN i + 1 ELSE i
              IN  k \in DOMAIN queues[c] /\ queues'[c][i] = queues[c][k]
         /\ \A i \in DOMAIN queues'[e] : i \in Nat
<1>1. queues \in [Channels -> Seq(Messages)]
  BY DEF CoreInv, TypeOK
<1>2. \A c \in Channels : c # e => queues'[c] = queues[c]
  BY <1>1
<1>3. queues'[e] = Tail(queues[e]) /\ queues[e] \in Seq(Messages)
  BY <1>1
<1>4. Len(queues[e]) \in Nat \ {0} /\ DOMAIN queues[e] = 1..Len(queues[e])
  BY <1>3, LenProperties, EmptySeq
<1>5. /\ queues'[e] \in Seq(Messages) /\ Len(queues'[e]) = Len(queues[e]) - 1
      /\ \A i \in 1..Len(queues'[e]) : queues'[e][i] = queues[e][i + 1]
  BY <1>3, HeadTailProperties
<1>6. DOMAIN queues'[e] = 1..(Len(queues[e]) - 1)
  BY <1>5, LenProperties
<1>7. \A i \in DOMAIN queues'[e] : i \in Nat /\ i + 1 \in DOMAIN queues[e]
                                  /\ queues'[e][i] = queues[e][i + 1]
  BY <1>4, <1>5, <1>6
<1> QED BY <1>2, <1>7

\* A step that empties some locals and reply buffers and moves nothing.
LEMMA PlaceDropped ==
  ASSUME OnePlace, UNCHANGED queues,
         \A t \in Threads : msg'[t] # Nil => msg'[t] = msg[t],
         \A t \in Threads : reply'[t] # Nil => reply'[t] = reply[t]
  PROVE  OnePlace'
BY DEF OnePlace, Queued

LEMMA PlaceCalled ==
  ASSUME CoreInv, OnePlace, NEW t \in Threads, NEW c \in Channels, NEW m \in Messages,
         PushCall(t, c, m)
  PROVE  OnePlace'
<1>1. /\ \A u \in Threads : u # t => msg'[u] = msg[u]
      /\ msg'[t].payload = m /\ ~Queued(m) /\ ~Held(m) /\ UNCHANGED <<queues, reply>>
  BY DEF PushCall, shared, CoreInv, TypeOK
<1> QED BY <1>1 DEF OnePlace, Queued, Held

LEMMA PlaceSent ==
  ASSUME CoreInv, OnePlace, NEW t \in Threads, PushSend(t)
  PROVE  OnePlace'
<1>1. target[t] \in Threads /\ msg[t] # Nil
  BY Locals DEF PushSend, CoreInv, ControlOK, PushPC
<1>2. /\ \A u \in Threads : msg'[u] = IF u = t THEN Nil ELSE msg[u]
      /\ \A u \in Threads : reply'[u] = IF u = target[t] THEN msg[t] ELSE reply[u]
      /\ UNCHANGED queues
  BY <1>1 DEF PushSend, Return, shared, CoreInv, TypeOK
<1> QED BY <1>1, <1>2 DEF OnePlace, Queued

LEMMA PlaceEnqueued ==
  ASSUME CoreInv, OnePlace, NEW t \in Threads, PushEnqueue(t)
  PROVE  OnePlace'
<1> DEFINE e == msg[t].channel
           m == msg[t].payload
<1>1. e \in Channels /\ m \in Messages /\ msg[t] # Nil
  BY Locals DEF PushEnqueue, CoreInv, ControlOK, PushPC
<1>2. /\ \A u \in Threads : msg'[u] = IF u = t THEN Nil ELSE msg[u]
      /\ UNCHANGED reply /\ queues' = [queues EXCEPT ![e] = Append(@, m)]
  BY DEF PushEnqueue, Return, CoreInv, TypeOK
<1>3. \A c \in Channels : \A i \in DOMAIN queues'[c] :
        \/ i \in DOMAIN queues[c] /\ queues'[c][i] = queues[c][i]
        \/ c = e /\ i = Len(queues[e]) + 1 /\ queues'[c][i] = m
  BY <1>1, <1>2, EnqueuedPlaces
<1>4. /\ ~Queued(m) /\ \A u \in Threads : reply[u] # Nil => reply[u].payload # m
      /\ \A u \in Threads : u # t /\ msg[u] # Nil => msg[u].payload # m
  BY <1>1 DEF OnePlace
<1> HIDE DEF e, m
<1>5. \A p : Queued(p)' => Queued(p) \/ p = m
  BY <1>3 DEF Queued
<1>6. \A c, d \in Channels : \A i \in DOMAIN queues'[c], j \in DOMAIN queues'[d] :
        queues'[c][i] = queues'[d][j] => c = d /\ i = j
  BY <1>3, <1>4 DEF OnePlace, Queued
<1> QED BY <1>1, <1>2, <1>4, <1>5, <1>6 DEF OnePlace

LEMMA PlaceDequeued ==
  ASSUME CoreInv, OnePlace, NEW t \in Threads, PopQueued(t)
  PROVE  OnePlace'
<1>1. PICK i \in DOMAIN channels[t] :
        /\ queues[channels[t][i]] # <<>>
        /\ queues' = [queues EXCEPT ![channels[t][i]] = Tail(@)]
        /\ msg' = [msg EXCEPT ![t] = Nil]
  BY DEF PopQueued, FirstQueued, Return
<1> DEFINE e == channels[t][i]
<1>2. e \in Channels
  BY Locals
<1>3. /\ \A c \in Channels : \A k \in DOMAIN queues'[c] :
           LET n == IF c = e THEN k + 1 ELSE k
           IN  n \in DOMAIN queues[c] /\ queues'[c][k] = queues[c][n]
      /\ \A k \in DOMAIN queues'[e] : k \in Nat
  BY <1>1, <1>2, DequeuedPlaces
<1>4. /\ \A u \in Threads : msg'[u] = IF u = t THEN Nil ELSE msg[u]
      /\ UNCHANGED reply
  BY <1>1 DEF PopQueued, CoreInv, TypeOK
<1> HIDE DEF e
<1>5. \A p : Queued(p)' => Queued(p)
  BY <1>3 DEF Queued
<1>6. ASSUME NEW c \in Channels, NEW d \in Channels, NEW j \in DOMAIN queues'[c],
             NEW k \in DOMAIN queues'[d], queues'[c][j] = queues'[d][k]
      PROVE  c = d /\ j = k
  <2> DEFINE m == IF c = e THEN j + 1 ELSE j
             n == IF d = e THEN k + 1 ELSE k
  <2>1. m \in DOMAIN queues[c] /\ n \in DOMAIN queues[d] /\ queues[c][m] = queues[d][n]
    BY <1>3, <1>6
  <2>2. c = d /\ m = n
    BY <2>1 DEF OnePlace
  <2> QED BY <2>2, <1>3
<1> QED BY <1>4, <1>5, <1>6 DEF OnePlace

LEMMA PlaceStep ==
  ASSUME CoreInv, OnePlace, [Next]_vars
  PROVE  OnePlace'
<1> USE DEF shared
<1>0. \A t, u \in Threads : [msg EXCEPT ![t] = Nil][u] = IF u = t THEN Nil ELSE msg[u]
  BY DEF CoreInv, TypeOK
<1>1. ASSUME NEW t \in Threads, NEW err, NEW val, Return(t, err, val), UNCHANGED queues,
             \/ UNCHANGED reply
             \/ reply' = [reply EXCEPT ![t] = Nil]
      PROVE  OnePlace'
  <2>1. \A u \in Threads : msg'[u] # Nil => msg'[u] = msg[u]
    BY <1>0, <1>1 DEF Return
  <2>2. \A u \in Threads : reply'[u] # Nil => reply'[u] = reply[u]
    BY <1>1 DEF CoreInv, TypeOK
  <2> QED BY <1>1, <2>1, <2>2, PlaceDropped
<1>2. CASE UNCHANGED <<queues, msg, reply>>
  BY <1>2, PlaceDropped
<1>3. ASSUME NEW t \in Threads, PushStep(t) PROVE OnePlace'
  BY <1>1, <1>2, <1>3, PlaceSent, PlaceEnqueued
  DEF PushStep, PushHandoff, PushBlock, PushNotify, PushWake, PushCancelled
<1>4. ASSUME NEW t \in Threads, PopStep(t) PROVE OnePlace'
  BY <1>1, <1>2, <1>4, PlaceDequeued
  DEF PopStep, PopExpired, PopWait, PopReceive, PopDone, PopRemoveWaiter, PopPoll
<1>5. ASSUME NEW t \in Pushers, NEW c \in Channels, NEW m \in Messages,
             PushCall(t, c, m) \/ PushInvalid(t, c, m)
      PROVE  OnePlace'
  BY <1>1, <1>5, PlaceCalled DEF PushInvalid, Threads
<1>6. ASSUME NEW t \in Poppers, NEW cs \in PopLists, PopCall(t, cs) \/ PopInvalid(t, cs)
      PROVE  OnePlace'
  BY <1>1, <1>2, <1>6 DEF PopCall, PopInvalid, Threads
<1>7. ASSUME NEW t \in Threads, CtxDone(t) PROVE OnePlace'
  BY <1>2, <1>7 DEF CtxDone
<1>8. CASE UNCHANGED vars
  BY <1>2, <1>8 DEF vars, locals
<1> QED BY <1>3, <1>4, <1>5, <1>6, <1>7, <1>8 DEF Next, Step

\* Push and Pop move a payload and never copy it: it is with one Push, in one
\* position of one queue or in one reply buffer, so no message is delivered
\* twice.
THEOREM PayloadsAreInOnePlace == Spec => []OnePlace
<1>1. Init => OnePlace
  BY DEF Init, OnePlace, Queued
<1>2. CoreInv /\ OnePlace /\ [Next]_vars => OnePlace'
  BY PlaceStep
<1> QED BY <1>1, <1>2, CoreInvariance, PTL DEF Spec

-----------------------------------------------------------------------------
(* The accounted bytes are the bytes in the queues                         *)

\* The bytes of payload m, each named by the payload and its position in it.
Bytes(m) == {m} \X (1..Size[m])

\* As every payload is in one place, a byte in the queues is known by its
\* payload: these sets are the same size, and this one is easier to follow.
QueuedBytes == UNION {Bytes(m) : m \in {n \in Messages : Queued(n)}}

LEMMA DisjointCount ==
  ASSUME NEW A, NEW B, IsFiniteSet(A), IsFiniteSet(B), A \cap B = {}
  PROVE  /\ IsFiniteSet(A \cup B) /\ Cardinality(A) \in Nat
         /\ Cardinality(A \cup B) = Cardinality(A) + Cardinality(B)
<1>1. Cardinality(A) \in Nat /\ Cardinality(B) \in Nat
  BY FS_CardinalityType
<1>2. Cardinality(A \cap B) = 0
  BY FS_EmptySet
<1>3. /\ IsFiniteSet(A \cup B)
      /\ Cardinality(A \cup B) = Cardinality(A) + Cardinality(B) - Cardinality(A \cap B)
  BY FS_Union
<1> QED BY <1>1, <1>2, <1>3

LEMMA BytesCounted ==
  ASSUME NEW m \in Messages
  PROVE  IsFiniteSet(Bytes(m)) /\ Cardinality(Bytes(m)) = Size[m]
<1>1. Size[m] \in Nat
  BY BrokerAssumption
<1>2. IsFiniteSet(1..Size[m]) /\ Cardinality(1..Size[m]) = Size[m]
  BY <1>1, FS_Interval
<1> DEFINE f == [b \in 1..Size[m] |-> <<m, b>>]
<1>3. f \in Bijection(1..Size[m], Bytes(m))
  BY DEF Bytes, Bijection, Injection, IsInjective, Surjection
<1>4. ExistsBijection(1..Size[m], Bytes(m))
  BY <1>3 DEF ExistsBijection
<1> QED BY <1>2, <1>4, FS_Bijection

LEMMA QueuedIsMessage ==
  ASSUME CoreInv, NEW c \in Channels, NEW i \in DOMAIN queues[c]
  PROVE  queues[c][i] \in Messages /\ Queued(queues[c][i])
<1>1. queues[c] \in Seq(Messages)
  BY DEF CoreInv, TypeOK
<1> QED BY <1>1, ElementOfSeq, LenProperties DEF Queued

LEMMA BytesByPayload ==
  ASSUME CoreInv, OnePlace, IsFiniteSet(QueuedBytes)
  PROVE  Cardinality(BytesInQueues) = Cardinality(QueuedBytes)
<1> DEFINE f == [p \in BytesInQueues |-> <<queues[p[1]][p[2]], p[3]>>]
<1>1. ASSUME NEW p \in BytesInQueues
      PROVE  \E c \in Channels : \E i \in DOMAIN queues[c] :
               \E b \in 1..Size[queues[c][i]] : p = <<c, i, b>>
  BY DEF BytesInQueues
<1>2. ASSUME NEW c \in Channels, NEW i \in DOMAIN queues[c],
             NEW b \in 1..Size[queues[c][i]]
      PROVE  <<c, i, b>> \in BytesInQueues
  BY DEF BytesInQueues
<1>3. f \in [BytesInQueues -> QueuedBytes]
  <2>1. ASSUME NEW p \in BytesInQueues PROVE f[p] \in QueuedBytes
    <3>1. PICK c \in Channels : \E i \in DOMAIN queues[c] :
            \E b \in 1..Size[queues[c][i]] : p = <<c, i, b>>
      BY <1>1
    <3>2. PICK i \in DOMAIN queues[c] : \E b \in 1..Size[queues[c][i]] : p = <<c, i, b>>
      BY <3>1
    <3>3. PICK b \in 1..Size[queues[c][i]] : p = <<c, i, b>>
      BY <3>2
    <3>4. queues[c][i] \in Messages /\ Queued(queues[c][i])
      BY QueuedIsMessage
    <3>5. f[p] = <<queues[c][i], b>>
      BY <3>3
    <3> HIDE DEF f
    <3> QED BY <3>4, <3>5 DEF QueuedBytes, Bytes
  <2> QED BY <2>1
<1>4. ASSUME NEW p \in BytesInQueues, NEW q \in BytesInQueues, f[p] = f[q]
      PROVE  p = q
  <2>1. PICK c \in Channels : \E i \in DOMAIN queues[c] : \E b : p = <<c, i, b>>
    BY <1>1
  <2>2. PICK i \in DOMAIN queues[c] : \E b : p = <<c, i, b>>
    BY <2>1
  <2>3. PICK b : p = <<c, i, b>>
    BY <2>2
  <2>4. PICK d \in Channels : \E j \in DOMAIN queues[d] : \E a : q = <<d, j, a>>
    BY <1>1
  <2>5. PICK j \in DOMAIN queues[d] : \E a : q = <<d, j, a>>
    BY <2>4
  <2>6. PICK a : q = <<d, j, a>>
    BY <2>5
  <2>7. <<queues[c][i], b>> = <<queues[d][j], a>>
    BY <1>4, <2>3, <2>6
  <2>8. queues[c][i] = queues[d][j] /\ b = a
    BY <2>7
  <2>9. c = d /\ i = j
    BY <2>8 DEF OnePlace
  <2> QED BY <2>3, <2>6, <2>8, <2>9
<1>5. ASSUME NEW x \in QueuedBytes PROVE \E p \in BytesInQueues : f[p] = x
  <2>1. PICK m \in Messages : Queued(m) /\ x \in Bytes(m)
    BY DEF QueuedBytes
  <2>2. PICK b \in 1..Size[m] : x = <<m, b>>
    BY <2>1 DEF Bytes
  <2>3. PICK c \in Channels : \E i \in DOMAIN queues[c] : queues[c][i] = m
    BY <2>1 DEF Queued
  <2>4. PICK i \in DOMAIN queues[c] : queues[c][i] = m
    BY <2>3
  <2>5. <<c, i, b>> \in BytesInQueues
    BY <1>2, <2>2, <2>4
  <2>6. f[<<c, i, b>>] = x
    BY <2>2, <2>4, <2>5
  <2> QED BY <2>5, <2>6
<1> HIDE DEF f
<1>6. f \in Injection(BytesInQueues, QueuedBytes)
  BY <1>3, <1>4 DEF Injection, IsInjective
<1>7. f \in Surjection(BytesInQueues, QueuedBytes)
  BY <1>3, <1>5 DEF Surjection
<1> QED BY <1>6, <1>7, FS_Injection

ByteInv == IsFiniteSet(QueuedBytes) /\ queuedBytes = Cardinality(QueuedBytes)

LEMMA BytesEnqueued ==
  ASSUME CoreInv, OnePlace, ByteInv, NEW t \in Threads, PushEnqueue(t)
  PROVE  ByteInv'
<1> DEFINE e == msg[t].channel
           m == msg[t].payload
<1>1. e \in Channels /\ m \in Messages /\ msg[t] # Nil
  BY Locals DEF PushEnqueue, CoreInv, ControlOK, PushPC
<1>2. /\ queues' = [queues EXCEPT ![e] = Append(@, m)]
      /\ queuedBytes' = queuedBytes + Size[m]
  BY DEF PushEnqueue
<1>3. ~Queued(m)
  BY <1>1 DEF OnePlace
<1>4. \A p : Queued(p)' <=> Queued(p) \/ p = m
  <2>1. /\ queues \in [Channels -> Seq(Messages)]
        /\ \A c \in Channels : c # e => queues'[c] = queues[c]
        /\ queues'[e] = Append(queues[e], m) /\ queues[e] \in Seq(Messages)
    BY <1>1, <1>2 DEF CoreInv, TypeOK
  <2> HIDE DEF e, m
  <2>2. /\ Len(queues[e]) \in Nat /\ DOMAIN queues[e] = 1..Len(queues[e])
        /\ DOMAIN queues'[e] = 1..(Len(queues[e]) + 1)
        /\ \A i \in DOMAIN queues[e] : queues'[e][i] = queues[e][i]
        /\ queues'[e][Len(queues[e]) + 1] = m
    BY <1>1, <2>1, AppendElements, LenProperties
  <2>3. \A p : Queued(p) => Queued(p)'
    BY <1>1, <2>1, <2>2 DEF Queued
  <2>4. \E c \in Channels : \E i \in DOMAIN queues'[c] : queues'[c][i] = m
    <3>1. Len(queues[e]) + 1 \in DOMAIN queues'[e]
      BY <2>2
    <3> QED BY <1>1, <2>2, <3>1
  <2>5. \A p : Queued(p)' => Queued(p) \/ p = m
    <3>1. \A c \in Channels : \A i \in DOMAIN queues'[c] :
            \/ i \in DOMAIN queues[c] /\ queues'[c][i] = queues[c][i]
            \/ queues'[c][i] = m
      BY <1>1, <1>2, EnqueuedPlaces
    <3> QED BY <3>1 DEF Queued
  <2> QED BY <2>3, <2>4, <2>5 DEF Queued
<1> HIDE DEF e, m
<1>5. QueuedBytes' = QueuedBytes \cup Bytes(m)
  BY <1>1, <1>4 DEF QueuedBytes, Bytes
<1>6. QueuedBytes \cap Bytes(m) = {}
  BY <1>3 DEF QueuedBytes, Bytes
<1>7. IsFiniteSet(Bytes(m)) /\ Cardinality(Bytes(m)) = Size[m] /\ Size[m] \in Nat
  BY <1>1, BytesCounted, BrokerAssumption
<1>8. /\ IsFiniteSet(QueuedBytes') /\ Cardinality(QueuedBytes) \in Nat
      /\ Cardinality(QueuedBytes') = Cardinality(QueuedBytes) + Size[m]
  BY <1>5, <1>6, <1>7, DisjointCount DEF ByteInv
<1> QED BY <1>2, <1>8 DEF ByteInv

LEMMA BytesDequeued ==
  ASSUME CoreInv, OnePlace, ByteInv, NEW t \in Threads, PopQueued(t)
  PROVE  ByteInv'
<1>1. PICK i \in DOMAIN channels[t] :
        /\ queues[channels[t][i]] # <<>>
        /\ queues' = [queues EXCEPT ![channels[t][i]] = Tail(@)]
        /\ queuedBytes' = queuedBytes - Size[Head(queues[channels[t][i]])]
  BY DEF PopQueued, FirstQueued
<1> DEFINE e == channels[t][i]
           m == Head(queues[e])
<1>2. e \in Channels /\ queues[e] \in Seq(Messages)
  BY Locals
<1>3. m \in Messages /\ Tail(queues[e]) \in Seq(Messages) /\ queues[e] # <<>>
  BY <1>1, <1>2, HeadTailProperties
<1>4. /\ \A c \in Channels : c # e => queues'[c] = queues[c]
      /\ queues'[e] = Tail(queues[e])
  BY <1>1, <1>2 DEF CoreInv, TypeOK
<1> HIDE DEF e
<1>5. /\ Len(queues[e]) \in Nat \ {0} /\ DOMAIN queues[e] = 1..Len(queues[e])
      /\ DOMAIN queues'[e] = 1..(Len(queues[e]) - 1)
      /\ \A j \in DOMAIN queues'[e] : queues'[e][j] = queues[e][j + 1]
      /\ m = queues[e][1]
  <2>1. Len(queues[e]) \in Nat \ {0} /\ DOMAIN queues[e] = 1..Len(queues[e])
    BY <1>2, <1>3, LenProperties, EmptySeq
  <2>2. /\ Len(queues'[e]) = Len(queues[e]) - 1 /\ queues'[e] \in Seq(Messages)
        /\ \A j \in 1..Len(queues'[e]) : queues'[e][j] = queues[e][j + 1]
    BY <1>2, <1>3, <1>4, HeadTailProperties
  <2>3. m = queues[e][1]
    BY <1>2, <1>3
  <2>4. DOMAIN queues'[e] = 1..Len(queues'[e])
    BY <2>2, LenProperties
  <2> QED BY <2>1, <2>2, <2>3, <2>4
<1> HIDE DEF m
<1>6. Queued(m) /\ 1 \in DOMAIN queues[e]
  BY <1>2, <1>5 DEF Queued
<1>7. \A p : p # m /\ Queued(p) => Queued(p)'
  <2>1. ASSUME NEW p, p # m, NEW c \in Channels, NEW j \in DOMAIN queues[c],
               queues[c][j] = p
        PROVE  Queued(p)'
    <3>1. CASE c # e
      BY <1>4, <2>1, <3>1 DEF Queued
    <3>2. CASE c = e
      <4>1. j \in 2..Len(queues[e])
        BY <1>5, <2>1, <3>2
      <4>2. j - 1 \in DOMAIN queues'[e] /\ queues'[e][j - 1] = p
        BY <1>5, <2>1, <3>2, <4>1
      <4> QED BY <1>2, <4>2 DEF Queued
    <3> QED BY <3>1, <3>2
  <2> QED BY <2>1 DEF Queued
<1>8. \A p : Queued(p)' => Queued(p) /\ p # m
  <2>1. ASSUME NEW c \in Channels, NEW j \in DOMAIN queues'[c]
        PROVE  Queued(queues'[c][j]) /\ queues'[c][j] # m
    <3>1. CASE c # e
      BY <1>2, <1>4, <1>5, <1>6, <3>1 DEF Queued, OnePlace
    <3>2. CASE c = e
      <4>1. j + 1 \in DOMAIN queues[e] /\ queues'[c][j] = queues[e][j + 1] /\ j + 1 # 1
        BY <1>5, <3>2
      <4> QED BY <1>2, <1>5, <1>6, <4>1 DEF Queued, OnePlace
    <3> QED BY <3>1, <3>2
  <2> QED BY <2>1 DEF Queued
<1>9. QueuedBytes = QueuedBytes' \cup Bytes(m) /\ QueuedBytes' \cap Bytes(m) = {}
  BY <1>3, <1>6, <1>7, <1>8 DEF QueuedBytes, Bytes
<1>10. IsFiniteSet(Bytes(m)) /\ Cardinality(Bytes(m)) = Size[m] /\ Size[m] \in Nat
  BY <1>3, BytesCounted, BrokerAssumption
<1>11. IsFiniteSet(QueuedBytes')
  BY <1>9, FS_Subset DEF ByteInv
<1>12. /\ Cardinality(QueuedBytes') \in Nat
       /\ Cardinality(QueuedBytes) = Cardinality(QueuedBytes') + Size[m]
  BY <1>9, <1>10, <1>11, DisjointCount
<1>13. queuedBytes' = queuedBytes - Size[m]
  BY <1>1 DEF e, m
<1> QED BY <1>10, <1>11, <1>12, <1>13 DEF ByteInv

LEMMA BytesStep ==
  ASSUME CoreInv, OnePlace, ByteInv, [Next]_vars
  PROVE  ByteInv'
<1>1. CASE UNCHANGED <<queues, queuedBytes>>
  BY <1>1 DEF ByteInv, QueuedBytes, Queued
<1> QED BY <1>1, QueuesFrame, BytesEnqueued, BytesDequeued DEF vars, shared

\* b.queuedBytes is exactly the number of bytes in the queues, whatever pushes
\* are queued, handed off, blocked or cancelled and whatever is popped.
THEOREM NoByteDrifts == Spec => []QueuedBytesExact
<1>1. Init => OnePlace
  BY DEF Init, OnePlace, Queued
<1>2. CoreInv /\ OnePlace /\ [Next]_vars => OnePlace'
  BY PlaceStep
<1>3. Init => ByteInv
  <2>1. Init => QueuedBytes = {}
    BY DEF Init, QueuedBytes, Queued
  <2> QED BY <2>1, FS_EmptySet DEF Init, ByteInv
<1>4. CoreInv /\ OnePlace /\ ByteInv /\ [Next]_vars => ByteInv'
  BY BytesStep
<1>5. CoreInv /\ OnePlace /\ ByteInv => QueuedBytesExact
  BY BytesByPayload DEF ByteInv, QueuedBytesExact
<1> QED BY <1>1, <1>2, <1>3, <1>4, <1>5, CoreInvariance, PTL DEF Spec

-----------------------------------------------------------------------------
(* Refinement: every call of Push or Pop takes effect at one instant       *)
(* between its call and its return.                                        *)


\* The state of ChannelQueue under the refinement mapping.
absMsg == [t \in Threads |-> IF Linearized(t) THEN Nil ELSE msg[t]]

absChannels == [t \in Threads |-> IF Linearized(t) THEN <<>> ELSE channels[t]]

absCtxDone == [t \in Threads |-> ctxDone[t] /\ ~Linearized(t)]

absResult == [t \in Threads |-> Effect(t)]

\* A Pop goes to removeWaiterLocked only when its context is done.
ExpiredDone == \A t \in Threads : pc[t] = "expired" => ctxDone[t]

RefInv == CoreInv /\ WaitersFindNothing /\ ExpiredDone

LEMMA ExpiredDoneStep ==
  ASSUME CoreInv, ExpiredDone, [Next]_vars
  PROVE  ExpiredDone'
<1> USE DEF shared, PushPC, PopPC
<1>1. ASSUME NEW t \in Threads,
             \/ \E label : Goto(t, label) /\ label # "expired" /\ UNCHANGED ctxDone
             \/ \E err, val : Return(t, err, val)
      PROVE  ExpiredDone'
  BY <1>1 DEF CoreInv, TypeOK, ExpiredDone, Return, Goto
<1>2. ASSUME NEW t \in Threads, PushStep(t) PROVE ExpiredDone'
  BY <1>1, <1>2
  DEF PushStep, PushHandoff, PushSend, PushEnqueue, PushBlock, PushNotify, PushWake, PushCancelled
<1>3. ASSUME NEW t \in Threads, PopDone(t) PROVE ExpiredDone'
  BY <1>3 DEF PopDone, Goto, CoreInv, TypeOK, ExpiredDone
<1>4. ASSUME NEW t \in Threads, PopStep(t) PROVE ExpiredDone'
  BY <1>1, <1>3, <1>4
  DEF PopStep, PopQueued, PopExpired, PopWait, PopReceive, PopRemoveWaiter, PopPoll
<1>5. ASSUME NEW t \in Pushers, NEW c \in Channels, NEW m \in Messages,
             PushCall(t, c, m) \/ PushInvalid(t, c, m)
      PROVE  ExpiredDone'
  BY <1>1, <1>5 DEF PushCall, PushInvalid, Threads
<1>6. ASSUME NEW t \in Poppers, NEW cs \in PopLists, PopCall(t, cs) \/ PopInvalid(t, cs)
      PROVE  ExpiredDone'
  BY <1>1, <1>6 DEF PopCall, PopInvalid, Threads
<1>7. ASSUME NEW t \in Threads, CtxDone(t) PROVE ExpiredDone'
  BY <1>7 DEF CtxDone, CoreInv, TypeOK, ExpiredDone
<1>8. CASE UNCHANGED vars
  BY <1>8 DEF vars, locals, ExpiredDone
<1> QED BY <1>2, <1>4, <1>5, <1>6, <1>7, <1>8 DEF Next, Step

LEMMA RefInvariance == Spec => []RefInv
<1>1. Init => RefInv
  BY InitCore DEF Init, RefInv, WaitersFindNothing, ExpiredDone
<1>2. RefInv /\ [Next]_vars => RefInv'
  BY CoreStep, WaitersStep, ExpiredDoneStep DEF RefInv
<1> QED BY <1>1, <1>2, PTL DEF Spec

-----------------------------------------------------------------------------
(* What the refinement mapping says of one goroutine                       *)

\* The value a linearized Pop will return is the one in its reply buffer, or
\* the message of the Push that is on its way to it.
MappingKnown ==
  \A t \in Threads :
    /\ absMsg[t] = IF Linearized(t) THEN Nil ELSE msg[t]
    /\ absChannels[t] = IF Linearized(t) THEN <<>> ELSE channels[t]
    /\ absCtxDone[t] = (ctxDone[t] /\ ~Linearized(t))
    /\ ~Linearized(t) => absResult[t] = result[t]
    /\ pc[t] = "send" => absResult[t] = Returned("nil", Nil)
    /\ pc[t] = "poll" => absResult[t] = Returned("timeout", Nil)
    /\ Expecting(t) /\ reply[t] # Nil =>
         Linearized(t) /\ absResult[t] = Returned("nil", reply[t])
    /\ \A s \in Threads : Sending(s, t) =>
         Linearized(t) /\ absResult[t] = Returned("nil", msg[s])

LEMMA Mapping == CoreInv => MappingKnown
<1> SUFFICES ASSUME CoreInv, NEW t \in Threads
             PROVE  MappingKnown!(t)
  BY DEF MappingKnown
<1>1. /\ absMsg[t] = IF Linearized(t) THEN Nil ELSE msg[t]
      /\ absChannels[t] = IF Linearized(t) THEN <<>> ELSE channels[t]
      /\ absCtxDone[t] = (ctxDone[t] /\ ~Linearized(t))
      /\ absResult[t] = Effect(t)
  BY DEF absMsg, absChannels, absCtxDone, absResult
<1>2. /\ ~Linearized(t) => Effect(t) = result[t]
      /\ pc[t] = "send" => Effect(t) = Returned("nil", Nil)
      /\ pc[t] = "poll" => Effect(t) = Returned("timeout", Nil)
      /\ Linearized(t) /\ Expecting(t) => Effect(t) = Returned("nil", Promised(t))
  BY DEF Effect, Linearized, Expecting
<1>3. Expecting(t) /\ reply[t] # Nil =>
         Linearized(t) /\ Promised(t) = reply[t]
  BY DEF Promised, CoreInv, HandoffExact, Linearized, Expecting
<1>4. ASSUME NEW s \in Threads, Sending(s, t)
      PROVE  Linearized(t) /\ Expecting(t) /\ Promised(t) = msg[s]
  <2>1. Expecting(t) /\ ~Listed(t) /\ reply[t] = Nil
    BY <1>4 DEF CoreInv, HandoffExact
  <2>2. Linearized(t)
    BY <2>1 DEF Linearized, Expecting
  <2>3. (CHOOSE u \in Threads : Sending(u, t)) = s
    BY <1>4 DEF CoreInv, HandoffExact
  <2> QED BY <2>1, <2>2, <2>3 DEF Promised
<1> QED BY <1>1, <1>2, <1>3, <1>4

LEMMA MappingNext == CoreInv' => MappingKnown'
BY Mapping, PTL

-----------------------------------------------------------------------------
(* Steps as ChannelQueue sees them                                         *)

\* ChannelQueue sees no change in u.
Same(u) ==
  /\ absMsg'[u] = absMsg[u]
  /\ absChannels'[u] = absChannels[u]
  /\ absCtxDone'[u] = absCtxDone[u]
  /\ absResult'[u] = absResult[u]

\* In ChannelQueue the call of u is over, with result r.
Over(u, r) ==
  /\ absMsg'[u] = Nil
  /\ absChannels'[u] = <<>>
  /\ absCtxDone'[u] = FALSE
  /\ absResult'[u] = r

\* The step is one of goroutine t: nobody else's locals change.
Only(t) ==
  \A v \in Threads \ {t} :
    /\ pc'[v] = pc[v] /\ msg'[v] = msg[v] /\ channels'[v] = channels[v]
    /\ target'[v] = target[v] /\ ctxDone'[v] = ctxDone[v] /\ result'[v] = result[v]

LEMMA AbsComplete ==
  ASSUME NEW T, NEW r, \A u \in Threads : IF u \in T THEN Over(u, r[u]) ELSE Same(u)
  PROVE  CQ!Complete(T, r)
<1>1. absMsg' = [u \in Threads |-> IF u \in T THEN Nil ELSE absMsg[u]]
  BY DEF Over, Same, absMsg
<1>2. absChannels' = [u \in Threads |-> IF u \in T THEN <<>> ELSE absChannels[u]]
  BY DEF Over, Same, absChannels
<1>3. absCtxDone' = [u \in Threads |-> IF u \in T THEN FALSE ELSE absCtxDone[u]]
  BY DEF Over, Same, absCtxDone
<1>4. absResult' = [u \in Threads |-> IF u \in T THEN r[u] ELSE absResult[u]]
  BY DEF Over, Same, absResult
<1> QED BY <1>1, <1>2, <1>3, <1>4 DEF CQ!Complete, absMsg, absChannels, absCtxDone, absResult

LEMMA AbsStutter ==
  ASSUME \A u \in Threads : Same(u), UNCHANGED queues
  PROVE  UNCHANGED CQ!vars
<1>1. absMsg' = absMsg
  BY DEF Same, absMsg
<1>2. absChannels' = absChannels
  BY DEF Same, absChannels
<1>3. absCtxDone' = absCtxDone
  BY DEF Same, absCtxDone
<1>4. absResult' = absResult
  BY DEF Same, absResult
<1> QED BY <1>1, <1>2, <1>3, <1>4 DEF CQ!vars, absMsg, absChannels, absCtxDone, absResult

\* A Pop that is off the list keeps its promised message while nobody touches
\* its reply buffer or the Push that is on its way.
LEMMA PromiseSame ==
  ASSUME CoreInv, CoreInv', NEW u \in Threads,
         Expecting(u), ~Listed(u), Expecting(u)', ~Listed(u)', reply'[u] = reply[u],
         \A s \in Threads : Sending(s, u) => Sending(s, u)' /\ msg'[s] = msg[s]
  PROVE  Same(u)
<1> USE Mapping, MappingNext
<1>1. Linearized(u) /\ Linearized(u)'
  BY DEF Linearized, Expecting
<1>2. absMsg'[u] = absMsg[u] /\ absChannels'[u] = absChannels[u] /\ absCtxDone'[u] = absCtxDone[u]
  BY <1>1 DEF MappingKnown
<1>3. CASE reply[u] # Nil
  BY <1>2, <1>3 DEF Same, MappingKnown
<1>4. ASSUME NEW s \in Threads, Sending(s, u) PROVE Same(u)
  BY <1>2, <1>4 DEF Same, MappingKnown
<1> QED BY <1>3, <1>4 DEF CoreInv, HandoffExact

\* A step of t changes nothing for u unless it takes u off the list or sends.
LEMMA OthersSame ==
  ASSUME CoreInv, CoreInv', NEW t \in Threads, pc[t] # "send", Only(t),
         NEW u \in Threads, u # t, reply'[u] = reply[u], Listed(u)' <=> Listed(u)
  PROVE  Same(u)
<1> USE Mapping, MappingNext
<1>1. Linearized(u)' <=> Linearized(u)
  BY DEF Only, Linearized
<1>2. absMsg'[u] = absMsg[u] /\ absChannels'[u] = absChannels[u] /\ absCtxDone'[u] = absCtxDone[u]
  BY <1>1 DEF Only, MappingKnown
<1>3. CASE ~Linearized(u)
  BY <1>1, <1>2, <1>3 DEF Same, Only, MappingKnown
<1>4. CASE pc[u] \in {"send", "poll"}
  BY <1>2, <1>4 DEF Same, Only, MappingKnown
<1>5. CASE Linearized(u) /\ Expecting(u)
  <2>1. ~Listed(u) /\ Expecting(u)'
    BY <1>5 DEF Linearized, Expecting, CoreInv, ControlOK, Only
  <2>2. \A s \in Threads : Sending(s, u) => Sending(s, u)' /\ msg'[s] = msg[s]
    BY DEF Sending, Only
  <2> QED BY <1>5, <2>1, <2>2, PromiseSame
<1> QED BY <1>3, <1>4, <1>5 DEF Linearized, Expecting

LEMMA ReturnOver ==
  ASSUME CoreInv, CoreInv', NEW t \in Threads, NEW err, NEW val, Return(t, err, val)
  PROVE  Only(t) /\ Over(t, Returned(err, val))
<1>1. /\ pc'[t] = "idle" /\ msg'[t] = Nil /\ channels'[t] = <<>> /\ ctxDone'[t] = FALSE
      /\ result'[t] = Returned(err, val)
  BY DEF Return, Goto, CoreInv, TypeOK
<1>2. Only(t)
  BY DEF Only, Return, Goto, CoreInv, TypeOK
<1>3. ~Linearized(t)'
  BY <1>1 DEF Linearized
<1> QED BY <1>1, <1>2, <1>3, MappingNext DEF Over, MappingKnown

\* A return that other goroutines do not notice completes the call of t.
LEMMA ReturnCompletes ==
  ASSUME CoreInv, CoreInv', NEW t \in Threads, NEW err, NEW val, Return(t, err, val),
         pc[t] # "send", UNCHANGED waiters,
         \A u \in Threads : u # t => reply'[u] = reply[u]
  PROVE  CQ!Complete({t}, [u \in {t} |-> Returned(err, val)])
<1>1. \A u \in Threads : u # t => Same(u)
  BY OthersSame, ReturnOver DEF Listed
<1> QED BY <1>1, ReturnOver, AbsComplete

\* Before it takes effect, a call is in ChannelQueue what it is in the broker.
LEMMA Pending ==
  ASSUME CoreInv, NEW t \in Threads, ~Linearized(t)
  PROVE  /\ absMsg[t] = msg[t] /\ absChannels[t] = channels[t]
         /\ absCtxDone[t] = ctxDone[t] /\ absResult[t] = result[t]
BY Mapping DEF MappingKnown, CoreInv, TypeOK

-----------------------------------------------------------------------------
(* One lemma per action                                                    *)

LEMMA RefPushCall ==
  ASSUME CoreInv, CoreInv', NEW t \in Threads, NEW c \in Channels, NEW m \in Messages,
         PushCall(t, c, m)
  PROVE  CQ!Next
<1> DEFINE d == [channel |-> c, payload |-> m]
<1>1. /\ pc[t] = "idle" /\ pc' = [pc EXCEPT ![t] = "push"] /\ msg' = [msg EXCEPT ![t] = d]
      /\ result' = [result EXCEPT ![t] = Returned("none", Nil)]
      /\ UNCHANGED <<queues, waiters, channels, target, reply, ctxDone>>
  BY DEF PushCall, Goto, shared
<1>2. d \in CQ!Delivery
  BY DEF CQ!Delivery
<1> HIDE DEF d
<1>3. ~Linearized(t) /\ ~Linearized(t)' /\ msg[t] = Nil /\ channels[t] = <<>>
  BY <1>1 DEF Linearized, CoreInv, TypeOK, ControlOK, PushPC, PopPC
<1>4. /\ absMsg[t] = Nil /\ absChannels[t] = <<>>
      /\ absMsg'[t] = d /\ absChannels'[t] = absChannels[t] /\ absCtxDone'[t] = absCtxDone[t]
      /\ absResult'[t] = Returned("none", Nil)
  BY <1>1, <1>3, Mapping, MappingNext DEF MappingKnown, CoreInv, TypeOK
<1>5. Only(t)
  BY <1>1 DEF Only, CoreInv, TypeOK
<1>6. \A u \in Threads : u # t => Same(u)
  BY <1>1, <1>5, OthersSame DEF Listed
<1>7. absMsg' = [absMsg EXCEPT ![t] = d]
  BY <1>4, <1>6 DEF Same, absMsg
<1>8. absResult' = [absResult EXCEPT ![t] = Returned("none", Nil)]
  BY <1>4, <1>6 DEF Same, absResult
<1>9. absChannels' = absChannels /\ absCtxDone' = absCtxDone
  BY <1>4, <1>6 DEF Same, absChannels, absCtxDone
<1>10. CQ!CallPush(t, d)
  BY <1>1, <1>4, <1>7, <1>8, <1>9
  DEF CQ!CallPush, CQ!Idle, CQ!Returned, Returned, absMsg, absChannels, absCtxDone, absResult
<1> QED BY <1>2, <1>10 DEF CQ!Next

LEMMA RefPopCall ==
  ASSUME CoreInv, CoreInv', NEW t \in Threads, NEW cs \in PopLists, PopCall(t, cs)
  PROVE  CQ!Next
<1>1. /\ pc[t] = "idle" /\ pc' = [pc EXCEPT ![t] = "pop"] /\ cs # <<>>
      /\ channels' = [channels EXCEPT ![t] = cs]
      /\ result' = [result EXCEPT ![t] = Returned("none", Nil)]
      /\ UNCHANGED <<queues, waiters, msg, target, reply, ctxDone>>
  BY DEF PopCall, ValidPop, Goto, shared
<1>2. ~Linearized(t) /\ ~Linearized(t)' /\ msg[t] = Nil /\ channels[t] = <<>>
  BY <1>1 DEF Linearized, CoreInv, TypeOK, ControlOK, PushPC, PopPC
<1>3. /\ absMsg[t] = Nil /\ absChannels[t] = <<>>
      /\ absMsg'[t] = absMsg[t] /\ absChannels'[t] = cs /\ absCtxDone'[t] = absCtxDone[t]
      /\ absResult'[t] = Returned("none", Nil)
  BY <1>1, <1>2, Mapping, MappingNext DEF MappingKnown, CoreInv, TypeOK
<1>4. Only(t)
  BY <1>1 DEF Only, CoreInv, TypeOK
<1>5. \A u \in Threads : u # t => Same(u)
  BY <1>1, <1>4, OthersSame DEF Listed
<1>6. absChannels' = [absChannels EXCEPT ![t] = cs]
  BY <1>3, <1>5 DEF Same, absChannels
<1>7. absResult' = [absResult EXCEPT ![t] = Returned("none", Nil)]
  BY <1>3, <1>5 DEF Same, absResult
<1>8. absMsg' = absMsg /\ absCtxDone' = absCtxDone
  BY <1>3, <1>5 DEF Same, absMsg, absCtxDone
<1>9. CQ!CallPop(t, cs)
  BY <1>1, <1>3, <1>6, <1>7, <1>8
  DEF CQ!CallPop, CQ!Idle, CQ!Returned, Returned, absMsg, absChannels, absCtxDone, absResult
<1> QED BY <1>9 DEF CQ!Next

LEMMA RefInvalid ==
  ASSUME CoreInv, CoreInv', NEW t \in Threads, pc[t] = "idle",
         Return(t, "invalid", Nil), UNCHANGED <<shared, reply>>
  PROVE  CQ!Next
<1>1. CQ!Complete({t}, [u \in {t} |-> Returned("invalid", Nil)])
  BY ReturnCompletes DEF shared
<1>2. ~Linearized(t) /\ msg[t] = Nil /\ channels[t] = <<>>
  BY DEF Linearized, CoreInv, TypeOK, ControlOK, PushPC, PopPC
<1>3. absMsg[t] = Nil /\ absChannels[t] = <<>>
  BY <1>2, Pending
<1>4. CQ!Reject(t)
  BY <1>1, <1>3 DEF CQ!Reject, CQ!Idle, CQ!Returned, Returned, shared, absMsg, absChannels
<1> QED BY <1>4 DEF CQ!Next

LEMMA RefEnqueue ==
  ASSUME CoreInv, CoreInv', NEW t \in Threads, PushEnqueue(t)
  PROVE  CQ!Next
<1>1. CQ!Complete({t}, [u \in {t} |-> Returned("nil", Nil)])
  BY ReturnCompletes DEF PushEnqueue
<1>2. ~Linearized(t) /\ msg[t] # Nil
  BY DEF PushEnqueue, Linearized, CoreInv, ControlOK, PushPC
<1>3. absMsg[t] = msg[t]
  BY <1>2, Pending
<1>4. queues' = [queues EXCEPT ![absMsg[t].channel] = Append(@, absMsg[t].payload)]
  BY <1>3 DEF PushEnqueue
<1>5. CQ!Enqueue(t)
  BY <1>1, <1>2, <1>3, <1>4 DEF CQ!Enqueue, CQ!Pushing, CQ!Returned, Returned, absMsg
<1> QED BY <1>5 DEF CQ!Next

LEMMA RefCancelPush ==
  ASSUME CoreInv, CoreInv', NEW t \in Threads, PushCancelled(t)
  PROVE  CQ!Next
<1>1. CQ!Complete({t}, [u \in {t} |-> Returned("timeout", Nil)])
  BY ReturnCompletes DEF PushCancelled
<1>2. ~Linearized(t) /\ msg[t] # Nil /\ ctxDone[t]
  BY DEF PushCancelled, Linearized, CoreInv, ControlOK, PushPC
<1>3. absMsg[t] # Nil /\ absCtxDone[t]
  BY <1>2, Pending
<1>4. CQ!CancelPush(t)
  BY <1>1, <1>3
  DEF CQ!CancelPush, CQ!Pushing, CQ!Returned, Returned, PushCancelled, absMsg, absCtxDone
<1> QED BY <1>4 DEF CQ!Next

LEMMA RefDequeue ==
  ASSUME CoreInv, CoreInv', NEW t \in Threads, PopQueued(t)
  PROVE  CQ!Next
<1>1. ~Linearized(t) /\ pc[t] = "pop" /\ UNCHANGED <<waiters, reply>>
  BY DEF PopQueued, Linearized
<1>2. absChannels[t] = channels[t]
  BY <1>1, Pending
<1>3. PICK i \in DOMAIN channels[t] :
        /\ FirstQueued(t, i)
        /\ queues' = [queues EXCEPT ![channels[t][i]] = Tail(@)]
        /\ Return(t, "nil", [channel |-> channels[t][i], payload |-> Head(queues[channels[t][i]])])
  BY DEF PopQueued
<1>4. PICK d : d = [channel |-> channels[t][i], payload |-> Head(queues[channels[t][i]])]
  OBVIOUS
<1>5. CQ!Complete({t}, [u \in {t} |-> Returned("nil", d)])
  BY <1>1, <1>3, <1>4, ReturnCompletes
<1>6. CQ!Complete({t}, [u \in {t} |->
        CQ!Returned("nil", [channel |-> absChannels[t][i],
                            payload |-> Head(queues[absChannels[t][i]])])])
  <2>1. [u \in {t} |-> Returned("nil", d)] =
          [u \in {t} |-> CQ!Returned("nil", [channel |-> absChannels[t][i],
                                             payload |-> Head(queues[absChannels[t][i]])])]
    BY <1>2, <1>4 DEF CQ!Returned, Returned
  <2> QED BY <1>5, <2>1 DEF CQ!Complete
<1>7. /\ i \in DOMAIN absChannels[t]
      /\ queues[absChannels[t][i]] # <<>>
      /\ \A j \in 1..(i - 1) : queues[absChannels[t][j]] = <<>>
      /\ queues' = [queues EXCEPT ![absChannels[t][i]] = Tail(@)]
  BY <1>2, <1>3 DEF FirstQueued
<1>8. CQ!Dequeue(t)
  BY <1>6, <1>7 DEF CQ!Dequeue, absChannels
<1> QED BY <1>8 DEF CQ!Next

LEMMA RefTimeout ==
  ASSUME CoreInv, CoreInv', NEW t \in Threads, PopExpired(t)
  PROVE  CQ!Next
<1>1. CQ!Complete({t}, [u \in {t} |-> Returned("timeout", Nil)])
  BY ReturnCompletes DEF PopExpired, shared
<1>2. ~Linearized(t) /\ channels[t] # <<>> /\ ctxDone[t] /\ NoneQueued(t) /\ UNCHANGED queues
  BY DEF PopExpired, Linearized, CoreInv, ControlOK, PopPC, shared
<1>3. absChannels[t] = channels[t] /\ absCtxDone[t]
  BY <1>2, Pending
<1>4. CQ!TimeoutPop(t)
  BY <1>1, <1>2, <1>3
  DEF CQ!TimeoutPop, CQ!Popping, CQ!NothingFor, CQ!Returned, Returned, NoneQueued,
      absChannels, absCtxDone
<1> QED BY <1>4 DEF CQ!Next

\* The Push takes effect together with the Pop that it takes off the list, for
\* which nothing is queued.
LEMMA RefHandoff ==
  ASSUME RefInv, RefInv', NEW t \in Threads, PushHandoff(t)
  PROVE  CQ!Next
<1> USE DEF RefInv
<1>1. PICK i \in DOMAIN waiters :
        /\ waiterMatches(waiters[i], msg[t].channel)
        /\ target' = [target EXCEPT ![t] = waiters[i]]
        /\ waiters' = removeWaiterAtLocked(i)
  BY DEF PushHandoff, FirstMatch
<1>2. /\ pc[t] = "push" /\ pc' = [pc EXCEPT ![t] = "send"]
      /\ UNCHANGED <<queues, msg, channels, reply, ctxDone, result>>
  BY DEF PushHandoff, Goto
<1>w. PICK w \in Threads : w = waiters[i]
  BY Locals
<1>3. Listed(w) /\ NoneQueued(w)
  BY <1>w DEF Listed, WaitersFindNothing
<1>4. \A x : Listed(x)' <=> (Listed(x) /\ x # w)
  BY <1>1, <1>w, RemovedWaiter
<1>5. /\ target' = [target EXCEPT ![t] = w] /\ waiterMatches(w, msg[t].channel)
  BY <1>1, <1>w
<1>6. pc[w] \in {"wait", "expired"} /\ w # t
  BY <1>2, <1>3 DEF CoreInv, ControlOK
<1>7. ~Linearized(t) /\ ~Linearized(w) /\ Linearized(t)'
  BY <1>2, <1>3, <1>6 DEF Linearized, CoreInv, TypeOK
<1>8. Sending(t, w)' /\ pc'[t] = "send"
  BY <1>2, <1>3, <1>5 DEF Sending, CoreInv, TypeOK
<1>9. Over(t, Returned("nil", Nil))
  BY <1>7, <1>8, MappingNext DEF Over, MappingKnown
<1>10. Over(w, Returned("nil", msg[t]))
  BY <1>2, <1>3, <1>8, MappingNext DEF Over, MappingKnown
<1>11. Only(t)
  BY <1>2, <1>5 DEF Only, CoreInv, TypeOK
<1>12. \A u \in Threads : u # t /\ u # w => Same(u)
  BY <1>2, <1>4, <1>11, OthersSame
<1>13. absMsg[t] = msg[t] /\ absChannels[w] = channels[w] /\ msg[t] # Nil
  BY <1>2, <1>3, <1>7, Pending DEF CoreInv, ControlOK, PushPC
<1>r. PICK r : r = [v \in {t, w} |-> Returned("nil", IF v = w THEN msg[t] ELSE Nil)]
  OBVIOUS
<1>14. CQ!Complete({t, w}, r)
  <2>1. r[t] = Returned("nil", Nil) /\ r[w] = Returned("nil", msg[t])
    BY <1>6, <1>r
  <2>2. \A u \in Threads : IF u \in {t, w} THEN Over(u, r[u]) ELSE Same(u)
    BY <2>1, <1>9, <1>10, <1>12
  <2> QED BY <2>2, AbsComplete
<1>15. CQ!Complete({t, w}, [v \in {t, w} |->
         CQ!Returned("nil", IF v = w THEN absMsg[t] ELSE Nil)])
  <2>1. r = [v \in {t, w} |-> CQ!Returned("nil", IF v = w THEN absMsg[t] ELSE Nil)]
    BY <1>13, <1>r DEF CQ!Returned, Returned
  <2> QED BY <1>14, <2>1 DEF CQ!Complete
<1>16. /\ absMsg[t] # Nil
       /\ \A n \in DOMAIN absChannels[w] : queues[absChannels[w][n]] = <<>>
       /\ \E n \in DOMAIN absChannels[w] : absChannels[w][n] = absMsg[t].channel
  BY <1>3, <1>5, <1>13 DEF NoneQueued, waiterMatches
<1>17. CQ!Exchange(t, w)
  BY <1>2, <1>15, <1>16 DEF CQ!Exchange, CQ!Pushing, CQ!NothingFor, absMsg, absChannels
<1> QED BY <1>17 DEF CQ!Next

\* A Pop that takes itself off the list has timed out; nothing is queued for it.
\* One that is not on the list any more goes on to receive what it was promised.
LEMMA RefRemoveWaiter ==
  ASSUME RefInv, RefInv', NEW t \in Threads, PopRemoveWaiter(t)
  PROVE  CQ!Next \/ UNCHANGED CQ!vars
<1> USE DEF RefInv
<1>1. pc[t] = "expired" /\ ctxDone[t] /\ channels[t] # <<>>
      /\ UNCHANGED <<queues, msg, channels, target, reply, ctxDone, result>>
  BY DEF PopRemoveWaiter, ExpiredDone, CoreInv, ControlOK, PopPC
<1>2. ASSUME NEW i \in DOMAIN waiters, waiters[i] = t, waiters' = removeWaiterAtLocked(i),
             Goto(t, "poll")
      PROVE  CQ!Next
  <2>1. Listed(t) /\ NoneQueued(t) /\ \A x : Listed(x)' <=> (Listed(x) /\ x # t)
    BY <1>2, RemovedWaiter DEF Listed, WaitersFindNothing
  <2>2. ~Linearized(t) /\ pc'[t] = "poll" /\ Linearized(t)'
    BY <1>1, <1>2, <2>1 DEF Linearized, Goto, CoreInv, TypeOK
  <2>3. Only(t)
    BY <1>1, <1>2 DEF Only, Goto, CoreInv, TypeOK
  <2>4. Over(t, Returned("timeout", Nil))
    BY <2>2, MappingNext DEF Over, MappingKnown
  <2>5. \A u \in Threads : u # t => Same(u)
    BY <1>1, <2>1, <2>3, OthersSame
  <2>6. CQ!Complete({t}, [u \in {t} |-> Returned("timeout", Nil)])
    BY <2>4, <2>5, AbsComplete
  <2>7. absChannels[t] = channels[t] /\ absCtxDone[t]
    BY <1>1, <2>2, Pending
  <2>8. CQ!TimeoutPop(t)
    BY <1>1, <2>1, <2>6, <2>7
    DEF CQ!TimeoutPop, CQ!Popping, CQ!NothingFor, CQ!Returned, Returned, NoneQueued,
        absChannels, absCtxDone
  <2> QED BY <2>8 DEF CQ!Next
<1>3. ASSUME ~Listed(t), UNCHANGED waiters, Goto(t, "recv")
      PROVE  UNCHANGED CQ!vars
  <2>1. Only(t) /\ pc'[t] = "recv"
    BY <1>1, <1>3 DEF Only, Goto, CoreInv, TypeOK
  <2>2. \A u \in Threads : u # t => Same(u)
    BY <1>1, <1>3, <2>1, OthersSame DEF Listed
  <2>3. Expecting(t) /\ Expecting(t)' /\ ~Listed(t)'
    BY <1>1, <1>3, <2>1 DEF Expecting, Listed
  <2>4. \A s \in Threads : Sending(s, t) => Sending(s, t)'
    BY <1>1, <2>1 DEF Sending, Only
  <2>5. Same(t)
    BY <1>1, <1>3, <2>3, <2>4, PromiseSame
  <2> QED BY <1>1, <2>2, <2>5, AbsStutter
<1> QED BY <1>2, <1>3 DEF PopRemoveWaiter, Listed

\* The send moves the message on to the Pop that already has it in ChannelQueue.
LEMMA RefSend ==
  ASSUME CoreInv, CoreInv', NEW t \in Threads, PushSend(t)
  PROVE  UNCHANGED CQ!vars
<1>w. PICK w \in Threads : Sending(t, w)
  BY Locals DEF PushSend, Sending
<1>1. /\ pc[t] = "send" /\ reply' = [reply EXCEPT ![w] = msg[t]] /\ Return(t, "nil", Nil)
      /\ UNCHANGED <<queues, waiters>>
  BY <1>w DEF PushSend, Sending, shared
<1>2. w \in Threads /\ Sending(t, w)
  BY <1>w
<1>3. Only(t) /\ Over(t, Returned("nil", Nil))
  BY <1>1, ReturnOver
<1>4. Same(t)
  BY <1>1, <1>3, Mapping DEF Same, Over, MappingKnown, Linearized
<1>5. Expecting(w) /\ w # t /\ msg[t] # Nil
  BY <1>1, <1>2 DEF CoreInv, HandoffExact, Expecting, ControlOK, PushPC
<1>6. Expecting(w)' /\ reply'[w] = msg[t]
  BY <1>1, <1>2, <1>3, <1>5 DEF Expecting, Only, CoreInv, TypeOK
<1>7. Linearized(w) /\ absResult[w] = Returned("nil", msg[t])
  BY <1>2, Mapping DEF MappingKnown
<1>8. Linearized(w)' /\ absResult'[w] = Returned("nil", msg[t])
  BY <1>2, <1>5, <1>6, MappingNext DEF MappingKnown
<1>9. Same(w)
  BY <1>2, <1>7, <1>8, Mapping, MappingNext DEF Same, MappingKnown
<1>10. ASSUME NEW u \in Threads, u # t, u # w PROVE Same(u)
  <2>1. reply'[u] = reply[u] /\ (Listed(u)' <=> Listed(u)) /\ pc'[u] = pc[u]
    BY <1>1, <1>2, <1>3, <1>10 DEF Only, Listed, CoreInv, TypeOK
  <2>2. Linearized(u)' <=> Linearized(u)
    BY <2>1 DEF Linearized
  <2>3. absMsg'[u] = absMsg[u] /\ absChannels'[u] = absChannels[u]
        /\ absCtxDone'[u] = absCtxDone[u]
    BY <1>3, <1>10, <2>2, Mapping, MappingNext DEF Only, MappingKnown
  <2>4. CASE ~Linearized(u)
    BY <1>3, <1>10, <2>2, <2>3, <2>4, Mapping, MappingNext DEF Same, Only, MappingKnown
  <2>5. CASE pc[u] \in {"send", "poll"}
    BY <2>1, <2>3, <2>5, Mapping, MappingNext DEF Same, MappingKnown
  <2>6. CASE Linearized(u) /\ Expecting(u)
    <3>1. ~Listed(u) /\ Expecting(u)'
      BY <2>1, <2>6 DEF Linearized, Expecting, CoreInv, ControlOK
    <3>2. \A s \in Threads : Sending(s, u) => Sending(s, u)' /\ msg'[s] = msg[s]
      BY <1>2, <1>3, <1>10 DEF Sending, Only
    <3> QED BY <2>1, <2>6, <3>1, <3>2, PromiseSame
  <2> QED BY <2>4, <2>5, <2>6 DEF Linearized, Expecting
<1> QED BY <1>1, <1>4, <1>9, <1>10, AbsStutter

\* A Pop that returns what it received, or polls in vain, took effect before.
LEMMA RefPopReturn ==
  ASSUME CoreInv, CoreInv', NEW t \in Threads, PopReceive(t) \/ PopPoll(t)
  PROVE  UNCHANGED CQ!vars
<1>1. /\ reply' = [reply EXCEPT ![t] = Nil] /\ UNCHANGED <<queues, waiters>>
      /\ pc[t] # "send"
  BY DEF PopReceive, PopPoll, shared
<1>2. PICK err, val : /\ Return(t, err, val) /\ Linearized(t)
                      /\ absResult[t] = Returned(err, val)
  <2>1. CASE PopReceive(t)
    <3>1. Expecting(t) /\ reply[t] # Nil /\ Return(t, "nil", reply[t])
      BY <2>1 DEF PopReceive, Expecting
    <3> QED BY <3>1, Mapping DEF MappingKnown
  <2>2. CASE PopPoll(t)
    <3>1. reply[t] = Nil
      BY <2>2 DEF PopPoll, CoreInv, HandoffExact, Expecting
    <3>2. pc[t] = "poll" /\ Return(t, "timeout", Nil)
      BY <2>2, <3>1 DEF PopPoll
    <3> QED BY <3>2, Mapping DEF MappingKnown, Linearized
  <2> QED BY <2>1, <2>2
<1>3. Only(t) /\ Over(t, Returned(err, val))
  BY <1>2, ReturnOver
<1>4. Same(t)
  BY <1>2, <1>3, Mapping DEF Same, Over, MappingKnown
<1>5. \A u \in Threads : u # t => Same(u)
  BY <1>1, <1>3, OthersSame DEF Listed, CoreInv, TypeOK
<1> QED BY <1>1, <1>4, <1>5, AbsStutter

\* Steps that only move t, from a point where its call is still to take effect.
LEMMA RefMove ==
  ASSUME CoreInv, CoreInv', NEW t \in Threads,
         PushBlock(t) \/ PushNotify(t) \/ PushWake(t) \/ PopWait(t)
  PROVE  UNCHANGED CQ!vars
<1>1. PICK label : Goto(t, label) /\ (label \in PushPC \ {"send"} \/ label = "wait")
                   /\ (label = "wait" => PopWait(t))
  BY DEF PushBlock, PushNotify, PushWake, PopWait, PushPC
<1>2. UNCHANGED <<queues, msg, channels, target, reply, ctxDone, result>>
  BY DEF PushBlock, PushNotify, PushWake, PopWait, shared
<1>3. pc'[t] = label /\ Only(t)
  BY <1>1, <1>2 DEF Only, Goto, CoreInv, TypeOK
<1>4. pc[t] \in {"push", "notify", "select", "pop"}
  BY DEF PushBlock, PushNotify, PushWake, PopWait
<1>5. /\ \A u \in Threads : u # t => (Listed(u)' <=> Listed(u))
      /\ PopWait(t) => Listed(t)'
  <2>1. CASE PopWait(t)
    BY <2>1, <1>4, AppendedWaiter, Locals DEF PopWait
  <2>2. CASE PushBlock(t) \/ PushNotify(t) \/ PushWake(t)
    BY <2>2, <1>4 DEF PushBlock, PushNotify, PushWake, shared, Listed, PopWait
  <2> QED BY <2>1, <2>2
<1>6. ~Linearized(t) /\ ~Linearized(t)'
  BY <1>1, <1>3, <1>4, <1>5 DEF Linearized, PushPC
<1>7. Same(t)
  BY <1>2, <1>6, Mapping, MappingNext DEF Same, MappingKnown
<1>8. \A u \in Threads : u # t => Same(u)
  BY <1>2, <1>3, <1>4, <1>5, OthersSame
<1> QED BY <1>2, <1>7, <1>8, AbsStutter

LEMMA RefPopDone ==
  ASSUME CoreInv, CoreInv', NEW t \in Threads, PopDone(t)
  PROVE  UNCHANGED CQ!vars
<1>1. /\ pc[t] = "wait" /\ pc' = [pc EXCEPT ![t] = "expired"]
      /\ UNCHANGED <<queues, waiters, msg, channels, target, reply, ctxDone, result>>
  BY DEF PopDone, Goto, shared
<1>2. pc'[t] = "expired" /\ Only(t)
  BY <1>1 DEF Only, CoreInv, TypeOK
<1>3. \A u \in Threads : u # t => Same(u)
  BY <1>1, <1>2, OthersSame DEF Listed
<1>4. Same(t)
  <2>1. CASE Listed(t)
    <3>1. ~Linearized(t) /\ ~Linearized(t)'
      BY <1>1, <1>2, <2>1 DEF Linearized, Listed
    <3> QED BY <1>1, <3>1, Mapping, MappingNext DEF Same, MappingKnown
  <2>2. CASE ~Listed(t)
    <3>1. Expecting(t) /\ Expecting(t)' /\ ~Listed(t)'
      BY <1>1, <1>2, <2>2 DEF Expecting, Listed
    <3>2. \A s \in Threads : Sending(s, t) => Sending(s, t)' /\ msg'[s] = msg[s]
      BY <1>1, <1>2 DEF Sending, Only
    <3> QED BY <1>1, <2>2, <3>1, <3>2, PromiseSame
  <2> QED BY <2>1, <2>2
<1> QED BY <1>1, <1>3, <1>4, AbsStutter

\* A context that is done before the call takes effect may make it expire; one
\* that is done later goes unnoticed.
LEMMA RefCtxDone ==
  ASSUME CoreInv, CoreInv', NEW t \in Threads, CtxDone(t)
  PROVE  CQ!Next \/ UNCHANGED CQ!vars
<1>1. /\ pc[t] # "idle" /\ ctxDone' = [ctxDone EXCEPT ![t] = TRUE]
      /\ UNCHANGED <<queues, waiters, pc, msg, channels, target, reply, result>>
  BY DEF CtxDone, shared
<1>2. (Linearized(t)' <=> Linearized(t)) /\ ctxDone'[t] = TRUE
  BY <1>1 DEF Linearized, Listed, CoreInv, TypeOK
<1>3. \A s, u \in Threads : (Sending(s, u)' <=> Sending(s, u))
  BY <1>1 DEF Sending
<1>4. \A u \in Threads : (Listed(u)' <=> Listed(u)) /\ (Expecting(u)' <=> Expecting(u))
  BY <1>1 DEF Listed, Expecting
<1>5. absResult' = absResult
  BY <1>1 DEF absResult, Effect, Linearized, Listed, Promised, Sending
<1>6. absMsg' = absMsg /\ absChannels' = absChannels
  BY <1>1 DEF absMsg, absChannels, Linearized, Listed
<1>7. \A u \in Threads : u # t => absCtxDone'[u] = absCtxDone[u]
  BY <1>1 DEF absCtxDone, Linearized, Listed, CoreInv, TypeOK
<1>8. CASE Linearized(t)
  <2>1. absCtxDone'[t] = absCtxDone[t]
    BY <1>2, <1>8, Mapping, MappingNext DEF MappingKnown
  <2>2. \A u \in Threads : Same(u)
    BY <1>5, <1>6, <1>7, <2>1 DEF Same
  <2> QED BY <1>1, <2>2, AbsStutter
<1>9. CASE ~Linearized(t)
  <2>1. absMsg[t] # Nil \/ absChannels[t] # <<>>
    BY <1>1, <1>9, Pending DEF CoreInv, TypeOK, ControlOK
  <2>2. absCtxDone'[t] = TRUE
    BY <1>2, <1>9, MappingNext DEF MappingKnown
  <2>3. absCtxDone' = [absCtxDone EXCEPT ![t] = TRUE]
    BY <1>7, <2>2 DEF absCtxDone
  <2>4. CQ!Expire(t)
    BY <1>1, <1>5, <1>6, <2>1, <2>3
    DEF CQ!Expire, CQ!Idle, absMsg, absChannels, absCtxDone, absResult
  <2> QED BY <2>4 DEF CQ!Next
<1> QED BY <1>8, <1>9

-----------------------------------------------------------------------------
(* The theorem                                                             *)

LEMMA RefInit == Init => CQ!Init
<1> SUFFICES ASSUME Init PROVE CQ!Init
  OBVIOUS
<1>1. \A t \in Threads : ~Linearized(t)
  BY DEF Init, Linearized
<1>2. /\ absMsg = [t \in Threads |-> Nil] /\ absChannels = [t \in Threads |-> <<>>]
      /\ absCtxDone = [t \in Threads |-> FALSE]
  BY <1>1 DEF Init, absMsg, absChannels, absCtxDone
<1>3. absResult = [t \in Threads |-> Returned("none", Nil)]
  BY <1>1 DEF Init, absResult, Effect
<1> QED BY <1>2, <1>3 DEF Init, CQ!Init, CQ!Returned, Returned, absMsg, absChannels,
                          absCtxDone, absResult

LEMMA RefNext == RefInv /\ RefInv' /\ [Next]_vars => [CQ!Next]_(CQ!vars)
<1> SUFFICES ASSUME RefInv, RefInv', [Next]_vars
             PROVE  CQ!Next \/ UNCHANGED CQ!vars
  OBVIOUS
<1>0. CoreInv /\ CoreInv'
  BY DEF RefInv
<1>1. ASSUME NEW t \in Threads, PushStep(t) PROVE CQ!Next \/ UNCHANGED CQ!vars
  BY <1>0, <1>1, RefHandoff, RefSend, RefEnqueue, RefMove, RefCancelPush DEF PushStep
<1>2. ASSUME NEW t \in Threads, PopStep(t) PROVE CQ!Next \/ UNCHANGED CQ!vars
  BY <1>0, <1>2, RefDequeue, RefTimeout, RefMove, RefPopReturn, RefPopDone, RefRemoveWaiter
  DEF PopStep
<1>3. ASSUME NEW t \in Pushers, NEW c \in Channels, NEW m \in Messages,
             PushCall(t, c, m) \/ PushInvalid(t, c, m)
      PROVE  CQ!Next
  BY <1>0, <1>3, RefPushCall, RefInvalid DEF PushInvalid, Threads
<1>4. ASSUME NEW t \in Poppers, NEW cs \in PopLists, PopCall(t, cs) \/ PopInvalid(t, cs)
      PROVE  CQ!Next
  BY <1>0, <1>4, RefPopCall, RefInvalid DEF PopInvalid, Threads
<1>5. ASSUME NEW t \in Threads, CtxDone(t) PROVE CQ!Next \/ UNCHANGED CQ!vars
  BY <1>0, <1>5, RefCtxDone
<1>6. CASE UNCHANGED vars
  <2>1. UNCHANGED <<queues, absMsg, absChannels, absCtxDone, absResult>>
    BY <1>6 DEF vars, shared, locals, absMsg, absChannels, absCtxDone, absResult, Effect,
                Linearized, Listed, Promised, Sending
  <2> QED BY <2>1 DEF CQ!vars, absMsg, absChannels, absCtxDone, absResult
<1> QED BY <1>1, <1>2, <1>3, <1>4, <1>5, <1>6 DEF Next, Step

\* Push and Pop of broker.go, with their waiters, reply channels and drain
\* signal, are a linearizable set of FIFO queues: every call takes effect at
\* one instant between its call and its return, the one that the mapping
\* names, and a Pop times out only when nothing was queued for it.
THEOREM BrokerIsLinearizable == Spec => Linearizable
BY RefInit, RefNext, RefInvariance, PTL DEF Spec, Linearizable, CQ!Spec
=============================================================================
