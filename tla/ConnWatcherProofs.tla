-------------------------- MODULE ConnWatcherProofs ---------------------------
(***************************************************************************)
(* Machine-checked proofs about ConnWatcher, for any number of connections *)
(* and descriptors and any length of the events buffer.                    *)
(***************************************************************************)
EXTENDS ConnWatcher, TLAPS

Serving == {"read", "push", "pop", "return"}

\* The descriptor of a connection is open from accept to conn.Close, and the
\* kernel gives an open descriptor to nobody else.
DescriptorsOK ==
  /\ \A c \in Conns : fd[c] = Nil <=> pc[c] \in {"new", "cancel", "done"}
  /\ \A c, d \in Conns : fd[c] # Nil /\ fd[c] = fd[d] => c = d

\* Where a connection is in handleConn says whether it is in epoll, and when the
\* map may hold its cancel function: never at conn.Close.
RegistrationOK ==
  /\ \A c \in watched : pc[c] \notin {"new", "accepted", "add", "undo"}
  /\ \A c \in interest : c \in watched /\ pc[c] \in Serving
  /\ \A c \in watched : pc[c] \in Serving => c \in interest
  /\ \A f \in Fds : cancels[f] # Nil =>
       \/ pc[cancels[f]] \in {"add", "undo", "delete"}
       \/ cancels[f] \in watched /\ pc[cancels[f]] \in Serving

\* The cancel function of a watched connection stays in the map until the
\* watcher takes it out to call it, if only for a stale event.
CancelKept ==
  \A c \in Conns : pc[c] = "add" \/ c \in interest =>
    cancels[fd[c]] = c \/ firing = c \/ c \in cancelled

Inv ==
  /\ TypeOK /\ DescriptorsOK /\ RegistrationOK /\ CancelsOwned
  /\ CancelKept /\ CloseNoticed

LEMMA InitInv == Init => Inv
BY WatcherAssumption
DEF Init, Inv, TypeOK, Labels, Requests, DescriptorsOK, RegistrationOK, CancelsOwned,
    CancelKept, CloseNoticed

\* An open descriptor is one.
LEMMA OpenFd ==
  ASSUME Inv, NEW c \in Conns, pc[c] \notin {"new", "cancel", "done"}
  PROVE  fd[c] \in Fds /\ fd[c] # Nil /\ c # Nil
BY WatcherAssumption DEF Inv, TypeOK, DescriptorsOK

LEMMA AcceptInv ==
  ASSUME Inv, NEW c \in Conns, Accept(c)
  PROVE  Inv'
<1> USE WatcherAssumption DEF Inv
<1>1. PICK f \in Fds : fd' = [fd EXCEPT ![c] = f] /\ \A d \in Conns : fd[d] # f
  <2>1. CASE \A d \in Conns : pc[d] = "new"
    <3>1. FirstFd \in Fds
      BY DEF FirstFd
    <3>2. fd' = [fd EXCEPT ![c] = FirstFd]
      BY <2>1 DEF Accept
    <3>3. \A d \in Conns : fd[d] = Nil
      BY <2>1 DEF DescriptorsOK
    <3> QED BY <3>1, <3>2, <3>3
  <2>2. CASE ~\A d \in Conns : pc[d] = "new"
    BY <2>2 DEF Accept, FreeFds
  <2> QED BY <2>1, <2>2
<1>2. /\ pc[c] = "new" /\ pc' = [pc EXCEPT ![c] = "accepted"]
      /\ UNCHANGED <<watched, inbox, peerClosed, interest, ready, cancels, events, firing, cancelled>>
  BY DEF Accept, Goto, kernel, watcher
<1>3. TypeOK'
  BY <1>1, <1>2 DEF TypeOK, Labels
<1>4. DescriptorsOK'
  BY <1>1, <1>2 DEF TypeOK, DescriptorsOK
<1>5. RegistrationOK'
  BY <1>2 DEF TypeOK, RegistrationOK, Serving
<1>6. CancelsOwned' /\ CancelKept' /\ CloseNoticed'
  BY <1>1, <1>2 DEF TypeOK, DescriptorsOK, RegistrationOK, Serving, CancelsOwned, CancelKept, CloseNoticed
<1> QED BY <1>3, <1>4, <1>5, <1>6

\* The parts of the invariant that look at pc see only its stage: a handler may
\* move on within a stage without disturbing them.
LEMMA MoveInv ==
  ASSUME Inv, NEW c \in Conns, NEW label \in Labels,
         pc' = [pc EXCEPT ![c] = label],
         \/ pc[c] = "accepted" /\ label = "read"
         \/ pc[c] = "add" /\ label = "undo"
         \/ pc[c] \in Serving /\ label \in Serving,
         inbox' \in [Conns -> Requests \cup {Nil}],
         UNCHANGED <<fd, watched, peerClosed, interest, ready, cancels, events, firing, cancelled>>
  PROVE  Inv'
<1> USE WatcherAssumption DEF Inv
<1>1. TypeOK'
  BY DEF TypeOK
<1>2. DescriptorsOK'
  BY DEF TypeOK, DescriptorsOK, Serving
<1>3. RegistrationOK'
  BY DEF TypeOK, RegistrationOK, Serving
<1>4. CancelsOwned' /\ CancelKept' /\ CloseNoticed'
  BY DEF TypeOK, RegistrationOK, Serving, CancelsOwned, CancelKept, CloseNoticed
<1> QED BY <1>1, <1>2, <1>3, <1>4

\* The steps that only move the handler, or only fill its inbox.
LEMMA QuietInv ==
  ASSUME Inv, NEW c \in Conns,
         \/ ConnFDFails(c) \/ EpollAddFails(c) \/ ReadRequest(c) \/ ReadEOF(c)
         \/ BrokerReturns(c) \/ BrokerCancelled(c)
  PROVE  Inv'
<1> USE WatcherAssumption
<1>1. /\ UNCHANGED <<fd, watched, peerClosed, interest, ready, cancels, events, firing, cancelled>>
      /\ inbox' = inbox \/ inbox' = [inbox EXCEPT ![c] = Nil]
  BY DEF ConnFDFails, EpollAddFails, ReadRequest, ReadEOF, BrokerReturns, BrokerCancelled,
         kernel, watcher
<1>2. inbox' \in [Conns -> Requests \cup {Nil}]
  BY <1>1 DEF Inv, TypeOK
<1>3. inbox[c] \in Requests \cup {Nil}
  BY DEF Inv, TypeOK
<1>4. PICK label \in Labels :
        /\ pc' = [pc EXCEPT ![c] = label]
        /\ \/ pc[c] = "accepted" /\ label = "read"
           \/ pc[c] = "add" /\ label = "undo"
           \/ pc[c] \in Serving /\ label \in Serving
  BY <1>3 DEF ConnFDFails, EpollAddFails, ReadRequest, ReadEOF, BrokerReturns, BrokerCancelled,
              Goto, Labels, Serving, Requests
<1> QED BY <1>1, <1>2, <1>4, MoveInv

LEMMA ClientSendInv ==
  ASSUME Inv, NEW c \in Conns, NEW op \in Requests, ClientSend(c, op)
  PROVE  Inv'
<1>1. inbox' = [inbox EXCEPT ![c] = op]
  BY DEF ClientSend
<1>2. UNCHANGED <<pc, fd, watched, peerClosed, interest, ready, cancels, events, firing, cancelled>>
  BY DEF ClientSend, kernel, watcher
<1>3. TypeOK'
  BY <1>1, <1>2 DEF Inv, TypeOK
<1> QED
  BY <1>2, <1>3 DEF Inv, DescriptorsOK, RegistrationOK, CancelsOwned, CancelKept, CloseNoticed

LEMMA ClientCloseInv ==
  ASSUME Inv, NEW c \in Conns, ClientClose(c)
  PROVE  Inv'
<1> USE WatcherAssumption DEF Inv
<1>1. /\ peerClosed' = peerClosed \cup {c} /\ ready' = ready \cup ({c} \cap interest)
      /\ UNCHANGED <<pc, fd, watched, inbox, interest, cancels, events, firing, cancelled>>
  BY DEF ClientClose, handler, watcher
<1>2. TypeOK'
  BY <1>1 DEF TypeOK
<1>3. CloseNoticed'
  BY <1>1 DEF TypeOK, CancelKept, CloseNoticed
<1> QED
  BY <1>1, <1>2, <1>3 DEF DescriptorsOK, RegistrationOK, CancelsOwned, CancelKept

LEMMA RegisterInv ==
  ASSUME Inv, NEW c \in Conns, Register(c)
  PROVE  Inv'
<1> USE WatcherAssumption DEF Inv
<1>1. /\ pc[c] = "accepted" /\ pc' = [pc EXCEPT ![c] = "add"]
      /\ cancels' = [cancels EXCEPT ![fd[c]] = c]
      /\ UNCHANGED <<fd, watched, inbox, peerClosed, interest, ready, events, firing, cancelled>>
  BY DEF Register, Goto, kernel
<1>2. fd[c] \in Fds /\ fd[c] # Nil
  BY <1>1, OpenFd
<1>3. TypeOK'
  BY <1>1, <1>2 DEF TypeOK, Labels
<1>4. DescriptorsOK'
  BY <1>1 DEF TypeOK, DescriptorsOK
<1>5. RegistrationOK'
  BY <1>1, <1>2 DEF TypeOK, RegistrationOK, Serving
<1>6. CancelsOwned'
  BY <1>1, <1>2 DEF TypeOK, CancelsOwned
<1>7. CancelKept' /\ CloseNoticed'
  BY <1>1, <1>2 DEF TypeOK, DescriptorsOK, RegistrationOK, Serving, CancelKept, CloseNoticed
<1> QED BY <1>3, <1>4, <1>5, <1>6, <1>7

LEMMA EpollAddInv ==
  ASSUME Inv, NEW c \in Conns, EpollAdd(c)
  PROVE  Inv'
<1> USE WatcherAssumption DEF Inv
<1>1. /\ pc[c] = "add" /\ pc' = [pc EXCEPT ![c] = "read"]
      /\ interest' = interest \cup {c} /\ ready' = ready \cup ({c} \cap peerClosed)
      /\ watched' = watched \cup {c}
      /\ UNCHANGED <<fd, inbox, peerClosed, cancels, events, firing, cancelled>>
  BY DEF EpollAdd, Goto, watcher
<1>2. fd[c] \in Fds /\ fd[c] # Nil
  BY <1>1, OpenFd
<1>3. TypeOK'
  BY <1>1 DEF TypeOK, Labels
<1>4. DescriptorsOK'
  BY <1>1 DEF TypeOK, DescriptorsOK
<1>5. RegistrationOK'
  BY <1>1 DEF TypeOK, RegistrationOK, Serving
<1>6. CancelsOwned'
  BY <1>1, <1>2 DEF TypeOK, CancelsOwned
<1>7. CancelKept'
  BY <1>1 DEF TypeOK, CancelKept
<1>8. CloseNoticed'
  BY <1>1 DEF TypeOK, CancelKept, CloseNoticed
<1> QED BY <1>3, <1>4, <1>5, <1>6, <1>7, <1>8

\* register gives up, or unregister drops the entry: a connection that is not
\* in epoll, or no longer, takes its own cancel function out of the map.
LEMMA DropInv ==
  ASSUME Inv, NEW c \in Conns, RegisterUndo(c) \/ Unregister(c)
  PROVE  Inv'
<1> USE WatcherAssumption DEF Inv
<1>1. /\ \/ pc[c] = "undo" /\ pc' = [pc EXCEPT ![c] = "read"]
         \/ pc[c] = "delete" /\ pc' = [pc EXCEPT ![c] = "close"]
      /\ cancels' = [cancels EXCEPT ![fd[c]] = Nil]
      /\ UNCHANGED <<fd, watched, inbox, peerClosed, interest, ready, events, firing, cancelled>>
  BY DEF RegisterUndo, Unregister, Goto, kernel
<1>2. fd[c] \in Fds /\ fd[c] # Nil
  BY <1>1, OpenFd
<1>3. TypeOK'
  BY <1>1, <1>2 DEF TypeOK, Labels
<1>4. DescriptorsOK'
  BY <1>1 DEF TypeOK, DescriptorsOK
<1>5. \A f \in Fds : cancels'[f] # Nil => cancels'[f] = cancels[f] /\ cancels[f] # c
  BY <1>1, <1>2 DEF TypeOK, CancelsOwned
<1>6. RegistrationOK'
  <2>1. \A d \in watched' : pc'[d] \notin {"new", "accepted", "add", "undo"}
    BY <1>1 DEF TypeOK, RegistrationOK
  <2>2. \A d \in interest' : d \in watched' /\ pc'[d] \in Serving
    BY <1>1 DEF TypeOK, RegistrationOK, Serving
  <2>3. \A d \in watched' : pc'[d] \in Serving => d \in interest'
    BY <1>1 DEF TypeOK, RegistrationOK, Serving
  <2>4. \A f \in Fds : cancels'[f] # Nil => pc'[cancels'[f]] = pc[cancels'[f]]
    BY <1>1, <1>5 DEF TypeOK
  <2>5. \A f \in Fds : cancels'[f] # Nil =>
          \/ pc'[cancels'[f]] \in {"add", "undo", "delete"}
          \/ cancels'[f] \in watched' /\ pc'[cancels'[f]] \in Serving
    BY <1>1, <1>5, <2>4 DEF RegistrationOK
  <2> QED BY <2>1, <2>2, <2>3, <2>5 DEF RegistrationOK, Serving
<1>7. CancelsOwned'
  BY <1>1, <1>5 DEF TypeOK, CancelsOwned
<1>8. CancelKept' /\ CloseNoticed'
  BY <1>1, <1>2 DEF TypeOK, DescriptorsOK, RegistrationOK, Serving, CancelKept, CloseNoticed
<1> QED BY <1>3, <1>4, <1>6, <1>7, <1>8

LEMMA EpollDelInv ==
  ASSUME Inv, NEW c \in Conns, EpollDel(c)
  PROVE  Inv'
<1> USE WatcherAssumption DEF Inv
<1>1. /\ pc[c] = "return" /\ c \in watched /\ pc' = [pc EXCEPT ![c] = "delete"]
      /\ interest' = interest \ {c} /\ ready' = ready \ {c}
      /\ UNCHANGED <<fd, watched, inbox, peerClosed, cancels, events, firing, cancelled>>
  BY DEF EpollDel, Goto, watcher
<1>2. TypeOK'
  BY <1>1 DEF TypeOK, Labels
<1>3. DescriptorsOK'
  BY <1>1 DEF TypeOK, DescriptorsOK
<1>4. RegistrationOK'
  BY <1>1 DEF TypeOK, RegistrationOK, Serving
<1>5. CancelsOwned' /\ CancelKept' /\ CloseNoticed'
  BY <1>1 DEF TypeOK, CancelsOwned, CancelKept, CloseNoticed
<1> QED BY <1>2, <1>3, <1>4, <1>5

\* The map holds nothing of a connection that closes its descriptor, so that
\* nothing is left for the next owner.
LEMMA ConnCloseInv ==
  ASSUME Inv, NEW c \in Conns, ConnClose(c)
  PROVE  Inv'
<1> USE WatcherAssumption DEF Inv
<1>1. /\ pc[c] = "close" \/ (pc[c] = "return" /\ c \notin watched)
      /\ pc' = [pc EXCEPT ![c] = "cancel"] /\ fd' = [fd EXCEPT ![c] = Nil]
      /\ interest' = interest \ {c} /\ ready' = ready \ {c}
      /\ UNCHANGED <<watched, inbox, peerClosed, cancels, events, firing, cancelled>>
  BY DEF ConnClose, Goto, watcher
<1>2. TypeOK'
  BY <1>1 DEF TypeOK, Labels
<1>3. DescriptorsOK'
  BY <1>1 DEF TypeOK, DescriptorsOK
<1>4. \A f \in Fds : cancels[f] # c
  BY <1>1 DEF TypeOK, RegistrationOK, Serving
<1>5. RegistrationOK'
  BY <1>1, <1>4 DEF TypeOK, RegistrationOK, Serving
<1>6. CancelsOwned'
  BY <1>1, <1>4 DEF TypeOK, CancelsOwned
<1>7. CancelKept' /\ CloseNoticed'
  BY <1>1 DEF TypeOK, CancelKept, CloseNoticed
<1> QED BY <1>2, <1>3, <1>5, <1>6, <1>7

LEMMA DeferredCancelInv ==
  ASSUME Inv, NEW c \in Conns, DeferredCancel(c)
  PROVE  Inv'
<1> USE WatcherAssumption DEF Inv
<1>1. /\ pc[c] = "cancel" /\ pc' = [pc EXCEPT ![c] = "done"]
      /\ cancelled' = cancelled \cup {c}
      /\ UNCHANGED <<fd, watched, inbox, peerClosed, interest, ready, cancels, events, firing>>
  BY DEF DeferredCancel, Goto, kernel, watcher
<1>2. TypeOK'
  BY <1>1 DEF TypeOK, Labels
<1>3. DescriptorsOK'
  BY <1>1 DEF TypeOK, DescriptorsOK
<1>4. RegistrationOK'
  BY <1>1 DEF TypeOK, RegistrationOK, Serving
<1>5. CancelsOwned' /\ CancelKept' /\ CloseNoticed'
  BY <1>1 DEF TypeOK, CancelsOwned, CancelKept, CloseNoticed
<1> QED BY <1>2, <1>3, <1>4, <1>5

-----------------------------------------------------------------------------
(* The watcher                                                             *)

LEMMA EpollWaitInv ==
  ASSUME Inv, EpollWait
  PROVE  Inv'
<1> USE WatcherAssumption DEF Inv
<1>1. PICK S \in SUBSET ready : events' = {fd[c] : c \in S} /\ ready' = ready \ S
  BY DEF EpollWait
<1>2. /\ events = {} /\ firing = Nil
      /\ UNCHANGED <<pc, fd, watched, inbox, peerClosed, interest, cancels, firing, cancelled>>
  BY DEF EpollWait, handler
<1>3. \A c \in S : c \in Conns /\ fd[c] \in Fds
  BY DEF TypeOK, CancelsOwned
<1>4. TypeOK'
  BY <1>1, <1>2, <1>3 DEF TypeOK
<1>5. CloseNoticed'
  BY <1>1, <1>2 DEF TypeOK, CloseNoticed
<1> QED
  BY <1>2, <1>4, <1>5 DEF DescriptorsOK, RegistrationOK, CancelsOwned, CancelKept

\* The event may be stale and the cancel function that of a later connection:
\* taken out of the map, it is called.
LEMMA HandleEventInv ==
  ASSUME Inv, NEW f \in Fds, HandleEvent(f)
  PROVE  Inv'
<1> USE WatcherAssumption DEF Inv
<1>1. /\ firing = Nil /\ f \in events /\ events' = events \ {f}
      /\ firing' = cancels[f] /\ cancels' = [cancels EXCEPT ![f] = Nil]
      /\ UNCHANGED <<pc, fd, watched, inbox, peerClosed, interest, ready, cancelled>>
  BY DEF HandleEvent, handler, kernel
<1>2. TypeOK'
  BY <1>1 DEF TypeOK
<1>3. RegistrationOK'
  BY <1>1 DEF TypeOK, RegistrationOK
<1>4. CancelsOwned'
  BY <1>1 DEF TypeOK, CancelsOwned
<1>5. CancelKept'
  BY <1>1 DEF TypeOK, CancelKept, DescriptorsOK, CancelsOwned
<1>6. CloseNoticed'
  BY <1>1 DEF TypeOK, CloseNoticed, CancelsOwned
<1> QED
  BY <1>1, <1>2, <1>3, <1>4, <1>5, <1>6 DEF DescriptorsOK

LEMMA FireInv ==
  ASSUME Inv, Fire
  PROVE  Inv'
<1> USE WatcherAssumption DEF Inv
<1>1. /\ firing # Nil /\ cancelled' = cancelled \cup {firing} /\ firing' = Nil
      /\ UNCHANGED <<pc, fd, watched, inbox, peerClosed, interest, ready, cancels, events>>
  BY DEF Fire, handler, kernel
<1>2. TypeOK'
  BY <1>1 DEF TypeOK
<1>3. CancelKept' /\ CloseNoticed'
  BY <1>1 DEF TypeOK, CancelKept, CloseNoticed
<1> QED
  BY <1>1, <1>2, <1>3 DEF DescriptorsOK, RegistrationOK, CancelsOwned

LEMMA StepInv == Inv /\ [Next]_vars => Inv'
<1> SUFFICES ASSUME Inv, [Next]_vars PROVE Inv'
  OBVIOUS
<1>1. ASSUME NEW c \in Conns, Accept(c) PROVE Inv'
  BY <1>1, AcceptInv
<1>2. ASSUME NEW c \in Conns, ClientClose(c) PROVE Inv'
  BY <1>2, ClientCloseInv
<1>3. ASSUME NEW c \in Conns, BrokerReturns(c) PROVE Inv'
  BY <1>3, QuietInv
<1>4. ASSUME NEW c \in Conns, NEW op \in Requests, ClientSend(c, op) PROVE Inv'
  BY <1>4, ClientSendInv
<1>5. ASSUME NEW c \in Conns, HandlerStep(c) PROVE Inv'
  BY <1>5, QuietInv, RegisterInv, EpollAddInv, DropInv, EpollDelInv, ConnCloseInv,
     DeferredCancelInv
  DEF HandlerStep
<1>6. CASE Run
  BY <1>6, EpollWaitInv, HandleEventInv, FireInv DEF Run
<1>7. CASE UNCHANGED vars
  BY <1>7 DEF vars, handler, kernel, watcher, Inv, TypeOK, DescriptorsOK, RegistrationOK,
     CancelsOwned, CancelKept, CloseNoticed
<1> QED BY <1>1, <1>2, <1>3, <1>4, <1>5, <1>6, <1>7 DEF Next

LEMMA Invariance == Spec => []Inv
BY InitInv, StepInv, PTL DEF Spec

-----------------------------------------------------------------------------
(* The theorems                                                            *)

\* conn_watcher.go and handleConn keep the types, ready descriptors are in the
\* interest list, and run handles events of real descriptors only.
THEOREM WatcherTypes == Spec => []TypeOK
<1>1. Inv => TypeOK
  BY DEF Inv
<1> QED BY <1>1, Invariance, PTL

\* register, unregister and run never leave an entry in the cancels map, nor
\* the kernel one in its interest list, for a descriptor that its connection
\* has closed, whatever the reuse of descriptors.
THEOREM CancelsAreOwned == Spec => []CancelsOwned
<1>1. Inv => CancelsOwned
  BY DEF Inv
<1> QED BY <1>1, Invariance, PTL

\* The close of a watched peer is never lost between the kernel, the batch and
\* the map: it is on its way until the context of the connection is cancelled.
THEOREM ClosesAreNoticed == Spec => []CloseNoticed
<1>1. Inv => CloseNoticed
  BY DEF Inv
<1> QED BY <1>1, Invariance, PTL
=============================================================================
