----------------------------- MODULE ConnWatcher -----------------------------
(***************************************************************************)
(* The epoll watcher (conn_watcher.go) and the life of the connections it  *)
(* watches (handleConn in main.go).                                        *)
(*                                                                         *)
(* Every connection has a goroutine that registers its file descriptor,    *)
(* serves requests, and on return runs its deferred calls in LIFO order:   *)
(* unregister, conn.Close, cancel.  One more goroutine fetches events from *)
(* epoll in batches and cancels the context that the map cancels holds for *)
(* the descriptor of each event.  The two meet in that map, which a mutex  *)
(* protects, and in the kernel, which hands out closed descriptors again.  *)
(*                                                                         *)
(* The broker is only a place where a handler may be blocked here.         *)
(***************************************************************************)
EXTENDS Integers, FiniteSets

CONSTANTS
  Conns,      \* connections, numbered in the order they are accepted
  Fds,        \* file descriptors
  MaxEvents,  \* length of the events buffer of run
  Nil

ASSUME WatcherAssumption ==
  /\ Conns \subseteq Nat
  /\ Nil \notin Conns
  /\ Nil \notin Fds /\ Fds # {}
  /\ MaxEvents \in Nat \ {0}

VARIABLES
  pc,          \* where the handler of a connection is
  fd,          \* fd[c]: the open descriptor of c, or Nil
  watched,     \* connections whose register succeeded
  inbox,       \* inbox[c]: the request of c that is in the socket buffer
  peerClosed,  \* connections whose client has closed its end
  cancels,     \* [fd -> connection whose cancel function it holds, or Nil]
  interest,    \* connections in the interest list of epfd
  ready,       \* connections in its ready list (edge triggered)
  events,      \* descriptors of the fetched batch that are still to be handled
  firing,      \* connection whose cancel function run is about to call
  cancelled    \* connections whose connCtx is cancelled

handler == <<pc, fd, watched, inbox>>
kernel == <<interest, ready>>
watcher == <<cancels, events, firing>>
vars == <<handler, peerClosed, kernel, watcher, cancelled>>

Requests == {"push", "pop", "bad"}

Init ==
  /\ pc = [c \in Conns |-> "new"]
  /\ fd = [c \in Conns |-> Nil]
  /\ watched = {}
  /\ inbox = [c \in Conns |-> Nil]
  /\ peerClosed = {}
  /\ cancels = [f \in Fds |-> Nil]
  /\ interest = {}
  /\ ready = {}
  /\ events = {}
  /\ firing = Nil
  /\ cancelled = {}

Goto(c, label) == pc' = [pc EXCEPT ![c] = label]

-----------------------------------------------------------------------------
(* The client and the kernel                                               *)

FreeFds == Fds \ {fd[c] : c \in Conns}

\* Descriptors have no other order than that of their first use.
FirstFd == CHOOSE f \in Fds : TRUE

\* listener.Accept, and go handleConn.
Accept(c) ==
  /\ pc[c] = "new"
  /\ \A d \in Conns : d < c => pc[d] # "new"
  /\ \E f \in IF \A d \in Conns : pc[d] = "new" THEN {FirstFd} ELSE FreeFds :
       fd' = [fd EXCEPT ![c] = f]
  /\ Goto(c, "accepted")
  /\ UNCHANGED <<watched, inbox, peerClosed, kernel, watcher, cancelled>>

\* A client sends its next request when it has the response to the last one.
ClientSend(c, op) ==
  /\ pc[c] \in {"accepted", "add", "undo", "read"}
  /\ c \notin peerClosed
  /\ inbox[c] = Nil
  /\ inbox' = [inbox EXCEPT ![c] = op]
  /\ UNCHANGED <<pc, fd, watched, peerClosed, kernel, watcher, cancelled>>

\* EPOLLRDHUP and EPOLLHUP: a connection in the interest list becomes ready.
ClientClose(c) ==
  /\ fd[c] # Nil
  /\ c \notin peerClosed
  /\ peerClosed' = peerClosed \cup {c}
  /\ ready' = ready \cup ({c} \cap interest)
  /\ UNCHANGED <<handler, interest, watcher, cancelled>>

-----------------------------------------------------------------------------
(* connWatcher.register, in handleConn                                     *)

\* connFD failed: the connection is served without a watch.
ConnFDFails(c) ==
  /\ pc[c] = "accepted"
  /\ Goto(c, "read")
  /\ UNCHANGED <<fd, watched, inbox, peerClosed, kernel, watcher, cancelled>>

\* Under the mutex: w.cancels[fd] = cancel, before the descriptor is watched.
Register(c) ==
  /\ pc[c] = "accepted"
  /\ cancels' = [cancels EXCEPT ![fd[c]] = c]
  /\ Goto(c, "add")
  /\ UNCHANGED <<fd, watched, inbox, peerClosed, kernel, events, firing, cancelled>>

\* EPOLL_CTL_ADD reports at once what has already happened to the descriptor.
EpollAdd(c) ==
  /\ pc[c] = "add"
  /\ interest' = interest \cup {c}
  /\ ready' = ready \cup ({c} \cap peerClosed)
  /\ watched' = watched \cup {c}
  /\ Goto(c, "read")
  /\ UNCHANGED <<fd, inbox, peerClosed, watcher, cancelled>>

EpollAddFails(c) ==
  /\ pc[c] = "add"
  /\ Goto(c, "undo")
  /\ UNCHANGED <<fd, watched, inbox, peerClosed, kernel, watcher, cancelled>>

RegisterUndo(c) ==
  /\ pc[c] = "undo"
  /\ cancels' = [cancels EXCEPT ![fd[c]] = Nil]
  /\ Goto(c, "read")
  /\ UNCHANGED <<fd, watched, inbox, peerClosed, kernel, events, firing, cancelled>>

-----------------------------------------------------------------------------
(* The request loop of handleConn                                          *)

\* A request that cannot be decoded or has an unknown op ends the connection.
ReadRequest(c) ==
  /\ pc[c] = "read"
  /\ inbox[c] # Nil
  /\ inbox' = [inbox EXCEPT ![c] = Nil]
  /\ Goto(c, IF inbox[c] = "bad" THEN "return" ELSE inbox[c])
  /\ UNCHANGED <<fd, watched, peerClosed, kernel, watcher, cancelled>>

ReadEOF(c) ==
  /\ pc[c] = "read"
  /\ inbox[c] = Nil
  /\ c \in peerClosed
  /\ Goto(c, "return")
  /\ UNCHANGED <<fd, watched, inbox, peerClosed, kernel, watcher, cancelled>>

\* The broker call returns for a reason of its own.  The loop goes on after a
\* response without an error that could be written to the client.
BrokerReturns(c) ==
  /\ pc[c] \in {"push", "pop"}
  /\ \/ c \notin peerClosed /\ Goto(c, "read")
     \/ Goto(c, "return")
  /\ UNCHANGED <<fd, watched, inbox, peerClosed, kernel, watcher, cancelled>>

\* Mutant: the two contexts are swapped.
BrokerCancelledPop(c) ==
  /\ pc[c] = "pop"
  /\ c \in cancelled
  /\ Goto(c, "return")
  /\ UNCHANGED <<fd, watched, inbox, peerClosed, kernel, watcher, cancelled>>

\* PushOwned is given connCtx and returns when it is cancelled.  The context of
\* a Pop is timeoutContext(timeout), which is not derived from connCtx.
BrokerCancelled(c) ==
  /\ pc[c] = "push"
  /\ c \in cancelled
  /\ Goto(c, "return")
  /\ UNCHANGED <<fd, watched, inbox, peerClosed, kernel, watcher, cancelled>>

-----------------------------------------------------------------------------
(* The deferred calls of handleConn, last one first                        *)

\* connWatcher.unregister: EPOLL_CTL_DEL ...
EpollDel(c) ==
  /\ pc[c] = "return"
  /\ c \in watched
  /\ interest' = interest \ {c}
  /\ ready' = ready \ {c}
  /\ Goto(c, "delete")
  /\ UNCHANGED <<fd, watched, inbox, peerClosed, watcher, cancelled>>

\* Mutant: the entry of the map is left behind.
UnregisterKeepsEntry(c) ==
  /\ pc[c] = "delete"
  /\ Goto(c, "close")
  /\ UNCHANGED <<fd, watched, inbox, peerClosed, kernel, watcher, cancelled>>

\* ... and, under the mutex, delete(w.cancels, fd).
Unregister(c) ==
  /\ pc[c] = "delete"
  /\ cancels' = [cancels EXCEPT ![fd[c]] = Nil]
  /\ Goto(c, "close")
  /\ UNCHANGED <<fd, watched, inbox, peerClosed, kernel, events, firing, cancelled>>

\* conn.Close: the kernel drops the descriptor from epoll and may reuse it.
ConnClose(c) ==
  /\ \/ pc[c] = "close"
     \/ pc[c] = "return" /\ c \notin watched
  /\ fd' = [fd EXCEPT ![c] = Nil]
  /\ interest' = interest \ {c}
  /\ ready' = ready \ {c}
  /\ Goto(c, "cancel")
  /\ UNCHANGED <<watched, inbox, peerClosed, watcher, cancelled>>

DeferredCancel(c) ==
  /\ pc[c] = "cancel"
  /\ cancelled' = cancelled \cup {c}
  /\ Goto(c, "done")
  /\ UNCHANGED <<fd, watched, inbox, peerClosed, kernel, watcher>>

-----------------------------------------------------------------------------
(* connWatcher.run                                                         *)

\* Mutant: the loop runs over the whole buffer, zeroed entries included.
EpollWaitWholeBuffer ==
  /\ events = {}
  /\ firing = Nil
  /\ \E S \in SUBSET ready :
       /\ S # {}
       /\ events' = {fd[c] : c \in S} \cup {Nil}
       /\ ready' = ready \ S
  /\ UNCHANGED <<handler, peerClosed, interest, cancels, firing, cancelled>>

EpollWait ==
  /\ events = {}
  /\ firing = Nil
  /\ \E S \in SUBSET ready :
       /\ S # {}
       /\ Cardinality(S) <= MaxEvents
       /\ events' = {fd[c] : c \in S}
       /\ ready' = ready \ S
  /\ UNCHANGED <<handler, peerClosed, interest, cancels, firing, cancelled>>

\* Mutant: the rest of the batch is dropped after the first event.
HandleFirstEvent(f) ==
  /\ firing = Nil
  /\ f \in events
  /\ events' = {}
  /\ firing' = cancels[f]
  /\ cancels' = [cancels EXCEPT ![f] = Nil]
  /\ UNCHANGED <<handler, peerClosed, kernel, cancelled>>

\* Under the mutex: look the descriptor up and delete its entry.
HandleEvent(f) ==
  /\ firing = Nil
  /\ f \in events
  /\ events' = events \ {f}
  /\ firing' = cancels[f]
  /\ cancels' = [cancels EXCEPT ![f] = Nil]
  /\ UNCHANGED <<handler, peerClosed, kernel, cancelled>>

\* After the unlock: cancel().
Fire ==
  /\ firing # Nil
  /\ cancelled' = cancelled \cup {firing}
  /\ firing' = Nil
  /\ UNCHANGED <<handler, peerClosed, kernel, cancels, events>>

-----------------------------------------------------------------------------
\* The steps of a handler that wait neither for a client nor for the broker.
HandlerStep(c) ==
  \/ ConnFDFails(c) \/ Register(c) \/ EpollAdd(c) \/ EpollAddFails(c)
  \/ RegisterUndo(c) \/ ReadRequest(c) \/ ReadEOF(c) \/ BrokerCancelled(c)
  \/ EpollDel(c) \/ Unregister(c) \/ ConnClose(c) \/ DeferredCancel(c)

Run == EpollWait \/ (\E f \in Fds : HandleEvent(f)) \/ Fire

Next ==
  \/ \E c \in Conns : \/ Accept(c) \/ ClientClose(c) \/ BrokerReturns(c)
                      \/ \E op \in Requests : ClientSend(c, op)
                      \/ HandlerStep(c)
  \/ Run

Spec == Init /\ [][Next]_vars

\* Runnable goroutines run.  No client has to send or to close, and the broker
\* does not have to return.
FairSpec == Spec /\ WF_vars(Run) /\ \A c \in Conns : WF_vars(HandlerStep(c))

-----------------------------------------------------------------------------
(* Safety                                                                  *)

Labels == {"new", "accepted", "add", "undo", "read", "push", "pop", "return",
           "delete", "close", "cancel", "done"}

\* The variables keep their types; an event is for a descriptor.
TypeOK ==
  /\ pc \in [Conns -> Labels]
  /\ fd \in [Conns -> Fds \cup {Nil}]
  /\ watched \subseteq Conns
  /\ inbox \in [Conns -> Requests \cup {Nil}]
  /\ peerClosed \subseteq Conns
  /\ cancels \in [Fds -> Conns \cup {Nil}]
  /\ interest \subseteq Conns
  /\ ready \subseteq interest
  /\ events \subseteq Fds
  /\ firing \in Conns \cup {Nil}
  /\ cancelled \subseteq Conns

\* An entry of cancels belongs to the connection that has the descriptor open
\* now, and the interest list names open descriptors only: what a handler
\* leaves behind can never be taken for a later connection's.
CancelsOwned ==
  /\ \A f \in Fds : cancels[f] # Nil => fd[cancels[f]] = f
  /\ \A c \in interest : fd[c] # Nil

\* The close of a watched peer is never lost: until the context is cancelled,
\* a notification is in the ready list, in the fetched batch or about to fire,
\* and the map still has the cancel function for it.
CloseNoticed ==
  \A c \in interest \cap peerClosed :
    \/ c \in cancelled
    \/ firing = c
    \/ cancels[fd[c]] = c /\ (c \in ready \/ fd[c] \in events)

\* A context is cancelled by the watcher only if the peer has gone.
FiresOnDeadPeerOnly ==
  \A c \in cancelled : c \in peerClosed \/ pc[c] = "done"

-----------------------------------------------------------------------------
(* Liveness                                                                *)

\* A handler whose peer has closed does not stay blocked in a Push.
CloseUnblocksPush ==
  \A c \in Conns :
    (c \in watched \cap peerClosed /\ pc[c] = "push") ~> (pc[c] # "push")

\* When the peer of a watched connection closes, the handler can exit.
CloseEndsHandler ==
  \A c \in Conns : (c \in watched \cap peerClosed) ~> (pc[c] = "done")
=============================================================================
