---------------------------- MODULE StartupProofs ----------------------------
(***************************************************************************)
(* Machine-checked proofs about Startup, for any number of daemons and of  *)
(* clients that start, stop, crash and connect in any order.               *)
(***************************************************************************)
EXTENDS Startup, TLAPS

Accepting == {"chmod", "watcher", "serve", "unlink", "close"}

\* The kernel listens for a daemon, and has connections to it, only while the
\* daemon is there.
SocketsKnown ==
  /\ \A d \in Daemons : d \in listening <=> dpc[d] \in Accepting
  /\ \A k \in Clients : conn[k] # Nil => dpc[conn[k]] \in Accepting \cup {"deferred"}

Inv == TypeOK /\ SocketsKnown

LEMMA InitInv == Init => Inv
BY StartupAssumption DEF Init, Inv, TypeOK, Labels, SocketsKnown, Accepting

LEMMA DaemonInv ==
  ASSUME Inv, NEW d \in Daemons, Serve(d) \/ Stop(d) \/ Crash(d) \/ DaemonStep(d)
  PROVE  Inv'
<1> USE StartupAssumption DEF Inv, TypeOK, Labels, SocketsKnown, Accepting, Ended, Goto
<1>1. CASE Serve(d) \/ Stop(d)
  BY <1>1 DEF Serve, Stop
<1>2. CASE Crash(d)
  BY <1>2 DEF Crash
<1>3. CASE Stat(d)
  BY <1>3 DEF Stat
<1>4. CASE ProbeSocket(d)
  BY <1>4 DEF ProbeSocket
<1>5. CASE RemoveStale(d)
  BY <1>5 DEF RemoveStale
<1>6. CASE Bind(d)
  BY <1>6 DEF Bind
<1>7. CASE Listen(d)
  BY <1>7 DEF Listen
<1>8. CASE Chmod(d) \/ StartWatcher(d)
  BY <1>8 DEF Chmod, StartWatcher
<1>9. CASE Unlink(d)
  BY <1>9 DEF Unlink
<1>10. CASE CloseListener(d)
  BY <1>10 DEF CloseListener
<1>11. CASE DeferredRemove(d)
  BY <1>11 DEF DeferredRemove
<1> QED BY <1>1, <1>2, <1>3, <1>4, <1>5, <1>6, <1>7, <1>8, <1>9, <1>10, <1>11 DEF DaemonStep

LEMMA ClientInv ==
  ASSUME Inv, NEW k \in Clients, ClientStep(k)
  PROVE  Inv'
<1> USE StartupAssumption DEF Inv, TypeOK, Labels, SocketsKnown, Accepting, ClientGoto
<1>1. CASE FirstDial(k) \/ SecondDial(k)
  BY <1>1 DEF FirstDial, SecondDial, Connect, Dial
<1>2. CASE Spawn(k)
  BY <1>2 DEF Spawn, Ended, Goto
<1>3. CASE Probe(k) \/ ProbeTimeout(k) \/ ClientDone(k)
  BY <1>3 DEF Probe, ProbeTimeout, ClientDone
<1> QED BY <1>1, <1>2, <1>3 DEF ClientStep

LEMMA StepInv == Inv /\ [Next]_vars => Inv'
<1> SUFFICES ASSUME Inv, [Next]_vars PROVE Inv'
  OBVIOUS
<1>1. CASE PutFile
  BY <1>1 DEF PutFile, Inv, TypeOK, SocketsKnown
<1>2. CASE UNCHANGED vars
  BY <1>2 DEF vars, Inv, TypeOK, SocketsKnown
<1> QED BY <1>1, <1>2, DaemonInv, ClientInv DEF Next

LEMMA Invariance == Spec => []Inv
BY InitInv, StepInv, PTL DEF Spec

\* serve, removeStaleSocket and newRPCClient keep the types: in particular a
\* client is connected to a daemon, never to a plain file.
THEOREM StartupTypes == Spec => []TypeOK
<1>1. Inv => TypeOK
  BY DEF Inv
<1> QED BY <1>1, Invariance, PTL

-----------------------------------------------------------------------------
(* Who has the path                                                        *)

Kept(x) ==
  \/ Holds(x)'
  \/ x \in Daemons /\ (Leaves(x) \/ InTheGap(x))

\* The holder of the path itself only goes on, or stops.
LEMMA HolderSteps ==
  ASSUME Inv, NEW d \in Daemons, Holds(d), Stop(d) \/ Crash(d) \/ DaemonStep(d)
  PROVE  Kept(d)
<1> USE StartupAssumption
    DEF Inv, TypeOK, Holds, Away, Kept, Leaves, Ended, Goto, Labels
<1>1. CASE Stop(d) \/ Crash(d)
  BY <1>1 DEF Stop, Crash
<1>2. CASE Listen(d)
  BY <1>2 DEF Listen
<1>3. CASE Chmod(d)
  BY <1>3 DEF Chmod
<1>4. CASE StartWatcher(d)
  BY <1>4 DEF StartWatcher
<1>5. dpc[d] \in {"listen", "chmod", "watcher", "serve"}
  OBVIOUS
<1> QED BY <1>1, <1>2, <1>3, <1>4, <1>5
  DEF DaemonStep, Stat, ProbeSocket, RemoveStale, Bind, Unlink, CloseListener, DeferredRemove

\* A daemon that starts: its stat sees a plain file, its probe is answered unless
\* it comes before the holder listens, its bind fails.
LEMMA OthersGiveUp ==
  ASSUME Inv, NEW x \in Daemons \cup {File}, Holds(x), NEW e \in Daemons \ {x},
         Stop(e) \/ Crash(e) \/ DaemonStep(e)
  PROVE  Kept(x)
<1> USE StartupAssumption
    DEF Inv, TypeOK, Holds, Away, Kept, Ended, Goto, Labels
<1>1. CASE Crash(e)
  BY <1>1 DEF Crash, SocketsKnown, Accepting
<1>2. CASE Stat(e)
  <2>1. CASE x = File
    BY <1>2, <2>1 DEF Stat
  <2>2. CASE x \in Daemons /\ dpc[x] = "listen"
    BY <1>2, <2>2 DEF Stat, InTheGap
  <2>3. CASE x \in Daemons /\ dpc[x] # "listen"
    BY <1>2, <2>3 DEF Stat, SocketsKnown, Accepting
  <2> QED BY <2>1, <2>2, <2>3
<1>3. CASE ProbeSocket(e)
  BY <1>3 DEF ProbeSocket, Dial
<1>4. CASE Bind(e)
  BY <1>4 DEF Bind
<1>5. dpc[e] \in {"off", "failed", "stat", "bind", "probe"}
  OBVIOUS
<1> QED BY <1>1, <1>2, <1>3, <1>4, <1>5
  DEF DaemonStep, Stop, RemoveStale, Listen, Chmod, StartWatcher, Unlink, CloseListener,
      DeferredRemove

\* A daemon that has just been started is at its stat.
LEMMA StartsKeep ==
  ASSUME Inv, NEW x \in Daemons \cup {File}, Holds(x), NEW e \in Daemons,
         dpc[e] \in Ended, Goto(e, "stat"), UNCHANGED <<path, listening>>
  PROVE  Kept(x)
BY StartupAssumption DEF Inv, TypeOK, Holds, Away, Kept, Ended, Goto, Labels

LEMMA ClientsKeep ==
  ASSUME Inv, NEW x \in Daemons \cup {File}, Holds(x), NEW k \in Clients, ClientStep(k)
  PROVE  Kept(x)
<1>1. CASE Spawn(k)
  BY <1>1, StartsKeep DEF Spawn
<1>2. CASE UNCHANGED <<path, listening, dpc>>
  BY <1>2 DEF Kept, Holds, Away
<1> QED BY <1>1, <1>2
  DEF ClientStep, FirstDial, Probe, ProbeTimeout, SecondDial, ClientDone

\* A daemon that has the path keeps it until it stops, and a file that is not a
\* socket is kept for good, however many daemons are started at the same time by
\* hand and by clients, and whatever crashes; except that a daemon can lose the
\* path to a probe between its bind(2) and its listen(2).
THEOREM HoldersKeepThePath == Spec => PathKept
<1>1. Inv /\ [Next]_vars =>
        [\A x \in Daemons \cup {File} : Holds(x) => Kept(x)]_vars
  <2> SUFFICES ASSUME Inv, [Next]_vars, NEW x \in Daemons \cup {File}, Holds(x)
               PROVE  Kept(x) \/ UNCHANGED vars
    OBVIOUS
  <2>1. ASSUME NEW e \in Daemons, Serve(e)
        PROVE  Kept(x)
    BY <2>1, StartsKeep DEF Serve
  <2>2. ASSUME NEW e \in Daemons, Stop(e) \/ Crash(e) \/ DaemonStep(e)
        PROVE  Kept(x)
    BY <2>2, HolderSteps, OthersGiveUp
  <2>3. CASE PutFile
    BY <2>3, StartupAssumption DEF PutFile, Holds
  <2> QED BY <2>1, <2>2, <2>3, ClientsKeep DEF Next
<1>2. Inv /\ [Next]_vars =>
        [\A x \in Daemons \cup {File} :
           Holds(x) => \/ Holds(x)'
                       \/ x \in Daemons /\ (Leaves(x) \/ InTheGap(x))]_vars
  BY <1>1 DEF Kept
<1> QED BY <1>2, Invariance, PTL DEF Spec, PathKept

\* While a daemon has the path, every open connection leads to it, because no
\* other daemon has a socket: the clients that raced to start one share it.
THEOREM ClientsShareTheHolder == Spec => []ClientsShare
<1>1. Inv => ClientsShare
  <2> SUFFICES ASSUME Inv, NEW d \in Daemons, Holds(d), NEW k \in Clients, conn[k] # Nil
               PROVE  conn[k] = d
    BY DEF ClientsShare
  <2>1. conn[k] \in Daemons /\ dpc[conn[k]] \in Accepting \cup {"deferred"}
    BY DEF Inv, TypeOK, SocketsKnown
  <2> QED BY <2>1 DEF Holds, Away, Ended, Accepting
<1> QED BY <1>1, Invariance, PTL
=============================================================================
