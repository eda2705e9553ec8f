------------------------------- MODULE Startup -------------------------------
(***************************************************************************)
(* The socket file: how daemons take it over when they start, give it back *)
(* when they stop, and how clients find or start a daemon (serve,          *)
(* removeStaleSocket, newRPCClient and ensureDaemon in main.go).           *)
(*                                                                         *)
(* All processes share one path.  Every system call on it is a step of its *)
(* own.  A socket at the path is named by the daemon that bound it; after  *)
(* that daemon is gone the file is stale.  Nothing limits how many daemons *)
(* start and stop at the same time: clients start them on their own.       *)
(***************************************************************************)
EXTENDS Integers, FiniteSets

CONSTANTS
  Daemons,  \* daemon processes; one that has ended may be started again
  Clients,  \* processes that call newRPCClient with autoStart
  File,     \* a file at the path that is not a socket
  Nil

ASSUME StartupAssumption ==
  /\ Nil \notin Daemons
  /\ File \notin Daemons
  /\ Nil # File

VARIABLES
  path,       \* what is at socketPath: Nil, File, or the socket of a daemon
  listening,  \* daemons whose socket accepts connections
  dpc,        \* where a daemon is in serve
  cpc,        \* where a client is in newRPCClient
  conn        \* conn[k]: the daemon client k is connected to

vars == <<path, listening, dpc, cpc, conn>>

\* A socket that is there at first is a stale one.
Init ==
  /\ path \in Daemons \cup {File, Nil}
  /\ listening = {}
  /\ dpc = [d \in Daemons |-> "off"]
  /\ cpc = [k \in Clients |-> "idle"]
  /\ conn = [k \in Clients |-> Nil]

Goto(d, label) == dpc' = [dpc EXCEPT ![d] = label]

\* What connect(2) on the path may say.  On a path without a listener, stale
\* socket or plain file, it is refused; a listener may have no room (EAGAIN).
Dial == IF path = Nil THEN {"ENOENT"}
        ELSE IF path \in listening THEN {"ok", "EAGAIN"} ELSE {"ECONNREFUSED"}

\* Another program puts a file of its own where nothing is.
PutFile ==
  /\ path = Nil
  /\ path' = File
  /\ UNCHANGED <<listening, dpc, cpc, conn>>

-----------------------------------------------------------------------------
(* serve and removeStaleSocket                                             *)

\* "off": not started, stopped or crashed; "failed": serve returned an error
\* before it had the path.
Ended == {"off", "failed"}

\* atomic-queue serve, by hand, by systemd or by a client.
Serve(d) ==
  /\ dpc[d] \in Ended
  /\ Goto(d, "stat")
  /\ UNCHANGED <<path, listening, cpc, conn>>

\* os.Stat(socketPath): a file that is not a socket is refused.
Stat(d) ==
  /\ dpc[d] = "stat"
  /\ Goto(d, CASE path = Nil -> "bind" [] path = File -> "failed" [] OTHER -> "probe")
  /\ UNCHANGED <<path, listening, cpc, conn>>

\* Mutant: the socket is removed without asking whether somebody answers.
ProbeNothing(d) ==
  /\ dpc[d] = "probe"
  /\ Goto(d, "remove")
  /\ UNCHANGED <<path, listening, cpc, conn>>

\* Mutant: a socket that refuses is left to net.Listen.
ProbeNoRemove(d) ==
  /\ dpc[d] = "probe"
  /\ \E e \in Dial : Goto(d, IF e \in {"ENOENT", "ECONNREFUSED"} THEN "bind" ELSE "failed")
  /\ UNCHANGED <<path, listening, cpc, conn>>

\* net.DialTimeout: a socket that refuses is stale.  If somebody answers, a
\* daemon is already running, and any other error ends serve as well.
ProbeSocket(d) ==
  /\ dpc[d] = "probe"
  /\ \E e \in Dial : Goto(d, IF e \in {"ENOENT", "ECONNREFUSED"} THEN "remove" ELSE "failed")
  /\ UNCHANGED <<path, listening, cpc, conn>>

\* os.Remove fails if the file has gone, and so does serve.
RemoveStale(d) ==
  /\ dpc[d] = "remove"
  /\ Goto(d, IF path = Nil THEN "failed" ELSE "bind")
  /\ path' = Nil
  /\ UNCHANGED <<listening, cpc, conn>>

\* net.Listen: bind(2) creates the file, or fails with EADDRINUSE ...
Bind(d) ==
  /\ dpc[d] = "bind"
  /\ \/ path = Nil /\ path' = d /\ Goto(d, "listen")
     \/ path # Nil /\ Goto(d, "failed") /\ UNCHANGED path
  /\ UNCHANGED <<listening, cpc, conn>>

\* ... and listen(2) makes it accept connections.
Listen(d) ==
  /\ dpc[d] = "listen"
  /\ listening' = listening \cup {d}
  /\ Goto(d, "chmod")
  /\ UNCHANGED <<path, cpc, conn>>

\* os.Chmod fails if the file has gone; then serve returns.
Chmod(d) ==
  /\ dpc[d] = "chmod"
  /\ Goto(d, IF path = Nil THEN "unlink" ELSE "watcher")
  /\ UNCHANGED <<path, listening, cpc, conn>>

\* newConnWatcher, and the accept loop.
StartWatcher(d) ==
  /\ dpc[d] = "watcher"
  /\ Goto(d, "serve") \/ Goto(d, "unlink")
  /\ UNCHANGED <<path, listening, cpc, conn>>

\* SIGINT or SIGTERM, or an error of Accept.
Stop(d) ==
  /\ dpc[d] = "serve"
  /\ Goto(d, "unlink")
  /\ UNCHANGED <<path, listening, cpc, conn>>

\* listener.Close unlinks the path, whatever is there by now ...
Unlink(d) ==
  /\ dpc[d] = "unlink"
  /\ path' = Nil
  /\ Goto(d, "close")
  /\ UNCHANGED <<listening, cpc, conn>>

\* ... and closes the listening socket.
CloseListener(d) ==
  /\ dpc[d] = "close"
  /\ listening' = listening \ {d}
  /\ Goto(d, "deferred")
  /\ UNCHANGED <<path, cpc, conn>>

\* The deferred os.Remove(socketPath); then the process ends and with it the
\* connections it has.
DeferredRemove(d) ==
  /\ dpc[d] = "deferred"
  /\ path' = Nil
  /\ Goto(d, "off")
  /\ conn' = [k \in Clients |-> IF conn[k] = d THEN Nil ELSE conn[k]]
  /\ UNCHANGED <<listening, cpc>>

\* A crash, or a signal before the handler is installed: the file stays.
Crash(d) ==
  /\ dpc[d] \notin Ended
  /\ listening' = listening \ {d}
  /\ Goto(d, "off")
  /\ conn' = [k \in Clients |-> IF conn[k] = d THEN Nil ELSE conn[k]]
  /\ UNCHANGED <<path, cpc>>

-----------------------------------------------------------------------------
(* newRPCClient and ensureDaemon                                           *)

ClientGoto(k, label) == cpc' = [cpc EXCEPT ![k] = label]

Connect(k) == conn' = [conn EXCEPT ![k] = path]

\* Mutant: the error of net.DialTimeout is dropped.
FirstDialNoError(k) ==
  /\ cpc[k] = "idle"
  /\ Connect(k) /\ ClientGoto(k, "connected")
  /\ UNCHANGED <<path, listening, dpc>>

\* shouldStartDaemon: ENOENT and ECONNREFUSED lead to ensureDaemon, any other
\* error does not.
FirstDial(k) ==
  /\ cpc[k] = "idle"
  /\ \/ "ok" \in Dial /\ Connect(k) /\ ClientGoto(k, "connected")
     \/ Dial \cap {"ENOENT", "ECONNREFUSED"} # {} /\ ClientGoto(k, "spawn") /\ UNCHANGED conn
     \/ "EAGAIN" \in Dial /\ ClientGoto(k, "failed") /\ UNCHANGED conn
  /\ UNCHANGED <<path, listening, dpc>>

\* cmd.Start: atomic-queue serve in a session of its own.
Spawn(k) ==
  /\ cpc[k] = "spawn"
  /\ \E d \in Daemons : dpc[d] \in Ended /\ Goto(d, "stat")
  /\ ClientGoto(k, "probe")
  /\ UNCHANGED <<path, listening, conn>>

\* The probe connection is closed again.
Probe(k) ==
  /\ cpc[k] = "probe"
  /\ "ok" \in Dial
  /\ ClientGoto(k, "redial")
  /\ UNCHANGED <<path, listening, dpc, conn>>

\* daemonStartTimeout.
ProbeTimeout(k) ==
  /\ cpc[k] = "probe"
  /\ ClientGoto(k, "failed")
  /\ UNCHANGED <<path, listening, dpc, conn>>

SecondDial(k) ==
  /\ cpc[k] = "redial"
  /\ \/ "ok" \in Dial /\ Connect(k) /\ ClientGoto(k, "connected")
     \/ Dial # {"ok"} /\ ClientGoto(k, "failed") /\ UNCHANGED conn
  /\ UNCHANGED <<path, listening, dpc>>

\* The command ends; the client may run another one.
ClientDone(k) ==
  /\ cpc[k] \in {"connected", "failed"}
  /\ ClientGoto(k, "idle")
  /\ conn' = [conn EXCEPT ![k] = Nil]
  /\ UNCHANGED <<path, listening, dpc>>

-----------------------------------------------------------------------------
DaemonStep(d) ==
  \/ Stat(d) \/ ProbeSocket(d) \/ RemoveStale(d) \/ Bind(d) \/ Listen(d)
  \/ Chmod(d) \/ StartWatcher(d) \/ Unlink(d) \/ CloseListener(d)
  \/ DeferredRemove(d)

ClientStep(k) ==
  \/ FirstDial(k) \/ Spawn(k) \/ Probe(k) \/ ProbeTimeout(k)
  \/ SecondDial(k) \/ ClientDone(k)

Next ==
  \/ \E d \in Daemons : Serve(d) \/ Stop(d) \/ Crash(d) \/ DaemonStep(d)
  \/ \E k \in Clients : ClientStep(k)
  \/ PutFile

Spec == Init /\ [][Next]_vars

\* A daemon that has been started runs; nobody has to start, stop or crash.
FairSpec == Spec /\ \A d \in Daemons : WF_vars(DaemonStep(d))

-----------------------------------------------------------------------------
Labels == {"off", "failed", "stat", "probe", "remove", "bind", "listen", "chmod",
           "watcher", "serve", "unlink", "close", "deferred"}

\* The variables keep their types; only a daemon can be connected to.
TypeOK ==
  /\ path \in Daemons \cup {File, Nil}
  /\ listening \subseteq Daemons
  /\ dpc \in [Daemons -> Labels]
  /\ cpc \in [Clients -> {"idle", "spawn", "probe", "redial", "connected", "failed"}]
  /\ conn \in [Clients -> Daemons \cup {Nil}]

\* At most one daemon serves, so producers and consumers meet in one broker.
OneDaemon ==
  \A d, e \in Daemons : dpc[d] = "serve" /\ dpc[e] = "serve" => d = e

\* A daemon that will not unlink what is at the path: it is not past its probe,
\* and its probe will be answered if x listens.
Away(e, x) ==
  \/ dpc[e] \in Ended \cup {"stat", "bind"}
  \/ dpc[e] = "probe" /\ x \in listening

\* x has the path: a daemon from its bind to its end, or a file that is not a
\* socket, and no other daemon has gone too far to notice it.
Holds(x) ==
  /\ path = x
  /\ x = File \/ (x \in Daemons /\ dpc[x] \in {"listen", "chmod", "watcher", "serve"})
  /\ \A e \in Daemons \ {x} : Away(e, x)

Leaves(d) == dpc[d] # dpc'[d] /\ dpc'[d] \in {"unlink", "off"}

\* A probe is about to meet the socket of d between its bind and its listen.
InTheGap(d) ==
  /\ dpc[d] = "listen"
  /\ \E e \in Daemons \ {d} : dpc[e] = "stat" /\ dpc'[e] = "probe"

\* What has the path keeps it, however many daemons are started at the same time
\* by hand and by clients, and whatever crashes: a daemon until it stops, and a
\* file of somebody else for good.  Two things only can take it away: a daemon
\* that was already about to unlink the path, and a probe in the gap between
\* bind(2) and listen(2).
PathKept ==
  [][\A x \in Daemons \cup {File} :
       Holds(x) => \/ Holds(x)'
                   \/ x \in Daemons /\ (Leaves(x) \/ InTheGap(x))]_vars

\* As long as a daemon has the path, all open connections of all clients lead to
\* it, also those of clients that have started daemons of their own, so that
\* producers and consumers meet in one broker.
ClientsShare ==
  \A d \in Daemons : Holds(d) => \A k \in Clients : conn[k] \in {Nil, d}

\* A daemon that starts while no other one is there comes to serve, whatever
\* stale socket crashes and races have left at the path, unless it crashes,
\* another daemon is started, or another program puts its file there.
RestartServes ==
  \A d \in Daemons :
    LET Alone == \A e \in Daemons \ {d} : dpc[e] \in Ended
    IN  dpc[d] = "stat" /\ Alone /\ path # File
          ~> dpc[d] \in {"serve", "off"} \/ ~Alone \/ path = File
=============================================================================
