-------------------------------- MODULE Stress --------------------------------
(***************************************************************************)
(* atomic-queue stress (runStress in stress.go): producers and consumers,  *)
(* each on a connection of its own, until a deadline; and the program of   *)
(* examples/go/stress, which does the same with a client of its own.       *)
(*                                                                         *)
(* The daemon is the number of messages it holds on the channels of the    *)
(* run, at most Cap of them; Daemon and Protocol say how it comes to its   *)
(* answers and that it closes the connection after an error.               *)
(***************************************************************************)
EXTENDS CommandLine

CONSTANTS
  Workers,   \* bound: goroutines, an interval of numbers from 1
  Examples,  \* what the flags of examples/go/stress may say
  Cap0,      \* messages that fit the daemon's cap
  Queued0,   \* messages it may hold before the run
  MaxCalls   \* bound: calls of a worker

ASSUME StressAssumption ==
  /\ IsFiniteSet(Workers) /\ Workers = 1 .. Cardinality(Workers)
  /\ {Cap0, MaxCalls} \subseteq Nat
  /\ Queued0 \subseteq 0 .. Cap0

VARIABLES
  alive,     \* a daemon runs
  died,      \* history: a daemon has died during the run
  queued,    \* messages in the daemon
  expired,   \* the deadline of the run has passed
  role,      \* role[w]: "producer", "consumer" or "none"
  wpc,       \* wpc[w]: "off", "dial", "loop", "asked", "answered", "done"
  answer,    \* answer[w]: the answer to w's call: "ok", "timeout", "error", "none"
  ncalls,    \* ncalls[w]: calls that w has made
  open,      \* connections that the daemon has not closed
  pushed, served, popTimeouts, failures,
  before     \* history: messages in the daemon after the warm-up

daemon == <<alive, died, queued>>
counters == <<pushed, served, popTimeouts, failures>>
workers == <<role, wpc, answer, ncalls, open>>
svars == <<daemon, workers, counters, expired, before>>
vars == <<cli, svars>>

Stressing == command.cmd \in {"stress", "example"}

Init ==
  /\ CLInit
  /\ alive = TRUE /\ died = FALSE
  /\ queued \in IF Stressing THEN Queued0 ELSE {0}
  /\ expired = FALSE
  /\ role = [w \in Workers |-> "none"]
  /\ wpc = [w \in Workers |-> "off"]
  /\ answer = [w \in Workers |-> "none"]
  /\ ncalls = [w \in Workers |-> 0]
  /\ open = {}
  /\ pushed = 0 /\ served = 0 /\ popTimeouts = 0 /\ failures = 0
  /\ before = 0

-----------------------------------------------------------------------------
(* Before the run                                                          *)

\* Producers and consumers for a configuration.
stressWorkerCounts(c) ==
  IF c.publishers > 0 /\ c.consumers > 0 THEN <<c.publishers, c.consumers>>
  ELSE LET p == Max({c.threads \div 2, 1}) IN <<p, Max({c.threads - p, 1})>>

RunStress ==
  /\ ppc = "parsed"
  /\ command.cmd = "stress"
  /\ ~config.err /\ AllValid(config.channels)
  /\ ppc' = "warm"
  /\ UNCHANGED <<command, exit, config, ask, effect, svars>>

\* The flag package is taken for what it returns.
ExampleMain ==
  /\ ppc = "start"
  /\ command.cmd = "example"
  /\ config' \in Examples
  /\ ppc' = "warm"
  /\ UNCHANGED <<command, exit, ask, effect, svars>>

\* The pop that starts the daemon takes a message if there is one.  The example
\* goes on as well when its pop fails.
WarmUp ==
  /\ ppc = "warm"
  /\ ppc' = "stress"
  /\ \/ queued' = Max({queued - 1, 0})
     \/ command.cmd = "example" /\ queued' = queued
  /\ before' = queued'
  /\ LET n == stressWorkerCounts(config)
     IN  /\ role' = [w \in Workers |->
                       IF w <= n[1] THEN "producer"
                       ELSE IF w <= n[1] + n[2] THEN "consumer" ELSE "none"]
         /\ wpc' = [w \in Workers |-> IF w <= n[1] + n[2] THEN "dial" ELSE "off"]
  /\ UNCHANGED <<command, exit, config, ask, effect, alive, died, answer, ncalls,
                 open, counters, expired>>

\* There is no daemon and none can be started, or, other than in the example,
\* the pop fails or is answered with an error.
WarmUpFails ==
  /\ ppc = "warm"
  /\ Exit(exitRuntime)
  /\ UNCHANGED <<command, config, ask, effect, svars>>

Expire ==
  /\ ppc = "stress"
  /\ ~expired
  /\ expired' = TRUE
  /\ UNCHANGED <<cli, daemon, workers, counters, before>>

-----------------------------------------------------------------------------
(* The workers                                                             *)

Goto(w, label) == wpc' = [wpc EXCEPT ![w] = label]

\* The loop ends with its worker: the deferred Close follows.
Done(w) == Goto(w, "done") /\ open' = open \ {w}

Dial(w) ==
  /\ wpc[w] = "dial"
  /\ IF alive THEN /\ Goto(w, "loop")
                   /\ open' = open \cup {w}
                   /\ UNCHANGED failures
              ELSE /\ Done(w)
                   /\ failures' = failures + 1
  /\ UNCHANGED <<cli, daemon, role, answer, ncalls, pushed, served, popTimeouts, expired, before>>

\* The workers of the example start a daemon when there is none.
ExampleDial(w) ==
  /\ wpc[w] = "dial"
  /\ command.cmd = "example" /\ ~alive
  /\ alive' = TRUE /\ queued' = 0
  /\ Goto(w, "loop")
  /\ open' = open \cup {w}
  /\ UNCHANGED <<cli, died, role, answer, ncalls, counters, expired, before>>

\* Mutant: the deadline is looked at after a failed call only.
LoopWhileOpen(w) ==
  /\ wpc[w] = "loop"
  /\ expired /\ w \notin open
  /\ Done(w)
  /\ UNCHANGED <<cli, daemon, role, answer, ncalls, counters, expired, before>>

\* ctx.Err() is not nil.
LoopEnds(w) ==
  /\ wpc[w] = "loop"
  /\ expired
  /\ Done(w)
  /\ UNCHANGED <<cli, daemon, role, answer, ncalls, counters, expired, before>>

\* Push or Pop writes its request.
Call(w) ==
  /\ wpc[w] = "loop"
  /\ ~expired
  /\ w \in open
  /\ ncalls[w] < MaxCalls
  /\ ncalls' = [ncalls EXCEPT ![w] = @ + 1]
  /\ Goto(w, "asked")
  /\ UNCHANGED <<cli, daemon, role, answer, open, counters, expired, before>>

\* Writing to the connection, or reading from it, fails: it was closed after an
\* error or by the end of the daemon.
CallFails(w) ==
  /\ w \notin open
  /\ \/ wpc[w] = "loop" /\ ~expired
     \/ wpc[w] = "asked"
  /\ Done(w)
  /\ failures' = failures + 1
  /\ UNCHANGED <<cli, daemon, role, answer, ncalls, pushed, served, popTimeouts, expired, before>>

\* Mutant: a push is counted before its answer is looked at.
PushedEarly(w) ==
  /\ wpc[w] = "answered" /\ role[w] = "producer"
  /\ answer' = [answer EXCEPT ![w] = "none"]
  /\ pushed' = pushed + 1
  /\ IF answer[w] = "ok"
     THEN Goto(w, "loop") /\ UNCHANGED <<failures, open>>
     ELSE Done(w) /\ failures' = failures + 1
  /\ UNCHANGED <<cli, daemon, role, ncalls, served, popTimeouts, expired, before>>

\* A producer counts a push that was acknowledged, and gives up on an error.
Pushed(w) ==
  /\ wpc[w] = "answered" /\ role[w] = "producer"
  /\ answer' = [answer EXCEPT ![w] = "none"]
  /\ IF answer[w] = "ok"
     THEN /\ Goto(w, "loop")
          /\ pushed' = pushed + 1
          /\ UNCHANGED <<failures, open>>
     ELSE /\ Done(w)
          /\ failures' = failures + 1
          /\ UNCHANGED pushed
  /\ UNCHANGED <<cli, daemon, role, ncalls, served, popTimeouts, expired, before>>

\* A consumer of the example goes on after a timeout, but not after any other
\* error.
ExampleGivesUp(w) == command.cmd = "example" /\ answer[w] = "error"

ExampleError(w) ==
  /\ wpc[w] = "answered" /\ role[w] = "consumer"
  /\ ExampleGivesUp(w)
  /\ answer' = [answer EXCEPT ![w] = "none"]
  /\ Done(w)
  /\ failures' = failures + 1
  /\ UNCHANGED <<cli, daemon, role, ncalls, pushed, served, popTimeouts, expired, before>>

\* A consumer counts what the answer was and goes on with its connection.
Popped(w) ==
  /\ wpc[w] = "answered" /\ role[w] = "consumer"
  /\ ~ExampleGivesUp(w)
  /\ answer' = [answer EXCEPT ![w] = "none"]
  /\ Goto(w, "loop")
  /\ served' = served + (IF answer[w] = "ok" THEN 1 ELSE 0)
  /\ popTimeouts' = popTimeouts + (IF answer[w] = "timeout" THEN 1 ELSE 0)
  /\ failures' = failures + (IF answer[w] = "error" THEN 1 ELSE 0)
  /\ UNCHANGED <<cli, daemon, role, ncalls, open, pushed, expired, before>>

\* wg.Wait returns and the counters are printed; only the writing of JSON is
\* looked at, and not in the example.
Report ==
  /\ ppc = "stress"
  /\ \A w \in Workers : wpc[w] \in {"off", "done"}
  /\ \/ Exit(exitOK)
     \/ command.cmd = "stress" /\ config.format = <<"json">> /\ Exit(exitRuntime)
  /\ UNCHANGED <<command, config, ask, effect, svars>>

-----------------------------------------------------------------------------
(* The daemon's answers                                                    *)

Answer(w, a) ==
  /\ wpc[w] = "asked" /\ w \in open
  /\ Goto(w, "answered")
  /\ answer' = [answer EXCEPT ![w] = a]

\* The message is queued as soon as there is room.
AcceptPush(w) ==
  /\ role[w] = "producer"
  /\ queued < Cap0
  /\ Answer(w, "ok")
  /\ queued' = queued + 1
  /\ UNCHANGED <<cli, alive, died, role, ncalls, open, counters, expired, before>>

ServePop(w) ==
  /\ role[w] = "consumer"
  /\ queued > 0
  /\ Answer(w, "ok")
  /\ queued' = queued - 1
  /\ UNCHANGED <<cli, alive, died, role, ncalls, open, counters, expired, before>>

\* Mutant: the handler keeps the connection after an error response.
TimeoutKeepsOpen(w) ==
  /\ role[w] = "consumer"
  /\ Deadline(Milliseconds(config.timeout)) > 0
  /\ Answer(w, "timeout")
  /\ UNCHANGED <<cli, daemon, role, ncalls, open, counters, expired, before>>

\* handleConn returns after a timeout, which closes the connection.
TimeoutPop(w) ==
  /\ role[w] = "consumer"
  /\ Deadline(Milliseconds(config.timeout)) > 0
  /\ Answer(w, "timeout")
  /\ open' = open \ {w}
  /\ UNCHANGED <<cli, daemon, role, ncalls, counters, expired, before>>

\* Any other error response, such as that of a push cancelled by a shutdown.
RefuseCall(w) ==
  /\ Answer(w, "error")
  /\ open' = open \ {w}
  /\ UNCHANGED <<cli, daemon, role, ncalls, counters, expired, before>>

\* The daemon dies, once in a run.
DaemonDies ==
  /\ ppc = "stress"
  /\ ~died
  /\ alive' = FALSE /\ died' = TRUE
  /\ open' = {}
  /\ UNCHANGED <<cli, queued, role, wpc, answer, ncalls, counters, expired, before>>

WorkerStep(w) ==
  \/ Dial(w) \/ ExampleDial(w) \/ LoopEnds(w) \/ Call(w) \/ CallFails(w)
  \/ Pushed(w) \/ Popped(w) \/ ExampleError(w)

Next ==
  \/ CLNext /\ UNCHANGED svars
  \/ RunStress \/ ExampleMain \/ WarmUp \/ WarmUpFails \/ Expire \/ Report \/ DaemonDies
  \/ \E w \in Workers : \/ WorkerStep(w)
                        \/ AcceptPush(w) \/ ServePop(w)
                        \/ TimeoutPop(w) \/ RefuseCall(w)

Spec == Init /\ [][Next]_vars

\* The workers run, the timers of the run and of a pop go off, and the daemon
\* answers what it can: a pop of a queued message, a push that fits.
FairSpec ==
  /\ Spec
  /\ WF_vars(Expire) /\ WF_vars(Report)
  /\ \A w \in Workers :
       /\ WF_vars(WorkerStep(w))
       /\ SF_vars(AcceptPush(w)) /\ SF_vars(ServePop(w))
       /\ WF_vars(TimeoutPop(w))

-----------------------------------------------------------------------------
(* Properties                                                              *)

\* The printed numbers agree with the daemon: unless a daemon has died, what was
\* there and what was pushed is what was served and what is still there.
CountersBalance ==
  ppc = "done" /\ exit = exitOK /\ Stressing /\ ~died =>
    before + pushed = served + queued

\* A consumer that goes on after a timeout finds its connection closed, so it
\* times out once at most, however long the run and however short --pop-timeout.
TimeoutIsLast ==
  popTimeouts <= Cardinality({w \in Workers : role[w] = "consumer"})

\* Calls that can wait for ever: pushes at the cap, and pops without a deadline
\* on empty queues.  The deadline of the run does not end them.
Blocked(w) ==
  /\ wpc[w] = "asked" /\ w \in open
  /\ IF role[w] = "producer" THEN queued = Cap0
     ELSE queued = 0 /\ Deadline(Milliseconds(config.timeout)) = 0

\* The run ends after its deadline, unless all that is left of it is blocked in
\* the daemon: producers because no consumer is left, or consumers without a
\* deadline because no producer is.
RunEnds ==
  <>[](ppc = "stress" => /\ \E w \in Workers : Blocked(w)
                         /\ \A w \in Workers : wpc[w] \in {"off", "done"} \/ Blocked(w))
=============================================================================
