---------------------------- MODULE StressProofs ----------------------------
(***************************************************************************)
(* Machine-checked proofs about Stress, for any number of workers and any  *)
(* cap, and about the command line that it extends, for any arguments.     *)
(***************************************************************************)
EXTENDS Stress, Arithmetic, FiniteSetTheorems, SequenceTheorems, TLAPS

\* Workers of a role with an answer that they have not counted yet.
Answered(r, a) == {w \in Workers : wpc[w] = "answered" /\ role[w] = r /\ answer[w] = a}

\* Consumers that have lost their connection.
Closed == {w \in Workers : role[w] = "consumer" /\ wpc[w] \notin {"off", "dial"} /\ w \notin open}

StressTypes ==
  /\ {queued, pushed, served, popTimeouts, before} \subseteq Nat
  /\ role \in [Workers -> {"producer", "consumer", "none"}]
  /\ wpc \in [Workers -> {"off", "dial", "loop", "asked", "answered", "done"}]
  /\ answer \in [Workers -> {"ok", "timeout", "error", "none"}]
  /\ open \subseteq Workers
  /\ ~died => alive

\* Which command a process runs, by its program counter.
Phases ==
  /\ ppc \in {"start", "parsed", "call", "printed", "serve", "warm", "stress", "done"}
  /\ ppc \in {"call", "printed"} => command.cmd \in {"push", "pop"}
  /\ ppc = "serve" => command.cmd = "serve"
  /\ ppc \in {"warm", "stress"} => Stressing

\* The workers work only during the run, so the counters start at 0.
WorkOnlyInRun ==
  /\ ppc = "done" => \A w \in Workers : wpc[w] \in {"off", "done"}
  /\ ppc \notin {"stress", "done"} =>
       /\ \A w \in Workers : wpc[w] = "off"
       /\ pushed = 0 /\ served = 0 /\ popTimeouts = 0

Reported == ppc = "stress" \/ (ppc = "done" /\ exit = exitOK /\ Stressing)

\* CountersBalance during the run: an answer that is on its way to its worker
\* is in the daemon's number and not in the printed one.
RunBalance ==
  Reported /\ ~died =>
    before + pushed + Cardinality(Answered("producer", "ok")) =
    served + queued + Cardinality(Answered("consumer", "ok"))

\* Every timeout has cost a consumer its connection.
TimeoutsClose ==
  popTimeouts + Cardinality(Answered("consumer", "timeout")) <= Cardinality(Closed)

\* A timeout that is not counted yet has closed its connection.
TimeoutClosed == \A w \in Answered("consumer", "timeout") : w \notin open

StressInv ==
  /\ StressTypes /\ Phases /\ WorkOnlyInRun
  /\ RunBalance /\ TimeoutsClose /\ TimeoutClosed

-----------------------------------------------------------------------------
(* Counting workers                                                        *)

LEMMA Counted ==
  ASSUME NEW A, A \subseteq Workers, NEW B, B \subseteq Workers, NEW w \in Workers,
         \A u \in Workers \ {w} : u \in A <=> u \in B
  PROVE  /\ Cardinality(A) \in Nat /\ Cardinality(B) \in Nat
         /\ (w \in A <=> w \in B) => Cardinality(B) = Cardinality(A)
         /\ w \in B /\ w \notin A => Cardinality(B) = Cardinality(A) + 1
         /\ w \in A /\ w \notin B => Cardinality(A) = Cardinality(B) + 1
<1>1. IsFiniteSet(A) /\ IsFiniteSet(B)
  BY FS_Subset, StressAssumption
<1>2. Cardinality(A) \in Nat /\ Cardinality(B) \in Nat
  BY <1>1, FS_CardinalityType
<1>3. (w \in A <=> w \in B) => A = B
  OBVIOUS
<1>4. ASSUME w \in B, w \notin A PROVE Cardinality(B) = Cardinality(A) + 1
  <2>1. B = A \cup {w}
    BY <1>4
  <2> QED BY <1>1, <1>4, <2>1, FS_AddElement
<1>5. ASSUME w \in A, w \notin B PROVE Cardinality(A) = Cardinality(B) + 1
  <2>1. A = B \cup {w}
    BY <1>5
  <2> QED BY <1>1, <1>5, <2>1, FS_AddElement
<1> QED BY <1>2, <1>3, <1>4, <1>5

\* A step that leaves the workers other than w alone.
OnlyWorker(w) ==
  /\ role' = role
  /\ \A u \in Workers \ {w} : /\ wpc'[u] = wpc[u] /\ answer'[u] = answer[u]
                              /\ u \in open' <=> u \in open

Count(r, a) == Cardinality(Answered(r, a))

LEMMA OneWorker ==
  ASSUME NEW w \in Workers, OnlyWorker(w), NEW r, NEW a
  PROVE  /\ Count(r, a) \in Nat /\ Count(r, a)' \in Nat
         /\ (w \in Answered(r, a) <=> w \in Answered(r, a)') => Count(r, a)' = Count(r, a)
         /\ w \in Answered(r, a)' /\ w \notin Answered(r, a) => Count(r, a)' = Count(r, a) + 1
         /\ w \in Answered(r, a) /\ w \notin Answered(r, a)' => Count(r, a) = Count(r, a)' + 1
<1>1. PICK A, B : A = Answered(r, a) /\ B = Answered(r, a)'
  OBVIOUS
<1>2. A \subseteq Workers /\ B \subseteq Workers
  BY <1>1 DEF Answered
<1>3. \A u \in Workers \ {w} : u \in A <=> u \in B
  BY <1>1 DEF Answered, OnlyWorker
<1>4. /\ Cardinality(A) \in Nat /\ Cardinality(B) \in Nat
      /\ (w \in A <=> w \in B) => Cardinality(B) = Cardinality(A)
      /\ w \in B /\ w \notin A => Cardinality(B) = Cardinality(A) + 1
      /\ w \in A /\ w \notin B => Cardinality(A) = Cardinality(B) + 1
  BY <1>2, <1>3, Counted
<1> QED BY <1>1, <1>4 DEF Count

\* A connection that was lost is never opened again.
LEMMA ClosedGrows ==
  ASSUME NEW w \in Workers, OnlyWorker(w), w \in Closed => w \in Closed'
  PROVE  /\ Cardinality(Closed) \in Nat /\ Cardinality(Closed)' \in Nat
         /\ Cardinality(Closed)' >= Cardinality(Closed)
         /\ w \in Closed' /\ w \notin Closed => Cardinality(Closed)' = Cardinality(Closed) + 1
<1>1. PICK A, B : A = Closed /\ B = Closed'
  OBVIOUS
<1>2. A \subseteq Workers /\ B \subseteq Workers
  BY <1>1 DEF Closed
<1>3. \A u \in Workers \ {w} : u \in A <=> u \in B
  BY <1>1 DEF Closed, OnlyWorker
<1>4. /\ Cardinality(A) \in Nat /\ Cardinality(B) \in Nat
      /\ (w \in A <=> w \in B) => Cardinality(B) = Cardinality(A)
      /\ w \in B /\ w \notin A => Cardinality(B) = Cardinality(A) + 1
  BY <1>2, <1>3, Counted
<1> QED BY <1>1, <1>4
-----------------------------------------------------------------------------
(* The steps before and after the run                                      *)

LEMMA InitialStress == Init => StressInv
<1> SUFFICES ASSUME Init PROVE StressInv
  OBVIOUS
<1> USE DEF Init, CLInit
<1>1. queued \in Nat
  BY StressAssumption
<1>2. StressTypes /\ Phases /\ WorkOnlyInRun
  BY <1>1 DEF StressTypes, Phases, WorkOnlyInRun
<1>3. ~Reported
  BY DEF Reported
<1>4. \A r, a : Answered(r, a) = {}
  BY DEF Answered
<1>5. Closed = {}
  BY DEF Closed
<1> QED BY <1>2, <1>3, <1>4, <1>5, FS_EmptySet DEF StressInv, RunBalance, TimeoutsClose, TimeoutClosed

\* A step that leaves the workers, the daemon and the counters alone.
LEMMA Elsewhere ==
  ASSUME StressInv, UNCHANGED <<daemon, workers, counters, before>>,
         Phases', WorkOnlyInRun', Reported' => Reported
  PROVE  StressInv'
<1> USE DEF daemon, workers, counters
<1>1. StressTypes'
  BY DEF StressInv, StressTypes
<1>2. \A r, a : Answered(r, a)' = Answered(r, a)
  BY DEF Answered
<1>3. Closed' = Closed
  BY DEF Closed
<1>4. RunBalance' /\ TimeoutsClose' /\ TimeoutClosed'
  BY <1>2, <1>3 DEF StressInv, RunBalance, TimeoutsClose, TimeoutClosed
<1> QED BY <1>1, <1>4 DEF StressInv

LEMMA CommandLineStep == StressInv /\ CLNext /\ UNCHANGED svars => StressInv'
<1> SUFFICES ASSUME StressInv, CLNext, UNCHANGED svars PROVE StressInv'
  OBVIOUS
<1> USE DEF CLNext, Run, Usage, RunInvalid, RunCall, Execute, AnswerOK, Printed, AnswerTimeout,
            AnswerError, RunServe, ServeEnds, Exit, exitOK, exitRuntime, exitTimeout, exitUsage
<1>1. UNCHANGED <<daemon, workers, counters, before>>
  BY DEF svars
<1>2. command' = command /\ ppc # "stress"
  OBVIOUS
<1>3. Phases'
  BY <1>2 DEF StressInv, Phases, Stressing
<1>4. WorkOnlyInRun'
  BY <1>1, <1>2 DEF StressInv, WorkOnlyInRun, workers, counters
<1>5. ~Reported'
  BY <1>2, <1>3 DEF StressInv, Phases, Reported, Stressing
<1> QED BY <1>1, <1>3, <1>4, <1>5, Elsewhere

LEMMA RunStep ==
  StressInv /\ (RunStress \/ ExampleMain \/ WarmUpFails \/ Expire \/ Report) => StressInv'
<1> SUFFICES ASSUME StressInv, RunStress \/ ExampleMain \/ WarmUpFails \/ Expire \/ Report
             PROVE  StressInv'
  OBVIOUS
<1> USE DEF RunStress, ExampleMain, WarmUpFails, Expire, Report, Exit, exitOK, exitRuntime
<1>1. UNCHANGED <<daemon, workers, counters, before>>
  BY DEF svars
<1>2. command' = command
  BY DEF cli
<1>3. Phases'
  BY <1>2 DEF StressInv, Phases, Stressing, cli
<1>4. WorkOnlyInRun'
  BY <1>1 DEF StressInv, WorkOnlyInRun, workers, counters, cli
<1>5. Reported' => Reported
  BY <1>2, <1>3 DEF StressInv, Phases, Reported, Stressing, cli
<1> QED BY <1>1, <1>3, <1>4, <1>5, Elsewhere

LEMMA WarmUpStep == StressInv /\ WarmUp => StressInv'
<1> SUFFICES ASSUME StressInv, WarmUp PROVE StressInv'
  OBVIOUS
<1> USE DEF WarmUp, counters
<1>1. queued' \in Nat /\ before' = queued'
  <2>1. queued \in Nat
    BY DEF StressInv, StressTypes
  <2>2. \E x \in {queued - 1, 0} : \A y \in {queued - 1, 0} : x >= y
    BY <2>1
  <2>3. Max({queued - 1, 0}) \in {queued - 1, 0} /\ Max({queued - 1, 0}) >= 0
    BY <2>2 DEF Max
  <2> QED BY <2>1, <2>3
<1>2. /\ role' \in [Workers -> {"producer", "consumer", "none"}]
      /\ wpc' \in [Workers -> {"dial", "off"}]
  OBVIOUS
<1>3. StressTypes'
  BY <1>1, <1>2 DEF StressInv, StressTypes
<1>4. Phases' /\ WorkOnlyInRun'
  BY DEF StressInv, Phases, WorkOnlyInRun, Stressing
<1>5. \A r, a : Answered(r, a)' = {}
  BY <1>2 DEF Answered
<1>6. Closed' = {}
  BY <1>2 DEF Closed
<1>7. pushed' = 0 /\ served' = 0 /\ popTimeouts' = 0
  BY DEF StressInv, WorkOnlyInRun, cli
<1>8. RunBalance'
  <2>1. Cardinality(Answered("producer", "ok"))' = 0 /\ Cardinality(Answered("consumer", "ok"))' = 0
    BY <1>5, FS_EmptySet
  <2> HIDE DEF WarmUp
  <2> QED BY <1>1, <1>7, <2>1 DEF RunBalance
<1>9. TimeoutsClose' /\ TimeoutClosed'
  BY <1>5, <1>6, <1>7, FS_EmptySet DEF TimeoutsClose, TimeoutClosed
<1> QED BY <1>3, <1>4, <1>8, <1>9 DEF StressInv

LEMMA DaemonDiesStep == StressInv /\ DaemonDies => StressInv'
<1> SUFFICES ASSUME StressInv, DaemonDies PROVE StressInv'
  OBVIOUS
<1> USE DEF DaemonDies, counters, cli
<1>1. StressTypes' /\ Phases' /\ WorkOnlyInRun'
  BY DEF StressInv, StressTypes, Phases, WorkOnlyInRun, Stressing
<1>2. \A r, a : Answered(r, a)' = Answered(r, a)
  BY DEF Answered
<1>3. Closed \subseteq Closed' /\ Closed' \subseteq Workers
  BY DEF Closed
<1>4. Cardinality(Closed) \in Nat /\ Cardinality(Closed)' \in Nat
      /\ Cardinality(Closed) <= Cardinality(Closed)'
  <2>1. PICK A, B : A = Closed /\ B = Closed'
    OBVIOUS
  <2>2. IsFiniteSet(B) /\ IsFiniteSet(A) /\ Cardinality(A) <= Cardinality(B)
    BY <1>3, <2>1, StressAssumption, FS_Subset
  <2> QED BY <2>1, <2>2, FS_CardinalityType
<1>5. popTimeouts' = popTimeouts /\ popTimeouts \in Nat
  BY DEF StressInv, StressTypes
<1>6. Cardinality(Answered("consumer", "timeout")) \in Nat
  <2>1. Answered("consumer", "timeout") \subseteq Workers
    BY DEF Answered
  <2> QED BY <2>1, StressAssumption, FS_Subset, FS_CardinalityType
<1>7. TimeoutsClose'
  BY <1>2, <1>4, <1>5, <1>6 DEF StressInv, TimeoutsClose
<1>8. TimeoutClosed' /\ RunBalance'
  BY <1>2 DEF StressInv, TimeoutClosed, RunBalance
<1> QED BY <1>1, <1>7, <1>8 DEF StressInv
-----------------------------------------------------------------------------
(* The steps of a worker and of its calls                                  *)

\* What worker w adds to Count(r, a) and to the closed connections.
Mark(w, r, a) == IF w \in Answered(r, a) THEN 1 ELSE 0

Lost(w) == IF w \in Closed THEN 1 ELSE 0

\* A step of worker w keeps the invariant if what it does to w and to the
\* numbers does.
LEMMA OnlyWorkerStep ==
  ASSUME StressInv, NEW w \in Workers, OnlyWorker(w), StressTypes',
         wpc[w] \notin {"off", "done"}, UNCHANGED <<cli, before>>,
         w \in Closed => w \in Closed',
         w \in Answered("consumer", "timeout")' => w \notin open',
         ~died' => /\ ~died
                   /\ pushed' + Mark(w, "producer", "ok")' + served + queued + Mark(w, "consumer", "ok")
                      = pushed + Mark(w, "producer", "ok") + served' + queued' + Mark(w, "consumer", "ok")',
         popTimeouts' + Mark(w, "consumer", "timeout")' + Lost(w)
         <= popTimeouts + Mark(w, "consumer", "timeout") + Lost(w)'
  PROVE  StressInv'
<1>1. ppc = "stress"
  BY DEF StressInv, WorkOnlyInRun
<1>2. Phases' /\ WorkOnlyInRun' /\ Reported
  BY <1>1 DEF StressInv, Phases, WorkOnlyInRun, Reported, cli, Stressing
<1>3. \A r, a : /\ Count(r, a) \in Nat /\ Count(r, a)' \in Nat
                /\ Count(r, a)' + Mark(w, r, a) = Count(r, a) + Mark(w, r, a)'
  <2> TAKE r, a
  <2> QED BY OneWorker DEF Mark
<1>4. /\ {queued, pushed, served, popTimeouts, before} \subseteq Nat
      /\ {queued', pushed', served', popTimeouts'} \subseteq Nat
  BY DEF StressInv, StressTypes
<1>5. RunBalance'
  <2>1. SUFFICES ASSUME ~died'
                 PROVE  before + pushed' + Count("producer", "ok")'
                        = served' + queued' + Count("consumer", "ok")'
    BY DEF RunBalance, Count
  <2>2. before + pushed + Count("producer", "ok") = served + queued + Count("consumer", "ok")
    BY <1>2, <2>1 DEF StressInv, RunBalance, Count
  <2>3. PICK p, p1, c, c1 : /\ p = Mark(w, "producer", "ok") /\ p1 = Mark(w, "producer", "ok")'
                            /\ c = Mark(w, "consumer", "ok") /\ c1 = Mark(w, "consumer", "ok")'
    OBVIOUS
  <2>4. {p, p1, c, c1} \subseteq {0, 1}
    BY <2>3 DEF Mark
  <2>5. /\ Count("producer", "ok")' + p = Count("producer", "ok") + p1
        /\ Count("consumer", "ok")' + c = Count("consumer", "ok") + c1
        /\ {Count("producer", "ok"), Count("producer", "ok")', Count("consumer", "ok"),
            Count("consumer", "ok")'} \subseteq Nat
    BY <1>3, <2>3
  <2>6. pushed' + p1 + served + queued + c = pushed + p + served' + queued' + c1
    BY <2>1, <2>3
  <2> QED BY <1>4, <2>2, <2>4, <2>5, <2>6
<1>6. TimeoutsClose'
  <2>1. popTimeouts + Count("consumer", "timeout") <= Cardinality(Closed)
    BY DEF StressInv, TimeoutsClose, Count
  <2>2. /\ Cardinality(Closed) \in Nat /\ Cardinality(Closed)' \in Nat
        /\ Cardinality(Closed)' + Lost(w) >= Cardinality(Closed) + Lost(w)'
    BY ClosedGrows DEF Lost
  <2>3. PICK t, t1, l, l1 : /\ t = Mark(w, "consumer", "timeout") /\ t1 = Mark(w, "consumer", "timeout")'
                            /\ l = Lost(w) /\ l1 = Lost(w)'
    OBVIOUS
  <2>4. {t, t1, l, l1} \subseteq {0, 1}
    BY <2>3 DEF Mark, Lost
  <2>5. /\ Count("consumer", "timeout")' + t = Count("consumer", "timeout") + t1
        /\ {Count("consumer", "timeout"), Count("consumer", "timeout")'} \subseteq Nat
    BY <1>3, <2>3
  <2>6. popTimeouts' + t1 + l <= popTimeouts + t + l1
    BY <2>3
  <2>7. popTimeouts' + Count("consumer", "timeout")' <= Cardinality(Closed)'
    BY <1>4, <2>1, <2>2, <2>3, <2>4, <2>5, <2>6
  <2> QED BY <2>7 DEF TimeoutsClose, Count
<1>7. TimeoutClosed'
  BY DEF StressInv, TimeoutClosed, Answered, OnlyWorker
<1> QED BY <1>2, <1>5, <1>6, <1>7 DEF StressInv

LEMMA WorkerSteps ==
  ASSUME StressInv, NEW w \in Workers,
         WorkerStep(w) \/ AcceptPush(w) \/ ServePop(w) \/ TimeoutPop(w) \/ RefuseCall(w)
  PROVE  StressInv'
<1> USE DEF daemon, counters, workers, Goto, Done, Answer
<1>0. StressTypes /\ TimeoutClosed
  BY DEF StressInv
<1>1. CASE Dial(w)
  <2> USE DEF Dial
  <2>1. StressTypes' /\ OnlyWorker(w)
    BY <1>0, <1>1 DEF StressTypes, OnlyWorker
  <2>2. /\ w \notin Closed
        /\ \A r, a : Mark(w, r, a) = 0 /\ Mark(w, r, a)' = 0
    BY <1>0, <1>1 DEF StressTypes, Closed, Mark, Answered
  <2> QED BY <1>0, <1>1, <2>1, <2>2, OnlyWorkerStep DEF StressTypes, Mark, Lost
<1>2. CASE ExampleDial(w)
  <2> USE DEF ExampleDial
  <2>1. StressTypes' /\ OnlyWorker(w)
    BY <1>0, <1>2 DEF StressTypes, OnlyWorker
  <2>2. /\ w \notin Closed
        /\ \A r, a : Mark(w, r, a) = 0 /\ Mark(w, r, a)' = 0
    BY <1>0, <1>2 DEF StressTypes, Closed, Mark, Answered
  <2> QED BY <1>0, <1>2, <2>1, <2>2, OnlyWorkerStep DEF StressTypes, Mark, Lost
<1>3. CASE LoopEnds(w)
  <2> USE DEF LoopEnds
  <2>1. StressTypes' /\ OnlyWorker(w)
    BY <1>0, <1>3 DEF StressTypes, OnlyWorker
  <2>2. /\ w \in Closed => w \in Closed'
        /\ \A r, a : Mark(w, r, a) = 0 /\ Mark(w, r, a)' = 0
    BY <1>0, <1>3 DEF StressTypes, Closed, Mark, Answered
  <2> QED BY <1>0, <1>3, <2>1, <2>2, OnlyWorkerStep DEF StressTypes, Mark, Lost
<1>4. CASE Call(w)
  <2> USE DEF Call
  <2>1. StressTypes' /\ OnlyWorker(w)
    BY <1>0, <1>4 DEF StressTypes, OnlyWorker
  <2>2. /\ w \notin Closed
        /\ \A r, a : Mark(w, r, a) = 0 /\ Mark(w, r, a)' = 0
    BY <1>0, <1>4 DEF StressTypes, Closed, Mark, Answered
  <2> QED BY <1>0, <1>4, <2>1, <2>2, OnlyWorkerStep DEF StressTypes, Mark, Lost
<1>5. CASE CallFails(w)
  <2> USE DEF CallFails
  <2>1. StressTypes' /\ OnlyWorker(w)
    BY <1>0, <1>5 DEF StressTypes, OnlyWorker
  <2>2. /\ w \in Closed => w \in Closed'
        /\ \A r, a : Mark(w, r, a) = 0 /\ Mark(w, r, a)' = 0
    BY <1>0, <1>5 DEF StressTypes, Closed, Mark, Answered
  <2> QED BY <1>0, <1>5, <2>1, <2>2, OnlyWorkerStep DEF StressTypes, Mark, Lost
<1>6. CASE Pushed(w)
  <2> USE DEF Pushed
  <2>1. StressTypes' /\ OnlyWorker(w)
    BY <1>0, <1>6 DEF StressTypes, OnlyWorker
  <2>2. /\ w \notin Closed
        /\ \A a : Mark(w, "consumer", a) = 0 /\ Mark(w, "consumer", a)' = 0
        /\ Mark(w, "producer", "ok") = (IF answer[w] = "ok" THEN 1 ELSE 0)
        /\ Mark(w, "producer", "ok")' = 0
    BY <1>0, <1>6 DEF StressTypes, Closed, Mark, Answered
  <2> QED BY <1>0, <1>6, <2>1, <2>2, OnlyWorkerStep DEF StressTypes, Mark, Lost
<1>7. CASE Popped(w)
  <2> USE DEF Popped
  <2>1. StressTypes' /\ OnlyWorker(w)
    BY <1>0, <1>7 DEF StressTypes, OnlyWorker
  <2>2. /\ w \in Closed <=> w \in Closed'
        /\ Mark(w, "producer", "ok") = 0 /\ Mark(w, "producer", "ok")' = 0
        /\ \A a : /\ Mark(w, "consumer", a) = (IF answer[w] = a THEN 1 ELSE 0)
                  /\ Mark(w, "consumer", a)' = 0
    BY <1>0, <1>7 DEF StressTypes, Closed, Mark, Answered
  <2> QED BY <1>0, <1>7, <2>1, <2>2, OnlyWorkerStep DEF StressTypes, Mark, Lost
<1>8. CASE ExampleError(w)
  <2> USE DEF ExampleError
  <2>1. StressTypes' /\ OnlyWorker(w)
    BY <1>0, <1>8 DEF StressTypes, OnlyWorker
  <2>2. /\ w \in Closed => w \in Closed'
        /\ Mark(w, "producer", "ok") = 0
        /\ \A a : a # "error" => Mark(w, "consumer", a) = 0
        /\ \A r, a : Mark(w, r, a)' = 0
    BY <1>0, <1>8 DEF StressTypes, Closed, Mark, Answered, ExampleGivesUp
  <2> QED BY <1>0, <1>8, <2>1, <2>2, OnlyWorkerStep DEF StressTypes, Mark, Lost
<1>9. CASE AcceptPush(w)
  <2> USE DEF AcceptPush
  <2>1. StressTypes' /\ OnlyWorker(w)
    BY <1>0, <1>9 DEF StressTypes, OnlyWorker
  <2>2. /\ w \notin Closed
        /\ \A r, a : Mark(w, r, a) = 0
        /\ \A a : Mark(w, "consumer", a)' = 0
        /\ Mark(w, "producer", "ok")' = 1
    BY <1>0, <1>9 DEF StressTypes, Closed, Mark, Answered
  <2> QED BY <1>0, <1>9, <2>1, <2>2, OnlyWorkerStep DEF StressTypes, Mark, Lost
<1>10. CASE ServePop(w)
  <2> USE DEF ServePop
  <2>1. StressTypes' /\ OnlyWorker(w)
    BY <1>0, <1>10 DEF StressTypes, OnlyWorker
  <2>2. /\ w \notin Closed
        /\ \A r, a : Mark(w, r, a) = 0
        /\ \A a : Mark(w, "consumer", a)' = (IF a = "ok" THEN 1 ELSE 0)
        /\ Mark(w, "producer", "ok")' = 0
    BY <1>0, <1>10 DEF StressTypes, Closed, Mark, Answered
  <2> QED BY <1>0, <1>10, <2>1, <2>2, OnlyWorkerStep DEF StressTypes, Mark, Lost
<1>11. CASE TimeoutPop(w)
  <2> USE DEF TimeoutPop
  <2>1. StressTypes' /\ OnlyWorker(w)
    BY <1>0, <1>11 DEF StressTypes, OnlyWorker
  <2>2. /\ w \notin Closed /\ w \in Closed' /\ w \notin open'
        /\ \A r, a : Mark(w, r, a) = 0
        /\ \A a : Mark(w, "consumer", a)' = (IF a = "timeout" THEN 1 ELSE 0)
        /\ Mark(w, "producer", "ok")' = 0
    BY <1>0, <1>11 DEF StressTypes, Closed, Mark, Answered
  <2> QED BY <1>0, <1>11, <2>1, <2>2, OnlyWorkerStep DEF StressTypes, Mark, Lost
<1>12. CASE RefuseCall(w)
  <2> USE DEF RefuseCall
  <2>1. StressTypes' /\ OnlyWorker(w)
    BY <1>0, <1>12 DEF StressTypes, OnlyWorker
  <2>2. /\ w \notin Closed
        /\ \A r, a : Mark(w, r, a) = 0
        /\ \A r, a : a # "error" => Mark(w, r, a)' = 0
    BY <1>0, <1>12 DEF StressTypes, Closed, Mark, Answered
  <2> QED BY <1>0, <1>12, <2>1, <2>2, OnlyWorkerStep DEF StressTypes, Mark, Lost
<1> QED BY <1>1, <1>2, <1>3, <1>4, <1>5, <1>6, <1>7, <1>8, <1>9, <1>10, <1>11, <1>12 DEF WorkerStep
-----------------------------------------------------------------------------
(* The invariant and what it says                                          *)

LEMMA StressStep == StressInv /\ [Next]_vars => StressInv'
<1> SUFFICES ASSUME StressInv, [Next]_vars PROVE StressInv'
  OBVIOUS
<1>1. CASE CLNext /\ UNCHANGED svars
  BY <1>1, CommandLineStep
<1>2. CASE RunStress \/ ExampleMain \/ WarmUpFails \/ Expire \/ Report
  BY <1>2, RunStep
<1>3. CASE WarmUp
  BY <1>3, WarmUpStep
<1>4. CASE DaemonDies
  BY <1>4, DaemonDiesStep
<1>5. ASSUME NEW w \in Workers,
             WorkerStep(w) \/ AcceptPush(w) \/ ServePop(w) \/ TimeoutPop(w) \/ RefuseCall(w)
      PROVE  StressInv'
  BY <1>5, WorkerSteps
<1>6. CASE UNCHANGED vars
  <2>1. UNCHANGED <<daemon, workers, counters, before>> /\ UNCHANGED cli
    BY <1>6 DEF vars, svars
  <2>2. Phases' /\ WorkOnlyInRun' /\ (Reported' => Reported)
    BY <2>1 DEF StressInv, Phases, WorkOnlyInRun, Reported, Stressing, cli, workers, counters
  <2> QED BY <2>1, <2>2, Elsewhere
<1> QED BY <1>1, <1>2, <1>3, <1>4, <1>5, <1>6 DEF Next

LEMMA StressInvariant == Spec => []StressInv
<1> QED BY InitialStress, StressStep, PTL DEF Spec

\* The numbers that a run prints agree with what is left in the daemon: when
\* runStress reports, what was there after the warm-up and every push that the
\* workers counted is what they served and what the daemon still holds, unless
\* a daemon has died, however many workers, calls, errors and timeouts there
\* were.
THEOREM PrintedNumbersBalance == Spec => []CountersBalance
<1>1. StressInv => CountersBalance
  <2> SUFFICES ASSUME StressInv, ppc = "done", exit = exitOK, Stressing, ~died
               PROVE  before + pushed = served + queued
    BY DEF CountersBalance
  <2>1. \A r, a : Answered(r, a) = {}
    BY DEF StressInv, WorkOnlyInRun, Answered
  <2>2. /\ Cardinality(Answered("producer", "ok")) = 0
        /\ Cardinality(Answered("consumer", "ok")) = 0
    BY <2>1, FS_EmptySet
  <2> QED BY <2>2 DEF StressInv, RunBalance, Reported, StressTypes
<1> QED BY <1>1, StressInvariant, PTL

\* A consumer times out at most once: the daemon closes its connection with the
\* timeout response, and the consumer goes on with it (the loop of the consumers
\* in runStress), so there are never more timeouts than consumers.
THEOREM TimeoutsAreFew == Spec => []TimeoutIsLast
<1>1. StressInv => TimeoutIsLast
  <2> SUFFICES ASSUME StressInv PROVE TimeoutIsLast
    OBVIOUS
  <2> DEFINE consumers == {w \in Workers : role[w] = "consumer"}
  <2>1. Closed \subseteq consumers /\ IsFiniteSet(consumers)
    BY StressAssumption, FS_Subset DEF Closed
  <2>2. Cardinality(Closed) <= Cardinality(consumers) /\ IsFiniteSet(Closed)
    BY <2>1, FS_Subset
  <2>3. Answered("consumer", "timeout") \subseteq Workers
    BY DEF Answered
  <2>4. {Cardinality(Closed), Cardinality(consumers), Cardinality(Answered("consumer", "timeout"))}
        \subseteq Nat
    BY <2>1, <2>2, <2>3, StressAssumption, FS_Subset, FS_CardinalityType
  <2>5. popTimeouts + Cardinality(Answered("consumer", "timeout")) <= Cardinality(Closed)
        /\ popTimeouts \in Nat
    BY DEF StressInv, TimeoutsClose, StressTypes
  <2>6. popTimeouts <= Cardinality(consumers)
    BY <2>2, <2>4, <2>5
  <2> QED BY <2>6 DEF TimeoutIsLast
<1> QED BY <1>1, StressInvariant, PTL

-----------------------------------------------------------------------------
(* The parsers                                                             *)

\* Values for the options of D: the one of option o is in V[o].
Settings(D, V) == {f \in [D -> UNION {V[o] : o \in D}] : \A o \in D : f[o] \in V[o]}

\* The states of the parsers, for arguments in A.
Parsers(D, V, A) == [err : BOOLEAN, want : {""} \cup D, opts : Settings(D, V), words : Seq(A)]

Converts(convert, D, V) ==
  DOMAIN convert = D /\ \A o \in D : \A v \in DOMAIN convert[o] : convert[o][v] \in V[o]

LEMMA ParserMade ==
  ASSUME NEW D, NEW V, NEW A, NEW e \in BOOLEAN, NEW w \in {""} \cup D,
         NEW f \in Settings(D, V), NEW ws \in Seq(A)
  PROVE  [err |-> e, want |-> w, opts |-> f, words |-> ws] \in Parsers(D, V, A)
<1> QED BY DEF Parsers

LEMMA AssignType ==
  ASSUME NEW D, NEW V, NEW A, NEW convert, Converts(convert, D, V),
         NEW st \in Parsers(D, V, A), NEW o \in D, NEW value
  PROVE  Assign(st, o, value, convert) \in Parsers(D, V, A)
<1>1. PICK e \in BOOLEAN, w \in {""} \cup D, f \in Settings(D, V), ws \in Seq(A) :
             st = [err |-> e, want |-> w, opts |-> f, words |-> ws]
  BY DEF Parsers
<1>2. CASE value \in DOMAIN convert[o]
  <2>1. PICK x \in V[o] : x = convert[o][value]
    BY <1>2 DEF Converts
  <2>2. PICK g : g = [f EXCEPT ![o] = x]
    OBVIOUS
  <2>3. g \in Settings(D, V)
    BY <2>1, <2>2 DEF Settings
  <2>4. Assign(st, o, value, convert) = [st EXCEPT !.opts[o] = x, !.want = ""]
    BY <1>2, <2>1 DEF Assign
  <2>5. Assign(st, o, value, convert) = [err |-> e, want |-> "", opts |-> g, words |-> ws]
    BY <1>1, <2>2, <2>4
  <2> QED BY <2>3, <2>5, ParserMade
<1>3. CASE value \notin DOMAIN convert[o]
  <2>1. Assign(st, o, value, convert) = [err |-> TRUE, want |-> w, opts |-> f, words |-> ws]
    BY <1>1, <1>3 DEF Assign
  <2> QED BY <1>1, <2>1, ParserMade
<1> QED BY <1>2, <1>3

LEMMA TakeType ==
  ASSUME NEW D, NEW V, NEW A, NEW convert, Converts(convert, D, V),
         NEW st \in Parsers(D, V, A), NEW a \in A
  PROVE  Take(st, a, convert) \in Parsers(D, V, A)
<1>1. PICK e \in BOOLEAN, w \in {""} \cup D, f \in Settings(D, V), ws \in Seq(A) :
             st = [err |-> e, want |-> w, opts |-> f, words |-> ws]
  BY DEF Parsers
<1>2. DOMAIN convert = D
  BY DEF Converts
<1>3. CASE e
  BY <1>1, <1>3 DEF Take
<1>4. CASE ~e /\ w # ""
  <2>1. w \in D /\ Take(st, a, convert) = Assign(st, w, a, convert)
    BY <1>1, <1>4 DEF Take
  <2> QED BY <2>1, AssignType
<1>5. CASE ~e /\ w = "" /\ a[1] \notin D
  <2>1. PICK u \in Seq(A) : u = Append(ws, a)
    BY AppendProperties
  <2>2. Take(st, a, convert) = [st EXCEPT !.words = u]
    BY <1>1, <1>2, <1>5, <2>1 DEF Take
  <2>3. Take(st, a, convert) = [err |-> e, want |-> w, opts |-> f, words |-> u]
    BY <1>1, <2>2
  <2> QED BY <1>1, <2>3, ParserMade
<1>6. CASE ~e /\ w = "" /\ a[1] \in D
  <2>1. CASE Len(a) = 2
    <3>1. Take(st, a, convert) = Assign(st, a[1], <<a[2]>>, convert)
      BY <1>1, <1>2, <1>6, <2>1 DEF Take
    <3> QED BY <1>6, <3>1, AssignType
  <2>2. CASE Len(a) # 2
    <3>1. Take(st, a, convert) = [st EXCEPT !.want = a[1]]
      BY <1>1, <1>2, <1>6, <2>2 DEF Take
    <3>2. Take(st, a, convert) = [err |-> e, want |-> a[1], opts |-> f, words |-> ws]
      BY <1>1, <3>1
    <3> QED BY <1>1, <1>6, <3>2, ParserMade
  <2> QED BY <2>1, <2>2
<1> QED BY <1>3, <1>4, <1>5, <1>6

\* What the parser knows before it looks at the first argument.
Start(defaults) == [err |-> FALSE, want |-> "", opts |-> defaults, words |-> <<>>]

Takes(v, args, convert, defaults) ==
  /\ v[0] = Start(defaults)
  /\ \A i \in 1 .. Len(args) : v[i] = Take(v[i - 1], args[i], convert)
  /\ Parse(args, convert, defaults) = [v[Len(args)] EXCEPT !.err = @ \/ v[Len(args)].want # ""]

LEMMA ParseSteps ==
  ASSUME NEW D, NEW V, NEW A, NEW convert, Converts(convert, D, V), NEW args \in Seq(A),
         NEW defaults \in Settings(D, V)
  PROVE  \E v \in [0 .. Len(args) -> Parsers(D, V, A)] : Takes(v, args, convert, defaults)
<1> DEFINE n == Len(args)
           S == Parsers(D, V, A)
           start == Start(defaults)
           Step(st, i) == IF i \in 1 .. n THEN Take(st, args[i], convert) ELSE st
           F == [p \in S \X Nat |-> Step(p[1], p[2])]
           Rec(v) == v = [i \in 0 .. n |-> IF i = 0 THEN start ELSE Take(v[i - 1], args[i], convert)]
           f == CHOOSE v : Rec(v)
<1>1. start \in S
  <2>1. <<>> \in Seq(A)
    OBVIOUS
  <2> QED BY <2>1 DEF Start, Parsers
<1>2. n \in Nat /\ \A i \in 1 .. n : args[i] \in A
  BY LenProperties, ElementOfSeq
<1>3. F \in [S \X Nat -> S]
  <2>1. ASSUME NEW st \in S, NEW i \in Nat PROVE Step(st, i) \in S
    BY <1>2, TakeType
  <2> HIDE DEF S, Step
  <2> QED BY <2>1
<1>4. ASSUME NEW v, IsRecursive(v, n, S, start, F)
      PROVE  Rec(v)
  <2> HIDE DEF start, S
  <2>1. /\ v \in [0 .. n -> S] /\ v[0] = start
        /\ \A i \in 1 .. n : v[i] = F[<<v[i - 1], i>>]
    BY <1>4 DEF IsRecursive
  <2>2. \A i \in 1 .. n : v[i] = Take(v[i - 1], args[i], convert)
    <3> TAKE i \in 1 .. n
    <3>1. v[i - 1] \in S /\ i \in Nat
      BY <1>2, <2>1
    <3> QED BY <2>1, <3>1
  <2>3. \A i \in 0 .. n : v[i] = IF i = 0 THEN start ELSE Take(v[i - 1], args[i], convert)
    BY <1>2, <2>1, <2>2
  <2> HIDE DEF n
  <2> QED BY <2>1, <2>3
<1>5. \E v : IsRecursive(v, n, S, start, F)
  <2> HIDE DEF S, start, F, n
  <2> QED BY <1>1, <1>2, <1>3, RecursiveFunction
<1>6. Rec(f)
  <2>1. \E v : Rec(v)
    <3> HIDE DEF F, Rec, start, S, n
    <3> QED BY <1>4, <1>5
  <2> HIDE DEF Rec
  <2> QED BY <2>1
<1>7. Follows(f, n, S, start, F)
  <2> HIDE DEF start, f, S
  <2>1. f[0] = start
    BY <1>2, <1>6
  <2>2. ASSUME NEW i \in 1 .. n, f[i - 1] \in S PROVE f[i] = F[<<f[i - 1], i>>]
    <3>1. i \in 0 .. n /\ i # 0 /\ i \in Nat
      BY <1>2
    <3>2. f[i] = Take(f[i - 1], args[i], convert)
      BY <1>6, <3>1
    <3> QED BY <2>2, <3>1, <3>2
  <2> QED BY <2>1, <2>2 DEF Follows
<1>8. \A i \in 0 .. n : f[i] \in S
  <2> HIDE DEF S, start, F, n, f
  <2>1. PICK v : IsRecursive(v, n, S, start, F)
    BY <1>5
  <2>2. \A i \in 0 .. n : f[i] = v[i] /\ v[i] \in S
    BY <1>2, <1>7, <2>1, OnlyRecursion
  <2> QED BY <2>2
<1>9. f \in [0 .. n -> S] /\ f[0] = start /\ \A i \in 1 .. n : f[i] = Take(f[i - 1], args[i], convert)
  <2> HIDE DEF S, start, f
  <2> QED BY <1>2, <1>6, <1>8
<1>10. Parse(args, convert, defaults) = [f[n] EXCEPT !.err = @ \/ f[n].want # ""]
  BY DEF Parse, Start
<1> HIDE DEF f, S, start
<1> QED BY <1>9, <1>10 DEF start, S, Takes

LEMMA ParseType ==
  ASSUME NEW D, NEW V, NEW A, NEW convert, Converts(convert, D, V), NEW args \in Seq(A),
         NEW defaults \in Settings(D, V)
  PROVE  Parse(args, convert, defaults) \in Parsers(D, V, A)
<1>1. PICK v \in [0 .. Len(args) -> Parsers(D, V, A)] : Takes(v, args, convert, defaults)
  BY ParseSteps
<1>2. PICK st \in Parsers(D, V, A) : st = v[Len(args)]
  BY <1>1, LenProperties
<1>3. PICK e \in BOOLEAN, w \in {""} \cup D, f \in Settings(D, V), ws \in Seq(A) :
             st = [err |-> e, want |-> w, opts |-> f, words |-> ws]
  BY DEF Parsers
<1>4. Parse(args, convert, defaults) = [st EXCEPT !.err = @ \/ st.want # ""]
  BY <1>1, <1>2 DEF Takes
<1>5. PICK d \in BOOLEAN : d = (e \/ w # "")
  OBVIOUS
<1>6. Parse(args, convert, defaults) = [err |-> d, want |-> w, opts |-> f, words |-> ws]
  BY <1>3, <1>4, <1>5
<1> QED BY <1>6, ParserMade

-----------------------------------------------------------------------------
(* Numbers and times                                                       *)

Half == 2^(WordBits - 1)

LEMMA HalfType == Half \in Nat /\ Half > 0 /\ 2^WordBits = 2 * Half /\ Word = -Half .. Half - 1
<1>1. PICK w \in Nat : w = WordBits - 1 /\ WordBits = w + 1
  BY CommandLineAssumption
<1>2. 2^(w + 1) = 2 * 2^w /\ 2^w \in Nat /\ 2^w > 0
  BY PowerNext, PowerType
<1> QED BY <1>1, <1>2 DEF Half, Word

LEMMA WrapKept == \A n \in Int : Wrap(n) \in Word /\ (n \in Word => Wrap(n) = n)
<1> TAKE n \in Int
<1>1. PICK h \in Nat : h = Half /\ h > 0 /\ 2^WordBits = 2 * h /\ Word = -h .. h - 1
  BY HalfType
<1>2. Wrap(n) = ((n + h) % (2 * h)) - h
  BY <1>1 DEF Wrap, Half
<1>3. (n + h) % (2 * h) \in 0 .. 2 * h - 1
  BY <1>1, Division
<1>4. n \in Word => (n + h) % (2 * h) = n + h
  BY <1>1
<1> QED BY <1>1, <1>2, <1>3, <1>4

\* The deadline of a pop: at most a millisecond early.
LEMMA DeadlineKept ==
  ASSUME NEW d \in Word, d >= 0
  PROVE  IF d >= Milli THEN Deadline(Milliseconds(d)) \in d - Milli + 1 .. d
         ELSE Deadline(Milliseconds(d)) = 0
<1>1. PICK m \in Nat : m = Milli /\ m > 0
  BY CommandLineAssumption
<1>2. PICK h \in Nat : h = Half /\ h > 0 /\ Word = -h .. h - 1
  BY HalfType
<1>3. d \in Int
  BY <1>2
<1>4. PICK q \in Int, r \in 0 .. m - 1 : q = d \div m /\ d = q * m + r
  BY <1>1, <1>3, Division
<1>5. PICK p \in Int : p = q * m /\ d = p + r
  BY <1>1, <1>4
<1>6. p \in Word /\ p >= 0 /\ (d >= m <=> p > 0)
  <2>1. q >= 0
    BY <1>1, <1>4
  <2>2. q = 0 => p = 0
    BY <1>1, <1>4, <1>5
  <2>3. q >= 1 => p >= m
    BY <1>1, <1>4, <1>5
  <2> QED BY <1>1, <1>2, <1>4, <1>5, <2>1, <2>2, <2>3
<1>7. Wrap(p) = p
  BY <1>5, <1>6, WrapKept
<1>8. Deadline(Milliseconds(d)) = IF p <= 0 THEN 0 ELSE p
  BY <1>1, <1>4, <1>5, <1>7 DEF Deadline, Milliseconds
<1> QED BY <1>1, <1>2, <1>3, <1>4, <1>5, <1>6, <1>8

-----------------------------------------------------------------------------
(* What the arguments mean                                                 *)

LEMMA TextType == DOMAIN Text = Tokens /\ \A t \in Tokens : Text[t] = t
BY DEF Text

LEMMA PathParsed ==
  ASSUME NEW A, NEW args \in Seq(A)
  PROVE  LET st == Parse(args, Option("--socket", Text), Option("--socket", Default))
         IN  st.opts["--socket"] \in Tokens /\ st.words \in Seq(A)
<1> DEFINE D == {"--socket"}
           V == [o \in D |-> Tokens]
<1>1. Converts(Option("--socket", Text), D, V)
  BY TextType DEF Converts, Option
<1>2. Option("--socket", Default) \in Settings(D, V)
  BY CommandLineAssumption DEF Settings, Option
<1>3. Parse(args, Option("--socket", Text), Option("--socket", Default)) \in Parsers(D, V, A)
  BY <1>1, <1>2, ParseType
<1> QED BY <1>3 DEF Parsers, Settings

LEMMA PopMeans ==
  ASSUME NEW A, NEW args \in Seq(A), ~parsePopArgs(args).err
  PROVE  /\ parsePopArgs(args).socket \in Tokens
         /\ parsePopArgs(args).timeout \in Word /\ parsePopArgs(args).timeout >= 0
<1>1. PICK st : st = Parse(args, Option("--socket", Text), Option("--socket", Default))
  OBVIOUS
<1>2. st.opts["--socket"] \in Tokens /\ st.words \in Seq(A)
  BY <1>1, PathParsed
<1>3. PICK tt : tt = Parse(st.words, Option("--timeout", Durations), Option("--timeout", 0))
  OBVIOUS
<1>4. tt.opts["--timeout"] \in Word
  <2> DEFINE D == {"--timeout"}
             V == [o \in D |-> Word]
  <2>1. Converts(Option("--timeout", Durations), D, V)
    BY CommandLineAssumption DEF Converts, Option
  <2>2. Option("--timeout", 0) \in Settings(D, V)
    BY HalfType DEF Settings, Option
  <2>3. tt \in Parsers(D, V, A)
    BY <1>2, <1>3, <2>1, <2>2, ParseType
  <2> QED BY <2>3 DEF Parsers, Settings
<1>5. parsePopArgs(args) =
        IF st.err \/ tt.err \/ tt.opts["--timeout"] < 0 \/ tt.words = <<>> THEN UsageError
        ELSE [err |-> FALSE, socket |-> st.opts["--socket"], channels |-> tt.words,
              timeout |-> tt.opts["--timeout"]]
  BY <1>1, <1>3 DEF parsePopArgs
<1>6. ~(st.err \/ tt.err \/ tt.opts["--timeout"] < 0 \/ tt.words = <<>>)
  BY <1>5 DEF UsageError
<1>7. tt.opts["--timeout"] >= 0
  BY <1>4, <1>6, HalfType
<1> QED BY <1>2, <1>4, <1>5, <1>6, <1>7

LEMMA PushMeans ==
  ASSUME NEW A, NEW args \in Seq(A), ~parsePushArgs(args).err
  PROVE  parsePushArgs(args).socket \in Tokens
<1>1. PICK st : st = Parse(args, Option("--socket", Text), Option("--socket", Default))
  OBVIOUS
<1>2. st.opts["--socket"] \in Tokens
  BY <1>1, PathParsed
<1> QED BY <1>1, <1>2 DEF parsePushArgs, UsageError

Gbytes == Nat \ {0}

ServeValues == [o \in {"--socket", "--max-queued-gbytes"} |-> IF o = "--socket" THEN Tokens ELSE Gbytes]

LEMMA PositiveType == \A t \in DOMAIN Positive : t \in DOMAIN Numbers /\ Positive[t] = Numbers[t] /\ Numbers[t] \in Gbytes
<1> TAKE t \in DOMAIN Positive
<1>1. t \in DOMAIN Numbers /\ Positive[t] = Numbers[t] /\ Numbers[t] > 0
  BY DEF Positive
<1>2. Numbers[t] \in Int
  BY <1>1, CommandLineAssumption, HalfType
<1> QED BY <1>1, <1>2 DEF Gbytes

LEMMA ServeConverts == Converts(ServeOptions, DOMAIN ServeOptions, ServeValues)
<1>1. DOMAIN ServeOptions = {"--socket", "--max-queued-gbytes"}
  BY DEF ServeOptions
<1>2. ASSUME NEW o \in DOMAIN ServeOptions, NEW v \in DOMAIN ServeOptions[o]
      PROVE  ServeOptions[o][v] \in ServeValues[o]
  <2>1. CASE o = "--socket"
    <3>1. ServeOptions[o] = Text /\ ServeValues[o] = Tokens
      BY <2>1 DEF ServeOptions, ServeValues
    <3> QED BY <3>1, TextType
  <2>2. CASE o = "--max-queued-gbytes"
    <3>1. ServeOptions[o] = Positive /\ ServeValues[o] = Gbytes
      BY <2>2 DEF ServeOptions, ServeValues
    <3> QED BY <3>1, PositiveType
  <2> QED BY <1>1, <2>1, <2>2
<1> QED BY <1>2 DEF Converts

LEMMA ServeStarts ==
  ASSUME NEW env, ~EnvError(env)
  PROVE  ServeDefaults(env) \in Settings(DOMAIN ServeOptions, ServeValues)
<1>1. DOMAIN ServeOptions = {"--socket", "--max-queued-gbytes"}
  BY DEF ServeOptions
<1>2. PICK g \in Gbytes : g = IF env = Nil THEN 4 ELSE Numbers[env]
  BY PositiveType DEF EnvError, Gbytes
<1>3. ServeDefaults(env) = [o \in DOMAIN ServeOptions |-> IF o = "--socket" THEN Default ELSE g]
  BY <1>2 DEF ServeDefaults
<1>4. \A o \in DOMAIN ServeOptions : ServeDefaults(env)[o] \in ServeValues[o]
  BY <1>1, <1>3, CommandLineAssumption DEF ServeValues
<1> QED BY <1>3, <1>4 DEF Settings

\* The daemon that a client starts: --socket and the path.
LEMMA SpawnMeans ==
  ASSUME NEW env, ~EnvError(env), ~CapTooSmall(ServeDefaults(env)["--max-queued-gbytes"]),
         NEW path \in Tokens
  PROVE  LET d == parseServeArgs(<<<<"--socket">>, path>>, env)
         IN  ~d.err /\ d.socket = path
<1>1. PICK args : args = <<<<"--socket">>, path>>
  OBVIOUS
<1>2. PICK A : A = {<<"--socket">>, path}
  OBVIOUS
<1>3. args \in Seq(A) /\ Len(args) = 2 /\ args[1] = <<"--socket">> /\ args[2] = path
  BY <1>1, <1>2
<1>4. PICK D : D = DOMAIN ServeOptions
  OBVIOUS
<1>5. PICK f \in Settings(D, ServeValues) : f = ServeDefaults(env)
  BY <1>4, ServeStarts
<1>6. PICK v \in [0 .. 2 -> Parsers(D, ServeValues, A)] : Takes(v, args, ServeOptions, f)
  BY <1>3, <1>4, ServeConverts, ParseSteps
<1>7. PICK s0 \in Parsers(D, ServeValues, A), s1 \in Parsers(D, ServeValues, A),
             s2 \in Parsers(D, ServeValues, A) : s0 = v[0] /\ s1 = v[1] /\ s2 = v[2]
  OBVIOUS
<1>8. PICK e \in BOOLEAN : ~e /\ s0 = [err |-> e, want |-> "", opts |-> f, words |-> <<>>]
  BY <1>6, <1>7 DEF Takes, Start
<1>9. /\ s1 = Take(s0, <<"--socket">>, ServeOptions)
      /\ s2 = Take(s1, path, ServeOptions)
      /\ Parse(args, ServeOptions, f) = [s2 EXCEPT !.err = @ \/ s2.want # ""]
  <2>1. 1 \in 1 .. 2 /\ 2 \in 1 .. 2 /\ 1 - 1 = 0 /\ 2 - 1 = 1
    OBVIOUS
  <2> QED BY <1>3, <1>6, <1>7, <2>1 DEF Takes
<1>10. "--socket" \in DOMAIN ServeOptions /\ ServeOptions["--socket"] = Text
  BY DEF ServeOptions
<1>11. s1 = [err |-> e, want |-> "--socket", opts |-> f, words |-> <<>>]
  <2>1. PICK a : a = <<"--socket">> /\ a[1] = "--socket" /\ Len(a) # 2
    <3>1. <<"--socket">>[1] = "--socket" /\ Len(<<"--socket">>) # 2
      OBVIOUS
    <3> QED BY <3>1
  <2>2. s1 = Take(s0, a, ServeOptions)
    BY <1>9, <2>1
  <2>3. s1 = [s0 EXCEPT !.want = a[1]]
    BY <1>8, <1>10, <2>1, <2>2 DEF Take
  <2> QED BY <1>8, <2>1, <2>3
<1>12. PICK g : g = [f EXCEPT !["--socket"] = path]
  OBVIOUS
<1>13. g["--socket"] = path /\ g["--max-queued-gbytes"] = f["--max-queued-gbytes"]
  BY <1>4, <1>5, <1>12 DEF Settings, ServeOptions
<1>14. s2 = [err |-> e, want |-> "", opts |-> g, words |-> <<>>]
  <2>1. s2 = Assign(s1, "--socket", path, ServeOptions)
    <3>1. ~s1.err /\ s1.want = "--socket"
      BY <1>8, <1>11
    <3>2. s1.want # ""
      BY <3>1
    <3> QED BY <1>9, <3>1, <3>2 DEF Take
  <2>2. path \in DOMAIN ServeOptions["--socket"] /\ ServeOptions["--socket"][path] = path
    BY <1>10, TextType
  <2>3. s2 = [s1 EXCEPT !.opts["--socket"] = path, !.want = ""]
    BY <2>1, <2>2 DEF Assign
  <2> QED BY <1>11, <1>12, <2>3
<1>15. PICK st : st = Parse(args, ServeOptions, ServeDefaults(env))
  OBVIOUS
<1>16. ~st.err /\ st.words = <<>> /\ st.opts = g
  <2>1. st = [s2 EXCEPT !.err = @ \/ s2.want # ""]
    BY <1>5, <1>9, <1>15
  <2> QED BY <1>8, <1>14, <2>1
<1>17. parseServeArgs(args, env) =
        [err |-> FALSE, socket |-> path, gbytes |-> g["--max-queued-gbytes"], cap |-> Cap(g["--max-queued-gbytes"])]
  BY <1>5, <1>13, <1>15, <1>16 DEF parseServeArgs
<1>18. parseServeArgs(args, env).err = FALSE /\ parseServeArgs(args, env).socket = path
  BY <1>17
<1> QED BY <1>1, <1>18

-----------------------------------------------------------------------------
(* What a pass over the arguments means                                    *)

\* Argument i is the bare option, and the next argument is its value.
Bare(args, i, D) == args[i][1] \in D /\ Len(args[i]) = 1

\* No option is the value of another one.
Plain(args, D) ==
  \A i \in 1 .. Len(args) : Bare(args, i, D) => i < Len(args) /\ args[i + 1][1] \notin D

Value(args, i) == IF Len(args[i]) = 2 THEN <<args[i][2]>> ELSE args[i + 1]

\* The first n arguments set option o to x: the last occurrence of o counts.
SetTo(args, n, o, default, conversion, x) ==
  \/ x = default /\ \A j \in 1 .. n : args[j][1] # o
  \/ \E p \in 1 .. n : /\ args[p][1] = o /\ \A j \in 1 .. n : j > p => args[j][1] # o
                       /\ Value(args, p) \in DOMAIN conversion
                       /\ x = conversion[Value(args, p)]

\* The places of the words among the first n arguments.
Words(args, n, D) ==
  {i \in 1 .. n : args[i][1] \notin D /\ (i > 1 => ~Bare(args, i - 1, D))}

\* The words ws are the arguments at the places F in their order.
Enumerates(f, ws, args, F) ==
  /\ f \in [1 .. Len(ws) -> F]
  /\ \A j, k \in 1 .. Len(ws) : j < k => f[j] < f[k]
  /\ \A i \in F : \E k \in 1 .. Len(ws) : f[k] = i
  /\ \A k \in 1 .. Len(ws) : ws[k] = args[f[k]]

Listed(ws, args, F) == \E f : Enumerates(f, ws, args, F)

LEMMA ListedMore ==
  ASSUME NEW A, NEW ws \in Seq(A), NEW args, NEW i \in Nat, NEW a \in A, a = args[i],
         NEW F, F \subseteq 1 .. i - 1, Listed(ws, args, F)
  PROVE  Listed(Append(ws, a), args, F \cup {i})
<1>1. PICK f : Enumerates(f, ws, args, F)
  BY DEF Listed
<1>2. PICK n \in Nat : n = Len(ws)
  BY LenProperties
<1>3. PICK us : us = Append(ws, a)
  OBVIOUS
<1>4. Len(us) = n + 1 /\ us[n + 1] = a /\ \A k \in 1 .. n : us[k] = ws[k]
  BY <1>2, <1>3, AppendProperties
<1> DEFINE g == [k \in 1 .. n + 1 |-> IF k = n + 1 THEN i ELSE f[k]]
<1>5. /\ f \in [1 .. n -> F] /\ \A j, k \in 1 .. n : j < k => f[j] < f[k]
      /\ \A p \in F : \E k \in 1 .. n : f[k] = p
      /\ \A k \in 1 .. n : ws[k] = args[f[k]]
  BY <1>1, <1>2 DEF Enumerates
<1>6. g \in [1 .. n + 1 -> F \cup {i}]
  BY <1>5
<1>7. ASSUME NEW j \in 1 .. n + 1, NEW k \in 1 .. n + 1, j < k PROVE g[j] < g[k]
  <2>0. j \in 1 .. n /\ j # n + 1
    BY <1>7
  <2>1. g[j] = f[j] /\ f[j] \in 1 .. i - 1
    BY <1>5, <2>0
  <2>2. CASE k = n + 1
    BY <2>1, <2>2
  <2>3. CASE k # n + 1
    <3>1. k \in 1 .. n /\ g[k] = f[k]
      BY <2>3
    <3> QED BY <1>5, <1>7, <2>0, <2>1, <3>1
  <2> QED BY <2>2, <2>3
<1>8. ASSUME NEW p \in F \cup {i} PROVE \E k \in 1 .. n + 1 : g[k] = p
  <2>1. CASE p = i
    <3>1. n + 1 \in 1 .. n + 1 /\ g[n + 1] = i
      OBVIOUS
    <3> QED BY <2>1, <3>1
  <2>2. CASE p \in F
    <3>1. PICK k \in 1 .. n : f[k] = p
      BY <1>5, <2>2
    <3>2. k \in 1 .. n + 1 /\ k # n + 1
      OBVIOUS
    <3> QED BY <3>1, <3>2
  <2> QED BY <2>1, <2>2
<1>9. ASSUME NEW k \in 1 .. n + 1 PROVE us[k] = args[g[k]]
  <2>1. CASE k = n + 1
    BY <1>4, <2>1
  <2>2. CASE k # n + 1
    <3>1. k \in 1 .. n
      BY <2>2
    <3> QED BY <1>4, <1>5, <3>1
  <2> QED BY <2>1, <2>2
<1> HIDE DEF g
<1> QED BY <1>3, <1>4, <1>6, <1>7, <1>8, <1>9 DEF Enumerates, Listed

\* No option waits for its value.
Unset == ""

\* What the parser knows after the first i arguments.
Reads(st, args, i, D, convert, defaults) ==
  /\ st.want = IF i > 0 /\ Bare(args, i, D) THEN args[i][1] ELSE Unset
  /\ Listed(st.words, args, Words(args, i, D))
  /\ \A o \in D : o # st.want => SetTo(args, i, o, defaults[o], convert[o], st.opts[o])

LEMMA SetToKeeps ==
  ASSUME NEW args, NEW i \in Nat \ {0}, NEW o, NEW default, NEW conversion, NEW x,
         SetTo(args, i - 1, o, default, conversion, x), args[i][1] # o
  PROVE  SetTo(args, i, o, default, conversion, x)
<1>1. \A j \in 1 .. i : j = i \/ j \in 1 .. i - 1
  OBVIOUS
<1>2. CASE x = default /\ \A j \in 1 .. i - 1 : args[j][1] # o
  BY <1>1, <1>2 DEF SetTo
<1>3. CASE \E p \in 1 .. i - 1 : /\ args[p][1] = o /\ \A j \in 1 .. i - 1 : j > p => args[j][1] # o
                                 /\ Value(args, p) \in DOMAIN conversion
                                 /\ Value(args, p) \in DOMAIN conversion
                                /\ x = conversion[Value(args, p)]
  <2>1. PICK p \in 1 .. i - 1 : /\ args[p][1] = o /\ \A j \in 1 .. i - 1 : j > p => args[j][1] # o
                                /\ Value(args, p) \in DOMAIN conversion
                                /\ x = conversion[Value(args, p)]
    BY <1>3
  <2>2. p \in 1 .. i /\ \A j \in 1 .. i : j > p => args[j][1] # o
    BY <1>1, <2>1
  <2> QED BY <2>1, <2>2 DEF SetTo
<1> QED BY <1>2, <1>3 DEF SetTo

LEMMA SetToNew ==
  ASSUME NEW args, NEW i \in Nat, NEW p \in 1 .. i, NEW default, NEW conversion, NEW o,
         args[p][1] = o, \A j \in 1 .. i : j > p => args[j][1] # o,
         Value(args, p) \in DOMAIN conversion
  PROVE  SetTo(args, i, o, default, conversion, conversion[Value(args, p)])
BY DEF SetTo

LEMMA TakeReads ==
  ASSUME NEW D, NEW V, Unset \notin D, NEW convert, Converts(convert, D, V),
         NEW args \in Seq(Arguments), Plain(args, D), NEW i \in 1 .. Len(args), NEW defaults,
         NEW st \in Parsers(D, V, Arguments), Reads(st, args, i - 1, D, convert, defaults),
         NEW next, next = Take(st, args[i], convert), ~next.err
  PROVE  Reads(next, args, i, D, convert, defaults)
<1>1. PICK e \in BOOLEAN, w \in {Unset} \cup D, f \in Settings(D, V), ws \in Seq(Arguments) :
             st = [err |-> e, want |-> w, opts |-> f, words |-> ws]
  BY DEF Parsers, Unset
<1>2. DOMAIN convert = D
  BY DEF Converts
<1>3. PICK a \in Arguments : a = args[i] /\ Len(a) \in {1, 2}
  BY ElementOfSeq, LenProperties DEF Arguments
<1>4. i \in Nat \ {0} /\ Len(args) \in Nat
  BY LenProperties
<1>5. ~e
  BY <1>1 DEF Take
<1> DEFINE F == Words(args, i - 1, D)
           Set(o, x) == SetTo(args, i - 1, o, defaults[o], convert[o], x)
           SetNow(o, x) == SetTo(args, i, o, defaults[o], convert[o], x)
<1>6. /\ w = IF i - 1 > 0 /\ Bare(args, i - 1, D) THEN args[i - 1][1] ELSE Unset
      /\ Listed(ws, args, F)
      /\ \A o \in D : o # w => Set(o, f[o])
  BY <1>1 DEF Reads
<1>7. F \subseteq 1 .. i - 1
  BY DEF Words
<1>8. ASSUME NEW o \in D, o # w, a[1] # o PROVE SetNow(o, f[o])
  BY <1>3, <1>4, <1>6, <1>8, SetToKeeps
<1>9. Words(args, i, D) = IF w = Unset /\ a[1] \notin D THEN F \cup {i} ELSE F
  <2>1. w = Unset <=> (i > 1 => ~Bare(args, i - 1, D))
    BY <1>4, <1>6 DEF Bare
  <2>2. \A j \in 1 .. i : j = i \/ j \in 1 .. i - 1
    OBVIOUS
  <2>3. i \in 1 .. i /\ i \notin 1 .. i - 1 /\ 1 .. i - 1 \subseteq 1 .. i
    BY <1>4
  <2> HIDE DEF Bare
  <2> QED BY <1>3, <2>1, <2>2, <2>3 DEF Words
<1> HIDE DEF F, Set, SetNow
\* The argument is the value of the one before it.
<1>10. CASE w # Unset
  <2>1. /\ i - 1 \in 1 .. Len(args) /\ i - 1 > 0 /\ Bare(args, i - 1, D)
        /\ w = args[i - 1][1] /\ Len(args[i - 1]) = 1 /\ w \in D
    BY <1>4, <1>6, <1>10 DEF Bare
  <2>2. a[1] \notin D /\ i - 1 + 1 = i
    <3>1. args[i - 1 + 1][1] \notin D
      BY <2>1 DEF Plain
    <3> QED BY <1>3, <1>4, <3>1
  <2>3. next = Assign(st, w, a, convert)
    BY <1>1, <1>3, <1>5, <1>10 DEF Take, Unset
  <2>4. a \in DOMAIN convert[w]
    BY <2>3 DEF Assign
  <2>5. PICK x : x = convert[w][a]
    OBVIOUS
  <2>6. PICK g : g = [f EXCEPT ![w] = x]
    OBVIOUS
  <2>7. next = [err |-> e, want |-> Unset, opts |-> g, words |-> ws]
    BY <1>1, <2>3, <2>4, <2>5, <2>6 DEF Assign, Unset
  <2>8. g[w] = x /\ \A o \in D : o # w => g[o] = f[o]
    BY <2>1, <2>6 DEF Settings
  <2>9. SetNow(w, x)
    <3>1. Value(args, i - 1) = a
      BY <1>3, <2>1, <2>2 DEF Value
    <3>2. \A j \in 1 .. i : j > i - 1 => args[j][1] # w
      BY <1>3, <1>4, <2>1, <2>2
    <3>3. i - 1 \in 1 .. i
      BY <2>1
    <3> QED BY <1>4, <2>1, <2>4, <2>5, <3>1, <3>2, <3>3, SetToNew DEF SetNow
  <2>10. \A o \in D : SetNow(o, g[o])
    BY <1>8, <2>2, <2>8, <2>9
  <2>11. ~Bare(args, i, D)
    BY <1>3, <2>2 DEF Bare
  <2>12. Listed(ws, args, Words(args, i, D))
    <3>1. Words(args, i, D) = F
      BY <1>9, <1>10
    <3> QED BY <1>6, <3>1
  <2> QED BY <2>7, <2>10, <2>11, <2>12 DEF Reads, SetNow
\* It is a word.
<1>11. CASE w = Unset /\ a[1] \notin D
  <2>1. PICK us : us = Append(ws, a)
    OBVIOUS
  <2>2. next = [st EXCEPT !.words = us]
    BY <1>1, <1>2, <1>3, <1>5, <1>11, <2>1 DEF Take, Unset
  <2>3. next = [err |-> e, want |-> w, opts |-> f, words |-> us]
    BY <1>1, <2>2
  <2>4. Listed(us, args, Words(args, i, D))
    <3>1. Words(args, i, D) = F \cup {i}
      BY <1>9, <1>11
    <3>2. Listed(Append(ws, a), args, F \cup {i})
      BY <1>3, <1>4, <1>6, <1>7, ListedMore
    <3> QED BY <2>1, <3>1, <3>2
  <2>5. \A o \in D : SetNow(o, f[o])
    BY <1>8, <1>11
  <2>6. ~Bare(args, i, D)
    BY <1>3, <1>11 DEF Bare
  <2> QED BY <1>11, <2>3, <2>4, <2>5, <2>6 DEF Reads, SetNow
\* It is an option.
<1>12. CASE w = Unset /\ a[1] \in D
  <2>1. Listed(ws, args, Words(args, i, D))
    BY <1>6, <1>9, <1>12
  <2>2. CASE Len(a) = 2
    <3>1. PICK o \in D : o = a[1]
      BY <1>12
    <3>2. next = Assign(st, o, <<a[2]>>, convert)
      BY <1>1, <1>2, <1>3, <1>5, <1>12, <2>2, <3>1 DEF Take, Unset
    <3>3. <<a[2]>> \in DOMAIN convert[o]
      BY <3>2 DEF Assign
    <3>4. PICK x : x = convert[o][<<a[2]>>]
      OBVIOUS
    <3>5. PICK g : g = [f EXCEPT ![o] = x]
      OBVIOUS
    <3>6. next = [err |-> e, want |-> Unset, opts |-> g, words |-> ws]
      BY <1>1, <3>2, <3>3, <3>4, <3>5 DEF Assign, Unset
    <3>7. g[o] = x /\ \A p \in D : p # o => g[p] = f[p]
      BY <3>1, <3>5 DEF Settings
    <3>8. SetNow(o, x)
      <4>1. Value(args, i) = <<a[2]>> /\ args[i][1] = o
        BY <1>3, <2>2, <3>1 DEF Value
      <4>2. i \in 1 .. i /\ \A j \in 1 .. i : ~(j > i)
        BY <1>4
      <4> QED BY <1>4, <3>3, <3>4, <4>1, <4>2, SetToNew DEF SetNow
    <3>9. \A p \in D : SetNow(p, g[p])
      BY <1>8, <1>12, <3>1, <3>7, <3>8
    <3>10. ~Bare(args, i, D)
      BY <1>3, <2>2 DEF Bare
    <3> QED BY <2>1, <3>6, <3>9, <3>10 DEF Reads, SetNow
  <2>3. CASE Len(a) = 1
    <3>0. Len(a) # 2
      BY <2>3
    <3>1. next = [st EXCEPT !.want = a[1]]
      BY <1>1, <1>2, <1>3, <1>5, <1>12, <3>0 DEF Take, Unset
    <3>2. next = [err |-> e, want |-> a[1], opts |-> f, words |-> ws]
      BY <1>1, <3>1
    <3>3. \A o \in D : o # a[1] => SetNow(o, f[o])
      BY <1>8, <1>12
    <3>4. Bare(args, i, D) /\ i > 0 /\ args[i][1] = a[1]
      BY <1>3, <1>4, <1>12, <2>3 DEF Bare
    <3> QED BY <2>1, <3>2, <3>3, <3>4 DEF Reads, SetNow
  <2> QED BY <1>3, <2>2, <2>3
<1> QED BY <1>10, <1>11, <1>12

\* A parser that takes all arguments has the words in their order, and each
\* option has the value of its last occurrence.
LEMMA ParseReads ==
  ASSUME NEW D, NEW V, Unset \notin D, NEW convert, Converts(convert, D, V),
         NEW args \in Seq(Arguments), Plain(args, D), NEW defaults \in Settings(D, V),
         NEW st, st = Parse(args, convert, defaults), ~st.err
  PROVE  /\ st \in Parsers(D, V, Arguments)
         /\ Listed(st.words, args, Words(args, Len(args), D))
         /\ \A o \in D : SetTo(args, Len(args), o, defaults[o], convert[o], st.opts[o])
<1>1. PICK n \in Nat : n = Len(args)
  BY LenProperties
<1>2. PICK v \in [0 .. n -> Parsers(D, V, Arguments)] : Takes(v, args, convert, defaults)
  BY <1>1, ParseSteps
<1>3. /\ v[0] = Start(defaults)
      /\ \A i \in 1 .. n : v[i] = Take(v[i - 1], args[i], convert)
      /\ st = [v[n] EXCEPT !.err = @ \/ v[n].want # Unset]
  BY <1>1, <1>2 DEF Takes, Unset
<1> DEFINE Understood(i) == Reads(v[i], args, i, D, convert, defaults)
           T == {i \in Nat : i \in 0 .. n => v[i].err \/ Understood(i)}
<1>4. 0 \in T
  <2>1. Words(args, 0, D) = {}
    BY DEF Words
  <2>2. Listed(<<>>, args, {})
    <3>1. Enumerates([k \in 1 .. 0 |-> 0], <<>>, args, {})
      BY DEF Enumerates
    <3> QED BY <3>1 DEF Listed
  <2>3. \A o \in D : SetTo(args, 0, o, defaults[o], convert[o], defaults[o])
    BY DEF SetTo
  <2>4. v[0].want = Unset /\ v[0].words = <<>> /\ v[0].opts = defaults
    <3>1. v[0] = [err |-> FALSE, want |-> Unset, opts |-> defaults, words |-> <<>>]
      BY <1>3 DEF Start, Unset
    <3> QED BY <3>1
  <2>5. Understood(0)
    BY <2>1, <2>2, <2>3, <2>4 DEF Reads
  <2> QED BY <2>5
<1>5. ASSUME NEW i \in Nat, i \in T PROVE i + 1 \in T
  <2> SUFFICES ASSUME i + 1 \in 0 .. n, ~v[i + 1].err PROVE Understood(i + 1)
    OBVIOUS
  <2>1. i + 1 \in 1 .. n /\ i \in 0 .. n /\ i + 1 - 1 = i
    BY <1>1
  <2>2. v[i + 1] = Take(v[i], args[i + 1], convert)
    BY <1>3, <2>1
  <2>3. ~v[i].err
    BY <2>2 DEF Take
  <2>4. Reads(v[i], args, i + 1 - 1, D, convert, defaults)
    BY <1>5, <2>1, <2>3
  <2>5. v[i] \in Parsers(D, V, Arguments)
    BY <1>2, <2>1
  <2>6. PICK j \in 1 .. n : j = i + 1
    BY <2>1
  <2> QED BY <1>1, <2>2, <2>4, <2>5, <2>6, TakeReads
<1>6. n \in T
  <2> HIDE DEF T
  <2> QED BY <1>4, <1>5, Induction
<1>7. PICK e \in BOOLEAN, w \in {Unset} \cup D, f \in Settings(D, V), ws \in Seq(Arguments) :
             v[n] = [err |-> e, want |-> w, opts |-> f, words |-> ws]
  <2>1. PICK u \in Parsers(D, V, Arguments) : u = v[n]
    BY <1>1, <1>2
  <2>2. \E e \in BOOLEAN, w \in {Unset} \cup D, f \in Settings(D, V), ws \in Seq(Arguments) :
             u = [err |-> e, want |-> w, opts |-> f, words |-> ws]
    BY <2>1 DEF Parsers, Unset
  <2> QED BY <2>1, <2>2
<1>8. st = [err |-> e \/ w # Unset, want |-> w, opts |-> f, words |-> ws]
  BY <1>3, <1>7
<1>9. ~e /\ w = Unset
  BY <1>8
<1>10. Understood(n)
  BY <1>6, <1>7, <1>9
<1>11. /\ Listed(ws, args, Words(args, n, D))
       /\ \A o \in D : SetTo(args, n, o, defaults[o], convert[o], f[o])
  BY <1>7, <1>9, <1>10 DEF Reads
<1>12. st \in Parsers(D, V, Arguments)
  BY ParseType
<1> QED BY <1>1, <1>8, <1>11, <1>12

-----------------------------------------------------------------------------
(* Places                                                                  *)

\* The words at the places of G, of a list of the arguments at the places of F.
Images(f, G) == {f[k] : k \in G}

Increasing(f, m) ==
  \A k \in 1 .. m : f[k] \in Nat /\ \A j \in 1 .. m : j < k => f[j] < f[k]

LEMMA ImageCount ==
  ASSUME NEW m \in Nat, NEW f, Increasing(f, m), NEW G \in SUBSET (1 .. m)
  PROVE  /\ IsFiniteSet(G) /\ IsFiniteSet(Images(f, G))
         /\ Cardinality(Images(f, G)) = Cardinality(G) /\ Cardinality(G) \in Nat
<1>1. IsFiniteSet(G)
  <2>1. IsFiniteSet(1 .. m)
    BY FS_Interval
  <2> QED BY <2>1, FS_Subset
<1> DEFINE g == [k \in G |-> f[k]]
<1>2. \A j, k \in G : g[j] = g[k] => j = k
  <2> SUFFICES ASSUME NEW j \in G, NEW k \in G, j # k PROVE g[j] # g[k]
    OBVIOUS
  <2>1. j \in 1 .. m /\ k \in 1 .. m /\ f[j] \in Nat /\ f[k] \in Nat
    BY DEF Increasing
  <2>2. j < k \/ k < j
    BY <2>1
  <2> QED BY <2>1, <2>2 DEF Increasing
<1>3. g \in Bijection(G, Images(f, G))
  BY <1>2 DEF Bijection, Injection, IsInjective, Surjection, Images
<1>4. ExistsBijection(G, Images(f, G))
  BY <1>3 DEF ExistsBijection
<1> QED BY <1>1, <1>4, FS_Bijection, FS_CardinalityType

\* How many places of F there are up to i.
Rank(F, i) == Cardinality({j \in F : j <= i})

\* A list has as many words as places, each word after those of the places before.
LEMMA ListPlaces ==
  ASSUME NEW A, NEW ws \in Seq(A), NEW args, NEW F, F \subseteq Nat, Listed(ws, args, F)
  PROVE  /\ Len(ws) = Cardinality(F)
         /\ \A i \in F : ws[Rank(F, i)] = args[i]
<1>1. PICK m \in Nat : m = Len(ws)
  BY LenProperties
<1>2. PICK f : Enumerates(f, ws, args, F)
  BY DEF Listed
<1>3. /\ f \in [1 .. m -> F]
      /\ \A j, k \in 1 .. m : j < k => f[j] < f[k]
      /\ \A i \in F : \E k \in 1 .. m : f[k] = i
      /\ \A k \in 1 .. m : ws[k] = args[f[k]]
  BY <1>1, <1>2 DEF Enumerates
<1>4. Images(f, 1 .. m) = F
  BY <1>3 DEF Images
<1>5. \A n \in Nat : Cardinality(1 .. n) = n
  BY FS_Interval
<1>6. \A k \in 0 .. m : Cardinality(Images(f, 1 .. k)) = k
  <2> SUFFICES ASSUME NEW k \in 0 .. m PROVE Cardinality(Images(f, 1 .. k)) = k
    OBVIOUS
  <2>1. PICK G : G = 1 .. k
    OBVIOUS
  <2>2. G \subseteq 1 .. m /\ Cardinality(G) = k
    BY <1>5, <2>1
  <2>3. Cardinality(Images(f, G)) = Cardinality(G)
    <3>1. Increasing(f, m)
      BY <1>3 DEF Increasing
    <3>2. G \in SUBSET (1 .. m)
      BY <2>2
    <3> QED BY <3>1, <3>2, ImageCount, Zenon
  <2> QED BY <2>1, <2>2, <2>3
<1>7. ASSUME NEW i \in F PROVE ws[Rank(F, i)] = args[i]
  <2>1. PICK k \in 1 .. m : f[k] = i
    BY <1>3
  <2>2. {j \in F : j <= i} = Images(f, 1 .. k)
    <3>1. ASSUME NEW j \in F PROVE j <= i <=> \E l \in 1 .. k : f[l] = j
      <4>1. PICK l \in 1 .. m : f[l] = j
        BY <1>3
      <4>0. i \in Nat /\ j \in Nat
        OBVIOUS
      <4>2. l <= k => j <= i
        <5>1. l < k => j < i
          BY <1>3, <2>1, <4>1
        <5>2. l = k => j = i
          BY <2>1, <4>1
        <5> QED BY <4>0, <5>1, <5>2
      <4>3. k < l => ~(j <= i)
        <5>1. k < l => i < j
          BY <1>3, <2>1, <4>1
        <5> QED BY <4>0, <5>1
      <4>4. \A h \in 1 .. k : h \in 1 .. m /\ h <= k
        BY <2>1
      <4>5. \A h \in 1 .. k : f[h] = j => j <= i
        BY <1>3, <2>1, <4>4
      <4> QED BY <2>1, <4>1, <4>2, <4>3, <4>5
    <3>2. \A l \in 1 .. k : f[l] \in F
      BY <1>3, <2>1
    <3> QED BY <3>1, <3>2 DEF Images
  <2>3. Rank(F, i) = k
    <3>1. k \in 0 .. m
      OBVIOUS
    <3> QED BY <1>6, <2>2, <3>1 DEF Rank
  <2> QED BY <1>3, <2>1, <2>3
<1> QED BY <1>1, <1>4, <1>6, <1>7

\* A list of words from a list of the arguments.
LEMMA ListOfList ==
  ASSUME NEW A, NEW ws \in Seq(A), NEW us \in Seq(A), NEW args, NEW F, F \subseteq Nat,
         NEW G, G \subseteq 1 .. Len(ws), NEW f, Enumerates(f, ws, args, F), Listed(us, ws, G)
  PROVE  Listed(us, args, Images(f, G))
<1>1. PICK m \in Nat, n \in Nat : m = Len(ws) /\ n = Len(us)
  BY LenProperties
<1>2. PICK g : Enumerates(g, us, ws, G)
  BY DEF Listed
<1>3. /\ f \in [1 .. m -> F]
      /\ \A j, k \in 1 .. m : j < k => f[j] < f[k]
      /\ \A k \in 1 .. m : ws[k] = args[f[k]]
  BY <1>1 DEF Enumerates
<1>4. /\ g \in [1 .. n -> G]
      /\ \A j, k \in 1 .. n : j < k => g[j] < g[k]
      /\ \A i \in G : \E k \in 1 .. n : g[k] = i
      /\ \A k \in 1 .. n : us[k] = ws[g[k]]
  BY <1>1, <1>2 DEF Enumerates
<1>5. \A k \in 1 .. n : g[k] \in G /\ g[k] \in 1 .. m
  BY <1>1, <1>4
<1> DEFINE h == [k \in 1 .. n |-> f[g[k]]]
<1>6. h \in [1 .. n -> Images(f, G)]
  BY <1>5 DEF Images
<1>7. \A j, k \in 1 .. n : j < k => h[j] < h[k]
  BY <1>3, <1>4, <1>5
<1>8. \A i \in Images(f, G) : \E k \in 1 .. n : h[k] = i
  BY <1>4 DEF Images
<1>9. \A k \in 1 .. n : us[k] = args[h[k]]
  BY <1>3, <1>4, <1>5
<1> HIDE DEF h
<1> QED BY <1>1, <1>6, <1>7, <1>8, <1>9 DEF Enumerates, Listed

\* The hypotheses of TwoPasses: ws are the words of a first pass, which knows the
\* options D, at the places f; D and E have no option in common.
FirstPass(args, ws, f, D, E) ==
  /\ args \in Seq(Arguments) /\ ws \in Seq(Arguments)
  /\ D \cap E = {}
  /\ Plain(args, D \cup E)
  /\ Enumerates(f, ws, args, Words(args, Len(args), D))

\* What FirstPass says of single places.
LEMMA FirstPlaces ==
  ASSUME NEW args, NEW ws, NEW f, NEW D, NEW E, FirstPass(args, ws, f, D, E)
  PROVE  /\ Len(args) \in Nat /\ Len(ws) \in Nat
         /\ \A i \in 1 .. Len(args) : Len(args[i]) \in {1, 2}
         /\ \A k \in 1 .. Len(ws) :
              /\ f[k] \in 1 .. Len(args) /\ ws[k] = args[f[k]] /\ ws[k][1] \notin D
              /\ f[k] > 1 => ~Bare(args, f[k] - 1, D)
         /\ \A j, k \in 1 .. Len(ws) : j < k => f[j] < f[k]
         /\ \A i \in 1 .. Len(args) :
              args[i][1] \notin D /\ (i > 1 => ~Bare(args, i - 1, D)) =>
                \E k \in 1 .. Len(ws) : f[k] = i
<1>1. \A i \in 1 .. Len(args) : Len(args[i]) \in {1, 2}
  BY ElementOfSeq, LenProperties DEF FirstPass, Arguments
<1>2. Len(args) \in Nat /\ Len(ws) \in Nat
  BY LenProperties DEF FirstPass
<1> DEFINE F == Words(args, Len(args), D)
<1>3. Enumerates(f, ws, args, F)
  BY DEF FirstPass
<1>4. \A i : i \in F <=> i \in 1 .. Len(args) /\ args[i][1] \notin D /\ (i > 1 => ~Bare(args, i - 1, D))
  BY DEF Words
<1> HIDE DEF F
<1>5. /\ \A k \in 1 .. Len(ws) : f[k] \in F /\ ws[k] = args[f[k]]
      /\ \A j, k \in 1 .. Len(ws) : j < k => f[j] < f[k]
      /\ \A i \in F : \E k \in 1 .. Len(ws) : f[k] = i
  BY <1>3 DEF Enumerates
<1> QED BY <1>1, <1>2, <1>4, <1>5

\* The next argument after a bare option of the second pass is its next word.
LEMMA NextWord ==
  ASSUME NEW args, NEW ws, NEW f, NEW D, NEW E, FirstPass(args, ws, f, D, E),
         NEW k \in 1 .. Len(ws), Bare(ws, k, E)
  PROVE  /\ k + 1 \in 1 .. Len(ws) /\ f[k + 1] = f[k] + 1
         /\ ws[k + 1][1] \notin E /\ ws[k + 1] = args[f[k] + 1]
<1>1. PICK n \in Nat, m \in Nat : n = Len(args) /\ m = Len(ws)
  BY FirstPlaces
<1>2. PICK i \in 1 .. n : i = f[k] /\ ws[k] = args[i]
  BY <1>1, FirstPlaces
<1>3. args[i][1] \in E /\ Len(args[i]) = 1 /\ args[i][1] \notin D
  BY <1>1, <1>2, FirstPlaces DEF Bare
<1>4. i < n /\ args[i + 1][1] \notin D \cup E
  BY <1>1, <1>3 DEF FirstPass, Plain, Bare
<1>5. i + 1 \in 1 .. n /\ ~Bare(args, i + 1 - 1, D)
  BY <1>1, <1>3, <1>4 DEF Bare
<1>6. PICK l \in 1 .. m : f[l] = i + 1
  <2>1. PICK j \in 1 .. n : j = i + 1
    BY <1>5
  <2>2. args[j][1] \notin D /\ ~Bare(args, j - 1, D)
    BY <1>4, <1>5, <2>1
  <2> QED BY <1>1, <2>1, <2>2, FirstPlaces
<1>7. \A j \in 1 .. m : f[j] \in Nat
  BY <1>1, FirstPlaces
<1>8. l > k
  <2>1. l # k
    BY <1>1, <1>2, <1>6, <1>7
  <2>2. ~(l < k)
    BY <1>1, <1>2, <1>6, <1>7, FirstPlaces
  <2> QED BY <1>1, <2>1, <2>2
<1>9. k + 1 \in 1 .. m /\ f[k] < f[k + 1]
  BY <1>1, <1>8, FirstPlaces
<1>10. ~(k + 1 < l)
  <2>1. k + 1 < l => f[k + 1] < f[l]
    BY <1>1, <1>9, FirstPlaces
  <2> QED BY <1>2, <1>6, <1>7, <1>9, <2>1
<1>11. l = k + 1
  BY <1>1, <1>8, <1>10
<1> QED BY <1>1, <1>2, <1>4, <1>6, <1>11, FirstPlaces

\* A place that the first pass leaves to the second one.
LEMMA LeftOver ==
  ASSUME NEW args, NEW ws, NEW f, NEW D, NEW E, FirstPass(args, ws, f, D, E),
         NEW i \in 1 .. Len(args), args[i][1] \in E
  PROVE  \E k \in 1 .. Len(ws) : f[k] = i /\ ws[k] = args[i]
<1>1. args[i][1] \notin D
  BY DEF FirstPass
<1>2. PICK n \in Nat : n = Len(args)
  BY FirstPlaces
<1>3. ASSUME i > 1 PROVE ~Bare(args, i - 1, D)
  <2>1. i - 1 \in 1 .. n /\ i - 1 + 1 = i
    BY <1>2, <1>3
  <2>2. Bare(args, i - 1, D) => args[i - 1 + 1][1] \notin D \cup E
    BY <1>2, <2>1 DEF FirstPass, Plain, Bare
  <2> QED BY <2>1, <2>2
<1> QED BY <1>1, <1>2, <1>3, FirstPlaces

LEMMA TwoPasses ==
  ASSUME NEW args, NEW ws, NEW f, NEW D, NEW E, FirstPass(args, ws, f, D, E)
  PROVE  /\ Plain(ws, E)
         /\ Images(f, Words(ws, Len(ws), E)) = Words(args, Len(args), D \cup E)
         /\ \A o \in E : \A default, conversion, x :
              SetTo(ws, Len(ws), o, default, conversion, x) =>
              SetTo(args, Len(args), o, default, conversion, x)
<1>1. PICK n \in Nat, m \in Nat : n = Len(args) /\ m = Len(ws)
  BY FirstPlaces
<1>2. Plain(ws, E)
  <2> SUFFICES ASSUME NEW k \in 1 .. m, Bare(ws, k, E)
               PROVE  k < m /\ ws[k + 1][1] \notin E
    BY <1>1 DEF Plain
  <2> QED BY <1>1, NextWord
<1>3. ASSUME NEW k \in 1 .. m
      PROVE  /\ f[k] \in 1 .. n /\ ws[k] = args[f[k]] /\ ws[k][1] \notin D
             /\ f[k] > 1 => ~Bare(args, f[k] - 1, D)
  BY <1>1, FirstPlaces
<1>4. Images(f, Words(ws, m, E)) \subseteq Words(args, n, D \cup E)
  <2> SUFFICES ASSUME NEW k \in Words(ws, m, E) PROVE f[k] \in Words(args, n, D \cup E)
    BY DEF Images
  <2>1. k \in 1 .. m /\ ws[k][1] \notin E /\ (k > 1 => ~Bare(ws, k - 1, E))
    BY DEF Words
  <2>2. PICK i \in 1 .. n : i = f[k]
    BY <1>3, <2>1
  <2>3. args[i][1] \notin D \cup E /\ (i > 1 => ~Bare(args, i - 1, D))
    BY <1>3, <2>1, <2>2
  <2>4. ASSUME i > 1, Bare(args, i - 1, E) PROVE FALSE
    <3>1. i - 1 \in 1 .. n /\ args[i - 1][1] \in E /\ Len(args[i - 1]) = 1
      BY <2>4 DEF Bare
    <3>2. PICK l \in 1 .. m : f[l] = i - 1 /\ ws[l] = args[i - 1]
      BY <1>1, <3>1, LeftOver
    <3>3. Bare(ws, l, E)
      BY <3>1, <3>2 DEF Bare
    <3>4. l + 1 \in 1 .. m /\ f[l + 1] = i - 1 + 1
      BY <1>1, <3>2, <3>3, NextWord
    <3>5. l + 1 = k
      <4>1. f[l + 1] = f[k]
        BY <2>2, <3>4
      <4>2. ~(l + 1 < k) /\ ~(k < l + 1)
        BY <1>1, <1>3, <2>1, <2>2, <3>4, <4>1, FirstPlaces
      <4> QED BY <1>1, <2>1, <3>4, <4>2
    <3> QED BY <2>1, <3>2, <3>3, <3>5
  <2>5. i > 1 => ~Bare(args, i - 1, D \cup E)
    BY <2>3, <2>4 DEF Bare
  <2> QED BY <2>2, <2>3, <2>5 DEF Words
<1>5. Words(args, n, D \cup E) \subseteq Images(f, Words(ws, m, E))
  <2> SUFFICES ASSUME NEW i \in Words(args, n, D \cup E) PROVE i \in Images(f, Words(ws, m, E))
    OBVIOUS
  <2>1. i \in 1 .. n /\ args[i][1] \notin D \cup E /\ (i > 1 => ~Bare(args, i - 1, D \cup E))
    BY DEF Words
  <2>2. i > 1 => ~Bare(args, i - 1, D) /\ ~Bare(args, i - 1, E)
    BY <2>1 DEF Bare
  <2>3. PICK k \in 1 .. m : f[k] = i
    BY <1>1, <2>1, <2>2, FirstPlaces
  <2>4. ASSUME k > 1, Bare(ws, k - 1, E) PROVE FALSE
    <3>1. k - 1 \in 1 .. m /\ k - 1 + 1 = k
      BY <2>4
    <3>2. f[k] = f[k - 1] + 1
      BY <1>1, <2>4, <3>1, NextWord
    <3>3. f[k - 1] \in 1 .. n /\ ws[k - 1] = args[f[k - 1]]
      BY <1>3, <3>1
    <3>4. f[k - 1] = i - 1 /\ i > 1
      BY <2>1, <2>3, <3>2, <3>3
    <3>5. Bare(args, i - 1, E)
      BY <2>4, <3>3, <3>4 DEF Bare
    <3> QED BY <2>2, <3>4, <3>5
  <2>5. ws[k][1] \notin E
    BY <1>3, <2>1, <2>3
  <2>6. k \in Words(ws, m, E)
    BY <2>4, <2>5 DEF Words
  <2> QED BY <2>3, <2>6 DEF Images
<1>6. ASSUME NEW o \in E, NEW default, NEW conversion, NEW x,
             SetTo(ws, m, o, default, conversion, x)
      PROVE  SetTo(args, n, o, default, conversion, x)
  <2>1. CASE x = default /\ \A j \in 1 .. m : ws[j][1] # o
    <3>1. \A i \in 1 .. n : args[i][1] # o
      BY <1>1, <2>1, LeftOver
    <3> QED BY <2>1, <3>1 DEF SetTo
  <2>2. CASE \E p \in 1 .. m : /\ ws[p][1] = o /\ \A j \in 1 .. m : j > p => ws[j][1] # o
                               /\ Value(ws, p) \in DOMAIN conversion
                               /\ x = conversion[Value(ws, p)]
    <3>1. PICK p \in 1 .. m : /\ ws[p][1] = o /\ \A j \in 1 .. m : j > p => ws[j][1] # o
                              /\ Value(ws, p) \in DOMAIN conversion
                              /\ x = conversion[Value(ws, p)]
      BY <2>2
    <3>2. PICK i \in 1 .. n : i = f[p] /\ args[i] = ws[p]
      BY <1>3
    <3>3. ASSUME NEW j \in 1 .. n, j > i PROVE args[j][1] # o
      <4> SUFFICES ASSUME args[j][1] = o PROVE FALSE
        OBVIOUS
      <4>1. PICK l \in 1 .. m : f[l] = j /\ ws[l] = args[j]
        BY <1>1, LeftOver
      <4>2. ~(l < p) /\ l # p
        <5>1. l < p => f[l] < f[p]
          BY <1>1, FirstPlaces
        <5> QED BY <3>2, <3>3, <4>1, <5>1
      <4> QED BY <3>1, <4>1, <4>2
    <3>4. Value(args, i) = Value(ws, p)
      <4>1. CASE Len(args[i]) = 2
        BY <3>2, <4>1 DEF Value
      <4>2. CASE Len(args[i]) # 2
        <5>1. Len(ws[p]) = 1 /\ Bare(ws, p, E)
          BY <1>1, <3>1, <3>2, <4>2, FirstPlaces DEF Bare
        <5>2. ws[p + 1] = args[i + 1]
          BY <1>1, <3>2, <5>1, NextWord
        <5> QED BY <3>2, <4>2, <5>2 DEF Value
      <4> QED BY <4>1, <4>2
    <3> QED BY <3>1, <3>2, <3>3, <3>4 DEF SetTo
  <2> QED BY <1>6, <2>1, <2>2 DEF SetTo
<1> QED BY <1>1, <1>2, <1>4, <1>5, <1>6

-----------------------------------------------------------------------------
(* What the arguments of push and pop mean                                 *)

\* Setting and SetTo are the same for the arguments of the process.
LEMMA SettingSet ==
  ASSUME NEW o, NEW default, NEW conversion, NEW x, Len(command.args) \in Nat,
         SetTo(command.args, Len(command.args), o, default, conversion, x),
         DOMAIN command.args = 1 .. Len(command.args)
  PROVE  \/ At(o) = {} /\ x = default
         \/ \A y : At(o) # {} /\ Setting(o, y) \in DOMAIN conversion
                   /\ x = conversion[Setting(o, y)]
<1>1. PICK n \in Nat : n = Len(command.args) /\ DOMAIN command.args = 1 .. n
  OBVIOUS
<1>2. CASE x = default /\ \A j \in 1 .. n : command.args[j][1] # o
  BY <1>1, <1>2 DEF At
<1>3. CASE \E p \in 1 .. n : /\ command.args[p][1] = o
                             /\ \A j \in 1 .. n : j > p => command.args[j][1] # o
                             /\ Value(command.args, p) \in DOMAIN conversion
                             /\ x = conversion[Value(command.args, p)]
  <2>1. PICK p \in 1 .. n : /\ command.args[p][1] = o
                            /\ \A j \in 1 .. n : j > p => command.args[j][1] # o
                            /\ Value(command.args, p) \in DOMAIN conversion
                            /\ x = conversion[Value(command.args, p)]
    BY <1>3
  <2>2. p \in At(o) /\ At(o) \subseteq 1 .. n
    BY <1>1, <2>1 DEF At
  <2>3. \A i \in At(o) : p >= i
    BY <1>1, <2>1 DEF At
  <2>4. Max(At(o)) = p
    BY <2>2, <2>3 DEF Max
  <2>5. \A y : Setting(o, y) = ValueAt(p)
    BY <2>2, <2>4 DEF Setting
  <2>6. ValueAt(p) = Value(command.args, p)
    BY DEF ValueAt, Value
  <2> QED BY <2>1, <2>2, <2>5, <2>6
<1> QED BY <1>1, <1>2, <1>3 DEF SetTo

\* PlainValues and Plain are, too.
LEMMA PlainArguments ==
  ASSUME NEW D, PlainValues(D), command.args \in Seq(Arguments)
  PROVE  Plain(command.args, D)
<1>1. DOMAIN command.args = 1 .. Len(command.args)
  BY LenProperties
<1> QED BY <1>1 DEF PlainValues, Plain, Bare, At

LEMMA PlainLess ==
  ASSUME NEW args, NEW D, NEW E, D \subseteq E, Plain(args, E)
  PROVE  Plain(args, D)
BY DEF Plain, Bare

\* The pass over one option.
LEMMA OptionPass ==
  ASSUME NEW o, o # Unset, NEW S, NEW default \in S,
         NEW conversion, \A v \in DOMAIN conversion : conversion[v] \in S,
         NEW args \in Seq(Arguments), Plain(args, {o}), NEW st,
         st = Parse(args, Option(o, conversion), Option(o, default)), ~st.err
  PROVE  /\ st.words \in Seq(Arguments)
         /\ Listed(st.words, args, Words(args, Len(args), {o}))
         /\ SetTo(args, Len(args), o, default, conversion, st.opts[o])
<1> DEFINE D == {o}
           V == [p \in D |-> S]
<1>1. PICK convert, defaults : convert = Option(o, conversion) /\ defaults = Option(o, default)
  OBVIOUS
<1>2. Converts(convert, D, V)
  BY <1>1 DEF Converts, Option
<1>3. defaults \in Settings(D, V)
  BY <1>1 DEF Settings, Option
<1>4. convert[o] = conversion /\ defaults[o] = default
  BY <1>1 DEF Option
<1>5. /\ st \in Parsers(D, V, Arguments)
      /\ Listed(st.words, args, Words(args, Len(args), D))
      /\ \A p \in D : SetTo(args, Len(args), p, defaults[p], convert[p], st.opts[p])
  <2>1. Plain(args, D) /\ Unset \notin D
    OBVIOUS
  <2> HIDE DEF D, V
  <2> QED BY <1>1, <1>2, <1>3, <2>1, ParseReads
<1>6. st.words \in Seq(Arguments)
  BY <1>5 DEF Parsers
<1> QED BY <1>4, <1>5, <1>6

LEMMA SocketPass ==
  ASSUME NEW args \in Seq(Arguments), Plain(args, {"--socket"}), NEW st,
         st = Parse(args, Option("--socket", Text), Option("--socket", Default)), ~st.err
  PROVE  /\ st.words \in Seq(Arguments)
         /\ Listed(st.words, args, Words(args, Len(args), {"--socket"}))
         /\ SetTo(args, Len(args), "--socket", Default, Text, st.opts["--socket"])
<1>1. "--socket" # Unset
  BY DEF Unset
<1>2. Default \in Tokens
  BY CommandLineAssumption
<1>3. \A v \in DOMAIN Text : Text[v] \in Tokens
  BY TextType
<1> QED BY <1>1, <1>2, <1>3, OptionPass

\* The places of the names of a pop, and of a push.
LEMMA NamePlaces ==
  ASSUME NEW D, command.args \in Seq(Arguments)
  PROVE  NamesAt(D) = {i \in Words(command.args, Len(command.args), D) :
                         command.cmd = "push" => command.args[i] # <<"--stdin">>}
<1>1. PICK n \in Nat : n = Len(command.args) /\ DOMAIN command.args = 1 .. n
  BY LenProperties
<1>2. \A i \in 1 .. n : command.args[i] \in Arguments
  BY <1>1, ElementOfSeq
<1>3. ASSUME NEW i \in 1 .. n
      PROVE  i > 1 => (command.args[i - 1] \in {<<o>> : o \in D} <=> Bare(command.args, i - 1, D))
  <2> SUFFICES ASSUME i > 1
               PROVE  command.args[i - 1] \in {<<o>> : o \in D} <=> Bare(command.args, i - 1, D)
    OBVIOUS
  <2>1. PICK a \in Seq(STRING) : a = command.args[i - 1]
    <3>1. i - 1 \in 1 .. n
      OBVIOUS
    <3> QED BY <1>2, <3>1 DEF Arguments
  <2>2. a \in {<<o>> : o \in D} <=> a[1] \in D /\ Len(a) = 1
    OBVIOUS
  <2> QED BY <2>1, <2>2 DEF Bare
<1> QED BY <1>1, <1>3 DEF NamesAt, Words

\* The socket that a pass over --socket leaves is the setting.
LEMMA SocketSetting ==
  ASSUME command.args \in Seq(Arguments), NEW x,
         SetTo(command.args, Len(command.args), "--socket", Default, Text, x)
  PROVE  x = Setting("--socket", Default)
<1>1. Len(command.args) \in Nat /\ DOMAIN command.args = 1 .. Len(command.args)
  BY LenProperties
<1>2. \/ At("--socket") = {} /\ x = Default
      \/ \A y : At("--socket") # {} /\ Setting("--socket", y) \in DOMAIN Text
                /\ x = Text[Setting("--socket", y)]
  BY <1>1, SettingSet
<1>3. CASE At("--socket") = {} /\ x = Default
  BY <1>3 DEF Setting
<1>4. CASE Setting("--socket", Default) \in DOMAIN Text /\ x = Text[Setting("--socket", Default)]
  BY <1>4, TextType
<1> QED BY <1>2, <1>3, <1>4

LEMMA PopArguments ==
  ASSUME command.args \in Seq(Arguments), command.cmd = "pop",
         NEW D, D = {"--socket"} \cup {"--timeout"}, PlainValues(D),
         NEW c, c = parsePopArgs(command.args), ~c.err
  PROVE  /\ c.socket = Setting("--socket", Default)
         /\ Len(c.channels) = Cardinality(NamesAt(D))
         /\ \A i \in NamesAt(D) :
              c.channels[Rank(NamesAt(D), i)] = command.args[i]
         /\ c.timeout = IF At("--timeout") = {} THEN 0 ELSE Durations[Setting("--timeout", Nil)]
<1>1. PICK args \in Seq(Arguments) : args = command.args
  OBVIOUS
<1>2. PICK n \in Nat : n = Len(args) /\ DOMAIN command.args = 1 .. Len(command.args)
  BY <1>1, LenProperties
<1>3. Plain(args, D)
  BY <1>1, PlainArguments
<1>4. PICK st : st = Parse(args, Option("--socket", Text), Option("--socket", Default))
  OBVIOUS
<1>5. PICK tt : tt = Parse(st.words, Option("--timeout", Durations), Option("--timeout", 0))
  OBVIOUS
<1>6. c = IF st.err \/ tt.err \/ tt.opts["--timeout"] < 0 \/ tt.words = <<>> THEN UsageError
          ELSE [err |-> FALSE, socket |-> st.opts["--socket"], channels |-> tt.words,
                timeout |-> tt.opts["--timeout"]]
  BY <1>1, <1>4, <1>5 DEF parsePopArgs
<1>7. /\ ~st.err /\ ~tt.err
      /\ c.socket = st.opts["--socket"] /\ c.channels = tt.words
      /\ c.timeout = tt.opts["--timeout"]
  BY <1>6 DEF UsageError
<1>8. Plain(args, {"--socket"})
  BY <1>3, PlainLess
<1>9. /\ st.words \in Seq(Arguments)
      /\ Listed(st.words, args, Words(args, n, {"--socket"}))
      /\ SetTo(args, n, "--socket", Default, Text, st.opts["--socket"])
  BY <1>2, <1>4, <1>7, <1>8, SocketPass
<1>10. c.socket = Setting("--socket", Default)
  BY <1>1, <1>2, <1>7, <1>9, SocketSetting
<1>11. PICK ws \in Seq(Arguments) : ws = st.words
  BY <1>9
<1>12. PICK f : Enumerates(f, ws, args, Words(args, n, {"--socket"}))
  BY <1>9, <1>11 DEF Listed
<1>13. FirstPass(args, ws, f, {"--socket"}, {"--timeout"})
  <2>1. {"--socket"} \cap {"--timeout"} = {}
    OBVIOUS
  <2> QED BY <1>2, <1>3, <1>12, <2>1 DEF FirstPass
<1>14. /\ Plain(ws, {"--timeout"})
       /\ Images(f, Words(ws, Len(ws), {"--timeout"})) = Words(args, n, D)
       /\ \A default, conversion, x :
            SetTo(ws, Len(ws), "--timeout", default, conversion, x) =>
            SetTo(args, n, "--timeout", default, conversion, x)
  <2>1. PICK B, E : B = {"--socket"} /\ E = {"--timeout"} /\ B \cup E = D /\ "--timeout" \in E
    OBVIOUS
  <2>2. FirstPass(args, ws, f, B, E)
    BY <1>13, <2>1
  <2>3. /\ Plain(ws, E)
        /\ Images(f, Words(ws, Len(ws), E)) = Words(args, Len(args), B \cup E)
        /\ \A o \in E : \A default, conversion, x :
             SetTo(ws, Len(ws), o, default, conversion, x) =>
             SetTo(args, Len(args), o, default, conversion, x)
    BY <2>2, TwoPasses, Zenon
  <2> QED BY <1>2, <2>1, <2>3
<1>15. /\ tt.words \in Seq(Arguments)
       /\ Listed(tt.words, ws, Words(ws, Len(ws), {"--timeout"}))
       /\ SetTo(ws, Len(ws), "--timeout", 0, Durations, tt.opts["--timeout"])
  <2>1. "--timeout" # Unset
    BY DEF Unset
  <2>2. 0 \in Word /\ \A v \in DOMAIN Durations : Durations[v] \in Word
    BY CommandLineAssumption, HalfType
  <2> QED BY <1>5, <1>7, <1>11, <1>14, <2>1, <2>2, OptionPass
<1>16. c.timeout = IF At("--timeout") = {} THEN 0 ELSE Durations[Setting("--timeout", Nil)]
  <2>1. SetTo(args, n, "--timeout", 0, Durations, c.timeout)
    BY <1>7, <1>14, <1>15
  <2>2. \/ At("--timeout") = {} /\ c.timeout = 0
        \/ \A y : At("--timeout") # {} /\ Setting("--timeout", y) \in DOMAIN Durations
                  /\ c.timeout = Durations[Setting("--timeout", y)]
    BY <1>1, <1>2, <2>1, SettingSet
  <2> QED BY <2>2
<1>17. Words(args, n, D) \subseteq Nat /\ Words(args, n, {"--socket"}) \subseteq Nat
  BY DEF Words
<1>18. Listed(c.channels, args, Words(args, n, D))
  <2>1. Words(ws, Len(ws), {"--timeout"}) \subseteq 1 .. Len(ws)
    BY DEF Words
  <2>2. PICK us \in Seq(Arguments) : us = tt.words
    BY <1>15
  <2>3. PICK G : G = Words(ws, Len(ws), {"--timeout"})
    OBVIOUS
  <2>4. Listed(us, args, Images(f, G))
    BY <1>12, <1>15, <1>17, <2>1, <2>2, <2>3, ListOfList
  <2> QED BY <1>7, <1>14, <2>2, <2>3, <2>4
<1>19. NamesAt(D) = Words(args, n, D)
  <2>1. NamesAt(D) = {i \in Words(args, n, D) : command.cmd = "push" => args[i] # <<"--stdin">>}
    BY <1>1, <1>2, NamePlaces
  <2>2. command.cmd # "push"
    OBVIOUS
  <2> QED BY <2>1, <2>2
<1>20. PICK us \in Seq(Arguments) : us = c.channels
  BY <1>7, <1>15
<1>21. PICK F : F = NamesAt(D) /\ F \subseteq Nat /\ Listed(us, args, F)
  BY <1>17, <1>18, <1>19, <1>20
<1>22. Len(us) = Cardinality(F) /\ \A i \in F : us[Rank(F, i)] = args[i]
  BY <1>21, ListPlaces
<1> QED BY <1>1, <1>10, <1>16, <1>20, <1>21, <1>22

LEMMA Least ==
  ASSUME NEW S, S \subseteq Nat, NEW k \in S, \A l \in S : k <= l
  PROVE  Min(S) = k
<1>1. PICK m : m = Min(S)
  OBVIOUS
<1>2. m \in S /\ \A l \in S : m =< l
  BY <1>1 DEF Min
<1>3. k \in Nat /\ m \in Nat /\ k <= m /\ m <= k
  BY <1>2
<1> QED BY <1>1, <1>3

LEMMA PushArguments ==
  ASSUME command.args \in Seq(Arguments), command.cmd = "push", PlainValues({"--socket"}),
         NEW c, c = parsePushArgs(command.args), ~c.err
  PROVE  LET names == NamesAt({"--socket"})
         IN  /\ c.socket = Setting("--socket", Default)
             /\ Cardinality(names) = IF c.readStdin THEN 1 ELSE 2
             /\ c.channels = <<command.args[Min(names)]>>
<1>1. PICK args \in Seq(Arguments) : args = command.args
  OBVIOUS
<1>2. PICK n \in Nat : n = Len(args)
  BY LenProperties
<1>3. Plain(args, {"--socket"})
  BY <1>1, PlainArguments
<1>4. PICK st : st = Parse(args, Option("--socket", Text), Option("--socket", Default))
  OBVIOUS
<1> DEFINE K == {k \in DOMAIN st.words : st.words[k] # <<"--stdin">>}
           stdin == K # DOMAIN st.words
<1>5. c = IF st.err \/ Cardinality(K) # (IF stdin THEN 1 ELSE 2) THEN UsageError
          ELSE [err |-> FALSE, socket |-> st.opts["--socket"],
                channels |-> <<st.words[Min(K)]>>, readStdin |-> stdin]
  BY <1>1, <1>4 DEF parsePushArgs
<1>6. /\ ~st.err /\ Cardinality(K) = (IF c.readStdin THEN 1 ELSE 2)
      /\ c.socket = st.opts["--socket"] /\ c.channels = <<st.words[Min(K)]>>
  <2>0. PICK b \in BOOLEAN : b = stdin
    OBVIOUS
  <2>1. PICK G : G = K
    OBVIOUS
  <2>2. c = IF st.err \/ Cardinality(G) # (IF b THEN 1 ELSE 2) THEN UsageError
            ELSE [err |-> FALSE, socket |-> st.opts["--socket"],
                  channels |-> <<st.words[Min(G)]>>, readStdin |-> b]
    BY <1>5, <2>0, <2>1, Zenon
  <2> HIDE DEF K
  <2> QED BY <2>1, <2>2 DEF UsageError
<1>7. /\ st.words \in Seq(Arguments)
      /\ Listed(st.words, args, Words(args, n, {"--socket"}))
      /\ SetTo(args, n, "--socket", Default, Text, st.opts["--socket"])
  BY <1>2, <1>3, <1>4, <1>6, SocketPass
<1>8. c.socket = Setting("--socket", Default)
  BY <1>1, <1>2, <1>6, <1>7, SocketSetting
<1>9. PICK ws \in Seq(Arguments) : ws = st.words
  BY <1>7
<1>10. PICK m \in Nat : m = Len(ws) /\ DOMAIN ws = 1 .. m
  BY LenProperties
<1>11. PICK F \in SUBSET Nat : F = Words(args, n, {"--socket"})
  <2>1. Words(args, n, {"--socket"}) \subseteq Nat
    BY DEF Words
  <2> QED BY <2>1
<1>12. PICK f : Enumerates(f, ws, args, F)
  BY <1>7, <1>9, <1>11 DEF Listed
<1>13. /\ f \in [1 .. m -> F] /\ Increasing(f, m)
       /\ \A i \in F : \E k \in 1 .. m : f[k] = i
       /\ \A k \in 1 .. m : ws[k] = args[f[k]]
  BY <1>10, <1>11, <1>12 DEF Enumerates, Increasing
<1>14. PICK G \in SUBSET (1 .. m) : G = K /\ \A k \in 1 .. m : k \in G <=> ws[k] # <<"--stdin">>
  <2>1. \A k : k \in K <=> k \in 1 .. m /\ ws[k] # <<"--stdin">>
    BY <1>9, <1>10
  <2> HIDE DEF K
  <2>2. K \in SUBSET (1 .. m)
    BY <2>1
  <2> QED BY <2>1, <2>2
<1>15. PICK N : N = NamesAt({"--socket"})
  OBVIOUS
<1>16. N = {i \in F : args[i] # <<"--stdin">>}
  BY <1>1, <1>2, <1>11, <1>15, NamePlaces
<1>17. N = Images(f, G)
  <2>1. ASSUME NEW i \in N PROVE \E k \in G : f[k] = i
    <3>1. i \in F /\ args[i] # <<"--stdin">>
      BY <1>16
    <3>2. PICK k \in 1 .. m : f[k] = i
      BY <1>13, <3>1
    <3> QED BY <1>13, <1>14, <3>1, <3>2
  <2>2. ASSUME NEW k \in G PROVE f[k] \in N
    <3>1. k \in 1 .. m /\ ws[k] # <<"--stdin">> /\ f[k] \in F /\ ws[k] = args[f[k]]
      BY <1>13, <1>14
    <3> QED BY <1>16, <3>1
  <2> QED BY <2>1, <2>2 DEF Images
<1>18. IsFiniteSet(G) /\ Cardinality(N) = Cardinality(G)
  BY <1>13, <1>17, ImageCount, Zenon
<1>19. G # {}
  <2>1. Cardinality(G) # 0
    BY <1>6, <1>14
  <2> QED BY <2>1, FS_EmptySet
<1>20. PICK k \in G : \A l \in G : k <= l
  <2>1. G \subseteq Nat
    OBVIOUS
  <2> QED BY <1>19, <2>1, LeastNumber
<1>21. Min(G) = k
  <2>1. G \subseteq Nat
    OBVIOUS
  <2> QED BY <1>20, <2>1, Least
<1>22. f[k] \in N /\ \A i \in N : f[k] <= i
  <2>1. \A l \in G : f[k] <= f[l]
    <3> SUFFICES ASSUME NEW l \in G PROVE f[k] <= f[l]
      OBVIOUS
    <3>1. k \in 1 .. m /\ l \in 1 .. m /\ k <= l
      BY <1>20
    <3>2. f[k] \in Nat /\ f[l] \in Nat /\ (k < l => f[k] < f[l])
      BY <1>13, <3>1 DEF Increasing
    <3> QED BY <3>1, <3>2
  <2> QED BY <1>17, <2>1 DEF Images
<1>23. Min(N) = f[k]
  <2>1. N \subseteq Nat
    BY <1>11, <1>16
  <2> QED BY <1>22, <2>1, Least
<1>24. c.channels = <<args[Min(N)]>>
  BY <1>6, <1>9, <1>13, <1>14, <1>21, <1>23
<1> QED BY <1>1, <1>6, <1>8, <1>14, <1>15, <1>18, <1>24

LEMMA NoWords ==
  ASSUME NEW args, NEW F, Listed(<<>>, args, F)
  PROVE  F = {}
BY DEF Listed, Enumerates

LEMMA ServeArguments ==
  ASSUME command.args \in Seq(Arguments), command.cmd = "serve",
         NEW D, D = {"--socket"} \cup {"--max-queued-gbytes"}, PlainValues(D),
         NEW c, c = parseServeArgs(command.args, command.env), ~c.err
  PROVE  /\ c.socket = Setting("--socket", Default)
         /\ NamesAt(D) = {}
         /\ c.gbytes = IF At("--max-queued-gbytes") # {}
                       THEN Numbers[Setting("--max-queued-gbytes", Nil)]
                       ELSE IF command.env = Nil THEN 4 ELSE Numbers[command.env]
<1>1. PICK args \in Seq(Arguments) : args = command.args
  OBVIOUS
<1> DEFINE env == command.env
<1>2. PICK n \in Nat : n = Len(args) /\ DOMAIN command.args = 1 .. Len(command.args)
  BY <1>1, LenProperties
<1>3. Plain(args, D)
  BY <1>1, PlainArguments
<1>4. ~EnvError(env)
  BY <1>1 DEF parseServeArgs, UsageError
<1> HIDE DEF env
<1>5. PICK st : st = Parse(args, ServeOptions, ServeDefaults(env))
  OBVIOUS
<1>6. PICK g, b : g = st.opts["--max-queued-gbytes"] /\ b = Cap(g)
  OBVIOUS
<1>7. c = IF st.err \/ st.words # <<>> \/ CapTooSmall(g) THEN UsageError
          ELSE [err |-> FALSE, socket |-> st.opts["--socket"], gbytes |-> g, cap |-> b]
  BY <1>1, <1>4, <1>5, <1>6 DEF parseServeArgs, env
<1>8. ~st.err /\ st.words = <<>> /\ c.socket = st.opts["--socket"] /\ c.gbytes = g
  BY <1>7 DEF UsageError
<1>9. DOMAIN ServeOptions = D /\ Unset \notin D
  BY DEF ServeOptions, Unset
<1>10. /\ Listed(st.words, args, Words(args, n, D))
       /\ \A o \in D : SetTo(args, n, o, ServeDefaults(env)[o], ServeOptions[o], st.opts[o])
  BY <1>2, <1>3, <1>4, <1>5, <1>8, <1>9, ServeConverts, ServeStarts, ParseReads
<1>11. NamesAt(D) = {}
  <2>1. Words(args, n, D) = {}
    BY <1>8, <1>10, NoWords
  <2> QED BY <1>1, <1>2, <2>1, NamePlaces
<1>12. c.socket = Setting("--socket", Default)
  <2>1. ServeDefaults(env)["--socket"] = Default /\ ServeOptions["--socket"] = Text
    BY DEF ServeDefaults, ServeOptions
  <2>2. SetTo(args, n, "--socket", Default, Text, c.socket)
    BY <1>8, <1>10, <2>1
  <2> QED BY <1>1, <1>2, <2>2, SocketSetting
<1>13. c.gbytes = IF At("--max-queued-gbytes") # {}
                  THEN Numbers[Setting("--max-queued-gbytes", Nil)]
                  ELSE IF env = Nil THEN 4 ELSE Numbers[env]
  <2>1. PICK d : d = IF env = Nil THEN 4 ELSE Numbers[env]
    OBVIOUS
  <2>2. /\ ServeDefaults(env)["--max-queued-gbytes"] = d
        /\ ServeOptions["--max-queued-gbytes"] = Positive
    BY <2>1 DEF ServeDefaults, ServeOptions
  <2>3. SetTo(args, n, "--max-queued-gbytes", d, Positive, g)
    BY <1>6, <1>10, <2>2
  <2>4. \/ At("--max-queued-gbytes") = {} /\ g = d
        \/ \A y : /\ At("--max-queued-gbytes") # {}
                  /\ Setting("--max-queued-gbytes", y) \in DOMAIN Positive
                  /\ g = Positive[Setting("--max-queued-gbytes", y)]
    BY <1>1, <1>2, <2>3, SettingSet
  <2> QED BY <1>8, <2>1, <2>4, PositiveType
<1> QED BY <1>11, <1>12, <1>13 DEF env

-----------------------------------------------------------------------------
(* The process that runs a command                                         *)

\* The request says what the arguments mean.
Asking ==
  /\ command.cmd \in {"push", "pop"} /\ config = Parsed /\ ~config.err
  /\ ask.op = command.cmd
  /\ command.cmd = "pop" => ask.timeoutMS = Milliseconds(config.timeout)
  /\ command.cmd = "push" => ask.timeoutMS = 0

CommandInv ==
  /\ command \in Commands
  /\ ppc \in {"start", "parsed", "serve", "warm", "stress"} => ask = Nil /\ effect = "none"
  /\ ppc # "done" => exit = Nil
  /\ ppc \in {"parsed", "serve"} => config = Parsed
  /\ ppc = "serve" => command.cmd = "serve" /\ ~config.err
  /\ ppc \in {"call", "printed"} => Asking
  /\ ppc = "call" => effect \in {"none", IF ask.op = "push" THEN "put" ELSE "taken"}
  /\ ppc = "printed" => ask.op = "pop"
  /\ ExitTells

LEMMA ExitCodes == Nil \notin {exitOK, exitRuntime, exitTimeout, exitUsage}
<1> QED BY CommandLineAssumption DEF exitOK, exitRuntime, exitTimeout, exitUsage

\* A request of a pop, from its arguments to its deadline.
LEMMA PopAsked ==
  ASSUME command \in Commands, Asking, ask.op = "pop"
  PROVE  LET d == config.timeout
         IN  /\ config.socket \in Tokens
             /\ IF d >= Milli THEN Deadline(ask.timeoutMS) \in d - Milli + 1 .. d
                ELSE Deadline(ask.timeoutMS) = 0
<1>1. command.args \in Seq(Arguments)
  BY CommandLineAssumption
<1>2. config = parsePopArgs(command.args) /\ ~config.err /\ ask.timeoutMS = Milliseconds(config.timeout)
  BY DEF Asking, Parsed
<1>3. config.socket \in Tokens /\ config.timeout \in Word /\ config.timeout >= 0
  BY <1>1, <1>2, PopMeans
<1>4. PICK d \in Word : d = config.timeout /\ d >= 0
  BY <1>3
<1> QED BY <1>2, <1>3, <1>4, DeadlineKept

LEMMA CommandInit == Init => CommandInv
<1> SUFFICES ASSUME Init PROVE CommandInv
  OBVIOUS
<1>1. /\ command \in Commands /\ ppc = "start" /\ exit = Nil /\ ask = Nil /\ effect = "none"
  BY DEF Init, CLInit
<1>2. ExitTells
  BY <1>1, ExitCodes DEF ExitTells
<1> QED BY <1>1, <1>2 DEF CommandInv

LEMMA CommandSame == CommandInv /\ UNCHANGED cli => CommandInv'
<1> SUFFICES ASSUME CommandInv, UNCHANGED cli PROVE CommandInv'
  OBVIOUS
<1>1. UNCHANGED <<command, ppc, exit, config, ask, effect>>
  BY DEF cli
<1>2. (Asking <=> Asking') /\ (ExitTells <=> ExitTells') /\ Parsed' = Parsed
  BY <1>1 DEF Asking, ExitTells, Parsed
<1> QED BY <1>1, <1>2 DEF CommandInv

LEMMA CommandStep == CommandInv /\ [Next]_vars => CommandInv'
<1> SUFFICES ASSUME CommandInv, [Next]_vars PROVE CommandInv'
  OBVIOUS
<1> USE DEF Exit
\* ExitTells holds of a process that still runs.
<1>0. exit' = Nil => ExitTells'
  BY ExitCodes DEF ExitTells
<1>1. CASE Run
  <2>1. UNCHANGED <<command, exit, ask, effect>> /\ ppc = "start" /\ ppc' = "parsed" /\ config' = Parsed
    BY <1>1 DEF Run
  <2>2. Parsed' = Parsed
    BY <2>1 DEF Parsed
  <2> QED BY <1>0, <2>1, <2>2 DEF CommandInv
<1>2. CASE Usage
  <2>1. UNCHANGED <<command, config, ask, effect>> /\ ask = Nil /\ ppc' = "done" /\ exit' \in {exitOK, exitUsage}
    BY <1>2 DEF Usage, CommandInv
  <2>2. ExitTells'
    BY <2>1 DEF ExitTells, exitOK, exitUsage, exitTimeout
  <2> QED BY <2>1, <2>2 DEF CommandInv
<1>3. CASE RunInvalid \/ AnswerError
  <2>1. UNCHANGED <<command, config, ask, effect>> /\ ppc' = "done" /\ exit' = exitRuntime
    BY <1>3 DEF RunInvalid, AnswerError
  <2>2. ExitTells'
    BY <2>1 DEF ExitTells, exitOK, exitUsage, exitTimeout, exitRuntime
  <2> QED BY <2>1, <2>2 DEF CommandInv
<1>4. CASE RunCall
  <2>1. /\ UNCHANGED <<command, exit, config, effect>> /\ ppc = "parsed" /\ ppc' = "call"
        /\ config = Parsed /\ exit = Nil /\ effect = "none" /\ Parsed' = Parsed
    BY <1>4 DEF RunCall, CommandInv, Parsed
  <2>2. Asking'
    BY <1>4, <2>1 DEF RunCall, Asking
  <2> QED BY <1>0, <2>1, <2>2 DEF CommandInv
<1>5. CASE Execute
  <2>1. /\ UNCHANGED <<command, ppc, exit, config, ask>> /\ ppc = "call"
        /\ effect' = (IF ask.op = "push" THEN "put" ELSE "taken") /\ exit = Nil
    BY <1>5 DEF Execute, CommandInv
  <2>2. Asking <=> Asking'
    BY <2>1 DEF Asking, Parsed
  <2> QED BY <1>0, <2>1, <2>2 DEF CommandInv
<1>6. CASE AnswerOK
  <2>1. UNCHANGED <<command, config, ask, effect>> /\ ppc = "call" /\ effect # "none"
    BY <1>6 DEF AnswerOK
  <2>2. Asking <=> Asking'
    BY <2>1 DEF Asking, Parsed
  <2>3. CASE ask.op = "push"
    <3>1. ppc' = "done" /\ exit' = exitOK
      BY <1>6, <2>3 DEF AnswerOK
    <3>2. effect = "put"
      BY <2>1, <2>3 DEF CommandInv
    <3>3. ExitTells'
      BY <2>1, <2>3, <3>1, <3>2 DEF ExitTells, exitOK, exitUsage, exitTimeout
    <3> QED BY <2>1, <3>1, <3>3 DEF CommandInv
  <2>4. CASE ask.op # "push"
    <3>1. ppc' = "printed" /\ exit' = exit /\ exit = Nil
      BY <1>6, <2>1, <2>4 DEF AnswerOK, CommandInv
    <3>2. ask.op = "pop" /\ Asking
      BY <2>1, <2>4 DEF CommandInv, Asking
    <3> QED BY <1>0, <2>1, <2>2, <3>1, <3>2 DEF CommandInv
  <2> QED BY <2>3, <2>4
<1>7. CASE Printed
  <2>1. /\ UNCHANGED <<command, config, ask>> /\ ppc' = "done" /\ ask.op = "pop"
        /\ \/ exit' = exitOK /\ effect' = "shown"
           \/ exit' = exitRuntime
    BY <1>7 DEF Printed, CommandInv
  <2>2. ExitTells'
    BY <2>1 DEF ExitTells, exitOK, exitUsage, exitTimeout, exitRuntime
  <2> QED BY <2>1, <2>2 DEF CommandInv
<1>8. CASE AnswerTimeout
  <2>1. /\ UNCHANGED <<command, config, ask, effect>> /\ ppc' = "done" /\ exit' = exitTimeout
        /\ effect = "none" /\ ask.op = "pop" /\ Deadline(ask.timeoutMS) > 0
        /\ command \in Commands /\ Asking
    BY <1>8 DEF AnswerTimeout, CommandInv
  <2>2. config.timeout >= Milli
    BY <2>1, PopAsked
  <2>3. ExitTells'
    BY <2>1, <2>2 DEF ExitTells, exitOK, exitUsage, exitTimeout
  <2> QED BY <2>1, <2>3 DEF CommandInv
<1>9. CASE RunServe
  <2>1. /\ UNCHANGED <<command, exit, config, ask, effect>> /\ ppc = "parsed" /\ ppc' = "serve"
        /\ command.cmd = "serve" /\ ~config.err /\ Parsed' = Parsed
    BY <1>9 DEF RunServe, Parsed
  <2> QED BY <1>0, <2>1 DEF CommandInv
<1>10. CASE ServeEnds
  <2>1. /\ UNCHANGED <<command, config, ask, effect>> /\ ask = Nil /\ ppc' = "done"
        /\ exit' \in {exitOK, exitRuntime}
    BY <1>10 DEF ServeEnds, CommandInv
  <2>2. ExitTells'
    BY <2>1 DEF ExitTells, exitOK, exitUsage, exitTimeout, exitRuntime
  <2> QED BY <2>1, <2>2 DEF CommandInv
<1>11. CASE RunStress \/ ExampleMain \/ WarmUp
  <2>1. /\ UNCHANGED <<command, exit, ask, effect>> /\ ppc \in {"start", "parsed", "warm"}
        /\ ppc' \in {"warm", "stress"}
    BY <1>11 DEF RunStress, ExampleMain, WarmUp
  <2> QED BY <1>0, <2>1 DEF CommandInv
<1>12. CASE WarmUpFails \/ Report
  <2>1. /\ UNCHANGED <<command, config, ask, effect>> /\ ppc' = "done" /\ ask = Nil
        /\ exit' \in {exitOK, exitRuntime}
    BY <1>12 DEF WarmUpFails, Report, CommandInv
  <2>2. ExitTells'
    BY <2>1 DEF ExitTells, exitOK, exitUsage, exitTimeout, exitRuntime
  <2> QED BY <2>1, <2>2 DEF CommandInv
<1>13. CASE Expire \/ DaemonDies \/ UNCHANGED vars
  BY <1>13, CommandSame DEF Expire, DaemonDies, vars
<1>14. ASSUME NEW w \in Workers,
              WorkerStep(w) \/ AcceptPush(w) \/ ServePop(w) \/ TimeoutPop(w) \/ RefuseCall(w)
       PROVE  CommandInv'
  <2>1. UNCHANGED cli
    BY <1>14 DEF WorkerStep, Dial, ExampleDial, LoopEnds, Call, CallFails, Pushed, Popped, ExampleError,
                 AcceptPush, ServePop, TimeoutPop, RefuseCall
  <2> QED BY <2>1, CommandSame
<1> QED
  BY <1>1, <1>2, <1>3, <1>4, <1>5, <1>6, <1>7, <1>8, <1>9, <1>10, <1>11, <1>12, <1>13, <1>14
  DEF Next, CLNext

LEMMA CommandInvariant == Spec => []CommandInv
<1> QED BY CommandInit, CommandStep, PTL DEF Spec

\* The exit code of push and pop tells the script that ran it what happened to
\* the message (runPush and runPop): 0 if it is queued or written out, 2 if the
\* pop took nothing before its deadline, 64 if no daemon was asked.
THEOREM ExitCodesTell == Spec => []ExitTells
<1> QED BY CommandInvariant, PTL DEF CommandInv

\* A --timeout reaches the daemon as a deadline that is at most a millisecond
\* early (parsePopArgs, Duration.Milliseconds, handleConn), for every duration
\* of a word.
THEOREM TimeoutsReachTheDaemon == Spec => []TimeoutKept
<1>1. CommandInv => TimeoutKept
  <2> SUFFICES ASSUME CommandInv, ppc = "call", ask.op = "pop"
               PROVE  LET d == config.timeout
                      IN  IF d >= Milli THEN Deadline(ask.timeoutMS) \in d - Milli + 1 .. d
                          ELSE Deadline(ask.timeoutMS) = 0
    BY DEF TimeoutKept
  <2> QED BY PopAsked DEF CommandInv
<1> QED BY <1>1, CommandInvariant, PTL

\* A daemon that push or pop starts (ensureDaemon) listens where its client
\* looks, whatever word the path is.
THEOREM DaemonsTakeThePath == Spec => []SpawnedOnSamePath
<1>1. CommandInv => SpawnedOnSamePath
  <2> SUFFICES ASSUME CommandInv, ppc = "call", ~EnvError(command.env),
                      ~CapTooSmall(ServeDefaults(command.env)["--max-queued-gbytes"])
               PROVE  LET d == parseServeArgs(<<<<"--socket">>, config.socket>>, command.env)
                      IN  ~d.err /\ d.socket = config.socket
    BY DEF SpawnedOnSamePath
  <2>1. config.socket \in Tokens
    <3>1. command \in Commands /\ Asking
      BY DEF CommandInv
    <3>2. CASE command.cmd = "pop"
      BY <3>1, <3>2, PopAsked DEF Asking
    <3>3. CASE command.cmd = "push"
      <4>1. config = parsePushArgs(command.args) /\ ~config.err /\ command.args \in Seq(Arguments)
        BY <3>1, <3>3, CommandLineAssumption DEF Asking, Parsed
      <4> QED BY <4>1, PushMeans
    <3> QED BY <3>1, <3>2, <3>3 DEF Asking
  <2> QED BY <2>1, SpawnMeans
<1> QED BY <1>1, CommandInvariant, PTL

\* Whatever the order and the spelling of the arguments of push, pop and serve,
\* the last occurrence of an option counts, and the names are the other words in
\* their order: the parsers of main.go, parsePopArgs with its two passes, take
\* nothing twice and skip nothing, for any number of arguments.
THEOREM ArgumentsAreTaken == Spec => []ArgumentsMean
<1>1. CommandInv => ArgumentsMean
  <2> SUFFICES ASSUME CommandInv, ppc \in {"call", "serve"}, PlainValues(Known)
               PROVE  ArgumentsMean
    BY DEF ArgumentsMean
  <2>1. command.args \in Seq(Arguments) /\ config = Parsed /\ ~config.err
        /\ command.cmd \in {"push", "pop", "serve"}
    BY CommandLineAssumption DEF CommandInv, Asking
  <2>2. PICK D : D = Known
    OBVIOUS
  <2>3. CASE command.cmd = "pop"
    <3>1. config = parsePopArgs(command.args)
      BY <2>1, <2>3 DEF Parsed
    <3>2. D = {"--socket"} \cup {"--timeout"}
      BY <2>2, <2>3 DEF Known
    <3>3. /\ config.socket = Setting("--socket", Default)
          /\ Len(config.channels) = Cardinality(NamesAt(D))
          /\ \A i \in NamesAt(D) : config.channels[Rank(NamesAt(D), i)] = command.args[i]
          /\ config.timeout = IF At("--timeout") = {} THEN 0
                              ELSE Durations[Setting("--timeout", Nil)]
      BY <2>1, <2>2, <2>3, <3>1, <3>2, PopArguments
    <3> QED BY <2>2, <2>3, <3>3 DEF ArgumentsMean, Rank
  <2>4. CASE command.cmd = "push"
    <3>1. config = parsePushArgs(command.args)
      BY <2>1, <2>4 DEF Parsed
    <3>2. D = {"--socket"}
      BY <2>2, <2>4 DEF Known
    <3>3. /\ config.socket = Setting("--socket", Default)
          /\ Cardinality(NamesAt(D)) = IF config.readStdin THEN 1 ELSE 2
          /\ config.channels = <<command.args[Min(NamesAt(D))]>>
      BY <2>1, <2>2, <2>4, <3>1, <3>2, PushArguments, Zenon
    <3> QED BY <2>2, <2>4, <3>3 DEF ArgumentsMean
  <2>5. CASE command.cmd = "serve"
    <3>1. config = parseServeArgs(command.args, command.env)
      BY <2>1, <2>5 DEF Parsed
    <3>2. D = {"--socket"} \cup {"--max-queued-gbytes"}
      BY <2>2, <2>5 DEF Known
    <3>3. /\ config.socket = Setting("--socket", Default)
          /\ NamesAt(D) = {}
          /\ config.gbytes = IF At("--max-queued-gbytes") # {}
                             THEN Numbers[Setting("--max-queued-gbytes", Nil)]
                             ELSE IF command.env = Nil THEN 4 ELSE Numbers[command.env]
      BY <2>1, <2>2, <2>5, <3>1, <3>2, ServeArguments
    <3> QED BY <2>2, <2>5, <3>3 DEF ArgumentsMean
  <2> QED BY <2>1, <2>3, <2>4, <2>5
<1> QED BY <1>1, CommandInvariant, PTL
=============================================================================
