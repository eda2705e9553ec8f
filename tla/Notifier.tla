------------------------------ MODULE Notifier -------------------------------
(***************************************************************************)
(* newBlockNotifier in main.go: the callback that every push runs when it  *)
(* blocks.  It writes a syslog notice unless one was written in the last   *)
(* minInterval, and it is called by many goroutines at once.  It measures  *)
(* with time.Now().UnixNano(), which is the wall clock.                    *)
(***************************************************************************)
EXTENDS Integers

CONSTANTS
  Threads,       \* goroutines of blocked pushes
  MinInterval,   \* minInterval
  MaxTime,       \* bound: the time at which the model stops
  MaxStepBack    \* by how much the wall clock may be set back, once

ASSUME NotifierAssumption ==
  /\ MinInterval \in Nat \ {0}
  /\ MaxTime \in Nat \ {0}
  /\ MaxStepBack \in Nat

VARIABLES
  time,       \* the time that has really passed
  offset,     \* how far the wall clock is behind
  lastNs,
  writerSet,
  writer,     \* whether the syslog connection is there
  pc,
  now,        \* now[t], prev[t]: the locals of the callback
  prev,
  called,     \* called[t]: the time at which the callback of t began
  won         \* when lastNs was last replaced, 0 if never

vars == <<time, offset, lastNs, writerSet, writer, pc, now, prev, called, won>>

Init ==
  /\ time = MaxStepBack + 1
  /\ offset = 0
  /\ lastNs = 0
  /\ writerSet = FALSE
  /\ writer = FALSE
  /\ pc = [t \in Threads |-> "idle"]
  /\ now = [t \in Threads |-> 0]
  /\ prev = [t \in Threads |-> 0]
  /\ called = [t \in Threads |-> 0]
  /\ won = 0

Goto(t, label) == pc' = [pc EXCEPT ![t] = label]

-----------------------------------------------------------------------------
(* The clock                                                               *)

Tick ==
  /\ time < MaxTime
  /\ time' = time + 1
  /\ UNCHANGED <<offset, lastNs, writerSet, writer, pc, now, prev, called, won>>

StepBack ==
  /\ offset = 0
  /\ offset' \in 1..MaxStepBack
  /\ UNCHANGED <<time, lastNs, writerSet, writer, pc, now, prev, called, won>>

-----------------------------------------------------------------------------
(* The callback                                                            *)

ReadClock(t) ==
  /\ pc[t] = "idle"
  /\ now' = [now EXCEPT ![t] = time - offset]
  /\ called' = [called EXCEPT ![t] = time]
  /\ Goto(t, "load")
  /\ UNCHANGED <<time, offset, lastNs, writerSet, writer, prev, won>>

\* Mutant: a notice that is exactly the interval old still counts.
RecentInclusive(t) == lastNs # 0 /\ now[t] - lastNs <= MinInterval

Recent(t) == lastNs # 0 /\ now[t] - lastNs < MinInterval

Load(t) ==
  /\ pc[t] = "load"
  /\ ~Recent(t)
  /\ prev' = [prev EXCEPT ![t] = lastNs]
  /\ Goto(t, "swap")
  /\ UNCHANGED <<time, offset, lastNs, writerSet, writer, now, called, won>>

LoadRecent(t) ==
  /\ pc[t] = "load"
  /\ Recent(t)
  /\ prev' = [prev EXCEPT ![t] = lastNs]
  /\ Goto(t, "idle")
  /\ UNCHANGED <<time, offset, lastNs, writerSet, writer, now, called, won>>

\* Mutant: lastNs is stored without a comparison.
StoreAnyway(t) ==
  /\ pc[t] = "swap"
  /\ lastNs' = now[t]
  /\ won' = time
  /\ Goto(t, "open")
  /\ UNCHANGED <<time, offset, writerSet, writer, now, prev, called>>

CompareAndSwap(t) ==
  /\ pc[t] = "swap"
  /\ lastNs = prev[t]
  /\ lastNs' = now[t]
  /\ won' = time
  /\ Goto(t, "open")
  /\ UNCHANGED <<time, offset, writerSet, writer, now, prev, called>>

SwapFails(t) ==
  /\ pc[t] = "swap"
  /\ lastNs # prev[t]
  /\ Goto(t, "idle")
  /\ UNCHANGED <<time, offset, lastNs, writerSet, writer, now, prev, called, won>>

\* Under writerMu: syslog.New is tried once, whether it succeeds or not.
OpenWriter(t) ==
  /\ pc[t] = "open"
  /\ IF writerSet THEN UNCHANGED writer ELSE writer' \in BOOLEAN
  /\ writerSet' = TRUE
  /\ Goto(t, IF writer' THEN "notice" ELSE "idle")
  /\ UNCHANGED <<time, offset, lastNs, now, prev, called, won>>

Notice(t) ==
  /\ pc[t] = "notice"
  /\ Goto(t, "idle")
  /\ UNCHANGED <<time, offset, lastNs, writerSet, writer, now, prev, called, won>>

Suppress(t) == LoadRecent(t) \/ SwapFails(t)

Next ==
  \/ Tick \/ StepBack
  \/ \E t \in Threads :
       \/ ReadClock(t) \/ Load(t) \/ CompareAndSwap(t) \/ Suppress(t)
       \/ OpenWriter(t) \/ Notice(t)

Spec == Init /\ [][Next]_vars

-----------------------------------------------------------------------------
\* The notices are minInterval apart by the clock readings of the pushes that
\* write them, although the readings are taken before the loads and any number
\* of pushes may be between load and swap.
NoticesApart ==
  [][lastNs' # lastNs => lastNs = 0 \/ lastNs' - lastNs >= MinInterval]_vars

\* As long as the wall clock is not set, a push that blocks is silent only if
\* another one got to write a notice less than minInterval before it blocked, or
\* while its own callback ran.
SilentAfterNotice ==
  [][\A t \in Threads : Suppress(t) /\ offset = 0 =>
       won # 0 /\ called[t] - won < MinInterval]_vars
=============================================================================
