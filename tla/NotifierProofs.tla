---------------------------- MODULE NotifierProofs ----------------------------
(***************************************************************************)
(* Machine-checked proofs about Notifier, for any number of goroutines,    *)
(* any interval and any course of the clock.                               *)
(***************************************************************************)
EXTENDS Notifier, TLAPS

Labels == {"idle", "load", "swap", "open", "notice"}

NotifierTypes ==
  /\ time \in Nat \ {0}
  /\ offset \in Nat
  /\ lastNs \in Int
  /\ pc \in [Threads -> Labels]
  /\ now \in [Threads -> Int]
  /\ prev \in [Threads -> Int]
  /\ called \in [Threads -> Nat]
  /\ won \in Nat

\* A callback that has come to the compare-and-swap read a clock that is
\* minInterval behind the value it is going to replace.
SwapsApart ==
  \A t \in Threads : pc[t] = "swap" => prev[t] = 0 \/ now[t] - prev[t] >= MinInterval

\* The real time of what the callbacks have seen, as long as the wall clock was
\* not set: a reading is the time of the call, lastNs is a time before it was
\* stored, and a value that is no longer the one a callback has loaded was
\* replaced after that callback began.
Punctual ==
  offset = 0 =>
    /\ lastNs # 0 => won # 0 /\ lastNs <= won
    /\ \A t \in Threads : pc[t] \in {"load", "swap"} =>
         /\ now[t] = called[t]
         /\ called[t] \in 1 .. time
         /\ pc[t] = "swap" /\ lastNs # prev[t] => won >= called[t]

Inv == NotifierTypes /\ SwapsApart /\ Punctual

LEMMA InitInv == Init => Inv
BY NotifierAssumption
DEF Init, Inv, NotifierTypes, SwapsApart, Punctual, Labels

\* Each step of a callback and of the clock keeps the invariant.
LEMMA StepInv == Inv /\ [Next]_vars => Inv'
<1> SUFFICES ASSUME Inv, [Next]_vars PROVE Inv'
  OBVIOUS
<1> USE NotifierAssumption DEF Inv, NotifierTypes, Labels
<1>1. CASE Tick
  BY <1>1 DEF Tick, SwapsApart, Punctual
<1>2. CASE StepBack
  BY <1>2 DEF StepBack, SwapsApart, Punctual
<1>3. ASSUME NEW t \in Threads, ReadClock(t) PROVE Inv'
  BY <1>3 DEF ReadClock, Goto, SwapsApart, Punctual
<1>4. ASSUME NEW t \in Threads, Load(t) PROVE Inv'
  BY <1>4 DEF Load, Recent, Goto, SwapsApart, Punctual
<1>5. ASSUME NEW t \in Threads, CompareAndSwap(t) PROVE Inv'
  <2>1. NotifierTypes' /\ SwapsApart'
    BY <1>5 DEF CompareAndSwap, Goto, SwapsApart
  <2>2. Punctual'
    BY <1>5 DEF CompareAndSwap, Goto, Punctual
  <2> QED BY <2>1, <2>2
<1>6. ASSUME NEW t \in Threads, Suppress(t) PROVE Inv'
  BY <1>6 DEF Suppress, LoadRecent, SwapFails, Goto, SwapsApart, Punctual
<1>7. ASSUME NEW t \in Threads, OpenWriter(t) \/ Notice(t) PROVE Inv'
  BY <1>7 DEF OpenWriter, Notice, Goto, SwapsApart, Punctual
<1>8. CASE UNCHANGED vars
  BY <1>8 DEF vars, SwapsApart, Punctual
<1> QED BY <1>1, <1>2, <1>3, <1>4, <1>5, <1>6, <1>7, <1>8 DEF Next

LEMMA Invariance == Spec => []Inv
BY InitInv, StepInv, PTL DEF Spec

\* Two notices that follow each other are minInterval apart by the clock
\* readings they were written with: the compare-and-swap succeeds only against
\* the value that the reading was compared with.
THEOREM NoticesAreApart == Spec => NoticesApart
<1>1. Inv /\ [Next]_vars =>
        [lastNs' # lastNs => lastNs = 0 \/ lastNs' - lastNs >= MinInterval]_vars
  <2> SUFFICES ASSUME Inv, Next, lastNs' # lastNs
               PROVE  lastNs = 0 \/ lastNs' - lastNs >= MinInterval
    OBVIOUS
  <2>1. PICK t \in Threads : CompareAndSwap(t)
    BY DEF Next, Tick, StepBack, ReadClock, Load, Suppress, LoadRecent, SwapFails,
           OpenWriter, Notice
  <2> QED BY <2>1 DEF CompareAndSwap, Inv, SwapsApart
<1> QED BY <1>1, Invariance, PTL DEF Spec, NoticesApart

\* A push whose callback stays silent, because lastNs is recent or because it
\* lost the compare-and-swap, blocked less than minInterval after the last win
\* or before it: no blocked push is left without a notice for longer.
THEOREM SilenceFollowsANotice == Spec => SilentAfterNotice
<1>1. Inv /\ [Next]_vars =>
        [\A t \in Threads : Suppress(t) /\ offset = 0 =>
           won # 0 /\ called[t] - won < MinInterval]_vars
  <2> SUFFICES ASSUME Inv, NEW t \in Threads, Suppress(t), offset = 0
               PROVE  won # 0 /\ called[t] - won < MinInterval
    OBVIOUS
  <2> USE NotifierAssumption DEF Inv, NotifierTypes, Punctual
  <2>1. CASE LoadRecent(t)
    BY <2>1 DEF LoadRecent, Recent
  <2>2. CASE SwapFails(t)
    BY <2>2 DEF SwapFails
  <2> QED BY <2>1, <2>2 DEF Suppress
<1> QED BY <1>1, Invariance, PTL DEF Spec, SilentAfterNotice
=============================================================================
