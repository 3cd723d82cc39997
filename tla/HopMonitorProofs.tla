-------------------------- MODULE HopMonitorProofs --------------------------
(***************************************************************************)
(* A ready report rests on recent observations of the hops, for every      *)
(* number of hops, probe time, interval and age bound.                     *)
(***************************************************************************)
EXTENDS HopMonitor, ReadinessProofs

\* The constants are natural numbers, and the hops are the indices of the chain.
LEMMA ConstantTypes ==
  /\ NumHops \in Nat /\ NumHops >= 1 /\ Hops = 0..NumHops - 1
  /\ ProbeMax \in Nat /\ Interval \in Nat /\ StaleAfter \in Nat
  BY HopMonitorAssumption, ReadinessAssumption

\* One second more, counted up to the bound, is an age again.
LEMMA ClockType ==
  ASSUME NEW t \in Seconds \union {Never}
  PROVE  /\ Older(t) \in Seconds \union {Never}
         /\ t \in Seconds => Older(t) \in Seconds
  BY ConstantTypes DEF Seconds, Older, Never

\* Time does not change which of two clocks is ahead.
LEMMA ClockMonotone ==
  ASSUME NEW s \in Seconds, NEW t \in Seconds, s <= t
  PROVE  Older(s) <= Older(t)
  BY ConstantTypes DEF Seconds, Older, Never

\* Every step keeps the type invariant.
LEMMA TypeStep == TypeOK /\ [Next]_vars => TypeOK'
<1> SUFFICES ASSUME TypeOK, [Next]_vars
             PROVE  TypeOK'
  OBVIOUS
<1> USE DEF TypeOK
<1>1. CASE BeginRound
  BY <1>1, ConstantTypes DEF BeginRound, NobodyOk, AllHopVerdicts, Seconds
<1>2. ASSUME NEW ok \in BOOLEAN, ProbeDone(ok)
      PROVE  TypeOK'
  <2>1. found' \in AllHopVerdicts
    BY <1>2 DEF ProbeDone, AllHopVerdicts
  <2>2. next' \in 0..NumHops /\ elapsed' \in 0..limit'
    BY <1>2, ConstantTypes DEF ProbeDone
  <2> QED
    BY <1>2, <2>1, <2>2 DEF ProbeDone
<1>3. CASE Publish
  BY <1>3, ConstantTypes DEF Publish, HopResults
<1>4. CASE Wake
  BY <1>4, ConstantTypes DEF Wake
<1>5. CASE Tick
  <2>1. elapsed' \in 0..limit' /\ slept' \in 0..Interval
    BY <1>5, ConstantTypes DEF Tick
  <2>2. probeAge' \in Seconds /\ age' \in Seconds \union {Never}
    BY <1>5, ClockType DEF Tick
  <2>3. sinceUp' \in [Hops -> Seconds]
    <3>1. 0 \in Seconds
      BY ConstantTypes DEF Seconds
    <3> QED
      BY <1>5, <3>1, ClockType DEF Tick
  <2> QED
    BY <1>5, <2>1, <2>2, <2>3 DEF Tick
<1>6. ASSUME NEW h \in Hops, HopChanges(h)
      PROVE  TypeOK'
  <2>1. up' \in AllHopVerdicts
    BY <1>6 DEF HopChanges, AllHopVerdicts
  <2>2. sinceUp' \in [Hops -> Seconds]
    BY <1>6, ConstantTypes DEF HopChanges, Seconds
  <2> QED
    BY <1>6, <2>1, <2>2 DEF HopChanges, loopVars
<1>7. CASE UNCHANGED vars
  BY <1>7 DEF vars, loopVars
<1> HIDE DEF TypeOK
<1> QED
  BY <1>1, <1>2, <1>3, <1>4, <1>5, <1>6, <1>7 DEF Next, Loop

\* Every variable of the monitor keeps its type.
THEOREM TypeCorrect == Spec => []TypeOK
<1>1. Init => TypeOK
  <2> SUFFICES ASSUME Init
               PROVE  TypeOK
    OBVIOUS
  <2>1. sinceUp \in [Hops -> Seconds]
    BY ConstantTypes DEF Init, Seconds
  <2>2. limit \in 0..ProbeMax /\ elapsed \in 0..limit /\ next \in 0..NumHops
        /\ slept \in 0..Interval /\ probeAge \in Seconds
    BY ConstantTypes DEF Init, Seconds
  <2> QED
    BY <2>1, <2>2 DEF Init, TypeOK, NobodyOk, AllHopVerdicts, HopResults
<1> QED
  BY <1>1, TypeStep, PTL DEF Spec

\* A hop found ok answered after the round began, and a hop published as ok
\* answered after the time the publication is dated.
ObservationInv ==
  /\ \A h \in Hops : up[h] => sinceUp[h] = 0
  /\ pc = "probe" => \A h \in Hops : found[h] => sinceUp[h] <= probeAge
  /\ \A h \in DOMAIN hops : hops[h] => age # Never /\ sinceUp[h] <= age

\* Every step keeps the dating of observations.
LEMMA ObservationStep == TypeOK /\ ObservationInv /\ [Next]_vars => ObservationInv'
<1> SUFFICES ASSUME TypeOK, ObservationInv, [Next]_vars
             PROVE  ObservationInv'
  OBVIOUS
<1>0. DOMAIN hops \subseteq Hops /\ DOMAIN hops' \subseteq Hops
  <2>1. TypeOK'
    BY TypeStep
  <2> QED
    BY <2>1 DEF TypeOK, HopResults, AllHopVerdicts, NoHops
<1>1. CASE BeginRound
  BY <1>1 DEF BeginRound, ObservationInv, NobodyOk
<1>2. ASSUME NEW ok \in BOOLEAN, ProbeDone(ok)
      PROVE  ObservationInv'
  <2>1. ASSUME NEW h \in Hops, found'[h]
        PROVE  sinceUp'[h] <= probeAge'
    <3>1. CASE h = next
      <4>1. up[h]
        BY <1>2, <2>1, <3>1 DEF ProbeDone, TypeOK, AllHopVerdicts
      <4> QED
        <5>1. sinceUp'[h] = 0 /\ probeAge' = probeAge
          BY <1>2, <3>1, <4>1 DEF ProbeDone, ObservationInv
        <5> QED
          BY <5>1, ConstantTypes DEF TypeOK, Seconds
    <3>2. CASE h # next
      BY <1>2, <2>1, <3>2 DEF ProbeDone, TypeOK, AllHopVerdicts, ObservationInv
    <3> QED
      BY <3>1, <3>2
  <2> QED
    BY <1>2, <2>1 DEF ProbeDone, ObservationInv
<1>3. CASE Publish
  BY <1>3, ConstantTypes DEF Publish, ObservationInv, TypeOK, AllHopVerdicts, Seconds, Never
<1>4. CASE Wake
  BY <1>4 DEF Wake, ObservationInv
<1>5. CASE Tick
  <2>1. ASSUME NEW h \in Hops, NEW t \in Seconds, sinceUp[h] <= t
        PROVE  sinceUp'[h] <= Older(t)
    <3>1. Older(t) >= 0
      BY ClockType, ConstantTypes DEF Seconds, Older, Never
    <3>2. sinceUp[h] \in Seconds
      BY DEF TypeOK
    <3>3. Older(sinceUp[h]) <= Older(t)
      BY <2>1, <3>2, ClockMonotone
    <3> QED
      BY <1>5, <3>1, <3>3 DEF Tick
  <2>2. age # Never => age \in Seconds /\ age' # Never
    BY <1>5, ConstantTypes DEF Tick, TypeOK, Older, Seconds, Never
  <2> QED
    BY <1>0, <1>5, <2>1, <2>2 DEF Tick, TypeOK, ObservationInv
<1>6. ASSUME NEW g \in Hops, HopChanges(g)
      PROVE  ObservationInv'
  <2>1. ASSUME NEW h \in Hops, NEW t \in Seconds, sinceUp[h] <= t
        PROVE  sinceUp'[h] <= t
    BY <1>6, <2>1, ConstantTypes DEF HopChanges, TypeOK, Seconds
  <2>2. age # Never => age \in Seconds
    BY DEF TypeOK
  <2> QED
    BY <1>0, <1>6, <2>1, <2>2 DEF HopChanges, loopVars, TypeOK, ObservationInv
<1>7. CASE UNCHANGED vars
  BY <1>7 DEF vars, loopVars, ObservationInv
<1> QED
  BY <1>1, <1>2, <1>3, <1>4, <1>5, <1>6, <1>7 DEF Next, Loop

\* For every number of hops and every period: a hop published as healthy
\* has been down no longer than its report is old, as a probe saw it up and later publishing dates it.
THEOREM ObservationsDated == Spec => []ObservationInv
<1>1. Init => ObservationInv
  BY DEF Init, ObservationInv, NoHops
<1> QED
  BY <1>1, ObservationStep, TypeCorrect, PTL DEF Spec

\* What /ready says of the hops is at most StaleAfter seconds old: for a strict
\* report every hop, for a relaxed one some hop, answered within the age bound.
THEOREM ReadyHonest == Spec => []ReadyIsHonest
<1>1. TypeOK /\ ObservationInv => ReadyIsHonest
  <2> SUFFICES ASSUME TypeOK, ObservationInv, Ready(Snapshot)
               PROVE  IF RequireAllHops THEN \A h \in Hops : sinceUp[h] <= StaleAfter
                                        ELSE \E h \in Hops : sinceUp[h] <= StaleAfter
    BY DEF ReadyIsHonest
  <2>1. Snapshot \in Snapshots
    BY DEF Snapshot, Snapshots, TypeOK, Seconds
  <2>2. GateOpen(Snapshot)
    BY <2>1, ReadyIffGate DEF AgreesWithGate
  <2>3. age <= StaleAfter /\ age \in Int
    BY <2>2, ConstantTypes DEF GateOpen, Snapshot, TypeOK, Seconds, Never
  <2>4. ASSUME NEW h \in Hops, h \in DOMAIN hops, hops[h]
        PROVE  sinceUp[h] <= StaleAfter
    BY <2>3, <2>4, ConstantTypes DEF ObservationInv, TypeOK, Seconds
  <2> QED
    BY <2>2, <2>4 DEF GateOpen, Snapshot
<1> QED
  BY <1>1, TypeCorrect, ObservationsDated, PTL
-----------------------------------------------------------------------------
(***************************************************************************)
(* How old published results can be: their round, the sleep after it, and  *)
(* what the next round has taken so far.                                   *)
(***************************************************************************)
Spent == next * limit + elapsed   \* at most, in the round under way

AgeInv ==
  /\ next = NumHops => elapsed = 0
  /\ pc = "probe" => probeAge <= Spent
  /\ pc = "check" /\ age # Never => age <= Round + Interval
  /\ pc = "probe" /\ age # Never => age <= Round + Interval + Spent
  /\ pc = "sleep" /\ age # Never => age <= Round + slept

\* A round takes no longer than all its probes.
LEMMA RoundBounds ==
  ASSUME TypeOK, AgeInv
  PROVE  Spent \in Nat /\ Round \in Nat /\ Spent <= Round
<1>1. limit \in Nat /\ next \in Nat /\ next <= NumHops /\ NumHops \in Nat /\ elapsed \in Nat
      /\ elapsed <= limit
  BY ConstantTypes DEF TypeOK
<1>2. CASE next = NumHops
  BY <1>1, <1>2 DEF AgeInv, Spent, Round
<1>3. CASE next < NumHops
  <2>1. PICK k \in Nat : NumHops = next + 1 + k
    <3>1. NumHops - next - 1 \in Nat /\ NumHops = next + 1 + (NumHops - next - 1)
      BY <1>1, <1>3
    <3> QED
      BY <3>1
  <2>2. NumHops * limit = next * limit + limit + k * limit
    BY <1>1, <2>1
  <2>3. k * limit \in Nat /\ next * limit \in Nat
    BY <1>1
  <2> QED
    BY <1>1, <2>2, <2>3 DEF Spent, Round
<1> QED
  BY <1>1, <1>2, <1>3

\* Every step keeps the bounds on the ages.
LEMMA AgeStep == TypeOK /\ AgeInv /\ [Next]_vars => AgeInv'
<1> SUFFICES ASSUME TypeOK, AgeInv, [Next]_vars
             PROVE  AgeInv'
  OBVIOUS
<1>0. /\ limit \in Nat /\ next \in Nat /\ elapsed \in Nat /\ slept \in Nat /\ probeAge \in Nat
      /\ (age # Never => age \in Nat) /\ NumHops \in Nat /\ NumHops >= 1 /\ Interval \in Nat
      /\ slept <= Interval
  BY ConstantTypes DEF TypeOK, Seconds
<1>1. Spent \in Nat /\ Round \in Nat /\ Spent <= Round
  BY RoundBounds
<1>2. limit' = limit /\ Round' = Round
  BY DEF Next, Loop, BeginRound, ProbeDone, Publish, Wake, Tick, HopChanges, vars, loopVars, Round
<1>3. CASE BeginRound
  <2>1. Spent' = 0 /\ next' = 0 /\ 0 # NumHops
    BY <1>0, <1>2, <1>3 DEF BeginRound, Spent
  <2> QED
    BY <1>0, <1>1, <1>2, <1>3, <2>1 DEF BeginRound, AgeInv
<1>4. ASSUME NEW ok \in BOOLEAN, ProbeDone(ok)
      PROVE  AgeInv'
  <2>1. next' = next + 1 /\ elapsed' = 0 /\ elapsed <= limit
    BY <1>4 DEF ProbeDone, TypeOK
  <2>2. Spent' = next * limit + limit
    BY <1>0, <1>2, <2>1 DEF Spent
  <2>3. Spent <= Spent' /\ Spent' \in Nat
    BY <1>0, <2>1, <2>2 DEF Spent
  <2> QED
    BY <1>0, <1>1, <1>2, <1>4, <2>1, <2>3 DEF ProbeDone, AgeInv
<1>5. CASE Publish
  <2>1. Spent = Round
    BY <1>0, <1>5 DEF Publish, AgeInv, Spent, Round
  <2> QED
    BY <1>0, <1>1, <1>2, <1>5, <2>1 DEF Publish, AgeInv
<1>6. CASE Wake
  BY <1>0, <1>1, <1>2, <1>6 DEF Wake, AgeInv
<1>7. CASE Tick
  <2>1. \A t \in Nat : Older(t) \in Nat /\ Older(t) <= t + 1
    BY ConstantTypes DEF Older, Never
  <2>2. age # Never => age' <= age + 1
    BY <1>0, <1>7, <2>1 DEF Tick
  <2>3. age = Never => age' = Never
    BY <1>7 DEF Tick, Older
  <2>4. probeAge' <= probeAge + 1 /\ probeAge' \in Nat /\ (age # Never => age' \in Nat)
    BY <1>0, <1>7, <2>1 DEF Tick
  <2>5. CASE pc = "probe"
    <3>1. elapsed' = elapsed + 1 /\ next' = next /\ next < NumHops /\ pc' = pc
      BY <1>7, <2>5 DEF Tick
    <3>2. Spent' = Spent + 1
      <4>1. next * limit \in Nat
        BY <1>0
      <4> QED
        BY <1>0, <1>2, <3>1, <4>1 DEF Spent
    <3> QED
      BY <1>0, <1>1, <1>2, <2>2, <2>3, <2>4, <2>5, <3>1, <3>2 DEF AgeInv
  <2>6. CASE pc = "sleep"
    BY <1>0, <1>1, <1>2, <1>7, <2>2, <2>3, <2>4, <2>6 DEF Tick, AgeInv
  <2> QED
    BY <1>7, <2>5, <2>6 DEF Tick
<1>8. CASE (\E h \in Hops : HopChanges(h)) \/ UNCHANGED vars
  <2>1. UNCHANGED <<limit, loopVars, age>>
    BY <1>8 DEF HopChanges, vars
  <2> QED
    BY <2>1 DEF AgeInv, loopVars, Spent, Round
<1> QED
  BY <1>3, <1>4, <1>5, <1>6, <1>7, <1>8 DEF Next, Loop

\* What is published is never older than one horizon.
LEMMA AgeWithinHorizon ==
  ASSUME TypeOK, AgeInv, age # Never
  PROVE  age <= Horizon /\ Horizon \in Nat
<1>1. Spent \in Nat /\ Round \in Nat /\ Spent <= Round
  BY RoundBounds
<1>2. age \in Nat /\ slept \in Nat /\ slept <= Interval /\ Interval \in Nat /\ pc \in {"check", "probe", "sleep"}
  BY ConstantTypes DEF TypeOK, Seconds
<1> QED
  BY <1>1, <1>2 DEF AgeInv, Horizon

\* The bounds on the ages hold of every reachable state.
LEMMA AgesBounded == Spec => []AgeInv
<1>1. Init => AgeInv
  BY ConstantTypes DEF Init, AgeInv
<1> QED
  BY <1>1, AgeStep, TypeCorrect, PTL DEF Spec

\* Published data never go stale when one horizon fits in the age bound, for every number
\* of hops, probe time and interval.
THEOREM PublishedStaysFresh == Spec => []NeverStale
<1>1. TypeOK /\ AgeInv => NeverStale
  BY AgeWithinHorizon, ConstantTypes DEF NeverStale, Published, Snapshot, TypeOK, Seconds
<1> QED
  BY <1>1, AgesBounded, TypeCorrect, PTL

\* A hop that stays down shuts a strict report within one horizon.
THEOREM DownHopShutsReport == Spec => []DownHopNoticed
<1>1. TypeOK /\ AgeInv /\ ObservationInv => DownHopNoticed
  <2> SUFFICES ASSUME TypeOK, AgeInv, ObservationInv, Ready(Snapshot), RequireAllHops, NEW h \in Hops
               PROVE  sinceUp[h] <= Horizon
    BY DEF DownHopNoticed
  <2>0. Snapshot \in Snapshots
    BY DEF Snapshot, Snapshots, TypeOK, Seconds
  <2>1. GateOpen(Snapshot)
    BY <2>0, ReadyIffGate DEF AgreesWithGate
  <2>2. h \in DOMAIN hops /\ hops[h]
    BY <2>1 DEF GateOpen, Snapshot
  <2>3. age # Never /\ sinceUp[h] <= age
    BY <2>2 DEF ObservationInv
  <2> QED
    BY <2>3, AgeWithinHorizon, ConstantTypes DEF TypeOK, Seconds
<1> QED
  BY <1>1, AgesBounded, ObservationsDated, TypeCorrect, PTL
=============================================================================
