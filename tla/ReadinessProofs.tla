-------------------------- MODULE ReadinessProofs --------------------------
(***************************************************************************)
(* What the readiness report and the startup gate say of the same          *)
(* snapshot, for every set of hops, mode and age bound.                    *)
(***************************************************************************)
EXTENDS Readiness, FiniteSetTheorems, TLAPS

\* A published result names every configured hop, and only those.
LEMMA HopDomain ==
  ASSUME NEW r \in HopResults
  PROVE  r = NoHops \/ DOMAIN r = Hops
  BY DEF HopResults, AllHopVerdicts

\* The count of observed hops is below the configured one exactly before the
\* first publication.
LEMMA HopCount ==
  ASSUME NEW r \in HopResults
  PROVE  /\ Cardinality(DOMAIN r) >= Cardinality(Hops) <=> DOMAIN r = Hops
         /\ Cardinality(DOMAIN r) < Cardinality(Hops) <=> DOMAIN r # Hops
         /\ DOMAIN r = {} <=> DOMAIN r # Hops
<1>1. Cardinality(Hops) \in Nat /\ Cardinality(Hops) # 0
  BY ReadinessAssumption, FS_CardinalityType, FS_EmptySet
<1>2. CASE r = NoHops
  <2>1. DOMAIN r = {}
    BY <1>2 DEF NoHops
  <2>2. Cardinality(DOMAIN r) = 0
    BY <2>1, FS_EmptySet
  <2>3. DOMAIN r # Hops
    BY <2>1, ReadinessAssumption
  <2> QED
    BY <1>1, <2>1, <2>2, <2>3
<1>3. CASE DOMAIN r = Hops
  BY <1>1, <1>3, ReadinessAssumption
<1> QED
  BY <1>2, <1>3, HopDomain

\* The reasons of the report, spelled out one by one.
LEMMA NoReasons ==
  ASSUME NEW s \in Snapshots
  PROVE  /\ ProcessReasons(s) = {} <=>
              s.pproxy = "running" /\ (LaunchFunkydns => s.funkydns = "running")
         /\ HopDataReasons(s) = {} <=>
              DOMAIN s.hops = Hops /\ Published(s) /\ s.age <= StaleAfter
<1>1. s.hops \in HopResults /\ s.age \in Int /\ StaleAfter \in Int
  BY ReadinessAssumption DEF Snapshots, Never
<1>2. ProcessReasons(s) = {} <=>
        s.pproxy = "running" /\ (LaunchFunkydns => s.funkydns = "running")
  BY DEF ProcessReasons
<1>3. HopDataReasons(s) = {} <=>
        /\ DOMAIN s.hops # {}
        /\ Published(s)
        /\ ~(Published(s) /\ s.age > StaleAfter)
        /\ ~(Cardinality(DOMAIN s.hops) < Cardinality(Hops))
  BY DEF HopDataReasons
<1>4. /\ DOMAIN s.hops = {} <=> DOMAIN s.hops # Hops
      /\ Cardinality(DOMAIN s.hops) < Cardinality(Hops) <=> DOMAIN s.hops # Hops
  BY <1>1, HopCount
<1>5. s.age > StaleAfter <=> ~(s.age <= StaleAfter)
  BY <1>1
<1> QED
  BY <1>2, <1>3, <1>4, <1>5

\* /ready says yes exactly when the startup gate would open and a pproxy runs
\* (compute_readiness against compute_startup_gate).
THEOREM ReadyIffGate ==
  ASSUME NEW s \in Snapshots
  PROVE  AgreesWithGate(s)
<1>1. s.hops \in HopResults
  BY DEF Snapshots
<1>2. Cardinality(DOMAIN s.hops) >= Cardinality(Hops) <=> DOMAIN s.hops = Hops
  BY <1>1, HopCount
<1>3. DOMAIN s.hops = Hops => s.hops \in [Hops -> BOOLEAN]
  <2>1. Hops # {}
    BY ReadinessAssumption
  <2> QED
    BY <1>1, <2>1 DEF HopResults, AllHopVerdicts, NoHops
<1>4. CASE RequireAllHops
  <2>1. Ready(s) <=> /\ ProcessReasons(s) = {} /\ HopDataReasons(s) = {}
                     /\ Healthy(s) = DOMAIN s.hops
    BY <1>4 DEF Ready, Reasons, StrictReasons
  <2>2. DOMAIN s.hops = Hops =>
          (Healthy(s) = DOMAIN s.hops <=> \A h \in Hops : h \in DOMAIN s.hops /\ s.hops[h])
    BY <1>3 DEF Healthy
  <2> QED
    BY <1>2, <1>4, <2>1, <2>2, NoReasons DEF AgreesWithGate, GateOpen
<1>5. CASE ~RequireAllHops
  <2>1. Ready(s) <=> /\ ProcessReasons(s) = {} /\ HopDataReasons(s) = {}
                     /\ ~(DOMAIN s.hops # {} /\ Healthy(s) = {})
    BY <1>5 DEF Ready, Reasons, RelaxedReasons
  <2>2. DOMAIN s.hops = Hops =>
          (Healthy(s) # {} <=> \E h \in Hops : h \in DOMAIN s.hops /\ s.hops[h])
    BY <1>3 DEF Healthy
  <2>3. Hops # {}
    BY ReadinessAssumption
  <2> QED
    BY <1>2, <1>5, <2>1, <2>2, <2>3, NoReasons DEF AgreesWithGate, GateOpen
<1> QED
  BY <1>4, <1>5

\* A snapshot that the strict report accepts is accepted by the relaxed one
\* (build_readiness_report against _compute_relaxed_readiness).
THEOREM StrictIsStronger ==
  ASSUME NEW s \in Snapshots
  PROVE  RelaxedIsWeaker(s)
  BY DEF RelaxedIsWeaker, StrictReasons, RelaxedReasons
=============================================================================
