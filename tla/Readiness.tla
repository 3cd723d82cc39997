----------------------------- MODULE Readiness -----------------------------
(***************************************************************************)
(* The two verdicts egressd derives from a snapshot of its shared state:   *)
(* the readiness report served at /ready (supervisor_readiness.py and      *)
(* readiness.py), and the startup gate the main thread polls before it     *)
(* spawns pproxy.  The two are written separately in the code; this module *)
(* keeps them separate, and ReadinessProofs relates them.                  *)
(*                                                                         *)
(* A snapshot is a record                                                  *)
(*   pproxy    "down", "starting", "running" or "error"                    *)
(*   funkydns  "disabled", "down" or "running"                             *)
(*   hops      the last published verdict of each hop, NoHops before any   *)
(*   age       now - hops_last_update in seconds, Never while it is None   *)
(*   ready     the cached flag (not read by either verdict)                *)
(***************************************************************************)
EXTENDS Integers, FiniteSets

CONSTANTS
  Hops,            \* the configured hops (chain.hops), by index
  RequireAllHops,  \* supervisor.require_all_hops_healthy
  LaunchFunkydns,  \* dns.launch_funkydns
  StaleAfter       \* supervisor.max_hop_status_age_s, in seconds

\* Preflight rejects an empty chain; it does not look at the age bound.
ASSUME ReadinessAssumption ==
  /\ IsFiniteSet(Hops) /\ Hops # {}
  /\ RequireAllHops \in BOOLEAN
  /\ LaunchFunkydns \in BOOLEAN
  /\ StaleAfter \in Nat

Never == -1
NoHops == [h \in {} |-> FALSE]
AllHopVerdicts == [Hops -> BOOLEAN]

\* A published result always has an entry for every configured hop.
HopResults == {NoHops} \union AllHopVerdicts

Snapshots ==
  [pproxy: {"down", "starting", "running", "error"},
   funkydns: {"disabled", "down", "running"},
   hops: HopResults,
   age: {Never} \union (0..StaleAfter + 1),
   ready: BOOLEAN]

\* set_hop_statuses writes both fields under one lock.
Published(s) == s.age # Never

\* reset_state: what the supervisor starts from.
InitialState ==
  [pproxy |-> "down",
   funkydns |-> IF LaunchFunkydns THEN "down" ELSE "disabled",
   hops |-> NoHops,
   age |-> Never,
   ready |-> FALSE]
-----------------------------------------------------------------------------
Healthy(s) == {h \in DOMAIN s.hops : s.hops[h]}

ProcessReasons(s) ==
  {r \in {"pproxy_not_running", "funkydns_not_running"} :
     \/ r = "pproxy_not_running" /\ s.pproxy # "running"
     \/ r = "funkydns_not_running" /\ LaunchFunkydns /\ s.funkydns # "running"}

\* Mutant: a report that forgets how old the hop data are.
HopDataReasonsAnyAge(s) ==
  {r \in {"hop_checks_missing", "hop_checks_never_ran", "hop_checks_incomplete"} :
     \/ r = "hop_checks_missing" /\ DOMAIN s.hops = {}
     \/ r = "hop_checks_never_ran" /\ ~Published(s)
     \/ /\ r = "hop_checks_incomplete"
        /\ Cardinality(DOMAIN s.hops) < Cardinality(Hops)}

HopDataReasons(s) ==
  {r \in {"hop_checks_missing", "hop_checks_never_ran", "hop_checks_stale",
          "hop_checks_incomplete"} :
     \/ r = "hop_checks_missing" /\ DOMAIN s.hops = {}
     \/ r = "hop_checks_never_ran" /\ ~Published(s)
     \/ r = "hop_checks_stale" /\ Published(s) /\ s.age > StaleAfter
     \/ /\ r = "hop_checks_incomplete"
        /\ Cardinality(DOMAIN s.hops) < Cardinality(Hops)}

\* Mutant: strict mode that forgets the processes.
StrictReasonsHopsOnly(s) ==
  HopDataReasons(s) \union {r \in {"hop_down"} : Healthy(s) # DOMAIN s.hops}

\* Strict mode: one "hop_i_down" reason per failing hop.
StrictReasons(s) ==
  ProcessReasons(s) \union HopDataReasons(s)
    \union {r \in {"hop_down"} : Healthy(s) # DOMAIN s.hops}

\* Relaxed mode: one healthy hop is enough.
RelaxedReasons(s) ==
  ProcessReasons(s) \union HopDataReasons(s)
    \union {r \in {"all_hops_unhealthy"} : DOMAIN s.hops # {} /\ Healthy(s) = {}}

\* compute_readiness.
Reasons(s) == IF RequireAllHops THEN StrictReasons(s) ELSE RelaxedReasons(s)
Ready(s) == Reasons(s) = {}

\* compute_startup_gate: the same facts without pproxy, tested in its own order.
GateOpen(s) ==
  /\ LaunchFunkydns => s.funkydns = "running"
  /\ Published(s)
  /\ s.age <= StaleAfter
  /\ Cardinality(DOMAIN s.hops) >= Cardinality(Hops)
  /\ IF RequireAllHops THEN \A h \in Hops : h \in DOMAIN s.hops /\ s.hops[h]
                       ELSE \E h \in Hops : h \in DOMAIN s.hops /\ s.hops[h]
-----------------------------------------------------------------------------
\* /ready says yes exactly when the gate would let a pproxy start and one runs:
\* the two computations never disagree on what a usable chain is.
AgreesWithGate(s) == Ready(s) <=> GateOpen(s) /\ s.pproxy = "running"

\* Turning require_all_hops_healthy off never makes a ready chain unready.
RelaxedIsWeaker(s) == StrictReasons(s) = {} => RelaxedReasons(s) = {}
=============================================================================
