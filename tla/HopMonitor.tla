----------------------------- MODULE HopMonitor -----------------------------
(***************************************************************************)
(* The timing of hop_health_loop and collect_hop_statuses: the hops are    *)
(* probed one after the other, the results are published together under    *)
(* the time at which the round began, and the loop sleeps.  Supervisor     *)
(* abstracts all this to one HopPublish; here seconds are counted, to ask  *)
(* what a ready report says about the hops themselves.                     *)
(*                                                                         *)
(* pproxy and FunkyDNS run throughout, and no stop is signalled.  A step   *)
(* of the loop takes no time: seconds pass in probes and in the sleep,     *)
(* never beyond their end.                                                 *)
(***************************************************************************)
EXTENDS Readiness

CONSTANTS
  NumHops,    \* number of configured hops
  ProbeMax,   \* bound: the slowest deployment considered, seconds per probe
  Interval    \* supervisor.hop_check_interval_s

ASSUME HopMonitorAssumption ==
  /\ NumHops \in Nat \ {0} /\ Hops = 0..NumHops - 1
  /\ ProbeMax \in Nat
  /\ Interval \in Nat

VARIABLES
  limit,      \* the longest a probe takes here: connect and answer both time out
  pc,         \* "check", "probe" or "sleep"
  next,       \* the hop being probed
  elapsed,    \* seconds spent on it
  found,      \* results of this round
  probeAge,   \* seconds since this round began (now - checked_at)
  slept,
  hops, age,  \* STATE["hops"] and now - STATE["hops_last_update"]
  up,         \* whether each hop would answer the probe with 2xx now
  sinceUp     \* seconds since each hop last would have

loopVars == <<pc, next, elapsed, found, probeAge, slept>>
vars == <<limit, loopVars, hops, age, up, sinceUp>>

Seconds == 0..StaleAfter + 1   \* clocks stop one second past StaleAfter
NobodyOk == [h \in Hops |-> FALSE]

TypeOK ==
  /\ limit \in 0..ProbeMax
  /\ pc \in {"check", "probe", "sleep"}
  /\ next \in 0..NumHops
  /\ elapsed \in 0..limit
  /\ found \in AllHopVerdicts
  /\ probeAge \in Seconds
  /\ slept \in 0..Interval
  /\ hops \in HopResults
  /\ age \in Seconds \union {Never}
  /\ up \in AllHopVerdicts
  /\ sinceUp \in [Hops -> Seconds]

\* Hops that are down at the start have been so for longer than any bound.
Init ==
  /\ limit \in 0..ProbeMax
  /\ pc = "check" /\ next = 0 /\ elapsed = 0 /\ probeAge = 0 /\ slept = 0
  /\ found = NobodyOk
  /\ hops = NoHops /\ age = Never
  /\ up \in AllHopVerdicts
  /\ sinceUp = [h \in Hops |-> IF up[h] THEN 0 ELSE StaleAfter + 1]

BeginRound ==
  /\ pc = "check" /\ pc' = "probe"
  /\ next' = 0 /\ elapsed' = 0 /\ probeAge' = 0
  /\ found' = NobodyOk
  /\ UNCHANGED <<limit, slept, hops, age, up, sinceUp>>

\* Mutant: a probe that fails leaves the verdict of the round before.
ProbeDoneKeepsOld(ok) ==
  /\ pc = "probe" /\ next < NumHops
  /\ IF ok THEN up[next] ELSE ~up[next] \/ elapsed = limit
  /\ found' = [found EXCEPT ![next] = ok \/ (next \in DOMAIN hops /\ hops[next])]
  /\ next' = next + 1 /\ elapsed' = 0
  /\ UNCHANGED <<limit, pc, probeAge, slept, hops, age, up, sinceUp>>

\* Mutant: the loop over the hops runs one index too far.
ProbeDonePastEnd(ok) ==
  /\ pc = "probe" /\ next <= NumHops
  /\ next \in Hops => IF ok THEN up[next] ELSE ~up[next] \/ elapsed = limit
  /\ found' = [found EXCEPT ![next] = ok]
  /\ next' = next + 1 /\ elapsed' = 0
  /\ UNCHANGED <<limit, pc, probeAge, slept, hops, age, up, sinceUp>>

\* check_hop_connectivity: 2xx is ok; anything else, and a timeout, is not.
ProbeDone(ok) ==
  /\ pc = "probe" /\ next < NumHops
  /\ IF ok THEN up[next] ELSE ~up[next] \/ elapsed = limit
  /\ found' = [found EXCEPT ![next] = ok]
  /\ next' = next + 1 /\ elapsed' = 0
  /\ UNCHANGED <<limit, pc, probeAge, slept, hops, age, up, sinceUp>>

\* Mutant: the results are dated when they are published.
PublishDatedLate ==
  /\ pc = "probe" /\ next = NumHops
  /\ pc' = "sleep" /\ slept' = 0
  /\ hops' = found /\ age' = 0
  /\ UNCHANGED <<limit, next, elapsed, found, probeAge, up, sinceUp>>

\* Mutant: results are published once and only their date is renewed.
PublishOnce ==
  /\ pc = "probe" /\ next = NumHops
  /\ pc' = "sleep" /\ slept' = 0
  /\ hops' = (IF hops = NoHops THEN found ELSE hops) /\ age' = probeAge
  /\ UNCHANGED <<limit, next, elapsed, found, probeAge, up, sinceUp>>

Publish ==
  /\ pc = "probe" /\ next = NumHops
  /\ pc' = "sleep" /\ slept' = 0
  /\ hops' = found /\ age' = probeAge
  /\ UNCHANGED <<limit, next, elapsed, found, probeAge, up, sinceUp>>

\* Mutant: the sleep is one second longer than the interval when nothing changed.
WakeLate ==
  /\ pc = "sleep" /\ slept = Interval
  /\ \/ pc' = "check" /\ slept' = 0
     \/ pc' = pc /\ slept' = 0
  /\ UNCHANGED <<limit, next, elapsed, found, probeAge, hops, age, up, sinceUp>>

Wake ==
  /\ pc = "sleep" /\ slept = Interval
  /\ pc' = "check" /\ slept' = 0
  /\ UNCHANGED <<limit, next, elapsed, found, probeAge, hops, age, up, sinceUp>>

\* Environment: a hop starts or stops answering.
HopChanges(h) ==
  /\ up' = [up EXCEPT ![h] = ~@]
  /\ sinceUp' = [sinceUp EXCEPT ![h] = 0]
  /\ UNCHANGED <<limit, loopVars, hops, age>>

Older(t) == IF t = Never \/ t > StaleAfter THEN t ELSE t + 1

Tick ==
  /\ \/ pc = "probe" /\ next < NumHops /\ elapsed < limit
        /\ elapsed' = elapsed + 1 /\ UNCHANGED slept
     \/ pc = "sleep" /\ slept < Interval
        /\ slept' = slept + 1 /\ UNCHANGED elapsed
  /\ probeAge' = Older(probeAge)
  /\ age' = Older(age)
  /\ sinceUp' = [h \in Hops |-> IF up[h] THEN 0 ELSE Older(sinceUp[h])]
  /\ UNCHANGED <<limit, pc, next, found, hops, up>>

Loop == BeginRound \/ (\E ok \in BOOLEAN : ProbeDone(ok)) \/ Publish \/ Wake

Next == Loop \/ Tick \/ \E h \in Hops : HopChanges(h)

Spec == Init /\ [][Next]_vars
FairSpec == Spec /\ WF_vars(Loop) /\ WF_vars(Tick)
-----------------------------------------------------------------------------
Snapshot ==
  [pproxy |-> "running", funkydns |-> IF LaunchFunkydns THEN "running" ELSE "disabled",
   hops |-> hops, age |-> age, ready |-> FALSE]

\* One round of probes, and the longest an observation can be in use: from a probe at
\* the beginning of one round to the publication of the next.
Round == NumHops * limit
Horizon == 2 * Round + Interval

\* A report that says ready rests on hops that answered within the age bound: the
\* bound holds for the observations, not only for the publication.
ReadyIsHonest ==
  Ready(Snapshot) =>
    IF RequireAllHops THEN \A h \in Hops : sinceUp[h] <= StaleAfter
                      ELSE \E h \in Hops : sinceUp[h] <= StaleAfter

\* A hop that stays down shuts a strict report within one horizon.
DownHopNoticed ==
  Ready(Snapshot) /\ RequireAllHops => \A h \in Hops : sinceUp[h] <= Horizon

\* Published data never go stale when one horizon fits in the age bound.
NeverStale == Published(Snapshot) /\ Horizon <= StaleAfter => age <= StaleAfter

\* Every hop is up and has answered before the limit.
ChainIsGood == limit > 0 /\ elapsed < limit /\ \A h \in Hops : up[h]

ReadyIfInTime == Ready(Snapshot) \/ Horizon > StaleAfter

\* A chain that stays good is eventually, and then always, ready if one horizon fits
\* in the age bound.
GoodChainBecomesReady == <>[]ChainIsGood => <>[]ReadyIfInTime
=============================================================================
