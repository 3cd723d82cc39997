------------------------- MODULE ClientRunnerProofs -------------------------
(***************************************************************************)
(* No command starts with an open OUTPUT chain before the container is     *)
(* restarted: for any number of processes, attempts and restarts.          *)
(***************************************************************************)
EXTENDS ClientRunner, TLAPS

\* The bounds on attempts and on container starts are positive numbers.
LEMMA ConstantTypes ==
  MaxAttempts \in Nat /\ MaxAttempts >= 1 /\ MaxStarts \in Nat /\ MaxStarts >= 1
  BY ClientRunnerAssumption

Points ==
  Configuring \union Resolving \union
    {"absent", "wait", "check", "go", "serving", "exec", "done", "gaveUp", "failed", "broken"}

\* A step of one process changes its own control point only.
LEMMA GotoType ==
  ASSUME TypeOK, NEW r \in Runners, NEW from, NEW to \in Points, Goto(r, from, to)
  PROVE  pc' \in [Runners -> Points]
  BY DEF TypeOK, Goto, Points

\* One iptables command that leaves a chain of the right type keeps the type invariant.
LEMMA IptablesType ==
  ASSUME TypeOK, NEW r \in Runners, NEW from, NEW to \in Points, NEW family \in Families,
         NEW chain \in Chain, Iptables(r, from, family, chain, to)
  PROVE  TypeOK'
<1>1. pc' \in [Runners -> Points]
  BY GotoType DEF Iptables
<1>2. fw' \in [Families -> Chain]
  BY DEF TypeOK, Iptables
<1> QED
  BY <1>1, <1>2 DEF TypeOK, Iptables, Points, world

\* Flushing a chain, making it drop by default and adding an accept rule give a chain.
LEMMA ChainTypes ==
  ASSUME TypeOK, NEW family \in Families
  PROVE  /\ Flush(family) \in Chain /\ DropByDefault(family) \in Chain
         /\ \A dest \in Dests : Accept(family, dest) \in Chain
  BY DEF TypeOK, Flush, DropByDefault, Accept, Chain

\* A step of a runner process (runner.py main and the functions it calls) keeps the type invariant.
LEMMA RunnerType ==
  ASSUME TypeOK, NEW r \in Runners, Runner(r)
  PROVE  TypeOK'
<1> USE DEF Points, Configuring, Script, Resolving
<1>1. CASE AttemptOk(r) \/ AttemptFails(r)
  <2>1. pc' \in [Runners -> Points]
    BY <1>1, GotoType DEF AttemptOk, AttemptFails
  <2>2. tries' \in [Runners -> 0..MaxAttempts - 1]
    BY <1>1, ConstantTypes DEF TypeOK, AttemptOk, AttemptFails
  <2> QED
    BY <1>1, <2>1, <2>2 DEF TypeOK, AttemptOk, AttemptFails, world
<1>2. CASE CheckMarker(r) \/ ResolveProxy(r) \/ LetGo(r)
  <2>1. pc' \in [Runners -> Points]
    BY <1>2, GotoType DEF CheckMarker, ResolveProxy, LetGo
  <2> QED
    BY <1>2, <2>1 DEF TypeOK, CheckMarker, ResolveProxy, LetGo, world
<1>3. CASE ResolveDns(r)
  <2>1. pc' \in [Runners -> Points]
    BY <1>3, GotoType DEF ResolveDns
  <2>2. dns' \in [Runners -> BOOLEAN]
    BY <1>3 DEF TypeOK, ResolveDns, LookupWorks, Passes
  <2> QED
    BY <1>3, <2>1, <2>2 DEF TypeOK, ResolveDns, world
<1>4. CASE Close(r) \/ OpenHoles(r) \/ CloseIp6(r)
  <2>1. "ip" \in Families /\ "ip6" \in Families
    BY DEF Families
  <2>2. {"lo", "established", "dnsUdp", "dnsTcp", "proxy"} \subseteq Dests
    BY DEF Dests
  <2>3. CASE Close(r)
    BY <2>1, <2>2, <2>3, ChainTypes, IptablesType DEF Close
  <2>4. CASE OpenHoles(r)
    BY <2>1, <2>2, <2>4, ChainTypes, IptablesType DEF OpenHoles
  <2>5. CASE CloseIp6(r)
    BY <2>1, <2>2, <2>5, ChainTypes, IptablesType DEF CloseIp6
  <2> QED
    BY <1>4, <2>3, <2>4, <2>5
<1>5. CASE WriteMarker(r)
  <2>1. pc' \in [Runners -> Points]
    BY <1>5, GotoType DEF WriteMarker
  <2> QED
    BY <1>5, <2>1 DEF TypeOK, WriteMarker, world
<1> QED
  BY <1>1, <1>2, <1>3, <1>4, <1>5 DEF Runner, ConfigureOutputFirewall

\* A step of the environment (a command run or ended, a runner killed, the container stopped
\* or started, egressd or FunkyDNS changing) keeps the type invariant.
LEMMA EnvironmentType ==
  ASSUME TypeOK, Environment
  PROVE  TypeOK'
<1> USE DEF Points, Configuring, Script, Resolving
<1>1. ASSUME NEW r \in Runs, Execute(r) \/ CommandExits(r)
      PROVE  TypeOK'
  <2>1. pc' \in [Runners -> Points]
    BY <1>1, GotoType DEF Execute, CommandExits, Runners
  <2> QED
    BY <1>1, <2>1 DEF TypeOK, Execute, CommandExits, world
<1>2. ASSUME NEW r \in Runners, Dies(r)
      PROVE  TypeOK'
  <2>1. pc' \in [Runners -> Points]
    BY <1>2, GotoType DEF Dies
  <2>2. tries' \in [Runners -> 0..MaxAttempts - 1]
    BY <1>2, ConstantTypes DEF TypeOK, Dies
  <2> QED
    BY <1>2, <2>1, <2>2 DEF TypeOK, Dies, world
<1>3. CASE ContainerStops
  <2>1. /\ pc' \in [Runners -> Points]
        /\ tries' \in [Runners -> 0..MaxAttempts - 1]
        /\ dns' \in [Runners -> BOOLEAN]
    BY <1>3, ConstantTypes DEF ContainerStops
  <2> QED
    BY <1>3, <2>1 DEF TypeOK, ContainerStops
<1>4. CASE ContainerStarts
  <2>1. fw' \in [Families -> Chain]
    BY <1>4 DEF ContainerStarts, OpenChains, OpenChain, Chain
  <2>2. starts' \in 1..MaxStarts
    BY <1>4, ConstantTypes DEF TypeOK, ContainerStarts
  <2>3. pc' \in [Runners -> Points]
    BY <1>4 DEF TypeOK, ContainerStarts
  <2> QED
    BY <1>4, <2>1, <2>2, <2>3 DEF TypeOK, ContainerStarts
<1>5. CASE EgressdChanges \/ FunkyChanges
  BY <1>5 DEF TypeOK, EgressdChanges, FunkyChanges, locals
<1> QED
  BY <1>1, <1>2, <1>3, <1>4, <1>5 DEF Environment

\* Every variable of the client container keeps its type.
THEOREM TypeCorrect == Spec => []TypeOK
<1>1. Init => TypeOK
  <2> SUFFICES ASSUME Init
               PROVE  TypeOK
    OBVIOUS
  <2>1. fw \in [Families -> Chain]
    BY DEF Init, OpenChains, OpenChain, Chain
  <2>2. tries \in [Runners -> 0..MaxAttempts - 1] /\ starts \in 1..MaxStarts
    BY ConstantTypes DEF Init
  <2> QED
    BY <2>1, <2>2 DEF Init, TypeOK
<1>2. TypeOK /\ [Next]_vars => TypeOK'
  <2> SUFFICES ASSUME TypeOK, [Next]_vars
               PROVE  TypeOK'
    OBVIOUS
  <2>1. CASE UNCHANGED vars
    BY <2>1 DEF TypeOK, vars, locals, world
  <2> QED
    BY <2>1, RunnerType, EnvironmentType DEF Next
<1> QED
  BY <1>1, <1>2, PTL DEF Spec
-----------------------------------------------------------------------------
(***************************************************************************)
(* In one life of the container a chain that drops by default never stops  *)
(* doing so; a process past a policy command has seen to it, and whoever   *)
(* wrote the marker, or was let go, was past both.                         *)
(***************************************************************************)
Ip6Closed == {"lo6", "established6", "mark"}
IpClosed ==
  Ip6Closed \union {"lo", "established", "dnsUdp", "dnsTcp", "proxy", "flush6", "policy6"}

FirstLifeInv ==
  starts = 1 =>
    /\ \A r \in Runners : pc[r] \in IpClosed => fw["ip"].drop
    /\ \A r \in Runners : pc[r] \in Ip6Closed => fw["ip6"].drop
    /\ \A r \in Runners : LetThrough(r) => Closed
    /\ marker => Closed

\* Every step keeps the invariant about the first life of the container.
LEMMA FirstLifeStep == TypeOK /\ FirstLifeInv /\ [Next]_vars => FirstLifeInv'
<1> SUFFICES ASSUME TypeOK, FirstLifeInv, [Next]_vars, starts' = 1
             PROVE  FirstLifeInv'
  BY DEF FirstLifeInv
<1> USE DEF Goto, LetThrough, IpClosed, Ip6Closed, Closed, Families
<1>0. starts = 1 /\ \A f \in Families : fw[f].drop => fw'[f].drop
  <2>1. CASE fw' = fw /\ starts' = starts
    BY <2>1
  <2>2. ASSUME NEW r \in Runners, Close(r) \/ OpenHoles(r) \/ CloseIp6(r)
        PROVE  starts = 1 /\ \A f \in Families : fw[f].drop => fw'[f].drop
    BY <2>2 DEF TypeOK, Chain, Close, OpenHoles, CloseIp6, Iptables, Flush, DropByDefault,
                Accept, world
  <2>3. ~ContainerStarts
    BY DEF ContainerStarts, TypeOK
  <2> QED
    BY <2>1, <2>2, <2>3 DEF Next, Runner, Environment, AttemptOk, AttemptFails, CheckMarker,
       ConfigureOutputFirewall, ResolveDns, ResolveProxy, WriteMarker, LetGo, Execute,
       CommandExits, Dies, ContainerStops, EgressdChanges, FunkyChanges, locals, world, vars
<1>1. ASSUME NEW r \in Runners, Runner(r)
      PROVE  FirstLifeInv'
  <2>1. CASE AttemptOk(r) \/ AttemptFails(r) \/ CheckMarker(r) \/ LetGo(r)
    BY <1>0, <2>1 DEF TypeOK, FirstLifeInv, AttemptOk, AttemptFails, CheckMarker, LetGo, world
  <2>2. CASE ResolveDns(r) \/ ResolveProxy(r)
    BY <1>0, <2>2 DEF TypeOK, FirstLifeInv, ResolveDns, ResolveProxy, world
  <2>3. CASE Close(r)
    BY <1>0, <2>3 DEF TypeOK, FirstLifeInv, Close, Iptables, DropByDefault, Chain
  <2>4. CASE OpenHoles(r)
    BY <1>0, <2>4 DEF TypeOK, FirstLifeInv, OpenHoles, Iptables
  <2>5. CASE CloseIp6(r)
    BY <1>0, <2>5 DEF TypeOK, FirstLifeInv, CloseIp6, Iptables, DropByDefault, Chain
  <2>6. CASE WriteMarker(r)
    BY <1>0, <2>6 DEF TypeOK, FirstLifeInv, WriteMarker
  <2> QED
    BY <1>1, <2>1, <2>2, <2>3, <2>4, <2>5, <2>6 DEF Runner, ConfigureOutputFirewall
<1>2. CASE Environment
  BY <1>0, <1>2 DEF TypeOK, FirstLifeInv, Environment, Execute, CommandExits, Dies,
     ContainerStops, ContainerStarts, EgressdChanges, FunkyChanges, locals, Configuring,
     Script, Resolving, Runners
<1>3. CASE UNCHANGED vars
  BY <1>0, <1>3 DEF FirstLifeInv, vars, locals, world
<1> QED
  BY <1>1, <1>2, <1>3 DEF Next

\* The marker, and having passed ensure_firewall, stand for two closed chains until the
\* container is restarted.
THEOREM FirstLife == Spec => []FirstLifeInv
<1>1. Init => FirstLifeInv
  BY DEF Init, FirstLifeInv, LetThrough, IpClosed, Ip6Closed
<1> QED
  BY <1>1, FirstLifeStep, TypeCorrect, PTL DEF Spec

\* Until the container is restarted, no command starts before both OUTPUT chains drop
\* by default, however many processes configure them at once or break off.
THEOREM LockedDownBeforeExec == Spec => []ExecLockedDown
<1>1. FirstLifeInv => ExecLockedDown
  BY DEF FirstLifeInv, ExecLockedDown
<1> QED
  BY <1>1, FirstLife, PTL
-----------------------------------------------------------------------------
(***************************************************************************)
(* A rule that is missing from a chain has still to be added: by a process *)
(* that is in front of it, by nobody (the one that would have broke off),  *)
(* or by the first one to come; the marker is not there before that.       *)
(***************************************************************************)
InFront(f, d) ==
  {"flush", "policy", "lo"}
    \union (IF f = "ip" /\ d = "lo" THEN {} ELSE {"established"})
    \union (IF f = "ip" /\ d # "proxy" THEN {} ELSE {"dnsUdp", "dnsTcp", "proxy"})
    \union (IF f = "ip" THEN {} ELSE {"flush6", "policy6", "lo6"})
    \union (IF f = "ip6" /\ d = "established" THEN {"established6"} ELSE {})

Behind(f, d) == Configuring \ InFront(f, d)

Required == {<<"ip", "lo">>, <<"ip", "established">>, <<"ip", "proxy">>, <<"ip6", "lo">>, <<"ip6", "established">>}

RuleOwed(f, d) ==
  \/ d \in fw[f].accept
  \/ \E r \in Runners : pc[r] \in InFront(f, d) \union {"broken"}
  \/ ~marker /\ \A r \in Runners : pc[r] \notin Behind(f, d)

RuleInv == up /\ starts = 1 => \A x \in Required : RuleOwed(x[1], x[2])

\* A command of the script keeps the account of the missing rules.
LEMMA ScriptKeepsRules ==
  ASSUME TypeOK, RuleInv, up, starts = 1, NEW r \in Runners, Close(r) \/ OpenHoles(r) \/ CloseIp6(r),
         NEW f, NEW d, <<f, d>> \in Required
  PROVE  RuleOwed(f, d)'
<1>1. RuleOwed(f, d)
  BY DEF RuleInv
<1>2. UNCHANGED <<marker, up, starts>>
  BY DEF Close, OpenHoles, CloseIp6, Iptables, world
<1>3. \A q \in Runners \ {r} : pc'[q] = pc[q]
  BY DEF Close, OpenHoles, CloseIp6, Iptables, Goto, TypeOK
<1>4. CASE pc'[r] \in InFront(f, d)
  BY <1>4 DEF RuleOwed
<1>5. CASE pc'[r] \notin InFront(f, d)
  <2>1. (pc[r] \in InFront(f, d) => d \in fw'[f].accept) /\ (d \in fw[f].accept => d \in fw'[f].accept)
        /\ pc[r] # "broken" /\ pc[r] \in Configuring
    BY <1>5 DEF Close, OpenHoles, CloseIp6, Iptables, Goto, TypeOK, Chain, Families, Flush, DropByDefault,
                Accept, InFront, Required, Configuring, Script
  <2>2. CASE d \in fw'[f].accept
    BY <2>2 DEF RuleOwed
  <2>3. CASE d \notin fw'[f].accept
    <3>1. pc[r] \in Behind(f, d)
      BY <2>1, <2>3 DEF Behind
    <3>2. PICK q \in Runners \ {r} : pc[q] \in InFront(f, d) \union {"broken"}
      BY <1>1, <2>1, <2>3, <3>1 DEF RuleOwed
    <3> QED
      BY <1>3, <3>2 DEF RuleOwed
  <2> QED
    BY <2>2, <2>3
<1> QED
  BY <1>4, <1>5

\* Every step keeps the account of the missing rules.
LEMMA RuleStep ==
  ASSUME TypeOK, RuleInv, [Next]_vars, up', starts' = 1, NEW f, NEW d, <<f, d>> \in Required
  PROVE  RuleOwed(f, d)'
<1>1. ~ContainerStarts /\ ~ContainerStops
  BY DEF ContainerStarts, ContainerStops, TypeOK
<1>2. up /\ starts = 1
  BY <1>1 DEF Next, Runner, Environment, AttemptOk, AttemptFails, CheckMarker, ConfigureOutputFirewall,
       ResolveDns, ResolveProxy, Close, OpenHoles, CloseIp6, Iptables, WriteMarker, LetGo, Execute,
       CommandExits, Dies, EgressdChanges, FunkyChanges, locals, world, vars
<1>3. RuleOwed(f, d)
  BY <1>2 DEF RuleInv
<1>4. InFront(f, d) \subseteq Configuring /\ "flush" \in InFront(f, d) /\ "mark" \in Behind(f, d)
  BY DEF InFront, Behind, Configuring, Script
<1>5. ASSUME NEW r \in Runners, Close(r) \/ OpenHoles(r) \/ CloseIp6(r)
      PROVE  RuleOwed(f, d)'
  BY <1>2, <1>5, ScriptKeepsRules
<1>6. ASSUME NEW r \in Runners, WriteMarker(r)
      PROVE  RuleOwed(f, d)'
  <2>1. pc[r] = "mark" /\ fw' = fw /\ \A q \in Runners \ {r} : pc'[q] = pc[q]
    BY <1>6 DEF WriteMarker, Goto, TypeOK
  <2> QED
    BY <1>3, <1>4, <2>1 DEF RuleOwed, Behind
<1>7. ASSUME fw' = fw, marker' = marker,
             \A r \in Runners : pc'[r] = pc[r] \/ pc'[r] \in {"flush", "broken"}
                                \/ (pc[r] \notin Configuring \union {"broken"} /\ pc'[r] \notin Configuring)
      PROVE  RuleOwed(f, d)'
  <2>1. CASE \E r \in Runners : pc'[r] \in {"flush", "broken"}
    BY <1>4, <2>1 DEF RuleOwed
  <2>2. CASE \A r \in Runners : pc'[r] \notin {"flush", "broken"}
    BY <1>3, <1>4, <1>7, <2>2 DEF RuleOwed, Behind
  <2> QED
    BY <2>1, <2>2
<1>8. ASSUME NEW r \in Runners,
             \/ AttemptOk(r) \/ AttemptFails(r) \/ CheckMarker(r) \/ ResolveDns(r) \/ ResolveProxy(r)
             \/ LetGo(r) \/ Dies(r) \/ Execute(r) \/ CommandExits(r)
      PROVE  RuleOwed(f, d)'
  BY <1>7, <1>8 DEF AttemptOk, AttemptFails, CheckMarker, ResolveDns, ResolveProxy, LetGo, Dies, Execute,
                    CommandExits, Goto, TypeOK, Configuring, Script, Resolving
<1>9. CASE EgressdChanges \/ FunkyChanges \/ UNCHANGED vars
  BY <1>7, <1>9 DEF EgressdChanges, FunkyChanges, vars, locals
<1>10. CASE \E r \in Runners : Runner(r)
  <2>1. PICK r \in Runners : Runner(r)
    BY <1>10
  <2> QED
    BY <1>5, <1>6, <1>8, <2>1 DEF Runner, ConfigureOutputFirewall
<1>11. CASE Environment
  <2>1. Runs \subseteq Runners
    BY DEF Runners
  <2> QED
    BY <1>1, <1>8, <1>9, <1>11, <2>1 DEF Environment
<1> QED
  BY <1>9, <1>10, <1>11 DEF Next

\* In the first life of the container, once the last process is done and none broke off,
\* every rule is in place, however many had configured the chains at once.
THEOREM CompleteInTheEnd == Spec => []CompleteWhenQuiet
<1>1. Init => RuleInv
  BY DEF Init, RuleInv, RuleOwed, Behind, Configuring, Script
<1>2. RuleInv => CompleteWhenQuiet
  <2> SUFFICES ASSUME RuleInv, up, starts = 1, marker,
                      \A r \in Runners : pc[r] \notin Configuring \union {"broken"}
               PROVE  Complete
    BY DEF CompleteWhenQuiet
  <2>1. \A x \in Required : x[2] \in fw[x[1]].accept
    BY DEF RuleInv, RuleOwed, InFront, Configuring, Script
  <2> QED
    BY <2>1 DEF Complete, Required
<1>3. TypeOK /\ RuleInv /\ [Next]_vars => RuleInv'
  <2> SUFFICES ASSUME TypeOK, RuleInv, [Next]_vars, up', starts' = 1, NEW x \in Required
               PROVE  RuleOwed(x[1], x[2])'
    BY DEF RuleInv
  <2>1. <<x[1], x[2]>> \in Required
    BY DEF Required
  <2> QED
    BY <2>1, RuleStep
<1> QED
  BY <1>1, <1>2, <1>3, TypeCorrect, PTL DEF Spec
=============================================================================
