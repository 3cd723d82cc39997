---------------------------- MODULE ClientRunner ----------------------------
(***************************************************************************)
(* client/runner.py: the processes that share the client container.       *)
(*                                                                         *)
(* The container's own process (Serve) and every "run", "shell" or "smoke" *)
(* executed in it go through the same three functions: wait_for_ready,     *)
(* ensure_firewall and, unless the marker file exists,                     *)
(* _configure_output_firewall, a script of separate iptables commands.     *)
(* Nothing but the marker coordinates them.                                *)
(*                                                                         *)
(* The OUTPUT chains live in the container's network namespace, which is   *)
(* made anew when the container starts; the marker is a file in /tmp and   *)
(* outlives a restart.  Commands may fail, processes may be killed, and    *)
(* the container stops when Serve does.  Addresses are looked up by name:  *)
(* the compose file sets none of the LOCAL_*_IP variables.                 *)
(***************************************************************************)
EXTENDS Naturals

CONSTANTS
  Serve,         \* the container's main process
  Runs,          \* the processes executed in the container
  MaxAttempts,   \* wait_for_ready's attempts (60 in the code)
  ReadyDest,     \* where LOCAL_READY_URL points: "health" unless it is overridden
  ResolverDest,  \* where name lookups go: "lo" (Docker) or "resolver" (Podman)
  MaxStarts      \* bound: how often the container is started

Dests == {"lo", "established", "dnsUdp", "dnsTcp", "proxy", "health", "resolver"}
Runners == Runs \union {Serve}

ASSUME ClientRunnerAssumption ==
  /\ Serve \notin Runs
  /\ MaxAttempts \in Nat \ {0}
  /\ ReadyDest \in Dests /\ ResolverDest \in Dests
  /\ MaxStarts \in Nat \ {0}

VARIABLES
  pc,       \* control point of each process
  tries,    \* failed attempts of wait_for_ready
  dns,      \* whether _resolved_local_dns_ip found an address
  fw,       \* the OUTPUT chain of each family
  marker,   \* the file at FIREWALL_MARKER_PATH exists
  ready,    \* egressd answers /ready with 2xx
  funky,    \* the smoke DNS service exists
  up,       \* the container runs
  starts    \* and how often it was started

locals == <<pc, tries, dns>>
world == <<ready, funky, up, starts>>
vars == <<locals, fw, marker, world>>

Families == {"ip", "ip6"}
Chain == [drop: BOOLEAN, accept: SUBSET Dests]
OpenChain == [drop |-> FALSE, accept |-> {}]
OpenChains == [f \in Families |-> OpenChain]

\* The commands of _configure_output_firewall, each a control point before it.
Script ==
  {"flush", "policy", "lo", "established", "dnsUdp", "dnsTcp", "proxy",
   "flush6", "policy6", "lo6", "established6"}
Configuring == Script \union {"mark"}
Resolving == {"resolveDns", "resolveProxy"}

TypeOK ==
  /\ pc \in [Runners -> Configuring \union Resolving \union
                {"absent", "wait", "check", "go", "serving", "exec", "done",
                 "gaveUp", "failed", "broken"}]
  /\ tries \in [Runners -> 0..MaxAttempts - 1]
  /\ dns \in [Runners -> BOOLEAN]
  /\ fw \in [Families -> Chain]
  /\ marker \in BOOLEAN
  /\ ready \in BOOLEAN /\ funky \in BOOLEAN /\ up \in BOOLEAN
  /\ starts \in 1..MaxStarts

\* A new container, its main process about to wait for egressd.
Init ==
  /\ pc = [r \in Runners |-> IF r = Serve THEN "wait" ELSE "absent"]
  /\ tries = [r \in Runners |-> 0]
  /\ dns = [r \in Runners |-> FALSE]
  /\ fw = OpenChains
  /\ marker = FALSE
  /\ ready \in BOOLEAN /\ funky \in BOOLEAN
  /\ up = TRUE /\ starts = 1

\* What a packet to dest meets in the IPv4 chain.
Passes(dest) == fw["ip"].drop => dest \in fw["ip"].accept
LookupWorks == Passes(ResolverDest)

Goto(r, from, to) == pc[r] = from /\ pc' = [pc EXCEPT ![r] = to]
-----------------------------------------------------------------------------
\* wait_for_ready: one attempt; after the last one the process raises.
ReadyAnswer == ready /\ LookupWorks /\ Passes(ReadyDest)

AttemptOk(r) ==
  /\ ReadyAnswer /\ Goto(r, "wait", "check")
  /\ tries' = [tries EXCEPT ![r] = 0]
  /\ UNCHANGED <<dns, fw, marker, world>>

\* Mutant: the attempts are not counted.
AttemptFailsForever(r) ==
  /\ ~ReadyAnswer /\ Goto(r, "wait", "wait")
  /\ UNCHANGED <<tries, dns, fw, marker, world>>

\* Mutant: one attempt too many.
AttemptFailsOnceMore(r) ==
  /\ ~ReadyAnswer
  /\ IF tries[r] = MaxAttempts
     THEN Goto(r, "wait", "gaveUp") /\ tries' = [tries EXCEPT ![r] = 0]
     ELSE Goto(r, "wait", "wait") /\ tries' = [tries EXCEPT ![r] = @ + 1]
  /\ UNCHANGED <<dns, fw, marker, world>>

AttemptFails(r) ==
  /\ ~ReadyAnswer
  /\ IF tries[r] + 1 = MaxAttempts
     THEN Goto(r, "wait", "gaveUp") /\ tries' = [tries EXCEPT ![r] = 0]
     ELSE Goto(r, "wait", "wait") /\ tries' = [tries EXCEPT ![r] = @ + 1]
  /\ UNCHANGED <<dns, fw, marker, world>>

\* ensure_firewall.
CheckMarker(r) ==
  /\ Goto(r, "check", IF marker THEN "go" ELSE "resolveDns")
  /\ UNCHANGED <<tries, dns, fw, marker, world>>

\* A lookup that fails means "no DNS service" for the one name ...
ResolveDns(r) ==
  /\ Goto(r, "resolveDns", "resolveProxy")
  /\ dns' = [dns EXCEPT ![r] = funky /\ LookupWorks]
  /\ UNCHANGED <<tries, fw, marker, world>>

\* Mutant: the marker is created before the commands, to claim the work.
ResolveProxyClaims(r) ==
  /\ Goto(r, "resolveProxy", IF LookupWorks THEN "flush" ELSE "failed")
  /\ marker' = (marker \/ LookupWorks)
  /\ UNCHANGED <<tries, dns, fw, world>>

\* ... and an exception for the other.
ResolveProxy(r) ==
  /\ Goto(r, "resolveProxy", IF LookupWorks THEN "flush" ELSE "failed")
  /\ UNCHANGED <<tries, dns, fw, marker, world>>

(***************************************************************************)
(* _configure_output_firewall.                                             *)
(***************************************************************************)
Iptables(r, from, family, chain, to) ==
  /\ Goto(r, from, to)
  /\ fw' = [fw EXCEPT ![family] = chain]
  /\ UNCHANGED <<tries, dns, marker, world>>

Flush(family) == [fw[family] EXCEPT !.accept = {}]
DropByDefault(family) == [fw[family] EXCEPT !.drop = TRUE]
Accept(family, dest) == [fw[family] EXCEPT !.accept = @ \union {dest}]

\* Mutant: the chain is flushed after its first rule.
FlushLate(r) ==
  \/ Iptables(r, "flush", "ip", DropByDefault("ip"), "policy")
  \/ Iptables(r, "policy", "ip", Accept("ip", "lo"), "lo")
  \/ Iptables(r, "lo", "ip", Flush("ip"), "established")

Close(r) ==
  \/ Iptables(r, "flush", "ip", Flush("ip"), "policy")
  \/ Iptables(r, "policy", "ip", DropByDefault("ip"), "lo")
  \/ Iptables(r, "lo", "ip", Accept("ip", "lo"), "established")

OpenHoles(r) ==
  \/ Iptables(r, "established", "ip", Accept("ip", "established"),
              IF dns[r] THEN "dnsUdp" ELSE "proxy")
  \/ Iptables(r, "dnsUdp", "ip", Accept("ip", "dnsUdp"), "dnsTcp")
  \/ Iptables(r, "dnsTcp", "ip", Accept("ip", "dnsTcp"), "proxy")
  \/ Iptables(r, "proxy", "ip", Accept("ip", "proxy"), "flush6")

CloseIp6(r) ==
  \/ Iptables(r, "flush6", "ip6", Flush("ip6"), "policy6")
  \/ Iptables(r, "policy6", "ip6", DropByDefault("ip6"), "lo6")
  \/ Iptables(r, "lo6", "ip6", Accept("ip6", "lo"), "established6")
  \/ Iptables(r, "established6", "ip6", Accept("ip6", "established"), "mark")

WriteMarker(r) ==
  /\ Goto(r, "mark", "go")
  /\ marker' = TRUE
  /\ UNCHANGED <<tries, dns, fw, world>>

ConfigureOutputFirewall(r) ==
  \/ ResolveDns(r) \/ ResolveProxy(r)
  \/ Close(r) \/ OpenHoles(r) \/ CloseIp6(r) \/ WriteMarker(r)

\* serve_forever waits for a signal; exec_command and run_smoke run the command.
LetGo(r) ==
  /\ Goto(r, "go", IF r = Serve THEN "serving" ELSE "exec")
  /\ UNCHANGED <<tries, dns, fw, marker, world>>

Runner(r) ==
  \/ AttemptOk(r) \/ AttemptFails(r)
  \/ CheckMarker(r) \/ ConfigureOutputFirewall(r) \/ LetGo(r)

(***************************************************************************)
(* The environment.                                                        *)
(***************************************************************************)
\* compose exec: a new process in the running container.
Execute(r) ==
  /\ up /\ \E from \in {"absent", "done", "gaveUp", "failed"} : Goto(r, from, "wait")
  /\ UNCHANGED <<tries, dns, fw, marker, world>>

CommandExits(r) == Goto(r, "exec", "done") /\ UNCHANGED <<tries, dns, fw, marker, world>>

\* A command of the script fails (check=True), or the process is killed.
Dies(r) ==
  /\ \/ \E from \in Configuring : Goto(r, from, "broken")
     \/ \E from \in Resolving \union {"wait", "check"} : Goto(r, from, "failed")
  /\ tries' = [tries EXCEPT ![r] = 0]
  /\ UNCHANGED <<dns, fw, marker, world>>

\* The container is stopped, or its main process ended; everything in it ends.
ContainerStops ==
  /\ up /\ up' = FALSE
  /\ pc' = [r \in Runners |-> "absent"]
  /\ tries' = [r \in Runners |-> 0]
  /\ dns' = [r \in Runners |-> FALSE]
  /\ UNCHANGED <<fw, marker, ready, funky, starts>>

\* The same container is started again: a new network namespace, the old files.
ContainerStarts ==
  /\ ~up /\ starts < MaxStarts
  /\ up' = TRUE /\ starts' = starts + 1
  /\ pc' = [pc EXCEPT ![Serve] = "wait"]
  /\ fw' = OpenChains
  /\ UNCHANGED <<tries, dns, marker, ready, funky>>

EgressdChanges == ready' = ~ready /\ UNCHANGED <<locals, fw, marker, funky, up, starts>>
FunkyChanges == funky' = ~funky /\ UNCHANGED <<locals, fw, marker, ready, up, starts>>

Environment ==
  \/ \E r \in Runs : Execute(r) \/ CommandExits(r)
  \/ \E r \in Runners : Dies(r)
  \/ ContainerStops \/ ContainerStarts \/ EgressdChanges \/ FunkyChanges

Next == (\E r \in Runners : Runner(r)) \/ Environment

Spec == Init /\ [][Next]_vars

MainProcessEnded == pc[Serve] \in {"gaveUp", "failed", "broken"} /\ ContainerStops

\* Every process is scheduled, every attempt and command ends, and the container ends
\* with its main process.
FairSpec ==
  /\ Spec
  /\ \A r \in Runners : WF_vars(Runner(r))
  /\ WF_vars(MainProcessEnded)
-----------------------------------------------------------------------------
Closed == \A f \in Families : fw[f].drop
LetThrough(r) == pc[r] \in {"go", "serving", "exec"}

\* Until the container is restarted, no command starts before both OUTPUT chains
\* drop by default, however the processes that configure them interleave or fail.
ExecLockedDown == starts = 1 => \A r \in Runners : LetThrough(r) => Closed

Complete ==
  /\ {"lo", "established", "proxy"} \subseteq fw["ip"].accept
  /\ {"lo", "established"} \subseteq fw["ip6"].accept

\* Processes that configure the chains at the same time undo each other's rules; once
\* the last one is done, and none broke off, every rule is there.
CompleteWhenQuiet ==
  up /\ starts = 1 /\ marker /\ (\A r \in Runners : pc[r] \notin Configuring \union {"broken"})
    => Complete

\* No process waits for egressd, or configures, for ever.
InProgress(r) == pc[r] \in Configuring \union Resolving \union {"wait", "check"}
EveryProcessGetsThrough == \A r \in Runners : InProgress(r) ~> ~InProgress(r)

\* README: "run -- <cmd>" executes the command in the running client.  With egressd
\* ready and the container up throughout, no run in a serving client gives up waiting
\* for egressd.
RunExecutes ==
  [](up /\ ready) =>
    \A r \in Runs : pc[r] = "wait" /\ pc[Serve] = "serving"
                      ~> pc[r] \in {"exec", "failed", "broken"}

\* "status" reports firewall_ready from the marker: "whether the iptables firewall is
\* in place".
MarkerTellsTheTruth == marker => Closed
=============================================================================
