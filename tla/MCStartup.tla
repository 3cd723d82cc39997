----------------------------- MODULE MCStartup ------------------------------
(***************************************************************************)
(* Configurations for Startup.  Starting from the minimal one, each group  *)
(* varies the settings that some piece of code reads together.             *)
(***************************************************************************)
EXTENDS Startup

Port(n) == [type |-> "int", n |-> n]
NoPort == [type |-> "absent", n |-> 0]
True == [type |-> "true", n |-> 1]
PortText == [type |-> "other", n |-> 0]

NoList == [form |-> "absent", hops |-> <<>>]
NullList == [form |-> "null", hops |-> <<>>]
List(hops) == [form |-> "list", hops |-> hops]

Entries ==
  [form : {"object"}, url : Urls] \union [form : {"text"}, url : Urls \ {"notText", "missing"}]
    \union [form : {"other"}, url : {"missing"}]
Plain(url) == [form |-> "text", url |-> url]

\* One entry, a good one and any other, either way round.
Lists ==
  {NoList, NullList, List(<<>>)} \union {List(<<e>>) : e \in Entries}
    \union {List(<<Plain("proxy"), e>>) : e \in Entries}
    \union {List(<<e, Plain("proxy")>>) : e \in Entries}
FewLists == {NoList, NullList, List(<<>>), List(<<Plain("proxy")>>), List(<<Plain("noHost")>>)}

Minimal ==
  [proxies |-> List(<<Plain("proxy"), Plain("proxy")>>), hops |-> NoList, nullSection |-> FALSE,
   canary |-> [form |-> "absent", port |-> 0], allowed |-> [form |-> "absent", ports |-> {}],
   failClosed |-> "absent", blockStart |-> "absent", listenerPort |-> NoPort,
   launchDns |-> FALSE, dnsPort |-> NoPort, upstreams |-> [form |-> "absent", items |-> {}],
   healthPortOk |-> TRUE, intervalOk |-> TRUE, connectTimeoutOk |-> TRUE,
   statusAgeOk |-> TRUE,
   chainVisual |-> FALSE,
   skipBinaries |-> FALSE, validateOnly |-> FALSE,
   pproxyInstalled |-> TRUE, funkydnsInstalled |-> TRUE]

\* normalize_cfg, the checks of the hops and everything that uses them.
HopConfigs ==
  {[Minimal EXCEPT !.proxies = p, !.hops = h, !.failClosed = f, !.chainVisual = v] :
     p \in FewLists, h \in Lists, f \in {"true", "false"}, v \in BOOLEAN}
  \union {[Minimal EXCEPT !.proxies = p] : p \in Lists}
  \union {[Minimal EXCEPT !.nullSection = TRUE]}

\* The canary, the allowed ports and the gate.
CanaryForms == {"absent", "empty", "notText", "noColon", "noHost", "portNotNumeric"}
GateConfigs ==
  {[Minimal EXCEPT !.canary = c, !.allowed = a, !.failClosed = f, !.blockStart = b] :
     c \in [form : CanaryForms, port : {0}]
             \union [form : {"hostPort"}, port : {0, 1, 443, 8443, 65536}],
     a \in [form : {"absent", "null", "other"}, ports : {{}}]
             \union [form : {"list"},
                     ports : {{}, {Port(443)}, {Port(80), Port(8443)}, {True}, {Port(443), Port(0)},
                              {Port(443), PortText}}],
     f \in Flags, b \in Flags}

\* Everything main needs besides.
MainConfigs ==
  {[Minimal EXCEPT !.listenerPort = l, !.launchDns = d, !.dnsPort = q, !.upstreams = u,
                   !.healthPortOk = h, !.intervalOk = i, !.connectTimeoutOk = t] :
     l \in {NoPort, Port(0), True}, d \in BOOLEAN, q \in {NoPort, Port(53), Port(65536)},
     u \in [form : {"absent", "other"}, items : {{}}]
             \union [form : {"value"}, items : SUBSET {"url", "blank", "invalid"}],
     h \in BOOLEAN, i \in BOOLEAN, t \in BOOLEAN}

BinaryConfigs ==
  {[Minimal EXCEPT !.launchDns = d, !.dnsPort = Port(53), !.skipBinaries = s, !.failClosed = f,
                   !.upstreams = [form |-> "value", items |-> {"url"}],
                   !.validateOnly = v, !.pproxyInstalled = p, !.funkydnsInstalled = q,
                   !.statusAgeOk = a] :
     d \in BOOLEAN, s \in BOOLEAN, v \in BOOLEAN, p \in BOOLEAN, q \in BOOLEAN,
     f \in {"true", "false"}, a \in BOOLEAN}

Configurations == HopConfigs \union GateConfigs \union MainConfigs \union BinaryConfigs
=============================================================================
