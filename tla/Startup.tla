------------------------------ MODULE Startup -------------------------------
(***************************************************************************)
(* From the configuration an operator writes to a running chain: load_cfg  *)
(* normalises it, run_preflight accepts or refuses it, and main, the hop   *)
(* health thread and start_pproxy then use what was accepted, without      *)
(* looking again.  Each of them can raise; the question is what preflight  *)
(* promises its consumers.                                                 *)
(*                                                                         *)
(* A setting is a member of a small set of the cases the code tells apart. *)
(* pproxy keeps running once it is up, and no stop is signalled: see       *)
(* Supervisor for both.                                                    *)
(***************************************************************************)
EXTENDS Naturals, Sequences

CONSTANT Raws   \* the configurations, and the environments, to start from

(***************************************************************************)
(* Settings.  A port is a JSON number, true (which Python counts as 1) or  *)
(* something else.  A hop is written as an object, as a plain URL or as    *)
(* anything else; a URL is named for what urlparse makes of it.            *)
(***************************************************************************)
Ports == [type : {"int", "true", "other", "absent"}, n : 0..65536]

Urls ==
  {"proxy", "portZero", "portTooLarge", "portNotNumeric", "noHost", "otherScheme",
   "malformed", "notText", "empty", "missing"}

HopEntries == [form : {"object", "text", "other"}, url : Urls]
HopLists == [form : {"absent", "null", "list"}, hops : Seq(HopEntries)]

Canaries ==
  [form : {"absent", "empty", "notText", "noColon", "noHost", "portNotNumeric", "hostPort"},
   port : 0..65536]
AllowedPorts == [form : {"absent", "null", "list", "other"}, ports : SUBSET Ports]
Flags == {"absent", "null", "true", "false", "textFalse"}
Upstreams ==
  [form : {"absent", "value", "other"}, items : SUBSET {"url", "blank", "invalid", "notText"}]

\* The fields from skipBinaries on belong to the environment, the others are in the file:
\* EGRESSD_PREFLIGHT_SKIP_BIN_CHECKS, --check-config, what is installed.  statusAgeOk:
\* max_hop_status_age_s covers a round of probes and the poll after it.
RawConfigs ==
  [proxies : HopLists, hops : HopLists, nullSection : BOOLEAN,
   canary : Canaries, allowed : AllowedPorts, failClosed : Flags, blockStart : Flags,
   listenerPort : Ports, launchDns : BOOLEAN, dnsPort : Ports, upstreams : Upstreams,
   healthPortOk : BOOLEAN, intervalOk : BOOLEAN, connectTimeoutOk : BOOLEAN,
   statusAgeOk : BOOLEAN,
   chainVisual : BOOLEAN,
   skipBinaries : BOOLEAN, validateOnly : BOOLEAN,
   pproxyInstalled : BOOLEAN, funkydnsInstalled : BOOLEAN]

ASSUME StartupAssumption == Raws \subseteq RawConfigs
-----------------------------------------------------------------------------
(***************************************************************************)
(* normalize_cfg.                                                          *)
(***************************************************************************)
\* Mutant: the shorthand wins over chain.hops.
ChosenProxiesFirst(raw) == IF raw.proxies.form # "absent" THEN raw.proxies ELSE raw.hops

Chosen(raw) == IF raw.hops.form # "absent" THEN raw.hops ELSE raw.proxies

Wrapped(hop) == IF hop.form = "text" THEN [hop EXCEPT !.form = "object"] ELSE hop

\* Iterating over null, or a section that is not an object, raises.
LoadRaises(raw) == raw.nullSection \/ Chosen(raw).form = "null"

OrDefault(setting, default) == IF setting.form = "absent" THEN default ELSE setting

DefaultCanary == [form |-> "hostPort", port |-> 443]
DefaultAllowed ==
  [form |-> "list", ports |-> {[type |-> "int", n |-> 80], [type |-> "int", n |-> 443]}]

\* Mutant: the listener has no default port.
NormalizeNoPort(raw) ==
  [raw EXCEPT
    !.proxies = [form |-> "absent", hops |-> <<>>],
    !.hops = [form |-> "list",
              hops |-> [i \in DOMAIN Chosen(raw).hops |-> Wrapped(Chosen(raw).hops[i])]],
    !.canary = OrDefault(raw.canary, DefaultCanary),
    !.allowed = OrDefault(raw.allowed, DefaultAllowed),
    !.failClosed = IF @ = "absent" THEN "true" ELSE @]

normalize_cfg(raw) ==
  [raw EXCEPT
    !.proxies = [form |-> "absent", hops |-> <<>>],
    !.hops = [form |-> "list",
              hops |-> [i \in DOMAIN Chosen(raw).hops |-> Wrapped(Chosen(raw).hops[i])]],
    !.canary = OrDefault(raw.canary, DefaultCanary),
    !.allowed = OrDefault(raw.allowed, DefaultAllowed),
    !.failClosed = IF @ = "absent" THEN "true" ELSE @,
    !.listenerPort = IF @.type = "absent" THEN [type |-> "int", n |-> 15001] ELSE @]

HopsOf(cfg) == {cfg.hops.hops[i] : i \in DOMAIN cfg.hops.hops}

\* hop.get("url") of an object, when Python takes it for true.
HasUrl(hop) == hop.form = "object" /\ hop.url \notin {"empty", "missing"}
-----------------------------------------------------------------------------
(***************************************************************************)
(* run_preflight.  urlparse(...).port raises on a port that is not a       *)
(* number up to 65535; nothing in preflight catches it.                    *)
(***************************************************************************)
PortRaises(url) == url \in {"portTooLarge", "portNotNumeric"}
UrlparseRaises(url) == url \in {"malformed", "notText"}

ValidPort(port) == port.type \in {"int", "true"} /\ port.n \in 1..65535

PreflightRaises(cfg) ==
  \E hop \in HopsOf(cfg) : HasUrl(hop) /\ (UrlparseRaises(hop.url) \/ PortRaises(hop.url))

ListenerWrong(cfg) == ~ValidPort(cfg.listenerPort)

AllowedPortsWrong(cfg) ==
  \/ cfg.allowed.form = "other"
  \/ cfg.allowed.form = "list" /\ cfg.allowed.ports = {}
  \/ cfg.allowed.form = "list" /\ \E port \in cfg.allowed.ports : ~ValidPort(port)

HopWrong(hop) == ~HasUrl(hop) \/ hop.url \in {"otherScheme", "noHost", "portZero"}

\* Mutant: an entry without a URL is passed over.
HopsWrongSkipsEmpty(cfg) ==
  \/ cfg.hops.hops = <<>>
  \/ \E hop \in HopsOf(cfg) : HasUrl(hop) /\ hop.url \in {"otherScheme", "noHost", "portZero"}

HopsWrong(cfg) == cfg.hops.hops = <<>> \/ \E hop \in HopsOf(cfg) : HopWrong(hop)

CanaryWrong(cfg) ==
  \/ cfg.canary.form \in {"noColon", "noHost", "portNotNumeric"}
  \/ cfg.canary.form = "hostPort" /\ cfg.canary.port \notin 1..65535

\* bool("false") is true, bool(None) is not.
Truthy(flag) == flag \in {"true", "textFalse"}

\* Mutant: the canary is compared with the default ports.
CanaryNotInDefault(cfg) ==
  /\ cfg.canary.form \in {"noHost", "hostPort"}
  /\ Truthy(cfg.failClosed) /\ cfg.allowed.form = "list"
  /\ \A port \in DefaultAllowed.ports : port.n # cfg.canary.port

CanaryNotAllowed(cfg) ==
  /\ cfg.canary.form \in {"noHost", "hostPort"}
  /\ Truthy(cfg.failClosed) /\ cfg.allowed.form = "list"
  /\ \A port \in cfg.allowed.ports : port.type \in {"int", "true"} => port.n # cfg.canary.port

BinariesWrong(cfg) ==
  ~cfg.skipBinaries /\ (~cfg.pproxyInstalled \/ (cfg.launchDns /\ ~cfg.funkydnsInstalled))

DnsPortWrong(cfg) == cfg.launchDns /\ ~ValidPort(cfg.dnsPort)

run_preflight(cfg) ==
  ~(\/ ListenerWrong(cfg) \/ AllowedPortsWrong(cfg) \/ HopsWrong(cfg) \/ CanaryWrong(cfg)
    \/ CanaryNotAllowed(cfg) \/ BinariesWrong(cfg) \/ DnsPortWrong(cfg))
-----------------------------------------------------------------------------
(***************************************************************************)
(* The consumers.                                                          *)
(***************************************************************************)
\* _extract_hop_label survives urlparse but not the port.
LabelRaises(cfg) ==
  cfg.chainVisual /\ \E hop \in HopsOf(cfg) : HasUrl(hop) /\ PortRaises(hop.url)

\* normalize_funkydns_upstreams; a CSV or JSON text counts as its items.
UpstreamsRaise(upstreams) ==
  \/ upstreams.form # "value"
  \/ upstreams.items \cap {"invalid", "notText"} # {}
  \/ "url" \notin upstreams.items

StartDnsRaises(cfg) ==
  cfg.launchDns /\ (UpstreamsRaise(cfg.upstreams) \/ ~cfg.funkydnsInstalled)

\* check_hop_connectivity turns a ValueError into a failed probe, nothing else.
ProbeRaises(cfg) ==
  cfg.canary.form # "empty" /\ \E hop \in HopsOf(cfg) : HasUrl(hop) /\ hop.url = "notText"

\* The loop probes str(canary_target); what comes of a null or a number has no port, and
\* no proxy connects to it.
CanaryUsable(cfg) == cfg.canary.form \notin {"empty", "notText"}

CanSucceed(cfg, hop) ==
  HasUrl(hop) /\ hop.url \in {"proxy", "portZero"} /\ CanaryUsable(cfg)

\* _as_bool: only known words are true, and null takes the default.
AsBool(flag, default) == IF flag \in {"absent", "null"} THEN default ELSE flag = "true"

Gated(cfg) == AsBool(cfg.blockStart, AsBool(cfg.failClosed, TRUE))

\* build_relay_string, and Popen with a binary that is not there.
StartRaises(cfg) ==
  \/ cfg.hops.hops = <<>>
  \/ \E hop \in HopsOf(cfg) : hop.form # "object" \/ hop.url \in {"missing", "notText"}
  \/ ~cfg.pproxyInstalled

RelayUrls(cfg) == [i \in DOMAIN cfg.hops.hops |-> cfg.hops.hops[i].url]
-----------------------------------------------------------------------------
VARIABLES
  raw,          \* what the operator wrote, and where it is run
  stage,        \* where main is
  prober,       \* where the hop health thread is
  chainOk,      \* STATE["hops"], as compute_startup_gate sees it
  startFailed,  \* start_pproxy has raised
  relay,        \* the URLs pproxy was given
  net           \* whether every hop that is a proxy answers

vars == <<raw, stage, prober, chainOk, startFailed, relay, net>>

Config == normalize_cfg(raw)

Accepted ==
  {"visual", "serve", "dns", "refresh", "threads", "loop", "gate", "start", "backoff", "up"}
Stages == Accepted \union {"load", "check", "crashed", "refused", "validated"}

TypeOK ==
  /\ raw \in RawConfigs
  /\ stage \in Stages
  /\ prober \in {"none", "probe", "sleep", "dead"}
  /\ chainOk \in BOOLEAN /\ startFailed \in BOOLEAN /\ net \in BOOLEAN
  /\ relay \in Seq(Urls)
  /\ Config.listenerPort.type # "absent"

Init ==
  /\ raw \in Raws
  /\ stage = "load" /\ prober = "none"
  /\ chainOk = FALSE /\ startFailed = FALSE /\ relay = <<>>
  /\ net \in BOOLEAN

MainMove(from, to) ==
  /\ stage = from /\ stage' = to
  /\ UNCHANGED <<raw, prober, chainOk, startFailed, relay, net>>

Load == MainMove("load", IF LoadRaises(raw) THEN "crashed" ELSE "check")

Check ==
  MainMove("check",
    IF PreflightRaises(Config) THEN "crashed"
    ELSE IF raw.validateOnly THEN "validated"
    ELSE IF run_preflight(Config) THEN "visual" ELSE "refused")

PrintChainVisual == MainMove("visual", IF LabelRaises(Config) THEN "crashed" ELSE "serve")

\* int(health_port) and the bind of the health server.
RunHealthServer == MainMove("serve", IF raw.healthPortOk THEN "dns" ELSE "crashed")

StartFunkydns == MainMove("dns", IF StartDnsRaises(Config) THEN "crashed" ELSE "refresh")

\* compute_readiness reads hop_check_interval_s and max_hop_status_age_s with int().
RefreshReadyState == MainMove("refresh", IF raw.intervalOk THEN "threads" ELSE "crashed")

StartHopHealthLoop ==
  /\ stage = "threads" /\ stage' = "loop"
  /\ prober' = "probe"
  /\ UNCHANGED <<raw, chainOk, startFailed, relay, net>>

EnterLoop == MainMove("loop", IF Gated(Config) THEN "gate" ELSE "start")

\* A status is fresh when it is polled, or, with a bound that is negative or shorter than
\* a round, never.
WaitForChainReady == chainOk /\ raw.statusAgeOk /\ MainMove("gate", "start")

StartPproxy ==
  /\ stage = "start"
  /\ IF StartRaises(Config)
     THEN stage' = "backoff" /\ startFailed' = TRUE /\ UNCHANGED relay
     ELSE stage' = "up" /\ relay' = RelayUrls(Config) /\ UNCHANGED startFailed
  /\ UNCHANGED <<raw, prober, chainOk, net>>

BackOff == MainMove("backoff", "loop")

Main ==
  \/ Load \/ Check \/ PrintChainVisual \/ RunHealthServer \/ StartFunkydns
  \/ RefreshReadyState \/ StartHopHealthLoop \/ EnterLoop \/ WaitForChainReady
  \/ StartPproxy \/ BackOff

Healthy == net /\ \A hop \in HopsOf(Config) : CanSucceed(Config, hop)

\* Mutant: the thread ends after a round in which the chain was not healthy.
ProbeOnce ==
  /\ prober = "probe"
  /\ chainOk' = Healthy
  /\ prober' = (IF chainOk' THEN "sleep" ELSE "dead")
  /\ UNCHANGED <<raw, stage, startFailed, relay, net>>

\* One round of collect_hop_statuses, which begins with int(connect_timeout_ms), then
\* set_hop_statuses and print_chain_visual.  Nothing catches what they raise: the thread ends.
Probe ==
  LET unfinished == ~raw.connectTimeoutOk \/ ProbeRaises(Config)
  IN  /\ prober = "probe"
      /\ prober' = (IF unfinished \/ LabelRaises(Config) THEN "dead" ELSE "sleep")
      /\ chainOk' = IF unfinished THEN chainOk ELSE Healthy
      /\ UNCHANGED <<raw, stage, startFailed, relay, net>>

Sleep ==
  /\ prober = "sleep" /\ prober' = "probe"
  /\ UNCHANGED <<raw, stage, chainOk, startFailed, relay, net>>

HopHealthLoop == Probe \/ Sleep

\* Environment: proxies fail and recover.
NetChanges ==
  /\ net' = ~net
  /\ UNCHANGED <<raw, stage, prober, chainOk, startFailed, relay>>

Next == Main \/ HopHealthLoop \/ NetChanges

Spec == Init /\ [][Next]_vars

\* main and the thread are scheduled; the proxies owe nothing.
FairSpec == Spec /\ WF_vars(Main) /\ WF_vars(HopHealthLoop)
-----------------------------------------------------------------------------
(***************************************************************************)
(* What preflight does not look at, and its consumers rely on: the health  *)
(* port, the intervals, the upstreams, and the binaries if it is told to   *)
(* skip them.                                                              *)
(***************************************************************************)
UncheckedSettingsUsable ==
  /\ raw.healthPortOk /\ raw.intervalOk /\ raw.connectTimeoutOk
  /\ raw.launchDns => ~UpstreamsRaise(raw.upstreams)
  /\ raw.skipBinaries => raw.pproxyInstalled /\ (raw.launchDns => raw.funkydnsInstalled)

\* Preflight refuses every configuration its consumers would raise on, but for the settings
\* it does not look at: what was accepted crashes neither main nor the hop health thread
\* (which nobody watches), and start_pproxy can build its relay.
AcceptedRuns ==
  stage \in Accepted \union {"crashed"} /\ ~LoadRaises(raw) /\ ~PreflightRaises(Config)
    => (UncheckedSettingsUsable => stage # "crashed" /\ prober # "dead" /\ ~startFailed)

\* The chain pproxy is started with is the one the operator wrote, entry by entry and in
\* order, chain.hops before the shorthand, and every entry of it is a usable proxy URL.
RelayIsTheWrittenChain ==
  LET written == IF raw.hops.form = "list" THEN raw.hops.hops ELSE raw.proxies.hops
  IN  stage = "up" =>
        /\ relay = [i \in DOMAIN written |-> written[i].url]
        /\ relay # <<>> /\ \A i \in DOMAIN relay : relay[i] = "proxy"

\* Where main waits for the hops because the chain is fail-closed, the canary's port is one
\* of allowed_ports.  Not so with fail_closed: null, which preflight takes for false and the
\* gate for its default, true, nor where block_start_until_hops_healthy asks for the gate.
GatedCanaryAllowed ==
  stage = "gate" /\ AsBool(raw.blockStart, FALSE) = FALSE /\ raw.failClosed # "null"
    /\ Config.canary.form = "hostPort" /\ Config.allowed.form = "list"
    => \E port \in Config.allowed.ports : port.n = Config.canary.port

\* What the gate waits for, and preflight does not insist on: a canary it can probe (an
\* empty one, null or a number is a warning) and statuses that live to be polled.
GateCanOpen == CanaryUsable(Config) /\ raw.statusAgeOk

\* A configuration that is accepted and usable where preflight does not look comes up once
\* its hops answer for good, if it has no gate or the gate can open: nothing else it passes
\* on the way holds it back.
AcceptedComesUp ==
  <>[]net =>
    (stage = "visual" /\ UncheckedSettingsUsable /\ (Gated(Config) => GateCanOpen)
       ~> stage = "up")
=============================================================================
