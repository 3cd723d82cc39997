--------------------------- MODULE StartupProofs ----------------------------
(***************************************************************************)
(* Startup for every set of configurations.                                *)
(***************************************************************************)
EXTENDS Startup, TLAPS

\* Normalising keeps the list the operator chose, entry by entry, with plain URLs wrapped.
LEMMA NormalizedHops ==
  ASSUME raw \in RawConfigs
  PROVE  /\ Config.hops.hops \in Seq(HopEntries)
         /\ Config.hops.hops = [i \in DOMAIN Chosen(raw).hops |-> Wrapped(Chosen(raw).hops[i])]
         /\ Config.listenerPort.type # "absent"
         /\ \A f \in {"launchDns", "upstreams", "skipBinaries", "pproxyInstalled",
                      "funkydnsInstalled"} : Config[f] = raw[f]
<1>1. Chosen(raw) \in HopLists
  BY DEF Chosen, RawConfigs
<1>2. Chosen(raw).hops \in Seq(HopEntries)
  BY <1>1 DEF HopLists
<1>3. \A hop \in HopEntries : Wrapped(hop) \in HopEntries
  BY DEF Wrapped, HopEntries
<1>4. [i \in DOMAIN Chosen(raw).hops |-> Wrapped(Chosen(raw).hops[i])] \in Seq(HopEntries)
  BY <1>2, <1>3
<1> QED
  BY <1>4 DEF Config, normalize_cfg, RawConfigs

\* What pproxy is given is a sequence of URLs.
LEMMA RelayType ==
  ASSUME raw \in RawConfigs
  PROVE  RelayUrls(Config) \in Seq(Urls)
<1>1. Config.hops.hops \in Seq(HopEntries)
  BY NormalizedHops
<1>2. \A hop \in HopEntries : hop.url \in Urls
  BY DEF HopEntries
<1> QED
  BY <1>1, <1>2 DEF RelayUrls

\* Every variable of the start-up keeps its type.
THEOREM TypeCorrect == Spec => []TypeOK
<1>1. Init => TypeOK
  <2> SUFFICES ASSUME Init
               PROVE  TypeOK
    OBVIOUS
  <2>1. raw \in RawConfigs
    BY StartupAssumption DEF Init
  <2>2. Config.listenerPort.type # "absent"
    BY <2>1, NormalizedHops
  <2>3. relay \in Seq(Urls)
    BY DEF Init
  <2>4. stage \in Stages /\ prober \in {"none", "probe", "sleep", "dead"}
    BY DEF Init, Stages
  <2>5. chainOk \in BOOLEAN /\ startFailed \in BOOLEAN /\ net \in BOOLEAN
    BY DEF Init
  <2> QED
    BY <2>1, <2>2, <2>3, <2>4, <2>5 DEF TypeOK
<1>2. TypeOK /\ [Next]_vars => TypeOK'
  <2> SUFFICES ASSUME TypeOK, [Next]_vars
               PROVE  TypeOK'
    OBVIOUS
  <2>1. raw' = raw
    BY DEF Next, Main, Load, Check, PrintChainVisual, RunHealthServer, StartFunkydns,
           RefreshReadyState, StartHopHealthLoop, EnterLoop, WaitForChainReady, StartPproxy,
           BackOff, MainMove, HopHealthLoop, Probe, Sleep, NetChanges, vars
  <2>2. Config' = Config
    BY <2>1 DEF Config
  <2>3. stage' \in Stages
    BY DEF TypeOK, Stages, Accepted, Next, Main, Load, Check, PrintChainVisual, RunHealthServer,
           StartFunkydns, RefreshReadyState, StartHopHealthLoop, EnterLoop, WaitForChainReady,
           StartPproxy, BackOff, MainMove, HopHealthLoop, Probe, Sleep, NetChanges, vars
  <2>4. prober' \in {"none", "probe", "sleep", "dead"}
    BY DEF TypeOK, Next, Main, Load, Check, PrintChainVisual, RunHealthServer, StartFunkydns,
           RefreshReadyState, StartHopHealthLoop, EnterLoop, WaitForChainReady, StartPproxy,
           BackOff, MainMove, HopHealthLoop, Probe, Sleep, NetChanges, vars
  <2>5. chainOk' \in BOOLEAN
    <3>1. CASE Probe
      BY <3>1 DEF TypeOK, Probe, Healthy
    <3>2. CASE chainOk' = chainOk
      BY <3>2 DEF TypeOK
    <3> QED
      BY <3>1, <3>2 DEF Next, Main, Load, Check, PrintChainVisual, RunHealthServer, StartFunkydns,
                        RefreshReadyState, StartHopHealthLoop, EnterLoop, WaitForChainReady,
                        StartPproxy, BackOff, MainMove, HopHealthLoop, Sleep, NetChanges, vars
  <2>6. startFailed' \in BOOLEAN /\ relay' \in Seq(Urls)
    <3>1. CASE StartPproxy
      BY <3>1, RelayType DEF TypeOK, StartPproxy
    <3>2. CASE UNCHANGED <<startFailed, relay>>
      BY <3>2 DEF TypeOK
    <3> QED
      BY <3>1, <3>2 DEF Next, Main, Load, Check, PrintChainVisual, RunHealthServer, StartFunkydns,
                        RefreshReadyState, StartHopHealthLoop, EnterLoop, WaitForChainReady,
                        BackOff, MainMove, HopHealthLoop, Probe, Sleep, NetChanges, vars
  <2>7. net' \in BOOLEAN
    BY DEF TypeOK, Next, Main, Load, Check, PrintChainVisual, RunHealthServer, StartFunkydns,
           RefreshReadyState, StartHopHealthLoop, EnterLoop, WaitForChainReady, StartPproxy,
           BackOff, MainMove, HopHealthLoop, Probe, Sleep, NetChanges, vars
  <2> QED
    BY <2>1, <2>2, <2>3, <2>4, <2>5, <2>6, <2>7 DEF TypeOK
<1> QED
  BY <1>1, <1>2, PTL DEF Spec
-----------------------------------------------------------------------------
(***************************************************************************)
(* What passed preflight stays passed, since nothing changes the           *)
(* configuration; whoever raised later tripped over a setting preflight    *)
(* does not look at; and the thread starts after all that may crash main.  *)
(***************************************************************************)
AcceptedInv ==
  /\ stage \in Accepted => ~PreflightRaises(Config) /\ run_preflight(Config)
  /\ prober # "none" => stage \in {"loop", "gate", "start", "backoff", "up"}
  /\ stage = "crashed" =>
       LoadRaises(raw) \/ PreflightRaises(Config) \/ ~UncheckedSettingsUsable
  /\ prober = "dead" \/ startFailed => ~UncheckedSettingsUsable

\* Behind preflight the hops, and the binaries if they were not skipped, are usable.
LEMMA WhatPreflightPromises ==
  ASSUME raw \in RawConfigs, ~PreflightRaises(Config), run_preflight(Config),
         UncheckedSettingsUsable
  PROVE  ~LabelRaises(Config) /\ ~StartDnsRaises(Config) /\ ~ProbeRaises(Config)
           /\ ~StartRaises(Config)
<1>1. /\ Config.launchDns = raw.launchDns /\ Config.upstreams = raw.upstreams
      /\ Config.skipBinaries = raw.skipBinaries
      /\ Config.pproxyInstalled = raw.pproxyInstalled
      /\ Config.funkydnsInstalled = raw.funkydnsInstalled
  BY NormalizedHops
<1>2. ~HopsWrong(Config) /\ ~BinariesWrong(Config)
  BY DEF run_preflight
<1>3. \A hop \in HopsOf(Config) : /\ HasUrl(hop) /\ ~UrlparseRaises(hop.url)
                                  /\ ~PortRaises(hop.url)
  BY <1>2 DEF HopsWrong, HopWrong, PreflightRaises
<1>4. ~LabelRaises(Config) /\ ~ProbeRaises(Config)
  BY <1>3 DEF LabelRaises, ProbeRaises, UrlparseRaises
<1>5. raw.pproxyInstalled /\ (raw.launchDns => raw.funkydnsInstalled)
  BY <1>1, <1>2 DEF BinariesWrong, UncheckedSettingsUsable
<1>6. ~StartDnsRaises(Config)
  BY <1>1, <1>5 DEF StartDnsRaises, UncheckedSettingsUsable
<1>7. ~StartRaises(Config)
  BY <1>1, <1>2, <1>3, <1>5 DEF StartRaises, HopsWrong, HasUrl, UrlparseRaises
<1> QED
  BY <1>4, <1>6, <1>7

\* Every step keeps it.
LEMMA AcceptedStep == TypeOK /\ AcceptedInv /\ [Next]_vars => AcceptedInv'
<1> SUFFICES ASSUME TypeOK, AcceptedInv, [Next]_vars
             PROVE  AcceptedInv'
  OBVIOUS
<1>1. raw' = raw
  BY DEF Next, Main, Load, Check, PrintChainVisual, RunHealthServer, StartFunkydns,
         RefreshReadyState, StartHopHealthLoop, EnterLoop, WaitForChainReady, StartPproxy,
         BackOff, MainMove, HopHealthLoop, Probe, Sleep, NetChanges, vars
<1>2. Config' = Config
  BY <1>1 DEF Config
<1>3. /\ PreflightRaises(Config)' = PreflightRaises(Config)
      /\ run_preflight(Config)' = run_preflight(Config)
      /\ LoadRaises(raw)' = LoadRaises(raw)
      /\ UncheckedSettingsUsable' = UncheckedSettingsUsable
  BY <1>1, <1>2 DEF UncheckedSettingsUsable
<1>4. stage \in Accepted /\ UncheckedSettingsUsable =>
        ~LabelRaises(Config) /\ ~StartDnsRaises(Config) /\ ~ProbeRaises(Config)
          /\ ~StartRaises(Config)
  BY WhatPreflightPromises DEF AcceptedInv, TypeOK
<1>5. CASE Load
  BY <1>3, <1>5 DEF AcceptedInv, Load, MainMove, Accepted
<1>6. CASE Check
  BY <1>3, <1>6 DEF AcceptedInv, Check, MainMove, Accepted
<1>7. CASE PrintChainVisual \/ StartFunkydns \/ RunHealthServer \/ RefreshReadyState
  <2>1. stage \in Accepted
    BY <1>7 DEF PrintChainVisual, StartFunkydns, RunHealthServer, RefreshReadyState, MainMove,
                Accepted
  <2>2. \/ stage' \in {"serve", "dns", "refresh", "threads"}
        \/ stage' = "crashed" /\ ~UncheckedSettingsUsable
    <3>1. CASE PrintChainVisual
      BY <1>4, <2>1, <3>1 DEF PrintChainVisual, MainMove
    <3>2. CASE StartFunkydns
      BY <1>4, <2>1, <3>2 DEF StartFunkydns, MainMove
    <3>3. CASE RunHealthServer
      BY <3>3 DEF RunHealthServer, MainMove, UncheckedSettingsUsable
    <3>4. CASE RefreshReadyState
      BY <3>4 DEF RefreshReadyState, MainMove, UncheckedSettingsUsable
    <3> QED
      BY <1>7, <3>1, <3>2, <3>3, <3>4
  <2>3. UNCHANGED <<prober, startFailed>> /\ prober = "none"
    BY <1>7 DEF AcceptedInv, PrintChainVisual, StartFunkydns, RunHealthServer, RefreshReadyState,
                MainMove
  <2> QED
    BY <1>3, <2>1, <2>2, <2>3 DEF AcceptedInv, Accepted
<1>8. CASE StartHopHealthLoop \/ EnterLoop \/ WaitForChainReady \/ BackOff
  <2>1. /\ stage \in Accepted /\ stage' \in {"loop", "gate", "start"}
        /\ UNCHANGED startFailed /\ (prober' = prober \/ prober' = "probe")
    BY <1>8 DEF StartHopHealthLoop, EnterLoop, WaitForChainReady, BackOff, MainMove, Accepted
  <2> QED
    BY <1>3, <2>1 DEF AcceptedInv, Accepted
<1>9. CASE StartPproxy
  <2>1. stage \in Accepted /\ stage' \in {"backoff", "up"} /\ UNCHANGED prober
    BY <1>9 DEF StartPproxy, Accepted
  <2>2. startFailed' => startFailed \/ ~UncheckedSettingsUsable
    BY <1>4, <1>9, <2>1 DEF StartPproxy
  <2> QED
    BY <1>3, <2>1, <2>2 DEF AcceptedInv, Accepted
<1>10. CASE Probe
  <2>1. prober # "none" /\ prober' # "none" /\ UNCHANGED <<stage, startFailed>>
    BY <1>10 DEF Probe
  <2>2. stage \in Accepted
    BY <2>1 DEF AcceptedInv, Accepted
  <2>3. prober' = "dead" => ~UncheckedSettingsUsable
    BY <1>4, <1>10, <2>2 DEF Probe, UncheckedSettingsUsable
  <2> QED
    BY <1>3, <2>1, <2>3 DEF AcceptedInv
<1>11. CASE Sleep \/ NetChanges \/ UNCHANGED vars
  BY <1>3, <1>11 DEF AcceptedInv, Sleep, NetChanges, vars
<1> QED
  BY <1>5, <1>6, <1>7, <1>8, <1>9, <1>10, <1>11 DEF Next, Main, HopHealthLoop

\* For every set of configurations: whatever preflight accepts, none of its consumers
\* raises on, but for the settings preflight does not look at.
THEOREM PreflightProtects == Spec => []AcceptedRuns
<1>1. Init => AcceptedInv
  BY DEF Init, AcceptedInv, Accepted
<1>2. AcceptedInv => AcceptedRuns
  BY DEF AcceptedInv, AcceptedRuns, Accepted
<1> QED
  BY <1>1, <1>2, TypeCorrect, AcceptedStep, PTL DEF Spec
-----------------------------------------------------------------------------
(***************************************************************************)
(* Whatever is loaded keeps its entries, so that the URLs of the accepted  *)
(* chain are those written.                                                *)
(***************************************************************************)
RelayInv ==
  /\ stage \notin {"load", "crashed"} => ~LoadRaises(raw)
  /\ stage = "up" => relay = RelayUrls(Config)

\* Wrapping a plain URL keeps it, so normalising keeps every URL in its place.
LEMMA UrlsKept ==
  ASSUME raw \in RawConfigs
  PROVE  RelayUrls(Config) = [i \in DOMAIN Chosen(raw).hops |-> Chosen(raw).hops[i].url]
<1>1. Chosen(raw).hops \in Seq(HopEntries)
  BY DEF Chosen, RawConfigs, HopLists
<1>2. \A hop \in HopEntries : Wrapped(hop).url = hop.url
  BY DEF Wrapped, HopEntries
<1>3. \A i \in DOMAIN Chosen(raw).hops : Wrapped(Chosen(raw).hops[i]).url = Chosen(raw).hops[i].url
  BY <1>1, <1>2
<1> QED
  BY <1>3, NormalizedHops DEF RelayUrls

\* The URLs of an accepted chain are usable, and there is at least one.
LEMMA AcceptedUrls ==
  ASSUME raw \in RawConfigs, ~PreflightRaises(Config), run_preflight(Config)
  PROVE  RelayUrls(Config) # <<>> /\ \A i \in DOMAIN RelayUrls(Config) :
                                        RelayUrls(Config)[i] = "proxy"
<1>1. Config.hops.hops \in Seq(HopEntries)
  BY NormalizedHops
<1>2. Config.hops.hops # <<>> /\ \A hop \in HopsOf(Config) : ~HopWrong(hop)
  BY DEF run_preflight, HopsWrong
<1>3. \A hop \in HopsOf(Config) : hop \in HopEntries
  BY <1>1 DEF HopsOf
<1>4. \A hop \in HopsOf(Config) : hop.url = "proxy"
  BY <1>2, <1>3 DEF HopWrong, PreflightRaises, UrlparseRaises, PortRaises, HasUrl, HopEntries,
                    Urls
<1> QED
  BY <1>1, <1>2, <1>4 DEF RelayUrls, HopsOf

\* For every set of configurations: pproxy is given exactly the chain that was written.
THEOREM ChainReachesPproxy == Spec => []RelayIsTheWrittenChain
<1>1. Init => AcceptedInv /\ RelayInv
  BY DEF Init, AcceptedInv, RelayInv, Accepted
<1>2. TypeOK /\ RelayInv /\ [Next]_vars => RelayInv'
  <2> SUFFICES ASSUME TypeOK, RelayInv, [Next]_vars
               PROVE  RelayInv'
    OBVIOUS
  <2>1. raw' = raw /\ Config' = Config
    BY DEF Config, Next, Main, Load, Check, PrintChainVisual, RunHealthServer, StartFunkydns,
           RefreshReadyState, StartHopHealthLoop, EnterLoop, WaitForChainReady, StartPproxy,
           BackOff, MainMove, HopHealthLoop, Probe, Sleep, NetChanges, vars
  <2>2. stage' \notin {"load", "crashed"} => ~LoadRaises(raw)
    BY DEF RelayInv, Next, Main, Load, Check, PrintChainVisual, RunHealthServer, StartFunkydns,
           RefreshReadyState, StartHopHealthLoop, EnterLoop, WaitForChainReady, StartPproxy,
           BackOff, MainMove, HopHealthLoop, Probe, Sleep, NetChanges, vars
  <2>3. stage' = "up" => relay' = RelayUrls(Config)
    BY DEF RelayInv, Next, Main, Load, Check, PrintChainVisual, RunHealthServer, StartFunkydns,
           RefreshReadyState, StartHopHealthLoop, EnterLoop, WaitForChainReady, StartPproxy,
           BackOff, MainMove, HopHealthLoop, Probe, Sleep, NetChanges, vars
  <2> QED
    BY <2>1, <2>2, <2>3 DEF RelayInv
<1>3. TypeOK /\ AcceptedInv /\ RelayInv => RelayIsTheWrittenChain
  <2> SUFFICES ASSUME TypeOK, AcceptedInv, RelayInv, stage = "up"
               PROVE  RelayIsTheWrittenChain
    BY DEF RelayIsTheWrittenChain
  <2>1. raw \in RawConfigs /\ ~PreflightRaises(Config) /\ run_preflight(Config)
    BY DEF TypeOK, AcceptedInv, Accepted
  <2>2. relay = RelayUrls(Config) /\ ~LoadRaises(raw)
    BY DEF RelayInv
  <2>3. Chosen(raw) = IF raw.hops.form = "list" THEN raw.hops ELSE raw.proxies
    BY <2>1, <2>2 DEF Chosen, LoadRaises, RawConfigs, HopLists
  <2> QED
    BY <2>1, <2>2, <2>3, UrlsKept, AcceptedUrls DEF RelayIsTheWrittenChain
<1> QED
  BY <1>1, <1>2, <1>3, TypeCorrect, AcceptedStep, PTL DEF Spec
-----------------------------------------------------------------------------
\* Main waits at the gate only where the configuration asks for it.
GateInv == stage = "gate" => Gated(Config)

\* Every step keeps it, since the configuration does not change.
LEMMA GateStep == GateInv /\ [Next]_vars => GateInv'
<1> SUFFICES ASSUME GateInv, [Next]_vars
             PROVE  GateInv'
  OBVIOUS
<1>1. Config' = Config
  BY DEF Config, Next, Main, Load, Check, PrintChainVisual, RunHealthServer, StartFunkydns,
         RefreshReadyState, StartHopHealthLoop, EnterLoop, WaitForChainReady, StartPproxy,
         BackOff, MainMove, HopHealthLoop, Probe, Sleep, NetChanges, vars
<1>2. stage' = "gate" => stage = "gate" \/ Gated(Config)
  BY DEF Next, Main, Load, Check, PrintChainVisual, RunHealthServer, StartFunkydns,
         RefreshReadyState, StartHopHealthLoop, EnterLoop, WaitForChainReady, StartPproxy,
         BackOff, MainMove, HopHealthLoop, Probe, Sleep, NetChanges, vars
<1> QED
  BY <1>1, <1>2 DEF GateInv

\* The gate that a fail-closed chain waits for can open: preflight and the gate read the two
\* settings alike, but for null.
THEOREM GatedCanaryIsAllowed == Spec => []GatedCanaryAllowed
<1>1. Init => AcceptedInv /\ GateInv
  BY DEF Init, AcceptedInv, Accepted, GateInv
<1>2. TypeOK /\ AcceptedInv /\ GateInv => GatedCanaryAllowed
  <2> SUFFICES ASSUME TypeOK, AcceptedInv, GateInv, stage = "gate", AsBool(raw.blockStart, FALSE) = FALSE,
                      raw.failClosed # "null", Config.canary.form = "hostPort", Config.allowed.form = "list"
               PROVE  \E port \in Config.allowed.ports : port.n = Config.canary.port
    BY DEF GatedCanaryAllowed
  <2>1. /\ Config.blockStart = raw.blockStart
        /\ Config.failClosed = IF raw.failClosed = "absent" THEN "true" ELSE raw.failClosed
    BY DEF Config, normalize_cfg, TypeOK, RawConfigs
  <2>2. Truthy(Config.failClosed)
    BY <2>1 DEF GateInv, Gated, AsBool, Truthy
  <2>3. ~CanaryNotAllowed(Config)
    BY DEF AcceptedInv, Accepted, run_preflight
  <2> QED
    BY <2>2, <2>3 DEF CanaryNotAllowed
<1> QED
  BY <1>1, <1>2, AcceptedStep, GateStep, TypeCorrect, PTL DEF Spec
=============================================================================
