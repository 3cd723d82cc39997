# Verification of hg-proxychains

hg-proxychains runs a chain of CONNECT proxies: `egressd` supervises a `pproxy`
that relays through the configured hops, optionally together with a FunkyDNS
server, and a locked-down `client` container whose only way out is `egressd`.
This directory holds TLA+ models of the parts that carry state, the TLC runs
that check them and the TLAPS proofs about them. `PROJECT.json` maps every
definition that models code to its lines.

## Inventory

| Component | State | Operations | What is hard about it |
|---|---|---|---|
| supervisor (`egressd/supervisor.py`) | `STATE` under `STATE_LOCK`, `STOP_EVENT`, the `processes` table, the children, the backoff | `main`, `stop_all` (signal handler), `hop_health_loop`, `_monitor_process`, `refresh_ready_state`, health server (reads) | a handler that runs between any two steps of main, waits that hold locks, exceptions out of the handler, verdicts stored late |
| readiness (`supervisor_readiness.py`, `readiness.py`) | none: functions of a snapshot | `compute_readiness` in two modes, `compute_startup_gate` | three computations of "the chain is usable" that must agree |
| hop probes (`supervisor_hops.py`) | the results of a round | `collect_hop_statuses`, `check_hop_connectivity` | sequential probes that take time, data that age |
| client runner (`client/runner.py`) | the OUTPUT chains of the container's network namespace, a marker file | `wait_for_ready`, `ensure_firewall`, `_configure_output_firewall`, `serve_forever`, `exec_command` | several processes, no lock, commands that fail, restarts |
| preflight and config (`preflight.py`, `chain.py`) | none: functions of a configuration | `normalize_cfg`, `run_preflight`, `build_relay_string` | what is accepted must be enough for consumers that do not look again |
| FunkyDNS launcher (`run_funkydns.py`) | the child, the received signal | `main`, `terminate_child` | the supervisor's signal-and-wait problem once more, handlers on top of each other, a process group that outlives its leader |
| repository hygiene (`scripts/repo_hygiene*.py`, `repo_maintenance.py`) | the work tree, the index, the baseline file | scan, clean, baseline, the legacy wrapper, `build_report` with `apply_fixes` | several looks at a tree in which somebody works on, partial failure over a list of paths |
| wrappers, compose file, host scripts, exit server, smoke checks, CI | none of their own | – | not modelled, see `PROJECT.json` |

How they interact: the main thread of the supervisor polls the gate over the
state that the hop thread publishes; the watcher of FunkyDNS and main write the
same state; `/ready` serves the readiness report to the compose healthcheck and
to the client's `wait_for_ready`; the client container starts when that
healthcheck passes. The launcher is what runs FunkyDNS in the smoke test, in a
container of its own. The hygiene scripts share nothing with the rest.

## Modules

* **Readiness** – snapshots of `STATE`, the reasons of the strict and the relaxed
  report, and the startup gate, kept as separate as they are in the code.
* **Supervisor** (extends Readiness) – the whole of `supervisor.py` but the
  read-only health server. `mpc`, `hpc`, `hopPc` and `monPc` are the control
  points of main, of the signal handler, of the hop loop and of the watcher. A
  step is a stretch of code between two points where another thread or a signal
  can be observed: one `STATE_LOCK` section, one read of `STOP_EVENT`, one system
  call. `refresh_ready_state` is two steps, its snapshot and its write. While the
  handler runs, main does not. The event's lock and Popen's wait lock are modelled
  by where they block their own thread (`EventLockHeld`, `SelfHeld`). Children are
  `up`, `killed` (SIGKILL sent) or `dead`, may exit at any time and may ignore
  SIGTERM; `_terminate_process` is shared by handler and epilogue. Its second
  `TimeoutExpired` leaves the handler (`Unwind`) into main's `except`, or into the
  epilogue's own `try` if that is where main was interrupted, or ends the process. The
  hop loop's wait takes the event's lock too (`HopSleep`, `HandlerStuck`).
* **ChainGate** – what the supervisor promises, without threads, handlers and
  processes: a chain is admitted when it is usable (with a gate), when the previous
  one is closed and no stop has been signalled; it opens or not; it closes; FunkyDNS
  comes up once and is lost once. Supervisor ends with the refinement mapping:
  `chain` is admitted while main is past the gate and before its Popen and open while
  a pproxy is alive, `usable` is `GateOpen` of the real `STATE`. `KeepsChainGate` says
  that every behaviour of Supervisor is one of ChainGate. The decision to admit and
  the data it rests on are one step there, and the spawn a later one: main does not
  look again.
* **HopMonitor** (extends Readiness) – the hop loop once more, alone and with
  seconds: probes in turn, one publication per round dated at its beginning, a
  sleep. `up` and `sinceUp` say what the hops really do, so that properties can
  compare a report with the world.
* **ClientRunner** – processes in the client container. Each iptables command is a
  step; `fw` holds the two OUTPUT chains, `marker` the file. Packets that matter
  have a destination class (`Dests`); `ReadyDest` is the class of
  `LOCAL_READY_URL`, `ResolverDest` that of name lookups. The container can stop
  and start again: its chains are then new, its files are not.
* **Startup** – from the configuration an operator writes to a running pproxy:
  `normalize_cfg`, `run_preflight` and every consumer of the accepted configuration,
  each with the inputs on which it raises. A setting is a member of a small set of
  the cases the code tells apart (a URL is named for what `urlparse` makes of it).
  `stage` is where main is, `prober` where the hop thread is; the configuration is
  chosen once, in `Init`, and never changes. Of the age bound of the gate
  (`max_hop_status_age_s`) only whether a round fits in it is kept (`statusAgeOk`). The children's lives and the signals
  are left to Supervisor.
* **Launcher** – `run_funkydns.py`. `pc` is where main is, `handlers` the stack of
  handlers above it (a second signal may come on top of the first one's), `received`
  the global it sets. `Popen.wait` holds its lock from the waitpid to the stored
  result; a `poll` meanwhile answers "running". The child's group is its leader and
  a helper, and may ignore everything but SIGKILL.
* **Hygiene** – the three hygiene scripts. A path is a record of what the code reads
  off it (its kind, its cache directory, whether its name is stray, ...). A command
  takes its looks one by one: tracked paths, untracked paths, markers, repositories,
  and then one removal at a time (`Delete`); it may be interrupted at each, and the
  user's `git add`, edits, creations and removals come in between. `Removals` says
  what goes when an item is removed: everything or, if rmtree meets something it
  cannot remove, some of it. `disturbed` remembers that the command did not have the
  tree to itself, or that git failed in the submodule.
* **MCSupervisor, MCHopMonitor, MCClientRunner, MCStartup, MCLauncher, MCHygiene** –
  what TLC needs beyond the constants. **ReadinessProofs, SupervisorProofs,
  SupervisorGateProofs, HopMonitorProofs, ClientRunnerProofs, StartupProofs,
  HygieneProofs, LauncherProofs** – the theorems.

Definitions whose comment begins with "Mutant:" are deliberately wrong variants
of the definition that follows; no specification uses them. Each makes one run
fail, which shows that the property is about the code.

## Runs

| Run | Configuration | Shows |
|---|---|---|
| `supervisor_gate` | 1 hop, strict, managed FunkyDNS, start gate, prompt kills, 1 signal, fair threads | `KeepsChainGate`, `StartOnlyThroughGate`, `PproxyTracked`, `NoOrphanAtExit`, `BackoffOnlyAfterFailedStarts`, `ReadyAgreesWithGate`, `FunkydnsDownIsFinal`; live: `SafeSignalExits`, `FunkydnsExitReported`, `ReadyFlagConverges`, `KeepsRestarting` |
| `supervisor_unkillable` | 2 hops, relaxed, no gate, no FunkyDNS, kills may be late, 2 signals | `KeepsChainGate`, `AtMostOnePproxy`, `SafeSignalIsFinal`, `OnlyStartingLeavesPproxy`, `StrictImpliesRelaxed` |
| `hop_monitor` | 2 hops, probes up to 2 s, interval 1 s, age bound 6 s | `ReadyIsHonest`, `DownHopNoticed`, `NeverStale`, `GoodChainBecomesReady` |
| `client_runners` | serve and 1 executed process, 2 attempts, 2 starts, Podman-like resolver, fair | `ExecLockedDown`, `CompleteWhenQuiet`; live: `EveryProcessGetsThrough` |
| `startup` | about 5,300 configurations, each group varying the settings that some code reads together | `AcceptedRuns`, `RelayIsTheWrittenChain`, `GatedCanaryAllowed`, `AcceptedComesUp` |
| `hygiene` | 8 paths, a removal that fails, one step of a user | `ZeroMeansNoIssues`, `BaselineIsComplete`, `CleanRemovesClutter`, `TrackedSurvives` |
| `launcher` | SIGINT and SIGTERM, two of them at any point, fair | `StopEndsLauncher`, `NoGroupMemberSurvives`, `StoppedIsReported` |

The exceptions that the properties of `startup` name are places where preflight
promises less than one would think: it does not look at `health_port`, the two
intervals, `connect_timeout_ms` or the upstreams (`UncheckedSettingsUsable`; a bad
`connect_timeout_ms` ends the hop thread silently, the others end main with a
traceback); it reads `fail_closed: null` as false where the gate takes its default,
true; it only warns of a canary that is empty, null or a number, with which no probe
succeeds (`CanaryUsable`; the loop asks for `str(...)` of it, without a port); it does
not look at `max_hop_status_age_s`, and a bound that is negative or shorter than a round
holds the gate for ever (`GateCanOpen`); and it raises instead of reporting on a hop
URL whose port is out of range (`PreflightRaises`).

The exceptions in the properties of `hygiene` are worth knowing too. An untracked
repository with a stray name ("copy~"), or in a cache directory, is removed with all
it holds, although docs/REPO_MAINTENANCE.md:62 says that embedded repositories are
never auto-removed; `CleanRemovesClutter` asks nothing of them. It also lets stray links
stay: rmtree refuses a link to a directory, and one to nothing is passed over because
`exists()` follows it, although docs/REPO-HYGIENE.md:95 has removable clutter deleted.
A cache directory with one untracked file goes as a whole, with the tracked and the
ignored files in it (`TrackedSurvives` allows it, `hygiene_tracked` shows it). What git
began to track after the command had listed it as untracked goes as well. A git that
fails in the submodule counts as one that lists nothing (`Listing`). A stale artifact in
a directory that was removed before it makes a complete clean end with 1: the properties
ask only that exit 0 is honest. `apply_fixes` removes tracked artifacts, `clean` does so
only in a cache directory.

In `launcher` the handler cannot see its child exit while main waits for it, so that
it always waits out its three seconds; that is also why it always reaches the
SIGKILL that `NoGroupMemberSurvives` needs. A signal before `child_process` is
assigned is only noted down. The supervisor's handler has the same trouble with
pproxy: if it interrupted `pproxy_proc.wait()`, both timed waits of
`_terminate_process` expire on a process that is gone, and the handler is left by
TimeoutExpired (`SelfHeld`, reproduced with CPython 3.11).

Without a FunkyDNS, as in `supervisor_unkillable`, `OnlyStartingLeavesPproxy` says that
main never ends over a pproxy that nobody has killed. The exception it makes otherwise
is a real one (TLC reaches it with `LaunchFunkydns = TRUE`, in 1.9 million states, when
the exception is dropped): a signal after the Popen of pproxy and before its assignment,
a FunkyDNS that SIGKILL does not remove in time, and the handler is left by
TimeoutExpired before `processes["pproxy"] = ...` is executed. Main then ends, and the
pproxy goes on unsupervised. `SafeSignalIsFinal` is what a signal at a point that is
neither a start nor locked achieves in any case. Both are proved for every setting.

`ReadyFlagConverges` asks nothing once the stop event is set, and nothing once a first
signal met the event's lock: its handler then holds that lock for ever, the hop loop stops
at its own wait (supervisor.py 261), and what it stored last stays. That run is
`supervisor_signal_wait`.

Five runs show a disagreement between the code and what it or its documents say;
the counterexamples are described under "findings" in `PROJECT.json`:

* `supervisor_signal_start`: a signal after main's last look at `STOP_EVENT` and
  before the new pproxy is in the table is lost; main waits for that pproxy.
* `supervisor_signal_wait`: a signal inside `STOP_EVENT.wait` while the event's
  lock is held deadlocks the handler in `STOP_EVENT.set()`. (Reproduced with
  CPython 3.11.)
* `client_run`: behind the firewall the readiness poll of `run` itself is
  dropped, so `run` gives up on an egressd that is ready.
* `client_restart`: the marker says the firewall is in place after a restart has
  removed it.
* `hygiene_tracked`: `clean`, which is documented to remove untracked files, removes a
  tracked one whose cache directory also holds an untracked one.

### Bounds

`MaxSignals`: one signal reaches every point of main; the second is what finds a
process left over by the first (`AtMostOnePproxy` needs it). `MaxBackoff` 3
or 2 instead of 60 keeps a doubling and the cap. `StaleAfter`
0, 1 or 6: ages stop one second past it, all later ones being alike. One hop is
enough for the control of the supervisor, since only the verdict reaches it; two
tell strict from relaxed. In HopMonitor two hops make the first observation of a
round older than the last, and the bounds give schedules on both sides of
`Horizon <= StaleAfter`: with probes of up to one second a whole horizon fits in
six seconds, with two-second probes it does not. `MaxAttempts` 2 instead of 60
has a failed attempt that is not the last. One executed process beside serve is what
it takes for one to flush what the other has built, and to test the marker while the
other is configuring; the proofs hold for any number. `MaxStarts` 2 has one restart.

Startup runs through the configurations of `MCStartup`: every hop entry alone and
on either side of a good one (the checks are made entry by entry), every
combination of canary, allowed ports and the two flags of the gate, and every
combination of the settings main reads on its way.

Hygiene has one path of every kind that the code treats differently: a source file and
the submodule, which are always there and tracked at first; two files of one cache
directory, one ignored by git and one a known artifact; a repository with a stray name;
an artifact; and two stray links in the submodule, at most one of them there at first. The rest is there
or not, tracked or not (the repository and the links only if the user adds them). What
cannot be removed is the submodule, and perhaps one file of the cache directory.
One step of the user between any two of a command's is what makes its looks disagree;
more only repeat it; `hygiene_tracked` has none. The launcher's second signal is what comes on top of a handler or
after one.

### Fairness

`Supervisor!FairSpec`: weak fairness of the main thread (with the handler on it),
of the hop loop and of the watcher, since Python schedules every runnable thread
and every socket operation, timed wait and sleep in them has a timeout; and of
the death of a SIGKILLed child. Only a stuck handler, which never gives the event's
lock back, stops the hop loop for good. Nothing makes a child exit, a signal arrive, a
start succeed or a hop answer. `HopMonitor!FairSpec`: the loop runs and time
passes. `ClientRunner!FairSpec`: every process runs, its requests time out
(`timeout=2`) and its commands end; the container ends with its main process.
`Startup!FairSpec`: main and the hop thread run; the proxies owe nothing, and
`AcceptedComesUp` asks something only of runs in which they answer for good.
`Launcher!FairSpec`: main and the handler run, the handler's loop has a deadline, and
a group that was sent SIGKILL dies; otherwise the group owes nothing. Hygiene has no
fairness: a command may be interrupted or never go on.

## Proofs

TLC checks instances; the following holds for all values of the constants under
the ASSUMEs of the modules (a finite non-empty chain, numeric bounds), checked by
TLAPS.

* `ReadinessProofs!ReadyIffGate`: for every snapshot, `/ready` says yes exactly
  when the gate is open and pproxy runs. It rests on `HopCount`: a result names
  all hops or none, so counting entries is comparing domains. `StrictIsStronger`
  relates the two modes.
* `SupervisorProofs`: `TypeCorrect`, by one lemma per kind of step; then
  `ChildInv`, the inductive invariant behind `OnePproxy`, `PproxyIsTracked` and
  `NoOrphan`. None of the three is inductive. What carries them is where main is
  while a pproxy is alive: from its Popen to its wait, or unwinding after an
  exception of the handler, with the stop event set so that the loop cannot come
  round to another spawn (`PproxyInv`, `StopInv`); with prompt kills the handler
  raises only at main's wait, when pproxy is already dead (`PromptPproxyInv`), and
  FunkyDNS stays in the table from the statement after its Popen until the epilogue
  has terminated it (`PromptDnsInv`). `VerdictsAgree` carries ReadyIffGate to
  reachable states.
* `SupervisorGateProofs`: `ImplementsChainGate`, for every chain and mode, any number
  of signals and children that outlive SIGKILL. Each step of the supervisor is one of
  ChainGate or a stutter, one lemma per kind of step. The invariant `DecisionInv`
  supplies what the mapped step needs and the guard of the code does not show: a stop
  that was signalled has set the event, or its handler is about to and main stands
  still (`SignalInv`), the watcher runs only after FunkyDNS was marked (`WatchInv`, `DnsInv`),
  past the gate every hop has been published (`PassedInv`). `AtMostOnePproxy` is needed for the
  previous chain to be closed. From the same invariant `GateBeforeStart`,
  `BackoffOnlyGrowsOnFailure` (`BackoffInv`), `FunkydnsStaysDown` and
  `StrictIsStrongerAlways`.
* `UsableChain`, `LostFinal` and `StopFinal` of the same module: what the promises
  amount to, for the supervisor itself. ChainGate's `UsableNeedsDns`, `LostIsFinal` and
  `NoAdmissionAfterStop` follow from ChainGate alone, and `ImplementsChainGate` carries
  them over: a lost FunkyDNS and a stop each end the admissions for good.
* What a signal achieves. `SafeSignalStops`: after one at a safe point no pproxy is
  started, and main waits for none that has neither gone nor been killed, however often
  the handler is left by TimeoutExpired or entered again. `SafeInv` follows the handler:
  while main stands at a wait, a handler that is past pproxy (`PproxySeenTo`) has found it
  gone or killed it. `OnlyStartingLeaves`: main leaves
  the points at which it has a running pproxy only when that one was killed, or when the
  signal found it starting and FunkyDNS broke the handler off (`LeftInv`, `Abandoned`);
  without a FunkyDNS the handler's second call has nothing to wait for (`UnmanagedInv`).
  `FirstInv` and `StuckInv` tie the first signal to the handler it caused.
  `LockedSignalHangs` is the finding of `supervisor_signal_wait` for every instance: a
  first signal that meets the event's lock leaves main, handler and event as they are for
  ever, so that TLC's counterexample is no matter of bounds.
* `HopMonitorProofs!ReadyHonest`: a ready report rests on hops that answered within
  the age bound, through `ObservationInv`: a hop found ok answered since its round
  began, and a hop published as ok since the date of the publication.
  `PublishedStaysFresh` and `DownHopShutsReport` are the two bounds in `Horizon`;
  `AgeInv` counts the seconds of a round by where the loop is in it.
* `ClientRunnerProofs!LockedDownBeforeExec`: until the container is restarted no
  command starts before both chains drop by default, for any number of processes,
  through `FirstLifeInv`: a policy once set is never taken back, a process past a
  policy command has set it, and the marker is written by such a process.
  `CompleteInTheEnd`: a rule that is missing is still owed by some process, one in
  front of the command that appends it (`RuleInv`).
* `StartupProofs!PreflightProtects` and `ChainReachesPproxy`: for every set of
  configurations, what preflight accepts its consumers can use, and the chain
  arrives as it was written. `AcceptedInv` ties every place behind preflight to its
  verdict and every crash to an unchecked setting; `NormalizedHops`, `UrlsKept`,
  `AcceptedUrls` and `WhatPreflightPromises` are the facts about the functions.
  `GatedCanaryIsAllowed` rests on the gate being entered with a gated configuration only (`GateInv`).
* `HygieneProofs!TypeCorrect`, `ExitZeroIsHonest`, `CleanIsThorough` and `TrackedFilesSurvive`, for
  every set of paths, markers and edits. `CommandInv` says what a command knows at each
  of its points if nobody disturbed it: its listings are still those of the tree but
  for what it has itself removed (`SnapshotInv`), its findings are the tree's
  (`ReportInv`), what is to be deleted comes from its listings (`TodoInv`), and what
  was requested is gone, is still to be tried or was kept because it is stuck
  (`CleanInv`); `HeldClutter` says what clutter a stuck item stands for.
  `TrackedFilesSurvive` does not need an undisturbed command: it holds under a user too,
  because what is to be deleted comes from the command's own listing in any case
  (`RemovalAllowed`). `BaselineAcceptsAll`: a baseline written undisturbed holds exactly the
  markers of the tree, whatever it replaces, because its search is not told what the old
  one accepts (`BaselineInv`).
* `LauncherProofs!TypeCorrect`, `GroupIsStopped` and `StopIsReported`, for every set of
  signals and handlers stacked to any height. `StopInv`: once a signal found main waiting
  for its child, the group is empty or has been sent SIGKILL (`Settled`), or a handler is still on the stack
  while main waits; that one cannot see the leader go, since main holds the wait lock, and
  so ends only by way of SIGKILL; main goes on only when the stack is empty. A handler
  that ran before main waited is not covered: it may see the leader go and leave the helper.
  `TopOfStack` and `StackSteps` are the facts about sequences this takes.

Every safety property that a passing run checks is a theorem. Only model-checked are
the liveness properties, since reasoning from fairness and ENABLED is out of the
prover's reach: `SafeSignalExits`, `FunkydnsExitReported`, `ReadyFlagConverges`,
`KeepsRestarting`, `GoodChainBecomesReady`, `EveryProcessGetsThrough`, `AcceptedComesUp`
and `StopEndsLauncher`. `SafeSignalStops` is the part of `SafeSignalExits` that does not
need fairness.

## Not modelled

Within the modelled parts: the health server (it reads `STATE` under its lock);
a thread that cannot be started after its child was spawned; a `pipe_stream` thread
that dies and lets the pipe fill; jumps of the wall clock and the truncation of
times to whole seconds; a second signal inside the few locked instructions of the
epilogue's own timed waits; the texts of reasons, `last_start` and `last_exit`;
`evaluate_readiness` and `summarize_readiness`, used by tests only; the legacy
`hop_last_checked` fields; the layout of the chain visual. In Startup: what pproxy makes of its listener
argument (`true` passes as port 1, `ValidPort`, and is written as `True`), proxy credentials, the splitting of
upstream texts (a text counts as its items), the warnings, `logging.level`. In ClientRunner: the
`LOCAL_*_IP` variables (unset in the compose file), duplicate rules appended by a
second process (harmless: they only accept), and the traffic of the executed
command itself. In Launcher: the tenth of a second between two polls, and a process
number used again by another group. In Hygiene: empty directories and their pruning
(git does not list them and the report does not name them), what else a baseline file
can hold than the scripts write, the texts of reports, `discover_untracked_stray_dirs`
(nothing calls it), and the check that the root is a repository. The remaining components and the reasons are in `PROJECT.json`.

The wrappers, the host scripts and the smoke checks run straight through and keep no
state between their steps; the compose file, the exit server and the CI workflows are
configuration or stateless. What they rely on, the readiness report, the firewall and
the marker, is modelled where it is made.

## Plan

1. *(done)* Readiness, Supervisor, HopMonitor, ClientRunner, Startup with their proofs.
2. *(done)* ChainGate and the refinement; the launcher; the hygiene scripts; proofs of
   every safety property the runs check.
3. A composition of supervisor, healthcheck and client start order; a bound in seconds
   for `GoodChainBecomesReady`, which would be a safety property and could be proved.
