----------------------------- MODULE Supervisor -----------------------------
(***************************************************************************)
(* egressd/supervisor.py: the process that keeps the proxy chain up.       *)
(*                                                                         *)
(* Three threads and a signal handler share STATE, STOP_EVENT and the      *)
(* table of child processes:                                               *)
(*   main      starts FunkyDNS, waits for the hop gate, runs pproxy,       *)
(*             restarts it with a backoff, and cleans up              mpc  *)
(*   handler   stop_all: runs ON the main thread, between two of its       *)
(*             steps, and suspends it until it returns or raises      hpc  *)
(*   hops      hop_health_loop: probes, publishes, refreshes        hopPc  *)
(*   watcher   _monitor_process: waits for FunkyDNS to exit         monPc  *)
(* The children are real processes: they exit when they like, may ignore   *)
(* SIGTERM, and die some time after SIGKILL.                               *)
(*                                                                         *)
(* A step is a stretch of code between two points where another thread or  *)
(* a signal can be observed: one STATE_LOCK section, one read of           *)
(* STOP_EVENT, one system call.  refresh_ready_state is two of them        *)
(* (snapshot, then write), so a verdict can be stored late.  The health    *)
(* server only reads STATE and is left out.                                *)
(***************************************************************************)
EXTENDS Readiness

CONSTANTS
  BlockStart,   \* block_start_until_healthy
  MaxBackoff,   \* max_backoff_s (60 in the code)
  KillPrompt,   \* a SIGKILLed child is gone within PROCESS_KILL_TIMEOUT_S
  MaxSignals    \* bound: signals delivered in a run, one handler at a time

ASSUME SupervisorAssumption ==
  /\ BlockStart \in BOOLEAN
  /\ MaxBackoff \in Nat \ {0}
  /\ KillPrompt \in BOOLEAN
  /\ MaxSignals \in Nat

VARIABLES
  mpc, hpc, hopPc, monPc,  \* control points of the threads
  state,                   \* STATE, as a snapshot of module Readiness
  stop,                    \* STOP_EVENT
  tracked,                 \* processes[name] is not None
  proc,                    \* the child itself: none, up, killed (dying), dead
  term,                    \* _terminate_process's step, per caller
  verdict,                 \* a refresh's report between its snapshot and its write
  probeAge,                \* now - checked_at of the probe under way
  backoff,                 \* backoff_s
  signals, firstSignal     \* signals delivered; how the first one found main

mainVars == <<mpc, backoff>>
handlerVars == <<hpc, term, signals, firstSignal>>
hopVars == <<hopPc, probeAge>>
childVars == <<proc, tracked>>
stateVars == <<state, verdict>>
vars == <<mainVars, handlerVars, hopVars, monPc, childVars, stateVars, stop>>

Procs == {"pproxy", "funkydns"}
Callers == {"main", "handler"}
Refreshers == {"main", "hops", "watcher"}
Exited == {"exited", "crashed"}

\* main past its last look at the stop event, its next pproxy not yet in the table.
StartWindow == {"starting", "spawn", "track"}

\* main inside STOP_EVENT.wait with the event's own (non-reentrant) lock held.
EventLockHeld == {"gateEnter", "gateLeave", "sleepEnter", "sleepLeave"}

\* The body of main's try statement.
TryBlock ==
  StartWindow \union
  {"gate", "gateEnter", "gateWait", "gateLeave", "gated", "mark", "runCompute", "runStore",
   "resetBackoff", "wait", "clear", "down", "downCompute", "downStore", "checkDown"}

MainPoints ==
  TryBlock \union Exited \union
  {"boot", "launchDns", "trackDns", "markDns", "watchDns", "bootCompute", "bootStore",
   "startHops", "loop", "except", "error", "errCompute", "errStore", "checkErr",
   "checkSleep", "sleepEnter", "sleep", "sleepLeave", "double", "endPproxy", "endDns",
   "endState", "endStateDns", "endCompute", "endStore"}

TypeOK ==
  /\ mpc \in MainPoints
  /\ hpc \in {"idle", "set", "termPproxy", "termDns"}
  /\ hopPc \in {"off", "check", "probe", "compute", "store", "sleep", "done"}
  /\ monPc \in {"off", "wait", "check", "report", "compute", "store", "done"}
  /\ state \in Snapshots
  /\ stop \in BOOLEAN
  /\ tracked \in [Procs -> BOOLEAN]
  /\ proc \in [Procs -> {"none", "up", "killed", "dead"}]
  /\ term \in [Callers -> {"poll", "wait", "kill", "waitKilled"}]
  /\ verdict \in [Refreshers -> BOOLEAN]
  /\ probeAge \in 0..StaleAfter + 1
  /\ backoff \in 1..MaxBackoff
  /\ signals \in 0..MaxSignals
  /\ firstSignal \in {"none", "safe", "starting", "lockHeld"}

Init ==
  /\ mpc = "boot" /\ hpc = "idle" /\ hopPc = "off" /\ monPc = "off"
  /\ state = InitialState
  /\ stop = FALSE
  /\ tracked = [p \in Procs |-> FALSE]
  /\ proc = [p \in Procs |-> "none"]
  /\ term = [c \in Callers |-> "poll"]
  /\ verdict = [t \in Refreshers |-> FALSE]
  /\ probeAge = 0
  /\ backoff = 1
  /\ signals = 0 /\ firstSignal = "none"

Alive(p) == proc[p] \in {"up", "killed"}
Running == mpc \notin Exited        \* the daemon threads live while main does
-----------------------------------------------------------------------------
(***************************************************************************)
(* The kinds of steps main takes; none while the handler runs.             *)
(***************************************************************************)
MainGoto(from, to) ==
  /\ hpc = "idle" /\ mpc = from /\ mpc' = to
  /\ UNCHANGED <<handlerVars, hopPc, probeAge, stop>>

\* set_state.
MainSet(from, new, to) ==
  MainGoto(from, to) /\ state' = new /\ UNCHANGED <<backoff, monPc, childVars, verdict>>

MainMove(from, to) == MainSet(from, state, to)

\* A read of STOP_EVENT.
MainCheckStop(from, ifStop, ifNot) == MainMove(from, IF stop THEN ifStop ELSE ifNot)

\* refresh_ready_state: snapshot and verdict, then the write (the local verdict is
\* then out of scope and put back to FALSE).
MainCompute(from, to) ==
  /\ MainGoto(from, to)
  /\ verdict' = [verdict EXCEPT !["main"] = Ready(state)]
  /\ UNCHANGED <<backoff, monPc, childVars, state>>

MainStore(from, to) ==
  /\ MainGoto(from, to)
  /\ state' = [state EXCEPT !.ready = verdict["main"]]
  /\ verdict' = [verdict EXCEPT !["main"] = FALSE]
  /\ UNCHANGED <<backoff, monPc, childVars>>

\* processes[p] = the Popen, or None.
MainTrack(from, p, value, to) ==
  /\ MainGoto(from, to)
  /\ tracked' = [tracked EXCEPT ![p] = value]
  /\ UNCHANGED <<backoff, monPc, proc, stateVars>>

MainPopen(from, p, to) ==
  /\ MainGoto(from, to)
  /\ proc' = [proc EXCEPT ![p] = "up"]
  /\ UNCHANGED <<backoff, monPc, tracked, stateVars>>

MainBackoff(from, value, to) ==
  MainGoto(from, to) /\ backoff' = value /\ UNCHANGED <<monPc, childVars, stateVars>>

(***************************************************************************)
(* main up to the restart loop.                                            *)
(***************************************************************************)
\* Preflight fails or was all that was asked; the health port is taken; or main
\* goes on, with its signal handlers installed.
Boot == \E to \in Exited \union {"launchDns"} : MainMove("boot", to)

\* start_funkydns: nothing to launch, a bad doh_upstreams or a failed Popen, or a child.
LaunchDns ==
  \/ ~LaunchFunkydns /\ MainMove("launchDns", "bootCompute")
  \/ LaunchFunkydns /\ MainMove("launchDns", "crashed")
  \/ LaunchFunkydns /\ MainPopen("launchDns", "funkydns", "trackDns")

\* Mutant: the watcher may be at work before the state says "running".
WatchDnsEarly ==
  \/ /\ mpc = "markDns" /\ hpc = "idle" /\ monPc = "off" /\ monPc' = "wait"
     /\ UNCHANGED <<mainVars, handlerVars, hopVars, childVars, stateVars, stop>>
  \/ MainMove("watchDns", "bootCompute")

WatchDns ==
  /\ MainGoto("watchDns", "bootCompute")
  /\ monPc' = "wait"
  /\ UNCHANGED <<backoff, childVars, stateVars>>

StartHops ==
  /\ hpc = "idle" /\ mpc = "startHops" /\ mpc' = "loop"
  /\ hopPc' = "check"
  /\ UNCHANGED <<backoff, handlerVars, probeAge, monPc, childVars, stateVars, stop>>

StartUp ==
  \/ Boot \/ LaunchDns
  \/ MainTrack("trackDns", "funkydns", TRUE, "markDns")
  \/ MainSet("markDns", [state EXCEPT !.funkydns = "running"], "watchDns")
  \/ WatchDns
  \/ MainCompute("bootCompute", "bootStore") \/ MainStore("bootStore", "startHops")
  \/ StartHops

(***************************************************************************)
(* The restart loop.  wait_for_chain_ready polls the gate once a second;   *)
(* a stop while it waits raises, and main's except clause takes over.      *)
(***************************************************************************)
LoopHead == MainCheckStop("loop", "endPproxy", IF BlockStart THEN "gate" ELSE "starting")

\* Mutant: the gate is not consulted.
PollGateOpen == MainCheckStop("gate", "except", "gated")

PollGate ==
  MainCheckStop("gate", "except", IF GateOpen(state) THEN "gated" ELSE "gateEnter")

\* Mutant: the wait between two polls has no timeout.
WaitForChainReadyForStop ==
  \/ PollGate
  \/ MainMove("gateEnter", "gateWait")
  \/ stop /\ MainMove("gateWait", "gateLeave")
  \/ MainMove("gateLeave", "gate")

\* A timed wait ends when the time has passed or the event is set.
WaitForChainReady ==
  \/ PollGate
  \/ MainMove("gateEnter", "gateWait")
  \/ MainMove("gateWait", "gateLeave")
  \/ MainMove("gateLeave", "gate")

\* start_pproxy: a child, or an exception (binary gone, no more processes).
StartPproxy == MainPopen("spawn", "pproxy", "track") \/ MainMove("spawn", "except")

\* Mutant: the backoff survives a successful start.
ResetBackoffNever == MainMove("resetBackoff", "wait")

ResetBackoff == MainBackoff("resetBackoff", 1, "wait")

\* Mutant: the wait for pproxy is given a timeout and its expiry taken for an exit.
WaitPproxyBriefly == MainMove("wait", "clear")

\* proc.wait() without a timeout.
WaitPproxy == proc["pproxy"] = "dead" /\ MainMove("wait", "clear")

RunPproxy ==
  \/ MainCheckStop("gated", "endPproxy", "starting")
  \/ MainSet("starting", [state EXCEPT !.pproxy = "starting"], "spawn")
  \/ StartPproxy
  \/ MainTrack("track", "pproxy", TRUE, "mark")
  \/ MainSet("mark", [state EXCEPT !.pproxy = "running"], "runCompute")
  \/ MainCompute("runCompute", "runStore") \/ MainStore("runStore", "resetBackoff")
  \/ ResetBackoff
  \/ WaitPproxy

PproxyExited ==
  \/ MainTrack("clear", "pproxy", FALSE, "down")
  \/ MainSet("down", [state EXCEPT !.pproxy = "down"], "downCompute")
  \/ MainCompute("downCompute", "downStore") \/ MainStore("downStore", "checkDown")
  \/ MainCheckStop("checkDown", "endPproxy", "checkSleep")

AfterError == MainCheckStop("checkErr", "endPproxy", "checkSleep")

LoopError ==
  \/ MainTrack("except", "pproxy", FALSE, "error")
  \/ MainSet("error", [state EXCEPT !.pproxy = "error"], "errCompute")
  \/ MainCompute("errCompute", "errStore") \/ MainStore("errStore", "checkErr")
  \/ AfterError

\* Mutant: the backoff is not capped.
DoubleUncapped == MainBackoff("double", 2 * backoff, "loop")

Double ==
  MainBackoff("double", IF 2 * backoff <= MaxBackoff THEN 2 * backoff ELSE MaxBackoff, "loop")

Backoff ==
  \/ MainCheckStop("checkSleep", "endPproxy", "sleepEnter")
  \/ MainMove("sleepEnter", "sleep")
  \/ MainMove("sleep", "sleepLeave")
  \/ MainMove("sleepLeave", "double")
  \/ Double

RestartLoop ==
  LoopHead \/ WaitForChainReady \/ RunPproxy \/ PproxyExited \/ LoopError \/ Backoff

(***************************************************************************)
(* _terminate_process, called by the handler (for pproxy, then FunkyDNS)   *)
(* and by main's epilogue.  The handler's polls and timed waits cannot     *)
(* take Popen's lock while the frame it interrupted holds it in wait().    *)
(***************************************************************************)
Target(c) ==
  IF c = "handler" THEN IF hpc = "termPproxy" THEN "pproxy" ELSE "funkydns"
                   ELSE IF mpc = "endPproxy" THEN "pproxy" ELSE "funkydns"

Terminating(c, step) ==
  /\ IF c = "handler" THEN hpc \in {"termPproxy", "termDns"}
                      ELSE hpc = "idle" /\ mpc \in {"endPproxy", "endDns"}
  /\ term[c] = step

SelfHeld(c) == c = "handler" /\ mpc = "wait" /\ Target(c) = "pproxy"
SeenDead(c) == proc[Target(c)] = "dead" /\ ~SelfHeld(c)

\* After its second call the handler starts the thread that stops the server.
TermReturns(c) ==
  /\ term' = [term EXCEPT ![c] = "poll"]
  /\ IF c = "handler"
     THEN hpc' = (IF hpc = "termPproxy" THEN "termDns" ELSE "idle") /\ UNCHANGED mpc
     ELSE mpc' = (IF mpc = "endPproxy" THEN "endDns" ELSE "endState") /\ UNCHANGED hpc

TermNext(c, step) == term' = [term EXCEPT ![c] = step] /\ UNCHANGED <<mpc, hpc>>

\* poll(), then terminate(): SIGTERM by itself changes nothing.
TermPoll(c) ==
  /\ Terminating(c, "poll")
  /\ IF ~tracked[Target(c)] \/ SeenDead(c) THEN TermReturns(c) ELSE TermNext(c, "wait")
  /\ UNCHANGED proc

\* wait(timeout=3): the exit is seen in time, or TimeoutExpired.
TermWait(c) ==
  /\ Terminating(c, "wait")
  /\ IF SeenDead(c) THEN TermReturns(c) ELSE TermNext(c, "kill")
  /\ UNCHANGED proc

TermKill(c) ==
  /\ Terminating(c, "kill")
  /\ proc' = [proc EXCEPT ![Target(c)] = IF @ = "up" THEN "killed" ELSE @]
  /\ TermNext(c, "waitKilled")

\* A second TimeoutExpired is caught by no clause of the call it comes from, so it leaves
\* the handler at the statement of main that was interrupted: in the loop's try main goes
\* on in its except clause, in the try of the epilogue's own _terminate_process main
\* kills its child, and anywhere else main ends.
Unwind(c) ==
  /\ hpc' = "idle"
  /\ IF c = "handler" /\ mpc \in {"endPproxy", "endDns"} /\ term["main"] = "wait"
     THEN /\ term' = [term EXCEPT !["handler"] = "poll", !["main"] = "kill"]
          /\ UNCHANGED mpc
     ELSE /\ term' = [term EXCEPT ![c] = "poll"]
          /\ mpc' = IF c = "handler" /\ mpc \in TryBlock THEN "except" ELSE "crashed"

\* wait(timeout=1).
TermWaitKilled(c) ==
  /\ Terminating(c, "waitKilled")
  /\ \/ SeenDead(c) /\ TermReturns(c)
     \/ ~SeenDead(c) /\ (KillPrompt => proc[Target(c)] = "dead") /\ Unwind(c)
  /\ UNCHANGED proc

TerminateProcess(c) ==
  /\ TermPoll(c) \/ TermWait(c) \/ TermKill(c) \/ TermWaitKilled(c)
  /\ UNCHANGED <<backoff, signals, firstSignal, hopVars, monPc, tracked, stateVars, stop>>

(***************************************************************************)
(* stop_all.                                                               *)
(***************************************************************************)
\* Environment: SIGTERM or SIGINT, once the handlers are installed.
DeliverSignal ==
  /\ signals < MaxSignals
  /\ Running /\ mpc # "boot" /\ hpc = "idle"
  /\ hpc' = "set"
  /\ signals' = signals + 1
  /\ firstSignal' = IF signals > 0 THEN firstSignal
                    ELSE IF mpc \in StartWindow THEN "starting"
                    ELSE IF mpc \in EventLockHeld THEN "lockHeld" ELSE "safe"
  /\ UNCHANGED <<term, mainVars, hopVars, monPc, childVars, stateVars, stop>>

HandlerBegin(value) ==
  /\ hpc = "set" /\ mpc \notin EventLockHeld
  /\ hpc' = "termPproxy"
  /\ stop' = value
  /\ UNCHANGED <<term, signals, firstSignal, mainVars, hopVars, monPc, childVars, stateVars>>

\* Mutant: the event is not set before the children are terminated.
HandlerSetLate == HandlerBegin(stop)

\* STOP_EVENT.set() takes the event's lock, which its own thread may hold.
HandlerSet == HandlerBegin(TRUE)

StopAll == HandlerSet \/ TerminateProcess("handler")

(***************************************************************************)
(* main after the loop.                                                    *)
(***************************************************************************)
\* Mutant: the epilogue counts on the handler to have stopped the children.
StopChildrenNot == MainMove("endPproxy", "endDns") \/ MainMove("endDns", "endState")

StopChildren == TerminateProcess("main")

EndStateDns ==
  MainSet("endStateDns", [state EXCEPT !.funkydns = IF LaunchFunkydns THEN "down" ELSE @],
          "endCompute")

Epilogue ==
  \/ StopChildren
  \/ MainSet("endState", [state EXCEPT !.pproxy = "down"], "endStateDns")
  \/ EndStateDns
  \/ MainCompute("endCompute", "endStore") \/ MainStore("endStore", "exited")

MainThread == StartUp \/ RestartLoop \/ Epilogue \/ StopAll

(***************************************************************************)
(* hop_health_loop.  checked_at is taken before the probes, and the        *)
(* refresh reuses it as "now".                                             *)
(***************************************************************************)
HopGoto(from, to) ==
  /\ Running /\ hopPc = from /\ hopPc' = to
  /\ UNCHANGED <<mainVars, handlerVars, monPc, childVars, stop>>

HopMove(from, to) == HopGoto(from, to) /\ UNCHANGED <<probeAge, stateVars>>

HopPublish ==
  /\ HopGoto("probe", "compute")
  /\ \E results \in AllHopVerdicts :
       state' = [state EXCEPT !.hops = results, !.age = probeAge]
  /\ probeAge' = 0
  /\ UNCHANGED verdict

HopCompute ==
  /\ HopGoto("compute", "store")
  /\ verdict' = [verdict EXCEPT !["hops"] = Ready([state EXCEPT !.age = 0])]
  /\ UNCHANGED <<probeAge, state>>

\* Mutant: the hop loop publishes its results without refreshing the flag.
HopStoreNothing == HopMove("store", "sleep")

HopStore ==
  /\ HopGoto("store", "sleep")
  /\ state' = [state EXCEPT !.ready = verdict["hops"]]
  /\ verdict' = [verdict EXCEPT !["hops"] = FALSE]
  /\ UNCHANGED probeAge

\* STOP_EVENT.wait takes the event's lock.  main has it for a moment only, except when
\* its handler came in that moment: set() then waits for ever for its own thread.
HandlerStuck == hpc = "set" /\ mpc \in EventLockHeld
HopSleep == ~HandlerStuck /\ HopMove("sleep", "check")

HopHealthLoop ==
  \/ HopMove("check", IF stop THEN "done" ELSE "probe")
  \/ HopPublish \/ HopCompute \/ HopStore \/ HopSleep

(***************************************************************************)
(* _monitor_process for FunkyDNS.                                          *)
(***************************************************************************)
MonGoto(from, to) ==
  /\ Running /\ monPc = from /\ monPc' = to
  /\ UNCHANGED <<mainVars, handlerVars, hopVars, childVars, stop>>

MonMove(from, to) == MonGoto(from, to) /\ UNCHANGED stateVars

\* Mutant: the watcher refreshes the flag but leaves the state as it was.
MonReportNothing == MonMove("report", "compute")

MonReport ==
  /\ MonGoto("report", "compute")
  /\ state' = [state EXCEPT !.funkydns = "down"]
  /\ UNCHANGED verdict

MonCompute ==
  /\ MonGoto("compute", "store")
  /\ verdict' = [verdict EXCEPT !["watcher"] = Ready(state)]
  /\ UNCHANGED state

MonStore ==
  /\ MonGoto("store", "done")
  /\ state' = [state EXCEPT !.ready = verdict["watcher"]]
  /\ verdict' = [verdict EXCEPT !["watcher"] = FALSE]

MonitorProcess ==
  \/ proc["funkydns"] = "dead" /\ MonMove("wait", "check")
  \/ MonMove("check", IF stop THEN "done" ELSE "report")
  \/ MonReport \/ MonCompute \/ MonStore

(***************************************************************************)
(* The environment: children exit, SIGKILL takes effect, seconds pass.     *)
(* Ages stop counting one second past StaleAfter.                          *)
(***************************************************************************)
ChildGone(p, from) ==
  /\ proc[p] = from
  /\ proc' = [proc EXCEPT ![p] = "dead"]
  /\ UNCHANGED <<tracked, mainVars, handlerVars, hopVars, monPc, stateVars, stop>>

ChildExits(p) == ChildGone(p, "up")
KilledChildDies(p) == ChildGone(p, "killed")

Older(age) == IF age = Never \/ age > StaleAfter THEN age ELSE age + 1

Tick ==
  /\ Running
  /\ state' = [state EXCEPT !.age = Older(@)]
  /\ probeAge' = IF hopPc = "probe" THEN Older(probeAge) ELSE probeAge
  /\ UNCHANGED <<mainVars, handlerVars, hopPc, monPc, childVars, verdict, stop>>

Environment ==
  DeliverSignal \/ Tick \/ \E p \in Procs : ChildExits(p) \/ KilledChildDies(p)

\* The process is over; nothing of it moves any more.
Over == ~Running /\ UNCHANGED vars

Next == MainThread \/ HopHealthLoop \/ MonitorProcess \/ Environment \/ Over

Spec == Init /\ [][Next]_vars

\* Every thread is scheduled, every probe and timed wait ends, SIGKILL kills.
\* Nothing makes a child exit, a signal arrive or a start succeed.
FairSpec ==
  /\ Spec
  /\ WF_vars(MainThread)
  /\ WF_vars(HopHealthLoop)
  /\ WF_vars(MonitorProcess)
  /\ \A p \in Procs : WF_vars(KilledChildDies(p))
-----------------------------------------------------------------------------
(***************************************************************************)
(* What all this amounts to: main past the gate has admitted a chain, and  *)
(* a pproxy that is alive is an open one.                                  *)
(***************************************************************************)
Admitted == {"gated", "starting", "spawn"}
BeforeDns == {"boot", "launchDns", "trackDns", "markDns"}

ChainOf ==
  IF mpc \in Admitted THEN "admitted" ELSE IF Alive("pproxy") THEN "open" ELSE "closed"

DnsOf ==
  IF ~LaunchFunkydns THEN "off"
  ELSE IF state.funkydns = "running" THEN "up"
  ELSE IF mpc \in BeforeDns THEN "pending" ELSE "lost"

Signalled == firstSignal # "none"

Gate == INSTANCE ChainGate WITH
  Gated <- BlockStart, Managed <- LaunchFunkydns, chain <- ChainOf, dns <- DnsOf,
  usable <- GateOpen(state), stopping <- Signalled
-----------------------------------------------------------------------------
\* With block_start_until_healthy no pproxy has ever been spawned before every
\* hop was probed and published and a managed FunkyDNS was up and tracked.
StartOnlyThroughGate ==
  BlockStart /\ proc["pproxy"] # "none" =>
    /\ Published(state) /\ DOMAIN state.hops = Hops
    /\ LaunchFunkydns => tracked["funkydns"]

\* A pproxy is spawned only when the previous one no longer runs (they share the
\* listener port), whatever a signal handler left undone.
AtMostOnePproxy == mpc = "spawn" => ~Alive("pproxy")

\* A pproxy that runs is in the table the handler and the epilogue work from,
\* except between its Popen and the assignment.
PproxyTracked == KillPrompt /\ Alive("pproxy") => tracked["pproxy"] \/ mpc = "track"

\* However main ends, it leaves no child running behind.
NoOrphanAtExit == KillPrompt /\ ~Running => \A p \in Procs : ~Alive(p)

\* However late SIGKILL works, main ends over a pproxy that nobody has killed only if the
\* first signal came while that one was being started and a FunkyDNS made the handler
\* give up; never without a signal, and never without a FunkyDNS (_terminate_process 345
\* to 349, and line 429).
OnlyStartingLeavesPproxy ==
  ~Running /\ proc["pproxy"] = "up" => firstSignal = "starting" /\ LaunchFunkydns

\* A pproxy that started and then exited is restarted after one second, however
\* often it happens: only failed starts are backed off.
BackoffOnlyAfterFailedStarts ==
  mpc \in {"sleepEnter", "sleep", "sleepLeave"} /\ state.pproxy = "down" => backoff = 1

\* After a stop signal at a safe point main starts no pproxy any more, and never waits for
\* one that has not gone or been killed, also if the handler is broken off by a child that
\* SIGKILL does not remove in time, or a second signal comes (stop_all, _terminate_process).
SafeSignalIsFinal ==
  firstSignal = "safe" =>
    /\ mpc \notin StartWindow
    /\ mpc = "wait" /\ hpc = "idle" => proc["pproxy"] # "up"

\* FunkyDNS, once its exit has been noted, is never reported running again.
FunkydnsDownIsFinal ==
  [][monPc # "off" /\ state.funkydns = "down" => state'.funkydns = "down"]_vars

\* The supervisor keeps the promises of ChainGate: a pproxy is started only when the
\* gate is open at the decision, the previous one is gone, no stop has been signalled
\* and FunkyDNS was not lost, however threads, handler and children interleave.
KeepsChainGate == Gate!Spec

\* A stop signal that finds main at a safe point ends the process.
SafeSignalExits == firstSignal = "safe" ~> ~Running

\* An exit of FunkyDNS is noted in the state, unless a stop overtakes it.
FunkydnsExitReported ==
  proc["funkydns"] = "dead" ~> state.funkydns # "running" \/ stop \/ ~Running

\* In every state the readiness report and the startup gate agree, and the strict
\* report is the stronger one.
ReadyAgreesWithGate == AgreesWithGate(state)
StrictImpliesRelaxed == RelaxedIsWeaker(state)

\* The cached flag is written from snapshots that may be old by then; it still
\* settles on the truth whenever the truth settles, unless the process is stopping or a
\* first signal found main with the event's lock (that handler waits for ever, and the hop
\* loop with it: a flag stored late then stays, see WaitingSignalExits).
ReadyFlagConverges ==
  [](~stop /\ firstSignal # "lockHeld") =>
    /\ <>[]Ready(state) => <>[]state.ready
    /\ <>[](Running /\ state.pproxy # "running") => <>[]~state.ready

\* Without a signal, main keeps a pproxy or keeps trying, as long as the gate
\* stays open.
KeepsRestarting ==
  [](firstSignal = "none") /\ <>[]GateOpen(state) => []<>(mpc \in {"spawn", "wait"})

\* stop_all logs "signal=%s shutting down" whatever main was doing.  A signal in
\* the window in which a pproxy is being started ends the process ...
StartingSignalExits == firstSignal = "starting" ~> ~Running

\* ... and so does one that finds main entering or leaving a timed wait.
WaitingSignalExits == firstSignal = "lockHeld" ~> ~Running
=============================================================================
