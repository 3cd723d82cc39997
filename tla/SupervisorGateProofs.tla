----------------------- MODULE SupervisorGateProofs -----------------------
(***************************************************************************)
(* The supervisor implements ChainGate, and what follows for the starts of *)
(* pproxy, for every chain, mode, backoff bound and number of signals.     *)
(*                                                                         *)
(* DecisionInv is the inductive invariant.  It says what main still knows  *)
(* at a point from the decisions on the way there: from the gate, that the *)
(* hops were published and FunkyDNS is in the table; from the exit of a    *)
(* pproxy, that the backoff is back at 1; and that after a signal main     *)
(* moves only with the stop event set.                                     *)
(***************************************************************************)
EXTENDS SupervisorProofs

\* Points between the reset of the backoff and the look at the stop event.
ExitPoints == {"wait", "clear", "down", "downCompute", "downStore", "checkDown"}
ErrorPoints == {"errCompute", "errStore", "checkErr"}
SleepPoints == {"checkSleep", "sleepEnter", "sleep", "sleepLeave"}

SignalInv == Signalled => stop \/ hpc = "set"

WatchInv ==
  /\ mpc \in BeforeDns /\ LaunchFunkydns => state.funkydns = "down"
  /\ mpc \in BeforeDns \union {"watchDns"} => monPc = "off"

DnsInv ==
  /\ LaunchFunkydns /\ state.funkydns = "running" => tracked["funkydns"]
  /\ mpc = "markDns" => tracked["funkydns"]

Passed == Published(state) /\ DOMAIN state.hops = Hops /\ (LaunchFunkydns => tracked["funkydns"])

PassedInv == BlockStart /\ (mpc \in Admitted \/ proc["pproxy"] # "none") => Passed

BackoffInv ==
  /\ mpc \in ExitPoints => backoff = 1
  /\ mpc \in ErrorPoints => state.pproxy = "error"
  /\ mpc \in SleepPoints /\ state.pproxy = "down" => backoff = 1

DecisionInv == SignalInv /\ WatchInv /\ DnsInv /\ PassedInv /\ BackoffInv

\* An open gate has seen every hop and a FunkyDNS that runs.
LEMMA OpenGate ==
  ASSUME TypeOK, GateOpen(state)
  PROVE  /\ Published(state) /\ DOMAIN state.hops = Hops
         /\ LaunchFunkydns => state.funkydns = "running"
<1>1. state.hops \in HopResults
  BY DEF TypeOK, Snapshots
<1> QED
  BY <1>1, HopCount DEF GateOpen

\* The startup gate reads three fields of the state.
LEMMA GateReads ==
  ASSUME state'.funkydns = state.funkydns, state'.hops = state.hops, state'.age = state.age
  PROVE  GateOpen(state)' = GateOpen(state) /\ Published(state)' = Published(state)
  BY DEF GateOpen, Published

-----------------------------------------------------------------------------
\* The start-up part of main keeps the invariant.
LEMMA StartUpDecisions ==
  ASSUME TypeOK, DecisionInv, StartUp
  PROVE  DecisionInv'
<1> USE DEF TypeOK, Snapshots, DecisionInv, SignalInv, WatchInv, DnsInv, PassedInv, BackoffInv,
        Passed, Published, Signalled, Admitted, BeforeDns, ExitPoints, ErrorPoints, SleepPoints,
        Procs, Exited, MainGoto, MainMove, MainSet, handlerVars, childVars, stateVars
<1>1. CASE Boot \/ LaunchDns \/ StartHops
  BY <1>1 DEF Boot, LaunchDns, MainPopen, StartHops
<1>2. CASE MainTrack("trackDns", "funkydns", TRUE, "markDns")
  BY <1>2 DEF MainTrack
<1>3. CASE MainSet("markDns", [state EXCEPT !.funkydns = "running"], "watchDns") \/ WatchDns
  BY <1>3 DEF WatchDns
<1>4. CASE MainCompute("bootCompute", "bootStore") \/ MainStore("bootStore", "startHops")
  BY <1>4 DEF MainCompute, MainStore
<1> QED
  BY <1>1, <1>2, <1>3, <1>4 DEF StartUp

\* The restart loop keeps the invariant.
LEMMA RestartLoopDecisions ==
  ASSUME TypeOK, DecisionInv, RestartLoop
  PROVE  DecisionInv'
<1> USE DEF TypeOK, Snapshots, DecisionInv, SignalInv, WatchInv, DnsInv, PassedInv, BackoffInv,
        Passed, Signalled, Admitted, BeforeDns, ExitPoints, ErrorPoints, SleepPoints,
        Procs, MainGoto, MainMove, MainSet, MainCheckStop, handlerVars, childVars, stateVars
<1>1. CASE LoopHead
  BY <1>1 DEF LoopHead
<1>2. CASE WaitForChainReady
  BY <1>2, OpenGate DEF WaitForChainReady, PollGate
<1>3. CASE RunPproxy
  <2> USE DEF Published
  <2>1. CASE StartPproxy
    BY <2>1 DEF StartPproxy, MainPopen
  <2>2. CASE MainTrack("track", "pproxy", TRUE, "mark")
    BY <2>2 DEF MainTrack
  <2>3. CASE MainCompute("runCompute", "runStore") \/ MainStore("runStore", "resetBackoff")
    BY <2>3 DEF MainCompute, MainStore
  <2>4. CASE ResetBackoff \/ WaitPproxy
    BY <2>4 DEF ResetBackoff, MainBackoff, WaitPproxy
  <2> QED
    BY <1>3, <2>1, <2>2, <2>3, <2>4 DEF RunPproxy
<1>4. CASE PproxyExited
  BY <1>4 DEF PproxyExited, MainTrack, MainCompute, MainStore, Published
<1>5. CASE LoopError
  BY <1>5 DEF LoopError, AfterError, MainTrack, MainCompute, MainStore, Published
<1>6. CASE Backoff
  BY <1>6 DEF Backoff, Double, MainBackoff, Published
<1> QED
  BY <1>1, <1>2, <1>3, <1>4, <1>5, <1>6 DEF RestartLoop

\* _terminate_process changes a child and, by its exception, the point of main.
LEMMA TerminateDecisions ==
  ASSUME TypeOK, ChildInv, DecisionInv, NEW c \in Callers, TerminateProcess(c)
  PROVE  DecisionInv'
<1>1. /\ UNCHANGED <<backoff, signals, firstSignal, monPc, tracked, state, stop>>
      /\ mpc' = mpc \/ mpc' \in {"endDns", "endState", "except", "crashed"}
  BY DEF TerminateProcess, TermPoll, TermWait, TermKill, TermWaitKilled, Unwind, TermReturns,
         TermNext, stateVars
<1>2. proc["pproxy"] = "none" => proc'["pproxy"] = "none"
  BY DEF TypeOK, Procs, Target, TerminateProcess, TermPoll, TermWait, TermKill, TermWaitKilled,
     Unwind
<1>3. hpc # "set"
  BY DEF Callers, TerminateProcess, TermPoll, TermWait, TermKill, TermWaitKilled, Unwind,
     Terminating
<1>4. Published(state)' = Published(state)
  BY <1>1 DEF Published
<1> QED
  BY <1>1, <1>2, <1>3, <1>4 DEF DecisionInv, SignalInv, WatchInv, DnsInv, PassedInv, BackoffInv,
     Passed, Signalled, Admitted, BeforeDns, ExitPoints, ErrorPoints, SleepPoints

\* The epilogue keeps the invariant.
LEMMA EpilogueDecisions ==
  ASSUME TypeOK, ChildInv, DecisionInv, Epilogue
  PROVE  DecisionInv'
<1>1. CASE StopChildren
  BY <1>1, TerminateDecisions DEF StopChildren, Callers
<1>2. CASE ~StopChildren
  BY <1>2 DEF TypeOK, Snapshots, DecisionInv, SignalInv, WatchInv, DnsInv, PassedInv, BackoffInv,
     Passed, Published, Signalled, Admitted, BeforeDns, ExitPoints, ErrorPoints, SleepPoints,
     MainGoto, MainSet, MainCompute, MainStore, Epilogue, EndStateDns, handlerVars, childVars,
     stateVars
<1> QED
  BY <1>1, <1>2

\* The hop loop publishes all hops, the watcher reports once it was started, and
\* the environment signals, ages and ends children.
LEMMA OtherDecisions ==
  ASSUME TypeOK, DecisionInv, HandlerSet \/ HopHealthLoop \/ MonitorProcess \/ Environment
  PROVE  DecisionInv'
<1> USE DEF TypeOK, Snapshots, DecisionInv, SignalInv, WatchInv, DnsInv, PassedInv, BackoffInv,
        Passed, Published, Signalled, mainVars, handlerVars, hopVars, childVars, stateVars
<1>1. CASE HandlerSet
  BY <1>1 DEF HandlerSet, HandlerBegin
<1>2. CASE HopHealthLoop
  <2>1. CASE HopPublish
    <3>1. PICK results \in AllHopVerdicts :
            state' = [state EXCEPT !.hops = results, !.age = probeAge]
      BY <2>1 DEF HopPublish
    <3>2. DOMAIN state'.hops = Hops /\ state'.age # Never
      BY <3>1, ConstantTypes DEF AllHopVerdicts, Never
    <3>3. /\ state'.pproxy = state.pproxy /\ state'.funkydns = state.funkydns
          /\ UNCHANGED <<mpc, hpc, backoff, signals, firstSignal, monPc, proc, tracked, stop>>
      BY <2>1, <3>1 DEF HopPublish, HopGoto
    <3> QED
      BY <3>2, <3>3
  <2>2. CASE ~HopPublish
    BY <1>2, <2>2 DEF HopHealthLoop, HopSleep, HopMove, HopGoto, HopCompute, HopStore
  <2> QED
    BY <2>1, <2>2
<1>3. CASE MonitorProcess
  BY <1>3 DEF MonitorProcess, MonMove, MonGoto, MonReport, MonCompute, MonStore
<1>4. CASE DeliverSignal
  BY <1>4 DEF DeliverSignal
<1>5. CASE Tick
  <2>1. state.age # Never => state'.age # Never
    BY <1>5, ConstantTypes DEF Tick, Older, Never
  <2>2. /\ state'.pproxy = state.pproxy /\ state'.funkydns = state.funkydns
        /\ state'.hops = state.hops
    BY <1>5 DEF Tick
  <2> QED
    BY <1>5, <2>1, <2>2 DEF Tick
<1>6. CASE \E p \in Procs : ChildExits(p) \/ KilledChildDies(p)
  BY <1>6 DEF ChildExits, KilledChildDies, ChildGone, Procs
<1> HIDE DEF DecisionInv
<1> QED
  BY <1>1, <1>2, <1>3, <1>4, <1>5, <1>6 DEF Environment

\* What main knows at each of its points holds in every reachable state.
THEOREM DecisionsCorrect == Spec => []DecisionInv
<1>1. Init => DecisionInv
  <2> SUFFICES ASSUME Init
               PROVE  DecisionInv
    OBVIOUS
  <2>1. /\ state.pproxy = "down" /\ state.funkydns # "running"
        /\ LaunchFunkydns => state.funkydns = "down"
    BY DEF Init, InitialState
  <2>2. proc["pproxy"] = "none"
    BY DEF Init, Procs
  <2> QED
    BY <2>1, <2>2 DEF Init, DecisionInv, SignalInv, WatchInv, DnsInv, PassedInv, BackoffInv,
       Signalled, Admitted, ExitPoints, ErrorPoints, SleepPoints
<1>2. TypeOK /\ ChildInv /\ DecisionInv /\ [Next]_vars => DecisionInv'
  <2> SUFFICES ASSUME TypeOK, ChildInv, DecisionInv, [Next]_vars
               PROVE  DecisionInv'
    OBVIOUS
  <2>1. CASE MainThread
    BY <2>1, StartUpDecisions, RestartLoopDecisions, EpilogueDecisions, TerminateDecisions,
       OtherDecisions DEF MainThread, StopAll, Callers
  <2>2. CASE UNCHANGED vars
    BY <2>2 DEF DecisionInv, SignalInv, WatchInv, DnsInv, PassedInv, BackoffInv, Passed,
       Published, Signalled, vars, mainVars, handlerVars, childVars, stateVars
  <2> QED
    BY <2>1, <2>2, OtherDecisions DEF Next, Over
<1> QED
  BY <1>1, <1>2, TypeCorrect, ChildrenCorrect, PTL DEF Spec

\* With the start gate, no pproxy has ever run before every hop was probed and
\* published and a managed FunkyDNS was up and tracked (wait_for_chain_ready).
THEOREM GateBeforeStart == Spec => []StartOnlyThroughGate
<1>1. DecisionInv => StartOnlyThroughGate
  BY DEF DecisionInv, PassedInv, Passed, StartOnlyThroughGate
<1> QED
  BY <1>1, DecisionsCorrect, PTL

\* A pproxy that ran and exited is restarted after one second: the backoff grows
\* only over failed starts.
THEOREM BackoffOnlyGrowsOnFailure == Spec => []BackoffOnlyAfterFailedStarts
<1>1. DecisionInv => BackoffOnlyAfterFailedStarts
  BY DEF DecisionInv, BackoffInv, SleepPoints, BackoffOnlyAfterFailedStarts
<1> QED
  BY <1>1, DecisionsCorrect, PTL

\* In every reachable state the strict report implies the relaxed one.
THEOREM StrictIsStrongerAlways == Spec => []StrictImpliesRelaxed
<1>1. TypeOK => StrictImpliesRelaxed
  BY StrictIsStronger DEF TypeOK, StrictImpliesRelaxed
<1> QED
  BY <1>1, TypeCorrect, PTL

-----------------------------------------------------------------------------
(***************************************************************************)
(* A signal at a safe point.  main moves on only with the stop event set,  *)
(* and so past every look at it; and the handler gives main back to a      *)
(* pproxy it was to wait for only when that one was killed or has gone.    *)
(***************************************************************************)
WaitPoints == RunPoints \ {"track"}

\* The handler is past the pproxy, or has just killed it.
PproxySeenTo ==
  \/ hpc \in {"idle", "termDns"}
  \/ hpc = "termPproxy" /\ term["handler"] = "waitKilled"

SafeInv ==
  /\ hpc \in {"idle", "set"} => term["handler"] = "poll"
  /\ firstSignal = "safe" =>
       /\ mpc \notin StartWindow
       /\ mpc \in WaitPoints /\ PproxySeenTo => proc["pproxy"] # "up"

\* A step of main outside _terminate_process keeps it.
LEMMA MainSafe ==
  ASSUME TypeOK, DecisionInv, SafeInv, StartUp \/ RestartLoop \/ (Epilogue /\ ~StopChildren)
  PROVE  SafeInv'
<1>1. hpc = "idle" /\ UNCHANGED <<hpc, term, firstSignal>>
  BY DEF StartUp, Boot, LaunchDns, WatchDns, StartHops, RestartLoop, LoopHead, WaitForChainReady,
         PollGate, RunPproxy, StartPproxy, ResetBackoff, WaitPproxy, PproxyExited, LoopError,
         AfterError, Backoff, Double, Epilogue, EndStateDns, MainTrack, MainPopen, MainCompute,
         MainStore, MainBackoff, MainCheckStop, MainMove, MainSet, MainGoto, handlerVars
<1>2. firstSignal = "safe" => stop
  BY <1>1 DEF DecisionInv, SignalInv, Signalled
<1>3. ASSUME firstSignal = "safe"
      PROVE  /\ mpc' \notin StartWindow
             /\ mpc' \in WaitPoints => mpc \in WaitPoints
             /\ proc'["pproxy"] = "up" => proc["pproxy"] = "up"
  <2>1. stop /\ mpc \notin StartWindow
    BY <1>2, <1>3 DEF SafeInv
  <2> USE DEF TypeOK, Procs, StartWindow, WaitPoints, RunPoints, Exited, MainTrack, MainPopen,
          MainCompute, MainStore, MainBackoff, MainCheckStop, MainMove, MainSet, MainGoto, childVars
  <2>2. CASE StartUp
    BY <2>1, <2>2 DEF StartUp, Boot, LaunchDns, WatchDns, StartHops
  <2>3. CASE LoopHead \/ WaitForChainReady \/ RunPproxy
    BY <2>1, <2>3 DEF LoopHead, WaitForChainReady, PollGate, RunPproxy, StartPproxy, ResetBackoff,
       WaitPproxy
  <2>4. CASE PproxyExited \/ LoopError \/ Backoff
    BY <2>1, <2>4 DEF PproxyExited, LoopError, AfterError, Backoff, Double
  <2>5. CASE Epilogue /\ ~StopChildren
    BY <2>1, <2>5 DEF Epilogue, EndStateDns
  <2> QED
    BY <2>2, <2>3, <2>4, <2>5 DEF RestartLoop
<1> QED
  BY <1>1, <1>3 DEF SafeInv, PproxySeenTo

\* So does every step of _terminate_process: it leaves a pproxy in the table only dead,
\* killed, or by its exception, which main does not go on waiting after.
LEMMA TerminateSafe ==
  ASSUME TypeOK, ChildInv, SafeInv, NEW c \in Callers, TerminateProcess(c)
  PROVE  SafeInv'
<1> USE DEF TypeOK, Callers, Procs
<1>1. UNCHANGED <<firstSignal, tracked>>
  BY DEF TerminateProcess
<1>2. /\ mpc' = mpc \/ mpc' \in {"endDns", "endState", "except", "crashed"}
      /\ proc'["pproxy"] = "up" => proc["pproxy"] = "up"
  BY DEF TerminateProcess, TermPoll, TermWait, TermKill, TermWaitKilled, Unwind, TermReturns,
     TermNext, Target
<1>3. hpc' \in {"idle", "set"} => term'["handler"] = "poll"
  BY DEF SafeInv, TerminateProcess, TermPoll, TermWait, TermKill, TermWaitKilled, Unwind,
         TermReturns, TermNext, Terminating
<1>4. ASSUME mpc' \in WaitPoints, PproxySeenTo', proc'["pproxy"] = "up"
      PROVE  PproxySeenTo
  <2>1. mpc' = mpc /\ mpc \in WaitPoints /\ tracked["pproxy"]
    BY <1>2, <1>4 DEF WaitPoints, RunPoints, ChildInv, PromptPproxyInv
  <2>2. c = "handler"
    BY <2>1 DEF WaitPoints, RunPoints, TerminateProcess, TermPoll, TermWait, TermKill,
                TermWaitKilled, Unwind, Terminating
  <2>3. CASE hpc = "termDns"
    BY <2>3 DEF PproxySeenTo
  <2>4. CASE hpc = "termPproxy" /\ term["handler"] # "waitKilled"
    <3>1. Target(c) = "pproxy"
      BY <2>2, <2>4 DEF Target
    <3>2. ~SeenDead(c)
      BY <1>2, <1>4, <3>1 DEF SeenDead
    <3>3. CASE TermPoll(c) \/ TermWait(c)
      BY <1>4, <2>1, <2>2, <2>4, <3>1, <3>2, <3>3 DEF TermPoll, TermWait, TermNext, PproxySeenTo
    <3>4. CASE TermKill(c)
      BY <1>4, <3>1, <3>4 DEF TermKill
    <3> QED
      BY <2>2, <2>4, <3>3, <3>4 DEF TerminateProcess, TermWaitKilled, Unwind, Terminating
  <2>5. hpc \in {"termPproxy", "termDns"}
    BY <2>2 DEF TerminateProcess, TermPoll, TermWait, TermKill, TermWaitKilled, Unwind, Terminating
  <2> QED
    BY <2>3, <2>4, <2>5 DEF PproxySeenTo
<1> QED
  BY <1>1, <1>2, <1>3, <1>4 DEF SafeInv, StartWindow, WaitPoints, RunPoints

\* The handler sets the event, another signal comes, a child ends: it stays true.
LEMMA OtherSafe ==
  ASSUME TypeOK, SafeInv, HandlerSet \/ HopHealthLoop \/ MonitorProcess \/ Environment
  PROVE  SafeInv'
<1> USE DEF TypeOK, SafeInv, PproxySeenTo, Procs, mainVars, handlerVars, hopVars, childVars,
   stateVars
<1>1. CASE HandlerSet
  BY <1>1 DEF HandlerSet, HandlerBegin
<1>2. CASE HopHealthLoop
  BY <1>2 DEF HopHealthLoop, HopSleep, HopMove, HopGoto, HopPublish, HopCompute, HopStore
<1>3. CASE MonitorProcess
  BY <1>3 DEF MonitorProcess, MonMove, MonGoto, MonReport, MonCompute, MonStore
<1>4. CASE DeliverSignal
  BY <1>4 DEF DeliverSignal
<1>5. CASE Tick
  BY <1>5 DEF Tick
<1>6. CASE \E p \in Procs : ChildExits(p) \/ KilledChildDies(p)
  BY <1>6 DEF ChildExits, KilledChildDies, ChildGone
<1> QED
  BY <1>1, <1>2, <1>3, <1>4, <1>5, <1>6 DEF Environment

\* It holds throughout.
LEMMA SafeCorrect == Spec => []SafeInv
<1>1. Init => SafeInv
  BY DEF Init, SafeInv, Callers
<1>2. TypeOK /\ ChildInv /\ DecisionInv /\ SafeInv /\ [Next]_vars => SafeInv'
  <2> SUFFICES ASSUME TypeOK, ChildInv, DecisionInv, SafeInv, [Next]_vars
               PROVE  SafeInv'
    OBVIOUS
  <2>1. CASE MainThread
    BY <2>1, MainSafe, TerminateSafe, OtherSafe DEF MainThread, StopAll, StopChildren, Callers
  <2>2. CASE UNCHANGED vars
    BY <2>2 DEF SafeInv, PproxySeenTo, vars, mainVars, handlerVars, childVars
  <2> QED
    BY <2>1, <2>2, OtherSafe DEF Next, Over
<1> QED
  BY <1>1, <1>2, TypeCorrect, ChildrenCorrect, DecisionsCorrect, PTL DEF Spec

\* After a signal at a safe point main starts no pproxy, and waits for none that was not
\* at least killed: what SafeSignalExits rests on, without any fairness.
THEOREM SafeSignalStops == Spec => []SafeSignalIsFinal
<1>1. SafeInv => SafeSignalIsFinal
  BY DEF SafeInv, PproxySeenTo, WaitPoints, RunPoints, SafeSignalIsFinal
<1> QED
  BY <1>1, SafeCorrect, PTL
-----------------------------------------------------------------------------
(***************************************************************************)
(* What is left behind.  Only a signal that finds main starting a pproxy   *)
(* is handled without that pproxy, and main then leaves it only when       *)
(* FunkyDNS breaks the handler off; a signal that finds main inside the    *)
(* event's lock is never handled at all.                                   *)
(***************************************************************************)
\* The event's lock is held by the frame that the handler has interrupted.
StuckInv == firstSignal = "lockHeld" => hpc = "set" /\ mpc \in EventLockHeld

Abandoned == firstSignal = "starting" /\ LaunchFunkydns

\* What main and the handler have done with a pproxy that is up.
LeftInv ==
  proc["pproxy"] = "up" =>
    /\ mpc \in RunPoints \/ Abandoned
    /\ hpc = "termPproxy" => term["handler"] # "waitKilled"
    /\ hpc = "termDns" => firstSignal = "starting"

\* Without a FunkyDNS the handler has nothing to wait for in its second call.
UnmanagedInv ==
  ~LaunchFunkydns =>
    /\ mpc # "trackDns" /\ ~tracked["funkydns"]
    /\ hpc = "termDns" => term["handler"] = "poll"

\* Signals are handled one after the other, and only a handler sets the event.
FirstInv ==
  /\ signals = 0 <=> ~Signalled
  /\ hpc # "idle" => Signalled
  /\ stop => firstSignal \in {"safe", "starting"}

BehindInv == FirstInv /\ StuckInv /\ LeftInv /\ UnmanagedInv

\* A step of main outside _terminate_process keeps it.
LEMMA MainBehind ==
  ASSUME TypeOK, BehindInv, StartUp \/ RestartLoop \/ (Epilogue /\ ~StopChildren)
  PROVE  BehindInv'
<1>1. hpc = "idle" /\ UNCHANGED <<hpc, term, signals, firstSignal, stop>>
  BY DEF StartUp, Boot, LaunchDns, WatchDns, StartHops, RestartLoop, LoopHead, WaitForChainReady,
         PollGate, RunPproxy, StartPproxy, ResetBackoff, WaitPproxy, PproxyExited, LoopError,
         AfterError, Backoff, Double, Epilogue, EndStateDns, MainTrack, MainPopen, MainCompute,
         MainStore, MainBackoff, MainCheckStop, MainMove, MainSet, MainGoto, handlerVars
<1>2. ASSUME proc'["pproxy"] = "up", proc["pproxy"] = "up" => mpc \in RunPoints
      PROVE  mpc' \in RunPoints
  <2> USE DEF TypeOK, Procs, RunPoints, Exited, MainTrack, MainPopen, MainCompute, MainStore,
          MainBackoff, MainCheckStop, MainMove, MainSet, MainGoto, childVars
  <2>1. CASE StartUp
    BY <1>2, <2>1 DEF StartUp, Boot, LaunchDns, WatchDns, StartHops
  <2>2. CASE LoopHead \/ WaitForChainReady \/ RunPproxy
    BY <1>2, <2>2 DEF LoopHead, WaitForChainReady, PollGate, RunPproxy, StartPproxy, ResetBackoff,
       WaitPproxy
  <2>3. CASE PproxyExited \/ LoopError \/ Backoff
    BY <1>2, <2>3 DEF PproxyExited, LoopError, AfterError, Backoff, Double
  <2>4. CASE Epilogue /\ ~StopChildren
    BY <1>2, <2>4 DEF Epilogue, EndStateDns
  <2> QED
    BY <2>1, <2>2, <2>3, <2>4 DEF RestartLoop
<1>3. UnmanagedInv'
  <2> USE DEF BehindInv, UnmanagedInv, TypeOK, Procs, MainTrack, MainPopen, MainCompute, MainStore,
          MainBackoff, MainCheckStop, MainMove, MainSet, MainGoto, childVars
  <2>1. CASE StartUp
    BY <1>1, <2>1 DEF StartUp, Boot, LaunchDns, WatchDns, StartHops, Exited
  <2>2. CASE LoopHead \/ WaitForChainReady \/ RunPproxy
    BY <1>1, <2>2 DEF LoopHead, WaitForChainReady, PollGate, RunPproxy, StartPproxy, ResetBackoff,
       WaitPproxy
  <2>3. CASE PproxyExited \/ LoopError \/ Backoff
    BY <1>1, <2>3 DEF PproxyExited, LoopError, AfterError, Backoff, Double
  <2>4. CASE Epilogue /\ ~StopChildren
    BY <1>1, <2>4 DEF Epilogue, EndStateDns
  <2> QED
    BY <2>1, <2>2, <2>3, <2>4 DEF RestartLoop
<1>4. LeftInv'
  BY <1>1, <1>2 DEF BehindInv, LeftInv, Abandoned
<1> QED
  BY <1>1, <1>3, <1>4 DEF BehindInv, FirstInv, StuckInv, Signalled

\* So does every step of _terminate_process: a pproxy that is up is in the table, unless
\* main was found starting it, and the handler's call for it ends with it killed.
LEMMA TerminateBehind ==
  ASSUME TypeOK, ChildInv, SafeInv, BehindInv, NEW c \in Callers, TerminateProcess(c)
  PROVE  BehindInv'
<1> USE DEF TypeOK, Callers, Procs
<1>1. UNCHANGED <<firstSignal, tracked>>
  BY DEF TerminateProcess
<1>2. /\ hpc # "set" /\ (hpc' # "idle" => hpc # "idle")
      /\ c = "main" => hpc = "idle" /\ hpc' = "idle" /\ mpc \in {"endPproxy", "endDns"}
      /\ c = "handler" => hpc \in {"termPproxy", "termDns"}
      /\ proc'["pproxy"] = "up" => proc["pproxy"] = "up"
  BY DEF TerminateProcess, TermPoll, TermWait, TermKill, TermWaitKilled, Unwind, TermReturns,
     TermNext, Terminating
<1>3. FirstInv' /\ StuckInv'
  BY <1>1, <1>2 DEF TerminateProcess, BehindInv, FirstInv, StuckInv, Signalled
<1>4. UnmanagedInv'
  <2> SUFFICES ASSUME ~LaunchFunkydns
               PROVE  mpc' # "trackDns" /\ (hpc' = "termDns" => term'["handler"] = "poll")
    BY <1>1 DEF BehindInv, UnmanagedInv
  <2>1. mpc' # "trackDns"
    BY DEF BehindInv, UnmanagedInv, TerminateProcess, TermPoll, TermWait, TermKill, TermWaitKilled,
       Unwind, TermReturns, TermNext
  <2>2. ASSUME hpc = "termDns"
        PROVE  hpc' # "termDns"
    BY <1>2, <2>2 DEF BehindInv, UnmanagedInv, TerminateProcess, TermPoll, TermWait, TermKill,
       TermWaitKilled, Unwind, TermReturns, Target, Terminating
  <2>3. ASSUME hpc # "termDns"
        PROVE  hpc' = "termDns" => term'["handler"] = "poll"
    BY <1>2, <2>3 DEF TerminateProcess, TermPoll, TermWait, TermKill, TermWaitKilled, Unwind,
       TermReturns, TermNext, Terminating
  <2> QED
    BY <2>1, <2>2, <2>3
<1>5. ASSUME proc'["pproxy"] = "up", c = "handler"
      PROVE  LeftInv'
  <2> USE DEF BehindInv, LeftInv, Abandoned
  <2>1. proc["pproxy"] = "up" /\ hpc \in {"termPproxy", "termDns"}
    BY <1>2, <1>5
  <2>2. CASE TermPoll(c) \/ TermWait(c)
    <3>1. UNCHANGED mpc
      BY <1>5, <2>2 DEF TermPoll, TermWait, TermReturns, TermNext
    <3>2. hpc' = "termPproxy" => term'["handler"] # "waitKilled"
      BY <1>5, <2>1, <2>2 DEF TermPoll, TermWait, TermReturns, TermNext
    <3>3. ASSUME hpc = "termPproxy", hpc' = "termDns"
          PROVE  firstSignal = "starting"
      <4>1. ~tracked["pproxy"]
        <5>1. Target(c) = "pproxy" /\ ~SeenDead(c)
          BY <1>5, <2>1, <3>3 DEF Target, SeenDead
        <5>2. CASE TermPoll(c)
          BY <3>3, <5>1, <5>2 DEF TermPoll, TermNext
        <5>3. CASE TermWait(c)
          BY <3>3, <5>1, <5>3 DEF TermWait, TermNext
        <5> QED
          BY <2>2, <5>2, <5>3, <5>1, <3>3
      <4>2. CASE mpc \in RunPoints
        <5>1. mpc = "track"
          BY <4>1, <4>2 DEF ChildInv, PromptPproxyInv
        <5>2. firstSignal \notin {"safe", "none", "lockHeld"}
          BY <2>1, <5>1 DEF SafeInv, StartWindow, FirstInv, StuckInv, Signalled
        <5> QED
          BY <5>2
      <4> QED
        BY <2>1, <4>2
    <3> QED
      BY <1>1, <1>5, <2>1, <3>1, <3>2, <3>3 DEF RunPoints
  <2>3. CASE TermKill(c)
    BY <1>1, <1>5, <2>1, <2>3 DEF TermKill, TermNext, Target
  <2>4. CASE TermWaitKilled(c)
    <3>1. hpc = "termDns" /\ term["handler"] = "waitKilled"
      BY <1>5, <2>1, <2>4 DEF TermWaitKilled, Unwind, Terminating
    <3>2. Abandoned
      BY <2>1, <3>1 DEF UnmanagedInv
    <3>3. hpc' = "idle"
      BY <1>5, <2>4, <3>1 DEF TermWaitKilled, Unwind, TermReturns
    <3> QED
      BY <1>1, <3>2, <3>3
  <2> QED
    BY <2>2, <2>3, <2>4 DEF TerminateProcess
<1>6. ASSUME proc'["pproxy"] = "up", c = "main"
      PROVE  LeftInv'
  <2>1. Abandoned
    BY <1>2, <1>6 DEF BehindInv, LeftInv, RunPoints
  <2> QED
    BY <1>1, <1>2, <1>6, <2>1 DEF LeftInv, Abandoned
<1>7. LeftInv'
  BY <1>5, <1>6 DEF LeftInv
<1> QED
  BY <1>3, <1>4, <1>7 DEF BehindInv

\* The other threads and the environment keep it.
LEMMA OtherBehind ==
  ASSUME TypeOK, SafeInv, BehindInv, HandlerSet \/ HopHealthLoop \/ MonitorProcess \/ Environment
  PROVE  BehindInv'
<1> USE DEF TypeOK, BehindInv, FirstInv, StuckInv, LeftInv, Abandoned, UnmanagedInv, Signalled,
        Procs, mainVars, handlerVars, hopVars, childVars, stateVars
<1>1. CASE HandlerSet
  BY <1>1 DEF HandlerSet, HandlerBegin, SafeInv
<1>2. CASE HopHealthLoop \/ MonitorProcess \/ Tick
  <2> HIDE DEF TypeOK, BehindInv
  <2>1. UNCHANGED <<mpc, hpc, term, signals, firstSignal, proc, tracked, stop>>
    BY <1>2 DEF HopHealthLoop, HopSleep, HopMove, HopGoto, HopPublish, HopCompute, HopStore,
       MonitorProcess, MonMove, MonGoto, MonReport, MonCompute, MonStore, Tick
  <2> QED
    BY <2>1 DEF BehindInv
<1>3. CASE DeliverSignal
  <2>1. firstSignal' # "none" /\ (firstSignal' = "lockHeld" => mpc \in EventLockHeld)
    BY <1>3 DEF DeliverSignal
  <2> QED
    BY <1>3, <2>1 DEF DeliverSignal
<1>4. CASE \E p \in Procs : ChildExits(p) \/ KilledChildDies(p)
  BY <1>4 DEF ChildExits, KilledChildDies, ChildGone
<1> QED
  BY <1>1, <1>2, <1>3, <1>4 DEF Environment

\* It holds throughout.
LEMMA BehindCorrect == Spec => []BehindInv
<1>1. Init => BehindInv
  BY DEF Init, BehindInv, FirstInv, StuckInv, LeftInv, UnmanagedInv, Signalled, Procs
<1>2. TypeOK /\ ChildInv /\ SafeInv /\ BehindInv /\ [Next]_vars => BehindInv'
  <2> SUFFICES ASSUME TypeOK, ChildInv, SafeInv, BehindInv, [Next]_vars
               PROVE  BehindInv'
    OBVIOUS
  <2>1. CASE MainThread
    BY <2>1, MainBehind, TerminateBehind, OtherBehind DEF MainThread, StopAll, StopChildren, Callers
  <2>2. CASE UNCHANGED vars
    BY <2>2 DEF BehindInv, FirstInv, StuckInv, LeftInv, Abandoned, UnmanagedInv, Signalled, vars,
                mainVars, handlerVars, childVars
  <2> QED
    BY <2>1, <2>2, OtherBehind DEF Next, Over
<1> QED
  BY <1>1, <1>2, TypeCorrect, ChildrenCorrect, SafeCorrect, PTL DEF Spec

\* However late SIGKILL works, main ends over a pproxy that nobody has killed only if the
\* first signal found it starting that one and FunkyDNS broke the handler off.
THEOREM OnlyStartingLeaves == Spec => []OnlyStartingLeavesPproxy
<1>1. BehindInv => OnlyStartingLeavesPproxy
  BY DEF BehindInv, LeftInv, Abandoned, RunPoints, Running, Exited, OnlyStartingLeavesPproxy
<1> QED
  BY <1>1, BehindCorrect, PTL

\* A first signal that finds main in the lock of the stop event is never handled: main
\* stays where it is for good and no child is stopped, whatever else happens (line 397).
\* So TLC's counterexample to WaitingSignalExits is no matter of bounds or timing.
THEOREM LockedSignalHangs ==
  Spec => /\ [](firstSignal = "lockHeld" => Running /\ hpc = "set" /\ ~stop)
          /\ [][firstSignal = "lockHeld" => UNCHANGED <<mpc, hpc, stop>>]_vars
<1>1. BehindInv => (firstSignal = "lockHeld" => Running /\ hpc = "set" /\ ~stop)
  BY DEF BehindInv, FirstInv, StuckInv, EventLockHeld, Running, Exited
<1>2. BehindInv /\ BehindInv' /\ [Next]_vars =>
        [firstSignal = "lockHeld" => UNCHANGED <<mpc, hpc, stop>>]_vars
  <2> SUFFICES ASSUME BehindInv, Next, firstSignal = "lockHeld"
               PROVE  UNCHANGED <<mpc, hpc, stop>>
    OBVIOUS
  <2>1. hpc = "set" /\ mpc \in EventLockHeld
    BY DEF BehindInv, StuckInv
  <2>2. ~MainThread
    BY <2>1 DEF MainThread, StartUp, Boot, LaunchDns, WatchDns, StartHops, RestartLoop, LoopHead,
       WaitForChainReady, PollGate, RunPproxy, StartPproxy, ResetBackoff, WaitPproxy, PproxyExited,
       LoopError, AfterError, Backoff, Double, Epilogue, EndStateDns, StopChildren, StopAll,
       HandlerSet, HandlerBegin, TerminateProcess, TermPoll, TermWait, TermKill, TermWaitKilled,
       Unwind, Terminating, MainTrack, MainPopen, MainCompute, MainStore, MainBackoff,
       MainCheckStop, MainMove, MainSet, MainGoto
  <2> QED
    BY <2>1, <2>2 DEF Next, HopHealthLoop, HopSleep, HopMove, HopGoto, HopPublish, HopCompute,
       HopStore, MonitorProcess, MonMove, MonGoto, MonReport, MonCompute, MonStore, Environment,
       DeliverSignal, Tick, ChildExits, KilledChildDies, ChildGone, Over, vars, mainVars,
       handlerVars
<1> QED
  BY <1>1, <1>2, BehindCorrect, PTL DEF Spec

-----------------------------------------------------------------------------
(***************************************************************************)
(* FunkyDNS.  It is marked running at one statement, before its watcher    *)
(* exists.                                                                 *)
(***************************************************************************)
\* Every step but that statement leaves a FunkyDNS that is not running so, and none
\* leads back to the points before it.
LEMMA DnsOnlyMarkedOnce ==
  ASSUME TypeOK, Next
  PROVE  /\ state'.funkydns = "running" => state.funkydns = "running" \/ mpc = "markDns"
         /\ state.funkydns = "down" => state'.funkydns = "down" \/ mpc = "markDns"
         /\ mpc' \in BeforeDns => mpc \in BeforeDns
<1> USE DEF TypeOK, Snapshots, BeforeDns, MainGoto, MainMove, MainSet, MainCheckStop, mainVars,
        handlerVars, hopVars, childVars, stateVars
<1>1. CASE StartUp
  BY <1>1 DEF StartUp, Boot, LaunchDns, WatchDns, StartHops, MainTrack, MainPopen, MainCompute,
              MainStore, Exited
<1>2. CASE RestartLoop
  BY <1>2 DEF RestartLoop, LoopHead, WaitForChainReady, PollGate, RunPproxy, StartPproxy,
              ResetBackoff, WaitPproxy, PproxyExited, LoopError, AfterError, Backoff, Double,
              MainTrack, MainPopen, MainCompute, MainStore, MainBackoff
<1>3. ASSUME NEW c \in Callers, TerminateProcess(c)
      PROVE  state' = state /\ (mpc' = mpc \/ mpc' \in {"endDns", "endState", "except", "crashed"})
  BY <1>3 DEF TerminateProcess, TermPoll, TermWait, TermKill, TermWaitKilled, Unwind, TermReturns,
              TermNext
<1>4. CASE Epilogue
  BY <1>3, <1>4, ConstantTypes DEF Epilogue, StopChildren, EndStateDns, MainCompute, MainStore,
     Callers
<1>5. CASE StopAll
  BY <1>3, <1>5 DEF StopAll, HandlerSet, HandlerBegin, Callers
<1>6. CASE HopHealthLoop
  BY <1>6 DEF HopHealthLoop, HopSleep, HopMove, HopGoto, HopPublish, HopCompute, HopStore
<1>7. CASE MonitorProcess
  BY <1>7 DEF MonitorProcess, MonMove, MonGoto, MonReport, MonCompute, MonStore
<1>8. CASE Environment
  BY <1>8 DEF Environment, DeliverSignal, Tick, ChildExits, KilledChildDies, ChildGone
<1>9. CASE Over
  BY <1>9 DEF Over, vars
<1> QED
  BY <1>1, <1>2, <1>4, <1>5, <1>6, <1>7, <1>8, <1>9 DEF Next, MainThread

\* The exit of FunkyDNS, once noted, stays noted (_monitor_process, mark_running).
THEOREM FunkydnsStaysDown == Spec => FunkydnsDownIsFinal
<1>1. TypeOK /\ DecisionInv /\ [Next]_vars =>
        [monPc # "off" /\ state.funkydns = "down" => state'.funkydns = "down"]_vars
  BY DnsOnlyMarkedOnce DEF DecisionInv, WatchInv, BeforeDns
<1> QED
  BY <1>1, TypeCorrect, DecisionsCorrect, PTL DEF Spec, FunkydnsDownIsFinal

-----------------------------------------------------------------------------
(***************************************************************************)
(* The refinement: every step of the supervisor is a step of ChainGate or  *)
(* leaves its variables alone.                                             *)
(***************************************************************************)
\* The gate is closed while a managed FunkyDNS does not run.
LEMMA GateNeedsDns ==
  ASSUME GateOpen(state)
  PROVE  LaunchFunkydns => state.funkydns = "running"
  BY DEF GateOpen

\* Without a managed FunkyDNS the gate does not look at it.
LEMMA GateIgnoresDns ==
  ASSUME ~LaunchFunkydns, state'.hops = state.hops, state'.age = state.age
  PROVE  GateOpen(state)' = GateOpen(state)
  BY DEF GateOpen, Published

\* A pproxy that is alive keeps main away from the points of a new start.
LEMMA NoneAliveWhenAdmitted ==
  ASSUME ChildInv, Alive("pproxy")
  PROVE  mpc \notin Admitted \union {"loop", "gate"}
  BY DEF ChildInv, PproxyInv, Admitted, RunPoints, UnwindPoints, EndPoints, Exited

\* A step that touches neither main's point, the children, FunkyDNS's state, the hop
\* data nor the record of signals is none of ChainGate's.
LEMMA GateStutters ==
  ASSUME UNCHANGED <<ChainOf, DnsOf, GateOpen(state), firstSignal>>
  PROVE  UNCHANGED Gate!vars
  BY DEF Gate!vars, Signalled

\* The start of FunkyDNS: it comes up, or main ends first.
LEMMA StartUpImplements ==
  ASSUME TypeOK, ChildInv, DecisionInv, StartUp
  PROVE  [Gate!Next]_Gate!vars
<1> USE DEF TypeOK, Snapshots, BeforeDns, Admitted, Alive, Procs, ChainOf, DnsOf, Exited, MainGoto,
        MainMove, MainSet, handlerVars, childVars, stateVars
<1>1. CASE Boot \/ LaunchDns
  <2>1. UNCHANGED <<state, firstSignal, ChainOf>> /\ mpc \in BeforeDns
    BY <1>1 DEF Boot, LaunchDns, MainPopen
  <2>2. CASE mpc' \in BeforeDns \/ ~LaunchFunkydns
    BY <2>1, <2>2, GateReads, GateStutters
  <2>3. CASE mpc' \notin BeforeDns /\ LaunchFunkydns
    <3>1. state.funkydns = "down"
      BY <2>1, <2>3 DEF DecisionInv, WatchInv
    <3>2. DnsOf = "pending" /\ DnsOf' = "lost" /\ ~GateOpen(state) /\ ~GateOpen(state)'
      BY <2>1, <2>3, <3>1, GateNeedsDns, GateReads
    <3> QED
      BY <2>1, <3>2 DEF Gate!Next, Gate!DnsLost, Signalled
  <2> QED
    BY <2>2, <2>3
<1>2. CASE MainSet("markDns", [state EXCEPT !.funkydns = "running"], "watchDns")
  <2>1. /\ UNCHANGED <<firstSignal, ChainOf>> /\ mpc = "markDns" /\ mpc' = "watchDns"
        /\ state'.funkydns = "running" /\ state'.hops = state.hops /\ state'.age = state.age
    BY <1>2
  <2>2. CASE LaunchFunkydns
    <3>1. DnsOf = "pending" /\ DnsOf' = "up"
      BY <2>1, <2>2 DEF DecisionInv, WatchInv
    <3>2. GateOpen(state)' \in BOOLEAN
      BY DEF GateOpen
    <3> QED
      BY <2>1, <3>1, <3>2 DEF Gate!Next, Gate!DnsUp, Signalled
  <2>3. CASE ~LaunchFunkydns
    BY <2>1, <2>3, GateIgnoresDns, GateStutters
  <2> QED
    BY <2>2, <2>3
<1>3. CASE ~Boot /\ ~LaunchDns /\ mpc # "markDns"
  <2>1. /\ UNCHANGED <<firstSignal, proc>> /\ {mpc, mpc'} \cap Admitted = {}
        /\ mpc \in BeforeDns <=> mpc' \in BeforeDns
        /\ state'.funkydns = state.funkydns /\ state'.hops = state.hops
        /\ state'.age = state.age
    BY <1>3 DEF StartUp, MainTrack, WatchDns, MainCompute, MainStore, StartHops
  <2> QED
    BY <2>1, GateReads, GateStutters
<1> QED
  BY <1>1, <1>2, <1>3 DEF StartUp, Boot, LaunchDns, MainTrack, WatchDns, MainCompute, MainStore,
     StartHops, MainPopen

\* The restart loop: a chain is admitted at the gate, started or given up.
LEMMA RestartLoopImplements ==
  ASSUME TypeOK, ChildInv, DecisionInv, RestartLoop
  PROVE  [Gate!Next]_Gate!vars
<1> USE DEF TypeOK, Snapshots, Procs, MainGoto, MainMove, MainSet, MainCheckStop, handlerVars,
        childVars, stateVars
<1>1. /\ UNCHANGED firstSignal /\ hpc = "idle" /\ {mpc, mpc'} \cap BeforeDns = {}
      /\ state'.funkydns = state.funkydns /\ state'.hops = state.hops /\ state'.age = state.age
  BY DEF RestartLoop, LoopHead, WaitForChainReady, PollGate, RunPproxy, StartPproxy,
         ResetBackoff, WaitPproxy, PproxyExited, LoopError, AfterError, Backoff, Double,
         MainTrack, MainPopen, MainCompute, MainStore, MainBackoff, BeforeDns
<1>2. UNCHANGED <<DnsOf, GateOpen(state), Signalled>>
  BY <1>1, GateReads DEF DnsOf, Signalled
<1>3. CASE /\ LoopHead \/ PollGate
           /\ mpc' \in Admitted
  <2>1. ~stop /\ proc' = proc /\ (BlockStart => GateOpen(state)) /\ mpc \in {"loop", "gate"}
    BY <1>3, SupervisorAssumption DEF LoopHead, PollGate, Admitted
  <2>2. ~Signalled /\ ChainOf = "closed" /\ ChainOf' = "admitted"
    BY <1>1, <1>3, <2>1, NoneAliveWhenAdmitted DEF DecisionInv, SignalInv, ChainOf, Admitted
  <2> QED
    BY <1>2, <2>1, <2>2 DEF Gate!Next, Gate!Admit
<1>4. CASE mpc \in Admitted /\ mpc' \notin Admitted
  <2>1. ChainOf = "admitted" /\ ChainOf' \in {"open", "closed"}
    BY <1>4 DEF ChainOf
  <2> QED
    BY <1>2, <2>1 DEF Gate!Next, Gate!Start
<1>5. CASE /\ ~(LoopHead \/ PollGate) \/ mpc' \notin Admitted
           /\ ~(mpc \in Admitted /\ mpc' \notin Admitted)
  <2>1. proc' = proc /\ (mpc \in Admitted <=> mpc' \in Admitted)
    BY <1>5 DEF RestartLoop, LoopHead, WaitForChainReady, PollGate, RunPproxy, StartPproxy,
       ResetBackoff, WaitPproxy, PproxyExited, LoopError, AfterError, Backoff, Double,
       MainTrack, MainPopen, MainCompute, MainStore, MainBackoff, Admitted
  <2> QED
    BY <1>1, <1>2, <2>1, GateStutters DEF ChainOf, Alive
<1> QED
  BY <1>3, <1>4, <1>5

\* Termination: an exception of the handler may end a start or, early on, main.
LEMMA TerminateImplements ==
  ASSUME TypeOK, ChildInv, DecisionInv, NEW c \in Callers, TerminateProcess(c)
  PROVE  [Gate!Next]_Gate!vars
<1>1. /\ UNCHANGED <<state, firstSignal>>
      /\ mpc' = mpc \/ mpc' \in {"endDns", "endState", "except", "crashed"}
  BY DEF TerminateProcess, TermPoll, TermWait, TermKill, TermWaitKilled, Unwind, TermReturns,
         TermNext, stateVars
<1>2. Alive("pproxy")' <=> Alive("pproxy")
  BY DEF TypeOK, Procs, Target, Alive, TerminateProcess, TermPoll, TermWait, TermKill,
         TermWaitKilled, Unwind
<1>3. UNCHANGED <<GateOpen(state), Signalled>>
  BY <1>1, GateReads DEF Signalled
<1>4. CASE mpc \in Admitted /\ mpc' # mpc
  <2>1. ChainOf = "admitted" /\ ChainOf' = "closed" /\ DnsOf' = DnsOf
    BY <1>1, <1>2, <1>4, NoneAliveWhenAdmitted DEF ChainOf, DnsOf, Admitted, BeforeDns
  <2> QED
    BY <1>3, <2>1 DEF Gate!Next, Gate!Start
<1>5. CASE mpc \notin Admitted /\ DnsOf' # DnsOf
  <2>1. ChainOf' = ChainOf /\ DnsOf = "pending" /\ DnsOf' = "lost" /\ ~GateOpen(state)
    BY <1>1, <1>2, <1>5, GateNeedsDns DEF ChainOf, DnsOf, Admitted, BeforeDns
  <2> QED
    BY <1>3, <2>1 DEF Gate!Next, Gate!DnsLost
<1>6. CASE mpc' = mpc \/ (mpc \notin Admitted /\ DnsOf' = DnsOf)
  <2>1. UNCHANGED <<ChainOf, DnsOf>>
    BY <1>1, <1>2, <1>6 DEF ChainOf, DnsOf, Admitted
  <2> QED
    BY <1>1, <1>3, <2>1, GateStutters
<1> QED
  BY <1>4, <1>5, <1>6

\* The epilogue reports FunkyDNS down.
LEMMA EpilogueImplements ==
  ASSUME TypeOK, ChildInv, DecisionInv, Epilogue
  PROVE  [Gate!Next]_Gate!vars
<1> USE DEF TypeOK, Snapshots, MainGoto, MainSet, handlerVars, childVars, stateVars
<1>1. CASE StopChildren
  BY <1>1, TerminateImplements DEF StopChildren, Callers
<1>2. CASE ~StopChildren
  <2>1. /\ UNCHANGED <<firstSignal, proc>> /\ {mpc, mpc'} \cap (Admitted \union BeforeDns) = {}
        /\ state'.hops = state.hops /\ state'.age = state.age
        /\ state'.funkydns = state.funkydns \/ (LaunchFunkydns /\ state'.funkydns = "down")
    BY <1>2, ConstantTypes DEF Epilogue, EndStateDns, MainCompute, MainStore, Admitted, BeforeDns,
       Exited
  <2>2. ChainOf' = ChainOf
    BY <2>1 DEF ChainOf, Alive
  <2>3. CASE state'.funkydns = state.funkydns
    BY <2>1, <2>2, <2>3, GateReads, GateStutters DEF DnsOf
  <2>4. CASE LaunchFunkydns /\ state'.funkydns = "down" /\ state.funkydns # "down"
    <3>1. ~GateOpen(state)' /\ DnsOf' = "lost"
      BY <2>1, <2>4 DEF GateOpen, DnsOf
    <3>2. CASE state.funkydns = "running"
      BY <2>1, <2>2, <2>4, <3>1, <3>2 DEF Gate!Next, Gate!DnsLost, DnsOf, Signalled
    <3>3. CASE state.funkydns # "running"
      <4>1. GateOpen(state)' = GateOpen(state)
        BY <2>4, <3>1, <3>3 DEF GateOpen
      <4>2. DnsOf' = DnsOf
        BY <2>1, <2>2, <2>4, <3>1, <3>3 DEF DnsOf
      <4> QED
        BY <2>1, <2>2, <4>1, <4>2, GateStutters
    <3> QED
      BY <3>2, <3>3
  <2> QED
    BY <2>1, <2>3, <2>4
<1> QED
  BY <1>1, <1>2

\* Both threads and the environment: verdicts come and go, FunkyDNS is noted down,
\* a stop is signalled, a pproxy ends.
LEMMA OtherImplements ==
  ASSUME TypeOK, ChildInv, DecisionInv,
         HandlerSet \/ HopHealthLoop \/ MonitorProcess \/ Environment
  PROVE  [Gate!Next]_Gate!vars
<1> USE DEF TypeOK, Snapshots, mainVars, handlerVars, hopVars, childVars, stateVars
<1>1. CASE HandlerSet
  BY <1>1, GateReads, GateStutters DEF HandlerSet, HandlerBegin, ChainOf, DnsOf, Alive
<1>2. CASE HopHealthLoop \/ Tick
  <2>1. UNCHANGED <<mpc, proc, firstSignal>> /\ state'.funkydns = state.funkydns
    BY <1>2 DEF HopHealthLoop, HopSleep, HopMove, HopGoto, HopPublish, HopCompute, HopStore, Tick
  <2>2. UNCHANGED <<ChainOf, DnsOf, Signalled>>
    BY <2>1 DEF ChainOf, DnsOf, Alive, Signalled
  <2>3. /\ GateOpen(state)' \in BOOLEAN
        /\ GateOpen(state)' => DnsOf \in {"off", "up"}
    BY <2>1 DEF GateOpen, DnsOf
  <2> QED
    BY <2>2, <2>3 DEF Gate!Next, Gate!Observe
<1>3. CASE MonitorProcess
  <2>1. /\ UNCHANGED <<mpc, proc, firstSignal>> /\ monPc # "off"
        /\ state'.hops = state.hops /\ state'.age = state.age
        /\ state'.funkydns = state.funkydns \/ state'.funkydns = "down"
    BY <1>3 DEF MonitorProcess, MonMove, MonGoto, MonReport, MonCompute, MonStore
  <2>2. UNCHANGED <<ChainOf, Signalled>> /\ mpc \notin BeforeDns
    BY <2>1 DEF ChainOf, Alive, Signalled, DecisionInv, WatchInv
  <2>3. CASE state'.funkydns = state.funkydns \/ ~LaunchFunkydns
    BY <2>1, <2>2, <2>3, GateReads, GateIgnoresDns, GateStutters DEF DnsOf
  <2>4. CASE LaunchFunkydns /\ state'.funkydns = "down" /\ state.funkydns # "down"
    <3>1. ~GateOpen(state)' /\ DnsOf' = "lost"
      BY <2>1, <2>2, <2>4 DEF GateOpen, DnsOf
    <3>2. CASE state.funkydns = "running"
      BY <2>1, <2>2, <2>4, <3>1, <3>2 DEF Gate!Next, Gate!DnsLost, DnsOf
    <3>3. CASE state.funkydns # "running"
      <4>1. GateOpen(state)' = GateOpen(state)
        BY <2>4, <3>1, <3>3 DEF GateOpen
      <4>2. DnsOf' = DnsOf
        BY <2>1, <2>2, <2>4, <3>1, <3>3 DEF DnsOf
      <4> QED
        BY <2>1, <2>2, <4>1, <4>2, GateStutters
    <3> QED
      BY <3>2, <3>3
  <2> QED
    BY <2>1, <2>3, <2>4, ConstantTypes
<1>4. CASE DeliverSignal
  <2>1. UNCHANGED <<state, mpc, proc>>
    BY <1>4 DEF DeliverSignal
  <2>2. UNCHANGED <<ChainOf, DnsOf, GateOpen(state)>>
    BY <2>1, GateReads DEF ChainOf, DnsOf, Alive
  <2>3. CASE Signalled'
    BY <2>2, <2>3 DEF Gate!Next, Gate!Stop, Signalled
  <2>4. CASE ~Signalled'
    <3>1. firstSignal' = firstSignal
      BY <1>4, <2>4 DEF DeliverSignal, Signalled
    <3> QED
      BY <2>2, <3>1, GateStutters
  <2> QED
    BY <2>3, <2>4
<1>5. CASE \E p \in Procs : ChildExits(p) \/ KilledChildDies(p)
  <2>1. PICK p \in Procs : ChildExits(p) \/ KilledChildDies(p)
    BY <1>5
  <2>2. UNCHANGED <<state, mpc, firstSignal>> /\ (Alive("pproxy")' => Alive("pproxy"))
    BY <2>1 DEF ChildExits, KilledChildDies, ChildGone, Alive, Procs
  <2>3. UNCHANGED <<DnsOf, GateOpen(state), Signalled>>
    BY <2>2, GateReads DEF DnsOf, Signalled
  <2>4. CASE Alive("pproxy") /\ ~Alive("pproxy")'
    <3>1. ChainOf = "open" /\ ChainOf' = "closed"
      BY <2>2, <2>4, NoneAliveWhenAdmitted DEF ChainOf
    <3> QED
      BY <2>3, <3>1 DEF Gate!Next, Gate!Close
  <2>5. CASE Alive("pproxy") <=> Alive("pproxy")'
    BY <2>2, <2>3, <2>5, GateStutters DEF ChainOf
  <2> QED
    BY <2>2, <2>4, <2>5
<1> QED
  BY <1>1, <1>2, <1>3, <1>4, <1>5 DEF Environment

\* The supervisor implements ChainGate under the mapping of Supervisor!Gate, whatever
\* the interleaving of its threads, its handler and its children.
THEOREM ImplementsChainGate == Spec => KeepsChainGate
<1>1. Init => Gate!Init
  <2> SUFFICES ASSUME Init
               PROVE  Gate!Init
    OBVIOUS
  <2>1. ChainOf = "closed" /\ ~Signalled
    BY DEF Init, ChainOf, Alive, Procs, Admitted, Signalled
  <2>2. DnsOf = IF LaunchFunkydns THEN "pending" ELSE "off"
    BY DEF Init, InitialState, DnsOf, BeforeDns
  <2>3. ~GateOpen(state)
    BY DEF Init, InitialState, GateOpen, Published
  <2> QED
    BY <2>1, <2>2, <2>3 DEF Gate!Init, Signalled, GateOpen
<1>2. TypeOK /\ ChildInv /\ DecisionInv /\ [Next]_vars => [Gate!Next]_Gate!vars
  <2> SUFFICES ASSUME TypeOK, ChildInv, DecisionInv, [Next]_vars
               PROVE  [Gate!Next]_Gate!vars
    OBVIOUS
  <2>1. CASE MainThread
    BY <2>1, StartUpImplements, RestartLoopImplements, EpilogueImplements, TerminateImplements,
       OtherImplements DEF MainThread, StopAll, Callers
  <2>2. CASE UNCHANGED vars
    BY <2>2, GateReads, GateStutters DEF vars, mainVars, handlerVars, childVars, stateVars,
       ChainOf, DnsOf, Alive
  <2> QED
    BY <2>1, <2>2, OtherImplements DEF Next, Over
<1> QED
  BY <1>1, <1>2, TypeCorrect, ChildrenCorrect, DecisionsCorrect, PTL
     DEF Spec, KeepsChainGate, Gate!Spec
-----------------------------------------------------------------------------
(***************************************************************************)
(* What ChainGate entails then holds of the supervisor.                    *)
(***************************************************************************)
\* The gate is open only with the FunkyDNS it needs.
THEOREM UsableChain == Spec => []Gate!UsableNeedsDns
<1>1. Gate!Init => Gate!UsableNeedsDns
  BY DEF Gate!Init, Gate!UsableNeedsDns
<1>2. Gate!UsableNeedsDns /\ [Gate!Next]_Gate!vars => Gate!UsableNeedsDns'
  BY DEF Gate!UsableNeedsDns, Gate!Next, Gate!Admit, Gate!Start, Gate!Close, Gate!Observe,
     Gate!DnsUp, Gate!DnsLost, Gate!Stop, Gate!vars
<1> QED
  BY <1>1, <1>2, ImplementsChainGate, PTL DEF KeepsChainGate, Gate!Spec

\* A FunkyDNS that is lost is not started again, and with the start gate no pproxy is
\* admitted after it; one that runs is the last (main starts FunkyDNS once).
THEOREM LostFinal == Spec => Gate!LostIsFinal
<1>1. Gate!UsableNeedsDns /\ [Gate!Next]_Gate!vars =>
        [BlockStart /\ DnsOf = "lost" =>
           DnsOf' = "lost" /\ (ChainOf = "closed" => ChainOf' = "closed")]_Gate!vars
  BY DEF Gate!UsableNeedsDns, Gate!Next, Gate!Admit, Gate!Start, Gate!Close, Gate!Observe,
     Gate!DnsUp, Gate!DnsLost, Gate!Stop, Gate!vars
<1> QED
  BY <1>1, ImplementsChainGate, UsableChain, PTL DEF KeepsChainGate, Gate!Spec, Gate!LostIsFinal

\* After a stop signal main admits no pproxy, though one that it had admitted before may
\* still be started (stop_all).
THEOREM StopFinal == Spec => Gate!NoAdmissionAfterStop
<1>1. [Gate!Next]_Gate!vars =>
        [Signalled /\ ChainOf = "closed" => ChainOf' = "closed"]_Gate!vars
  BY DEF Gate!Next, Gate!Admit, Gate!Start, Gate!Close, Gate!Observe, Gate!DnsUp, Gate!DnsLost,
     Gate!Stop, Gate!vars
<1> QED
  BY <1>1, ImplementsChainGate, PTL DEF KeepsChainGate, Gate!Spec, Gate!NoAdmissionAfterStop
=============================================================================
