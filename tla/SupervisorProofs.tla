------------------------- MODULE SupervisorProofs -------------------------
(***************************************************************************)
(* Invariants of Supervisor, for every chain, mode, backoff bound and      *)
(* number of signals.                                                      *)
(***************************************************************************)
EXTENDS Supervisor, ReadinessProofs

-----------------------------------------------------------------------------
(***************************************************************************)
(* Types.                                                                  *)
(***************************************************************************)
LEMMA ConstantTypes ==
  /\ StaleAfter \in Nat /\ MaxBackoff \in Nat /\ MaxBackoff >= 1 /\ MaxSignals \in Nat
  /\ LaunchFunkydns \in BOOLEAN
  BY ReadinessAssumption, SupervisorAssumption

\* The shared state _initial_state builds is a snapshot.
LEMMA InitialStateType == InitialState \in Snapshots
  BY ConstantTypes DEF InitialState, Snapshots, HopResults, Never

\* set_state of any legal value, from any point to any point.
LEMMA MainSetType ==
  ASSUME TypeOK, NEW from, NEW to \in MainPoints, NEW new \in Snapshots, MainSet(from, new, to)
  PROVE  TypeOK'
  BY DEF TypeOK, MainSet, MainGoto, handlerVars, childVars

\* A step of main() that changes only its program point keeps the type invariant.
LEMMA MainMoveType ==
  ASSUME TypeOK, NEW from, NEW to \in MainPoints, MainMove(from, to)
  PROVE  TypeOK'
  BY MainSetType DEF TypeOK, MainMove

\* Reading the stop flag keeps the type invariant.
LEMMA MainCheckStopType ==
  ASSUME TypeOK, NEW from, NEW a \in MainPoints, NEW b \in MainPoints,
         MainCheckStop(from, a, b)
  PROVE  TypeOK'
  BY MainMoveType DEF MainCheckStop

\* Computing a readiness report keeps the type invariant.
LEMMA MainComputeType ==
  ASSUME TypeOK, NEW from, NEW to \in MainPoints, MainCompute(from, to)
  PROVE  TypeOK'
<1>1. Ready(state) \in BOOLEAN
  BY DEF Ready
<1> QED
  BY <1>1 DEF TypeOK, MainCompute, MainGoto, handlerVars, childVars, Refreshers

\* Storing a report in the shared state keeps the type invariant.
LEMMA MainStoreType ==
  ASSUME TypeOK, NEW from, NEW to \in MainPoints, MainStore(from, to)
  PROVE  TypeOK'
<1>1. state' \in Snapshots
  BY DEF TypeOK, MainStore, Refreshers, Snapshots
<1>2. verdict' \in [Refreshers -> BOOLEAN]
  BY DEF TypeOK, MainStore
<1> QED
  BY <1>1, <1>2 DEF TypeOK, MainStore, MainGoto, handlerVars, childVars

\* Recording a child in PROCESSES, or dropping it, keeps the type invariant.
LEMMA MainTrackType ==
  ASSUME TypeOK, NEW from, NEW to \in MainPoints, NEW p \in Procs, NEW value \in BOOLEAN,
         MainTrack(from, p, value, to)
  PROVE  TypeOK'
  BY DEF TypeOK, MainTrack, MainGoto, handlerVars, stateVars

\* Spawning a child keeps the type invariant.
LEMMA MainPopenType ==
  ASSUME TypeOK, NEW from, NEW to \in MainPoints, NEW p \in Procs, MainPopen(from, p, to)
  PROVE  TypeOK'
  BY DEF TypeOK, MainPopen, MainGoto, handlerVars, stateVars

\* Adjusting the restart back-off keeps the type invariant.
LEMMA MainBackoffType ==
  ASSUME TypeOK, NEW from, NEW to \in MainPoints, NEW value \in 1..MaxBackoff,
         MainBackoff(from, value, to)
  PROVE  TypeOK'
  BY DEF TypeOK, MainBackoff, MainGoto, handlerVars, childVars, stateVars

\* The start-up part of main() keeps the type invariant.
LEMMA StartUpType ==
  ASSUME TypeOK, StartUp
  PROVE  TypeOK'
<1> USE DEF MainPoints, TryBlock, StartWindow, Exited
<1>1. CASE Boot
  BY <1>1, MainMoveType DEF Boot
<1>2. CASE LaunchDns
  BY <1>2, MainMoveType, MainPopenType DEF LaunchDns, Procs
<1>3. CASE MainTrack("trackDns", "funkydns", TRUE, "markDns")
  BY <1>3, MainTrackType DEF Procs
<1>4. CASE MainSet("markDns", [state EXCEPT !.funkydns = "running"], "watchDns")
  <2>1. [state EXCEPT !.funkydns = "running"] \in Snapshots
    BY DEF TypeOK, Snapshots
  <2> QED
    BY <1>4, <2>1, MainSetType
<1>5. CASE WatchDns
  BY <1>5 DEF TypeOK, WatchDns, MainGoto, handlerVars, childVars, stateVars
<1>6. CASE MainCompute("bootCompute", "bootStore")
  BY <1>6, MainComputeType
<1>7. CASE MainStore("bootStore", "startHops")
  BY <1>7, MainStoreType
<1>8. CASE StartHops
  BY <1>8 DEF TypeOK, StartHops, handlerVars, childVars, stateVars
<1> QED
  BY <1>1, <1>2, <1>3, <1>4, <1>5, <1>6, <1>7, <1>8 DEF StartUp

\* The restart loop of main() keeps the type invariant.
LEMMA RestartLoopType ==
  ASSUME TypeOK, RestartLoop
  PROVE  TypeOK'
<1> USE DEF MainPoints, TryBlock, StartWindow, Exited
<1>0. \A v \in {"down", "starting", "running", "error"} :
         [state EXCEPT !.pproxy = v] \in Snapshots
  BY DEF TypeOK, Snapshots
<1>1. CASE LoopHead
  BY <1>1, MainCheckStopType DEF LoopHead
<1>2. CASE WaitForChainReady
  BY <1>2, MainCheckStopType, MainMoveType DEF WaitForChainReady, PollGate
<1>3. CASE RunPproxy
  <2>1. CASE MainCheckStop("gated", "endPproxy", "starting")
    BY <2>1, MainCheckStopType
  <2>2. CASE MainSet("starting", [state EXCEPT !.pproxy = "starting"], "spawn")
    BY <1>0, <2>2, MainSetType
  <2>3. CASE StartPproxy
    BY <2>3, MainMoveType, MainPopenType DEF StartPproxy, Procs
  <2>4. CASE MainTrack("track", "pproxy", TRUE, "mark")
    BY <2>4, MainTrackType DEF Procs
  <2>5. CASE MainSet("mark", [state EXCEPT !.pproxy = "running"], "runCompute")
    BY <1>0, <2>5, MainSetType
  <2>6. CASE MainCompute("runCompute", "runStore")
    BY <2>6, MainComputeType
  <2>7. CASE MainStore("runStore", "resetBackoff")
    BY <2>7, MainStoreType
  <2>8. CASE ResetBackoff
    BY <2>8, MainBackoffType, ConstantTypes DEF ResetBackoff
  <2>9. CASE WaitPproxy
    BY <2>9, MainMoveType DEF WaitPproxy
  <2> QED
    BY <1>3, <2>1, <2>2, <2>3, <2>4, <2>5, <2>6, <2>7, <2>8, <2>9 DEF RunPproxy
<1>4. CASE PproxyExited
  <2>1. CASE MainTrack("clear", "pproxy", FALSE, "down")
    BY <2>1, MainTrackType DEF Procs
  <2>2. CASE MainSet("down", [state EXCEPT !.pproxy = "down"], "downCompute")
    BY <1>0, <2>2, MainSetType
  <2>3. CASE MainCompute("downCompute", "downStore")
    BY <2>3, MainComputeType
  <2>4. CASE MainStore("downStore", "checkDown")
    BY <2>4, MainStoreType
  <2>5. CASE MainCheckStop("checkDown", "endPproxy", "checkSleep")
    BY <2>5, MainCheckStopType
  <2> QED
    BY <1>4, <2>1, <2>2, <2>3, <2>4, <2>5 DEF PproxyExited
<1>5. CASE LoopError
  <2>1. CASE MainTrack("except", "pproxy", FALSE, "error")
    BY <2>1, MainTrackType DEF Procs
  <2>2. CASE MainSet("error", [state EXCEPT !.pproxy = "error"], "errCompute")
    BY <1>0, <2>2, MainSetType
  <2>3. CASE MainCompute("errCompute", "errStore")
    BY <2>3, MainComputeType
  <2>4. CASE MainStore("errStore", "checkErr")
    BY <2>4, MainStoreType
  <2>5. CASE AfterError
    BY <2>5, MainCheckStopType DEF AfterError
  <2> QED
    BY <1>5, <2>1, <2>2, <2>3, <2>4, <2>5 DEF LoopError
<1>6. CASE Backoff
  <2>1. CASE MainCheckStop("checkSleep", "endPproxy", "sleepEnter")
    BY <2>1, MainCheckStopType
  <2>2. CASE \/ MainMove("sleepEnter", "sleep") \/ MainMove("sleep", "sleepLeave")
             \/ MainMove("sleepLeave", "double")
    BY <2>2, MainMoveType
  <2>3. CASE Double
    <3>1. (IF 2 * backoff <= MaxBackoff THEN 2 * backoff ELSE MaxBackoff) \in 1..MaxBackoff
      BY ConstantTypes DEF TypeOK
    <3> QED
      BY <2>3, <3>1, MainBackoffType DEF Double
  <2> QED
    BY <1>6, <2>1, <2>2, <2>3 DEF Backoff
<1> QED
  BY <1>1, <1>2, <1>3, <1>4, <1>5, <1>6 DEF RestartLoop

\* Terminating a child keeps the type invariant.
LEMMA TerminateType ==
  ASSUME TypeOK, NEW c \in Callers, TerminateProcess(c)
  PROVE  TypeOK'
<1>1. UNCHANGED <<backoff, signals, firstSignal, hopVars, monPc, tracked, stateVars, stop>>
  BY DEF TerminateProcess
<1>2. /\ mpc' \in MainPoints
      /\ hpc' \in {"idle", "set", "termPproxy", "termDns"}
      /\ term' \in [Callers -> {"poll", "wait", "kill", "waitKilled"}]
  <2>1. CASE UNCHANGED <<mpc, hpc>> /\ \E step \in {"wait", "kill", "waitKilled"} :
               term' = [term EXCEPT ![c] = step]
    BY <2>1 DEF TypeOK, Callers
  <2>2. CASE TermReturns(c)
    BY <2>2 DEF TypeOK, TermReturns, MainPoints
  <2>3. CASE Unwind(c)
    BY <2>3 DEF TypeOK, Unwind, MainPoints, TryBlock, Exited, Callers
  <2> QED
    BY <2>1, <2>2, <2>3 DEF TerminateProcess, TermPoll, TermWait, TermKill, TermWaitKilled,
       TermNext
<1>3. Target(c) \in Procs
  BY DEF Target, Procs
<1>4. proc' \in [Procs -> {"none", "up", "killed", "dead"}]
  BY <1>3 DEF TypeOK, TerminateProcess, TermPoll, TermWait, TermKill, TermWaitKilled, Unwind
<1> QED
  BY <1>1, <1>2, <1>4 DEF TypeOK, hopVars, stateVars

\* The epilogue of main() keeps the type invariant.
LEMMA EpilogueType ==
  ASSUME TypeOK, Epilogue
  PROVE  TypeOK'
<1> USE DEF MainPoints, TryBlock, StartWindow, Exited
<1>1. CASE StopChildren
  BY <1>1, TerminateType DEF StopChildren, Callers
<1>2. CASE MainSet("endState", [state EXCEPT !.pproxy = "down"], "endStateDns")
  <2>1. [state EXCEPT !.pproxy = "down"] \in Snapshots
    BY DEF TypeOK, Snapshots
  <2> QED
    BY <1>2, <2>1, MainSetType
<1>3. CASE EndStateDns
  <2>1. [state EXCEPT !.funkydns = IF LaunchFunkydns THEN "down" ELSE @] \in Snapshots
    BY DEF TypeOK, Snapshots
  <2> QED
    BY <1>3, <2>1, MainSetType DEF EndStateDns
<1>4. CASE MainCompute("endCompute", "endStore")
  BY <1>4, MainComputeType
<1>5. CASE MainStore("endStore", "exited")
  BY <1>5, MainStoreType
<1> QED
  BY <1>1, <1>2, <1>3, <1>4, <1>5 DEF Epilogue

\* The signal handler stop_all keeps the type invariant.
LEMMA StopAllType ==
  ASSUME TypeOK, StopAll
  PROVE  TypeOK'
<1>1. CASE HandlerSet
  BY <1>1 DEF TypeOK, HandlerSet, HandlerBegin, mainVars, hopVars, childVars, stateVars
<1>2. CASE TerminateProcess("handler")
  BY <1>2, TerminateType DEF Callers
<1> QED
  BY <1>1, <1>2 DEF StopAll

\* The hop health thread keeps the type invariant.
LEMMA HopHealthLoopType ==
  ASSUME TypeOK, HopHealthLoop
  PROVE  TypeOK'
<1> USE DEF mainVars, handlerVars, childVars, stateVars, HopGoto
<1>1. CASE HopMove("check", IF stop THEN "done" ELSE "probe")
  BY <1>1 DEF TypeOK, HopMove
<1>2. CASE HopPublish
  <2>1. state' \in Snapshots
    BY <1>2 DEF TypeOK, HopPublish, Snapshots, HopResults
  <2>2. probeAge' \in 0..StaleAfter + 1
    BY <1>2, ConstantTypes DEF HopPublish
  <2> QED
    BY <1>2, <2>1, <2>2 DEF TypeOK, HopPublish
<1>3. CASE HopCompute
  <2>1. Ready([state EXCEPT !.age = 0]) \in BOOLEAN
    BY DEF Ready
  <2> QED
    BY <1>3, <2>1 DEF TypeOK, HopCompute, Refreshers
<1>4. CASE HopStore
  <2>1. state' \in Snapshots
    BY <1>4 DEF TypeOK, HopStore, Refreshers, Snapshots
  <2> QED
    BY <1>4, <2>1 DEF TypeOK, HopStore
<1>5. CASE HopSleep
  BY <1>5 DEF TypeOK, HopSleep, HopMove
<1> QED
  BY <1>1, <1>2, <1>3, <1>4, <1>5 DEF HopHealthLoop

\* The thread that waits for FunkyDNS to end keeps the type invariant.
LEMMA MonitorProcessType ==
  ASSUME TypeOK, MonitorProcess
  PROVE  TypeOK'
<1> USE DEF mainVars, handlerVars, hopVars, childVars, stateVars, MonGoto
<1>1. CASE MonMove("wait", "check") \/ MonMove("check", IF stop THEN "done" ELSE "report")
  BY <1>1 DEF TypeOK, MonMove
<1>2. CASE MonReport
  <2>1. state' \in Snapshots
    BY <1>2 DEF TypeOK, MonReport, Snapshots
  <2> QED
    BY <1>2, <2>1 DEF TypeOK, MonReport
<1>3. CASE MonCompute
  <2>1. Ready(state) \in BOOLEAN
    BY DEF Ready
  <2> QED
    BY <1>3, <2>1 DEF TypeOK, MonCompute, Refreshers
<1>4. CASE MonStore
  <2>1. state' \in Snapshots
    BY <1>4 DEF TypeOK, MonStore, Refreshers, Snapshots
  <2> QED
    BY <1>4, <2>1 DEF TypeOK, MonStore
<1> QED
  BY <1>1, <1>2, <1>3, <1>4 DEF MonitorProcess

\* A step of the environment (a signal, a second passing, a child exiting or killed) keeps
\* the type invariant.
LEMMA EnvironmentType ==
  ASSUME TypeOK, Environment
  PROVE  TypeOK'
<1> USE DEF mainVars, handlerVars, hopVars, childVars, stateVars
<1>1. CASE DeliverSignal
  BY <1>1, ConstantTypes DEF TypeOK, DeliverSignal
<1>2. CASE Tick
  <2>1. Older(state.age) \in {Never} \union (0..StaleAfter + 1)
    BY ConstantTypes DEF TypeOK, Snapshots, Older, Never
  <2>2. state' \in Snapshots
    BY <1>2, <2>1 DEF TypeOK, Tick, Snapshots
  <2>3. probeAge' \in 0..StaleAfter + 1
    BY <1>2, ConstantTypes DEF TypeOK, Tick, Older, Never
  <2> QED
    BY <1>2, <2>2, <2>3 DEF TypeOK, Tick
<1>3. ASSUME NEW p \in Procs, ChildExits(p) \/ KilledChildDies(p)
      PROVE  TypeOK'
  BY <1>3 DEF TypeOK, ChildExits, KilledChildDies, ChildGone
<1> QED
  BY <1>1, <1>2, <1>3 DEF Environment

\* Every variable of the supervisor keeps its type.
THEOREM TypeCorrect == Spec => []TypeOK
<1>1. Init => TypeOK
  <2> SUFFICES ASSUME Init
               PROVE  TypeOK
    OBVIOUS
  <2>1. /\ tracked \in [Procs -> BOOLEAN]
        /\ proc \in [Procs -> {"none", "up", "killed", "dead"}]
        /\ term \in [Callers -> {"poll", "wait", "kill", "waitKilled"}]
        /\ verdict \in [Refreshers -> BOOLEAN]
    BY DEF Init
  <2>2. /\ probeAge \in 0..StaleAfter + 1
        /\ backoff \in 1..MaxBackoff
        /\ signals \in 0..MaxSignals
    BY ConstantTypes DEF Init
  <2>3. mpc \in MainPoints
    BY DEF Init, MainPoints
  <2> QED
    BY <2>1, <2>2, <2>3, InitialStateType DEF Init, TypeOK
<1>2. TypeOK /\ [Next]_vars => TypeOK'
  <2> SUFFICES ASSUME TypeOK, [Next]_vars
               PROVE  TypeOK'
    OBVIOUS
  <2>1. CASE MainThread
    BY <2>1, StartUpType, RestartLoopType, EpilogueType, StopAllType DEF MainThread
  <2>2. CASE UNCHANGED vars
    BY <2>2 DEF TypeOK, vars, mainVars, handlerVars, hopVars, childVars, stateVars
  <2> QED
    BY <2>1, <2>2, HopHealthLoopType, MonitorProcessType, EnvironmentType DEF Next, Over
<1> QED
  BY <1>1, <1>2, PTL DEF Spec
-----------------------------------------------------------------------------
(***************************************************************************)
(* The children.  Two facts carry the argument: a pproxy runs only while   *)
(* main is at the points from its Popen to its wait, or unwinds after an   *)
(* exception of the handler with the stop event set; and FunkyDNS is in    *)
(* the table from the statement after its Popen on.                        *)
(***************************************************************************)
RunPoints == {"track", "mark", "runCompute", "runStore", "resetBackoff", "wait"}

EndPoints == Exited \union {"endState", "endStateDns", "endCompute", "endStore"}

UnwindPoints ==
  EndPoints \union
  {"except", "error", "errCompute", "errStore", "checkErr", "endPproxy", "endDns"}

StopInv == hpc \in {"termPproxy", "termDns"} => stop

PproxyInv == Alive("pproxy") => mpc \in RunPoints \/ (stop /\ mpc \in UnwindPoints)

\* With prompt kills the handler leaves main only at its wait, and pproxy is dead then.
PromptPproxyInv ==
  /\ KillPrompt /\ Alive("pproxy") => mpc \in RunPoints
  /\ mpc \in RunPoints \ {"track"} => tracked["pproxy"]

PromptDnsInv ==
  KillPrompt /\ Alive("funkydns") =>
    /\ mpc \notin EndPoints \union {"boot", "launchDns"}
    /\ tracked["funkydns"] \/ mpc = "trackDns"

ChildInv == StopInv /\ PproxyInv /\ PromptPproxyInv /\ PromptDnsInv

\* The start-up part of main() keeps the invariant about children.
LEMMA StartUpChildren ==
  ASSUME TypeOK, ChildInv, StartUp
  PROVE  ChildInv'
<1> USE DEF TypeOK, ChildInv, StopInv, PproxyInv, PromptPproxyInv, PromptDnsInv, Alive, Procs,
        RunPoints, EndPoints, UnwindPoints, Exited, MainGoto, MainMove, MainSet, handlerVars,
        childVars, stateVars
<1>1. CASE Boot \/ LaunchDns \/ StartHops
  BY <1>1 DEF Boot, LaunchDns, MainPopen, StartHops
<1>2. CASE MainTrack("trackDns", "funkydns", TRUE, "markDns")
  BY <1>2 DEF MainTrack
<1>3. CASE MainSet("markDns", [state EXCEPT !.funkydns = "running"], "watchDns") \/ WatchDns
  BY <1>3 DEF WatchDns
<1>4. CASE MainCompute("bootCompute", "bootStore") \/ MainStore("bootStore", "startHops")
  BY <1>4 DEF MainCompute, MainStore
<1> QED
  BY <1>1, <1>2, <1>3, <1>4 DEF StartUp

\* The restart loop keeps the invariant about children.
LEMMA RestartLoopChildren ==
  ASSUME TypeOK, ChildInv, RestartLoop
  PROVE  ChildInv'
<1> USE DEF TypeOK, ChildInv, StopInv, PproxyInv, PromptPproxyInv, PromptDnsInv, Alive, Procs,
        RunPoints, EndPoints, UnwindPoints, Exited, MainGoto, MainMove, MainSet, MainCheckStop,
        handlerVars, childVars, stateVars
<1>1. CASE LoopHead \/ WaitForChainReady
  BY <1>1 DEF LoopHead, WaitForChainReady, PollGate
<1>2. CASE RunPproxy
  <2>1. CASE StartPproxy
    BY <2>1 DEF StartPproxy, MainPopen
  <2>2. CASE MainTrack("track", "pproxy", TRUE, "mark")
    BY <2>2 DEF MainTrack
  <2>3. CASE MainCompute("runCompute", "runStore") \/ MainStore("runStore", "resetBackoff")
    BY <2>3 DEF MainCompute, MainStore
  <2>4. CASE ResetBackoff \/ WaitPproxy
    BY <2>4 DEF ResetBackoff, MainBackoff, WaitPproxy
  <2> QED
    BY <1>2, <2>1, <2>2, <2>3, <2>4 DEF RunPproxy
<1>3. CASE PproxyExited
  <2>1. CASE MainTrack("clear", "pproxy", FALSE, "down")
    BY <2>1 DEF MainTrack
  <2> QED
    BY <1>3, <2>1 DEF PproxyExited, MainCompute, MainStore
<1>4. CASE LoopError
  <2>1. CASE MainTrack("except", "pproxy", FALSE, "error")
    BY <2>1 DEF MainTrack
  <2> QED
    BY <1>4, <2>1 DEF LoopError, AfterError, MainCompute, MainStore
<1>5. CASE Backoff
  BY <1>5 DEF Backoff, Double, MainBackoff
<1> QED
  BY <1>1, <1>2, <1>3, <1>4, <1>5 DEF RestartLoop

\* _terminate_process, whoever calls it: the one place a child is killed, and the
\* one place an exception moves main.
LEMMA TerminateChildren ==
  ASSUME TypeOK, ChildInv, NEW c \in Callers, TerminateProcess(c)
  PROVE  ChildInv'
<1> USE DEF TypeOK, Alive, Procs, Callers
<1>1. /\ \A p \in Procs : Alive(p)' => Alive(p)
      /\ tracked' = tracked /\ stop' = stop
  BY DEF TerminateProcess, TermPoll, TermWait, TermKill, TermWaitKilled, Unwind, TermReturns,
         TermNext, Target
<1>2. CASE c = "handler"
  <2>1. stop
    BY <1>2 DEF ChildInv, StopInv, TerminateProcess, TermPoll, TermWait, TermKill,
                TermWaitKilled, Unwind, Terminating
  <2>2. CASE mpc' = mpc
    BY <1>1, <2>1, <2>2 DEF ChildInv, StopInv, PproxyInv, PromptPproxyInv, PromptDnsInv
  <2>3. CASE mpc' # mpc
    <3>1. /\ ~SeenDead(c)
          /\ KillPrompt => proc[Target(c)] = "dead"
          /\ mpc' = IF mpc \in TryBlock THEN "except" ELSE "crashed"
      BY <1>2, <2>3 DEF TerminateProcess, TermPoll, TermWait, TermKill, TermWaitKilled, Unwind,
                        TermReturns, TermNext
    <3>2. KillPrompt => mpc = "wait" /\ proc["pproxy"] = "dead" /\ mpc' = "except"
      BY <1>2, <3>1 DEF SeenDead, SelfHeld, TryBlock
    <3> QED
      BY <1>1, <2>1, <3>1, <3>2 DEF ChildInv, StopInv, PproxyInv, PromptPproxyInv,
         PromptDnsInv, RunPoints, UnwindPoints, EndPoints, Exited
  <2> QED
    BY <2>2, <2>3
<1>3. CASE c = "main"
  <2>1. hpc = "idle" /\ hpc' = "idle" /\ mpc \in {"endPproxy", "endDns"}
    BY <1>3 DEF TerminateProcess, TermPoll, TermWait, TermKill, TermWaitKilled, Unwind, Terminating,
                TermReturns, TermNext
  <2>2. \/ mpc' = mpc
        \/ mpc = "endPproxy" /\ mpc' = "endDns"
        \/ mpc = "endDns" /\ mpc' = "endState"
           /\ (~tracked["funkydns"] \/ (proc["funkydns"] = "dead" /\ proc' = proc))
        \/ mpc' = "crashed" /\ ~KillPrompt
    BY <1>3, <2>1 DEF TerminateProcess, TermPoll, TermWait, TermKill, TermWaitKilled, Unwind,
                      TermReturns, TermNext, SeenDead, SelfHeld, Target
  <2> QED
    BY <1>1, <2>1, <2>2 DEF ChildInv, StopInv, PproxyInv, PromptPproxyInv, PromptDnsInv,
       RunPoints, UnwindPoints, EndPoints, Exited
<1> QED
  BY <1>2, <1>3

\* The epilogue keeps the invariant about children.
LEMMA EpilogueChildren ==
  ASSUME TypeOK, ChildInv, Epilogue
  PROVE  ChildInv'
<1>1. CASE StopChildren
  BY <1>1, TerminateChildren DEF StopChildren, Callers
<1>2. CASE ~StopChildren
  BY <1>2 DEF ChildInv, StopInv, PproxyInv, PromptPproxyInv, PromptDnsInv, Alive, RunPoints,
     EndPoints, UnwindPoints, Exited, MainGoto, MainSet, MainCompute, MainStore, Epilogue,
     EndStateDns, handlerVars, childVars, stateVars
<1> QED
  BY <1>1, <1>2

\* The start of the signal handler, both threads and the environment keep it too.
LEMMA OtherChildren ==
  ASSUME TypeOK, ChildInv, HandlerSet \/ HopHealthLoop \/ MonitorProcess \/ Environment
  PROVE  ChildInv'
<1> USE DEF ChildInv, StopInv, PproxyInv, PromptPproxyInv, PromptDnsInv, Alive, mainVars,
        handlerVars, hopVars, childVars, stateVars
<1>1. CASE HandlerSet
  BY <1>1 DEF HandlerSet, HandlerBegin
<1>2. CASE HopHealthLoop
  BY <1>2 DEF HopHealthLoop, HopSleep, HopMove, HopGoto, HopPublish, HopCompute, HopStore
<1>3. CASE MonitorProcess
  BY <1>3 DEF MonitorProcess, MonMove, MonGoto, MonReport, MonCompute, MonStore
<1>4. CASE DeliverSignal \/ Tick
  BY <1>4 DEF DeliverSignal, Tick
<1>5. CASE \E p \in Procs : ChildExits(p) \/ KilledChildDies(p)
  <2>1. PICK p \in Procs : ChildExits(p) \/ KilledChildDies(p)
    BY <1>5
  <2>2. \A q \in Procs : Alive(q)' => Alive(q)
    BY <2>1 DEF ChildExits, KilledChildDies, ChildGone, TypeOK
  <2>3. UNCHANGED <<mpc, hpc, stop, tracked>>
    BY <2>1 DEF ChildExits, KilledChildDies, ChildGone
  <2> QED
    BY <2>2, <2>3 DEF Procs
<1> HIDE DEF ChildInv
<1> QED
  BY <1>1, <1>2, <1>3, <1>4, <1>5 DEF Environment

\* Where main and the signal handler stand bounds which child may be alive and which
\* must be recorded in PROCESSES, in every reachable state.
THEOREM ChildrenCorrect == Spec => []ChildInv
<1>1. Init => ChildInv
  <2> SUFFICES ASSUME Init
               PROVE  ChildInv
    OBVIOUS
  <2>1. \A p \in Procs : ~Alive(p)
    BY DEF Init, Alive
  <2> QED
    BY <2>1 DEF Init, ChildInv, StopInv, PproxyInv, PromptPproxyInv, PromptDnsInv, Procs,
       RunPoints
<1>2. TypeOK /\ ChildInv /\ [Next]_vars => ChildInv'
  <2> SUFFICES ASSUME TypeOK, ChildInv, [Next]_vars
               PROVE  ChildInv'
    OBVIOUS
  <2>1. CASE MainThread
    BY <2>1, StartUpChildren, RestartLoopChildren, EpilogueChildren, TerminateChildren,
       OtherChildren DEF MainThread, StopAll, Callers
  <2>2. CASE UNCHANGED vars
    BY <2>2 DEF ChildInv, StopInv, PproxyInv, PromptPproxyInv, PromptDnsInv, Alive, vars,
       mainVars, handlerVars, childVars
  <2> QED
    BY <2>1, <2>2, OtherChildren DEF Next, Over
<1> QED
  BY <1>1, <1>2, TypeCorrect, PTL DEF Spec

\* main never spawns a pproxy while an earlier one runs, even when SIGKILL is slow
\* and the handler's exception has made main forget the earlier one.
THEOREM OnePproxy == Spec => []AtMostOnePproxy
<1>1. ChildInv => AtMostOnePproxy
  BY DEF ChildInv, PproxyInv, AtMostOnePproxy, RunPoints, UnwindPoints, EndPoints, Exited
<1> QED
  BY <1>1, ChildrenCorrect, PTL

\* Where SIGKILL is prompt, a running pproxy is in the table of children ...
THEOREM PproxyIsTracked == Spec => []PproxyTracked
<1>1. ChildInv => PproxyTracked
  BY DEF ChildInv, PromptPproxyInv, PproxyTracked
<1> QED
  BY <1>1, ChildrenCorrect, PTL

\* ... and main leaves no child behind, whichever way it ends.
THEOREM NoOrphan == Spec => []NoOrphanAtExit
<1>1. ChildInv => NoOrphanAtExit
  BY DEF ChildInv, PromptPproxyInv, PromptDnsInv, NoOrphanAtExit, Running, Procs, RunPoints,
         EndPoints, Exited
<1> QED
  BY <1>1, ChildrenCorrect, PTL

\* The report served at /ready and the startup gate agree in every reachable state.
THEOREM VerdictsAgree == Spec => []ReadyAgreesWithGate
<1>1. TypeOK => ReadyAgreesWithGate
  BY ReadyIffGate DEF TypeOK, ReadyAgreesWithGate
<1> QED
  BY <1>1, TypeCorrect, PTL
=============================================================================
