--------------------------- MODULE LauncherProofs ---------------------------
(***************************************************************************)
(* The launcher stops its group and says so, for every set of signals and  *)
(* any number of handlers on top of each other.                            *)
(***************************************************************************)
EXTENDS Launcher, SequenceTheorems, TLAPS

Places == {"check", "signal", "poll", "kill"}
Frames == [at : Places, sig : Signals]

\* The constants as the leaves use them.
LEMMA ConstantTypes == Signals \subseteq 1..127 /\ MaxSignals \in Nat /\ SIGKILL = 9 /\ NoSignal = 0
  BY LauncherAssumption DEF SIGKILL, NoSignal

\* A stack of handlers has a top, unless it is empty.
LEMMA TopOfStack ==
  ASSUME NEW s \in Seq(Frames), s # <<>>
  PROVE  1 \in 1..Len(s) /\ s[1] \in Frames
<1>1. Len(s) \in Nat \ {0}
  BY EmptySeq
<1>2. 1 \in 1..Len(s)
  BY <1>1
<1> QED
  BY <1>2, ElementOfSeq

\* Entering, going on in and returning from a handler leave a stack of handlers, which grows
\* by a signal only.
LEMMA StackSteps ==
  ASSUME NEW s \in Seq(Frames)
  PROVE  /\ \A sig \in Signals :
              LET t == <<[at |-> "check", sig |-> sig]>> \o s
              IN  t \in Seq(Frames) /\ Len(t) = Len(s) + 1 /\ t # <<>>
         /\ s # <<>> => Tail(s) \in Seq(Frames) /\ Len(Tail(s)) = Len(s) - 1
         /\ s # <<>> => \A to \in Places :
              LET t == [s EXCEPT ![1].at = to]
              IN  t \in Seq(Frames) /\ Len(t) = Len(s) /\ t # <<>>
<1>1. ASSUME NEW sig \in Signals
      PROVE  LET t == <<[at |-> "check", sig |-> sig]>> \o s
             IN  t \in Seq(Frames) /\ Len(t) = Len(s) + 1 /\ t # <<>>
  <2> DEFINE one == <<[at |-> "check", sig |-> sig]>>
  <2>1. one \in Seq(Frames) /\ Len(one) = 1
    BY DEF Frames, Places
  <2> HIDE DEF one
  <2>2. one \o s \in Seq(Frames) /\ Len(one \o s) = Len(s) + 1 /\ Len(s) \in Nat
    BY <2>1, ConcatProperties, LenProperties
  <2>3. one \o s # <<>>
    BY <2>2, EmptySeq
  <2> QED
    BY <2>2, <2>3 DEF one
<1>2. ASSUME s # <<>>
      PROVE  Tail(s) \in Seq(Frames) /\ Len(Tail(s)) = Len(s) - 1
  BY <1>2, HeadTailProperties
<1>3. ASSUME s # <<>>, NEW to \in Places
      PROVE  LET t == [s EXCEPT ![1].at = to]
             IN  t \in Seq(Frames) /\ Len(t) = Len(s) /\ t # <<>>
  <2> DEFINE e == [s[1] EXCEPT !.at = to]
  <2>1. e \in Frames /\ 1 \in 1..Len(s)
    BY <1>3, TopOfStack DEF Frames
  <2> HIDE DEF e
  <2>2. [s EXCEPT ![1] = e] \in Seq(Frames) /\ Len([s EXCEPT ![1] = e]) = Len(s)
    BY <2>1, ExceptSeq
  <2>3. [s EXCEPT ![1] = e] # <<>>
    BY <1>3, <2>2, EmptySeq
  <2>4. [s EXCEPT ![1].at = to] = [s EXCEPT ![1] = e]
    BY DEF e
  <2> QED
    BY <2>2, <2>3, <2>4
<1> QED
  BY <1>1, <1>2, <1>3
-----------------------------------------------------------------------------
\* A step of main keeps the type invariant.
LEMMA MainType == TypeOK /\ (MainStep \/ Usage) => TypeOK'
<1> SUFFICES ASSUME TypeOK, MainStep \/ Usage
             PROVE  TypeOK'
  OBVIOUS
<1>1. UNCHANGED <<handlers, received, sent, stopped>>
  BY DEF MainStep, Usage, InstallHandlers, Popen, AssignChild, EnterWait, Waitpid, StoreResult, ReturnCode, Main
<1>2. pc' \in {"start", "ready", "spawned", "assigned", "wait", "reaped", "collected", "exited"}
  BY DEF MainStep, Usage, InstallHandlers, Popen, AssignChild, EnterWait, Waitpid, StoreResult, ReturnCode, Main
<1>3. /\ leader' \in {"none", "up", "zombie", "reaped"}
      /\ UNCHANGED <<helper, delivered, status>>
  BY DEF TypeOK, MainStep, Usage, InstallHandlers, Popen, AssignChild, EnterWait, Waitpid, StoreResult,
         ReturnCode, GroupUntouched
<1>4. code' \in -1..255
  <2>1. ExitCode \in 0..255
    BY ConstantTypes DEF TypeOK, ExitCode
  <2>2. code \in -1..255
    BY DEF TypeOK
  <2>3. code' \in {code, 1, 2, ExitCode}
    BY DEF MainStep, Usage, InstallHandlers, Popen, AssignChild, EnterWait, Waitpid, StoreResult, ReturnCode
  <2> QED
    BY <2>1, <2>2, <2>3
<1> QED
  BY <1>1, <1>2, <1>3, <1>4 DEF TypeOK

\* A signal and the steps of its handler keep the type invariant.
LEMMA HandlerType ==
  ASSUME TypeOK, HandlerStep \/ \E s \in Signals : Signal(s)
  PROVE  TypeOK'
<1>1. handlers \in Seq(Frames) /\ Len(handlers) \in Nat /\ sent \in Nat
  BY ConstantTypes, LenProperties DEF TypeOK, Frames, Places
<1>2. CASE HandlerStep
  <2>1. handlers # <<>> /\ HandlerOnly
    BY <1>2 DEF HandlerStep, HandlerCheck, HandlerSignal, HandlerPoll, HandlerDeadline, HandlerKill, HandlerAt
  <2>2. HandlerReturns \/ \E to \in Places : HandlerGoes(to)
    BY <1>2 DEF HandlerStep, HandlerCheck, HandlerSignal, HandlerPoll, HandlerDeadline, HandlerKill, Places
  <2>3. handlers' \in Seq(Frames) /\ Len(handlers') <= Len(handlers)
    BY <1>1, <2>1, <2>2, StackSteps DEF HandlerReturns, HandlerGoes
  <2>4. leader' \in {"none", "up", "zombie", "reaped"} /\ helper' = helper
    BY <1>2 DEF TypeOK, HandlerStep, HandlerCheck, HandlerSignal, HandlerPoll, HandlerDeadline, HandlerKill, Poll
  <2>5. delivered' \subseteq Signals \union {SIGKILL}
    <3>1. handlers[1].sig \in Signals
      BY <1>1, <2>1, TopOfStack DEF Frames
    <3> QED
      BY <1>2, <3>1 DEF TypeOK, HandlerStep, HandlerCheck, HandlerSignal, HandlerPoll, HandlerDeadline, HandlerKill
  <2>6. Len(handlers') <= sent /\ sent' = sent
    BY <1>1, <2>1, <2>3, LenProperties DEF TypeOK, HandlerOnly
  <2> QED
    BY <2>1, <2>3, <2>4, <2>5, <2>6 DEF TypeOK, HandlerOnly, Frames, Places
<1>3. ASSUME NEW s \in Signals, Signal(s)
      PROVE  TypeOK'
  <2>1. sent' \in 0..MaxSignals /\ sent' = sent + 1
    BY <1>1, <1>3, ConstantTypes DEF TypeOK, Signal
  <2>2. CASE pc = "start"
    BY <1>1, <1>3, <2>1, <2>2, ConstantTypes DEF TypeOK, Signal, Exit, GroupUntouched
  <2>3. CASE pc # "start"
    <3>1. handlers' \in Seq(Frames) /\ Len(handlers') = Len(handlers) + 1
      BY <1>1, <1>3, <2>3, StackSteps DEF Signal
    <3> QED
      BY <1>1, <1>3, <2>1, <2>3, <3>1 DEF TypeOK, Signal, GroupUntouched, Frames, Places
  <2> QED
    BY <2>2, <2>3
<1> QED
  BY <1>2, <1>3

\* Every variable of the launcher keeps its type, and no handler runs without a signal.
THEOREM TypeCorrect == Spec => []TypeOK
<1>1. Init => TypeOK
  <2> SUFFICES ASSUME Init
               PROVE  TypeOK
    OBVIOUS
  <2>1. handlers \in Seq([at : {"check", "signal", "poll", "kill"}, sig : Signals])
    BY EmptySeq DEF Init
  <2>2. Len(handlers) <= sent /\ sent \in 0..MaxSignals
    <3>1. 0 \in 0..MaxSignals
      BY ConstantTypes
    <3> QED
      BY <3>1 DEF Init
  <2>3. code \in -1..255
    <3>1. -1 \in -1..255
      OBVIOUS
    <3> QED
      BY <3>1 DEF Init
  <2>4. /\ pc = "start" /\ received = NoSignal /\ leader = "none" /\ helper = "none"
        /\ delivered = {} /\ status = 0 /\ stopped = FALSE
    BY DEF Init
  <2>5. status \in {0, 1} \union {-s : s \in Signals \union {SIGKILL}} /\ stopped \in BOOLEAN
    BY <2>4
  <2> QED
    BY <2>1, <2>2, <2>3, <2>4, <2>5 DEF TypeOK
<1>2. TypeOK /\ [Next]_vars => TypeOK'
  <2> SUFFICES ASSUME TypeOK, [Next]_vars
               PROVE  TypeOK'
    OBVIOUS
  <2>1. CASE GroupStep
    <3>1. status' \in {0, 1} \union {-s : s \in Signals \union {SIGKILL}}
      BY <2>1 DEF TypeOK, GroupStep, Fork, HelperEnds, LeaderEnds
    <3>2. /\ leader' \in {"none", "up", "zombie", "reaped"} /\ helper' \in {"none", "up", "dead"}
          /\ UNCHANGED <<pc, handlers, received, delivered, code, sent, stopped>>
      BY <2>1 DEF TypeOK, GroupStep, Fork, HelperEnds, LeaderEnds
    <3> QED
      BY <3>1, <3>2 DEF TypeOK
  <2>2. CASE UNCHANGED vars
    BY <2>2 DEF TypeOK, vars
  <2> QED
    BY <2>1, <2>2, MainType, HandlerType DEF Next
<1> QED
  BY <1>1, <1>2, PTL DEF Spec
-----------------------------------------------------------------------------
(***************************************************************************)
(* Why a stop is thorough: while main waits, a handler that was entered    *)
(* cannot see the leader go, so it leaves only when the group is empty or  *)
(* has been sent SIGKILL, and main goes on only after it.                  *)
(***************************************************************************)
Settled == SIGKILL \in delivered \/ (leader = "reaped" /\ helper # "up")

LeaderInv ==
  /\ pc \in {"assigned", "wait", "reaped", "collected"} => leader # "none"
  /\ pc \in {"reaped", "collected"} => leader = "reaped"
  /\ pc = "spawned" => leader # "none"

StoppedInv ==
  stopped =>
    /\ received \in Signals
    /\ pc \in {"wait", "reaped", "collected", "exited"}
    /\ pc = "exited" => code > 128 /\ leader = "reaped"
    /\ Settled \/ (LockHeld /\ handlers # <<>>)

\* The inductive invariant.
StopInv == LeaderInv /\ StoppedInv

\* A step of main keeps it: main moves when no handler is left.
LEMMA MainStop == TypeOK /\ StopInv /\ (MainStep \/ Usage) => StopInv'
<1> SUFFICES ASSUME TypeOK, StopInv, MainStep \/ Usage
             PROVE  StopInv'
  OBVIOUS
<1> USE DEF StopInv, LeaderInv
<1>1. handlers = <<>> /\ UNCHANGED <<handlers, received, stopped>>
  BY DEF MainStep, Usage, InstallHandlers, Popen, AssignChild, EnterWait, Waitpid, StoreResult, ReturnCode, Main
<1>2. LeaderInv'
  BY DEF TypeOK, MainStep, Usage, InstallHandlers, Popen, AssignChild, EnterWait, Waitpid, StoreResult,
         ReturnCode, Main, GroupUntouched
<1>3. ASSUME stopped
      PROVE  StoppedInv'
  <2>1. received \in Signals /\ Settled /\ pc \in {"wait", "reaped", "collected"}
    BY <1>1, <1>3 DEF StoppedInv, MainStep, Usage, InstallHandlers, Popen, AssignChild, EnterWait, Waitpid,
                      StoreResult, ReturnCode, Main
  <2>2. Waitpid \/ StoreResult \/ ReturnCode
    BY <2>1 DEF MainStep, Usage, InstallHandlers, Popen, AssignChild, EnterWait, Main
  <2>3. Settled'
    BY <2>1, <2>2 DEF Settled, Waitpid, StoreResult, ReturnCode, GroupUntouched
  <2>4. ExitCode > 128
    BY <2>1, ConstantTypes DEF TypeOK, ExitCode
  <2> QED
    BY <1>1, <2>1, <2>2, <2>3, <2>4 DEF StoppedInv, Waitpid, StoreResult, ReturnCode, Main, GroupUntouched
<1> QED
  BY <1>1, <1>2, <1>3 DEF StoppedInv

\* A signal and the steps of its handler keep it.
LEMMA HandlerStop ==
  ASSUME TypeOK, StopInv, HandlerStep \/ \E s \in Signals : Signal(s)
  PROVE  StopInv'
<1>1. handlers \in Seq(Frames)
  BY DEF TypeOK, Frames, Places
<1>2. CASE HandlerStep
  <2>1. handlers # <<>> /\ HandlerOnly
    BY <1>2 DEF HandlerStep, HandlerCheck, HandlerSignal, HandlerPoll, HandlerDeadline, HandlerKill, HandlerAt
  <2>2. LeaderInv' /\ helper' = helper /\ delivered \subseteq delivered'
        /\ (leader = "reaped" => leader' = "reaped")
    BY <1>2 DEF StopInv, LeaderInv, HandlerStep, HandlerCheck, HandlerSignal, HandlerPoll, HandlerDeadline,
                HandlerKill, HandlerOnly, Poll, PollSeesExit
  <2>3. Settled => Settled'
    BY <2>2 DEF Settled
  <2>4. ASSUME stopped, ~Settled
        PROVE  Settled' \/ (LockHeld' /\ handlers' # <<>>)
    <3>1. LockHeld /\ LockHeld' /\ leader # "none"
      BY <2>1, <2>4 DEF StopInv, StoppedInv, LeaderInv, LockHeld, HandlerOnly
    <3>2. CASE HandlerReturns
      <4>1. (HandlerSignal /\ GroupEmpty) \/ HandlerKill
        <5>1. ~HandlerPoll
          BY <3>1 DEF HandlerPoll, PollSeesExit
        <5>2. ASSUME NEW to, HandlerGoes(to)
              PROVE  to \notin Places
          <6> SUFFICES ASSUME to \in Places
                       PROVE  FALSE
            OBVIOUS
          <6> QED
            BY <1>1, <2>1, <3>2, <5>2, StackSteps, LenProperties DEF HandlerReturns, HandlerGoes
        <5> QED
          BY <1>2, <3>1, <5>1, <5>2 DEF HandlerStep, HandlerCheck, HandlerSignal, HandlerDeadline, PollSeesExit,
                                        LockHeld, Places
      <4>2. GroupEmpty => Settled
        BY <3>1 DEF GroupEmpty, Settled
      <4> QED
        BY <2>4, <4>1, <4>2 DEF HandlerKill, Settled
    <3>3. CASE \E to \in Places : HandlerGoes(to)
      BY <1>1, <2>1, <3>1, <3>3, StackSteps DEF HandlerGoes
    <3> QED
      BY <1>2, <3>2, <3>3 DEF HandlerStep, HandlerCheck, HandlerSignal, HandlerPoll, HandlerDeadline, HandlerKill,
                              Places
  <2> QED
    BY <2>1, <2>2, <2>3, <2>4 DEF StopInv, StoppedInv, HandlerOnly
<1>3. ASSUME NEW s \in Signals, Signal(s)
      PROVE  StopInv'
  <2>1. pc # "exited" /\ UNCHANGED <<leader, helper, delivered>>
    BY <1>3 DEF Signal, GroupUntouched
  <2>2. CASE pc = "start"
    BY <1>3, <2>1, <2>2 DEF Signal, Exit, StopInv, StoppedInv, LeaderInv
  <2>3. CASE pc # "start"
    <3>1. handlers' # <<>> /\ received' = s /\ pc' = pc
      BY <1>1, <1>3, <2>3, StackSteps DEF Signal
    <3>2. LeaderInv' /\ Settled' = Settled /\ LockHeld' = LockHeld
      BY <2>1, <3>1 DEF StopInv, LeaderInv, Settled, LockHeld
    <3>3. stopped' => pc \in {"wait", "reaped", "collected"} /\ (Settled \/ LockHeld)
      BY <1>3, <2>1, <2>3 DEF Signal, StopInv, StoppedInv, LockHeld
    <3> QED
      BY <2>1, <3>1, <3>2, <3>3 DEF StopInv, StoppedInv
  <2> QED
    BY <2>2, <2>3
<1> QED
  BY <1>2, <1>3

\* Whatever the group does, it keeps it: nothing is forked once the leader is gone or killed.
LEMMA GroupStop ==
  ASSUME TypeOK, StopInv, GroupStep
  PROVE  StopInv'
<1>1. UNCHANGED <<pc, handlers, received, delivered, code, stopped>>
  BY DEF GroupStep, Fork, HelperEnds, LeaderEnds
<1>2. LeaderInv' /\ (leader = "reaped" => leader' = "reaped")
  BY <1>1 DEF StopInv, LeaderInv, GroupStep, Fork, HelperEnds, LeaderEnds
<1>3. Settled => Settled'
  BY <1>1 DEF Settled, GroupStep, Fork, HelperEnds, LeaderEnds
<1> QED
  BY <1>1, <1>2, <1>3 DEF StopInv, StoppedInv, LockHeld

\* It holds throughout.
THEOREM StopCorrect == Spec => []StopInv
<1>1. Init => StopInv
  BY DEF Init, StopInv, LeaderInv, StoppedInv
<1>2. TypeOK /\ StopInv /\ [Next]_vars => StopInv'
  <2> SUFFICES ASSUME TypeOK, StopInv, [Next]_vars
               PROVE  StopInv'
    OBVIOUS
  <2>1. CASE UNCHANGED vars
    BY <2>1 DEF vars, StopInv, LeaderInv, StoppedInv, Settled, LockHeld
  <2> QED
    BY <2>1, MainStop, HandlerStop, GroupStop DEF Next
<1> QED
  BY <1>1, <1>2, TypeCorrect, PTL DEF Spec

\* When the launcher exits after a signal that found it in process.wait, its child is gone
\* and what else there is of the group was sent SIGKILL.  A handler that ran before main
\* waited may see the child go and leave the helper; the theorem is not about that.
THEOREM GroupIsStopped == Spec => []NoGroupMemberSurvives
<1>1. StopInv => NoGroupMemberSurvives
  BY DEF StopInv, StoppedInv, Settled, LockHeld, NoGroupMemberSurvives
<1> QED
  BY <1>1, StopCorrect, PTL

\* A launcher that a signal found in process.wait says so, whatever the child's own exit
\* status.
THEOREM StopIsReported == Spec => []StoppedIsReported
<1>1. StopInv => StoppedIsReported
  BY DEF StopInv, StoppedInv, StoppedIsReported
<1> QED
  BY <1>1, StopCorrect, PTL
=============================================================================
