------------------------------ MODULE Launcher ------------------------------
(***************************************************************************)
(* funkydns-smoke/run_funkydns.py: start a command in a session of its     *)
(* own, pass signals on to its process group, and exit as it did.          *)
(*                                                                         *)
(* A handler runs between two steps of main, or on top of another handler: *)
(* main stands still until the stack of handlers is empty.  Popen.wait     *)
(* holds the child's wait lock from its waitpid to the moment the result   *)
(* is stored; poll() does not wait for that lock and answers "running".    *)
(* The group is its leader, which Popen started, and what the leader       *)
(* forks, taken together as the helper.                                    *)
(***************************************************************************)
EXTENDS Integers, Sequences

CONSTANTS
  Signals,    \* the numbers of the two signals that are handled
  MaxSignals  \* bound: signals sent to the launcher

ASSUME LauncherAssumption == Signals \subseteq 1..127 /\ MaxSignals \in Nat

NoSignal == 0
SIGKILL == 9

VARIABLES
  pc,         \* where main is
  handlers,   \* the handlers under way, the innermost first: [at, sig]
  received,   \* received_signal
  leader,     \* "none", "up", "zombie", or "reaped" by a waitpid
  helper,     \* "none", "up" or "dead"
  delivered,  \* signals sent to the group
  status,     \* the leader's, as Popen reports it: negative if a signal ended it
  code,       \* the launcher's exit status, -1 before
  sent,       \* signals sent to the launcher
  stopped     \* one of them found main waiting for the child

vars == <<pc, handlers, received, leader, helper, delivered, status, code, sent, stopped>>

TypeOK ==
  /\ pc \in {"start", "ready", "spawned", "assigned", "wait", "reaped", "collected", "exited"}
  /\ handlers \in Seq([at : {"check", "signal", "poll", "kill"}, sig : Signals])
  /\ Len(handlers) <= sent /\ sent \in 0..MaxSignals
  /\ received \in Signals \union {NoSignal}
  /\ leader \in {"none", "up", "zombie", "reaped"} /\ helper \in {"none", "up", "dead"}
  /\ delivered \subseteq Signals \union {SIGKILL}
  /\ status \in {0, 1} \union {-s : s \in Signals \union {SIGKILL}}
  /\ code \in -1..255 /\ stopped \in BOOLEAN

Init ==
  /\ pc = "start" /\ handlers = <<>> /\ received = NoSignal
  /\ leader = "none" /\ helper = "none" /\ delivered = {} /\ status = 0
  /\ code = -1 /\ sent = 0 /\ stopped = FALSE
-----------------------------------------------------------------------------
(***************************************************************************)
(* main                                                                    *)
(***************************************************************************)
Main(from, to) == pc = from /\ handlers = <<>> /\ pc' = to /\ UNCHANGED <<handlers, received, sent, stopped>>

Exit(c) == pc' = "exited" /\ code' = c

GroupUntouched == UNCHANGED <<leader, helper, delivered, status>>

\* No command given.
Usage == Main("start", "exited") /\ code' = 2 /\ GroupUntouched

InstallHandlers == Main("start", "ready") /\ GroupUntouched /\ UNCHANGED code

Popen ==
  \/ /\ Main("ready", "spawned")
     /\ leader' = "up" /\ UNCHANGED <<helper, delivered, status, code>>
  \/ Main("ready", "exited") /\ code' = 1 /\ GroupUntouched   \* it raises

AssignChild == Main("spawned", "assigned") /\ GroupUntouched /\ UNCHANGED code

\* wait takes the lock, unless a handler's poll has the result already.
EnterWait ==
  /\ Main("assigned", IF leader = "reaped" THEN "collected" ELSE "wait")
  /\ GroupUntouched /\ UNCHANGED code

Waitpid ==
  /\ Main("wait", "reaped") /\ leader = "zombie"
  /\ leader' = "reaped" /\ UNCHANGED <<helper, delivered, status, code>>

StoreResult == Main("reaped", "collected") /\ GroupUntouched /\ UNCHANGED code

\* Mutant: the status is passed on as Popen reports it.
ExitCodeRaw == status

\* Mutant: only a child that was killed by a signal makes an exit status above 128.
ExitCodeOfChild == IF status < 0 THEN 128 - status ELSE status

ExitCode ==
  IF status < 0 THEN 128 - status
  ELSE IF received # NoSignal THEN 128 + received ELSE status

ReturnCode == Main("collected", "exited") /\ code' = ExitCode /\ GroupUntouched
-----------------------------------------------------------------------------
(***************************************************************************)
(* terminate_child                                                         *)
(***************************************************************************)
\* Before the handlers are installed a signal ends the launcher.
Signal(s) ==
  /\ pc # "exited" /\ sent < MaxSignals /\ sent' = sent + 1
  /\ IF pc = "start"
     THEN Exit(128 + s) /\ UNCHANGED <<handlers, received, stopped>>
     ELSE /\ received' = s
          /\ handlers' = <<[at |-> "check", sig |-> s]>> \o handlers
          /\ stopped' = (stopped \/ pc \in {"wait", "reaped"})
          /\ UNCHANGED <<pc, code>>
  /\ GroupUntouched

LockHeld == pc \in {"wait", "reaped"}
GroupEmpty == leader \in {"none", "reaped"} /\ helper # "up"

\* Popen.poll: it reaps a zombie if it gets the lock.
PollSeesExit == ~LockHeld /\ leader \in {"zombie", "reaped"}
Poll == leader' = IF PollSeesExit THEN "reaped" ELSE leader

HandlerAt(at) == handlers # <<>> /\ handlers[1].at = at
HandlerGoes(to) == handlers' = [handlers EXCEPT ![1].at = to]
HandlerReturns == handlers' = Tail(handlers)
HandlerOnly == UNCHANGED <<pc, received, status, code, sent, stopped>>

HandlerCheck ==
  /\ HandlerAt("check") /\ HandlerOnly /\ UNCHANGED <<helper, delivered>>
  /\ IF pc \in {"ready", "spawned"}   \* child_process is still None
     THEN HandlerReturns /\ UNCHANGED leader
     ELSE Poll /\ IF PollSeesExit THEN HandlerReturns ELSE HandlerGoes("signal")

\* os.killpg of the signal received.
HandlerSignal ==
  /\ HandlerAt("signal") /\ HandlerOnly /\ UNCHANGED <<leader, helper>>
  /\ IF GroupEmpty
     THEN HandlerReturns /\ UNCHANGED delivered
     ELSE delivered' = delivered \union {handlers[1].sig} /\ HandlerGoes("poll")

HandlerPoll ==
  /\ HandlerAt("poll") /\ PollSeesExit /\ Poll
  /\ HandlerReturns /\ HandlerOnly /\ UNCHANGED <<helper, delivered>>

\* Three seconds have passed.
HandlerDeadline ==
  /\ HandlerAt("poll") /\ HandlerGoes("kill")
  /\ HandlerOnly /\ UNCHANGED <<leader, helper, delivered>>

\* Mutant: the handler gives up at its deadline.
HandlerGivesUp ==
  /\ HandlerAt("kill") /\ HandlerReturns
  /\ HandlerOnly /\ UNCHANGED <<leader, helper, delivered>>

\* Mutant: the leader alone is killed.
HandlerKillsLeader ==
  /\ HandlerAt("kill") /\ HandlerReturns
  /\ IF leader = "up" THEN leader' = "zombie" /\ status' = -SIGKILL ELSE UNCHANGED <<leader, status>>
  /\ UNCHANGED <<pc, received, helper, delivered, code, sent, stopped>>

\* os.killpg with SIGKILL; on an empty group it raises, and the handler returns as well.
HandlerKill ==
  /\ HandlerAt("kill") /\ HandlerReturns /\ HandlerOnly /\ UNCHANGED <<leader, helper>>
  /\ delivered' = IF GroupEmpty THEN delivered ELSE delivered \union {SIGKILL}
-----------------------------------------------------------------------------
(***************************************************************************)
(* The group: it may end or go on as it likes until it is killed.          *)
(***************************************************************************)
Fork ==
  /\ leader = "up" /\ helper = "none" /\ SIGKILL \notin delivered
  /\ helper' = "up"
  /\ UNCHANGED <<pc, handlers, received, leader, delivered, status, code, sent, stopped>>

LeaderEnds(st) ==
  /\ leader = "up" /\ leader' = "zombie"
  /\ st \in (IF SIGKILL \in delivered THEN {-SIGKILL} ELSE {0, 1} \union {-s : s \in delivered})
  /\ status' = st
  /\ UNCHANGED <<pc, handlers, received, helper, delivered, code, sent, stopped>>

HelperEnds ==
  /\ helper = "up" /\ helper' = "dead"
  /\ UNCHANGED <<pc, handlers, received, leader, delivered, status, code, sent, stopped>>

MainStep ==
  \/ InstallHandlers \/ Popen \/ AssignChild \/ EnterWait \/ Waitpid \/ StoreResult \/ ReturnCode

HandlerStep == HandlerCheck \/ HandlerSignal \/ HandlerPoll \/ HandlerDeadline \/ HandlerKill

GroupStep == Fork \/ HelperEnds \/ \E st \in {0, 1} \union {-s : s \in Signals \union {SIGKILL}} : LeaderEnds(st)

Next == Usage \/ MainStep \/ HandlerStep \/ GroupStep \/ \E s \in Signals : Signal(s)

Spec == Init /\ [][Next]_vars

\* The launcher runs, its handler's loop reaches the deadline, and SIGKILL kills.
FairSpec ==
  /\ Spec
  /\ WF_vars(MainStep) /\ WF_vars(HandlerStep)
  /\ WF_vars(GroupStep /\ SIGKILL \in delivered)
-----------------------------------------------------------------------------
\* A signal that comes once main knows the child ends the launcher, whatever the group
\* makes of it (run_funkydns.py 27 to 36); one that comes earlier is only noted down.
StopEndsLauncher ==
  (handlers # <<>> /\ pc \in {"assigned", "wait", "reaped"}) ~> pc = "exited"

\* When the launcher exits after a signal that found it waiting, no member of the group is
\* left that has not been killed, also if the leader had gone before: the handler cannot
\* see that, and so goes on to SIGKILL the group (run_funkydns.py 27 and 33).
NoGroupMemberSurvives ==
  pc = "exited" /\ stopped => leader # "up" /\ (helper = "up" => SIGKILL \in delivered)

\* A launcher stopped by a signal never reports the child's own exit status
\* (run_funkydns.py 53 to 57).
StoppedIsReported == pc = "exited" /\ stopped => code > 128
=============================================================================
