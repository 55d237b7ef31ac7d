----------------------------- MODULE DaemonLock -----------------------------
(***************************************************************************)
(* The single-instance lock of the agent (state/db.ts), as the daemon's    *)
(* heartbeat, its ticks and its shutdown use it (daemon.ts, main.ts): boot *)
(* takes the lock or refuses to run, a timer refreshes it, every step of a *)
(* plan refreshes it first, and a daemon that finds it taken stops.        *)
(*                                                                         *)
(* Time is discrete. An awake process does what its timers are due for     *)
(* before time goes on; a stalled one (a suspended host, a blocked event   *)
(* loop) does nothing, for as long as it likes.                            *)
(***************************************************************************)
EXTENDS Naturals

CONSTANTS
  Daemon,    \* the processes that may run on the database
  NoRow,      \* no row in daemon_lock
  DeadRow,      \* the row of a process that died
  BeatEvery, \* cfg.timing.lockHeartbeatMs
  Grace,     \* stopGraceMs: how long stop() waits for the tick in flight
  CloseTime, \* the longest the other cleanups take
  StaleAge,  \* cfg.timing.lockStaleMs
  MaxStalls  \* bound on stalls

ASSUME LockAssumption ==
  /\ NoRow \notin Daemon /\ DeadRow \notin Daemon /\ NoRow # DeadRow
  /\ BeatEvery \in Nat \ {0} /\ Grace \in Nat /\ CloseTime \in Nat /\ StaleAge \in Nat
  /\ MaxStalls \in Nat

\* The shutdown fits into the lock's patience.
ASSUME ShutdownFits == BeatEvery + Grace + CloseTime <= StaleAge

VARIABLES
  lock,   \* daemon_lock: its owner, and the age of its heartbeat
  phase,  \* "off", "run", "grace" (stop() waits for the tick) or "close"
  work,   \* "none", "tick" (between two steps) or "step" (one is under way)
  waited, \* how long the process has been in "grace" or "close"
  lockLost,   \* lockLost: for good
  awake,
  slept,  \* history: it stalled since its last heartbeat: "no", "yes", or "inStep"
          \* (in the step now under way)
  stalls

lockVars == <<lock, phase, work, waited, lockLost, awake, slept, stalls>>

LockTypeOK ==
  /\ lock \in [owner : Daemon \cup {NoRow, DeadRow}, age : 0..(StaleAge + 1)]
  /\ phase \in [Daemon -> {"off", "run", "grace", "close"}]
  /\ work \in [Daemon -> {"none", "tick", "step"}]
  /\ waited \in [Daemon -> 0..(Grace + CloseTime)]
  /\ lockLost \in [Daemon -> BOOLEAN] /\ (\A p \in Daemon : lockLost[p] => phase[p] # "run")
  /\ awake \in [Daemon -> BOOLEAN]
  /\ slept \in [Daemon -> {"no", "yes", "inStep"}] /\ stalls \in 0..MaxStalls

LockInit ==
  /\ lock = [owner |-> NoRow, age |-> 0]
  /\ phase = [p \in Daemon |-> "off"] /\ work = [p \in Daemon |-> "none"]
  /\ waited = [p \in Daemon |-> 0] /\ lockLost = [p \in Daemon |-> FALSE]
  /\ awake = [p \in Daemon |-> TRUE] /\ slept = [p \in Daemon |-> "no"]
  /\ stalls = 0

HeldBy(p) == [owner |-> p, age |-> 0]

\* MUTANT of Acquirable: stale one heartbeat too early.
AcquirableTooEarly == lock.owner = NoRow \/ lock.age >= StaleAge

\* MUTANT of Acquirable: only a released lock.
AcquirableOnceReleased == lock.owner = NoRow

\* acquireDaemonLock
Acquirable == lock.owner = NoRow \/ lock.age > StaleAge

Acquire(p) ==
  /\ phase[p] = "off" /\ awake[p] /\ Acquirable
  /\ lock' = HeldBy(p)
  /\ phase' = [phase EXCEPT ![p] = "run"]
  /\ lockLost' = [lockLost EXCEPT ![p] = FALSE] /\ slept' = [slept EXCEPT ![p] = "no"]
  /\ UNCHANGED <<work, waited, awake, stalls>>

Alive(p) == phase[p] # "off" /\ awake[p]

\* heartbeat(): refreshDaemonLock finds its own row, or the lock is lost for good
\* and the process shuts down.
Refreshed(p) ==
  /\ ~lockLost[p] /\ lock.owner = p
  /\ lock' = HeldBy(p) /\ slept' = [slept EXCEPT ![p] = "no"]
  /\ UNCHANGED <<phase, waited, lockLost>>

Lost(p) ==
  /\ lockLost[p] \/ lock.owner # p
  /\ lockLost' = [lockLost EXCEPT ![p] = TRUE]
  /\ IF phase[p] = "run"
     THEN phase' = [phase EXCEPT ![p] = "grace"] /\ waited' = [waited EXCEPT ![p] = 0]
     ELSE UNCHANGED <<phase, waited>>
  /\ UNCHANGED <<lock, slept>>

\* The timer; stop() clears it.
Heartbeat(p) ==
  /\ Alive(p) /\ phase[p] = "run"
  /\ Refreshed(p) \/ Lost(p)
  /\ UNCHANGED <<work, awake, stalls>>

\* runTick
TickBegins(p) ==
  /\ Alive(p) /\ phase[p] = "run" /\ work[p] = "none"
  /\ \/ Refreshed(p) /\ work' = [work EXCEPT ![p] = "tick"]
     \/ Lost(p) /\ UNCHANGED work
  /\ UNCHANGED <<awake, stalls>>

\* MUTANT of StepBegins: the lock is only looked at when the tick begins.
StepBeginsUnchecked(p) ==
  /\ Alive(p) /\ work[p] = "tick"
  /\ work' = [work EXCEPT ![p] = "step"]
  /\ UNCHANGED <<lock, phase, waited, lockLost, slept, awake, stalls>>

\* executeSteps, before each step: a lost lock ends the tick. stop() aborts neither
\* a tick nor its next step.
StepBegins(p) ==
  /\ Alive(p) /\ work[p] = "tick"
  /\ \/ Refreshed(p) /\ work' = [work EXCEPT ![p] = "step"]
     \/ Lost(p) /\ work' = [work EXCEPT ![p] = "none"]
  /\ UNCHANGED <<awake, stalls>>

StepDone(p) ==
  /\ Alive(p) /\ work[p] = "step"
  /\ work' = [work EXCEPT ![p] = "tick"]
  /\ slept' = [slept EXCEPT ![p] = IF @ = "no" THEN "no" ELSE "yes"]
  /\ UNCHANGED <<lock, phase, waited, lockLost, awake, stalls>>

TickEnds(p) ==
  /\ Alive(p) /\ work[p] = "tick"
  /\ work' = [work EXCEPT ![p] = "none"]
  /\ UNCHANGED <<lock, phase, waited, lockLost, awake, slept, stalls>>

\* SIGTERM: shutdownAll, whose first long cleanup is the daemon's stop().
Terminate(p) ==
  /\ Alive(p) /\ phase[p] = "run"
  /\ phase' = [phase EXCEPT ![p] = "grace"] /\ waited' = [waited EXCEPT ![p] = 0]
  /\ UNCHANGED <<lock, work, lockLost, awake, slept, stalls>>

\* The tick has ended, or the grace has: the tick in flight is left to itself.
StopWaited(p) ==
  /\ Alive(p) /\ phase[p] = "grace" /\ (work[p] = "none" \/ waited[p] >= Grace)
  /\ phase' = [phase EXCEPT ![p] = "close"] /\ waited' = [waited EXCEPT ![p] = 0]
  /\ UNCHANGED <<lock, work, lockLost, awake, slept, stalls>>

\* The last of shutdownAll: releaseDaemonLock deletes its own row only; then the
\* process exits, a step under way with it.
Release(p) ==
  /\ Alive(p) /\ phase[p] = "close"
  /\ lock' = IF lock.owner = p THEN [owner |-> NoRow, age |-> 0] ELSE lock
  /\ phase' = [phase EXCEPT ![p] = "off"] /\ work' = [work EXCEPT ![p] = "none"]
  /\ waited' = [waited EXCEPT ![p] = 0]
  /\ UNCHANGED <<lockLost, awake, slept, stalls>>

\* The process dies; its owner id is never used again.
ProcessDies(p) ==
  /\ phase[p] # "off"
  /\ lock' = IF lock.owner = p THEN [lock EXCEPT !.owner = DeadRow] ELSE lock
  /\ phase' = [phase EXCEPT ![p] = "off"] /\ work' = [work EXCEPT ![p] = "none"]
  /\ waited' = [waited EXCEPT ![p] = 0] /\ awake' = [awake EXCEPT ![p] = TRUE]
  /\ UNCHANGED <<lockLost, slept, stalls>>

Stall(p) ==
  /\ Alive(p) /\ stalls < MaxStalls /\ stalls' = stalls + 1
  /\ awake' = [awake EXCEPT ![p] = FALSE] 
  /\ slept' = [slept EXCEPT ![p] = IF work[p] = "step" THEN "inStep" ELSE "yes"]
  /\ UNCHANGED <<lock, phase, work, waited, lockLost>>

Wake(p) ==
  /\ ~awake[p]
  /\ awake' = [awake EXCEPT ![p] = TRUE]
  /\ UNCHANGED <<lock, phase, work, waited, lockLost, slept, stalls>>

\* What an awake process must have done by now.
Prompt(p) ==
  Alive(p) =>
    /\ phase[p] = "run" => lock.owner = p /\ lock.age < BeatEvery
    /\ phase[p] = "grace" => waited[p] < Grace
    /\ phase[p] = "close" => waited[p] < CloseTime

TimePasses ==
  /\ \A p \in Daemon : Prompt(p)
  /\ lock' = [lock EXCEPT !.age = IF @ > StaleAge THEN @ ELSE @ + 1]
  /\ waited' = [p \in Daemon |-> IF Alive(p) /\ phase[p] # "run" THEN waited[p] + 1 ELSE waited[p]]
  /\ UNCHANGED <<phase, work, lockLost, awake, slept, stalls>>

LockNext ==
  \/ \E p \in Daemon : \/ Acquire(p) \/ Heartbeat(p) \/ TickBegins(p) \/ StepBegins(p) \/ StepDone(p)
                        \/ TickEnds(p) \/ Terminate(p) \/ StopWaited(p) \/ Release(p) \/ ProcessDies(p)
                        \/ Stall(p) \/ Wake(p)
  \/ TimePasses

LockSpec == LockInit /\ [][LockNext]_lockVars

-----------------------------------------------------------------------------
(* Properties.                                                             *)

\* A daemon that has not stalled since its last heartbeat still has the lock,
\* from its boot to the end of its shutdown.
PromptDaemonKeepsLock ==
  \A p \in Daemon : phase[p] # "off" /\ slept[p] = "no" => lock.owner = p

\* Two daemons carry out a step at the same time only if one of them stalled in
\* the middle of that step (main.ts: two daemons on one DB could act twice).
OneDaemonActs ==
  \A p, q \in Daemon :
    p # q /\ work[p] = "step" /\ work[q] = "step" => "inStep" \in {slept[p], slept[q]}

\* The lock of a daemon that died does not keep the desk without one.
DeadLockIsTaken == lock.owner = DeadRow ~> lock.owner # DeadRow
=============================================================================
