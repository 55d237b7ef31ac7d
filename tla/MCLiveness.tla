----------------------------- MODULE MCLiveness -----------------------------
(***************************************************************************)
(* The agent's services for TLC, one part at a time: the part is chosen at *)
(* first, and the others then stay as they were initialised. Each part's   *)
(* fairness is stated here, for its part only.                             *)
(***************************************************************************)
EXTENDS DeskSession, Watchdog, DaemonLock, DeskDaemon

CONSTANTS p1, p2

MCQuiet == {{}}

VARIABLE part

Part == {"session", "watchdog", "lock", "desk"}

MCInit ==
  /\ part \in Part
  /\ SessionInit /\ WatchInit /\ LockInit /\ Init
  /\ part # "desk" => desk.mode = "copilot"

InSession(A) == part = "session" /\ A /\ UNCHANGED <<part, watchVars, lockVars, vars>>
InWatch(A)   == part = "watchdog" /\ A /\ UNCHANGED <<part, sessionVars, lockVars, vars>>
InLock(A)    == part = "lock" /\ A /\ UNCHANGED <<part, sessionVars, watchVars, vars>>
InDesk(A)    == part = "desk" /\ A /\ UNCHANGED <<part, sessionVars, watchVars, lockVars>>

MCNext ==
  InSession(SessionNext) \/ InWatch(WatchNext) \/ InLock(LockNext) \/ InDesk(Next)

mcVars == <<part, sessionVars, watchVars, lockVars, vars>>

\* Only actions of the part chosen are ever enabled, so the fairness of all parts
\* is stated together, one obligation of each beside the others.
\* Session: time passes, and the reconcile timer runs. Watchdog: the loop runs,
\* time passes, and what is tried again and again (a read, a question to an agent
\* that is up, a pause) succeeds in the end. Lock: timers fire, and somebody starts
\* the agent when it can be started. Daemon: as in its FairSpec.
Own(p) == Heartbeat(p) \/ StopWaited(p) \/ Release(p)

MCFairness ==
  /\ WF_mcVars(InSession(Purge) \/ InWatch(WatchStep) \/ InLock(TimePasses) \/ InDesk(TickStep))
  /\ WF_mcVars(InSession(Age("vault")) \/ InWatch(UncheckedAge) \/ InLock(Own(p1)) \/ InDesk(Gate))
  /\ WF_mcVars(InLock(Own(p2)) \/ InDesk(Tick))
  /\ WF_mcVars(InLock(\E p \in Daemon : Acquire(p)) \/ InDesk(Boot))
  /\ WF_mcVars(InDesk(lost /\ Stop))
  /\ SF_mcVars(InWatch(Consume) \/ InDesk(SettleTick))
  /\ SF_mcVars(InWatch(Answered) \/ InDesk(ExpireTick))
  /\ SF_mcVars(InWatch(PauseLands /\ landed'))

MCSpec == MCInit /\ [][MCNext]_mcVars /\ MCFairness
=============================================================================
