----------------------------- MODULE MCServices -----------------------------
(***************************************************************************)
(* The agent's services for TLC, one part at a time: the part is chosen at *)
(* first, and the others then stay as they were initialised.               *)
(***************************************************************************)
EXTENDS DeskSession, Watchdog, DaemonLock, DeskDaemon

CONSTANTS p1, p2

MCSensed == {{}, {"boundary", "positions"}}

VARIABLE part

mcVars == <<part, sessionVars, watchVars, lockVars, vars>>

MCInit ==
  /\ part \in {"session", "watchdog", "lock", "desk"}
  /\ SessionInit /\ WatchInit /\ LockInit /\ Init
  /\ part # "desk" => desk.mode = "copilot"

InSession(A) == part = "session" /\ A /\ UNCHANGED <<part, watchVars, lockVars, vars>>
InWatch(A)   == part = "watchdog" /\ A /\ UNCHANGED <<part, sessionVars, lockVars, vars>>
InLock(A)    == part = "lock" /\ A /\ UNCHANGED <<part, sessionVars, watchVars, vars>>
InDesk(A)    == part = "desk" /\ A /\ UNCHANGED <<part, sessionVars, watchVars, lockVars>>

MCNext ==
  InSession(SessionNext) \/ InWatch(WatchNext) \/ InLock(LockNext) \/ InDesk(Next)

MCSpec == MCInit /\ [][MCNext]_mcVars

\* A first decision in every environment, and a second one after it was withdrawn or
\* has an execution, while desk, files and process are as they were at first and the
\* plans have one step.
\* Approve and cancel files both exist only where no process dies, and files only on
\* an active desk; a desk that is not active refuses whatever its mode.
MCBound ==
  /\ Cardinality(Free) < MaxDecisions - 1 =>
       touched = {} /\ crashes = 0 /\ ~lost /\ desk = [mode |-> "copilot", status |-> "active"]
  /\ touched # {} => desk.status = "active"
  /\ Cardinality(touched) > 1 => crashes = 0 /\ ~lost
  /\ desk.status # "active" => desk.mode = "copilot"
  /\ Free = {} => poached = {} /\ (withdrawn # {} \/ execs[1] # <<>>)
  /\ Free = {} => \A i \in Id : row[i].plan \notin {Mixed, Nothing}

-----------------------------------------------------------------------------
\* The service that runs is typed.
ServicesTypeOK ==
  /\ part = "session" => SessionTypeOK
  /\ part = "watchdog" => WatchTypeOK
  /\ part = "lock" => LockTypeOK
  /\ part = "desk" => TypeOK
=============================================================================
