---------------------------- MODULE ServiceProofs ----------------------------
(***************************************************************************)
(* What stands beside a running daemon: the lock that lets one daemon act  *)
(* at a time, the watchdog, and the desk status that webhooks and owners   *)
(* move. Three parts, in this order, that use nothing of one another; and  *)
(* at the end the composition of the three with the daemon.                *)
(***************************************************************************)
EXTENDS MCServices, DeskDaemonProofs, FiniteSetTheorems, SequenceTheorems

(***************************************************************************)
(* Why two daemons do not act at once: a daemon that has not stalled since *)
(* its last heartbeat holds the lock, and the age of that heartbeat is     *)
(* bounded by what its timers and its shutdown leave undone. Before each   *)
(* step it is heard again, so only a stall inside a step lets another in.  *)
(***************************************************************************)

\* A process that does not run has no tick, a stalled one has slept, and the last
\* heartbeat before a step that is under way came with the step.
WorkInv ==
  \A p \in Daemon :
    /\ phase[p] = "off" => work[p] = "none"
    /\ phase[p] # "off" /\ ~awake[p] => slept[p] # "no"
    /\ work[p] = "step" => slept[p] # "yes"

\* How long the parts of a shutdown have taken.
WaitInv ==
  \A p \in Daemon :
    /\ phase[p] = "grace" => waited[p] <= Grace
    /\ phase[p] = "close" => waited[p] <= CloseTime

\* How old the heartbeat of a prompt daemon may be.
HeldAge(p) ==
  CASE phase[p] = "run"   -> BeatEvery
    [] phase[p] = "grace" -> BeatEvery + waited[p]
    [] OTHER              -> BeatEvery + Grace + waited[p]

HeldInv ==
  \A p \in Daemon : phase[p] # "off" /\ slept[p] = "no" =>
    lock.owner = p /\ ~lockLost[p] /\ lock.age <= HeldAge(p)

LockInv == LockTypeOK /\ WorkInv /\ WaitInv /\ HeldInv

-----------------------------------------------------------------------------
\* No prompt daemon's heartbeat is stale: the lock is not there to be taken.
LEMMA HeldIsFresh ==
  ASSUME LockInv, NEW p \in Daemon, phase[p] # "off", slept[p] = "no"
  PROVE  lock.owner = p /\ ~Acquirable
<1>1. lock.owner = p /\ lock.age <= HeldAge(p)
  BY DEF LockInv, HeldInv
<1>2. HeldAge(p) <= StaleAge
  BY LockAssumption, ShutdownFits DEF LockInv, LockTypeOK, WaitInv, HeldAge
<1>3. lock.age \in Nat /\ HeldAge(p) \in Nat
  BY LockAssumption DEF LockInv, LockTypeOK, HeldAge
<1> QED
  BY <1>1, <1>2, <1>3, LockAssumption DEF Acquirable

\* The invariant holds before any daemon has started,
LEMMA InitLock == LockInit => LockInv
BY LockAssumption DEF LockInit, LockInv, LockTypeOK, WorkInv, WaitInv, HeldInv

-----------------------------------------------------------------------------
\* and every step of either process, and the passing of time, preserves it.
LEMMA NextLock ==
  ASSUME LockInv, [LockNext]_lockVars
  PROVE  LockInv'
<1> USE LockAssumption
<1>t. LockTypeOK
  BY DEF LockInv
<1>0. CASE UNCHANGED lockVars
  BY <1>0 DEF lockVars, LockInv, LockTypeOK, WorkInv, WaitInv, HeldInv, HeldAge
<1>1. ASSUME NEW p \in Daemon, Acquire(p) PROVE LockInv'
  <2>1. LockTypeOK'
    BY <1>1 DEF Acquire, LockInv, LockTypeOK, HeldBy
  <2>2. WorkInv' /\ WaitInv'
    BY <1>1 DEF Acquire, LockInv, LockTypeOK, WorkInv, WaitInv
  <2>3. \A q \in Daemon : phase[q] # "off" => slept[q] # "no"
    BY <1>1, HeldIsFresh DEF Acquire
  <2>4. HeldInv'
    BY <1>1, <2>3 DEF Acquire, LockTypeOK, LockInv, HeldInv, HeldBy, HeldAge
  <2> QED BY <2>1, <2>2, <2>4 DEF LockInv
<1>2. ASSUME NEW p \in Daemon, Refreshed(p), work' = [work EXCEPT ![p] = work'[p]],
             work'[p] \in {"none", "tick", "step"}, Alive(p), UNCHANGED <<awake, stalls>>
      PROVE  LockInv'
  <2>1. LockTypeOK'
    BY <1>2 DEF Refreshed, LockInv, LockTypeOK, HeldBy
  <2>2. WorkInv' /\ WaitInv'
    BY <1>2 DEF Refreshed, Alive, LockInv, LockTypeOK, WorkInv, WaitInv
  <2>3. HeldInv'
    BY <1>2 DEF Refreshed, Alive, LockInv, LockTypeOK, HeldInv, HeldAge, HeldBy
  <2> QED BY <2>1, <2>2, <2>3 DEF LockInv
<1>3. ASSUME NEW p \in Daemon, Lost(p), work' = work \/ work' = [work EXCEPT ![p] = "none"],
             Alive(p), UNCHANGED <<awake, stalls>>
      PROVE  LockInv'
  <2>1. LockTypeOK'
    BY <1>3 DEF Lost, Alive, LockInv, LockTypeOK
  <2>2. WorkInv' /\ WaitInv'
    BY <1>3 DEF Lost, Alive, LockInv, LockTypeOK, WorkInv, WaitInv
  <2>3. slept[p] # "no"
    BY <1>3 DEF Lost, Alive, LockInv, HeldInv
  <2>4. HeldInv'
    BY <1>3, <2>3 DEF Lost, Alive, LockInv, LockTypeOK, HeldInv, HeldAge
  <2> QED BY <2>1, <2>2, <2>4 DEF LockInv
<1>4. ASSUME NEW p \in Daemon, Heartbeat(p) PROVE LockInv'
  <2>1. work' = [work EXCEPT ![p] = work'[p]] /\ work'[p] \in {"none", "tick", "step"}
    BY <1>4, <1>t DEF Heartbeat, LockTypeOK
  <2> QED BY <1>2, <1>3, <1>4, <2>1 DEF Heartbeat
<1>5. ASSUME NEW p \in Daemon, TickBegins(p) PROVE LockInv'
  <2>1. CASE Refreshed(p) /\ work' = [work EXCEPT ![p] = "tick"]
    BY <1>2, <1>5, <1>t, <2>1 DEF TickBegins, LockTypeOK
  <2>2. CASE Lost(p) /\ UNCHANGED work
    BY <1>3, <1>5, <2>2 DEF TickBegins
  <2> QED BY <1>5, <2>1, <2>2 DEF TickBegins
<1>6. ASSUME NEW p \in Daemon, StepBegins(p) PROVE LockInv'
  <2>1. CASE Refreshed(p) /\ work' = [work EXCEPT ![p] = "step"]
    BY <1>2, <1>6, <1>t, <2>1 DEF StepBegins, LockTypeOK
  <2>2. CASE Lost(p) /\ work' = [work EXCEPT ![p] = "none"]
    BY <1>3, <1>6, <2>2 DEF StepBegins
  <2> QED BY <1>6, <2>1, <2>2 DEF StepBegins
<1>7. ASSUME NEW p \in Daemon, StepDone(p) \/ TickEnds(p) PROVE LockInv'
  BY <1>7 DEF StepDone, TickEnds, Alive, LockInv, LockTypeOK, WorkInv, WaitInv, HeldInv, HeldAge
<1>8. ASSUME NEW p \in Daemon, Terminate(p) \/ StopWaited(p) PROVE LockInv'
  <2>1. LockTypeOK'
    BY <1>8 DEF Terminate, StopWaited, LockInv, LockTypeOK
  <2>2. WorkInv' /\ WaitInv'
    BY <1>8 DEF Terminate, StopWaited, Alive, LockInv, LockTypeOK, WorkInv, WaitInv
  <2>3. HeldInv'
    BY <1>8 DEF Terminate, StopWaited, Alive, LockInv, LockTypeOK, WaitInv, HeldInv, HeldAge
  <2> QED BY <2>1, <2>2, <2>3 DEF LockInv
<1>9. ASSUME NEW p \in Daemon, Release(p) \/ ProcessDies(p) PROVE LockInv'
  <2>1. LockTypeOK'
    <3>1. lock' \in [owner : Daemon \cup {NoRow, DeadRow}, age : 0..(StaleAge + 1)]
      BY <1>9, <1>t DEF Release, ProcessDies, LockTypeOK
    <3>2. phase' \in [Daemon -> {"off", "run", "grace", "close"}]
          /\ work' \in [Daemon -> {"none", "tick", "step"}]
      BY <1>9, <1>t DEF Release, ProcessDies, LockTypeOK
    <3>3. waited' \in [Daemon -> 0..(Grace + CloseTime)]
      BY <1>9, <1>t DEF Release, ProcessDies, LockTypeOK
    <3>4. \A q \in Daemon : lockLost'[q] => phase'[q] # "run"
      BY <1>9, <1>t DEF Release, ProcessDies, LockTypeOK
    <3>5. awake' \in [Daemon -> BOOLEAN]
      BY <1>9, <1>t DEF Release, ProcessDies, LockTypeOK
    <3> QED BY <1>9, <1>t, <3>1, <3>2, <3>3, <3>4, <3>5 DEF Release, ProcessDies, LockTypeOK
  <2>2. WorkInv' /\ WaitInv'
    BY <1>9 DEF Release, ProcessDies, LockInv, LockTypeOK, WorkInv, WaitInv
  <2>3. HeldInv'
    BY <1>9 DEF Release, ProcessDies, LockInv, LockTypeOK, HeldInv, HeldAge
  <2> QED BY <2>1, <2>2, <2>3 DEF LockInv
<1>10. ASSUME NEW p \in Daemon, Stall(p) \/ Wake(p) PROVE LockInv'
  <2>1. LockTypeOK'
    <3>1. awake' \in [Daemon -> BOOLEAN]
      BY <1>10, <1>t DEF Stall, Wake, LockTypeOK
    <3>2. slept' \in [Daemon -> {"no", "yes", "inStep"}]
      BY <1>10, <1>t DEF Stall, Wake, LockTypeOK
    <3>3. stalls' \in 0..MaxStalls
      BY <1>10, <1>t DEF Stall, Wake, LockTypeOK
    <3> QED BY <1>10, <1>t, <3>1, <3>2, <3>3 DEF Stall, Wake, LockTypeOK
  <2>2. WorkInv'
    BY <1>10 DEF Stall, Wake, Alive, LockInv, LockTypeOK, WorkInv
  <2>3. WaitInv' /\ HeldInv'
    BY <1>10 DEF Stall, Wake, Alive, LockInv, LockTypeOK, WaitInv, HeldInv, HeldAge
  <2> QED BY <2>1, <2>2, <2>3 DEF LockInv
<1>11. CASE TimePasses
  <2>1. LockTypeOK'
    BY <1>11 DEF TimePasses, Prompt, Alive, LockInv, LockTypeOK, WaitInv
  <2>2. WorkInv' /\ WaitInv'
    BY <1>11 DEF TimePasses, Prompt, Alive, LockInv, LockTypeOK, WorkInv, WaitInv
  <2>3. HeldInv'
    BY <1>11 DEF TimePasses, Prompt, Alive, LockInv, LockTypeOK, WorkInv, WaitInv, HeldInv, HeldAge
  <2> QED BY <2>1, <2>2, <2>3 DEF LockInv
<1> QED
  BY <1>0, <1>1, <1>4, <1>5, <1>6, <1>7, <1>8, <1>9, <1>10, <1>11 DEF LockNext

\* The lock's and the processes' states relate as LockInv says, for any number of
\* processes and any stalls.
THEOREM LockInvHolds == LockSpec => []LockInv
<1> QED BY InitLock, NextLock, PTL DEF LockSpec

\* A daemon that has not stalled since its last heartbeat still has the lock, up to
\* the last of its shutdown.
THEOREM HeartbeatKeepsLock == LockSpec => []PromptDaemonKeepsLock
<1>1. LockInv => PromptDaemonKeepsLock
  BY DEF LockInv, HeldInv, PromptDaemonKeepsLock
<1> QED BY <1>1, LockInvHolds, PTL

\* Two daemons carry out a step at once only if one stalled in the middle of it.
THEOREM OneActs == LockSpec => []OneDaemonActs
<1>1. LockInv => OneDaemonActs
  <2> SUFFICES ASSUME LockInv, NEW p \in Daemon, NEW q \in Daemon, p # q,
                      work[p] = "step", work[q] = "step"
               PROVE  "inStep" \in {slept[p], slept[q]}
    BY DEF OneDaemonActs
  <2>1. phase[p] # "off" /\ phase[q] # "off" /\ slept[p] # "yes" /\ slept[q] # "yes"
    BY DEF LockInv, WorkInv
  <2>2. ~(slept[p] = "no" /\ slept[q] = "no")
    BY <2>1 DEF LockInv, HeldInv
  <2> QED BY <2>1, <2>2 DEF LockInv, LockTypeOK
<1> QED BY <1>1, LockInvHolds, PTL

-----------------------------------------------------------------------------
(***************************************************************************)
(* Why the watchdog loses no detection: what it has read is in one of its  *)
(* sets until the lane was paused with that action on the chain.           *)
(***************************************************************************)

\* The chain: a paused lane was last paused with everything mined so far.
ChainInv ==
  /\ ops \in Seq(Kind) /\ lanePaused \in BOOLEAN
  /\ pausedWith \in 0..Len(ops)
  /\ lanePaused => pausedWith = Len(ops)

\* What the tick has read lies between its cursor and the chain, and a pause that
\* it saw or landed covers what it has read.
ReadInv ==
  /\ cursor \in None..Len(ops)
  /\ wpc \in {"idle", "read", "ask", "send"}
  /\ rd.upto \in 0..Len(ops) /\ rd.paused \in BOOLEAN /\ landed \in BOOLEAN
  /\ IF wpc = "idle" THEN ~landed ELSE cursor <= rd.upto
  /\ (rd.paused \/ landed) => pausedWith >= rd.upto

\* An action still to be vouched for was signed in the agent's layout and is at
\* most the cursor; one that escalated has paused the lane.
UncheckedInv ==
  /\ \A i \in unchecked : i \in 1..cursor /\ ops[i] \in {"agent", "forged"}
  /\ \A i \in escalated : i \in 1..cursor /\ pausedWith >= i

WatchInv == ChainInv /\ ReadInv /\ UncheckedInv /\ DetectionHeld

-----------------------------------------------------------------------------
\* A fresh watchdog on a fresh chain.
LEMMA InitWatch == WatchInit => WatchInv
<1> SUFFICES ASSUME WatchInit PROVE WatchInv
  OBVIOUS
<1>1. ops = <<>> /\ Len(ops) = 0 /\ cursor = -1 /\ pausedWith = 0 /\ lanePaused = FALSE
      /\ wpc = "idle" /\ rd.upto = 0 /\ rd.paused = FALSE /\ landed = FALSE
  BY DEF WatchInit, None, NoRead
<1>2. ChainInv
  <2>1. ops \in Seq(Kind) /\ pausedWith \in 0..Len(ops)
    BY <1>1
  <2>2. lanePaused \in BOOLEAN /\ ~lanePaused
    BY <1>1
  <2> QED BY <2>1, <2>2 DEF ChainInv
<1>3. ReadInv
  <2>1. cursor \in None..Len(ops) /\ rd.upto \in 0..Len(ops)
    BY <1>1 DEF None
  <2>2. rd.paused \in BOOLEAN /\ landed \in BOOLEAN /\ ~rd.paused /\ ~landed
    BY <1>1
  <2> QED BY <1>1, <2>1, <2>2 DEF ReadInv
<1>4. UncheckedInv /\ DetectionHeld
  BY <1>1 DEF WatchInit, UncheckedInv, DetectionHeld, NotTheAgents, Op
<1> QED BY <1>2, <1>3, <1>4 DEF WatchInv

\* The facts about numbers the steps need.
LEMMA WatchNumbers ==
  ASSUME WatchInv
  PROVE  /\ Len(ops) \in Nat /\ DOMAIN ops = 1..Len(ops) /\ Op \subseteq Nat
         /\ pausedWith \in Nat /\ pausedWith <= Len(ops)
         /\ cursor \in Int /\ cursor <= Len(ops) /\ -1 <= cursor
         /\ rd.upto \in Nat /\ rd.upto <= Len(ops)
<1>1. Len(ops) \in Nat /\ DOMAIN ops = 1..Len(ops)
  BY DEF WatchInv, ChainInv
<1>2. Op \subseteq Nat
  BY WatchAssumption DEF Op
<1>3. pausedWith \in 0..Len(ops) /\ cursor \in -1..Len(ops) /\ rd.upto \in 0..Len(ops)
  BY DEF WatchInv, ChainInv, ReadInv, None
<1> QED BY <1>1, <1>2, <1>3

\* A mined transaction is past everything the watchdog knows.
LEMMA MineKeeps ==
  ASSUME WatchInv, NEW k \in Kind, Mine(k)
  PROVE  WatchInv'
<1>1. /\ ops' = Append(ops, k) /\ lanePaused' \in BOOLEAN
      /\ pausedWith' = IF lanePaused' THEN Len(ops) + 1 ELSE pausedWith
      /\ lanePaused => lanePaused'
      /\ UNCHANGED <<agent, watchState, request, tick, faults, missed>>
  BY DEF Mine, WatchInv, ChainInv
<1>2. /\ ops' \in Seq(Kind) /\ Len(ops') = Len(ops) + 1
      /\ DOMAIN ops' = 1..(Len(ops) + 1)
      /\ \A i \in 1..Len(ops) : ops'[i] = ops[i]
  BY <1>1, WatchNumbers DEF WatchInv, ChainInv
<1>3. pausedWith' \in Nat /\ pausedWith' >= pausedWith /\ pausedWith' <= Len(ops')
  BY <1>1, <1>2, WatchNumbers
<1>4. ChainInv'
  BY <1>1, <1>2, <1>3, WatchNumbers DEF WatchInv, ChainInv
<1>5. ReadInv'
  BY <1>1, <1>2, <1>3, WatchNumbers DEF WatchInv, ReadInv, watchState, tick, None
<1>6. UncheckedInv'
  BY <1>1, <1>2, <1>3, WatchNumbers DEF WatchInv, UncheckedInv, watchState
<1>7. DetectionHeld'
  BY <1>1, <1>2, <1>3, WatchNumbers DEF WatchInv, DetectionHeld, NotTheAgents, watchState
<1> QED BY <1>4, <1>5, <1>6, <1>7 DEF WatchInv

\* Whatever forgets nothing and moves no cursor.
LEMMA QuietKeeps ==
  ASSUME WatchInv,
         UNCHANGED <<ops, cursor, missed>>,
         lanePaused' \in BOOLEAN, pausedWith' \in 0..Len(ops), pausedWith' >= pausedWith,
         lanePaused' => pausedWith' = Len(ops),
         ReadInv', foreign \subseteq foreign',
         \A i \in unchecked : i \in unchecked' \/ (ops[i] = "forged" /\ i \in Op => i \in foreign'),
         unchecked' \subseteq unchecked, escalated' \subseteq escalated
  PROVE  WatchInv'
<1>1. ChainInv'
  BY DEF WatchInv, ChainInv
<1>2. UncheckedInv'
  BY WatchNumbers DEF WatchInv, UncheckedInv
<1>3. DetectionHeld'
  BY WatchNumbers DEF WatchInv, DetectionHeld, UncheckedInv, NotTheAgents
<1> QED BY <1>1, <1>2, <1>3 DEF WatchInv

\* The watchdog dies: everything before its cursor has to be found again.
LEMMA RestartKeeps ==
  ASSUME WatchInv, Restart
  PROVE  WatchInv'
<1>1. cursor' = -1 /\ unchecked' = {} /\ escalated' = {} /\ wpc' = "idle" /\ landed' = FALSE
      /\ rd'.upto = 0 /\ rd'.paused = FALSE /\ UNCHANGED <<ops, lanePaused, pausedWith>>
  BY DEF Restart, ForgetRun, EndTick, NoRead, None, chainOps
<1>2. ChainInv'
  BY <1>1 DEF WatchInv, ChainInv
<1>3. ReadInv'
  <2>1. cursor' \in None..Len(ops') /\ rd'.upto \in 0..Len(ops')
    BY <1>1, WatchNumbers DEF None
  <2>2. rd'.paused \in BOOLEAN /\ landed' \in BOOLEAN /\ ~rd'.paused /\ ~landed'
    BY <1>1
  <2> QED BY <1>1, <2>1, <2>2 DEF ReadInv
<1>4. UncheckedInv' /\ DetectionHeld'
  BY <1>1, WatchNumbers DEF UncheckedInv, DetectionHeld
<1> QED BY <1>2, <1>3, <1>4 DEF WatchInv

\* A tick begins at the chain's end.
LEMMA LookKeeps ==
  ASSUME WatchInv, Look
  PROVE  WatchInv'
<1>1. rd'.upto = Len(ops) /\ rd'.paused = lanePaused /\ wpc' = "read"
      /\ UNCHANGED <<chainOps, agent, watchState, request, asking, plan, landed, faults, missed>>
  BY DEF Look
<1>2. wpc = "idle"
  BY DEF Look
<1>3. ReadInv'
  <2>1. cursor' = cursor /\ landed' = landed /\ ops' = ops /\ pausedWith' = pausedWith
    BY <1>1 DEF watchState, chainOps
  <2>2. lanePaused => pausedWith = Len(ops)
    BY DEF WatchInv, ChainInv
  <2>3. landed = FALSE
    BY <1>2 DEF WatchInv, ReadInv
  <2> QED BY <1>1, <2>1, <2>2, <2>3, WatchNumbers DEF WatchInv, ChainInv, ReadInv
<1> QED BY <1>1, <1>3, WatchNumbers, QuietKeeps DEF WatchInv, ChainInv, chainOps, watchState

\* The tick takes in what lies between its cursor and what it has read: what it does not
\* take up it counts as missed, and it only makes room where a pause was had.
LEMMA ConsumeKeeps ==
  ASSUME WatchInv, Consume
  PROVE  WatchInv'
<1>1. PICK from \in IF cursor = None THEN 0..rd.upto ELSE {Least(cursor, rd.upto)} :
         LET logs == {i \in (from + 1)..rd.upto : ops[i] # "revert"}
         IN  /\ Track({i \in logs : ops[i] \in {"agent", "forged"}} \ unchecked,
                      IF cursor = None THEN 1..from ELSE {})
             /\ foreign' = foreign \cup {i \in logs : ops[i] = "alien"}
  BY DEF Consume
<1>2. /\ wpc = "read" /\ wpc' = "ask"
      /\ cursor' = IF cursor = None \/ rd.upto > cursor THEN rd.upto ELSE cursor
      /\ UNCHANGED <<ops, lanePaused, pausedWith, rd, landed>>
  BY DEF Consume, chainOps
<1>3. /\ cursor' = rd.upto /\ cursor <= cursor'
      /\ from \in Nat /\ from <= rd.upto
      /\ cursor = -1 \/ from = cursor
  BY <1>1, <1>2, WatchNumbers DEF WatchInv, ReadInv, Least, None
<1> DEFINE logs == {i \in (from + 1)..rd.upto : ops[i] # "revert"}
           new  == {i \in logs : ops[i] \in {"agent", "forged"}} \ unchecked
<1>4. PICK added \in SUBSET new, out \in SUBSET escalated :
        /\ unchecked' = (unchecked \ out) \cup added
        /\ escalated' = escalated \ out
        /\ missed' = missed \cup (IF cursor = None THEN 1..from ELSE {}) \cup (new \ added)
  <2> DEFINE add == Earliest(Least(Cardinality(new), MaxUnchecked - Cardinality(unchecked \ escalated)),
                             new)
             off == Earliest(NotBelow0(Cardinality(unchecked) + Cardinality(add) - MaxUnchecked),
                             escalated)
  <2>1. add \subseteq new /\ off \subseteq escalated
    BY DEF Earliest
  <2>2. Track(new, IF cursor = None THEN 1..from ELSE {})
    BY <1>1
  <2>3. /\ unchecked' = (unchecked \ off) \cup add
        /\ escalated' = escalated \ off
        /\ missed' = missed \cup (IF cursor = None THEN 1..from ELSE {}) \cup (new \ add)
    BY <2>2 DEF Track
  <2> HIDE DEF add, off, new
  <2> QED BY <2>1, <2>3
<1>5. foreign' = foreign \cup {i \in logs : ops[i] = "alien"}
  BY <1>1
<1>6. ChainInv'
  BY <1>2 DEF WatchInv, ChainInv
<1>7. ReadInv'
  BY <1>2, <1>3, WatchNumbers DEF WatchInv, ReadInv, None
<1>8. UncheckedInv'
  <2>1. \A i \in new : i \in 1..rd.upto /\ ops[i] \in {"agent", "forged"}
    BY <1>3, WatchNumbers
  <2>2. \A i \in 1..cursor : i \in 1..cursor'
    BY <1>3, WatchNumbers
  <2> HIDE DEF new
  <2> QED BY <1>2, <1>3, <1>4, <2>1, <2>2 DEF WatchInv, UncheckedInv
<1>9. DetectionHeld'
  <2> SUFFICES ASSUME NEW i \in Op, i \in 1..Len(ops), ops[i] \in {"forged", "alien"}, i <= rd.upto
               PROVE  i \in foreign' \cup unchecked' \cup missed' \/ pausedWith >= i
    BY <1>2, <1>3, WatchNumbers DEF DetectionHeld, NotTheAgents
  <2>1. CASE cursor # -1 /\ i <= cursor
    <3>1. i \in foreign \cup unchecked \cup missed \/ pausedWith >= i
      BY <2>1, WatchNumbers DEF WatchInv, DetectionHeld, NotTheAgents
    <3>2. i \in escalated => pausedWith >= i
      BY DEF WatchInv, UncheckedInv
    <3> HIDE DEF new
    <3> QED BY <1>4, <1>5, <3>1, <3>2
  <2>2. CASE cursor = -1 /\ i <= from
    <3>1. i \in 1..from
      BY <1>3, <2>2
    <3> HIDE DEF new
    <3> QED BY <1>4, <2>2, <3>1 DEF None
  <2>3. CASE i > from
    <3>1. i \in logs
      BY <1>3, <2>3, WatchNumbers
    <3>2. ops[i] = "alien" => i \in foreign'
      BY <1>5, <3>1
    <3>3. ops[i] = "forged" => i \in new \/ i \in unchecked
      BY <3>1
    <3>4. i \in escalated => pausedWith >= i
      BY DEF WatchInv, UncheckedInv
    <3> HIDE DEF new, logs
    <3> QED BY <1>4, <3>2, <3>3, <3>4
  <2> QED BY <1>3, <2>1, <2>2, <2>3, WatchNumbers
<1> QED BY <1>6, <1>7, <1>8, <1>9 DEF WatchInv

\* The agent vouches for an action or disowns it: a disowned one is foreign.
LEMMA AnsweredKeeps ==
  ASSUME WatchInv, Answered
  PROVE  WatchInv'
<1>1. /\ unchecked' = unchecked \ {Asked} /\ escalated' = escalated \ {Asked}
      /\ foreign' = foreign \cup ({Asked} \cap {i \in Op : i <= Len(ops) /\ ops[i] = "forged"})
      /\ UNCHANGED <<ops, lanePaused, pausedWith, cursor, wpc, rd, landed, missed>>
  BY DEF Answered, chainOps
<1>2. ReadInv'
  BY <1>1 DEF WatchInv, ReadInv
<1>3. \A i \in unchecked : i \in unchecked' \/ (ops[i] = "forged" /\ i \in Op => i \in foreign')
  <2> SUFFICES ASSUME NEW i \in unchecked, i = Asked, ops[i] = "forged", i \in Op
               PROVE  i \in foreign'
    BY <1>1
  <2>1. i <= Len(ops)
    BY WatchNumbers DEF WatchInv, UncheckedInv
  <2> QED BY <1>1, <2>1
<1>4. /\ lanePaused' \in BOOLEAN /\ pausedWith' \in 0..Len(ops) /\ pausedWith' >= pausedWith
      /\ lanePaused' => pausedWith' = Len(ops)
  BY <1>1, WatchNumbers DEF WatchInv, ChainInv
<1> QED BY <1>1, <1>2, <1>3, <1>4, QuietKeeps

\* The one-shot reasons are let go of only under a pause that covers the read.
LEMMA SettleKeeps ==
  ASSUME WatchInv, CloseTick
  PROVE  WatchInv'
<1>1. /\ wpc = "send" /\ wpc' = "idle" /\ landed' = FALSE /\ rd'.upto = 0 /\ rd'.paused = FALSE
      /\ UNCHANGED <<ops, lanePaused, pausedWith, cursor, unchecked, missed>>
  BY DEF CloseTick, EndTick, NoRead, chainOps
<1>2. ChainInv'
  BY <1>1 DEF WatchInv, ChainInv
<1>3. ReadInv'
  <2>1. cursor' \in None..Len(ops') /\ rd'.upto \in 0..Len(ops')
    BY <1>1, WatchNumbers DEF WatchInv, ReadInv
  <2>2. rd'.paused \in BOOLEAN /\ landed' \in BOOLEAN /\ ~rd'.paused /\ ~landed'
    BY <1>1
  <2> QED BY <1>1, <2>1, <2>2 DEF ReadInv
<1>4. CASE ~(rd.paused \/ landed) /\ UNCHANGED <<foreign, escalated>>
  <2>1. UncheckedInv' /\ DetectionHeld'
    BY <1>1, <1>4 DEF WatchInv, UncheckedInv, DetectionHeld, NotTheAgents
  <2> QED BY <1>2, <1>3, <2>1 DEF WatchInv
<1>5. CASE (rd.paused \/ landed) /\ escalated' \subseteq escalated \cup unchecked
  <2>1. cursor <= rd.upto /\ pausedWith >= rd.upto
    BY <1>1, <1>5 DEF WatchInv, ReadInv
  <2>2. \A i \in Int : i <= cursor => pausedWith >= i
    BY <2>1, WatchNumbers
  <2>3. UncheckedInv'
    BY <1>1, <1>5, <2>2, WatchNumbers DEF WatchInv, UncheckedInv
  <2>4. DetectionHeld'
    BY <1>1, <2>2, WatchNumbers DEF DetectionHeld
  <2> QED BY <1>2, <1>3, <2>3, <2>4 DEF WatchInv
<1> QED BY <1>4, <1>5 DEF CloseTick

\* The steps that touch neither the cursor nor what was found.
LEMMA OtherWatchSteps ==
  ASSUME WatchInv,
         \/ OwnerUnpauses \/ (\E s \in {"hung", "down"} : AgentFails(s)) \/ RequestPause
         \/ UncheckedAge \/ LookFails \/ Unanswered \/ Judge \/ PauseLands \/ SendEnds
         \/ UNCHANGED watchVars
  PROVE  WatchInv'
<1>1. UNCHANGED <<ops, cursor, foreign, unchecked, escalated, missed>>
  BY DEF OwnerUnpauses, AgentFails, RequestPause, UncheckedAge, LookFails, Unanswered, Judge,
         PauseLands, SendEnds, watchVars, chainOps, watchState
<1>2. CASE PauseLands
  <2>1. /\ lanePaused' = TRUE /\ pausedWith' = Len(ops) /\ landed' \in BOOLEAN
        /\ wpc = "send" /\ UNCHANGED <<wpc, rd>>
    BY <1>2 DEF PauseLands
  <2>2. ReadInv'
    BY <1>1, <2>1, WatchNumbers DEF WatchInv, ReadInv
  <2> QED BY <1>1, <2>1, <2>2, WatchNumbers, QuietKeeps
<1>3. CASE ~PauseLands
  <2>1. /\ pausedWith' = pausedWith /\ (lanePaused' = lanePaused \/ lanePaused' = FALSE)
    BY <1>3 DEF OwnerUnpauses, AgentFails, RequestPause, UncheckedAge, LookFails, Unanswered, Judge,
                SendEnds, watchVars, chainOps
  <2>2. \/ UNCHANGED <<wpc, rd, landed>>
        \/ wpc' = "idle" /\ rd' = NoRead /\ landed' = FALSE
        \/ wpc = "ask" /\ wpc' = "send" /\ UNCHANGED <<rd, landed>>
    BY <1>3 DEF OwnerUnpauses, AgentFails, RequestPause, UncheckedAge, LookFails, Unanswered, Judge,
                SendEnds, watchVars, tick, EndTick
  <2>3. ReadInv'
    <3>1. CASE UNCHANGED <<wpc, rd, landed>>
      BY <1>1, <2>1, <3>1 DEF WatchInv, ReadInv
    <3>2. CASE wpc' = "idle" /\ rd' = NoRead /\ landed' = FALSE
      <4>1. cursor' \in None..Len(ops') /\ rd'.upto \in 0..Len(ops')
        BY <1>1, <3>2, WatchNumbers DEF WatchInv, ReadInv, NoRead
      <4>2. rd'.paused \in BOOLEAN /\ landed' \in BOOLEAN /\ ~rd'.paused /\ ~landed'
        BY <3>2 DEF NoRead
      <4> QED BY <3>2, <4>1, <4>2 DEF ReadInv
    <3>3. CASE wpc = "ask" /\ wpc' = "send" /\ UNCHANGED <<rd, landed>>
      BY <1>1, <2>1, <3>3 DEF WatchInv, ReadInv
    <3> QED BY <2>2, <3>1, <3>2, <3>3
  <2>4. lanePaused' \in BOOLEAN /\ (lanePaused' => pausedWith' = Len(ops))
    <3>1. lanePaused \in BOOLEAN /\ (lanePaused => pausedWith = Len(ops))
      BY DEF WatchInv, ChainInv
    <3>2. CASE lanePaused' = lanePaused
      BY <2>1, <3>1, <3>2
    <3>3. CASE lanePaused' = FALSE
      BY <3>3
    <3> QED BY <2>1, <3>2, <3>3
  <2> QED BY <1>1, <2>1, <2>3, <2>4, WatchNumbers, QuietKeeps
<1> QED BY <1>2, <1>3

\* Every step of the watchdog, the chain and the agent keeps the invariant.
LEMMA NextWatch == WatchInv /\ [WatchNext]_watchVars => WatchInv'
<1> SUFFICES ASSUME WatchInv, [WatchNext]_watchVars PROVE WatchInv'
  OBVIOUS
<1>1. CASE \E k \in Kind : Mine(k)
  BY <1>1, MineKeeps
<1>2. CASE Restart
  BY <1>2, RestartKeeps
<1>3. CASE Look
  BY <1>3, LookKeeps
<1>4. CASE Consume
  BY <1>4, ConsumeKeeps
<1>5. CASE Answered
  BY <1>5, AnsweredKeeps
<1>6. CASE CloseTick
  BY <1>6, SettleKeeps
<1>7. CASE \/ OwnerUnpauses \/ (\E s \in {"hung", "down"} : AgentFails(s)) \/ RequestPause
           \/ UncheckedAge \/ LookFails \/ Unanswered \/ Judge \/ PauseLands \/ SendEnds
           \/ UNCHANGED watchVars
  BY <1>7, OtherWatchSteps
<1> QED BY <1>1, <1>2, <1>3, <1>4, <1>5, <1>6, <1>7 DEF WatchNext, WatchStep

-----------------------------------------------------------------------------
\* The watchdog keeps WatchInv.
THEOREM WatchInvHolds == WatchSpec => []WatchInv
<1> QED BY InitWatch, NextWatch, PTL DEF WatchSpec

\* An action the agent did not produce, once taken in, is held until the lane was paused
\* with it on the chain, whatever read, question or pause fails (watchdog/main.ts runLane).
THEOREM DetectionsAreHeld == WatchSpec => []DetectionHeld
<1>1. WatchInv => DetectionHeld
  BY DEF WatchInv
<1> QED BY <1>1, WatchInvHolds, PTL

-----------------------------------------------------------------------------
(***************************************************************************)
(* Why the set of actions to ask about again never outgrows MAX_UNCHECKED: *)
(* track adds no more than fits once every action that already paused the  *)
(* lane is let go of, and lets go of exactly as many as it needs.          *)
(***************************************************************************)

\* The place of an action in a set is the number of those before it: it tells two apart.
LEMMA PlacesDiffer ==
  ASSUME NEW S \in SUBSET Nat, IsFiniteSet(S), NEW i \in S, NEW k \in S, i < k
  PROVE  /\ Cardinality({j \in S : j < i}) \in Nat /\ Cardinality({j \in S : j < k}) \in Nat
         /\ Cardinality({j \in S : j < i}) < Cardinality({j \in S : j < k})
<1> DEFINE before(x) == {j \in S : j < x}
<1>1. before(i) \in SUBSET S /\ before(k) \in SUBSET S /\ before(i) \in SUBSET before(k)
  <2>1. \A j \in S : j < i => j < k
    OBVIOUS
  <2> QED BY <2>1, Zenon
<1>2. i \in before(k) /\ i \notin before(i)
  OBVIOUS
<1> HIDE DEF before
<1>3. IsFiniteSet(before(i)) /\ IsFiniteSet(before(k))
  BY <1>1, FS_Subset
<1>4. /\ Cardinality(before(i)) \in Nat /\ Cardinality(before(k)) \in Nat
      /\ Cardinality(before(i)) <= Cardinality(before(k))
      /\ Cardinality(before(i)) # Cardinality(before(k))
  BY <1>1, <1>2, <1>3, FS_Subset, FS_CardinalityType
<1>5. Cardinality(before(i)) < Cardinality(before(k))
  BY <1>4
<1> QED BY <1>4, <1>5 DEF before

\* The n + 1 earliest are the n earliest and the first of the others.
LEMMA EarliestGrows ==
  ASSUME NEW S \in SUBSET Nat, IsFiniteSet(S), NEW n \in Nat, n < Cardinality(S),
         Cardinality(Earliest(n, S)) = n
  PROVE  Cardinality(Earliest(n + 1, S)) = n + 1
<1> DEFINE rank(x) == Cardinality({j \in S : j < x})
<1> DEFINE first == Earliest(n, S)
<1>1. first = {x \in S : rank(x) < n} /\ Earliest(n + 1, S) = {x \in S : rank(x) < n + 1}
  BY DEF Earliest
<1>2. \A x, y \in S : /\ rank(x) \in Nat
                      /\ x < y => rank(x) < rank(y)
  <2> SUFFICES ASSUME NEW x \in S, NEW y \in S
               PROVE  rank(x) \in Nat /\ (x < y => rank(x) < rank(y))
    OBVIOUS
  <2>1. {j \in S : j < x} \in SUBSET S
    OBVIOUS
  <2>2. IsFiniteSet({j \in S : j < x})
    BY <2>1, FS_Subset, Zenon
  <2>3. rank(x) \in Nat
    BY <2>2, FS_CardinalityType
  <2> QED BY <2>3, PlacesDiffer
<1> HIDE DEF rank
<1>3. first \in SUBSET S /\ first # S
  BY <1>1 DEF first
<1>4. IsFiniteSet(first)
  BY <1>3, FS_Subset
<1>5. PICK x \in S \ first : \A y \in S \ first : x <= y
  <2>1. S \ first \subseteq Nat /\ S \ first # {}
    BY <1>3
  <2> QED BY <2>1, LeastOfNaturals
<1> HIDE DEF first
<1>6. {j \in S : j < x} = first
  <2>1. ASSUME NEW j \in S, j < x PROVE j \in first
    BY <1>5, <2>1
  <2>2. ASSUME NEW j \in first PROVE j \in S /\ j < x
    <3>1. j \in S /\ rank(j) < n /\ ~(rank(x) < n) /\ j # x
      BY <1>1, <1>3, <1>5, <2>2
    <3>2. rank(j) \in Nat /\ rank(x) \in Nat /\ (x < j => rank(x) < rank(j))
      BY <1>2, <1>5, <3>1
    <3>3. j \in Nat /\ x \in Nat
      BY <1>5, <3>1
    <3> QED BY <3>1, <3>2, <3>3
  <2> QED BY <2>1, <2>2
<1>7. rank(x) = n
  BY <1>6 DEF rank, first
<1>8. Earliest(n + 1, S) = first \cup {x}
  <2>1. ASSUME NEW y \in Earliest(n + 1, S), y \notin first PROVE y = x
    <3>1. y \in S /\ rank(y) < n + 1 /\ x <= y
      BY <1>1, <1>5, <2>1
    <3>2. rank(y) \in Nat /\ (x < y => rank(x) < rank(y))
      BY <1>2, <1>5, <3>1
    <3>3. y \in Nat /\ x \in Nat
      BY <1>5, <3>1
    <3> QED BY <1>7, <3>1, <3>2, <3>3
  <2>2. x \in Earliest(n + 1, S)
    BY <1>1, <1>5, <1>7
  <2>3. ASSUME NEW y \in first PROVE y \in Earliest(n + 1, S)
    <3>1. y \in S /\ rank(y) < n
      BY <1>1, <2>3
    <3>2. rank(y) \in Nat
      BY <1>2, <3>1
    <3> QED BY <1>1, <3>1, <3>2
  <2> QED BY <2>1, <2>2, <2>3
<1> QED BY <1>4, <1>5, <1>8, FS_AddElement DEF first

\* The n earliest of at least n actions are n.
LEMMA EarliestCount ==
  ASSUME NEW S \in SUBSET Nat, IsFiniteSet(S), NEW n \in Nat, n <= Cardinality(S)
  PROVE  Cardinality(Earliest(n, S)) = n
<1> DEFINE Wrong == {m \in Nat : m <= Cardinality(S) /\ Cardinality(Earliest(m, S)) # m}
<1>1. Cardinality(S) \in Nat
  BY FS_CardinalityType
<1>2. 0 \notin Wrong
  <2>1. \A x \in S : Cardinality({j \in S : j < x}) \in Nat
    <3> TAKE x \in S
    <3>1. {j \in S : j < x} \in SUBSET S
      OBVIOUS
    <3>2. IsFiniteSet({j \in S : j < x})
      BY <3>1, FS_Subset, Zenon
    <3> QED BY <3>2, FS_CardinalityType
  <2>2. \A x \in S : ~(Cardinality({j \in S : j < x}) < 0)
    <3> TAKE x \in S
    <3>1. \A c \in Nat : ~(c < 0)
      OBVIOUS
    <3> QED BY <2>1, <3>1
  <2>3. Earliest(0, S) = {}
    BY <2>2, Zenon DEF Earliest
  <2> QED BY <2>3, FS_EmptySet
<1>3. Wrong = {}
  <2> SUFFICES ASSUME Wrong # {} PROVE FALSE
    OBVIOUS
  <2>1. Wrong \subseteq Nat
    OBVIOUS
  <2>2. PICK m \in Wrong : \A y \in Wrong : m <= y
    <3> HIDE DEF Wrong
    <3> QED BY <2>1, LeastOfNaturals
  <2>3. m \in Nat /\ m # 0 /\ m - 1 \in Nat /\ m - 1 < Cardinality(S) /\ m - 1 \notin Wrong
    BY <1>1, <1>2, <2>2
  <2>4. Cardinality(Earliest(m - 1, S)) = m - 1
    BY <1>1, <2>3
  <2>5. Cardinality(Earliest((m - 1) + 1, S)) = (m - 1) + 1
    BY <2>3, <2>4, EarliestGrows
  <2> QED BY <2>2, <2>3, <2>5
<1> QED BY <1>3

\* However many actions come at once, track leaves at most MAX_UNCHECKED to ask about.
LEMMA TrackBounds ==
  ASSUME NEW new \in SUBSET Nat, IsFiniteSet(new), NEW before, Track(new, before),
         unchecked \in SUBSET Nat, IsFiniteSet(unchecked), escalated \in SUBSET unchecked,
         Cardinality(unchecked) <= MaxUnchecked
  PROVE  IsFiniteSet(unchecked') /\ Cardinality(unchecked') <= MaxUnchecked
<1> DEFINE room  == MaxUnchecked - Cardinality(unchecked \ escalated)
           added == Earliest(Least(Cardinality(new), room), new)
           need  == NotBelow0(Cardinality(unchecked) + Cardinality(added) - MaxUnchecked)
           out   == Earliest(need, escalated)
<1>1. unchecked' = (unchecked \ out) \cup added
  BY DEF Track
<1>2. added \in SUBSET new /\ out \in SUBSET escalated
  BY DEF Earliest
<1>3. MaxUnchecked \in Nat
  BY WatchAssumption
<1>4. /\ IsFiniteSet(escalated) /\ escalated \in SUBSET Nat
      /\ Cardinality(escalated) \in Nat /\ Cardinality(unchecked) \in Nat /\ Cardinality(new) \in Nat
  BY FS_Subset, FS_CardinalityType
<1>5. Cardinality(unchecked \ escalated) = Cardinality(unchecked) - Cardinality(escalated)
  <2>1. unchecked \cap escalated = escalated
    OBVIOUS
  <2> QED BY <2>1, FS_Difference
<1>6. Cardinality(escalated) <= Cardinality(unchecked)
  BY FS_Subset
<1>7. /\ Least(Cardinality(new), room) \in Nat
      /\ Least(Cardinality(new), room) <= Cardinality(new)
      /\ Least(Cardinality(new), room) <= room
  BY <1>3, <1>4, <1>5, <1>6 DEF Least
<1>8. Cardinality(added) = Least(Cardinality(new), room)
  BY <1>7, EarliestCount
<1>9. IsFiniteSet(added) /\ IsFiniteSet(out)
  BY <1>2, <1>4, FS_Subset
<1> HIDE DEF added
<1>10. need \in Nat /\ need <= Cardinality(escalated)
       /\ Cardinality(unchecked) + Cardinality(added) - need <= MaxUnchecked
  BY <1>3, <1>4, <1>5, <1>6, <1>7, <1>8 DEF NotBelow0
<1>11. Cardinality(out) = need
  BY <1>4, <1>10, EarliestCount
<1> HIDE DEF out, need
<1>12. IsFiniteSet(unchecked \ out) /\ Cardinality(unchecked \ out) = Cardinality(unchecked) - need
  <2>1. unchecked \cap out = out
    BY <1>2
  <2>2. /\ IsFiniteSet(unchecked \ out)
        /\ Cardinality(unchecked \ out) = Cardinality(unchecked) - Cardinality(unchecked \cap out)
    BY FS_Difference
  <2> QED BY <1>11, <2>1, <2>2
<1>13. /\ IsFiniteSet((unchecked \ out) \cup added)
       /\ Cardinality((unchecked \ out) \cup added)
            = Cardinality(unchecked \ out) + Cardinality(added) - Cardinality((unchecked \ out) \cap added)
  BY <1>9, <1>12, FS_Union
<1>14. Cardinality((unchecked \ out) \cap added) \in Nat
  BY <1>12, FS_Intersection, FS_CardinalityType
<1>15. Cardinality(added) \in Nat
  BY <1>9, FS_CardinalityType
<1> QED BY <1>1, <1>3, <1>4, <1>10, <1>12, <1>13, <1>14, <1>15

\* What the watchdog has taken in is on the chain, and what it keeps about an action it still
\* has to ask about goes with that action.
TakenOK ==
  /\ unchecked \subseteq 1..Len(ops) /\ Cardinality(unchecked) <= MaxUnchecked
  /\ aged \subseteq unchecked /\ escalated \subseteq unchecked /\ asking \subseteq unchecked
  /\ foreign \subseteq 1..Len(ops) /\ untracked \subseteq 1..Len(ops) /\ missed \subseteq 1..Len(ops)

\* A streak counts reverts among the nonces seen.
CountsOK ==
  /\ Len(ops) <= MaxOps /\ opNonce \in None..Len(ops)
  /\ streak \in Nat /\ streak <= (IF opNonce = None THEN 0 ELSE opNonce)
  /\ agent \in {"up", "hung", "down"} /\ request \in BOOLEAN /\ faults \in 0..MaxWatchFaults

\* What a tick has read and still has to send.
PlanOK ==
  /\ rd \in [upto : 0..Len(ops), paused : BOOLEAN, alive : BOOLEAN, signs : Sensed \cup {{}},
             old : SUBSET Op]
  /\ plan \in Seq({"pause", "exitAll"})

WatchTyped == WatchInv /\ TakenOK /\ CountsOK /\ PlanOK

\* Whatever takes nothing in and drops what it keeps about an action along with it.
LEMMA TakenKept ==
  ASSUME TakenOK, Len(ops) \in Nat, Len(ops') \in Nat, Len(ops) <= Len(ops'),
         unchecked' \subseteq unchecked, foreign' \subseteq foreign \cup 1..Len(ops),
         untracked' \subseteq untracked, missed' \subseteq missed,
         aged' \subseteq unchecked', escalated' \subseteq unchecked', asking' \subseteq unchecked'
  PROVE  TakenOK'
<1>1. 1..Len(ops) \subseteq 1..Len(ops')
  OBVIOUS
<1>2. IsFiniteSet(unchecked) /\ unchecked' \in SUBSET unchecked
  <2>1. IsFiniteSet(1..Len(ops)) /\ unchecked \in SUBSET (1..Len(ops))
    BY FS_Interval DEF TakenOK
  <2>2. IsFiniteSet(unchecked)
    BY <2>1, FS_Subset
  <2> QED BY <2>2
<1>3. Cardinality(unchecked') <= MaxUnchecked
  <2>1. Cardinality(unchecked') <= Cardinality(unchecked) /\ IsFiniteSet(unchecked')
    BY <1>2, FS_Subset
  <2>2. Cardinality(unchecked') \in Nat /\ Cardinality(unchecked) \in Nat /\ MaxUnchecked \in Nat
    BY <1>2, <2>1, FS_CardinalityType, WatchAssumption
  <2> QED BY <2>1, <2>2 DEF TakenOK
<1> QED BY <1>1, <1>3 DEF TakenOK

\* Consume takes in what lies between the cursor and the pinned block, within the bound, and
\* counts the reverts among the nonces used since the last tick.
LEMMA ConsumeTyped ==
  ASSUME WatchTyped, Consume
  PROVE  TakenOK' /\ CountsOK'
<1> DEFINE N == Len(ops)
<1>1. /\ N \in Nat /\ N <= MaxOps /\ rd.upto \in Nat /\ rd.upto <= N
      /\ ops' = ops /\ opNonce' = N /\ agent' = agent /\ request' = request /\ faults' = faults
      /\ asking' = unchecked'
  BY WatchNumbers DEF WatchTyped, CountsOK, Consume, chainOps
<1>2. PICK from \in IF cursor = None THEN 0..rd.upto ELSE {Least(cursor, rd.upto)} :
        LET logs      == {i \in (from + 1)..rd.upto : ops[i] # "revert"}
            unseen    == IF cursor = None THEN 1..from ELSE {}
            successes == Cardinality(logs)
            reverts   == NotBelow0(N - opNonce - successes)
        IN  /\ Track({i \in logs : ops[i] \in {"agent", "forged"}} \ unchecked, unseen)
            /\ foreign' = foreign \cup {i \in logs : ops[i] = "alien"}
            /\ streak' = IF opNonce = None \/ N <= opNonce THEN streak
                         ELSE IF successes > 0 THEN reverts ELSE streak + reverts
  BY DEF Consume
<1> DEFINE logs == {i \in (from + 1)..rd.upto : ops[i] # "revert"}
           new  == {i \in logs : ops[i] \in {"agent", "forged"}} \ unchecked
           unseen == IF cursor = None THEN 1..from ELSE {}
<1>3. from \in Nat /\ from <= rd.upto
  BY <1>2, WatchNumbers DEF WatchTyped, WatchInv, ReadInv, Least, None
<1>4. logs \in SUBSET (1..N) /\ new \in SUBSET (1..N) /\ unseen \in SUBSET (1..N)
  BY <1>1, <1>3
<1>5. IsFiniteSet(1..N) /\ 1..N \subseteq Nat
  BY <1>1, FS_Interval
<1>6. Track(new, unseen) /\ foreign' = foreign \cup {i \in logs : ops[i] = "alien"}
  BY <1>2
<1>7. streak' = IF opNonce = None \/ N <= opNonce THEN streak
                ELSE IF Cardinality(logs) > 0 THEN NotBelow0(N - opNonce - Cardinality(logs))
                     ELSE streak + NotBelow0(N - opNonce - Cardinality(logs))
  BY <1>2
<1> HIDE DEF new, unseen
<1>8. Cardinality(logs) \in Nat
  BY <1>4, <1>5, FS_Subset, FS_CardinalityType
<1>9. CountsOK'
  <2> DEFINE c == Cardinality(logs)
  <2>1. /\ opNonce \in -1..N /\ streak \in Nat /\ streak <= (IF opNonce = -1 THEN 0 ELSE opNonce)
    BY DEF WatchTyped, CountsOK, None
  <2>2. c \in Nat
    BY <1>8
  <2> HIDE DEF c
  <2>3. streak' = IF opNonce = -1 \/ N <= opNonce THEN streak
                  ELSE IF c > 0 THEN NotBelow0(N - opNonce - c) ELSE streak + NotBelow0(N - opNonce - c)
    BY <1>7 DEF c, None
  <2>4. streak' \in Nat /\ streak' <= N
    BY <1>1, <2>1, <2>2, <2>3 DEF NotBelow0
  <2>5. N \in None..N /\ N # None
    BY <1>1 DEF None
  <2> QED BY <1>1, <2>4, <2>5 DEF WatchTyped, CountsOK
<1>10. TakenOK'
  <2>1. /\ unchecked \in SUBSET (1..N) /\ escalated \in SUBSET unchecked /\ aged \in SUBSET unchecked
        /\ Cardinality(unchecked) <= MaxUnchecked
        /\ foreign \subseteq 1..N /\ untracked \subseteq 1..N /\ missed \subseteq 1..N
    BY DEF WatchTyped, TakenOK
  <2>2. IsFiniteSet(unchecked) /\ IsFiniteSet(new)
    BY <1>4, <1>5, <2>1, FS_Subset
  <2>3. unchecked \in SUBSET Nat /\ new \in SUBSET Nat
    BY <1>4, <1>5, <2>1
  <2>4. Cardinality(unchecked') <= MaxUnchecked
    BY <1>6, <2>1, <2>2, <2>3, TrackBounds
  <2>5. PICK added \in SUBSET new, out \in SUBSET escalated :
          /\ unchecked' = (unchecked \ out) \cup added
          /\ aged' = aged \ out /\ escalated' = escalated \ out
          /\ untracked' = untracked \cup (new \ added)
          /\ missed' = missed \cup unseen \cup (new \ added)
    <3>1. \A n : Earliest(n, new) \in SUBSET new /\ Earliest(n, escalated) \in SUBSET escalated
      BY DEF Earliest
    <3> QED BY <1>6, <3>1 DEF Track
  <2>6. unchecked' \subseteq 1..N /\ aged' \subseteq unchecked' /\ escalated' \subseteq unchecked'
    BY <1>4, <2>1, <2>5
  <2>7. untracked' \subseteq 1..N /\ missed' \subseteq 1..N /\ foreign' \subseteq 1..N
    BY <1>4, <1>6, <2>1, <2>5
  <2> QED BY <1>1, <2>4, <2>6, <2>7 DEF TakenOK
<1> QED BY <1>9, <1>10

\* The steps that take nothing in.
LEMMA OthersTaken ==
  ASSUME WatchTyped, [WatchNext]_watchVars, ~Consume
  PROVE  TakenOK' /\ CountsOK'
<1> USE DEF WatchTyped
<1>1. Len(ops) \in Nat /\ DOMAIN ops = 1..Len(ops) /\ ops \in Seq(Kind)
  BY WatchNumbers DEF WatchInv, ChainInv
<1>2. ASSUME NEW k \in Kind, Mine(k) PROVE TakenOK' /\ CountsOK'
  <2>1. /\ Len(ops') = Len(ops) + 1 /\ Len(ops) < MaxOps
        /\ UNCHANGED <<agent, watchState, request, tick, faults, missed>>
    BY <1>1, <1>2 DEF Mine
  <2>2. CountsOK'
    <3>1. Len(ops) < MaxOps /\ MaxOps \in Nat
      BY <2>1, WatchAssumption
    <3> QED BY <1>1, <2>1, <3>1 DEF CountsOK, watchState, None
  <2>3. UNCHANGED <<foreign, unchecked, aged, escalated, untracked, missed, asking>>
    BY <2>1 DEF watchState, tick
  <2>4. Len(ops') \in Nat /\ Len(ops) <= Len(ops')
    BY <1>1, <2>1
  <2>5. /\ aged' \subseteq unchecked' /\ escalated' \subseteq unchecked'
        /\ asking' \subseteq unchecked' /\ foreign' \subseteq foreign \cup 1..Len(ops)
    BY <2>3 DEF TakenOK
  <2>6. TakenOK'
    BY <1>1, <2>3, <2>4, <2>5, TakenKept
  <2> QED BY <2>2, <2>6
<1>3. CASE Restart
  <2>1. /\ ops' = ops /\ missed' = missed /\ agent' = agent /\ request' = FALSE
        /\ faults < MaxWatchFaults /\ faults' = faults + 1 /\ opNonce' = None /\ streak' = 0
        /\ foreign' = {} /\ unchecked' = {} /\ aged' = {} /\ escalated' = {} /\ untracked' = {}
        /\ asking' = {}
    BY <1>3 DEF Restart, ForgetRun, EndTick, Fault, chainOps
  <2>2. CountsOK'
    <3>1. opNonce' \in None..Len(ops') /\ streak' <= (IF opNonce' = None THEN 0 ELSE opNonce')
      BY <1>1, <2>1 DEF None
    <3>2. faults' \in 0..MaxWatchFaults
      BY <2>1, WatchAssumption DEF CountsOK
    <3>3. agent' \in {"up", "hung", "down"} /\ request' \in BOOLEAN /\ streak' \in Nat
      BY <2>1 DEF CountsOK
    <3> QED BY <2>1, <3>1, <3>2, <3>3 DEF CountsOK
  <2>3. TakenOK'
    BY <1>1, <2>1, TakenKept
  <2> QED BY <2>2, <2>3
<1>4. CASE Answered
  <2>1. /\ asking' = asking \ {Asked} /\ unchecked' = unchecked \ {Asked}
        /\ aged' = aged \ {Asked} /\ escalated' = escalated \ {Asked}
        /\ foreign' = foreign \cup ({Asked} \cap {i \in Op : i <= Len(ops) /\ ops[i] = "forged"})
        /\ UNCHANGED <<chainOps, agent, cursor, opNonce, streak, untracked, request, faults, missed>>
    BY <1>4 DEF Answered
  <2>2. foreign' \subseteq foreign \cup 1..Len(ops)
    BY <1>1, <2>1, WatchAssumption DEF Op
  <2>3. aged' \subseteq unchecked' /\ escalated' \subseteq unchecked' /\ asking' \subseteq unchecked'
    BY <2>1 DEF TakenOK
  <2>4. TakenOK'
    BY <1>1, <2>1, <2>2, <2>3, TakenKept DEF chainOps
  <2> QED BY <2>1, <2>4 DEF CountsOK, chainOps
<1>5. CASE CloseTick
  <2>1. /\ UNCHANGED <<ops, agent, opNonce, streak, unchecked, aged, untracked, faults, missed>>
        /\ foreign' \subseteq foreign /\ (request' = FALSE \/ request' = request)
        /\ escalated' \subseteq escalated \cup unchecked /\ asking' = {}
    BY <1>5 DEF CloseTick, EndTick, chainOps
  <2>2. TakenOK'
    BY <1>1, <2>1, TakenKept DEF TakenOK
  <2> QED BY <2>1, <2>2 DEF CountsOK
<1>6. CASE Judge
  <2>1. /\ UNCHANGED <<ops, agent, opNonce, streak, unchecked, aged, escalated, foreign, faults, missed, request>>
        /\ untracked' \subseteq untracked /\ (asking' = {} \/ asking' = asking)
    BY <1>6 DEF Judge, EndTick, chainOps
  <2>2. TakenOK'
    BY <1>1, <2>1, TakenKept DEF TakenOK
  <2> QED BY <2>1, <2>2 DEF CountsOK
<1>7. CASE \/ OwnerUnpauses \/ (\E s \in {"hung", "down"} : AgentFails(s)) \/ RequestPause
           \/ UncheckedAge \/ LookFails \/ Unanswered \/ PauseLands \/ SendEnds \/ Look
           \/ UNCHANGED watchVars
  <2>1. /\ UNCHANGED <<ops, opNonce, streak, unchecked, escalated, foreign, untracked, missed>>
        /\ aged' \in {aged, unchecked} /\ (asking' = {} \/ asking' = asking)
    BY <1>7 DEF OwnerUnpauses, AgentFails, RequestPause, UncheckedAge, LookFails, Unanswered,
         PauseLands, SendEnds, Look, watchVars, chainOps, watchState, tick, EndTick
  <2>2. TakenOK'
    BY <1>1, <2>1, TakenKept DEF TakenOK
  <2>3. /\ agent' \in {agent, "hung", "down"} /\ (request' = request \/ request' = TRUE)
        /\ faults' = faults \/ (faults < MaxWatchFaults /\ faults' = faults + 1)
    BY <1>7 DEF OwnerUnpauses, AgentFails, RequestPause, UncheckedAge, LookFails, Unanswered,
         PauseLands, SendEnds, Look, watchVars, Fault
  <2>4. faults' \in 0..MaxWatchFaults
    BY <2>3, WatchAssumption DEF CountsOK
  <2>5. agent' \in {"up", "hung", "down"} /\ request' \in BOOLEAN
    BY <2>3 DEF CountsOK
  <2> QED BY <2>1, <2>2, <2>4, <2>5 DEF CountsOK
<1> QED BY <1>2, <1>3, <1>4, <1>5, <1>6, <1>7 DEF WatchNext, WatchStep

\* What a tick reads and plans.
LEMMA PlansTyped ==
  ASSUME WatchTyped, [WatchNext]_watchVars
  PROVE  PlanOK'
<1> USE DEF WatchTyped
<1>1. Len(ops) \in Nat /\ ops \in Seq(Kind) /\ plan \in Seq({"pause", "exitAll"})
  BY WatchNumbers DEF WatchInv, ChainInv, PlanOK
<1>2. Len(ops') \in Nat /\ Len(ops') >= Len(ops)
  <2>1. ASSUME NEW k \in Kind, Mine(k) PROVE Len(ops') = Len(ops) + 1
    BY <1>1, <2>1 DEF Mine
  <2>2. (~ \E k \in Kind : Mine(k)) => ops' = ops
    BY DEF WatchNext, WatchStep, OwnerUnpauses, AgentFails, RequestPause, UncheckedAge, LookFails,
           Unanswered, PauseLands, SendEnds, Look, watchVars, chainOps, Restart, Consume, Answered,
           Judge, CloseTick
  <2> QED BY <1>1, <2>1, <2>2
<1>3. 0..Len(ops) \subseteq 0..Len(ops')
  BY <1>1, <1>2
<1>4. CASE UNCHANGED <<rd, plan>>
  BY <1>3, <1>4 DEF PlanOK
<1>5. CASE EndTick
  <2>1. /\ 0 \in 0..Len(ops') /\ FALSE \in BOOLEAN /\ {} \in Sensed \cup {{}} /\ {} \in SUBSET Op
        /\ <<>> \in Seq({"pause", "exitAll"})
    BY <1>2
  <2> QED BY <1>5, <2>1 DEF EndTick, NoRead, PlanOK
<1>6. CASE Look
  <2>1. PICK up \in {agent = "up", FALSE}, s \in Sensed :
          rd' = [upto |-> Len(ops), paused |-> lanePaused, alive |-> up, signs |-> s, old |-> aged]
    BY <1>6 DEF Look
  <2>2. plan' = plan /\ ops' = ops
    BY <1>6 DEF Look, chainOps
  <2>3. aged \in SUBSET Op
    <3>1. aged \subseteq 1..Len(ops) /\ Len(ops) <= MaxOps
      BY DEF TakenOK, CountsOK
    <3> QED BY <1>1, <3>1, WatchAssumption DEF Op
  <2>4. lanePaused \in BOOLEAN /\ up \in BOOLEAN /\ Len(ops) \in 0..Len(ops')
    <3>1. (agent = "up") \in BOOLEAN /\ FALSE \in BOOLEAN
      OBVIOUS
    <3>2. up \in BOOLEAN
      BY <3>1, Zenon
    <3>3. Len(ops) \in 0..Len(ops')
      BY <1>1, <2>2
    <3> QED BY <3>2, <3>3 DEF WatchInv, ChainInv
  <2> QED BY <1>1, <2>1, <2>2, <2>3, <2>4 DEF PlanOK
<1>7. CASE rd' = rd /\ plan' = Planned
  <2>1. Planned \in Seq({"pause", "exitAll"})
    <3> DEFINE first == IF rd.paused THEN <<>> ELSE <<"pause">>
               then  == IF "positions" \in rd.signs /\ Triggers \cap Exiting # {} THEN <<"exitAll">> ELSE <<>>
    <3>1. first \in Seq({"pause", "exitAll"}) /\ then \in Seq({"pause", "exitAll"})
      <4>1. /\ <<>> \in Seq({"pause", "exitAll"}) /\ <<"pause">> \in Seq({"pause", "exitAll"})
            /\ <<"exitAll">> \in Seq({"pause", "exitAll"})
        OBVIOUS
      <4> QED BY <4>1, Zenon
    <3>2. Planned = first \o then
      BY DEF Planned
    <3> HIDE DEF first, then
    <3> QED BY <3>1, <3>2
  <2> QED BY <1>3, <1>7, <2>1 DEF PlanOK
<1>8. CASE rd' = rd /\ plan # <<>> /\ plan' = Tail(plan)
  <2>1. Tail(plan) \in Seq({"pause", "exitAll"})
    BY <1>1, <1>8
  <2> QED BY <1>3, <1>8, <2>1 DEF PlanOK
<1> QED
  BY <1>4, <1>5, <1>6, <1>7, <1>8
     DEF WatchNext, WatchStep, Mine, OwnerUnpauses, AgentFails, RequestPause, UncheckedAge, LookFails,
         Unanswered, PauseLands, SendEnds, watchVars, tick, Restart, Consume, Answered, Judge, CloseTick

\* Everything the watchdog keeps, keeps its type: above all it asks about at most MAX_UNCHECKED
\* actions, ages and escalates none but those, and counts no more reverts than there were.
THEOREM WatchIsTyped == WatchSpec => []WatchTypeOK
<1>1. WatchInit => WatchTyped
  <2> SUFFICES ASSUME WatchInit PROVE WatchTyped
    OBVIOUS
  <2>1. Len(ops) = 0
    BY DEF WatchInit
  <2>2. TakenOK
    BY <2>1, FS_EmptySet, WatchAssumption DEF WatchInit, TakenOK
  <2>3. CountsOK
    <3>1. MaxOps \in Nat /\ MaxWatchFaults \in Nat
      BY WatchAssumption
    <3>2. /\ opNonce \in None..Len(ops) /\ streak <= (IF opNonce = None THEN 0 ELSE opNonce)
          /\ Len(ops) <= MaxOps /\ faults \in 0..MaxWatchFaults /\ streak \in Nat
      BY <2>1, <3>1 DEF WatchInit, None
    <3>3. agent \in {"up", "hung", "down"} /\ request \in BOOLEAN
      BY DEF WatchInit
    <3> QED BY <3>2, <3>3 DEF CountsOK
  <2>4. PlanOK
    <3>1. /\ 0 \in 0..Len(ops) /\ FALSE \in BOOLEAN /\ {} \in Sensed \cup {{}} /\ {} \in SUBSET Op
          /\ <<>> \in Seq({"pause", "exitAll"})
      BY <2>1
    <3> QED BY <3>1 DEF WatchInit, NoRead, PlanOK
  <2> QED BY <2>2, <2>3, <2>4, InitWatch DEF WatchTyped
<1>2. WatchTyped /\ [WatchNext]_watchVars => WatchTyped'
  <2> SUFFICES ASSUME WatchTyped, [WatchNext]_watchVars PROVE WatchTyped'
    OBVIOUS
  <2>1. WatchInv'
    BY NextWatch DEF WatchTyped
  <2>2. TakenOK' /\ CountsOK'
    BY ConsumeTyped, OthersTaken
  <2> QED BY <2>1, <2>2, PlansTyped DEF WatchTyped
<1>3. WatchTyped => WatchTypeOK
  <2> SUFFICES ASSUME WatchTyped PROVE WatchTypeOK
    OBVIOUS
  <2>1. DOMAIN ops = 1..Len(ops) /\ Len(ops) \in Nat /\ MaxOps \in Nat
    BY WatchNumbers, WatchAssumption DEF WatchTyped
  <2>2. streak \in 0..MaxOps
    BY <2>1 DEF WatchTyped, CountsOK, None
  <2>3. /\ ops \in Seq(Kind) /\ lanePaused \in BOOLEAN /\ pausedWith \in 0..Len(ops)
        /\ cursor \in None..Len(ops) /\ wpc \in {"idle", "read", "ask", "send"} /\ landed \in BOOLEAN
    BY DEF WatchTyped, WatchInv, ChainInv, ReadInv
  <2>4. TakenOK /\ CountsOK /\ PlanOK
    BY DEF WatchTyped
  <2> QED BY <2>1, <2>2, <2>3, <2>4 DEF TakenOK, CountsOK, PlanOK, WatchTypeOK
<1> QED BY <1>1, <1>2, <1>3, PTL DEF WatchSpec

-----------------------------------------------------------------------------
(***************************************************************************)
(* Why a revocation sticks, and why an event that is not asked for again   *)
(* has had its effect: what the handlers keep across their awaits.         *)
(***************************************************************************)

Delegs ==
  [Wallet -> [status : {"none", "active", "revoked"}, by : 0..MaxEvents,
              bound : BOOLEAN, old : BOOLEAN, fresh : BOOLEAN]]
Handlings ==
  [Wallet -> [at : {"none", "probe", "decrypt", "notify"},
              saw : {"none", "active", "safe_mode", "revoked"}]]
Accounts == [status : {"none", "active", "safe_mode", "revoked"}, nonce : 0..MaxNonce]

\* The rows a handler does not own, and what the routes hold, are typed.
OthersTyped ==
  /\ account \in Accounts /\ owed \in BOOLEAN /\ restarts \in 0..MaxEvents
  /\ changing \in [at : {"none", "verify"}, nonce : 0..MaxNonce,
                   saw : {"none", "active", "safe_mode", "revoked"}]
  /\ joining \in {"none", "identity", "caps"}

\* What the first delivery of a wallet is while its handler awaits something: an event
\* of that wallet, a delegation up to the commit; and what has been committed before
\* the last await.
HandlerInv ==
  \A w \in Wallet :
    LET e == Head(deliveries[w])
    IN  /\ handling[w].at \in {"probe", "decrypt"} => issued[e].kind = "created"
        /\ handling[w].at = "notify" =>
             /\ issued[e].kind = "revoked" => e \in revocations
             /\ issued[e].kind = "created" => deleg[w].status # "none"

\* A wallet's queue holds events of that wallet, whose time is known since they arrived.
QueueInv ==
  \A w \in Wallet : \A i \in DOMAIN deliveries[w] :
    issued[deliveries[w][i]].wallet = w /\ eventAt[deliveries[w][i]] # 0

\* A revocation on record has a time, and a delegation in use a later one.
UseInv ==
  /\ \A r \in revocations : eventAt[r] # 0
  /\ \A w \in Wallet :
       LET b == deleg[w].by
       IN  deleg[w].status = "active" =>
             /\ b \in DOMAIN issued /\ issued[b].wallet = w /\ eventAt[b] # 0
             /\ \A r \in revocations : issued[r].wallet = w => eventAt[b] > eventAt[r]

\* The time of an event is unknown before it happens and, if the envelope carries it,
\* not after; and no event of its wallet that happened later has an earlier one.
TimesInv ==
  /\ \A e \in Event \ DOMAIN issued : eventAt[e] = 0
  /\ \A e \in DOMAIN issued : issued[e].stamped =>
       /\ eventAt[e] # 0
       /\ \A f \in DOMAIN issued :
            issued[f].wallet = issued[e].wallet /\ e <= f /\ eventAt[f] # 0 =>
              eventAt[e] <= eventAt[f]

\* A finished event: FinishedTookEffect without what follows from UseInv.
FinishedInv ==
  \A e \in DOMAIN issued :
    LET w == issued[e].wallet
    IN  /\ event[e] = "processed" /\ issued[e].kind = "revoked" => e \in revocations
        /\ event[e] = "processed" /\ issued[e].kind = "created" => deleg[w].status # "none"
        /\ event[e] = "ignored" => issued[e].kind = "created" /\ (RevokedSince(w, e) \/ w = "vault")

\* Nobody handles an event that has not happened.
KnownInv == \A e \in Event : event[e] # "none" => e \in DOMAIN issued

SessionInv ==
  /\ SessionTypeOK /\ UseInv /\ TimesInv /\ HandlerInv /\ QueueInv
  /\ FinishedInv /\ KnownInv

-----------------------------------------------------------------------------
\* A desk nobody has signed up for.
LEMMA InitSession == SessionInit => SessionInv
<1> SUFFICES ASSUME SessionInit PROVE SessionInv
  OBVIOUS
<1>1. SessionTypeOK
  <2>1. /\ issued \in Seq(Envelope) /\ Len(issued) <= MaxEvents
        /\ eventAt \in [Event -> 0..MaxEvents] /\ revocations \subseteq DOMAIN issued
    BY SessionAssumption DEF SessionInit
  <2>2. deliveries \in [Wallet -> Seq(DOMAIN issued)]
    BY DEF SessionInit
  <2>3. /\ \A w \in Wallet : handling[w] = Quiet
        /\ handling \in [Wallet -> [at : {"none", "probe", "decrypt", "notify"},
                                   saw : {"none", "active", "safe_mode", "revoked"}]]
    BY DEF SessionInit, Quiet
  <2>4. changing \in [at : {"none", "verify"}, nonce : 0..MaxNonce,
                      saw : {"none", "active", "safe_mode", "revoked"}]
    BY SessionAssumption DEF SessionInit, NoChange
  <2>5. deleg \in [Wallet -> [status : {"none", "active", "revoked"}, by : 0..MaxEvents,
                             bound : BOOLEAN, old : BOOLEAN, fresh : BOOLEAN]]
    BY SessionAssumption DEF SessionInit, NoDeleg
  <2>6. event \in [Event -> {"none", "received", "processed", "ignored", "failed"}]
    BY DEF SessionInit
  <2>7. account \in [status : {"none", "active", "safe_mode", "revoked"}, nonce : 0..MaxNonce]
    BY SessionAssumption DEF SessionInit
  <2>8. owed \in BOOLEAN /\ joining \in {"none", "identity", "caps"} /\ restarts \in 0..MaxEvents
    <3>1. restarts \in 0..MaxEvents
      BY SessionAssumption DEF SessionInit
    <3> QED BY <3>1 DEF SessionInit
  <2> QED
    BY <2>1, <2>2, <2>3, <2>4, <2>5, <2>6, <2>7, <2>8 DEF SessionTypeOK
<1>2. UseInv /\ TimesInv
  BY DEF SessionInit, UseInv, TimesInv, NoDeleg
<1>3. HandlerInv /\ QueueInv /\ FinishedInv /\ KnownInv
  BY DEF SessionInit, HandlerInv, QueueInv, FinishedInv, KnownInv, Quiet, NoDeleg
<1> QED BY <1>1, <1>2, <1>3 DEF SessionInv

\* An event is its place in the vendor's order.
LEMMA EventsTyped ==
  ASSUME SessionTypeOK
  PROVE  /\ DOMAIN issued \subseteq Event /\ DOMAIN issued \subseteq Nat
         /\ \A f \in DOMAIN issued : /\ issued[f].wallet \in Wallet
                                     /\ issued[f].kind \in {"created", "revoked"}
                                     /\ issued[f].stamped \in BOOLEAN
<1>1. Len(issued) \in Nat /\ Len(issued) <= MaxEvents /\ DOMAIN issued = 1..Len(issued)
  BY DEF SessionTypeOK
<1>2. \A f \in DOMAIN issued : issued[f] \in Envelope
  BY <1>1, ElementOfSeq DEF SessionTypeOK
<1>3. \A x \in Envelope : /\ x.wallet \in Wallet /\ x.kind \in {"created", "revoked"}
                          /\ x.stamped \in BOOLEAN
  BY DEF Envelope
<1> QED BY <1>1, <1>2, <1>3, SessionAssumption DEF Event

\* Times are numbers.
LEMMA TimesTyped ==
  ASSUME SessionTypeOK
  PROVE  \A f \in DOMAIN issued : eventAt[f] \in Nat /\ eventAt[f] >= 0
<1>1. \A f \in DOMAIN issued : eventAt[f] \in 0..MaxEvents
  BY EventsTyped DEF SessionTypeOK
<1> QED BY <1>1, SessionAssumption

\* The delivery a handler works on, in a wallet's own queue.
LEMMA AtWork ==
  ASSUME SessionInv, NEW w \in Wallet, deliveries[w] # <<>>
  PROVE  /\ Head(deliveries[w]) \in DOMAIN issued /\ Head(deliveries[w]) \in Event
         /\ issued[Head(deliveries[w])].wallet = w /\ eventAt[Head(deliveries[w])] # 0
         /\ Tail(deliveries[w]) \in Seq(DOMAIN issued)
         /\ \A i \in DOMAIN Tail(deliveries[w]) :
              issued[Tail(deliveries[w])[i]].wallet = w /\ eventAt[Tail(deliveries[w])[i]] # 0
<1>1. deliveries[w] \in Seq(DOMAIN issued)
  BY DEF SessionInv, SessionTypeOK
<1>2. DOMAIN issued \subseteq Event
  BY EventsTyped DEF SessionInv
<1>3. 1 \in DOMAIN deliveries[w] /\ Head(deliveries[w]) = deliveries[w][1]
      /\ Head(deliveries[w]) \in DOMAIN issued
  BY <1>1
<1>4. issued[Head(deliveries[w])].wallet = w /\ eventAt[Head(deliveries[w])] # 0
  BY <1>3 DEF SessionInv, QueueInv
<1>5. /\ Tail(deliveries[w]) \in Seq(DOMAIN issued)
      /\ \A i \in DOMAIN Tail(deliveries[w]) :
           i + 1 \in DOMAIN deliveries[w] /\ Tail(deliveries[w])[i] = deliveries[w][i + 1]
  <2>1. /\ Tail(deliveries[w]) \in Seq(DOMAIN issued)
        /\ Len(Tail(deliveries[w])) = Len(deliveries[w]) - 1
        /\ \A i \in 1..Len(Tail(deliveries[w])) : Tail(deliveries[w])[i] = deliveries[w][i + 1]
    BY <1>1, HeadTailProperties
  <2>2. /\ Len(deliveries[w]) \in Nat /\ DOMAIN deliveries[w] = 1..Len(deliveries[w])
        /\ DOMAIN Tail(deliveries[w]) = 1..Len(Tail(deliveries[w]))
    BY <1>1, <2>1, LenProperties
  <2> QED BY <2>1, <2>2
<1>6. \A i \in DOMAIN Tail(deliveries[w]) :
        issued[Tail(deliveries[w])[i]].wallet = w /\ eventAt[Tail(deliveries[w])[i]] # 0
  BY <1>5 DEF SessionInv, QueueInv
<1> QED BY <1>2, <1>3, <1>4, <1>5, <1>6

\* A handler that finishes its event with an effect in place keeps the invariant.
LEMMA FinishKeeps ==
  ASSUME SessionInv, NEW w \in Wallet, handling[w] # Quiet \/ deliveries[w] # <<>>,
         NEW to \in {"processed", "ignored", "failed"}, FinishEvent(w, to),
         LET e == Head(deliveries[w]) IN
           /\ to = "processed" /\ issued[e].kind = "revoked" => e \in revocations'
           /\ to = "processed" /\ issued[e].kind = "created" => deleg[w].status # "none"
           /\ to = "ignored" => issued[e].kind = "created" /\ (RevokedSince(w, e) \/ w = "vault"),
         revocations \subseteq revocations', revocations' \subseteq DOMAIN issued, UseInv',
         UNCHANGED <<issued, eventAt, deleg, account, owed, changing, joining, restarts>>
  PROVE  SessionInv'
<1>0. deliveries[w] # <<>>
  BY DEF SessionInv, SessionTypeOK
<1> DEFINE e == Head(deliveries[w])
<1>1. /\ e \in DOMAIN issued /\ e \in Event /\ issued[e].wallet = w
      /\ Tail(deliveries[w]) \in Seq(DOMAIN issued)
  BY <1>0, AtWork
<1>2. /\ event' = [event EXCEPT ![e] = to]
      /\ deliveries' = [deliveries EXCEPT ![w] = Tail(@)]
      /\ handling' = [handling EXCEPT ![w] = Quiet]
  BY DEF FinishEvent, Pop
<1> HIDE DEF e
<1>3. deliveries' \in [Wallet -> Seq(DOMAIN issued)] /\ deliveries'[w] = Tail(deliveries[w])
  BY <1>1, <1>2 DEF SessionInv, SessionTypeOK
<1>4. event' \in [Event -> {"none", "received", "processed", "ignored", "failed"}]
  BY <1>1, <1>2 DEF SessionInv, SessionTypeOK
<1>5. /\ handling' \in [Wallet -> [at : {"none", "probe", "decrypt", "notify"},
                                  saw : {"none", "active", "safe_mode", "revoked"}]]
      /\ \A v \in Wallet : handling'[v] # Quiet => v # w /\ handling[v] # Quiet
  BY <1>2 DEF SessionInv, SessionTypeOK, Quiet
<1>6. SessionTypeOK'
  BY <1>2, <1>3, <1>4, <1>5 DEF SessionInv, SessionTypeOK
<1>7. TimesInv'
  BY DEF SessionInv, TimesInv
<1>8. HandlerInv'
  <2> SUFFICES ASSUME NEW v \in Wallet, handling'[v].at # "none"
               PROVE  LET f == Head(deliveries[v])
                      IN  /\ handling[v].at \in {"probe", "decrypt"} => issued[f].kind = "created"
                          /\ handling[v].at = "notify" =>
                               /\ issued[f].kind = "revoked" => f \in revocations'
                               /\ issued[f].kind = "created" => deleg[v].status # "none"
                          /\ handling'[v] = handling[v] /\ deliveries'[v] = deliveries[v]
    BY DEF HandlerInv
  <2>1. v # w /\ deliveries[v] # <<>> /\ handling'[v] = handling[v] /\ deliveries'[v] = deliveries[v]
    BY <1>2, <1>5 DEF SessionInv, SessionTypeOK, Quiet
  <2>2. /\ handling[v].at \in {"probe", "decrypt"} => issued[Head(deliveries[v])].kind = "created"
        /\ handling[v].at = "notify" =>
             /\ issued[Head(deliveries[v])].kind = "revoked" => Head(deliveries[v]) \in revocations
             /\ issued[Head(deliveries[v])].kind = "created" => deleg[v].status # "none"
    BY DEF SessionInv, HandlerInv
  <2> QED BY <2>1, <2>2
<1>9. QueueInv'
  <2> SUFFICES ASSUME NEW v \in Wallet, NEW i \in DOMAIN deliveries'[v]
               PROVE  issued[deliveries'[v][i]].wallet = v /\ eventAt[deliveries'[v][i]] # 0
    BY DEF QueueInv
  <2>1. CASE v = w
    <3>1. \A j \in DOMAIN Tail(deliveries[w]) :
            issued[Tail(deliveries[w])[j]].wallet = w /\ eventAt[Tail(deliveries[w])[j]] # 0
      BY <1>0, AtWork
    <3> QED BY <1>3, <2>1, <3>1
  <2>2. CASE v # w
    BY <1>2, <2>2 DEF SessionInv, SessionTypeOK, QueueInv
  <2> QED BY <2>1, <2>2
<1>10. FinishedInv'
  <2> SUFFICES ASSUME NEW f \in DOMAIN issued
               PROVE  LET v == issued[f].wallet
                      IN  /\ event'[f] = "processed" /\ issued[f].kind = "revoked" => f \in revocations'
                          /\ event'[f] = "processed" /\ issued[f].kind = "created" => deleg[v].status # "none"
                          /\ event'[f] = "ignored" =>
                               issued[f].kind = "created" /\ (RevokedSince(v, f)' \/ v = "vault")
    BY DEF FinishedInv, RevokedSince
  <2>1. f \in Event /\ issued[f].wallet \in Wallet
    BY EventsTyped DEF SessionInv
  <2>2. \A v : RevokedSince(v, f) => RevokedSince(v, f)'
    BY DEF RevokedSince
  <2>3. CASE f = e
    <3>1. event'[f] = to
      BY <1>1, <1>2, <2>3 DEF SessionInv, SessionTypeOK
    <3>2. issued[f].wallet = w
      BY <1>1, <2>3
    <3> QED BY <2>2, <2>3, <3>1, <3>2 DEF e
  <2>4. CASE f # e
    <3>1. event'[f] = event[f]
      BY <1>2, <2>1, <2>4 DEF SessionInv, SessionTypeOK
    <3> QED BY <2>1, <2>2, <3>1 DEF SessionInv, FinishedInv
  <2> QED BY <2>3, <2>4
<1>11. KnownInv'
  BY <1>1, <1>2 DEF SessionInv, SessionTypeOK, KnownInv
<1> QED BY <1>6, <1>7, <1>8, <1>9, <1>10, <1>11 DEF SessionInv

\* What a handler may write before its next await: no row appears without an event newer
\* than the revocations, and no revocation is forgotten.
RowsMove ==
  /\ account' \in Accounts /\ deleg' \in Delegs
  /\ revocations \subseteq revocations' /\ revocations' \subseteq DOMAIN issued /\ UseInv'
  /\ \A v \in Wallet : deleg[v].status # "none" => deleg'[v].status # "none"

\* It stays with the delivery, whose effect is in place before the last await.
AwaitsNext(w) ==
  /\ UNCHANGED <<issued, eventAt, event, deliveries, owed, changing, joining, restarts>>
  /\ handling' \in Handlings /\ handling'[w].at # "none"
  /\ \A v \in Wallet : v # w => handling'[v] = handling[v]
  /\ LET e == Head(deliveries[w])
     IN  /\ handling'[w].at \in {"probe", "decrypt"} => issued[e].kind = "created"
         /\ handling'[w].at = "notify" => /\ issued[e].kind = "revoked" => e \in revocations'
                                          /\ issued[e].kind = "created" => deleg'[w].status # "none"

\* A handler going on to its next await preserves the invariant.
LEMMA AwaitKeeps ==
  ASSUME SessionInv, NEW w \in Wallet, deliveries[w] # <<>>, AwaitsNext(w), RowsMove
  PROVE  SessionInv'
<1> USE DEF AwaitsNext, RowsMove
<1>2. SessionTypeOK'
  <2>1. \A v \in Wallet : handling'[v] # Quiet => deliveries'[v] # <<>>
    BY ZenonT(40) DEF SessionInv, SessionTypeOK
  <2> QED BY <2>1 DEF SessionInv, SessionTypeOK, Handlings, Accounts, Delegs
<1>3. TimesInv' /\ QueueInv' /\ KnownInv'
  BY DEF SessionInv, TimesInv, QueueInv, KnownInv
<1>4. HandlerInv'
  <2> SUFFICES ASSUME NEW v \in Wallet
               PROVE  /\ handling'[v].at \in {"probe", "decrypt"} =>
                           issued[Head(deliveries[v])].kind = "created"
                      /\ handling'[v].at = "notify" =>
                           /\ issued[Head(deliveries[v])].kind = "revoked" =>
                                Head(deliveries[v]) \in revocations'
                           /\ issued[Head(deliveries[v])].kind = "created" => deleg'[v].status # "none"
    BY DEF HandlerInv
  <2>1. CASE v = w
    BY <2>1
  <2>2. CASE v # w
    BY <2>2 DEF SessionInv, HandlerInv
  <2> QED BY <2>1, <2>2
<1>5. FinishedInv'
  <2>1. \A v, f : RevokedSince(v, f) => RevokedSince(v, f)'
    BY DEF RevokedSince
  <2>2. \A f \in DOMAIN issued : issued[f].wallet \in Wallet
    BY EventsTyped DEF SessionInv
  <2> QED BY <2>1, <2>2 DEF SessionInv, FinishedInv
<1> QED BY <1>2, <1>3, <1>4, <1>5 DEF SessionInv

\* What routes, executor, purge and time do: they activate no delegation.
LEMMA RoutesKeep ==
  ASSUME SessionInv,
         UNCHANGED <<issued, eventAt, event, deliveries, handling, revocations>>,
         OthersTyped', deleg' \in Delegs,
         \A w \in Wallet :
           /\ deleg[w].status # "none" => deleg'[w].status # "none"
           /\ deleg'[w].status = "active" => deleg[w].status = "active" /\ deleg'[w].by = deleg[w].by
  PROVE  SessionInv'
<1>1. SessionTypeOK'
  BY DEF SessionInv, SessionTypeOK, OthersTyped, Delegs, Accounts
<1>2. UseInv'
  BY DEF SessionInv, UseInv
<1>3. TimesInv' /\ HandlerInv' /\ QueueInv' /\ KnownInv'
  BY DEF SessionInv, TimesInv, HandlerInv, QueueInv, KnownInv
<1>4. FinishedInv'
  BY EventsTyped DEF SessionInv, FinishedInv, RevokedSince
<1> QED BY <1>1, <1>2, <1>3, <1>4 DEF SessionInv
-----------------------------------------------------------------------------
\* Every step of the webhook on the delivery it handles.
LEMMA WebhookKeeps ==
  ASSUME SessionInv, NEW w \in Wallet,
         Created(w) \/ Probed(w) \/ Stored(w) \/ RevocationStored(w) \/ Notified(w)
  PROVE  SessionInv'
<1> DEFINE e == Head(deliveries[w])
<1>1. deliveries[w] # <<>>
  BY DEF SessionInv, SessionTypeOK, Created, Probed, Stored, RevocationStored, Notified, Turn, Quiet
<1>2. /\ e \in DOMAIN issued /\ e \in Event /\ e \in Nat /\ e \in 0..MaxEvents /\ e <= MaxEvents
      /\ issued[e].wallet = w /\ eventAt[e] # 0
      /\ issued[e].kind \in {"created", "revoked"}
  <2>1. e \in DOMAIN issued /\ e \in Event /\ issued[e].wallet = w /\ eventAt[e] # 0
    BY <1>1, AtWork
  <2> QED BY <2>1, EventsTyped, SessionAssumption DEF Event, SessionInv
<1>3. /\ account \in Accounts /\ deleg \in Delegs /\ revocations \subseteq DOMAIN issued
      /\ handling \in Handlings
  BY DEF SessionInv, SessionTypeOK, Accounts, Delegs, Handlings
<1>4. UseInv /\ (UNCHANGED <<issued, eventAt, revocations, deleg>> => UseInv')
  BY DEF SessionInv, UseInv
<1>6. handling[w].at \in {"probe", "decrypt"} => issued[e].kind = "created"
  BY DEF SessionInv, HandlerInv
<1> HIDE DEF e
<1>7. CASE Created(w)
  <2>1. /\ handling[w] = Quiet /\ issued[e].kind = "created"
        /\ UNCHANGED <<issued, eventAt, revocations, deleg, account, owed, changing, joining, restarts>>
    BY <1>7 DEF Created, Turn, e
  <2>2. CASE (RevokedSince(w, e) \/ (w = "vault" /\ Registered)) /\ FinishEvent(w, "ignored")
    BY <1>1, <1>3, <1>4, <2>1, <2>2, FinishKeeps DEF e
  <2>3. CASE /\ handling' = [handling EXCEPT ![w] = [at |-> "probe", saw |-> account.status]]
             /\ UNCHANGED <<event, deliveries>>
    <3>1. handling' \in Handlings /\ handling'[w].at = "probe"
          /\ \A v \in Wallet : v # w => handling'[v] = handling[v]
      BY <1>3, <2>3 DEF Accounts, Handlings
    <3>2. /\ revocations \subseteq revocations' /\ UseInv'
          /\ \A v \in Wallet : deleg[v].status # "none" => deleg'[v].status # "none"
      BY <1>4, <2>1
    <3>3. account' \in Accounts /\ deleg' \in Delegs /\ revocations' \subseteq DOMAIN issued
      BY <1>3, <2>1
    <3>4. /\ handling'[w].at \in {"probe", "decrypt"} => issued[e].kind = "created"
          /\ handling'[w].at = "notify" =>
               /\ issued[e].kind = "revoked" => e \in revocations'
               /\ issued[e].kind = "created" => deleg'[w].status # "none"
      BY <2>1, <3>1
    <3>5. UNCHANGED <<issued, eventAt, event, deliveries, owed, changing, joining, restarts>>
      BY <2>1, <2>3
    <3>6. AwaitsNext(w)
      BY <3>1, <3>4, <3>5 DEF AwaitsNext, e
    <3>7. RowsMove
      BY <3>2, <3>3 DEF RowsMove
    <3> QED BY <1>1, <3>6, <3>7, AwaitKeeps
  <2> QED BY <1>7, <2>2, <2>3 DEF Created, e
<1>8. CASE Probed(w)
  <2>1. /\ handling[w].at = "probe" /\ issued[e].kind = "created"
        /\ UNCHANGED <<issued, eventAt, revocations, deleg, account, owed, changing, joining, restarts>>
    BY <1>6, <1>8 DEF Probed
  <2>2. CASE w = "vault" /\ FinishEvent(w, "ignored")
    BY <1>1, <1>3, <1>4, <2>1, <2>2, FinishKeeps DEF e
  <2>3. CASE FinishEvent(w, "failed")
    BY <1>1, <1>3, <1>4, <2>1, <2>3, FinishKeeps DEF e
  <2>4. CASE /\ handling' = [handling EXCEPT ![w].at = "decrypt"]
             /\ UNCHANGED <<event, deliveries>>
    <3>1. handling' \in Handlings /\ handling'[w].at = "decrypt"
          /\ \A v \in Wallet : v # w => handling'[v] = handling[v]
      BY <1>3, <2>4 DEF Handlings
    <3>2. /\ revocations \subseteq revocations' /\ UseInv'
          /\ \A v \in Wallet : deleg[v].status # "none" => deleg'[v].status # "none"
      BY <1>4, <2>1
    <3>3. account' \in Accounts /\ deleg' \in Delegs /\ revocations' \subseteq DOMAIN issued
      BY <1>3, <2>1
    <3>5. /\ handling'[w].at \in {"probe", "decrypt"} => issued[e].kind = "created"
          /\ handling'[w].at = "notify" =>
               /\ issued[e].kind = "revoked" => e \in revocations'
               /\ issued[e].kind = "created" => deleg'[w].status # "none"
      BY <2>1, <3>1
    <3>6. UNCHANGED <<issued, eventAt, event, deliveries, owed, changing, joining, restarts>>
      BY <2>1, <2>4
    <3>7. AwaitsNext(w)
      BY <3>1, <3>5, <3>6 DEF AwaitsNext, e
    <3>8. RowsMove
      BY <3>2, <3>3 DEF RowsMove
    <3> QED BY <1>1, <3>7, <3>8, AwaitKeeps
  <2> QED BY <1>8, <2>2, <2>3, <2>4 DEF Probed
<1>9. CASE Stored(w)
  <2>1. /\ handling[w].at = "decrypt" /\ issued[e].kind = "created"
        /\ UNCHANGED <<issued, eventAt, revocations, owed, changing, joining, restarts>>
    BY <1>6, <1>9 DEF Stored
  <2> DEFINE lane == w = "operator" /\ handling[w].saw # "none"
  <2>2. CASE RevokedSince(w, e) /\ FinishEvent(w, "ignored") /\ UNCHANGED <<deleg, account>>
    BY <1>1, <1>3, <1>4, <2>1, <2>2, FinishKeeps DEF e
  <2>3. CASE FinishEvent(w, "failed") /\ UNCHANGED <<deleg, account>>
    BY <1>1, <1>3, <1>4, <2>1, <2>3, FinishKeeps DEF e
  <2>4. CASE /\ ~RevokedSince(w, e)
             /\ deleg' = Activated(w, e, lane)
             /\ account' = IF lane /\ handling[w].saw = "revoked"
                           THEN [account EXCEPT !.status = "active"] ELSE account
             /\ handling' = [handling EXCEPT ![w].at = "notify"]
             /\ UNCHANGED <<event, deliveries>>
    <3>1. handling' \in Handlings /\ handling'[w].at = "notify"
          /\ \A v \in Wallet : v # w => handling'[v] = handling[v]
      BY <1>3, <2>4 DEF Handlings
    <3>2. \A r \in revocations : issued[r].wallet = w => eventAt[e] > eventAt[r]
      <4>1. eventAt[e] \in Nat /\ \A r \in revocations : eventAt[r] \in Nat
        BY <1>2, <1>3, TimesTyped DEF SessionInv
      <4> QED BY <2>4, <4>1 DEF RevokedSince
    <3>3. /\ deleg' \in Delegs /\ deleg'[w].status = "active" /\ deleg'[w].by = e
          /\ \A v \in Wallet : v # w => deleg'[v] = deleg[v]
      <4> DEFINE b == deleg[w].bound \/ lane
      <4>1. b \in BOOLEAN
        OBVIOUS
      <4>2. deleg' = [deleg EXCEPT ![w] = [@ EXCEPT !.status = "active", !.by = e, !.fresh = TRUE,
                                                    !.bound = b]]
        BY <2>4 DEF Activated
      <4> HIDE DEF b
      <4>3. deleg \in Delegs /\ e \in 0..MaxEvents
        BY <1>2, <1>3
      <4>4. \A d \in [status : {"none", "active", "revoked"}, by : 0..MaxEvents,
                      bound : BOOLEAN, old : BOOLEAN, fresh : BOOLEAN] :
              LET n == [d EXCEPT !.status = "active", !.by = e, !.fresh = TRUE, !.bound = b]
              IN  /\ n \in [status : {"none", "active", "revoked"}, by : 0..MaxEvents,
                             bound : BOOLEAN, old : BOOLEAN, fresh : BOOLEAN]
                  /\ n.status = "active" /\ n.by = e
        BY <4>1, <4>3
      <4> QED BY <4>2, <4>3, <4>4 DEF Delegs
    <3>4. /\ revocations \subseteq revocations' /\ UseInv'
          /\ \A v \in Wallet : deleg[v].status # "none" => deleg'[v].status # "none"
      <4>1. \A v \in Wallet : deleg[v].status # "none" => deleg'[v].status # "none"
        BY <3>3
      <4>2. UseInv'
        BY <1>2, <1>4, <2>1, <3>2, <3>3 DEF UseInv
      <4> QED BY <2>1, <4>1, <4>2
    <3>5. account' \in Accounts /\ revocations' \subseteq DOMAIN issued
      BY <1>3, <2>1, <2>4 DEF Accounts
    <3>7. /\ handling'[w].at \in {"probe", "decrypt"} => issued[e].kind = "created"
          /\ handling'[w].at = "notify" =>
               /\ issued[e].kind = "revoked" => e \in revocations'
               /\ issued[e].kind = "created" => deleg'[w].status # "none"
      BY <2>1, <3>1, <3>3
    <3>8. UNCHANGED <<issued, eventAt, event, deliveries, owed, changing, joining, restarts>>
      BY <2>1, <2>4
    <3>9. AwaitsNext(w)
      BY <3>1, <3>7, <3>8 DEF AwaitsNext, e
    <3>10. RowsMove
      BY <3>3, <3>4, <3>5 DEF RowsMove
    <3> QED BY <1>1, <3>9, <3>10, AwaitKeeps
  <2> QED BY <1>9, <2>2, <2>3, <2>4 DEF Stored, e
<1>10. CASE RevocationStored(w)
  <2>1. /\ revocations' = revocations \cup {e}
        /\ issued[e].kind = "revoked"
        /\ UNCHANGED <<issued, eventAt, owed, changing, joining, restarts>>
    BY <1>10 DEF RevocationStored, Turn, e
  <2>2. /\ revocations \subseteq revocations' /\ revocations' \subseteq DOMAIN issued
        /\ e \in revocations' /\ \A r \in revocations' : eventAt[r] # 0
    BY <1>2, <1>3, <1>4, <2>1 DEF UseInv
  <2>5. ASSUME \A v \in Wallet : deleg'[v].status = "active" =>
                 v # w /\ deleg[v].status = "active" /\ deleg'[v].by = deleg[v].by
        PROVE  UseInv'
    BY <1>2, <1>4, <2>1, <2>2, <2>5 DEF UseInv
  <2>3. CASE deleg[w].status = "none" /\ FinishEvent(w, "processed") /\ UNCHANGED <<deleg, account>>
    <3>1. UseInv'
      BY <2>3, <2>5
    <3> QED BY <1>1, <2>1, <2>2, <2>3, <3>1, FinishKeeps DEF e
  <2>4. CASE /\ deleg[w].status # "none"
             /\ deleg' = RevokeRow(w)
             /\ account' = IF w = "operator" /\ Registered
                           THEN [account EXCEPT !.status = "revoked"] ELSE account
             /\ handling' = [handling EXCEPT ![w] = [at |-> "notify", saw |-> "none"]]
             /\ UNCHANGED <<event, deliveries>>
    <3>1. /\ deleg' \in Delegs /\ deleg'[w].status \notin {"active", "none"}
          /\ \A v \in Wallet : v # w => deleg'[v] = deleg[v]
      BY <1>3, <2>4 DEF RevokeRow, Delegs
    <3>2. account' \in Accounts
      BY <1>3, <2>4 DEF Accounts
    <3>3. UseInv' /\ \A v \in Wallet : deleg[v].status # "none" => deleg'[v].status # "none"
      BY <2>5, <3>1
    <3>4. handling' \in Handlings /\ handling'[w].at = "notify"
          /\ \A v \in Wallet : v # w => handling'[v] = handling[v]
      BY <1>3, <2>4 DEF Handlings
    <3>5. AwaitsNext(w)
      BY <2>1, <2>2, <2>4, <3>4 DEF AwaitsNext, e
    <3>6. RowsMove
      BY <2>2, <3>1, <3>2, <3>3 DEF RowsMove
    <3> QED BY <1>1, <3>5, <3>6, AwaitKeeps
  <2> QED BY <1>10, <2>3, <2>4 DEF RevocationStored
<1>11. CASE Notified(w)
  <2>1. /\ FinishEvent(w, "processed") /\ handling[w].at = "notify"
        /\ UNCHANGED <<issued, eventAt, revocations, deleg, account, owed, changing, joining, restarts>>
    BY <1>11 DEF Notified
  <2>2. /\ issued[e].kind = "revoked" => e \in revocations
        /\ issued[e].kind = "created" => deleg[w].status # "none"
    BY <2>1 DEF SessionInv, HandlerInv, e
  <2> QED BY <1>1, <1>3, <1>4, <2>1, <2>2, FinishKeeps DEF e
<1> QED BY <1>7, <1>8, <1>9, <1>10, <1>11

\* The clock shows a time, and none before one that was noted for an event of the wallet.
LEMMA NowIsLate ==
  ASSUME NEW w \in Wallet, NEW t \in Now(w)
  PROVE  /\ t \in Event
         /\ \A e \in DOMAIN issued : issued[e].wallet = w => eventAt[e] <= t
BY DEF Now

\* The time of an event is noted once, while nothing went by it yet.
LEMMA NotingKeeps ==
  ASSUME SessionInv, NEW d \in Event, NEW t \in Event,
         \/ UNCHANGED eventAt
         \/ eventAt[d] = 0 /\ eventAt' = [eventAt EXCEPT ![d] = t],
         \A e \in DOMAIN issued : e \in DOMAIN issued' /\ issued'[e] = issued[e],
         UNCHANGED <<deleg, revocations>>
  PROVE  /\ eventAt' \in [Event -> 0..MaxEvents]
         /\ \A e \in Event : eventAt[e] # 0 \/ e # d => eventAt'[e] = eventAt[e]
         /\ UseInv'
         /\ \A v, e : e \in DOMAIN issued /\ (e # d \/ UNCHANGED eventAt) /\ RevokedSince(v, e) =>
                       RevokedSince(v, e)'
<1>1. eventAt \in [Event -> 0..MaxEvents] /\ t \in 0..MaxEvents
  BY SessionAssumption DEF SessionInv, SessionTypeOK, Event
<1>2. /\ eventAt' \in [Event -> 0..MaxEvents]
      /\ \A e \in Event : eventAt[e] # 0 \/ e # d => eventAt'[e] = eventAt[e]
  BY <1>1
<1>3. DOMAIN issued \subseteq Event /\ revocations \subseteq DOMAIN issued
  BY EventsTyped DEF SessionInv, SessionTypeOK
<1>4. \A r \in revocations : r \in Event /\ eventAt[r] # 0 /\ eventAt'[r] = eventAt[r]
                              /\ issued'[r] = issued[r]
  BY <1>2, <1>3 DEF SessionInv, UseInv
<1>5. UseInv'
  BY <1>2, <1>3, <1>4 DEF SessionInv, UseInv
<1>6. ASSUME NEW v, NEW e \in DOMAIN issued, e # d \/ UNCHANGED eventAt, RevokedSince(v, e)
      PROVE  RevokedSince(v, e)'
  <2>1. eventAt'[e] = eventAt[e]
    BY <1>2, <1>3, <1>6
  <2> QED BY <1>4, <1>6, <2>1 DEF RevokedSince
<1> QED BY <1>2, <1>5, <1>6

\* A new event of the vendor's is known to nobody yet.
LEMMA IssueKeeps ==
  ASSUME SessionInv, NEW w \in Wallet, Issue(w)
  PROVE  SessionInv'
<1> DEFINE n == Len(issued) + 1
<1>1. PICK x \in Envelope :
        /\ issued' = Append(issued, x) /\ x.wallet = w
        /\ IF x.stamped THEN \E t \in Now(w) : eventAt' = [eventAt EXCEPT ![n] = t]
                        ELSE UNCHANGED eventAt
  BY DEF Issue, Envelope
<1>2. /\ issued \in Seq(Envelope)
      /\ Len(issued) < MaxEvents /\ Len(issued) \in Nat
  <2>1. issued \in Seq(Envelope) /\ restarts \in 0..MaxEvents
    BY DEF SessionInv, SessionTypeOK
  <2>2. Len(issued) \in Nat
    BY <2>1
  <2> QED BY <2>1, <2>2, SessionAssumption DEF Issue
<1>3. /\ issued' \in Seq(Envelope)
      /\ Len(issued') = Len(issued) + 1 /\ Len(issued') <= MaxEvents
      /\ DOMAIN issued' = 1..(Len(issued) + 1) /\ DOMAIN issued \subseteq DOMAIN issued'
      /\ DOMAIN issued = 1..Len(issued)
      /\ \A f \in DOMAIN issued : issued'[f] = issued[f]
      /\ issued'[n] = x
  BY <1>1, <1>2, SessionAssumption
<1>new. /\ n \in Event /\ n \notin DOMAIN issued /\ DOMAIN issued' = DOMAIN issued \cup {n}
        /\ \A f \in DOMAIN issued : f \in Nat /\ f < n
        /\ eventAt[n] = 0
  <2>1. n \in Event /\ n \notin DOMAIN issued /\ DOMAIN issued' = DOMAIN issued \cup {n}
        /\ \A f \in DOMAIN issued : f \in Nat /\ f < n
    BY <1>2, <1>3, SessionAssumption DEF Event
  <2> QED BY <2>1 DEF SessionInv, TimesInv
<1> HIDE DEF n
<1>time. \E t \in Event :
        /\ eventAt' = [eventAt EXCEPT ![n] = t] \/ (~x.stamped /\ UNCHANGED eventAt)
        /\ \A e \in DOMAIN issued : issued[e].wallet = w => eventAt[e] <= t
  <2>1. CASE x.stamped
    BY <1>1, <2>1, NowIsLate
  <2>2. CASE ~x.stamped
    <3>1. MaxEvents \in Event /\ \A e \in DOMAIN issued : eventAt[e] <= MaxEvents
      <4>1. \A e \in DOMAIN issued : eventAt[e] \in 0..MaxEvents
        BY EventsTyped DEF SessionInv, SessionTypeOK
      <4>2. MaxEvents \in 1..MaxEvents
        BY <1>new, SessionAssumption DEF Event
      <4> QED BY <4>1, <4>2, SessionAssumption DEF Event
    <3> QED BY <1>1, <2>2, <3>1
  <2> QED BY <2>1, <2>2
<1>picked. PICK t \in Event :
        /\ eventAt' = [eventAt EXCEPT ![n] = t] \/ (~x.stamped /\ UNCHANGED eventAt)
        /\ \A e \in DOMAIN issued : issued[e].wallet = w => eventAt[e] <= t
  BY <1>time
<1>kept. /\ eventAt' \in [Event -> 0..MaxEvents]
         /\ \A e \in Event : eventAt[e] # 0 \/ e # n => eventAt'[e] = eventAt[e]
         /\ UseInv'
         /\ \A v, e : e \in DOMAIN issued /\ (e # n \/ UNCHANGED eventAt) /\ RevokedSince(v, e) =>
                       RevokedSince(v, e)'
  BY <1>3, <1>new, <1>picked, NotingKeeps DEF Issue
<1>4. deliveries' = deliveries /\ deliveries \in [Wallet -> Seq(DOMAIN issued)]
      /\ deliveries \in [Wallet -> Seq(DOMAIN issued')]
  BY <1>3 DEF SessionInv, SessionTypeOK, Issue
<1>5. SessionTypeOK'
  BY <1>3, <1>4, <1>kept DEF SessionInv, SessionTypeOK, Issue
<1>6. TimesInv'
  <2>1. \A e \in Event \ DOMAIN issued' : eventAt'[e] = 0
    BY <1>new, <1>kept DEF SessionInv, TimesInv
  <2>2. \A e \in DOMAIN issued : e # n /\ e \in Event /\ eventAt'[e] = eventAt[e]
    BY <1>new, <1>kept, EventsTyped DEF SessionInv
  <2>3. x.stamped => eventAt'[n] = t /\ t # 0 /\ t \in Nat
    BY <1>new, <1>picked, SessionAssumption DEF SessionInv, SessionTypeOK, Event
  <2>4. eventAt'[n] \in {0, t}
    BY <1>new, <1>picked DEF SessionInv, SessionTypeOK
  <2>5. \A e \in DOMAIN issued' : issued'[e].stamped => eventAt'[e] # 0
    BY <1>3, <1>new, <2>2, <2>3 DEF SessionInv, TimesInv
  <2>6. ASSUME NEW e \in DOMAIN issued', issued'[e].stamped, NEW f \in DOMAIN issued',
               issued'[f].wallet = issued'[e].wallet, e <= f, eventAt'[f] # 0
        PROVE  eventAt'[e] <= eventAt'[f]
    <3>1. CASE e = n
      <4>1. f = n
        BY <1>new, <2>6, <3>1, SessionAssumption DEF Event
      <4> QED BY <1>3, <2>3, <2>6, <3>1, <4>1
    <3>2. CASE e # n /\ f = n
      BY <1>1, <1>3, <1>new, <1>picked, <2>2, <2>4, <2>6, <3>2
    <3>3. CASE e # n /\ f # n
      BY <1>3, <1>new, <2>2, <2>6, <3>3 DEF SessionInv, TimesInv
    <3> QED BY <3>1, <3>2, <3>3
  <2> QED BY <2>1, <2>5, <2>6 DEF TimesInv
<1>7. HandlerInv'
  <2> SUFFICES ASSUME NEW v \in Wallet, handling[v] # Quiet
               PROVE  issued'[Head(deliveries[v])] = issued[Head(deliveries[v])]
    <3>1. \A v \in Wallet : handling[v] = Quiet => handling[v].at = "none"
      BY DEF Quiet
    <3> QED BY <3>1, ZenonT(40) DEF SessionInv, HandlerInv, Issue
  <2>1. Head(deliveries[v]) \in DOMAIN issued
    BY AtWork DEF SessionInv, SessionTypeOK
  <2> QED BY <1>3, <2>1
<1>8. QueueInv'
  <2> SUFFICES ASSUME NEW v \in Wallet, NEW i \in DOMAIN deliveries[v]
               PROVE  issued'[deliveries[v][i]].wallet = v /\ eventAt'[deliveries[v][i]] # 0
    BY <1>4 DEF QueueInv
  <2>1. deliveries[v][i] \in DOMAIN issued
    BY <1>4
  <2>2. issued[deliveries[v][i]].wallet = v /\ eventAt[deliveries[v][i]] # 0
    BY DEF SessionInv, QueueInv
  <2>3. eventAt'[deliveries[v][i]] = eventAt[deliveries[v][i]]
    BY <1>kept, <2>1, <2>2, EventsTyped DEF SessionInv
  <2> QED BY <1>3, <2>1, <2>2, <2>3
<1>9. FinishedInv'
  <2>1. event' = event /\ UNCHANGED <<revocations, deleg>>
    BY DEF Issue
  <2>2. DOMAIN issued' \subseteq Event
    BY <1>3, SessionAssumption DEF Event
  <2>3. \A f \in DOMAIN issued' : f \notin DOMAIN issued => event[f] = "none"
    BY <2>2 DEF SessionInv, KnownInv
  <2>4. \A e \in DOMAIN issued : \A v : RevokedSince(v, e) => RevokedSince(v, e)'
    BY <1>new, <1>kept
  <2> QED BY <1>3, <2>1, <2>3, <2>4 DEF SessionInv, FinishedInv
<1>10. KnownInv'
  BY <1>3 DEF SessionInv, KnownInv, Issue
<1> QED BY <1>5, <1>6, <1>7, <1>8, <1>9, <1>10, <1>kept DEF SessionInv

\* A delivery waits behind the others of its wallet.
LEMMA DeliverKeeps ==
  ASSUME SessionInv, NEW d \in Event, Deliver(d)
  PROVE  SessionInv'
<1> DEFINE w == issued[d].wallet
<1>1. /\ d \in DOMAIN issued /\ w \in Wallet /\ event[d] \notin {"processed", "ignored"}
      /\ event' = [event EXCEPT ![d] = "received"]
      /\ deliveries' = [deliveries EXCEPT ![w] = Append(@, d)]
      /\ UNCHANGED <<issued, handling, revocations, deleg, account, owed, changing, joining, restarts>>
  BY EventsTyped DEF SessionInv, Deliver
<1>time. IF eventAt[d] = 0 THEN \E t \in Now(w) : eventAt' = [eventAt EXCEPT ![d] = t]
                        ELSE UNCHANGED eventAt
  BY DEF Deliver
<1>own. issued[d].wallet = w
  OBVIOUS
<1> HIDE DEF w
<1>picked. PICK t \in Event :
        /\ IF eventAt[d] = 0 THEN eventAt' = [eventAt EXCEPT ![d] = t] ELSE UNCHANGED eventAt
        /\ eventAt[d] = 0 => \A e \in DOMAIN issued : issued[e].wallet = w => eventAt[e] <= t
  BY <1>1, <1>time, NowIsLate
<1>kept. /\ eventAt' \in [Event -> 0..MaxEvents]
         /\ \A e \in Event : eventAt[e] # 0 \/ e # d => eventAt'[e] = eventAt[e]
         /\ UseInv'
         /\ \A v, e : e \in DOMAIN issued /\ (e # d \/ UNCHANGED eventAt) /\ RevokedSince(v, e) =>
                       RevokedSince(v, e)'
  BY <1>1, <1>picked, NotingKeeps
<1>noted. eventAt'[d] # 0 /\ (eventAt[d] = 0 => eventAt'[d] = t) /\ t \in Nat
  BY <1>picked, SessionAssumption DEF SessionInv, SessionTypeOK, Event
<1>2. /\ deliveries[w] \in Seq(DOMAIN issued)
      /\ deliveries'[w] = Append(deliveries[w], d)
      /\ \A v \in Wallet : v # w => deliveries'[v] = deliveries[v]
  BY <1>1 DEF SessionInv, SessionTypeOK
<1>3. /\ deliveries'[w] \in Seq(DOMAIN issued) /\ deliveries'[w] # <<>>
      /\ DOMAIN deliveries[w] \subseteq DOMAIN deliveries'[w]
      /\ \A i \in DOMAIN deliveries[w] : deliveries'[w][i] = deliveries[w][i]
      /\ \A i \in DOMAIN deliveries'[w] : i \in DOMAIN deliveries[w] \/ deliveries'[w][i] = d
      /\ deliveries[w] # <<>> => Head(deliveries'[w]) = Head(deliveries[w])
  <2> DEFINE q == deliveries[w]
  <2>1. q \in Seq(DOMAIN issued) /\ d \in DOMAIN issued /\ deliveries'[w] = Append(q, d)
    BY <1>1, <1>2
  <2> HIDE DEF q
  <2>2. /\ Append(q, d) \in Seq(DOMAIN issued) /\ Append(q, d) # <<>>
        /\ Len(Append(q, d)) = Len(q) + 1 /\ Len(q) \in Nat
        /\ \A i \in 1..Len(q) : Append(q, d)[i] = q[i]
        /\ Append(q, d)[Len(q) + 1] = d
        /\ DOMAIN q = 1..Len(q) /\ DOMAIN Append(q, d) = 1..(Len(q) + 1)
    BY <2>1
  <2>3. q # <<>> => Head(Append(q, d)) = Head(q)
    BY <2>1
  <2> QED BY <2>1, <2>2, <2>3 DEF q
<1>4. SessionTypeOK'
  <2>1. event' \in [Event -> {"none", "received", "processed", "ignored", "failed"}]
    BY <1>1 DEF SessionInv, SessionTypeOK
  <2>2. deliveries' \in [Wallet -> Seq(DOMAIN issued)]
    BY <1>1, <1>3 DEF SessionInv, SessionTypeOK
  <2>3. \A v \in Wallet : handling[v] # Quiet => deliveries'[v] # <<>>
    BY <1>2, <1>3, ZenonT(40) DEF SessionInv, SessionTypeOK
  <2> QED BY <1>1, <1>kept, <2>1, <2>2, <2>3 DEF SessionInv, SessionTypeOK
<1>5. TimesInv'
  <2>1. issued' = issued /\ DOMAIN issued \subseteq Event
    BY <1>1, EventsTyped DEF SessionInv
  <2>2. \A e \in Event \ DOMAIN issued : eventAt'[e] = 0
    BY <1>1, <1>kept DEF SessionInv, TimesInv
  <2>3. \A e \in DOMAIN issued : issued[e].stamped => eventAt[e] # 0 /\ eventAt'[e] = eventAt[e]
    BY <1>kept, <2>1 DEF SessionInv, TimesInv
  <2>4. ASSUME NEW e \in DOMAIN issued, issued[e].stamped, NEW f \in DOMAIN issued,
               issued[f].wallet = issued[e].wallet, e <= f, eventAt'[f] # 0
        PROVE  eventAt'[e] <= eventAt'[f]
    <3>1. CASE eventAt[f] # 0
      BY <1>kept, <2>1, <2>3, <2>4, <3>1 DEF SessionInv, TimesInv
    <3>2. CASE eventAt[f] = 0
      <4>1. f = d
        BY <1>kept, <2>1, <2>4, <3>2
      <4> QED BY <1>noted, <1>picked, <1>own, <2>3, <2>4, <3>2, <4>1
    <3> QED BY <3>1, <3>2
  <2> QED BY <2>1, <2>2, <2>3, <2>4 DEF TimesInv
<1>6. HandlerInv'
  <2> SUFFICES ASSUME NEW v \in Wallet, handling[v] # Quiet
               PROVE  Head(deliveries'[v]) = Head(deliveries[v])
    BY <1>1 DEF SessionInv, HandlerInv, Quiet
  <2> QED BY <1>2, <1>3 DEF SessionInv, SessionTypeOK
<1>7. QueueInv'
  <2> SUFFICES ASSUME NEW v \in Wallet, NEW i \in DOMAIN deliveries'[v]
               PROVE  issued[deliveries'[v][i]].wallet = v /\ eventAt'[deliveries'[v][i]] # 0
    BY <1>1 DEF QueueInv
  <2>1. \A j \in DOMAIN deliveries[v] :
          issued[deliveries[v][j]].wallet = v /\ eventAt'[deliveries[v][j]] # 0
    <3>1. \A j \in DOMAIN deliveries[v] :
            issued[deliveries[v][j]].wallet = v /\ eventAt[deliveries[v][j]] # 0
      BY DEF SessionInv, QueueInv
    <3>2. \A j \in DOMAIN deliveries[v] : deliveries[v][j] \in Event
      BY EventsTyped DEF SessionInv, SessionTypeOK
    <3> QED BY <1>kept, <3>1, <3>2
  <2>2. CASE v = w
    BY <1>3, <1>noted, <1>own, <2>1, <2>2
  <2> QED BY <1>2, <2>1, <2>2
<1>8. FinishedInv' /\ KnownInv'
  <2>1. \A f \in Event : event'[f] = IF f = d THEN "received" ELSE event[f]
    BY <1>1 DEF SessionInv, SessionTypeOK
  <2>2. DOMAIN issued \subseteq Event
    BY EventsTyped DEF SessionInv
  <2>3. KnownInv'
    BY <1>1, <2>1 DEF SessionInv, KnownInv
  <2>4. \A e \in DOMAIN issued \ {d} : \A v : RevokedSince(v, e) => RevokedSince(v, e)'
    BY <1>kept
  <2>5. FinishedInv'
    BY <1>1, <2>1, <2>2, <2>4 DEF SessionInv, FinishedInv
  <2> QED BY <2>3, <2>5
<1> QED BY <1>4, <1>5, <1>6, <1>7, <1>8, <1>kept DEF SessionInv

\* A crash forgets what was being handled and nothing that was committed.
LEMMA CrashKeeps ==
  ASSUME SessionInv, SessionCrash
  PROVE  SessionInv'
<1>1. SessionTypeOK'
  <2>1. restarts' \in 0..MaxEvents
    <3>1. restarts \in Nat /\ Len(issued) \in Nat
      BY SessionAssumption DEF SessionInv, SessionTypeOK
    <3> QED BY <3>1, SessionAssumption DEF SessionCrash
  <2>2. deliveries' \in [Wallet -> Seq(DOMAIN issued)]
    BY DEF SessionCrash
  <2>3. /\ \A v \in Wallet : handling'[v] = Quiet
        /\ handling' \in [Wallet -> [at : {"none", "probe", "decrypt", "notify"},
                                     saw : {"none", "active", "safe_mode", "revoked"}]]
    BY DEF SessionCrash, Quiet
  <2>4. changing' \in [at : {"none", "verify"}, nonce : 0..MaxNonce,
                       saw : {"none", "active", "safe_mode", "revoked"}]
    BY SessionAssumption DEF SessionCrash, NoChange
  <2> QED BY <2>1, <2>2, <2>3, <2>4 DEF SessionInv, SessionTypeOK, SessionCrash
<1>2. UseInv' /\ TimesInv' /\ FinishedInv' /\ KnownInv'
  BY DEF SessionInv, SessionCrash, UseInv, TimesInv, FinishedInv, KnownInv, RevokedSince
<1>3. HandlerInv' /\ QueueInv'
  BY DEF SessionCrash, HandlerInv, QueueInv, Quiet
<1> QED BY <1>1, <1>2, <1>3 DEF SessionInv

\* The registration and mode routes, the executor, the purge and time.
LEMMA OtherStepsKeep ==
  ASSUME SessionInv,
         \/ Join \/ JoinChecked \/ Joined
         \/ (\E n \in 1..MaxNonce : ChangeMode(n)) \/ ModeVerified
         \/ EnterSafeMode \/ SignerRevoked \/ Purge \/ \E w \in Wallet : Age(w)
         \/ UNCHANGED sessionVars
  PROVE  SessionInv'
<1>1. OthersTyped /\ deleg \in Delegs
  BY DEF SessionInv, SessionTypeOK, OthersTyped, Accounts, Delegs
<1>2. CASE Join
  BY <1>1, <1>2, RoutesKeep DEF Join, OthersTyped
<1>3. CASE JoinChecked
  BY <1>1, <1>3, RoutesKeep DEF JoinChecked, OthersTyped
<1>4. CASE Joined
  <2>1. OthersTyped'
    BY <1>1, <1>4 DEF Joined, OthersTyped, Accounts
  <2>2. /\ deleg' \in Delegs
        /\ \A w \in Wallet :
             /\ deleg[w].status # "none" => deleg'[w].status # "none"
             /\ deleg'[w].status = "active" => deleg[w].status = "active" /\ deleg'[w].by = deleg[w].by
    BY <1>1, <1>4 DEF Joined, RevokeRow, Delegs, Wallet
  <2> QED BY <1>4, <2>1, <2>2, RoutesKeep DEF Joined
<1>5. CASE \E n \in 1..MaxNonce : ChangeMode(n)
  <2>1. OthersTyped'
    BY <1>1, <1>5, SessionAssumption DEF ChangeMode, OthersTyped, Accounts
  <2> QED BY <1>1, <1>5, <2>1, RoutesKeep DEF ChangeMode
<1>6. CASE ModeVerified
  <2>1. OthersTyped'
    <3>1. NoChange \in [at : {"none", "verify"}, nonce : 0..MaxNonce,
                        saw : {"none", "active", "safe_mode", "revoked"}]
      BY SessionAssumption DEF NoChange
    <3>2. account' \in Accounts /\ owed' \in BOOLEAN
      <4>1. CASE UNCHANGED <<account, owed>>
        BY <1>1, <4>1 DEF OthersTyped
      <4>2. CASE /\ account' = [nonce  |-> changing.nonce,
                                status |-> IF changing.saw = "safe_mode" THEN "active"
                                           ELSE account.status]
                 /\ owed' = FALSE
        <5>1. changing.nonce \in 0..MaxNonce
              /\ account.status \in {"none", "active", "safe_mode", "revoked"}
          BY <1>1 DEF OthersTyped, Accounts
        <5> QED BY <4>2, <5>1 DEF Accounts
      <4> QED BY <1>6, <4>1, <4>2 DEF ModeVerified
    <3> QED BY <1>1, <1>6, <3>1, <3>2 DEF ModeVerified, OthersTyped
  <2> QED BY <1>1, <1>6, <2>1, RoutesKeep DEF ModeVerified
<1>7. CASE EnterSafeMode
  <2>1. OthersTyped'
    BY <1>1, <1>7 DEF EnterSafeMode, OthersTyped, Accounts
  <2> QED BY <1>1, <1>7, <2>1, RoutesKeep DEF EnterSafeMode
<1>8. CASE SignerRevoked
  <2>1. OthersTyped'
    BY <1>1, <1>8 DEF SignerRevoked, OthersTyped, Accounts
  <2> QED BY <1>1, <1>8, <2>1, RoutesKeep DEF SignerRevoked
<1>9. CASE Purge
  <2>1. /\ deleg' \in Delegs
        /\ \A w \in Wallet :
             /\ deleg[w].status # "none" => deleg'[w].status # "none"
             /\ deleg'[w].status = "active" => deleg[w].status = "active" /\ deleg'[w].by = deleg[w].by
    BY <1>1, <1>9 DEF Purge, Delegs
  <2> QED BY <1>1, <1>9, <2>1, RoutesKeep DEF Purge, OthersTyped
<1>10. CASE \E w \in Wallet : Age(w)
  <2>1. /\ deleg' \in Delegs
        /\ \A w \in Wallet :
             /\ deleg[w].status # "none" => deleg'[w].status # "none"
             /\ deleg'[w].status = "active" => deleg[w].status = "active" /\ deleg'[w].by = deleg[w].by
    BY <1>1, <1>10 DEF Age, Delegs
  <2> QED BY <1>1, <1>10, <2>1, RoutesKeep DEF Age, OthersTyped
<1>11. CASE UNCHANGED sessionVars
  BY <1>1, <1>11, RoutesKeep DEF sessionVars, OthersTyped
<1> QED BY <1>2, <1>3, <1>4, <1>5, <1>6, <1>7, <1>8, <1>9, <1>10, <1>11

\* Every step of the session keeps the invariant.
LEMMA NextSession == SessionInv /\ [SessionNext]_sessionVars => SessionInv'
<1> SUFFICES ASSUME SessionInv, [SessionNext]_sessionVars PROVE SessionInv'
  OBVIOUS
<1>1. CASE \E w \in Wallet : Created(w) \/ Probed(w) \/ Stored(w) \/ RevocationStored(w) \/ Notified(w)
  BY <1>1, WebhookKeeps
<1>2. CASE \E w \in Wallet : Issue(w)
  BY <1>2, IssueKeeps
<1>3. CASE \E e \in Event : Deliver(e)
  BY <1>3, DeliverKeeps
<1>4. CASE SessionCrash
  BY <1>4, CrashKeeps
<1>5. CASE \/ Join \/ JoinChecked \/ Joined
           \/ (\E n \in 1..MaxNonce : ChangeMode(n)) \/ ModeVerified
           \/ EnterSafeMode \/ SignerRevoked \/ Purge \/ \E w \in Wallet : Age(w)
           \/ UNCHANGED sessionVars
  BY <1>5, OtherStepsKeep
<1> QED BY <1>1, <1>2, <1>3, <1>4, <1>5 DEF SessionNext

-----------------------------------------------------------------------------
\* The webhook, the routes and the purge keep SessionInv.
THEOREM SessionInvHolds == SessionSpec => []SessionInv
<1> QED BY InitSession, NextSession, PTL DEF SessionSpec

\* A delegation in use has a later time than every recorded revocation of its wallet,
\* whatever the order, the repetitions and the crashes, and is newer at the vendor if its
\* envelope carries the vendor's time (eventAtMs, created, revoked and revokedSince).
THEOREM RevocationsStick == SessionSpec => []RevokeSticks
<1>1. ASSUME SessionInv PROVE RevokeSticks
  <2> SUFFICES ASSUME NEW r \in revocations, deleg[issued[r].wallet].status = "active"
               PROVE  LET b == deleg[issued[r].wallet].by
                      IN  eventAt[b] > eventAt[r] /\ (issued[b].stamped => b > r)
    BY DEF RevokeSticks
  <2> DEFINE w == issued[r].wallet
         b == deleg[w].by
  <2>1. r \in DOMAIN issued /\ w \in Wallet /\ eventAt[r] # 0
    BY <1>1, EventsTyped DEF SessionInv, SessionTypeOK, UseInv
  <2>2. b \in DOMAIN issued /\ issued[b].wallet = w /\ eventAt[b] > eventAt[r]
    BY <1>1, <2>1 DEF SessionInv, UseInv
  <2>3. b \in Nat /\ r \in Nat /\ eventAt[b] \in Nat /\ eventAt[r] \in Nat
    BY <1>1, <2>1, <2>2, EventsTyped, TimesTyped DEF SessionInv
  <2> HIDE DEF b
  <2>4. issued[b].stamped /\ b <= r => eventAt[b] <= eventAt[r]
    BY <1>1, <2>1, <2>2 DEF SessionInv, TimesInv
  <2>5. issued[b].stamped => b > r
    BY <2>2, <2>3, <2>4
  <2> QED BY <2>2, <2>5 DEF b
<1> QED BY <1>1, SessionInvHolds, PTL

\* An event answered for good has had its effect, so the vendor need not send it again
\* (finishWebhookEvent after the commit and never before).
THEOREM FinishedEventsTookEffect == SessionSpec => []FinishedTookEffect
<1>1. ASSUME SessionInv PROVE FinishedTookEffect
  <2>1. \A e \in DOMAIN issued : issued[e].wallet \in Wallet
    BY <1>1, EventsTyped DEF SessionInv
  <2>2. \A e \in revocations : LET w == issued[e].wallet IN
          w \in Wallet => (deleg[w].status = "active" => eventAt[deleg[w].by] > eventAt[e])
    BY <1>1 DEF SessionInv, UseInv
  <2> QED BY <1>1, <2>1, <2>2 DEF SessionInv, FinishedInv, FinishedTookEffect
<1> QED BY <1>1, SessionInvHolds, PTL

-----------------------------------------------------------------------------
(***************************************************************************)
(* The services as the services run composes them: each of its steps is a  *)
(* step of one service and leaves the others alone, so each keeps what it  *)
(* keeps by itself.                                                        *)
(***************************************************************************)

\* The composition, seen from each of the four.
LEMMA ServicesProject == MCSpec => SessionSpec /\ WatchSpec /\ LockSpec /\ Spec
<1>1. MCInit => SessionInit /\ WatchInit /\ LockInit /\ Init
  BY DEF MCInit
<1>2. [MCNext]_mcVars => [SessionNext]_sessionVars
  BY DEF MCNext, InSession, InWatch, InLock, InDesk, mcVars
<1>3. [MCNext]_mcVars => [WatchNext]_watchVars
  BY DEF MCNext, InSession, InWatch, InLock, InDesk, mcVars
<1>4. [MCNext]_mcVars => [LockNext]_lockVars
  BY DEF MCNext, InSession, InWatch, InLock, InDesk, mcVars
<1>5. [MCNext]_mcVars => [Next]_vars
  BY DEF MCNext, InSession, InWatch, InLock, InDesk, mcVars
<1> QED
  BY <1>1, <1>2, <1>3, <1>4, <1>5, PTL DEF MCSpec, SessionSpec, WatchSpec, LockSpec, Spec

\* Session, watchdog, lock and daemon stay typed, whichever of them runs.
THEOREM ServicesAreTyped == MCSpec => []ServicesTypeOK
<1>1. SessionInv /\ WatchTypeOK /\ LockInv /\ TypeOK => ServicesTypeOK
  BY DEF SessionInv, LockInv, ServicesTypeOK
<1> QED
  BY <1>1, ServicesProject, SessionInvHolds, WatchIsTyped, LockInvHolds, DaemonTyped, PTL
=============================================================================
