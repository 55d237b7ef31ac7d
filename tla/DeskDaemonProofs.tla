--------------------------- MODULE DeskDaemonProofs ---------------------------
(***************************************************************************)
(* What the daemon, the gate beside it, the reconcile timer and a restart  *)
(* keep between any two awaits; that nobody waits in vain, that rows match *)
(* executions, and that together they keep the decision log's promises.    *)
(***************************************************************************)
EXTENDS DeskDaemon, WellFoundedInduction, TLAPS

Results == {"flight", "confirmed", "failed"}
Plans  == {Adding, Reducing, Signal, Mixed, Nothing}
Postures == Mode \cup {"none", "advisory", "copilot"}

Rows   == [Id -> [status : {"none", "observed", "executing"} \cup Refused \cup Ended,
                  plan : Plans, mode : Postures, outcome : Outcome]]
Apprs  == [Id -> [status : {"none", "pending", "approved", "denied", "expired", "cancelled"},
                  left : Nat]]
Gates  == [Id -> [at : {"off", "asleep"}, waited : Nat, due : Nat]]

\* The store, the marker files and the process's own memory.
StoreInv ==
  /\ desk \in [mode : Mode, status : Status]
  /\ row \in Rows /\ appr \in Apprs /\ anchor \in 0..Veto
  /\ execs \in [Id -> Seq(Results)]
  /\ files \subseteq touched /\ touched \subseteq Id \X {"approve", "cancel"}
  /\ gate \in Gates /\ hold \in [Class -> 0..Retry]
  /\ withdrawn \subseteq Id /\ poached \subseteq Id
  /\ lost \in BOOLEAN /\ crashes \in 0..MaxCrashes

Deciding == {"build", "ask", "withdraw", "finish"}
Running  == {"ready", "run", "after"}
Ends == {"none", "confirmed", "flight", "failed", "denied", "advisory", "declined", "blocked",
         "critic_rejected", "dry_run"}
Pcs == [at : {"idle", "resolve", "sense", "overlay", "down"} \cup Deciding \cup Running,
        id : Id \cup {0}, plan : Plans, step : 0..2, mode : Postures, to : Ends]

\* Where the tick is, and on which decision. One it decides about is open, one it runs is not.
TickInv ==
  /\ pc \in Pcs
  /\ pc.id = 0 <=> pc.at \notin Deciding \cup Running \cup {"resolve"}
  /\ pc.at \in {"build", "ask", "withdraw", "finish"} => row[pc.id].status = "observed"
  /\ pc.at \in Running => row[pc.id].status \notin {"none", "observed"}
  /\ pc.at = "overlay" => Free # {} /\ pc.plan \in {Adding, Reducing, Signal}
  /\ pc.at = "ask" => pc.mode = "copilot"
  /\ pc.at = "finish" => pc.to \in {"advisory", "declined", "blocked", "critic_rejected", "dry_run"}

\* Whether a human said yes to a decision.
Agreed(i) == appr[i].status = "approved" \/ <<i, "approve">> \in touched

\* The decision that waits for an answer is open, no tick works on another one
\* meanwhile, and its answer is one its posture allows.
PendInv ==
  \/ pend = NoPend
  \/ /\ pend \in [id : Id, ans : Outcome, left : Nat, mode : Postures]
     /\ pc.at \in {"idle", "resolve", "sense"}
     /\ row[pend.id].status = "observed" /\ row[pend.id].mode = pend.mode
     /\ pend.ans = "approved" => Agreed(pend.id)
     /\ pend.mode = "copilot" => pend.ans # "not_required"

\* The executions of the decision under way: all steps before this one confirmed.
RunInv ==
  pc.at \in Running =>
    LET x == execs[pc.id]
    IN  /\ pc.step \in 1..Len(row[pc.id].plan)
        /\ Len(x) = IF pc.at = "ready" THEN pc.step - 1 ELSE pc.step
        /\ \A k \in 1..(pc.step - 1) : x[k] = "confirmed"
        /\ pc.at = "run" => x[pc.step] \in {"flight", "confirmed"}
        /\ pc.at = "after" =>
             /\ pc.to \in {"confirmed", "flight", "failed", "denied"}
             /\ pc.to = "confirmed" => x[pc.step] = "confirmed"
             /\ pc.to = "flight" => x[pc.step] \in {"flight", "confirmed"}
             /\ pc.to \in {"failed", "denied"} => x[pc.step] = "failed"
        /\ pc.id \in poached \/ row[pc.id].status = "executing"

\* The execution the resolver works on was in flight when it looked: since then a lane
\* event may have confirmed it, and the reconcile timer may have settled its decision.
ResolveInv ==
  pc.at = "resolve" =>
    /\ pc.step \in DOMAIN execs[pc.id] /\ execs[pc.id][pc.step] \in {"flight", "confirmed"}
    /\ row[pc.id].status \notin {"none", "observed"}
    /\ pc.id \in poached \/ row[pc.id].status = "executing"

\* What a row r says of the executions x; and, once nobody works on the decision, that it
\* says what they did and nothing is in flight any more.
Matches(r, x, settled) ==
  /\ Len(x) <= 2 /\ Len(x) <= Len(r.plan)
  /\ r.status = "none" => r.mode = "none"
  /\ r.status \in {"none", "observed"} => x = <<>>
  /\ settled => /\ r.status # "executing" => \A k \in DOMAIN x : x[k] # "flight"
                /\ Truthful(r, x)

Settled(i) == i \notin poached /\ pc.id # i
MatchInv   == \A i \in Id : Matches(row[i], execs[i], Settled(i))

\* An open decision is on somebody's mind, and so is an open approval of one.
Minded(i) ==
  row[i].status = "observed" =>
    /\ pend.id = i \/ pc.id = i
    /\ appr[i].status = "pending" =>
         gate[i].at = "asleep" \/ (pend.id = i /\ pend.ans # "none") \/ pc.id = i

WaitingInv == Up => \A i \in Id : Minded(i)

DaemonInv == StoreInv /\ TickInv /\ PendInv /\ RunInv /\ ResolveInv /\ MatchInv /\ WaitingInv

-----------------------------------------------------------------------------
\* The least element of a set of naturals.
LEMMA LeastOfNaturals ==
  ASSUME NEW S, S \subseteq Nat, S # {}
  PROVE  \E x \in S : \A y \in S : x <= y
<1> DEFINE R == {ss \in Nat \X Nat : ss[1] < ss[2]}
<1>1. IsWellFoundedOn(R, Nat)
  BY NatLessThanWellFounded DEF OpToRel
<1>2. PICK x \in S : \A y \in S : ~(<<y, x>> \in R)
  BY <1>1, WFMin
<1>3. \A y \in S : ~(y < x)
  BY <1>2
<1> QED BY <1>3

\* A new decision gets a row nobody has.
LEMMA NextIdIsFree ==
  ASSUME Free # {}
  PROVE  NextId \in Free
<1>1. Free \subseteq Nat
  BY DaemonAssumption DEF Free, Id
<1>2. \E i \in Free : \A j \in Free : i <= j
  BY <1>1, LeastOfNaturals
<1> QED BY <1>2 DEF NextId

\* Decisions are numbered from 1; 0 stands for no decision.
LEMMA Ids == Id \subseteq Nat /\ 0 \notin Id
BY DaemonAssumption DEF Id

\* Where a tick starts from.
LEMMA AtType ==
  ASSUME NEW a \in {"idle", "resolve", "sense", "overlay", "down"} \cup Deciding \cup Running
  PROVE  /\ At(a) \in Pcs /\ At(a).at = a /\ At(a).id = 0 /\ At(a).plan = Nothing
         /\ Idle \in Pcs /\ Idle.at = "idle" /\ Idle.id = 0
<1>1. At(a) = [at |-> a, id |-> 0, plan |-> <<>>, step |-> 0, mode |-> "copilot", to |-> "none"]
  BY DEF At, Nothing
<1>2. Idle = [at |-> "idle", id |-> 0, plan |-> <<>>, step |-> 0, mode |-> "copilot", to |-> "none"]
  BY DEF Idle, At, Nothing
<1>3. <<>> \in Plans /\ "copilot" \in Postures /\ 0 \in 0..2 /\ "none" \in Ends
  BY DEF Plans, Postures, Nothing, Ends
<1>4. At(a) \in Pcs /\ Idle \in Pcs
  BY <1>1, <1>2, <1>3 DEF Pcs
<1> QED BY <1>1, <1>2, <1>4 DEF Nothing

\* Plans have at most two steps.
LEMMA PlanLength ==
  ASSUME NEW p \in Plans
  PROVE  Len(p) \in Nat /\ Len(p) <= 2 /\ DOMAIN p = 1..Len(p) /\ (Len(p) = 0 => p = Nothing)
<1>1. CASE p = Nothing
  BY <1>1 DEF Nothing
<1>2. CASE p \in {Adding, Reducing, Signal}
  BY <1>2 DEF Adding, Reducing, Signal
<1>3. CASE p = Mixed
  BY <1>3 DEF Mixed
<1> QED BY <1>1, <1>2, <1>3 DEF Plans

\* What the resolver or an event makes of the executions.
LEMMA LandedShape ==
  ASSUME StoreInv, NEW o \in Results
  PROVE  /\ Landed(o) \in [Id -> Seq(Results)]
         /\ \A i \in Id : /\ Len(Landed(o)[i]) = Len(execs[i])
                          /\ DOMAIN Landed(o)[i] = DOMAIN execs[i] /\ DOMAIN execs[i] = 1..Len(execs[i])
                          /\ execs[i] = <<>> => Landed(o)[i] = <<>>
                          /\ \A k \in DOMAIN execs[i] :
                               Landed(o)[i][k] = IF execs[i][k] = "flight" THEN o ELSE execs[i][k]
<1> SUFFICES ASSUME NEW i \in Id
             PROVE  /\ Landed(o)[i] \in Seq(Results)
                    /\ Len(Landed(o)[i]) = Len(execs[i])
                    /\ DOMAIN Landed(o)[i] = DOMAIN execs[i] /\ DOMAIN execs[i] = 1..Len(execs[i])
                    /\ execs[i] = <<>> => Landed(o)[i] = <<>>
                    /\ \A k \in DOMAIN execs[i] :
                         Landed(o)[i][k] = IF execs[i][k] = "flight" THEN o ELSE execs[i][k]
  BY DEF Landed
<1>1. execs[i] \in Seq(Results) /\ DOMAIN execs[i] = 1..Len(execs[i]) /\ Len(execs[i]) \in Nat
  BY DEF StoreInv
<1>2. Landed(o)[i] = [k \in 1..Len(execs[i]) |-> IF execs[i][k] = "flight" THEN o ELSE execs[i][k]]
  BY <1>1 DEF Landed
<1>3. \A k \in 1..Len(execs[i]) : execs[i][k] \in Results
  BY <1>1
<1> DEFINE n == Len(execs[i])
<1>4. [k \in 1..n |-> IF execs[i][k] = "flight" THEN o ELSE execs[i][k]] \in [1..n -> Results]
  BY <1>3
<1>5. Landed(o)[i] \in Seq(Results) /\ Len(Landed(o)[i]) = n
  BY <1>1, <1>2, <1>4
<1>6. execs[i] = <<>> => Landed(o)[i] = <<>>
  BY <1>1, <1>5
<1> QED BY <1>1, <1>2, <1>5, <1>6

\* What is settled is settled by its executions, nothing of which is in flight.
LEMMA ReconciledShape ==
  ASSUME NEW r \in Rows, NEW x \in [Id -> Seq(Results)]
  PROVE  /\ Reconciled(r, x) \in Rows
         /\ \A i \in Id :
              \/ Reconciled(r, x)[i] = r[i]
              \/ /\ r[i].status = "executing" /\ \A k \in DOMAIN x[i] : x[i][k] # "flight"
                 /\ Reconciled(r, x)[i] = [r[i] EXCEPT !.status = StatusOf(x[i])]
<1>1. \A i \in Id : StatusOf(x[i]) \in Ended
  BY DEF StatusOf, Ended
<1>2. Reconciled(r, x) \in Rows
  BY <1>1 DEF Reconciled, Rows
<1>3. \A i \in Id : Reconciled(r, x)[i] =
        IF r[i].status = "executing" /\ \A k \in DOMAIN x[i] : x[i][k] # "flight"
        THEN [r[i] EXCEPT !.status = StatusOf(x[i])] ELSE r[i]
  BY DEF Reconciled
<1> QED BY <1>2, <1>3

\* A decision of which nothing was begun may have any status but those of a plan under way.
LEMMA EmptyMatches ==
  ASSUME NEW r, NEW x, x = <<>>, r.plan \in Plans, NEW settled \in BOOLEAN,
         r.status \in {"none", "observed", "executing", "failed"} \cup Refused,
         r.status = "none" => r.mode = "none"
  PROVE  Matches(r, x, settled)
<1>1. Len(x) = 0 /\ DOMAIN x = {} /\ Len(r.plan) \in Nat /\ (DOMAIN r.plan = {} => r.plan = Nothing)
  <2>1. /\ Len(r.plan) \in Nat /\ DOMAIN r.plan = 1..Len(r.plan)
        /\ Len(r.plan) = 0 => r.plan = Nothing
    BY PlanLength
  <2>2. ASSUME NEW n \in Nat, 1..n = {} PROVE n = 0
    <3>1. n # 0 => 1 \in 1..n
      OBVIOUS
    <3> QED BY <2>2, <3>1, Zenon
  <2>3. Len(x) = 0 /\ DOMAIN x = {}
    OBVIOUS
  <2>4. DOMAIN r.plan = {} => r.plan = Nothing
    BY <2>1, <2>2, Zenon
  <2> QED BY <2>1, <2>3, <2>4, Zenon
<1>2. {m \in DOMAIN x : x[m] = "confirmed"} = {}
  BY <1>1
<1>3. Truthful(r, x)
  BY <1>1, <1>2 DEF Truthful, Refused
<1> QED BY <1>1, <1>3 DEF Matches, Refused

\* Whatever a decision under way did so far, its row says that it is under way.
LEMMA BusyMatches ==
  ASSUME NEW r, NEW x, r.status = "executing", Len(x) <= 2, Len(x) <= Len(r.plan),
         NEW settled \in BOOLEAN
  PROVE  Matches(r, x, settled)
BY DEF Matches, Truthful

\* StatusOf is what the row should say.
LEMMA StatusOfMatches ==
  ASSUME NEW x \in Seq(Results), NEW r, r.plan \in Plans, Len(x) <= 2, Len(x) <= Len(r.plan),
         r.status = StatusOf(x), \A k \in DOMAIN x : x[k] # "flight", NEW settled \in BOOLEAN
  PROVE  Matches(r, x, settled)
<1> DEFINE confirmed == {m \in DOMAIN x : x[m] = "confirmed"}
<1>1. r.status = IF confirmed = {} THEN "failed"
                 ELSE IF confirmed = DOMAIN x THEN "executed" ELSE "partially_executed"
  BY DEF StatusOf
<1>2. DOMAIN x \subseteq DOMAIN r.plan /\ confirmed \subseteq DOMAIN x /\ (x = <<>> => confirmed = {})
  BY PlanLength
<1>3. Truthful(r, x)
  <2> HIDE DEF confirmed
  <2>1. /\ r.status = "failed" => confirmed = {}
        /\ r.status = "executed" => confirmed = DOMAIN x /\ (x = <<>> => r.plan = Nothing)
        /\ r.status = "partially_executed" => confirmed # {} /\ confirmed # DOMAIN r.plan
        /\ r.status \in {"failed", "executed", "partially_executed"}
    BY <1>1, <1>2
  <2> QED BY <2>1 DEF Truthful, confirmed
<1> QED BY <1>1, <1>3 DEF Matches

\* No decision, no process memory, no deadline.
LEMMA InitDaemon == Init => DaemonInv
<1> SUFFICES ASSUME Init PROVE DaemonInv
  OBVIOUS
<1>1. pc.at = "idle" /\ pc.id = 0 /\ pc \in Pcs
  BY AtType DEF Init
<1>2. StoreInv
  <2>1. row \in Rows
    BY DEF Init, Rows, Plans, Postures, Outcome, Nothing
  <2>2. appr \in Apprs /\ gate \in Gates /\ hold \in [Class -> 0..Retry] /\ execs \in [Id -> Seq(Results)]
    BY DaemonAssumption DEF Init, Apprs, Gates, NoGate, NoHold
  <2>3. desk \in [mode : Mode, status : Status]
    BY DaemonAssumption DEF Init
  <2>4. anchor \in 0..Veto /\ crashes \in 0..MaxCrashes
    BY DaemonAssumption DEF Init
  <2>5. files \subseteq touched /\ touched \subseteq Id \X {"approve", "cancel"}
        /\ withdrawn \subseteq Id /\ poached \subseteq Id /\ lost \in BOOLEAN
    BY DEF Init
  <2> QED BY <2>1, <2>2, <2>3, <2>4, <2>5 DEF StoreInv
<1>3. TickInv
  BY <1>1 DEF TickInv, Deciding, Running
<1>4. PendInv /\ RunInv /\ ResolveInv
  BY <1>1 DEF Init, PendInv, RunInv, ResolveInv, Running
<1>5. MatchInv
  <2> SUFFICES ASSUME NEW i \in Id PROVE Matches(row[i], execs[i], Settled(i))
    BY DEF MatchInv
  <2>1. /\ execs[i] = <<>> /\ row[i].status = "none" /\ row[i].mode = "none"
        /\ row[i].plan \in Plans /\ Settled(i) \in BOOLEAN
    BY DEF Init, Settled, Plans
  <2> QED BY <2>1, EmptyMatches
<1>6. WaitingInv
  BY DEF Init, WaitingInv, Minded
<1> QED BY <1>2, <1>3, <1>4, <1>5, <1>6 DEF DaemonInv

-----------------------------------------------------------------------------
(* What the steps of the tick share.                                       *)

\* A step of the tick that leaves every decision alone.
LEMMA QuietTick ==
  ASSUME DaemonInv, UNCHANGED <<row, execs, appr, gate, touched, poached, pend>>,
         pc'.id = pc.id, Up, StoreInv', TickInv', pc'.at \notin Running,
         pend = NoPend \/ pc'.at \in {"idle", "resolve", "sense"}, pc'.at # "resolve"
  PROVE  DaemonInv'
<1>1. PendInv'
  BY DEF DaemonInv, PendInv, StoreInv, Agreed, TickInv
<1>2. RunInv' /\ ResolveInv'
  BY DEF RunInv, ResolveInv
<1>3. MatchInv'
  BY DEF DaemonInv, MatchInv, Settled
<1>4. WaitingInv'
  BY DEF DaemonInv, WaitingInv, Minded
<1> QED BY <1>1, <1>2, <1>3, <1>4 DEF DaemonInv

\* What a step of the tick makes of the one decision it works on.
Moved(i) ==
  /\ row' \in Rows /\ hold' \in [Class -> 0..Retry] /\ pc'.id \in {0, i}
  /\ \A j \in Id : j # i => row'[j] = row[j]
  /\ TickInv' /\ RunInv' /\ pc'.at # "resolve"
  /\ Matches(row'[i], execs'[i], Settled(i)')
  /\ row'[i].status = "observed" => pc'.id = i

\* A step of the tick that changes one decision while none waits for an answer any more.
LEMMA DecisionMoves ==
  ASSUME DaemonInv, NEW i \in Id, Moved(i), Up, pc.id \in {0, i},
         \A j \in Id : j # i => /\ execs'[j] = execs[j] /\ gate'[j] = gate[j]
                                /\ appr'[j] = appr[j],
         poached' = poached, pend' = NoPend, pend.id \in {0, i}, StoreInv'
  PROVE  DaemonInv'
<1> USE DEF Moved
<1>1. PendInv'
  BY DEF PendInv
<1>2. MatchInv'
  <2> SUFFICES ASSUME NEW j \in Id, j # i PROVE Matches(row'[j], execs'[j], Settled(j)')
    BY DEF MatchInv
  <2>1. Settled(j)' <=> Settled(j)
    BY Ids DEF Settled
  <2>2. Settled(j)' = Settled(j)
    BY <2>1 DEF Settled
  <2>3. row'[j] = row[j] /\ execs'[j] = execs[j]
    OBVIOUS
  <2>4. Matches(row[j], execs[j], Settled(j))
    BY DEF DaemonInv, MatchInv
  <2> QED BY <2>2, <2>3, <2>4
<1>3. WaitingInv'
  <2> SUFFICES ASSUME NEW j \in Id PROVE Minded(j)'
    BY DEF WaitingInv
  <2>1. CASE j = i
    BY <2>1 DEF Minded
  <2>2. CASE j # i
    <3>1. Minded(j) /\ pend.id # j /\ pc.id # j
      BY <2>2, Ids DEF DaemonInv, WaitingInv
    <3> QED BY <2>2, <3>1 DEF Minded
  <2> QED BY <2>1, <2>2
<1>4. ResolveInv'
  BY DEF ResolveInv
<1> QED BY <1>1, <1>2, <1>3, <1>4 DEF DaemonInv

\* Steps of i before step k all confirmed, and step k, if it was begun, failed.
Trail(i, k) ==
  LET x == execs[i]
  IN  /\ k \in 1..2 /\ Len(x) \in {k - 1, k}
      /\ \A m \in 1..(k - 1) : x[m] = "confirmed"
      /\ Len(x) = k => x[k] = "failed"

\* Rows in which only what the human was asked about i differs.
NotedRows(r, i) ==
  r \in Rows /\ (\A j \in Id : j # i => r[j] = row[j]) /\ r[i].plan = row[i].plan

\* Ending a plan at a step touches no other decision, and leaves its own past "observed".
LEMMA StopAtShape ==
  ASSUME DaemonInv, NEW i \in Id, NEW k \in 1..2, NEW r, NotedRows(r, i),
         NEW to \in {"blocked", "failed", "advisory", "policy_denied"},
         k <= Len(row[i].plan), Trail(i, k), execs' = execs, StopAt(i, k, to, r),
         to \in {"blocked", "advisory"} => Len(execs[i]) = k - 1,
         to = "policy_denied" => Len(execs[i]) = k
  PROVE  Moved(i) /\ row'[i].status # "observed"
<1> DEFINE s == IF k > 1 /\ to \in {"blocked", "failed"} THEN "partially_executed" ELSE to
<1>1. row' = [r EXCEPT ![i].status = s] /\ pc' = Idle
  BY DEF StopAt
<1>2. s \in {"partially_executed", "blocked", "failed", "advisory", "policy_denied"}
      /\ (k > 1 => s \in {"partially_executed", "advisory", "policy_denied"})
      /\ (s = "partially_executed" => k > 1)
      /\ (s \in {"blocked", "failed", "advisory", "policy_denied"} => s = to)
  OBVIOUS
<1> HIDE DEF s
<1>3. row' \in Rows /\ row'[i].status = s /\ \A j \in Id : j # i => row'[j] = row[j]
  BY <1>1, <1>2 DEF NotedRows, Rows, Refused, Ended
<1>4. hold' \in [Class -> 0..Retry]
  <2>1. row[i].plan \in Plans /\ hold \in [Class -> 0..Retry] /\ r[i].plan = row[i].plan
    BY DEF DaemonInv, StoreInv, Rows, NotedRows
  <2>2. Retry \in 0..Retry
    BY DaemonAssumption
  <2>3. \A c : [hold EXCEPT ![c] = Retry] \in [Class -> 0..Retry]
    BY <2>1, <2>2
  <2> QED BY <2>3 DEF StopAt, HeldAfter
<1>5. Matches(row'[i], execs[i], Settled(i)')
  <2> DEFINE x == execs[i]
         confirmed == {m \in DOMAIN x : x[m] = "confirmed"}
  <2>1. /\ x \in Seq(Results) /\ DOMAIN x = 1..Len(x) /\ Len(x) \in {k - 1, k} /\ Len(x) <= 2
        /\ (Len(x) = k => x[k] = "failed") /\ \A m \in 1..(k - 1) : x[m] = "confirmed"
    BY DEF DaemonInv, StoreInv, Trail
  <2>2. /\ row'[i].plan = row[i].plan /\ row[i].plan \in Plans
        /\ DOMAIN row[i].plan = 1..Len(row[i].plan) /\ Len(row[i].plan) \in Nat
    BY <1>1, PlanLength DEF NotedRows, Rows, DaemonInv, StoreInv
  <2>3. /\ to \in {"blocked", "advisory"} => Len(x) = k - 1
        /\ to = "policy_denied" => Len(x) = k
    OBVIOUS
  <2> HIDE DEF x
  <2>4. ASSUME NEW m \in DOMAIN x PROVE x[m] # "flight" /\ (x[m] = "confirmed" <=> m \in 1..(k - 1))
    <3>1. m \in 1..(k - 1) \/ (m = k /\ Len(x) = k /\ m \notin 1..(k - 1))
      <4>1. m \in 1..Len(x) /\ Len(x) \in {k - 1, k} /\ k \in 1..2
        BY <2>1
      <4> HIDE DEF confirmed
      <4> QED BY <4>1
    <3> QED BY <2>1, <3>1
  <2>5. confirmed = 1..(k - 1)
    <3> HIDE DEF confirmed
    <3>1. \A n \in 1..2 : 1..(n - 1) \subseteq 1..n
      OBVIOUS
    <3>2. 1..(k - 1) \subseteq DOMAIN x
      <4>1. DOMAIN x = 1..Len(x) /\ Len(x) \in {k - 1, k} /\ k \in 1..2
        BY <2>1
      <4> QED BY <3>1, <4>1
    <3>3. \A m \in 1..(k - 1) : x[m] = "confirmed"
      BY <2>1
    <3> USE DEF confirmed
    <3> QED BY <2>4, <3>2, <3>3
  <2>6. /\ s \in {"blocked", "failed"} => k = 1 /\ confirmed = {}
        /\ s = "blocked" => x = <<>>
        /\ s = "partially_executed" => confirmed # {} /\ confirmed # DOMAIN row[i].plan
        /\ s = "advisory" => confirmed = DOMAIN x /\ confirmed # DOMAIN row[i].plan
        /\ s = "policy_denied" => x # <<>> /\ x[Len(x)] = "failed" /\ confirmed = 1..(Len(x) - 1)
    <3> HIDE DEF confirmed
    <3>1. confirmed # DOMAIN row[i].plan
      BY <2>2, <2>5
    <3>2. k > 1 => confirmed # {}
      <4>1. k > 1 => 1 \in 1..(k - 1)
        OBVIOUS
      <4> QED BY <2>5, <4>1
    <3>3. /\ k = 1 => confirmed = {}
          /\ Len(x) = k - 1 => confirmed = DOMAIN x
          /\ k = 1 /\ Len(x) = k - 1 => x = <<>>
          /\ Len(x) = k => x # <<>>
      <4>1. k = 1 => confirmed = {}
        <5>1. k = 1 => 1..(k - 1) = {}
          OBVIOUS
        <5> QED BY <2>5, <5>1
      <4>2. Len(x) = k - 1 => confirmed = DOMAIN x
        BY <2>1, <2>5
      <4>3. x \in Seq(Results) /\ k \in 1..2
        BY <2>1
      <4>4. k = 1 /\ Len(x) = k - 1 => x = <<>>
        <5>1. k = 1 /\ Len(x) = k - 1 => Len(x) = 0
          OBVIOUS
        <5> QED BY <4>3, <5>1
      <4>5. Len(x) = k => x # <<>>
        <5>1. Len(x) = k => Len(x) # 0
          BY <4>3
        <5> QED BY <5>1
      <4> QED BY <4>1, <4>2, <4>4, <4>5
    <3>4. /\ s \in {"blocked", "failed"} => k = 1
          /\ s \in {"blocked", "advisory"} => Len(x) = k - 1
          /\ s = "partially_executed" => k > 1
          /\ s = "policy_denied" => Len(x) = k
      <4>1. ~(k > 1) => k = 1
        OBVIOUS
      <4> QED BY <1>2, <2>3, <4>1
    <3> QED BY <2>1, <2>5, <3>1, <3>2, <3>3, <3>4
  <2>7. Truthful(row'[i], x)
    <3> HIDE DEF confirmed
    <3> QED BY <1>2, <1>3, <2>2, <2>6 DEF Truthful, confirmed
  <2>8. Matches(row'[i], x, Settled(i)')
    <3>1. Len(x) <= Len(row[i].plan)
      <4>1. Len(x) \in {k - 1, k} /\ k \in 1..2 /\ k <= Len(row[i].plan) /\ Len(row[i].plan) \in Nat
        BY <2>1, <2>2
      <4> HIDE DEF confirmed
      <4> QED BY <4>1
    <3> QED BY <1>2, <1>3, <2>1, <2>2, <2>4, <2>7, <3>1 DEF Matches
  <2> QED BY <2>8 DEF x
<1>6. pc'.id = 0 /\ pc'.at = "idle" /\ pc' \in Pcs
  BY <1>1, AtType
<1>7. TickInv' /\ RunInv'
  BY <1>6 DEF TickInv, RunInv, Running, Deciding
<1> QED BY <1>2, <1>3, <1>4, <1>5, <1>6, <1>7 DEF Moved

\* executeSteps at its next step: over, stopped, or at it with everything before confirmed.
LEMMA EnterStepShape ==
  ASSUME DaemonInv, NEW i \in Id, NEW k \in 1..3, NEW r, NotedRows(r, i),
         k <= Len(row[i].plan) + 1, Len(execs[i]) = k - 1,
         \A m \in 1..(k - 1) : execs[i][m] = "confirmed",
         UNCHANGED <<execs, poached>>, EnterStep(i, k, r)
  PROVE  Moved(i) /\ row'[i].status # "observed"
<1>1. /\ row[i].plan \in Plans /\ r[i].plan = row[i].plan /\ hold \in [Class -> 0..Retry]
      /\ execs[i] \in Seq(Results) /\ DOMAIN execs[i] = 1..Len(execs[i])
  BY DEF DaemonInv, StoreInv, Rows, NotedRows
<1>2. Len(row[i].plan) \in Nat /\ Len(row[i].plan) <= 2
  BY <1>1, PlanLength
<1>3. Idle.id = 0 /\ Idle.at = "idle" /\ Idle \in Pcs
  BY AtType
<1>4. CASE /\ k > Len(row[i].plan)
           /\ row' = [r EXCEPT ![i].status = "executed"] /\ pc' = Idle /\ UNCHANGED hold
  <2>1. row' \in Rows /\ row'[i].status = "executed" /\ \A j \in Id : j # i => row'[j] = row[j]
    BY <1>4 DEF NotedRows, Rows, Ended
  <2>2. \A m \in DOMAIN execs[i] : execs[i][m] = "confirmed"
    BY <1>1
  <2>3. Matches(row'[i], execs[i], Settled(i)')
    <3>1. row'[i].plan = row[i].plan /\ Len(execs[i]) = Len(row[i].plan)
          /\ (execs[i] = <<>> => row[i].plan = Nothing)
      BY <1>1, <1>2, <1>4, PlanLength DEF NotedRows, Rows
    <3>2. {m \in DOMAIN execs[i] : execs[i][m] = "confirmed"} = DOMAIN execs[i]
      BY <2>2
    <3>3. Truthful(row'[i], execs[i])
      BY <2>1, <3>1, <3>2 DEF Truthful
    <3> QED BY <1>1, <1>2, <2>1, <2>2, <3>1, <3>3 DEF Matches
  <2>4. TickInv' /\ RunInv'
    BY <1>3, <1>4 DEF TickInv, RunInv, Running, Deciding
  <2> QED BY <1>1, <1>3, <1>4, <2>1, <2>3, <2>4 DEF Moved
<1>5. CASE k <= Len(row[i].plan) /\ StopAt(i, k, Refusal(r[i].plan[k]), r) /\ Refusal(r[i].plan[k]) # "none"
  <2>1. Refusal(r[i].plan[k]) \in {"blocked", "advisory"}
    BY <1>5 DEF Refusal
  <2>2. k \in 1..2 /\ Trail(i, k)
    BY <1>2, <1>5 DEF Trail
  <2> QED BY <1>5, <2>1, <2>2, StopAtShape
<1>6. CASE /\ k <= Len(row[i].plan)
           /\ row' = [r EXCEPT ![i].status = "executing"]
           /\ pc' = [At("ready") EXCEPT !.id = i, !.step = k]
           /\ UNCHANGED hold
  <2>1. /\ row' \in Rows /\ row'[i].status = "executing" /\ row'[i].plan = row[i].plan
        /\ \A j \in Id : j # i => row'[j] = row[j]
    BY <1>6 DEF NotedRows, Rows
  <2>2. pc'.at = "ready" /\ pc'.id = i /\ pc'.step = k /\ pc' \in Pcs
    <3>1. At("ready") \in Pcs /\ At("ready").at = "ready"
      BY AtType DEF Running
    <3>2. k \in 0..2
      BY <1>2, <1>6
    <3> QED BY <1>6, <3>1, <3>2 DEF Pcs
  <2>3. Matches(row'[i], execs[i], Settled(i)')
    <3>1. Len(execs[i]) <= 2 /\ Len(execs[i]) <= Len(row[i].plan) /\ Settled(i)' \in BOOLEAN
      BY <1>2, <1>6 DEF Settled
    <3> QED BY <2>1, <3>1, BusyMatches
  <2>4. TickInv'
    BY <2>1, <2>2, Ids DEF TickInv, Running, Deciding
  <2>5. RunInv'
    BY <1>1, <1>2, <1>6, <2>1, <2>2 DEF RunInv, Running
  <2> QED BY <1>1, <1>6, <2>1, <2>2, <2>3, <2>4, <2>5 DEF Moved
<1>7. r[i].plan = row[i].plan /\ Len(row[i].plan) \in Nat
  BY <1>1, <1>2
<1> QED BY <1>4, <1>5, <1>6, <1>7 DEF EnterStep

\* An answer moves an open decision to its first step, or towards its end.
LEMMA SettleShape ==
  ASSUME DaemonInv, NEW i \in Id, row[i].status = "observed",
         NEW mode \in Postures, NEW answer \in Outcome,
         UNCHANGED <<execs, poached>>, Settle(i, mode, answer)
  PROVE  Moved(i)
<1> DEFINE noted == [row EXCEPT ![i].mode = mode, ![i].outcome = answer]
<1>1. row \in Rows /\ row[i].plan \in Plans /\ execs[i] = <<>>
  BY DEF DaemonInv, StoreInv, Rows, MatchInv, Matches
<1>2. NotedRows(noted, i) /\ noted[i].status = "observed"
  BY <1>1 DEF NotedRows, Rows
<1>3. CASE Executes(answer) /\ EnterStep(i, 1, noted)
  <2>1. Len(execs[i]) = 1 - 1 /\ 1 <= Len(row[i].plan) + 1 /\ 1 \in 1..3
    BY <1>1, PlanLength
  <2>2. \A m \in 1..(1 - 1) : execs[i][m] = "confirmed"
    OBVIOUS
  <2> HIDE DEF noted
  <2> QED BY <1>2, <1>3, <2>1, <2>2, EnterStepShape
<1>4. CASE /\ ~Executes(answer) /\ row' = noted
           /\ hold' = HeldAfter(row[i].plan)
           /\ pc' = [At("finish") EXCEPT
                       !.id = i, !.to = IF answer = "advisory" THEN "advisory" ELSE "declined"]
  <2>1. /\ pc'.at = "finish" /\ pc'.id = i /\ pc' \in Pcs /\ pc'.to \in {"advisory", "declined"}
    <3>1. At("finish") \in Pcs /\ At("finish").at = "finish"
      BY AtType DEF Deciding
    <3> QED BY <1>1, <1>4, <3>1 DEF Pcs, Ends
  <2>2. row' \in Rows /\ row'[i].status = "observed" /\ \A j \in Id : j # i => row'[j] = row[j]
    BY <1>2, <1>4 DEF NotedRows
  <2>3. hold' \in [Class -> 0..Retry]
    <3>1. Retry \in 0..Retry /\ hold \in [Class -> 0..Retry]
      BY DaemonAssumption DEF DaemonInv, StoreInv
    <3>2. \A c : [hold EXCEPT ![c] = Retry] \in [Class -> 0..Retry]
      BY <3>1
    <3> QED BY <1>4, <3>2 DEF HeldAfter
  <2>4. TickInv' /\ RunInv'
    BY <2>1, <2>2, Ids DEF TickInv, RunInv, Running, Deciding
  <2>5. Matches(row'[i], execs'[i], Settled(i)')
    <3>1. row'[i].plan \in Plans /\ execs'[i] = <<>> /\ Settled(i)' \in BOOLEAN
      BY <1>1, <1>2, <1>4 DEF NotedRows, Settled
    <3> QED BY <2>2, <3>1, EmptyMatches
  <2> QED BY <2>1, <2>2, <2>3, <2>4, <2>5 DEF Moved
<1> QED BY <1>3, <1>4 DEF Settle

\* The pending decision is withdrawn.
LEMMA WithdrawKeeps ==
  ASSUME DaemonInv, pend # NoPend, pc.at = "sense",
         NEW outcome \in {"timeout", "cancelled"}, NEW plan \in Plans, Withdraw(outcome, plan)
  PROVE  DaemonInv'
<1> DEFINE i == pend.id
<1>1. /\ i \in Id /\ pend.mode \in Postures /\ row[i].status = "observed" /\ pc.id = 0 /\ Up
  BY Ids DEF DaemonInv, PendInv, TickInv, Deciding, Running, Up
<1>2. /\ pend' = NoPend /\ withdrawn' = withdrawn \cup {i}
      /\ appr' = Closed(i, IF outcome = "timeout" THEN "expired" ELSE "cancelled")
      /\ anchor' = IF outcome = "timeout" /\ row[i].plan # Signal THEN Veto ELSE anchor
      /\ row' = [row EXCEPT ![i].mode = pend.mode, ![i].outcome = outcome]
      /\ hold' = HeldAfter(row[i].plan)
      /\ pc' = [At("withdraw") EXCEPT !.id = i, !.plan = plan]
      /\ UNCHANGED <<desk, execs, files, touched, gate, lost, poached, crashes>>
  BY DEF Withdraw
<1> HIDE DEF i
<1>3. row' \in Rows /\ row'[i].status = "observed" /\ \A j \in Id : j # i => row'[j] = row[j]
  BY <1>1, <1>2, ZenonT(40) DEF DaemonInv, StoreInv, Rows, Outcome
<1>4. appr' \in Apprs /\ \A j \in Id : j # i => appr'[j] = appr[j]
  BY <1>1, <1>2, ZenonT(40) DEF DaemonInv, StoreInv, Apprs, Closed
<1>5. hold' \in [Class -> 0..Retry] /\ anchor' \in 0..Veto
  <2>1. Retry \in 0..Retry /\ hold \in [Class -> 0..Retry] /\ Veto \in 0..Veto /\ anchor \in 0..Veto
    BY DaemonAssumption DEF DaemonInv, StoreInv
  <2>2. \A c : [hold EXCEPT ![c] = Retry] \in [Class -> 0..Retry]
    BY <2>1
  <2> QED BY <1>2, <2>1, <2>2 DEF HeldAfter
<1>6. pc'.at = "withdraw" /\ pc'.id = i /\ pc' \in Pcs
  <2>1. At("withdraw") \in Pcs /\ At("withdraw").at = "withdraw"
    BY AtType DEF Deciding
  <2> QED BY <1>1, <1>2, <2>1 DEF Pcs
<1>7. TickInv' /\ RunInv'
  BY <1>1, <1>3, <1>6, Ids DEF TickInv, RunInv, Running, Deciding
<1>8. Matches(row'[i], execs'[i], Settled(i)')
  <2>1. execs[i] = <<>>
    BY <1>1 DEF DaemonInv, MatchInv, Matches
  <2>2. row'[i].plan \in Plans /\ execs'[i] = <<>> /\ Settled(i)' \in BOOLEAN
    BY <1>1, <1>2, <1>3, <2>1 DEF Rows, Settled
  <2> QED BY <1>3, <2>2, EmptyMatches
<1>9. StoreInv'
  BY <1>1, <1>2, <1>3, <1>4, <1>5 DEF DaemonInv, StoreInv
<1>10. Moved(i)
  BY <1>3, <1>5, <1>6, <1>7, <1>8 DEF Moved
<1> QED BY <1>1, <1>2, <1>4, <1>9, <1>10, DecisionMoves DEF i

\* Holding a class of decisions is well typed.
LEMMA HeldAfterType ==
  ASSUME StoreInv, NEW p
  PROVE  HeldAfter(p) \in [Class -> 0..Retry]
<1>1. Retry \in 0..Retry /\ hold \in [Class -> 0..Retry]
  BY DaemonAssumption DEF StoreInv
<1>2. \A c : [hold EXCEPT ![c] = Retry] \in [Class -> 0..Retry]
  BY <1>1
<1> QED BY <1>2 DEF HeldAfter

\* The answer the gate draws from a signal.
LEMMA AnswerShape ==
  ASSUME NEW mode, NEW i
  PROVE  LET a == AnswerOf(mode, Poll(i))
         IN  /\ a \in Outcome \ {"none"}
             /\ a = "approved" => Poll(i) = "approve"
             /\ mode = "copilot" => a # "not_required"
BY DEF AnswerOf, Poll, Outcome

\* The gate approves only what a human approved.
LEMMA ApprovalsAgree ==
  ASSUME StoreInv, NEW i \in Id, Poll(i) = "approve" PROVE Agreed(i)
BY DEF StoreInv, Poll, Agreed

\* The gate is asked: the decision goes on waiting, or its answer moves it on.
LEMMA AskGateKeeps ==
  ASSUME DaemonInv, pc.at \in {"build", "ask"},
         NEW mode \in Postures, AskGate(pc.id, mode)
  PROVE  DaemonInv'
<1> DEFINE i == pc.id
<1>1. /\ i \in Id /\ pend = NoPend /\ pend.id = 0 /\ row[i].status = "observed" /\ Up
  BY Ids DEF DaemonInv, PendInv, TickInv, Deciding, Running, Up, NoPend, Pcs
<1> DEFINE waits == Waits(row[i].plan, mode)
           answer == IF mode = "advisory" THEN "advisory"
                     ELSE IF ~Waits(row[i].plan, mode) THEN "not_required"
                     ELSE AnswerOf(mode, Poll(i))
<1>2. /\ appr' = IF waits /\ appr[i].status = "none"
                 THEN [appr EXCEPT ![i] = [status |-> "pending", left |-> WindowOf(mode)]]
                 ELSE appr
      /\ files' = IF waits THEN Consumed(i) ELSE files
      /\ UNCHANGED <<desk, execs, touched, withdrawn, lost, poached, crashes>>
  BY DEF AskGate
<1>3. \/ /\ gate' = [gate EXCEPT ![i] = [at |-> "asleep", waited |-> 0, due |-> 1]]
         /\ pend' = [id |-> i, ans |-> "none", mode |-> mode,
                     left |-> (IF Window > CancelWindow THEN Window ELSE CancelWindow)
                              + 2 * TickLen + 1]
         /\ row' = [row EXCEPT ![i].mode = mode]
         /\ pc' = Idle
         /\ UNCHANGED <<anchor, hold>>
      \/ /\ anchor' = IF waits THEN Anchored(i, answer) ELSE anchor
         /\ Settle(i, mode, answer)
         /\ UNCHANGED <<gate, pend>>
  BY DEF AskGate
<1>4. answer \in Outcome
  BY AnswerShape DEF Outcome
<1> HIDE DEF answer
<1>5. appr' \in Apprs /\ \A j \in Id : j # i => appr'[j] = appr[j]
  <2>1. WindowOf(mode) \in Nat
    BY DaemonAssumption DEF WindowOf
  <2> QED BY <1>1, <1>2, <2>1 DEF DaemonInv, StoreInv, Apprs
<1>6. files' \subseteq touched'
  BY <1>2 DEF DaemonInv, StoreInv, Consumed
<1> HIDE DEF waits
<1>7. execs[i] = <<>>
  BY <1>1 DEF DaemonInv, MatchInv, Matches
<1>8. CASE /\ gate' = [gate EXCEPT ![i] = [at |-> "asleep", waited |-> 0, due |-> 1]]
           /\ pend' = [id |-> i, ans |-> "none", mode |-> mode,
                       left |-> (IF Window > CancelWindow THEN Window ELSE CancelWindow)
                                + 2 * TickLen + 1]
           /\ row' = [row EXCEPT ![i].mode = mode]
           /\ pc' = Idle
           /\ UNCHANGED <<anchor, hold>>
  <2>1. /\ row' \in Rows /\ row'[i].status = "observed" /\ row'[i].mode = mode
        /\ \A j \in Id : j # i => row'[j] = row[j]
    BY <1>1, <1>8 DEF DaemonInv, StoreInv, Rows
  <2>2. gate' \in Gates /\ gate'[i].at = "asleep"
    BY <1>1, <1>8 DEF DaemonInv, StoreInv, Gates
  <2>3. StoreInv'
    BY <1>2, <1>5, <1>6, <1>8, <2>1, <2>2 DEF DaemonInv, StoreInv
  <2>4. pc'.at = "idle" /\ pc'.id = 0 /\ pc' \in Pcs
    BY <1>8, AtType
  <2>5. TickInv' /\ RunInv'
    BY <2>4 DEF TickInv, RunInv, Deciding, Running
  <2>6. (IF Window > CancelWindow THEN Window ELSE CancelWindow) + 2 * TickLen + 1 \in Nat
    BY DaemonAssumption
  <2>7. /\ pend' \in [id : Id, ans : Outcome, left : Nat, mode : Postures]
        /\ pend'.id = i /\ pend'.mode = mode /\ pend'.ans = "none"
    BY <1>1, <1>8, <2>6 DEF Outcome
  <2>8. PendInv'
    BY <2>1, <2>4, <2>7 DEF PendInv
  <2>9. MatchInv'
    <3> SUFFICES ASSUME NEW j \in Id PROVE Matches(row'[j], execs'[j], Settled(j)')
      BY DEF MatchInv
    <3>1. CASE j = i
      <4>1. row'[i].plan \in Plans /\ execs'[i] = <<>> /\ Settled(i)' \in BOOLEAN
        BY <1>1, <1>2, <1>7, <2>1 DEF Rows, Settled
      <4>2. row'[j].status = "observed" /\ row'[j].plan \in Plans /\ execs'[j] = <<>>
            /\ Settled(j)' \in BOOLEAN
        BY <2>1, <3>1, <4>1 DEF Settled
      <4> QED BY <4>2, EmptyMatches
    <3>2. CASE j # i
      <4>1. Settled(j)' <=> Settled(j)
        BY <1>2, <2>4, <3>2, Ids DEF Settled
      <4>2. Settled(j)' = Settled(j)
        BY <4>1 DEF Settled
      <4>3. Matches(row[j], execs[j], Settled(j)) /\ row'[j] = row[j] /\ execs'[j] = execs[j]
        BY <1>2, <2>1, <3>2 DEF DaemonInv, MatchInv
      <4> QED BY <4>2, <4>3
    <3> QED BY <3>1, <3>2
  <2>10. WaitingInv'
    <3> SUFFICES ASSUME NEW j \in Id PROVE Minded(j)'
      BY DEF WaitingInv
    <3>1. CASE j = i
      BY <2>2, <2>7, <3>1 DEF Minded
    <3>2. CASE j # i
      <4>1. Minded(j) /\ pend.id # j /\ pc.id # j
        BY <1>1, <3>2, Ids DEF DaemonInv, WaitingInv
      <4> QED BY <2>1, <3>2, <4>1 DEF Minded
    <3> QED BY <3>1, <3>2
  <2>11. ResolveInv'
    BY <2>4 DEF ResolveInv
  <2> QED BY <2>3, <2>5, <2>8, <2>9, <2>10, <2>11 DEF DaemonInv
<1>9. CASE /\ anchor' = IF waits THEN Anchored(i, answer) ELSE anchor
           /\ Settle(i, mode, answer)
           /\ UNCHANGED <<gate, pend>>
  <2>1. Moved(i)
    BY <1>1, <1>2, <1>4, <1>9, SettleShape
  <2>2. anchor' \in 0..Veto
    BY <1>9, DaemonAssumption DEF DaemonInv, StoreInv, Anchored
  <2>3. StoreInv'
    BY <1>2, <1>5, <1>6, <1>9, <2>1, <2>2 DEF DaemonInv, StoreInv, Moved
  <2> QED BY <1>1, <1>2, <1>5, <1>9, <2>1, <2>3, DecisionMoves
<1> QED BY <1>3, <1>8, <1>9

-----------------------------------------------------------------------------
(* The steps of the lane tick.                                             *)

\* A tick that finds an execution in flight turns to it.
LEMMA ResolveBegins ==
  ASSUME DaemonInv, pc.at = "idle", pc.id = 0, StoreInv',
         UNCHANGED <<row, execs, appr, gate, touched, poached, pend>>,
         NEW i \in Id, NEW k \in DOMAIN execs[i], execs[i][k] = "flight",
         pc' = [At("resolve") EXCEPT !.id = i, !.step = k]
  PROVE  DaemonInv'
<1>1. /\ execs[i] \in Seq(Results) /\ DOMAIN execs[i] = 1..Len(execs[i]) /\ Len(execs[i]) \in Nat
      /\ Matches(row[i], execs[i], Settled(i))
  BY DEF DaemonInv, StoreInv, MatchInv
<1>2. k \in 0..2 /\ execs[i] # <<>>
  BY <1>1 DEF Matches
<1>3. row[i].status \notin {"none", "observed"}
  BY <1>1, <1>2 DEF Matches
<1>4. i \in poached \/ row[i].status = "executing"
  BY <1>1, Ids DEF Matches, Settled
<1>5. pc'.at = "resolve" /\ pc'.id = i /\ pc'.step = k /\ pc' \in Pcs
  <2>1. At("resolve") \in Pcs /\ At("resolve").at = "resolve"
    BY AtType
  <2> QED BY <1>2, <2>1 DEF Pcs
<1>6. TickInv' /\ RunInv'
  BY <1>5, Ids DEF TickInv, RunInv, Deciding, Running
<1>7. ResolveInv'
  BY <1>3, <1>4, <1>5 DEF ResolveInv
<1>8. PendInv'
  BY <1>5 DEF DaemonInv, PendInv, Agreed
<1>9. MatchInv'
  <2> SUFFICES ASSUME NEW j \in Id PROVE Matches(row'[j], execs'[j], Settled(j)')
    BY DEF MatchInv
  <2>1. Settled(j)' => Settled(j)
    BY Ids DEF Settled
  <2>2. Settled(j)' \in BOOLEAN /\ Settled(j) \in BOOLEAN
    BY DEF Settled
  <2>3. Matches(row[j], execs[j], Settled(j))
    BY DEF DaemonInv, MatchInv
  <2> QED BY <2>1, <2>2, <2>3 DEF Matches
<1>10. WaitingInv'
  BY Ids DEF DaemonInv, WaitingInv, Minded, Up
<1> QED BY <1>6, <1>7, <1>8, <1>9, <1>10 DEF DaemonInv

\* A tick begins, holds, plans, is held by the guard, or goes to ask: no decision changes.
LEMMA QuietSteps ==
  ASSUME DaemonInv,
         \/ BeginTick \/ HoldTick \/ GuardHolds
         \/ \E p \in {Adding, Reducing, Signal} : PlanTick(p)
  PROVE  DaemonInv'
<1> USE DEF DaemonInv
<1>1. CASE BeginTick
  <2>1. pc.at = "idle" /\ pc.id = 0
    BY <1>1, AtType DEF BeginTick
  <2>2. StoreInv' /\ UNCHANGED <<row, execs, appr, gate, touched, poached, pend>>
    BY <1>1 DEF BeginTick, StoreInv, store, memory
  <2>3. CASE Await("sense")
    <3>1. pc' = [Idle EXCEPT !.at = "sense"]
      BY <1>1, <2>3 DEF BeginTick, Await
    <3>2. pc'.at = "sense" /\ pc'.id = 0 /\ pc' \in Pcs
      BY <3>1, AtType DEF Pcs
    <3>3. TickInv'
      BY <3>2 DEF TickInv, Deciding, Running
    <3> QED BY <2>1, <2>2, <3>2, <3>3, QuietTick DEF Up, Running
  <2>4. ASSUME NEW i \in Id, NEW k \in DOMAIN execs[i], execs[i][k] = "flight",
               pc' = [At("resolve") EXCEPT !.id = i, !.step = k]
        PROVE  DaemonInv'
    BY <2>1, <2>2, <2>4, ResolveBegins
  <2> QED BY <1>1, <2>3, <2>4 DEF BeginTick
<1>2. CASE HoldTick
  <2>1. pc.at = "sense" /\ pc.id = 0
    BY <1>2 DEF HoldTick, TickInv, Deciding, Running
  <2>2. pc'.at = "idle" /\ pc'.id = 0 /\ pc' \in Pcs
    BY <1>2, AtType DEF HoldTick, Idle
  <2>3. StoreInv' /\ UNCHANGED <<row, execs, appr, gate, touched, poached, pend>>
    BY <1>2 DEF HoldTick, StoreInv, store, memory
  <2>4. TickInv'
    BY <2>2 DEF TickInv, Deciding, Running
  <2> QED BY <2>1, <2>2, <2>3, <2>4, QuietTick DEF Up, Running
<1>3. CASE GuardHolds
  <2>1. pc.at = "build" /\ pc.id \in Id /\ pend = NoPend /\ row[pc.id].status = "observed"
    BY <1>3, Ids DEF GuardHolds, TickInv, PendInv, Deciding, Running, Pcs
  <2>2. PICK to \in {"blocked", "critic_rejected", "dry_run"} :
          pc' = [pc EXCEPT !.at = "finish", !.to = to]
    BY <1>3 DEF GuardHolds
  <2>3. pc'.at = "finish" /\ pc'.id = pc.id /\ pc' \in Pcs /\ pc'.to = to
    BY <2>2 DEF TickInv, Pcs, Ends, Deciding
  <2>4. StoreInv' /\ UNCHANGED <<row, execs, appr, gate, touched, poached, pend>>
    BY <1>3, HeldAfterType DEF GuardHolds, StoreInv, store
  <2>5. TickInv'
    BY <2>1, <2>3, <2>4, Ids DEF TickInv, Deciding, Running
  <2> QED BY <2>1, <2>3, <2>4, <2>5, QuietTick DEF Up, Running
<1>4. CASE \E p \in {Adding, Reducing, Signal} : PlanTick(p)
  <2> PICK p \in {Adding, Reducing, Signal} : PlanTick(p)
    BY <1>4
  <2>1. pc.at = "sense" /\ pc.id = 0 /\ pend = NoPend /\ Free # {}
    BY DEF PlanTick, TickInv, Deciding, Running
  <2>2. pc'.at = "overlay" /\ pc'.id = 0 /\ pc' \in Pcs /\ pc'.plan = p
    <3>1. At("overlay") \in Pcs /\ At("overlay").at = "overlay" /\ At("overlay").id = 0
      BY AtType
    <3>2. pc' = [At("overlay") EXCEPT !.plan = p] /\ p \in Plans
      BY DEF PlanTick, Plans
    <3> QED BY <3>1, <3>2 DEF Pcs
  <2>3. StoreInv' /\ UNCHANGED <<row, execs, appr, gate, touched, poached, pend>>
    BY DEF PlanTick, StoreInv, store, memory
  <2>4. TickInv'
    BY <2>1, <2>2, <2>3 DEF TickInv, Deciding, Running, Free
  <2> QED BY <2>1, <2>2, <2>3, <2>4, QuietTick DEF Up, Running
<1> QED BY <1>1, <1>2, <1>3, <1>4

\* Something came of the attempt in flight: the executions still match their rows, or the
\* rows the reconciliation then writes.
LEMMA LandedMatches ==
  ASSUME DaemonInv, NEW o \in Results, NEW i \in Id, NEW s \in BOOLEAN, s => Settled(i)
  PROVE  Matches(row[i], Landed(o)[i], s)
<1>1. /\ Len(Landed(o)[i]) = Len(execs[i]) /\ DOMAIN Landed(o)[i] = DOMAIN execs[i]
      /\ execs[i] = <<>> => Landed(o)[i] = <<>>
      /\ \A k \in DOMAIN execs[i] :
           Landed(o)[i][k] = IF execs[i][k] = "flight" THEN o ELSE execs[i][k]
  BY LandedShape DEF DaemonInv
<1>2. Matches(row[i], execs[i], Settled(i))
  BY DEF DaemonInv, MatchInv
<1>3. CASE ~s
  BY <1>1, <1>2, <1>3 DEF Matches
<1>4. CASE s /\ row[i].status = "executing"
  <2>1. Len(Landed(o)[i]) <= 2 /\ Len(Landed(o)[i]) <= Len(row[i].plan)
    BY <1>1, <1>2 DEF Matches
  <2> QED BY <1>4, <2>1, BusyMatches
<1>5. CASE s /\ row[i].status # "executing"
  <2>1. \A k \in DOMAIN execs[i] : execs[i][k] # "flight"
    BY <1>2, <1>5 DEF Matches
  <2>2. \A k \in DOMAIN execs[i] : Landed(o)[i][k] = execs[i][k]
    BY <1>1, <2>1
  <2>3. Settled(i)
    BY <1>5
  <2>4. Landed(o)[i] = execs[i]
    <3>1. Landed(o)[i] \in Seq(Results) /\ execs[i] \in Seq(Results)
      BY LandedShape DEF DaemonInv, StoreInv
    <3>2. Len(Landed(o)[i]) = Len(execs[i]) /\ DOMAIN execs[i] = 1..Len(execs[i])
      BY <1>1, <3>1
    <3> QED BY <2>2, <3>1, <3>2
  <2> QED BY <1>2, <1>5, <2>3, <2>4
<1> QED BY <1>3, <1>4, <1>5

\* The rows after a reconciliation match the executions it read, whoever works on them.
LEMMA ReconciledMatches ==
  ASSUME NEW r \in Rows, NEW x \in [Id -> Seq(Results)], NEW i \in Id, NEW s \in BOOLEAN,
         Matches(r[i], x[i], s), NEW t \in BOOLEAN,
         t => s \/ Reconciled(r, x)[i] # r[i]
  PROVE  Matches(Reconciled(r, x)[i], x[i], t)
<1>1. CASE Reconciled(r, x)[i] = r[i]
  BY <1>1 DEF Matches
<1>2. CASE /\ r[i].status = "executing" /\ \A k \in DOMAIN x[i] : x[i][k] # "flight"
           /\ Reconciled(r, x)[i] = [r[i] EXCEPT !.status = StatusOf(x[i])]
  <2>1. Reconciled(r, x)[i].status = StatusOf(x[i])
    BY <1>2 DEF Rows
  <2>2. Len(x[i]) <= 2 /\ Len(x[i]) <= Len(r[i].plan)
    BY DEF Matches
  <2>3. Reconciled(r, x)[i].plan = r[i].plan /\ r[i].plan \in Plans /\ x[i] \in Seq(Results)
    BY <1>2 DEF Rows
  <2> QED BY <1>2, <2>1, <2>2, <2>3, StatusOfMatches, ZenonT(40)
<1> QED BY <1>1, <1>2, ReconciledShape

\* Reconciliation ends decisions that execute, and changes nothing else.
LEMMA ReconciledRows ==
  ASSUME NEW r \in Rows, NEW x \in [Id -> Seq(Results)]
  PROVE  /\ Reconciled(r, x) \in Rows
         /\ \A i \in Id : \/ Reconciled(r, x)[i] = r[i]
                          \/ /\ r[i].status = "executing" /\ Reconciled(r, x)[i].status \in Ended
                             /\ Reconciled(r, x)[i].mode = r[i].mode
                             /\ Reconciled(r, x)[i].plan = r[i].plan
<1> SUFFICES ASSUME NEW i \in Id, Reconciled(r, x)[i] # r[i]
             PROVE  /\ r[i].status = "executing" /\ Reconciled(r, x)[i].status \in Ended
                    /\ Reconciled(r, x)[i].mode = r[i].mode
                    /\ Reconciled(r, x)[i].plan = r[i].plan
  BY ReconciledShape
<1>1. r[i].status = "executing" /\ Reconciled(r, x)[i] = [r[i] EXCEPT !.status = StatusOf(x[i])]
  BY DEF Reconciled
<1>2. StatusOf(x[i]) \in Ended
  BY DEF StatusOf, Ended
<1> QED BY <1>1, <1>2 DEF Rows

\* The resolver writes what it found of the one execution it looked at.
LEMMA ResolvedShape ==
  ASSUME DaemonInv, ResolveAttempts
  PROVE  /\ pc.at = "resolve" /\ pc.id \in Id /\ Up
         /\ pc.step \in 1..Len(execs[pc.id]) /\ Len(execs[pc.id]) \in Nat
         /\ row[pc.id].status \notin {"none", "observed"}
         /\ pc.id \in poached \/ row[pc.id].status = "executing"
         /\ \E o \in Results :
              /\ o = "flight" => execs[pc.id][pc.step] = "flight"
              /\ execs'[pc.id] = [execs[pc.id] EXCEPT ![pc.step] = o]
         /\ execs' \in [Id -> Seq(Results)] /\ Len(execs'[pc.id]) = Len(execs[pc.id])
         /\ \A j \in Id : j # pc.id => execs'[j] = execs[j]
<1> DEFINE i == pc.id
           k == pc.step
           x == execs[i]
<1>1. /\ pc.at = "resolve" /\ i \in Id /\ Up /\ k \in DOMAIN x
      /\ row[i].status \notin {"none", "observed"} /\ (i \in poached \/ row[i].status = "executing")
  BY Ids DEF ResolveAttempts, DaemonInv, TickInv, ResolveInv, Deciding, Running, Pcs, Up
<1>2. x \in Seq(Results) /\ Len(x) \in Nat /\ DOMAIN x = 1..Len(x)
  BY <1>1 DEF DaemonInv, StoreInv
<1>3. PICK o \in Results : /\ o = "flight" => x[k] = "flight"
                           /\ execs' = [execs EXCEPT ![i] = [x EXCEPT ![k] = o]]
  BY DEF ResolveAttempts, Results
<1> DEFINE y == [x EXCEPT ![k] = o]
<1>4. y \in Seq(Results) /\ Len(y) = Len(x)
  BY <1>1, <1>2
<1>5. execs'[i] = y /\ execs' = [execs EXCEPT ![i] = y]
  BY <1>1, <1>3 DEF DaemonInv, StoreInv
<1>6. execs' \in [Id -> Seq(Results)] /\ \A j \in Id : j # i => execs'[j] = execs[j]
  BY <1>1, <1>4, <1>5 DEF DaemonInv, StoreInv
<1> QED BY <1>1, <1>2, <1>3, <1>4, <1>5, <1>6

\* The resolver, before the tick looks at the market.
LEMMA ResolveKeeps ==
  ASSUME DaemonInv, ResolveAttempts
  PROVE  DaemonInv'
<1> DEFINE i == pc.id
<1>1. /\ pc.at = "resolve" /\ i \in Id /\ Up
      /\ row[i].status \notin {"none", "observed"} /\ (i \in poached \/ row[i].status = "executing")
  BY ResolvedShape
<1>2. row' = Reconciled(row, execs')
  BY DEF ResolveAttempts
<1>3. /\ UNCHANGED <<desk, appr, anchor, files, touched, memory, lost, poached, crashes>>
      /\ pc' = At("sense")
  BY DEF ResolveAttempts
<1>4. Len(execs'[i]) = Len(execs[i])
  BY ResolvedShape
<1>5. execs' \in [Id -> Seq(Results)] /\ (\A j \in Id : j # i => execs'[j] = execs[j]) /\ row \in Rows
  BY ResolvedShape DEF DaemonInv, StoreInv
<1>6. /\ row' \in Rows
      /\ \A j \in Id : \/ row'[j] = row[j]
                       \/ row[j].status = "executing" /\ row'[j].status \in Ended
                          /\ row'[j].mode = row[j].mode
  BY <1>2, <1>5, ReconciledRows
<1>7. StoreInv'
  BY <1>3, <1>5, <1>6 DEF DaemonInv, StoreInv, memory
<1>8. pc'.at = "sense" /\ pc'.id = 0 /\ pc' \in Pcs
  BY <1>3, AtType
<1>9. TickInv' /\ RunInv' /\ ResolveInv'
  BY <1>8 DEF TickInv, RunInv, ResolveInv, Deciding, Running
<1>10. PendInv'
  BY <1>1, <1>3, <1>6, <1>8 DEF DaemonInv, PendInv, memory, Agreed, Ended
<1>11. MatchInv'
  <2> SUFFICES ASSUME NEW j \in Id PROVE Matches(row'[j], execs'[j], Settled(j)')
    BY DEF MatchInv
  <2>1. (Settled(j)' <=> j \notin poached) /\ Settled(j)' \in BOOLEAN
    BY <1>3, <1>8, Ids DEF Settled
  <2>2. Matches(row[j], execs[j], Settled(j))
    BY DEF DaemonInv, MatchInv
  <2>3. CASE j # i
    <3>1. (Settled(j)' <=> Settled(j)) /\ execs'[j] = execs[j]
      BY <1>5, <2>1, <2>3 DEF Settled
    <3>2. Settled(j) \in BOOLEAN
      BY DEF Settled
    <3>3. Matches(row[j], execs'[j], Settled(j)')
      BY <2>1, <2>2, <3>1, <3>2
    <3> QED BY <1>2, <1>5, <2>1, <3>3, ReconciledMatches
  <2>4. CASE j = i
    <3>1. Matches(row[j], execs'[j], Settled(j)')
      <4>1. Len(execs'[j]) <= 2 /\ Len(execs'[j]) <= Len(row[j].plan)
        BY <1>4, <2>2, <2>4 DEF Matches
      <4>2. Settled(j)' => row[j].status = "executing"
        BY <1>1, <2>1, <2>4
      <4>3. row[j].status \notin {"none", "observed"}
        BY <1>1, <2>4
      <4>4. CASE Settled(j)'
        BY <2>1, <4>1, <4>2, <4>4, BusyMatches
      <4>5. CASE ~Settled(j)'
        BY <4>1, <4>3, <4>5 DEF Matches
      <4> QED BY <4>4, <4>5
    <3> QED BY <1>2, <1>5, <2>1, <3>1, ReconciledMatches
  <2> QED BY <2>3, <2>4
<1>12. WaitingInv'
  <2> SUFFICES ASSUME NEW j \in Id PROVE Minded(j)'
    BY DEF WaitingInv
  <2>1. Minded(j)
    BY <1>1 DEF DaemonInv, WaitingInv
  <2>2. row'[j].status = "observed" => row[j].status = "observed" /\ j # i
    BY <1>1, <1>6 DEF Ended
  <2> QED BY <1>3, <2>1, <2>2 DEF Minded, memory
<1> QED BY <1>7, <1>9, <1>10, <1>11, <1>12 DEF DaemonInv

\* A tick that finds a pending decision withdraws it, or takes its answer.
LEMMA PendingSteps ==
  ASSUME DaemonInv, PreemptTick \/ SettleTick \/ ExpireTick
  PROVE  DaemonInv'
<1> Reducing \in Plans /\ Nothing \in Plans
  BY DEF Plans
<1>1. CASE PreemptTick
  BY <1>1, WithdrawKeeps DEF PreemptTick
<1>2. CASE ExpireTick
  BY <1>2, WithdrawKeeps DEF ExpireTick
<1>3. CASE SettleTick
  <2>1. /\ pend.id \in Id /\ pend.mode \in Postures /\ pend.ans \in Outcome
        /\ row[pend.id].status = "observed" /\ pc.id = 0 /\ Up
    BY <1>3, Ids DEF SettleTick, DaemonInv, PendInv, TickInv, Deciding, Running, Up
  <2>2. /\ pend' = NoPend /\ Settle(pend.id, pend.mode, pend.ans)
        /\ UNCHANGED <<desk, appr, execs, anchor, files, touched, gate, withdrawn, lost,
                       poached, crashes>>
    BY <1>3 DEF SettleTick
  <2>3. Moved(pend.id)
    BY <2>1, <2>2, SettleShape
  <2>4. StoreInv'
    BY <2>2, <2>3 DEF Moved, DaemonInv, StoreInv
  <2> QED BY <2>1, <2>2, <2>3, <2>4, DecisionMoves
<1> QED BY <1>1, <1>2, <1>3

\* The tick ends its decision before any step of it.
LEMMA EndingSteps ==
  ASSUME DaemonInv, EndWithdraw \/ Revoked \/ Finish
  PROVE  DaemonInv'
<1> DEFINE i == pc.id
<1>1. /\ pc.at \in {"withdraw", "build", "finish"} /\ i \in Id /\ pend = NoPend /\ pend.id = 0
      /\ row[i].status = "observed" /\ Up /\ execs[i] = <<>> /\ row \in Rows
  BY Ids DEF EndWithdraw, Revoked, Finish, DaemonInv, PendInv, TickInv, Deciding, Running, Up,
             NoPend, MatchInv, Matches, StoreInv, Pcs
<1>2. /\ UNCHANGED <<desk, appr, execs, anchor, files, touched, gate, pend, withdrawn, lost,
                     poached, crashes>>
      /\ hold' \in [Class -> 0..Retry]
  BY HeldAfterType DEF EndWithdraw, Revoked, Finish, memory, DaemonInv, StoreInv
<1>3. PICK to \in {"declined", "blocked", "advisory", "critic_rejected", "dry_run"} :
        row' = [row EXCEPT ![i].status = to]
  BY DEF EndWithdraw, Revoked, Finish, DaemonInv, TickInv
<1>4. /\ row' \in Rows /\ row'[i].status = to /\ row'[i].mode = row[i].mode
      /\ \A j \in Id : j # i => row'[j] = row[j]
  BY <1>1, <1>3 DEF Rows, Refused
<1>5. pc' = Idle \/ (pc' = [At("overlay") EXCEPT !.plan = Reducing] /\ Free # {})
  BY DEF EndWithdraw, Revoked, Finish
<1>6. /\ pc'.at \in {"idle", "overlay"} /\ pc'.id = 0 /\ pc' \in Pcs
      /\ pc'.at = "overlay" => Free # {} /\ pc'.plan = Reducing
  <2>1. At("overlay") \in Pcs /\ At("overlay").at = "overlay" /\ At("overlay").id = 0
    BY AtType
  <2>2. Reducing \in Plans
    BY DEF Plans
  <2> QED BY <1>5, <2>1, <2>2, AtType DEF Pcs
<1>7. Free' = Free
  BY <1>1, <1>4 DEF Free
<1>8. TickInv' /\ RunInv'
  BY <1>6, <1>7 DEF TickInv, RunInv, Deciding, Running
<1>9. Matches(row'[i], execs'[i], Settled(i)')
  <2>1. row'[i].plan \in Plans /\ execs'[i] = <<>> /\ Settled(i)' \in BOOLEAN
    BY <1>1, <1>2, <1>4 DEF Rows, Settled
  <2>2. row'[i].status \in Refused
    BY <1>4 DEF Refused
  <2> QED BY <1>4, <2>1, <2>2, EmptyMatches
<1>10. Moved(i)
  BY <1>2, <1>4, <1>6, <1>8, <1>9 DEF Moved
<1>11. StoreInv'
  BY <1>2, <1>4 DEF DaemonInv, StoreInv
<1> QED BY <1>1, <1>2, <1>10, <1>11, DecisionMoves

\* A new decision gets its row.
LEMMA InsertKeeps ==
  ASSUME DaemonInv, Insert
  PROVE  DaemonInv'
<1> DEFINE i == NextId
<1>1. pc.at = "overlay" /\ pc.id = 0 /\ pend = NoPend /\ pend.id = 0 /\ Up /\ row \in Rows
      /\ pc.plan \in {Adding, Reducing, Signal}
  BY DEF Insert, DaemonInv, PendInv, TickInv, Deciding, Running, Up, NoPend, StoreInv
<1>2. i \in Id /\ row[i].status = "none"
  BY <1>1, NextIdIsFree DEF Free, DaemonInv, TickInv
<1>3. PICK q \in Overlaid(pc.plan) :
        row' = [row EXCEPT ![i].status = "observed", ![i].plan = q]
  BY DEF Insert
<1>4. /\ pc' = [At("build") EXCEPT !.id = i]
      /\ UNCHANGED <<desk, appr, execs, anchor, files, touched, memory, lost, poached, crashes>>
  BY DEF Insert
<1>5. q \in Plans
  BY <1>1, <1>3 DEF Overlaid, Plans
<1> HIDE DEF i
<1>6. /\ row' \in Rows /\ row'[i].status = "observed"
      /\ \A j \in Id : j # i => row'[j] = row[j]
  BY <1>1, <1>2, <1>3, <1>5 DEF Rows
<1>7. pc'.at = "build" /\ pc'.id = i /\ pc' \in Pcs
  <2>1. At("build") \in Pcs /\ At("build").at = "build"
    BY AtType DEF Deciding
  <2> QED BY <1>2, <1>4, <2>1 DEF Pcs
<1>8. TickInv' /\ RunInv'
  BY <1>2, <1>6, <1>7, Ids DEF TickInv, RunInv, Deciding, Running
<1>9. Matches(row'[i], execs'[i], Settled(i)')
  <2>1. execs[i] = <<>>
    BY <1>2 DEF DaemonInv, MatchInv, Matches
  <2>2. row'[i].plan \in Plans /\ execs'[i] = <<>> /\ Settled(i)' \in BOOLEAN
    BY <1>2, <1>4, <1>6, <2>1 DEF Rows, Settled
  <2> QED BY <1>6, <2>2, EmptyMatches
<1>10. Moved(i)
  BY <1>4, <1>6, <1>7, <1>8, <1>9 DEF Moved, memory, DaemonInv, StoreInv
<1>11. StoreInv'
  BY <1>4, <1>6 DEF DaemonInv, StoreInv, memory
<1> QED BY <1>1, <1>2, <1>4, <1>10, <1>11, DecisionMoves DEF memory

\* The desk's posture, and the question to the gate it may call for.
LEMMA AskingSteps ==
  ASSUME DaemonInv, Posture \/ Ask
  PROVE  DaemonInv'
<1>1. PostureMode \in Postures
  BY DEF PostureMode, EffectiveMode, Postures, DaemonInv, StoreInv
<1>2. CASE Ask
  <2>1. pc.at = "ask" /\ pc.mode \in Postures
    BY <1>2 DEF Ask, DaemonInv, TickInv, Postures
  <2> QED BY <1>2, <2>1, AskGateKeeps DEF Ask
<1>3. CASE Posture /\ AskGate(pc.id, PostureMode)
  BY <1>1, <1>3, AskGateKeeps DEF Posture
<1>4. CASE /\ pc.at = "build" /\ PostureMode = "copilot"
           /\ pc' = [pc EXCEPT !.at = "ask", !.mode = PostureMode]
           /\ UNCHANGED <<store, files, touched, memory, lost, poached, crashes>>
  <2>1. pc.id \in Id /\ pend = NoPend /\ row[pc.id].status = "observed"
    BY <1>4, Ids DEF DaemonInv, TickInv, PendInv, Deciding, Running, Pcs
  <2>2. pc'.at = "ask" /\ pc'.id = pc.id /\ pc' \in Pcs /\ pc'.mode = "copilot"
    BY <1>1, <1>4 DEF DaemonInv, TickInv, Pcs, Deciding
  <2>3. StoreInv' /\ UNCHANGED <<row, execs, appr, gate, touched, poached, pend>>
    BY <1>4 DEF DaemonInv, StoreInv, store, memory
  <2>4. TickInv'
    BY <2>1, <2>2, <2>3, Ids DEF TickInv, Deciding, Running, DaemonInv
  <2>5. pc'.id = pc.id /\ Up /\ pc'.at \notin Running /\ pc'.at # "resolve"
    BY <1>4, <2>2 DEF Up, Running
  <2> QED BY <2>1, <2>3, <2>4, <2>5, QuietTick
<1> QED BY <1>2, <1>3, <1>4 DEF Posture

\* What the tick knows of the decision whose steps it runs.
LEMMA UnderWay ==
  ASSUME DaemonInv, pc.at \in Running
  PROVE  /\ pc.id \in Id /\ Up /\ pend = NoPend /\ pend.id = 0
         /\ row \in Rows /\ row[pc.id].plan \in Plans /\ NotedRows(row, pc.id)
         /\ row[pc.id].status \notin {"none", "observed"}
         /\ pc.step \in 1..2 /\ pc.step <= Len(row[pc.id].plan) /\ Len(row[pc.id].plan) <= 2
         /\ execs[pc.id] \in Seq(Results) /\ DOMAIN execs[pc.id] = 1..Len(execs[pc.id])
<1>1. /\ pc.id \in Id /\ Up /\ pend = NoPend /\ pend.id = 0 /\ row \in Rows
      /\ row[pc.id].status \notin {"none", "observed"}
  BY Ids DEF DaemonInv, StoreInv, TickInv, PendInv, Deciding, Running, Up, NoPend, Pcs
<1>2. row[pc.id].plan \in Plans /\ NotedRows(row, pc.id)
  BY <1>1 DEF Rows, NotedRows
<1>3. execs[pc.id] \in Seq(Results) /\ DOMAIN execs[pc.id] = 1..Len(execs[pc.id])
  BY <1>1 DEF DaemonInv, StoreInv
<1>4. pc.step \in 1..Len(row[pc.id].plan)
  BY DEF DaemonInv, RunInv
<1>5. Len(row[pc.id].plan) \in Nat /\ Len(row[pc.id].plan) <= 2
  BY <1>2, PlanLength
<1> QED BY <1>1, <1>2, <1>3, <1>4, <1>5

\* A step of a decision is refused, or its outcome ends the decision or leads to the next step.
LEMMA RunSteps ==
  ASSUME DaemonInv,
         AfterStep \/ \E to \in {"blocked", "failed"} : StepRefused(to)
  PROVE  DaemonInv'
<1> DEFINE i == pc.id
           k == pc.step
<1>1. pc.at \in {"ready", "after"}
      /\ UNCHANGED <<desk, appr, execs, anchor, files, touched, gate, pend, withdrawn, lost,
                     poached, crashes>>
  BY DEF AfterStep, StepRefused
<1>2. /\ i \in Id /\ Up /\ pend = NoPend /\ pend.id = 0
      /\ row \in Rows /\ row[i].plan \in Plans /\ NotedRows(row, i)
      /\ row[i].status \notin {"none", "observed"}
      /\ k \in 1..2 /\ k <= Len(row[i].plan) /\ Len(row[i].plan) <= 2
      /\ execs[i] \in Seq(Results) /\ DOMAIN execs[i] = 1..Len(execs[i])
  BY <1>1, UnderWay DEF Running
<1>3. \A m \in 1..(k - 1) : execs[i][m] = "confirmed"
  BY <1>1 DEF DaemonInv, RunInv, Running
<1>4. Moved(i) /\ row'[i].status # "observed"
  <2>1. ASSUME NEW to \in {"blocked", "failed"}, StepRefused(to)
        PROVE  Moved(i) /\ row'[i].status # "observed"
    <3>1. pc.at = "ready" /\ StopAt(i, k, to, row)
      BY <2>1 DEF StepRefused
    <3>2. Len(execs[i]) = k - 1
      BY <3>1 DEF DaemonInv, RunInv, Running
    <3>3. Trail(i, k)
      BY <1>2, <1>3, <3>2 DEF Trail
    <3> QED BY <1>1, <1>2, <3>1, <3>2, <3>3, StopAtShape
  <2>2. ASSUME AfterStep PROVE Moved(i) /\ row'[i].status # "observed"
    <3>1. pc.at = "after" /\ Len(execs[i]) = k /\ pc.to \in {"confirmed", "flight", "failed", "denied"}
      BY <2>2 DEF AfterStep, DaemonInv, RunInv, Running
    <3>2. CASE pc.to = "confirmed" /\ EnterStep(i, k + 1, row)
      <4>1. execs[i][k] = "confirmed"
        BY <3>1, <3>2 DEF DaemonInv, RunInv, Running
      <4>2. \A m \in 1..((k + 1) - 1) : execs[i][m] = "confirmed"
        BY <1>2, <1>3, <4>1
      <4>3. k + 1 \in 1..3 /\ k + 1 <= Len(row[i].plan) + 1 /\ Len(execs[i]) = (k + 1) - 1
        BY <1>2, <3>1, PlanLength
      <4> QED BY <1>1, <1>2, <3>2, <4>2, <4>3, EnterStepShape
    <3>3. CASE /\ pc.to = "flight"
               /\ hold' = HeldAfter(<<row[i].plan[k]>>)
               /\ row' = [row EXCEPT ![i].status = "executing"]
               /\ pc' = Idle
      <4>1. /\ row' \in Rows /\ row'[i].status = "executing"
            /\ \A j \in Id : j # i => row'[j] = row[j]
        BY <1>2, <3>3 DEF Rows
      <4>2. pc'.at = "idle" /\ pc'.id = 0 /\ pc' \in Pcs
        BY <3>3, AtType
      <4>3. TickInv' /\ RunInv'
        BY <4>2 DEF TickInv, RunInv, Deciding, Running
      <4>4. hold' \in [Class -> 0..Retry]
        BY <3>3, HeldAfterType DEF DaemonInv
      <4>5. Matches(row'[i], execs'[i], Settled(i)')
        <5>1. /\ row'[i].plan = row[i].plan /\ execs' = execs /\ Settled(i)' \in BOOLEAN
              /\ Len(execs[i]) <= 2 /\ Len(execs[i]) <= Len(row[i].plan)
          BY <1>1, <1>2, <3>1, <3>3 DEF Rows, Settled
        <5> QED BY <4>1, <5>1, BusyMatches
      <4> QED BY <4>1, <4>2, <4>3, <4>4, <4>5 DEF Moved
    <3>4. CASE pc.to = "failed" /\ StopAt(i, k, "failed", row)
      <4>1. execs[i][k] = "failed"
        BY <3>1, <3>4 DEF DaemonInv, RunInv, Running
      <4>2. Trail(i, k)
        BY <1>2, <1>3, <3>1, <4>1 DEF Trail
      <4> QED BY <1>1, <1>2, <3>1, <3>4, <4>2, StopAtShape
    <3>5. CASE pc.to = "denied" /\ StopAt(i, k, "policy_denied", row)
      <4>1. execs[i][k] = "failed"
        BY <3>1, <3>5 DEF DaemonInv, RunInv, Running
      <4>2. Trail(i, k)
        BY <1>2, <1>3, <3>1, <4>1 DEF Trail
      <4> QED BY <1>1, <1>2, <3>1, <3>5, <4>2, StopAtShape
    <3> QED BY <2>2, <3>2, <3>3, <3>4, <3>5 DEF AfterStep
  <2> QED BY <2>1, <2>2
<1>5. StoreInv'
  BY <1>1, <1>4 DEF Moved, DaemonInv, StoreInv
<1> QED BY <1>1, <1>2, <1>4, <1>5, DecisionMoves

\* The executor writes its row ahead of the step.
LEMMA StepStartsKeeps ==
  ASSUME DaemonInv, StepStarts
  PROVE  DaemonInv'
<1> DEFINE i == pc.id
           k == pc.step
<1>1. /\ pc.at = "ready" /\ execs' = [execs EXCEPT ![i] = Append(execs[i], "flight")]
      /\ pc' = [pc EXCEPT !.at = "run"]
      /\ UNCHANGED <<desk, row, appr, anchor, files, touched, memory, lost, poached, crashes>>
  BY DEF StepStarts, Await
<1>2. /\ i \in Id /\ Up /\ pend = NoPend /\ pend.id = 0 /\ row[i].plan \in Plans
      /\ row[i].status \notin {"none", "observed"}
      /\ k \in 1..2 /\ k <= Len(row[i].plan) /\ Len(row[i].plan) <= 2
      /\ execs[i] \in Seq(Results) /\ DOMAIN execs[i] = 1..Len(execs[i])
  BY <1>1, UnderWay DEF Running
<1>3. Len(execs[i]) = k - 1 /\ (\A m \in 1..(k - 1) : execs[i][m] = "confirmed")
      /\ (i \in poached \/ row[i].status = "executing")
  BY <1>1 DEF DaemonInv, RunInv, Running
<1>4. /\ execs' \in [Id -> Seq(Results)] /\ (\A j \in Id : j # i => execs'[j] = execs[j])
      /\ execs'[i] = Append(execs[i], "flight")
  BY <1>1, <1>2 DEF DaemonInv, StoreInv, Results
<1>5. /\ Len(execs'[i]) = k /\ execs'[i][k] = "flight"
      /\ \A m \in 1..(k - 1) : execs'[i][m] = "confirmed"
  <2> DEFINE x == execs[i]
             y == Append(x, "flight")
  <2>1. x \in Seq(Results) /\ Len(x) = k - 1 /\ "flight" \in Results
    BY <1>2, <1>3 DEF Results
  <2>2. Len(y) = k /\ y[k] = "flight" /\ \A m \in 1..(k - 1) : y[m] = x[m]
    BY <1>2, <2>1
  <2> QED BY <1>3, <1>4, <2>2
<1>6. StoreInv'
  BY <1>1, <1>4 DEF DaemonInv, StoreInv, memory
<1>7. pc'.at = "run" /\ pc'.id = i /\ pc'.step = k /\ pc' \in Pcs
  BY <1>1 DEF DaemonInv, TickInv, Pcs, Running
<1>8. TickInv'
  BY <1>1, <1>2, <1>7, Ids DEF TickInv, Deciding, Running
<1>9. k \in 1..Len(row[i].plan)
  BY <1>2, PlanLength
<1>10. RunInv'
  BY <1>1, <1>3, <1>5, <1>7, <1>9 DEF RunInv, Running, memory
<1>11. PendInv'
  BY <1>1, <1>2 DEF PendInv, memory
<1>12. MatchInv'
  <2> SUFFICES ASSUME NEW j \in Id PROVE Matches(row'[j], execs'[j], Settled(j)')
    BY DEF MatchInv
  <2>1. CASE j = i
    <3>1. ~Settled(j)'
      BY <1>7, <2>1 DEF Settled
    <3> QED BY <1>1, <1>2, <1>5, <2>1, <3>1 DEF Matches
  <2>2. CASE j # i
    <3>1. Settled(j)' = Settled(j)
      BY <1>1, <1>7, <2>2 DEF Settled
    <3> QED BY <1>1, <1>4, <2>2, <3>1 DEF DaemonInv, MatchInv
  <2> QED BY <2>1, <2>2
<1>13. WaitingInv'
  BY <1>1, <1>2, <1>7 DEF DaemonInv, WaitingInv, Minded, memory, Up
<1>14. ResolveInv'
  BY <1>7 DEF ResolveInv
<1> QED BY <1>6, <1>8, <1>10, <1>11, <1>12, <1>13, <1>14 DEF DaemonInv

\* The executor's outcome of the step.
LEMMA StepEndsKeeps ==
  ASSUME DaemonInv, NEW o \in {"confirmed", "failed", "denied", "flight"},
         StepEnds(o)
  PROVE  DaemonInv'
<1> DEFINE i == pc.id
           k == pc.step
           v == IF o = "denied" THEN "failed" ELSE o
<1>1. /\ pc.at = "run" /\ execs' = [execs EXCEPT ![i] = [execs[i] EXCEPT ![k] = v]]
      /\ pc' = [pc EXCEPT !.at = "after", !.to = o]
      /\ UNCHANGED <<desk, row, appr, anchor, files, touched, memory, lost, poached, crashes>>
  BY DEF StepEnds
<1>2. /\ i \in Id /\ Up /\ pend = NoPend /\ pend.id = 0 /\ row[i].plan \in Plans
      /\ row[i].status \notin {"none", "observed"}
      /\ k \in 1..2 /\ k <= Len(row[i].plan) /\ Len(row[i].plan) <= 2
      /\ execs[i] \in Seq(Results) /\ DOMAIN execs[i] = 1..Len(execs[i])
  BY <1>1, UnderWay DEF Running
<1>3. Len(execs[i]) = k /\ (\A m \in 1..(k - 1) : execs[i][m] = "confirmed")
      /\ (i \in poached \/ row[i].status = "executing")
  BY <1>1 DEF DaemonInv, RunInv, Running
<1>4. v \in Results
  BY DEF Results
<1>5. /\ execs'[i] \in Seq(Results) /\ Len(execs'[i]) = k /\ execs'[i][k] = v
      /\ \A m \in 1..(k - 1) : execs'[i][m] = "confirmed"
  <2> DEFINE x == execs[i]
             y == [x EXCEPT ![k] = v]
  <2>1. x \in Seq(Results) /\ Len(x) = k /\ k \in DOMAIN x
    BY <1>2, <1>3
  <2>2. y \in Seq(Results) /\ Len(y) = k /\ y[k] = v /\ \A m \in 1..(k - 1) : y[m] = x[m]
    BY <1>2, <1>4, <2>1
  <2>3. execs'[i] = y
    BY <1>1, <1>2 DEF DaemonInv, StoreInv
  <2> QED BY <1>3, <2>2, <2>3
<1>6. execs' \in [Id -> Seq(Results)] /\ \A j \in Id : j # i => execs'[j] = execs[j]
  <2>1. execs' = [execs EXCEPT ![i] = execs'[i]]
    BY <1>1, <1>2 DEF DaemonInv, StoreInv
  <2> QED BY <1>2, <1>5, <2>1 DEF DaemonInv, StoreInv
<1>7. StoreInv'
  BY <1>1, <1>6 DEF DaemonInv, StoreInv, memory
<1>8. pc'.at = "after" /\ pc'.id = i /\ pc'.step = k /\ pc'.to = o /\ pc' \in Pcs
  BY <1>1 DEF DaemonInv, TickInv, Pcs, Ends, Running
<1>9. TickInv'
  BY <1>1, <1>2, <1>8, Ids DEF TickInv, Deciding, Running
<1>10. RunInv'
  <2>1. k \in 1..Len(row[i].plan)
    BY <1>2, PlanLength
  <2> QED BY <1>1, <1>3, <1>5, <1>8, <2>1 DEF RunInv, Running
<1>11. PendInv'
  BY <1>1, <1>2 DEF PendInv, memory
<1>12. MatchInv'
  <2> SUFFICES ASSUME NEW j \in Id PROVE Matches(row'[j], execs'[j], Settled(j)')
    BY DEF MatchInv
  <2>1. CASE j = i
    <3>1. ~Settled(j)'
      BY <1>8, <2>1 DEF Settled
    <3> QED BY <1>1, <1>2, <1>5, <2>1, <3>1 DEF Matches
  <2>2. CASE j # i
    <3>1. Settled(j)' = Settled(j)
      BY <1>1, <1>8, <2>2 DEF Settled
    <3> QED BY <1>1, <1>6, <2>2, <3>1 DEF DaemonInv, MatchInv
  <2> QED BY <2>1, <2>2
<1>13. WaitingInv'
  BY <1>1, <1>2, <1>8 DEF DaemonInv, WaitingInv, Minded, memory, Up
<1>14. ResolveInv'
  BY <1>8 DEF ResolveInv
<1> QED BY <1>7, <1>9, <1>10, <1>11, <1>12, <1>13, <1>14 DEF DaemonInv

-----------------------------------------------------------------------------
(* The gate, the humans and the reconcile timer, beside the tick.          *)

\* A step that leaves the tick, the rows and the executions alone.
LEMMA BesideTick ==
  ASSUME DaemonInv, UNCHANGED <<pc, row, execs, poached>>, StoreInv', PendInv',
         Up => \A i \in Id : Minded(i)'
  PROVE  DaemonInv'
<1>1. TickInv' /\ RunInv' /\ ResolveInv'
  BY DEF DaemonInv, TickInv, RunInv, ResolveInv, Free
<1>2. MatchInv'
  BY DEF DaemonInv, MatchInv, Settled
<1>3. WaitingInv'
  BY DEF WaitingInv, Up
<1> QED BY <1>1, <1>2, <1>3 DEF DaemonInv

\* The gate reads an answer, closes its window, sleeps on, or fails.
LEMMA GateSteps ==
  ASSUME DaemonInv, NEW i \in Id, GateWake(i) \/ GateFails(i)
  PROVE  DaemonInv'
<1> DEFINE answer == IF GateWake(i) THEN AnswerOf(row[i].mode, Poll(i)) ELSE "timeout"
<1>1. UNCHANGED <<desk, row, execs, touched, withdrawn, hold, lost, pc, poached, crashes>>
  BY DEF GateWake, GateFails, store
<1>2. \/ /\ gate' = [gate EXCEPT ![i] = NoGate]
         /\ appr' = appr \/ (GateWake(i) /\ Poll(i) = "none" /\ appr' = Closed(i, "expired"))
         /\ anchor' \in {anchor, Veto}
         /\ pend' = Delivered(i, answer)
      \/ /\ gate' = [gate EXCEPT ![i].waited = gate[i].waited + 1, ![i].due = 1]
         /\ UNCHANGED <<appr, anchor, pend>>
  BY DEF GateWake, GateFails, store, Anchored
<1>3. /\ answer \in Outcome \ {"none"}
      /\ answer = "approved" => GateWake(i) /\ Poll(i) = "approve"
      /\ row[i].mode = "copilot" => answer # "not_required"
  BY AnswerShape DEF Outcome
<1> HIDE DEF answer
<1>4. appr' = appr \/ (Poll(i) = "none" /\ appr[i].status = "pending"
                         /\ appr' = [appr EXCEPT ![i].status = "expired"])
  BY <1>2 DEF Closed
<1>5. appr' \in Apprs /\ (\A j \in Id : appr'[j].status \in {appr[j].status, "expired"})
      /\ \A j \in Id : j # i \/ appr[j].status # "pending" => appr'[j] = appr[j]
  <2>1. appr \in Apprs
    BY DEF DaemonInv, StoreInv
  <2>2. CASE appr' = appr
    BY <2>1, <2>2
  <2>3. CASE appr[i].status = "pending" /\ appr' = [appr EXCEPT ![i].status = "expired"]
    BY <2>1, <2>3 DEF Apprs
  <2> QED BY <1>4, <2>2, <2>3
<1>6. gate' \in Gates /\ \A j \in Id : j # i => gate'[j] = gate[j]
  <2>1. gate \in Gates
    BY DEF DaemonInv, StoreInv
  <2>2. CASE gate' = [gate EXCEPT ![i] = NoGate]
    BY <2>1, <2>2 DEF Gates, NoGate
  <2>3. CASE gate' = [gate EXCEPT ![i].waited = gate[i].waited + 1, ![i].due = 1]
    <3>1. gate[i].waited + 1 \in Nat
      BY <2>1 DEF Gates
    <3> QED BY <2>1, <2>3, <3>1 DEF Gates
  <2> QED BY <1>2, <2>2, <2>3
<1>7. files' \subseteq touched /\ anchor' \in 0..Veto
  BY <1>2, DaemonAssumption DEF DaemonInv, StoreInv, GateWake, GateFails, Consumed
<1>8. StoreInv'
  BY <1>1, <1>5, <1>6, <1>7 DEF DaemonInv, StoreInv
<1>9. pend' = pend \/ (pend.id = i /\ pend' = [pend EXCEPT !.ans = answer])
  BY <1>2 DEF Delivered
<1>10. \A j \in Id : Agreed(j) => Agreed(j)'
  BY <1>1, <1>5 DEF Agreed
<1>11. PendInv'
  <2>1. CASE pend = NoPend
    <3>1. pend' = NoPend
      BY <1>9, <2>1, Ids DEF NoPend
    <3> QED BY <3>1 DEF PendInv
  <2>2. CASE pend # NoPend
    <3>1. /\ pend \in [id : Id, ans : Outcome, left : Nat, mode : Postures]
          /\ pc.at \in {"idle", "resolve", "sense"}
          /\ row[pend.id].status = "observed" /\ row[pend.id].mode = pend.mode
          /\ pend.ans = "approved" => Agreed(pend.id)
          /\ pend.mode = "copilot" => pend.ans # "not_required"
      BY <2>2 DEF DaemonInv, PendInv
    <3>2. CASE pend' = pend
      BY <1>1, <1>10, <3>1, <3>2 DEF PendInv
    <3>3. CASE pend.id = i /\ pend' = [pend EXCEPT !.ans = answer]
      <4>1. pend'.id = i /\ pend'.mode = pend.mode /\ pend'.ans = answer
            /\ pend' \in [id : Id, ans : Outcome, left : Nat, mode : Postures]
        BY <1>3, <3>1, <3>3
      <4>2. answer = "approved" => Agreed(i)'
        BY <1>3, <1>10, ApprovalsAgree DEF DaemonInv
      <4> QED BY <1>1, <1>3, <3>1, <3>3, <4>1, <4>2 DEF PendInv
    <3> QED BY <1>9, <3>2, <3>3
  <2> QED BY <2>1, <2>2
<1>12. ASSUME NEW j \in Id, Up PROVE Minded(j)'
  <2>1. pend'.id = pend.id
    BY <1>9 DEF DaemonInv, PendInv, NoPend
  <2>2. Minded(j)
    BY <1>12 DEF DaemonInv, WaitingInv
  <2>3. CASE j # i
    <3>1. pend'.ans = pend.ans \/ pend'.id # j
      BY <1>9, <2>1, <2>3
    <3> QED BY <1>1, <1>5, <1>6, <2>1, <2>2, <2>3, <3>1 DEF Minded
  <2>4. CASE j = i
    <3>1. row[i].status = "observed" => pend'.id = i \/ pc.id = i
      BY <2>1, <2>2, <2>4 DEF Minded
    <3>2. CASE gate'[i].at = "asleep"
      BY <1>1, <2>4, <3>1, <3>2 DEF Minded
    <3>3. CASE gate'[i].at # "asleep"
      <4>1. pend' = Delivered(i, answer)
        <5>1. gate[i].at = "asleep"
          BY DEF GateWake, GateFails
        <5> QED BY <1>2, <3>3, <5>1 DEF DaemonInv, StoreInv, Gates
      <4>2. pend.id = i => pend'.ans # "none"
        <5>1. ASSUME pend.id = i PROVE pend'.ans = answer
          <6>1. pend # NoPend
            BY <5>1, Ids DEF NoPend
          <6> QED BY <4>1, <5>1, <6>1 DEF DaemonInv, PendInv, Delivered
        <5> QED BY <1>3, <5>1
      <4> QED BY <1>1, <2>1, <2>4, <3>1, <4>2 DEF Minded
    <3> QED BY <3>2, <3>3
  <2> QED BY <2>3, <2>4
<1> QED BY <1>1, <1>8, <1>11, <1>12, BesideTick

\* A human answers or leaves a file, a setting changes, the lock is lost, time passes.
LEMMA OutsideSteps ==
  ASSUME DaemonInv,
         \/ \E i \in Id : \E ok \in BOOLEAN : Respond(i, ok)
         \/ \E i \in Id : \E k \in {"approve", "cancel"} : Touch(i, k)
         \/ \E m \in Mode : SetMode(m)
         \/ \E s \in Status : SetStatus(s)
         \/ LoseLock
  PROVE  DaemonInv'
<1>1. UNCHANGED <<row, execs, anchor, memory, pc, poached, crashes>>
  BY DEF Respond, Touch, SetMode, SetStatus, LoseLock, store
<1>2. /\ desk' \in [mode : Mode, status : Status] /\ lost' \in BOOLEAN
      /\ appr' \in Apprs /\ files' \subseteq touched' /\ touched' \subseteq Id \X {"approve", "cancel"}
  <2>1. /\ desk \in [mode : Mode, status : Status] /\ lost \in BOOLEAN /\ appr \in Apprs
        /\ files \subseteq touched /\ touched \subseteq Id \X {"approve", "cancel"}
    BY DEF DaemonInv, StoreInv
  <2>2. desk' \in [mode : Mode, status : Status] /\ lost' \in BOOLEAN
    BY <2>1 DEF Respond, Touch, SetMode, SetStatus, LoseLock, store
  <2>3. appr' \in Apprs
    <3>1. ASSUME NEW i \in Id, NEW ok \in BOOLEAN, Respond(i, ok) PROVE appr' \in Apprs
      <4>1. \E to \in {"approved", "denied"} : appr' = [appr EXCEPT ![i].status = to]
        BY <3>1 DEF Respond
      <4> QED BY <2>1, <4>1 DEF Apprs
    <3>2. (\E i \in Id : \E ok \in BOOLEAN : Respond(i, ok)) \/ appr' = appr
      BY DEF Touch, SetMode, SetStatus, LoseLock, store
    <3> QED BY <2>1, <3>1, <3>2
  <2>4. files' \subseteq touched' /\ touched' \subseteq Id \X {"approve", "cancel"}
    <3>1. ASSUME NEW i \in Id, NEW k \in {"approve", "cancel"}, Touch(i, k)
          PROVE  files' \subseteq touched' /\ touched' \subseteq Id \X {"approve", "cancel"}
      BY <2>1, <3>1 DEF Touch
    <3>2. \/ \E i \in Id : \E k \in {"approve", "cancel"} : Touch(i, k)
          \/ files' = files /\ touched' = touched
      BY DEF Respond, SetMode, SetStatus, LoseLock, store
    <3> QED BY <2>1, <3>1, <3>2
  <2> QED BY <2>2, <2>3, <2>4
<1>3. /\ \A i \in Id : appr'[i].status = "pending" => appr[i].status = "pending"
      /\ \A i \in Id : appr[i].status = "approved" => appr'[i].status = "approved"
      /\ touched \subseteq touched'
  BY DEF Respond, Touch, SetMode, SetStatus, LoseLock, DaemonInv, StoreInv, Apprs, store
<1>4. StoreInv'
  BY <1>1, <1>2 DEF DaemonInv, StoreInv, memory
<1>5. \A i \in Id : Agreed(i) => Agreed(i)'
  BY <1>3 DEF Agreed
<1>6. PendInv'
  <2>1. CASE pend = NoPend
    BY <1>1, <2>1 DEF PendInv, memory
  <2>2. CASE pend # NoPend
    <3>1. PICK i \in Id : i = pend.id
      BY <2>2 DEF DaemonInv, PendInv
    <3>2. Agreed(i) => Agreed(i)'
      BY <1>5
    <3>3. pend' = pend /\ row' = row /\ pc' = pc
      BY <1>1 DEF memory
    <3> QED BY <2>2, <3>1, <3>2, <3>3 DEF DaemonInv, PendInv, Agreed
  <2> QED BY <2>1, <2>2
<1>7. ASSUME NEW i \in Id, Up PROVE Minded(i)'
  <2>1. Minded(i)
    BY <1>7 DEF DaemonInv, WaitingInv
  <2> QED BY <1>1, <1>3, <2>1 DEF Minded, memory
<1> QED BY <1>1, <1>4, <1>6, <1>7, BesideTick

\* A deadline has so much less left.
LEMMA LessOf == ASSUME NEW n \in Nat PROVE Less(n) \in 0..n
BY DEF Less

\* A poll period passes.
LEMMA TimeKeeps ==
  ASSUME DaemonInv, Tick
  PROVE  DaemonInv'
<1>1. /\ appr' = [i \in Id |-> [appr[i] EXCEPT !.left = Less(appr[i].left)]]
      /\ gate' = [i \in Id |-> [gate[i] EXCEPT !.due = Less(gate[i].due)]]
      /\ pend' = [pend EXCEPT !.left = Less(pend.left)]
      /\ hold' = [c \in Class |-> Less(hold[c])]
      /\ anchor' = Less(anchor)
      /\ UNCHANGED <<desk, row, execs, files, touched, withdrawn, lost, pc, poached, crashes>>
  BY DEF Tick
<1>2. appr \in Apprs /\ gate \in Gates /\ hold \in [Class -> 0..Retry] /\ anchor \in 0..Veto
      /\ Retry \in Nat /\ Veto \in Nat
  BY DaemonAssumption DEF DaemonInv, StoreInv
<1>3. /\ appr' \in Apprs
      /\ \A i \in Id : appr'[i].status = appr[i].status
  <2>1. \A i \in Id : Less(appr[i].left) \in Nat
    BY <1>2, LessOf DEF Apprs
  <2>2. \A i \in Id : /\ appr'[i] \in [status : {"none", "pending", "approved", "denied", "expired",
                                              "cancelled"}, left : Nat]
                      /\ appr'[i].status = appr[i].status
    BY <1>1, <1>2, <2>1 DEF Apprs
  <2> QED BY <1>1, <2>2 DEF Apprs
<1>4. gate' \in Gates /\ \A i \in Id : gate'[i].at = gate[i].at
  <2>1. \A i \in Id : Less(gate[i].due) \in Nat
    BY <1>2, LessOf DEF Gates
  <2>2. \A i \in Id : /\ gate'[i] \in [at : {"off", "asleep"}, waited : Nat, due : Nat]
                      /\ gate'[i].at = gate[i].at
    BY <1>1, <1>2, <2>1 DEF Gates
  <2> QED BY <1>1, <2>2 DEF Gates
<1>5. hold' \in [Class -> 0..Retry] /\ anchor' \in 0..Veto
  <2>1. \A c \in Class : Less(hold[c]) \in 0..Retry
    BY <1>2, LessOf
  <2>2. Less(anchor) \in 0..Veto
    BY <1>2, LessOf
  <2> QED BY <1>1, <2>1, <2>2
<1>6. StoreInv'
  BY <1>1, <1>3, <1>4, <1>5 DEF DaemonInv, StoreInv
<1>7. PendInv' /\ pend'.id = pend.id /\ pend'.ans = pend.ans
  <2>1. CASE pend = NoPend
    <3>1. pend' = NoPend
      BY <1>1, <2>1 DEF NoPend, Less
    <3> QED BY <2>1, <3>1 DEF PendInv
  <2>2. CASE pend # NoPend
    <3>1. /\ pend \in [id : Id, ans : Outcome, left : Nat, mode : Postures]
          /\ pc.at \in {"idle", "resolve", "sense"}
          /\ row[pend.id].status = "observed" /\ row[pend.id].mode = pend.mode
          /\ pend.ans = "approved" => Agreed(pend.id)
          /\ pend.mode = "copilot" => pend.ans # "not_required"
      BY <2>2 DEF DaemonInv, PendInv
    <3>2. /\ pend' \in [id : Id, ans : Outcome, left : Nat, mode : Postures]
          /\ pend'.id = pend.id /\ pend'.ans = pend.ans /\ pend'.mode = pend.mode
      BY <1>1, <3>1, LessOf
    <3> QED BY <1>1, <1>3, <3>1, <3>2 DEF PendInv, Agreed
  <2> QED BY <2>1, <2>2
<1>8. ASSUME NEW i \in Id, Up PROVE Minded(i)'
  <2>1. Minded(i)
    BY <1>8 DEF DaemonInv, WaitingInv
  <2> QED BY <1>1, <1>3, <1>4, <1>7, <2>1 DEF Minded
<1> QED BY <1>1, <1>6, <1>7, <1>8, BesideTick

\* A lane event confirms the execution in flight, perhaps under the tick that runs it.
LEMMA EventKeeps ==
  ASSUME DaemonInv, LaneEvent
  PROVE  DaemonInv'
<1>1. /\ Up /\ execs' = Landed("confirmed") /\ "confirmed" \in Results
      /\ UNCHANGED <<desk, row, appr, anchor, files, touched, memory, lost, pc, poached, crashes>>
  BY DEF LaneEvent, Results
<1>2. /\ Landed("confirmed") \in [Id -> Seq(Results)]
      /\ \A i \in Id :
           /\ Len(Landed("confirmed")[i]) = Len(execs[i])
           /\ DOMAIN Landed("confirmed")[i] = DOMAIN execs[i]
           /\ DOMAIN execs[i] = 1..Len(execs[i])
           /\ \A k \in DOMAIN execs[i] : Landed("confirmed")[i][k]
                = IF execs[i][k] = "flight" THEN "confirmed" ELSE execs[i][k]
  BY <1>1, LandedShape DEF DaemonInv
<1>3. StoreInv'
  BY <1>1, <1>2 DEF DaemonInv, StoreInv, memory
<1>4. TickInv'
  BY <1>1 DEF DaemonInv, TickInv, Free
<1>5. PendInv'
  BY <1>1 DEF DaemonInv, PendInv, Agreed, memory
<1>6. RunInv'
  <2> SUFFICES ASSUME pc.at \in Running PROVE RunInv'
    BY <1>1 DEF RunInv
  <2>1. pc.id \in Id /\ pc.step \in 1..2 /\ pc.step <= Len(row[pc.id].plan)
    BY UnderWay
  <2> DEFINE x == execs[pc.id]
             y == execs'[pc.id]
  <2>2. Len(y) = Len(x) /\ DOMAIN x = 1..Len(x)
        /\ \A k \in DOMAIN x : y[k] = IF x[k] = "flight" THEN "confirmed" ELSE x[k]
    BY <1>1, <1>2, <2>1
  <2>3. /\ pc.step \in 1..Len(row[pc.id].plan)
        /\ Len(x) = IF pc.at = "ready" THEN pc.step - 1 ELSE pc.step
        /\ \A k \in 1..(pc.step - 1) : x[k] = "confirmed"
        /\ pc.at = "run" => x[pc.step] \in {"flight", "confirmed"}
        /\ pc.at = "after" =>
             /\ pc.to \in {"confirmed", "flight", "failed", "denied"}
             /\ pc.to = "confirmed" => x[pc.step] = "confirmed"
             /\ pc.to = "flight" => x[pc.step] \in {"flight", "confirmed"}
             /\ pc.to \in {"failed", "denied"} => x[pc.step] = "failed"
        /\ pc.id \in poached \/ row[pc.id].status = "executing"
    BY DEF DaemonInv, RunInv
  <2>4. \A k \in 1..(pc.step - 1) : k \in DOMAIN x
    BY <2>1, <2>2, <2>3
  <2>5. pc.at # "ready" => pc.step \in DOMAIN x
    BY <2>1, <2>2, <2>3
  <2>6. \A k \in 1..(pc.step - 1) : y[k] = "confirmed"
    BY <2>2, <2>3, <2>4
  <2>7. /\ pc.at = "run" => y[pc.step] \in {"flight", "confirmed"}
        /\ pc.at = "after" =>
             /\ pc.to \in {"confirmed", "flight", "failed", "denied"}
             /\ pc.to = "confirmed" => y[pc.step] = "confirmed"
             /\ pc.to = "flight" => y[pc.step] \in {"flight", "confirmed"}
             /\ pc.to \in {"failed", "denied"} => y[pc.step] = "failed"
    BY <2>2, <2>3, <2>5
  <2>8. Len(y) = IF pc.at = "ready" THEN pc.step - 1 ELSE pc.step
    BY <2>2, <2>3
  <2> QED BY <1>1, <2>3, <2>6, <2>7, <2>8 DEF RunInv
<1>7. MatchInv'
  <2> SUFFICES ASSUME NEW i \in Id PROVE Matches(row'[i], execs'[i], Settled(i)')
    BY DEF MatchInv
  <2>1. Settled(i)' = Settled(i) /\ Settled(i) \in BOOLEAN
    BY <1>1 DEF Settled
  <2> QED BY <1>1, <2>1, LandedMatches
<1>8. WaitingInv'
  BY <1>1 DEF DaemonInv, WaitingInv, Minded, memory, Up
<1>9. ResolveInv'
  <2> SUFFICES ASSUME pc.at = "resolve" PROVE ResolveInv'
    BY <1>1 DEF ResolveInv
  <2>1. pc.id \in Id /\ ResolveInv
    BY Ids DEF DaemonInv, TickInv, Deciding, Running, Pcs
  <2>2. DOMAIN execs'[pc.id] = DOMAIN execs[pc.id]
        /\ \A k \in DOMAIN execs[pc.id] :
             execs'[pc.id][k] = IF execs[pc.id][k] = "flight" THEN "confirmed" ELSE execs[pc.id][k]
    BY <1>1, <2>1, LandedShape DEF DaemonInv, Results
  <2> QED BY <1>1, <2>1, <2>2 DEF ResolveInv
<1> QED BY <1>3, <1>4, <1>5, <1>6, <1>7, <1>8, <1>9 DEF DaemonInv

\* The reconcile timer settles stranded decisions, perhaps the one the tick runs.
LEMMA StrandedKeeps ==
  ASSUME DaemonInv, Stranded
  PROVE  DaemonInv'
<1>1. /\ Up /\ row' = Reconciled(row, execs)
      /\ poached' = poached \cup {i \in Id : pc.id = i /\ row'[i] # row[i]}
      /\ UNCHANGED <<desk, appr, execs, anchor, files, touched, memory, lost, pc, crashes>>
  BY DEF Stranded
<1>2. row \in Rows /\ execs \in [Id -> Seq(Results)]
  BY DEF DaemonInv, StoreInv
<1>3. /\ row' \in Rows
      /\ \A i \in Id : \/ row'[i] = row[i]
                       \/ /\ row[i].status = "executing" /\ row'[i].status \in Ended
                          /\ row'[i].mode = row[i].mode /\ row'[i].plan = row[i].plan
  BY <1>1, <1>2, ReconciledRows
<1>4. Free' = Free
  BY <1>3 DEF Free, Ended
<1>5. StoreInv'
  BY <1>1, <1>3 DEF DaemonInv, StoreInv, memory
<1>6. pc.id \in Id \cup {0}
  BY DEF DaemonInv, TickInv, Pcs
<1>7. TickInv'
  BY <1>1, <1>3, <1>4, <1>6 DEF DaemonInv, TickInv, Deciding, Running, Ended
<1>8. PendInv'
  BY <1>1, <1>3 DEF DaemonInv, PendInv, Agreed, memory, Ended
<1>9. RunInv'
  <2> SUFFICES ASSUME pc.at \in Running PROVE RunInv'
    BY <1>1 DEF RunInv
  <2>1. pc.id \in Id
    BY UnderWay
  <2>2. row'[pc.id].plan = row[pc.id].plan
        /\ (row'[pc.id] = row[pc.id] \/ pc.id \in poached')
    BY <1>1, <1>3, <2>1
  <2>3. poached \subseteq poached'
    BY <1>1
  <2> QED BY <1>1, <2>2, <2>3 DEF DaemonInv, RunInv
<1>10. MatchInv'
  <2> SUFFICES ASSUME NEW i \in Id PROVE Matches(row'[i], execs'[i], Settled(i)')
    BY DEF MatchInv
  <2>1. Settled(i)' \in BOOLEAN /\ Settled(i) \in BOOLEAN /\ (Settled(i)' => Settled(i))
    BY <1>1 DEF Settled
  <2>2. Matches(row[i], execs[i], Settled(i))
    BY DEF DaemonInv, MatchInv
  <2> QED BY <1>1, <1>2, <2>1, <2>2, ReconciledMatches
<1>11. WaitingInv'
  BY <1>1, <1>3 DEF DaemonInv, WaitingInv, Minded, memory, Up, Ended
<1>12. ResolveInv'
  <2> SUFFICES ASSUME pc.at = "resolve" PROVE ResolveInv'
    BY <1>1 DEF ResolveInv
  <2>1. pc.id \in Id /\ ResolveInv
    BY Ids DEF DaemonInv, TickInv, Deciding, Running, Pcs
  <2>2. row'[pc.id].status \notin {"none", "observed"}
        /\ (row'[pc.id] = row[pc.id] \/ pc.id \in poached')
    BY <1>1, <1>3, <2>1 DEF ResolveInv, Ended
  <2>3. poached \subseteq poached'
    BY <1>1
  <2> QED BY <1>1, <2>1, <2>2, <2>3 DEF ResolveInv
<1> QED BY <1>5, <1>7, <1>8, <1>9, <1>10, <1>11, <1>12 DEF DaemonInv

-----------------------------------------------------------------------------
(* The process goes down, and the next one boots.                          *)

\* The process ends, its pending decision perhaps declined; it forgets the rest.
LEMMA GoesDown ==
  ASSUME DaemonInv, pc' = At("down"), pend' = NoPend,
         UNCHANGED <<execs, poached>>, StoreInv',
         \A i \in Id : \/ row'[i] = row[i]
                       \/ row[i].status = "observed" /\ row'[i].status = "declined"
  PROVE  DaemonInv'
<1>1. pc' \in Pcs /\ pc'.at = "down" /\ pc'.id = 0
  BY AtType
<1>2. TickInv' /\ RunInv' /\ ResolveInv' /\ PendInv' /\ WaitingInv'
  BY <1>1 DEF TickInv, RunInv, ResolveInv, PendInv, WaitingInv, Up, Deciding, Running
<1>3. MatchInv'
  <2> SUFFICES ASSUME NEW i \in Id PROVE Matches(row'[i], execs'[i], Settled(i)')
    BY DEF MatchInv
  <2>1. Matches(row[i], execs[i], Settled(i)) /\ Settled(i)' \in BOOLEAN
        /\ (Settled(i)' => i \notin poached) /\ Settled(i) \in BOOLEAN
    BY DEF DaemonInv, MatchInv, Settled
  <2>2. row[i].status \notin {"observed", "executing"} /\ Settled(i)' => Settled(i)
    <3>1. pc.id = i /\ i \notin poached => row[i].status \in {"observed", "executing"}
      BY Ids DEF DaemonInv, TickInv, RunInv, ResolveInv, Deciding, Running
    <3> QED BY <2>1, <3>1 DEF Settled
  <2>3. CASE row[i].status = "observed"
    <3>1. execs'[i] = <<>> /\ row'[i].plan \in Plans /\ row'[i].status \in {"observed", "declined"}
      BY <2>1, <2>3 DEF Matches, StoreInv, Rows
    <3> QED BY <2>1, <3>1, EmptyMatches DEF Refused
  <2>4. CASE row[i].status # "observed"
    <3>1. row'[i] = row[i] /\ execs'[i] = execs[i]
      BY <2>4
    <3>2. CASE row[i].status = "executing"
      <4>1. Len(execs[i]) <= 2 /\ Len(execs[i]) <= Len(row[i].plan)
        BY <2>1 DEF Matches
      <4> QED BY <2>1, <3>1, <3>2, <4>1, BusyMatches
    <3>3. CASE row[i].status # "executing"
      BY <2>1, <2>2, <2>4, <3>1, <3>3 DEF Matches
    <3> QED BY <3>2, <3>3
  <2> QED BY <2>3, <2>4
<1> QED BY <1>2, <1>3 DEF DaemonInv

\* A crash, at any await, or a stop between two ticks.
LEMMA DownSteps ==
  ASSUME DaemonInv, Crash \/ Stop
  PROVE  DaemonInv'
<1>1. /\ pc' = At("down") /\ gate' = [i \in Id |-> NoGate] /\ pend' = NoPend
      /\ withdrawn' = {} /\ hold' = NoHold /\ crashes' = crashes + 1 /\ crashes < MaxCrashes
      /\ UNCHANGED <<desk, execs, anchor, files, touched, lost, poached>>
  BY DEF Crash, Stop, Forget, store
<1>2. gate' \in Gates /\ hold' \in [Class -> 0..Retry] /\ crashes' \in 0..MaxCrashes
  BY <1>1, DaemonAssumption DEF Gates, NoGate, NoHold, DaemonInv, StoreInv
<1>3. /\ row' \in Rows /\ appr' \in Apprs
      /\ \A i \in Id : \/ row'[i] = row[i]
                       \/ row[i].status = "observed" /\ row'[i].status = "declined"
  <2>1. row \in Rows /\ appr \in Apprs
    BY DEF DaemonInv, StoreInv
  <2>2. CASE UNCHANGED <<row, appr>>
    BY <2>1, <2>2
  <2>3. CASE /\ pend # NoPend /\ appr' = Closed(pend.id, "cancelled")
             /\ row' = [row EXCEPT ![pend.id].mode = pend.mode,
                                   ![pend.id].outcome = "cancelled",
                                   ![pend.id].status = "declined"]
    <3>1. pend.id \in Id /\ pend.mode \in Postures /\ row[pend.id].status = "observed"
      BY <2>3 DEF DaemonInv, PendInv
    <3>2. appr' \in Apprs
      BY <2>1, <2>3, <3>1 DEF Apprs, Closed
    <3>3. row' \in Rows /\ row'[pend.id].status = "declined"
          /\ \A i \in Id : i # pend.id => row'[i] = row[i]
      BY <2>1, <2>3, <3>1 DEF Rows, Refused, Outcome
    <3> QED BY <3>1, <3>2, <3>3
  <2> QED BY <2>2, <2>3 DEF Crash, Stop, store
<1>4. StoreInv'
  BY <1>1, <1>2, <1>3 DEF DaemonInv, StoreInv
<1> QED BY <1>1, <1>3, <1>4, GoesDown

\* The next process boots: no decision stays open.
LEMMA BootKeeps ==
  ASSUME DaemonInv, Boot
  PROVE  DaemonInv' /\ \A i \in Id : row'[i].status # "observed" /\ appr'[i].status # "pending"
<1>1. PICK o \in Results :
        execs' = Landed(o) /\ row' = Orphaned(Reconciled(row, execs'))
  BY DEF Boot, Results
<1>2. /\ ~Up /\ pc' = Idle /\ lost' = FALSE
      /\ UNCHANGED <<desk, anchor, files, touched, memory, poached, crashes>>
      /\ appr' = [i \in Id |->
                    IF appr[i].status # "pending" THEN appr[i]
                    ELSE [appr[i] EXCEPT !.status = IF appr[i].left = 0 THEN "expired"
                                                    ELSE "cancelled"]]
  BY DEF Boot
<1>3. pc.id = 0 /\ pend = NoPend /\ pend' = NoPend /\ pc' \in Pcs /\ pc'.at = "idle" /\ pc'.id = 0
  BY <1>2, AtType DEF Up, DaemonInv, PendInv, TickInv, Deciding, Running, memory
<1>4. row \in Rows /\ appr \in Apprs /\ execs' \in [Id -> Seq(Results)]
  BY <1>1, LandedShape DEF DaemonInv, StoreInv
<1> DEFINE r == Reconciled(row, execs')
<1>5. r \in Rows /\ \A i \in Id : r[i].status = "observed" => row[i].status = "observed"
  BY <1>4, ReconciledRows DEF Ended
<1> HIDE DEF r
<1>6. appr' \in Apprs /\ \A i \in Id : appr'[i].status # "pending"
  <2>1. \A i \in Id : /\ appr'[i] \in [status : {"none", "pending", "approved", "denied",
                                              "expired", "cancelled"}, left : Nat]
                      /\ appr'[i].status # "pending"
    BY <1>2, <1>4 DEF Apprs
  <2> QED BY <1>2, <2>1 DEF Apprs
<1>7. \A i \in Id : row'[i] = IF r[i].status # "observed" THEN r[i]
                              ELSE IF appr[i].status = "pending"
                                   THEN [r[i] EXCEPT !.status = "declined",
                                                     !.outcome = IF appr[i].left = 0
                                                                 THEN "timeout" ELSE "cancelled"]
                                   ELSE [r[i] EXCEPT !.status = "failed"]
  BY <1>1 DEF Orphaned, r
<1>8. row' \in Rows /\ \A i \in Id :
        \/ row'[i] = r[i] /\ r[i].status # "observed"
        \/ r[i].status = "observed" /\ row'[i].status \in {"declined", "failed"}
  <2>1. \A i \in Id :
          /\ row'[i] \in [status : {"none", "observed", "executing"} \cup Refused \cup Ended,
                          plan : Plans, mode : Postures, outcome : Outcome]
          /\ \/ row'[i] = r[i] /\ r[i].status # "observed"
             \/ r[i].status = "observed" /\ row'[i].status \in {"declined", "failed"}
    <3> SUFFICES ASSUME NEW i \in Id
                 PROVE  /\ row'[i] \in [status : {"none", "observed", "executing"} \cup Refused
                                                 \cup Ended,
                                       plan : Plans, mode : Postures, outcome : Outcome]
                        /\ \/ row'[i] = r[i] /\ r[i].status # "observed"
                           \/ r[i].status = "observed" /\ row'[i].status \in {"declined", "failed"}
      OBVIOUS
    <3>1. r[i] \in [status : {"none", "observed", "executing"} \cup Refused \cup Ended,
                    plan : Plans, mode : Postures, outcome : Outcome]
      BY <1>5 DEF Rows
    <3>2. CASE r[i].status # "observed"
      BY <1>7, <3>1, <3>2
    <3>3. CASE r[i].status = "observed"
      <4>1. \/ \E u \in {"timeout", "cancelled"} :
                 row'[i] = [r[i] EXCEPT !.status = "declined", !.outcome = u]
            \/ row'[i] = [r[i] EXCEPT !.status = "failed"]
        BY <1>7, <3>3
      <4> QED BY <3>1, <3>3, <4>1 DEF Refused, Ended, Outcome
    <3> QED BY <3>2, <3>3
  <2>2. row' = [i \in Id |-> row'[i]]
    BY <1>1 DEF Orphaned
  <2> QED BY <2>1, <2>2 DEF Rows
<1>9. StoreInv'
  BY <1>2, <1>4, <1>6, <1>8 DEF DaemonInv, StoreInv, memory
<1>10. TickInv' /\ RunInv' /\ ResolveInv' /\ PendInv'
  BY <1>3 DEF TickInv, RunInv, ResolveInv, PendInv, Deciding, Running
<1>11. MatchInv'
  <2> SUFFICES ASSUME NEW i \in Id PROVE Matches(row'[i], execs'[i], Settled(i)')
    BY DEF MatchInv
  <2>1. Settled(i)' = Settled(i) /\ Settled(i) \in BOOLEAN
    BY <1>2, <1>3, Ids DEF Settled
  <2>2. Matches(row[i], execs'[i], Settled(i))
    BY <1>1, <2>1, LandedMatches
  <2>3. Matches(r[i], execs'[i], Settled(i))
    BY <1>4, <2>1, <2>2, ReconciledMatches DEF r
  <2>4. CASE row'[i] = r[i]
    BY <2>1, <2>3, <2>4
  <2>5. CASE r[i].status = "observed" /\ row'[i].status \in {"declined", "failed"}
    <3>1. execs'[i] = <<>> /\ row'[i].plan \in Plans
      BY <1>8, <2>3, <2>5 DEF Matches, Rows
    <3> QED BY <2>1, <2>5, <3>1, EmptyMatches DEF Refused
  <2> QED BY <1>8, <2>4, <2>5
<1>12. \A i \in Id : row'[i].status # "observed"
  BY <1>8
<1>13. WaitingInv'
  BY <1>12 DEF WaitingInv, Minded
<1> QED BY <1>6, <1>9, <1>10, <1>11, <1>12, <1>13 DEF DaemonInv

-----------------------------------------------------------------------------
(* The theorems.                                                           *)

\* Every step of the daemon keeps its invariant.
LEMMA DaemonStep ==
  ASSUME DaemonInv, [Next]_vars
  PROVE  DaemonInv'
<1>1. CASE TickStep
  BY <1>1, QuietSteps, ResolveKeeps, PendingSteps, EndingSteps, InsertKeeps, AskingSteps,
     RunSteps, StepStartsKeeps, StepEndsKeeps DEF TickStep
<1>2. CASE Gate
  BY <1>2, GateSteps DEF Gate
<1>3. CASE Environment
  BY <1>3, OutsideSteps, EventKeeps, StrandedKeeps, DownSteps DEF Environment
<1>4. CASE Boot
  BY <1>4, BootKeeps
<1>5. CASE Tick
  BY <1>5, TimeKeeps
<1>6. CASE UNCHANGED vars
  BY <1>6 DEF vars, store, memory, DaemonInv, StoreInv, TickInv, PendInv, RunInv, ResolveInv,
              MatchInv, WaitingInv, Minded, Settled, Agreed, Free, Up
<1> QED BY <1>1, <1>2, <1>3, <1>4, <1>5, <1>6 DEF Next

\* At every await, whatever the gate, the timer, the humans and crashes did meanwhile.
THEOREM DaemonInvHolds == Spec => []DaemonInv
<1>1. Init => DaemonInv
  BY InitDaemon
<1>2. DaemonInv /\ [Next]_vars => DaemonInv'
  BY DaemonStep
<1> QED BY <1>1, <1>2, PTL DEF Spec

\* Every field stays in its range.
THEOREM DaemonTyped == Spec => []TypeOK
<1>1. ASSUME DaemonInv PROVE TypeOK
  <2> USE <1>1 DEF DaemonInv
  <2>1. desk \in [mode : Mode, status : Status] /\ anchor \in 0..Veto
        /\ files \subseteq touched /\ touched \subseteq Id \X {"approve", "cancel"}
        /\ withdrawn \subseteq Id /\ poached \subseteq Id /\ hold \in [Class -> 0..Retry]
        /\ lost \in BOOLEAN /\ crashes \in 0..MaxCrashes
    BY DEF StoreInv
  <2>2. row \in [Id -> [status : {"none", "observed", "executing"} \cup Refused \cup Ended,
                        plan : {Adding, Reducing, Signal, Mixed, Nothing},
                        mode : Mode \cup {"none", "advisory", "copilot"}, outcome : Outcome]]
    BY DEF StoreInv, Rows, Plans, Postures
  <2>3. appr \in [Id -> [status : {"none", "pending", "approved", "denied", "expired",
                                   "cancelled"}, left : Nat]]
    BY DEF StoreInv, Apprs
  <2>4. execs \in [Id -> UNION {[1..n -> {"flight", "confirmed", "failed"}] : n \in 0..2}]
    <3>1. ASSUME NEW i \in Id
          PROVE  execs[i] \in UNION {[1..n -> {"flight", "confirmed", "failed"}] : n \in 0..2}
      <4>1. execs[i] \in Seq(Results) /\ Len(execs[i]) \in Nat /\ Len(execs[i]) <= 2
        BY DEF StoreInv, MatchInv, Matches
      <4>2. execs[i] \in [1..Len(execs[i]) -> Results]
        BY <4>1
      <4>3. \A n \in Nat : n <= 2 => n \in 0..2
        OBVIOUS
      <4>4. Len(execs[i]) \in 0..2
        BY <4>1, <4>3
      <4> QED BY <4>2, <4>4 DEF Results
    <3>2. execs = [i \in Id |-> execs[i]]
      BY DEF StoreInv
    <3> QED BY <3>1, <3>2
  <2>5. pend.id \in Id \cup {0} /\ pend.ans \in Outcome /\ pend.left \in Nat
    BY DEF PendInv, NoPend, Outcome
  <2>6. pc.id \in Id \cup {0} /\ pc.step \in 0..3
        /\ pc.at \in {"idle", "resolve", "sense", "overlay", "build", "ask", "withdraw",
                      "ready", "run", "after", "finish", "down"}
    BY DEF TickInv, Pcs, Deciding, Running
  <2> QED BY <2>1, <2>2, <2>3, <2>4, <2>5, <2>6 DEF TypeOK
<1> QED BY <1>1, DaemonInvHolds, PTL

\* Between two ticks nobody waits for an answer, or to answer, in vain: the loop keeps the
\* decision that waits, and a gate reads the approval a human can still answer.
THEOREM NobodyIsForgotten == Spec => []NobodyWaitsInVain
<1>1. ASSUME DaemonInv PROVE NobodyWaitsInVain
  <2> SUFFICES ASSUME pc = Idle, NEW i \in Id
               PROVE  /\ row[i].status = "observed" => pend.id = i
                      /\ appr[i].status = "pending" =>
                           \/ gate[i].at = "asleep"
                           \/ pend.id = i /\ pend.ans # "none"
                           \/ row[i].status # "observed"
    BY DEF NobodyWaitsInVain
  <2>1. pc.at = "idle" /\ pc.id = 0
    BY AtType
  <2>2. Minded(i) /\ pc.id # i
    BY <1>1, <2>1, Ids DEF DaemonInv, WaitingInv, Up
  <2> QED BY <2>2 DEF Minded
<1> QED BY <1>1, DaemonInvHolds, PTL

\* The row of a decision nobody works on says what its executions did, unless the reconcile
\* timer settled it under a tick.
THEOREM RowsTellExecutions == Spec => []RowMatchesExecutions
<1>1. ASSUME DaemonInv PROVE RowMatchesExecutions
  <2> SUFFICES ASSUME NEW i \in Id \ poached, pc.id # i PROVE Truthful(row[i], execs[i])
    BY DEF RowMatchesExecutions
  <2>1. Settled(i) /\ Matches(row[i], execs[i], Settled(i))
    BY <1>1 DEF DaemonInv, MatchInv, Settled
  <2> QED BY <2>1 DEF Matches
<1> QED BY <1>1, DaemonInvHolds, PTL

\* The gate turns no accepted approval into a veto: its last poll and its close are one turn,
\* so an approval it did not find is not closed against the human either.
THEOREM ApprovalsNeverVeto == Spec => ApprovalNeverVetoes
<1>1. ASSUME DaemonInv, [Next]_vars, NEW i \in Id, appr[i].status = "approved",
             <<i, "cancel">> \notin touched, gate[i].at = "asleep", gate'[i].at = "off"
      PROVE  anchor' <= anchor
  <2>1. anchor \in 0..Veto /\ gate \in Gates /\ files \subseteq touched /\ Veto \in Nat
        /\ gate[i].at # gate'[i].at
    BY <1>1, DaemonAssumption DEF DaemonInv, StoreInv
  <2>2. anchor <= anchor /\ Less(anchor) <= anchor
    BY <2>1, LessOf
  <2>3. ASSUME NEW j \in Id, GateWake(j) PROVE anchor' <= anchor
    <3>1. CASE j = i
      <4>1. Poll(i) = "approve"
        BY <1>1, <2>1 DEF Poll
      <4>2. anchor' = Anchored(i, AnswerOf(row[i].mode, "approve")) \/ anchor' = anchor
        BY <2>3, <3>1, <4>1 DEF GateWake
      <4>3. AnswerOf(row[i].mode, "approve") \notin {"denied", "timeout", "cancelled"}
        BY DEF AnswerOf
      <4> QED BY <2>2, <4>2, <4>3 DEF Anchored
    <3>2. CASE j # i
      <4>1. \/ gate' = [gate EXCEPT ![j] = NoGate]
            \/ gate' = [gate EXCEPT ![j].waited = gate[j].waited + 1, ![j].due = 1]
        BY <2>3 DEF GateWake
      <4>2. gate'[i] = gate[i]
        BY <2>1, <3>2, <4>1 DEF Gates
      <4> QED BY <2>1, <4>2
    <3> QED BY <3>1, <3>2
  <2>4. ASSUME NEW j \in Id, GateFails(j) PROVE anchor' <= anchor
    BY <2>2, <2>4 DEF GateFails, store
  <2>5. CASE Tick
    BY <2>2, <2>5 DEF Tick
  <2>6. CASE \/ anchor' = anchor \/ gate' = gate
    BY <2>1, <2>2, <2>6
  <2>7. ASSUME TickStep PROVE anchor' = anchor \/ gate' = gate \/ gate'[i] = gate[i]
                              \/ gate'[i].at = "asleep"
    BY <2>1, <2>7 DEF TickStep, BeginTick, ResolveAttempts, HoldTick, PreemptTick, SettleTick,
          ExpireTick, Withdraw, EndWithdraw, Insert, GuardHolds, Revoked, Posture, Ask, AskGate,
          Finish, StepStarts, AfterStep, PlanTick, StepRefused, StepEnds, store, memory
  <2>8. ASSUME Environment \/ Boot PROVE anchor' = anchor
    BY <2>8 DEF Environment, Respond, Touch, SetMode, SetStatus, LaneEvent, Stranded, LoseLock,
                Crash, Stop, Forget, Boot, store
  <2>9. CASE UNCHANGED vars
    BY <2>6, <2>9 DEF vars, store
  <2> QED BY <1>1, <2>1, <2>3, <2>4, <2>5, <2>6, <2>7, <2>8, <2>9 DEF Next, Gate
<1>2. ASSUME DaemonInv, [Next]_vars
      PROVE  [\A i \in Id :
                (appr[i].status = "approved" /\ <<i, "cancel">> \notin touched
                   /\ gate[i].at = "asleep" /\ gate'[i].at = "off")
                  => anchor' <= anchor]_vars
  BY <1>1, <1>2
<1> QED BY <1>2, DaemonInvHolds, PTL DEF Spec, ApprovalNeverVetoes

-----------------------------------------------------------------------------
(* The decision log: where a decision is, whether it needs a yes, and what *)
(* every step makes of it.                                                 *)

Asking(i) == row[i].mode = "copilot" /\ Waits(row[i].plan, "copilot")

\* Nothing the log sees of a decision changes.
Same(i) ==
  /\ Phase(i)' = Phase(i) /\ Asking(i)' = Asking(i) /\ Agreed(i)' = Agreed(i)
  /\ Len(execs[i])' = Len(execs[i])

\* What the log allows to happen to one decision.
LogMove(i) ==
  /\ Agreed(i)' = Agreed(i)
  /\ \/ /\ Phase(i) = "none" /\ Phase(i)' = "open" /\ Asking(i)' = Asking(i)
        /\ Len(execs[i])' = Len(execs[i])
     \/ /\ Phase(i) = "open" /\ Phase(i)' \in {"open", "over", "running"}
        /\ Phase(i)' = "running" => (Asking(i)' => Agreed(i))
        /\ Len(execs[i])' = Len(execs[i])
     \/ /\ Phase(i) = "running" /\ Phase(i)' = "running" /\ Asking(i)' = Asking(i)
        /\ Len(execs[i])' = Len(execs[i]) + 1
     \/ /\ Phase(i) = "running" /\ Phase(i)' = "over" /\ Asking(i)' = Asking(i)
        /\ Len(execs[i])' = Len(execs[i])

\* A decision's phase is one of the log's.
LEMMA PhaseType == \A i \in Id : Phase(i) \in {"none", "open", "running", "over"}
BY DEF Phase

\* A step of which the log sees nothing.
LEMMA LogStutters == ASSUME \A j \in Id : Same(j) PROVE UNCHANGED Log!logVars
<1>1. [j \in Id |-> Phase(j)]' = [j \in Id |-> Phase(j)]
  BY DEF Same
<1>2. [j \in Id |-> row[j].mode = "copilot" /\ Waits(row[j].plan, "copilot")]'
        = [j \in Id |-> row[j].mode = "copilot" /\ Waits(row[j].plan, "copilot")]
  BY DEF Same, Asking
<1>3. [j \in Id |-> appr[j].status = "approved" \/ <<j, "approve">> \in touched]'
        = [j \in Id |-> appr[j].status = "approved" \/ <<j, "approve">> \in touched]
  BY DEF Same, Agreed
<1>4. [j \in Id |-> Len(execs[j])]' = [j \in Id |-> Len(execs[j])]
  BY DEF Same
<1> QED BY <1>1, <1>2, <1>3, <1>4 DEF Log!logVars

\* A step in which one decision moves.
LEMMA LogMoves ==
  ASSUME NEW i \in Id, \A j \in Id : j # i => Same(j), LogMove(i)
  PROVE  Log!LogNext
<1> DEFINE phs == [j \in Id |-> Phase(j)]
           ask == [j \in Id |-> row[j].mode = "copilot" /\ Waits(row[j].plan, "copilot")]
           agr == [j \in Id |-> appr[j].status = "approved" \/ <<j, "approve">> \in touched]
           ran == [j \in Id |-> Len(execs[j])]
<1>1. agr' = agr
  BY DEF Same, LogMove, Agreed
<1>2. Asking(i)' = Asking(i) => ask' = ask
  BY DEF Same, Asking
<1>3. Len(execs[i])' = Len(execs[i]) => ran' = ran
  BY DEF Same
<1>4. phs' = [phs EXCEPT ![i] = Phase(i)']
  BY DEF Same
<1>5. ask' = [ask EXCEPT ![i] = Asking(i)'] /\ Asking(i)' \in BOOLEAN
  BY DEF Same, Asking
<1>6. ran' = [ran EXCEPT ![i] = Len(execs[i])']
  BY DEF Same
<1>7. phs[i] = Phase(i) /\ ran[i] = Len(execs[i]) /\ ask'[i] = Asking(i)' /\ agr[i] = Agreed(i)
  BY DEF Asking, Agreed
<1>8. phs' = phs \/ Phase(i)' # Phase(i)
  BY <1>4, <1>7
<1> HIDE DEF phs, ask, agr, ran
<1>9. CASE /\ Phase(i) = "none" /\ Phase(i)' = "open" /\ Asking(i)' = Asking(i)
           /\ Len(execs[i])' = Len(execs[i])
  <2>1. phs[i] = "none" /\ phs' = [phs EXCEPT ![i] = "open"] /\ ask' = ask /\ ran' = ran
    BY <1>2, <1>3, <1>4, <1>7, <1>9
  <2>2. Log!Propose(i)
    BY <1>1, <2>1 DEF Log!Propose, Log!Move, phs, ask, agr, ran
  <2> QED BY <2>2 DEF Log!LogNext
<1>10. CASE /\ Phase(i) = "open" /\ Phase(i)' \in {"open", "over", "running"}
            /\ Phase(i)' = "running" => (Asking(i)' => Agreed(i))
            /\ Len(execs[i])' = Len(execs[i])
  <2>1. phs[i] = "open" /\ ran' = ran
    BY <1>3, <1>7, <1>10
  <2>2. phs[i] = "open" /\ \E a \in BOOLEAN : ask' = [ask EXCEPT ![i] = a]
    BY <1>5, <2>1
  <2>3. Log!Asked(i)
    BY <2>2 DEF Log!Asked, phs, ask
  <2>4. CASE Phase(i)' = "open"
    <3>1. phs' = phs
      BY <1>8, <1>10, <2>4
    <3>2. Log!Note(i)
      BY <1>1, <2>1, <2>3, <3>1 DEF Log!Note, phs, agr, ran
    <3> QED BY <3>2 DEF Log!LogNext
  <2>5. CASE Phase(i)' = "over"
    <3>1. phs' = [phs EXCEPT ![i] = "over"]
      BY <1>4, <2>5
    <3>2. Log!Refuse(i)
      BY <1>1, <2>1, <2>3, <3>1 DEF Log!Refuse, Log!Move, phs, agr, ran
    <3> QED BY <3>2 DEF Log!LogNext
  <2>6. CASE Phase(i)' = "running"
    <3>1. phs' = [phs EXCEPT ![i] = "running"]
      BY <1>4, <2>6
    <3>2. ask'[i] => agr[i]
      BY <1>7, <1>10, <2>6
    <3>3. Log!LetThrough(i)
      BY <1>1, <2>1, <2>3, <3>1, <3>2 DEF Log!LetThrough, Log!Move, phs, ask, agr, ran
    <3> QED BY <3>3 DEF Log!LogNext
  <2> QED BY <1>10, <2>4, <2>5, <2>6
<1>11. CASE /\ Phase(i) = "running" /\ Phase(i)' = "running" /\ Asking(i)' = Asking(i)
            /\ Len(execs[i])' = Len(execs[i]) + 1
  <2>1. phs[i] = "running" /\ phs' = phs /\ ask' = ask /\ ran' = [ran EXCEPT ![i] = ran[i] + 1]
    BY <1>2, <1>6, <1>7, <1>8, <1>11
  <2>2. Log!RunStep(i)
    BY <1>1, <2>1 DEF Log!RunStep, phs, ask, agr, ran
  <2> QED BY <2>2 DEF Log!LogNext
<1>12. CASE /\ Phase(i) = "running" /\ Phase(i)' = "over" /\ Asking(i)' = Asking(i)
            /\ Len(execs[i])' = Len(execs[i])
  <2>1. phs[i] = "running" /\ phs' = [phs EXCEPT ![i] = "over"] /\ ask' = ask /\ ran' = ran
    BY <1>2, <1>3, <1>4, <1>7, <1>12
  <2>2. Log!Close(i)
    BY <1>1, <2>1 DEF Log!Close, Log!Move, phs, ask, agr, ran
  <2> QED BY <2>2 DEF Log!LogNext
<1> QED BY <1>9, <1>10, <1>11, <1>12 DEF LogMove

\* A step after which decisions are over that were not, whoever ended them.
LEMMA LogRecovers ==
  ASSUME \A j \in Id : /\ Asking(j)' = Asking(j) /\ Agreed(j)' = Agreed(j)
                       /\ Len(execs[j])' = Len(execs[j])
                       /\ Phase(j)' # Phase(j) => Phase(j) # "none" /\ Phase(j)' = "over"
  PROVE  Log!LogNext
<1>1. [j \in Id |-> row[j].mode = "copilot" /\ Waits(row[j].plan, "copilot")]'
        = [j \in Id |-> row[j].mode = "copilot" /\ Waits(row[j].plan, "copilot")]
  BY DEF Asking
<1>2. [j \in Id |-> appr[j].status = "approved" \/ <<j, "approve">> \in touched]'
        = [j \in Id |-> appr[j].status = "approved" \/ <<j, "approve">> \in touched]
  BY DEF Agreed
<1>3. [j \in Id |-> Len(execs[j])]' = [j \in Id |-> Len(execs[j])]
  OBVIOUS
<1>4. [j \in Id |-> Phase(j)]' \in [Id -> {"none", "open", "running", "over"}]
  BY DEF Phase
<1>5. Log!Recover
  BY <1>1, <1>2, <1>3, <1>4 DEF Log!Recover
<1> QED BY <1>5 DEF Log!LogNext

\* A decision no tick works on, whose row, executions and answers stay.
LEMMA OthersSame ==
  ASSUME NEW j \in Id, row'[j] = row[j], execs'[j] = execs[j], appr'[j] = appr[j],
         touched' = touched, pc.id # j, pc'.id # j
  PROVE  Same(j)
<1>1. Phase(j)' = Phase(j)
  BY DEF Phase
<1>2. Asking(j)' = Asking(j) /\ Agreed(j)' = Agreed(j)
  BY DEF Asking, Agreed
<1> QED BY <1>1, <1>2 DEF Same

\* The steps the log does not see.
LEMMA UnseenSteps ==
  ASSUME DaemonInv,
         \/ BeginTick \/ HoldTick \/ GuardHolds \/ LaneEvent \/ LoseLock \/ Tick
         \/ \E p \in {Adding, Reducing, Signal} : PlanTick(p)
         \/ \E m \in Mode : SetMode(m)
         \/ \E s \in Status : SetStatus(s)
         \/ \E o \in {"confirmed", "failed", "denied", "flight"} : StepEnds(o)
         \/ \E i \in Id : GateWake(i) \/ GateFails(i)
  PROVE  \A j \in Id : Same(j)
<1>1. row' = row /\ touched' = touched
  BY DEF BeginTick, HoldTick, GuardHolds, LaneEvent, LoseLock, Tick, PlanTick, SetMode,
         SetStatus, StepEnds, GateWake, GateFails, store
<1>2. appr \in Apprs /\ execs \in [Id -> Seq(Results)] /\ pc \in Pcs
  BY DEF DaemonInv, StoreInv, TickInv
<1>3. \A j \in Id : (appr'[j].status = "approved") <=> (appr[j].status = "approved")
  <2>1. CASE Tick
    <3>1. appr' = [i \in Id |-> [appr[i] EXCEPT !.left = Less(appr[i].left)]]
      BY <2>1 DEF Tick
    <3> QED BY <1>2, <3>1 DEF Apprs
  <2>2. ASSUME NEW i \in Id, GateWake(i)
        PROVE  \A j \in Id : (appr'[j].status = "approved") <=> (appr[j].status = "approved")
    <3>1. appr' = appr \/ (appr[i].status = "pending"
                             /\ appr' = [appr EXCEPT ![i].status = "expired"])
      BY <2>2 DEF GateWake, Closed
    <3> QED BY <1>2, <3>1 DEF Apprs
  <2>3. Tick \/ (\E i \in Id : GateWake(i)) \/ appr' = appr
    BY DEF BeginTick, HoldTick, GuardHolds, LaneEvent, LoseLock, PlanTick, SetMode,
           SetStatus, StepEnds, GateFails, store
  <2> QED BY <2>1, <2>2, <2>3
<1>4. \A j \in Id : Len(execs'[j]) = Len(execs[j])
  <2>1. CASE LaneEvent
    BY <2>1, LandedShape DEF LaneEvent, DaemonInv, Results
  <2>2. ASSUME NEW o \in {"confirmed", "failed", "denied", "flight"}, StepEnds(o)
        PROVE  \A j \in Id : Len(execs'[j]) = Len(execs[j])
    <3> DEFINE v == IF o = "denied" THEN "failed" ELSE o
    <3>1. /\ pc.at = "run"
          /\ execs' = [execs EXCEPT ![pc.id] = [execs[pc.id] EXCEPT ![pc.step] = v]]
      BY <2>2 DEF StepEnds
    <3>2. ASSUME NEW x \in Seq(Results), NEW k, NEW w PROVE Len([x EXCEPT ![k] = w]) = Len(x)
      OBVIOUS
    <3> QED BY <1>2, <3>1, <3>2
  <2>3. \/ LaneEvent \/ execs' = execs
        \/ \E o \in {"confirmed", "failed", "denied", "flight"} : StepEnds(o)
    BY DEF BeginTick, HoldTick, GuardHolds, LoseLock, PlanTick, SetMode, SetStatus, Tick,
           GateWake, GateFails, store
  <2> QED BY <2>1, <2>2, <2>3
<1>5. pc' = pc \/ (pc.at \notin Running /\ pc'.at \notin Running)
               \/ (pc.at = "run" /\ pc'.at = "after" /\ pc'.id = pc.id)
  <2>1. CASE BeginTick \/ HoldTick
    BY <1>2, <2>1, AtType DEF BeginTick, HoldTick, Await, Running, Pcs
  <2>2. CASE GuardHolds
    BY <1>2, <2>2 DEF GuardHolds, Running, Pcs
  <2>3. ASSUME NEW p \in {Adding, Reducing, Signal}, PlanTick(p)
        PROVE  pc.at \notin Running /\ pc'.at \notin Running
    <3>1. At("overlay") \in Pcs /\ At("overlay").at = "overlay"
      BY AtType
    <3> QED BY <2>3, <3>1 DEF PlanTick, Running, Pcs
  <2>4. ASSUME NEW o \in {"confirmed", "failed", "denied", "flight"}, StepEnds(o)
        PROVE  pc.at = "run" /\ pc'.at = "after" /\ pc'.id = pc.id
    BY <1>2, <2>4 DEF StepEnds, Pcs
  <2>5. \/ BeginTick \/ HoldTick \/ GuardHolds \/ pc' = pc
        \/ \E p \in {Adding, Reducing, Signal} : PlanTick(p)
        \/ \E o \in {"confirmed", "failed", "denied", "flight"} : StepEnds(o)
    BY DEF LaneEvent, LoseLock, Tick, SetMode, SetStatus, GateWake, GateFails
  <2> QED BY <2>1, <2>2, <2>3, <2>4, <2>5
<1> TAKE j \in Id
<1>6. Phase(j)' = Phase(j)
  BY <1>1, <1>5 DEF Phase, Running
<1>7. Asking(j)' = Asking(j)
  BY <1>1 DEF Asking
<1>8. Agreed(j)' <=> Agreed(j)
  BY <1>1, <1>3 DEF Agreed
<1>9. Agreed(j)' = Agreed(j)
  BY <1>8 DEF Agreed
<1> QED BY <1>4, <1>6, <1>7, <1>9 DEF Same

\* The pending decision is withdrawn: it stays open, and its posture was known.
LEMMA WithdrawUnseen ==
  ASSUME DaemonInv, PreemptTick \/ ExpireTick
  PROVE  \A j \in Id : Same(j)
<1>1. PICK outcome \in {"timeout", "cancelled"}, plan \in Plans : Withdraw(outcome, plan)
  BY DEF PreemptTick, ExpireTick, Plans
<1> DEFINE i == pend.id
<1>2. /\ i \in Id /\ row[i].status = "observed" /\ row[i].mode = pend.mode /\ pc.at = "sense"
      /\ row \in Rows /\ appr \in Apprs
  BY DEF PreemptTick, ExpireTick, DaemonInv, PendInv, StoreInv
<1>3. /\ row' = [row EXCEPT ![i].mode = pend.mode, ![i].outcome = outcome]
      /\ appr' = Closed(i, IF outcome = "timeout" THEN "expired" ELSE "cancelled")
      /\ pc' = [At("withdraw") EXCEPT !.id = i, !.plan = plan]
      /\ execs' = execs /\ touched' = touched
  BY <1>1 DEF Withdraw
<1>4. pc'.at = "withdraw"
  <2>1. At("withdraw") \in Pcs /\ At("withdraw").at = "withdraw"
    BY AtType DEF Deciding
  <2> QED BY <1>3, <2>1 DEF Pcs
<1> HIDE DEF i
<1> TAKE j \in Id
<1>5. /\ row'[j].status = row[j].status /\ row'[j].mode = row[j].mode
      /\ row'[j].plan = row[j].plan
  BY <1>2, <1>3 DEF Rows
<1>6. (appr'[j].status = "approved") <=> (appr[j].status = "approved")
  BY <1>2, <1>3 DEF Apprs, Closed
<1>7. Phase(j)' = Phase(j) /\ Asking(j)' = Asking(j)
  BY <1>2, <1>4, <1>5 DEF Phase, Asking
<1>8. Agreed(j)' <=> Agreed(j)
  BY <1>3, <1>6 DEF Agreed
<1>9. Agreed(j)' = Agreed(j)
  BY <1>8 DEF Agreed
<1> QED BY <1>3, <1>7, <1>9 DEF Same

\* A human says yes, or something the log does not see.
LEMMA HumanLogs ==
  ASSUME DaemonInv,
         \/ \E i \in Id : \E ok \in BOOLEAN : Respond(i, ok)
         \/ \E i \in Id : \E k \in {"approve", "cancel"} : Touch(i, k)
  PROVE  Log!LogNext \/ UNCHANGED Log!logVars
<1>1. PICK i \in Id : (\E ok \in BOOLEAN : Respond(i, ok)) \/ \E k \in {"approve", "cancel"} : Touch(i, k)
  OBVIOUS
<1>2. UNCHANGED <<row, execs, pc>> /\ appr \in Apprs
  BY <1>1 DEF Respond, Touch, store, DaemonInv, StoreInv
<1>3. \A j \in Id : /\ Phase(j)' = Phase(j) /\ Asking(j)' = Asking(j)
                    /\ Len(execs[j])' = Len(execs[j])
  BY <1>2 DEF Phase, Asking
<1>4. /\ \A j \in Id : j # i => (Agreed(j)' <=> Agreed(j))
      /\ Agreed(i) => Agreed(i)'
  <2>1. ASSUME NEW ok \in BOOLEAN, Respond(i, ok)
        PROVE  /\ \A j \in Id : j # i => (Agreed(j)' <=> Agreed(j))
               /\ Agreed(i) => Agreed(i)'
    <3>1. PICK to \in {"approved", "denied"} : appr' = [appr EXCEPT ![i].status = to]
      BY <2>1 DEF Respond
    <3>2. touched' = touched /\ appr[i].status = "pending"
      BY <2>1 DEF Respond
    <3> QED BY <1>2, <3>1, <3>2 DEF Agreed, Apprs
  <2>2. ASSUME NEW k \in {"approve", "cancel"}, Touch(i, k)
        PROVE  /\ \A j \in Id : j # i => (Agreed(j)' <=> Agreed(j))
               /\ Agreed(i) => Agreed(i)'
    BY <2>2 DEF Touch, Agreed, store
  <2> QED BY <1>1, <2>1, <2>2
<1>5. \A j \in Id : j # i => Agreed(j)' = Agreed(j)
  BY <1>4 DEF Agreed
<1>6. CASE Agreed(i)' <=> Agreed(i)
  <2>1. Agreed(i)' = Agreed(i)
    BY <1>6 DEF Agreed
  <2>2. \A j \in Id : Same(j)
    BY <1>3, <1>5, <2>1 DEF Same
  <2> QED BY <2>2, LogStutters
<1>7. CASE ~Agreed(i) /\ Agreed(i)'
  <2> DEFINE agr == [j \in Id |-> appr[j].status = "approved" \/ <<j, "approve">> \in touched]
  <2>1. agr' = [agr EXCEPT ![i] = TRUE] /\ ~agr[i]
    BY <1>5, <1>7 DEF Agreed
  <2>2. [j \in Id |-> Phase(j)]' = [j \in Id |-> Phase(j)]
    BY <1>3
  <2>3. [j \in Id |-> row[j].mode = "copilot" /\ Waits(row[j].plan, "copilot")]'
        = [j \in Id |-> row[j].mode = "copilot" /\ Waits(row[j].plan, "copilot")]
    BY <1>3 DEF Asking
  <2>4. [j \in Id |-> Len(execs[j])]' = [j \in Id |-> Len(execs[j])]
    BY <1>3
  <2>5. Log!Agree(i)
    BY <2>1, <2>2, <2>3, <2>4 DEF Log!Agree
  <2> QED BY <2>5 DEF Log!LogNext
<1> QED BY <1>4, <1>6, <1>7

\* A new decision is proposed.
LEMMA InsertLogs ==
  ASSUME DaemonInv, Insert
  PROVE  Log!LogNext
<1>1. pc.at = "overlay" /\ pc.id = 0 /\ row \in Rows
  BY DEF Insert, DaemonInv, TickInv, Deciding, Running, StoreInv
<1> PICK i \in Free : i = NextId
  BY <1>1, NextIdIsFree DEF DaemonInv, TickInv
<1>2. i \in Id /\ row[i].status = "none" /\ row[i].mode = "none"
  BY DEF Free, DaemonInv, MatchInv, Matches
<1>3. PICK q \in Overlaid(pc.plan) :
        row' = [row EXCEPT ![i].status = "observed", ![i].plan = q]
  BY DEF Insert
<1>4. pc' = [At("build") EXCEPT !.id = i] /\ UNCHANGED <<appr, execs, touched>>
  BY DEF Insert
<1>5. pc'.at = "build" /\ pc'.id = i
  <2>1. At("build") \in Pcs /\ At("build").at = "build"
    BY AtType DEF Deciding
  <2> QED BY <1>2, <1>4, <2>1 DEF Pcs
<1>6. /\ row'[i].status = "observed" /\ row'[i].mode = "none"
      /\ \A j \in Id : j # i => row'[j] = row[j]
  BY <1>1, <1>2, <1>3 DEF Rows
<1>7. \A j \in Id : j # i => Same(j)
  BY <1>1, <1>4, <1>5, <1>6, OthersSame, Ids
<1>8. Phase(i) = "none" /\ Phase(i)' = "open"
  BY <1>1, <1>2, <1>5, <1>6 DEF Phase
<1>9. ~Asking(i) /\ ~Asking(i)'
  BY <1>2, <1>6 DEF Asking
<1>10. Asking(i)' = Asking(i)
  BY <1>9 DEF Asking
<1>11. Agreed(i)' = Agreed(i)
  BY <1>4 DEF Agreed
<1>12. LogMove(i)
  BY <1>4, <1>8, <1>10, <1>11 DEF LogMove
<1> QED BY <1>2, <1>7, <1>12, LogMoves

\* An open decision is refused.
LEMMA EndingLogs ==
  ASSUME DaemonInv, EndWithdraw \/ Revoked \/ Finish
  PROVE  Log!LogNext
<1> PICK i \in Id : i = pc.id
  BY Ids DEF EndWithdraw, Revoked, Finish, DaemonInv, TickInv, Deciding, Running, Pcs
<1>1. /\ pc.at \in {"withdraw", "build", "finish"} /\ i \in Id
      /\ row[i].status = "observed" /\ row \in Rows
  BY Ids DEF EndWithdraw, Revoked, Finish, DaemonInv, TickInv, Deciding, Running, StoreInv, Pcs
<1>2. UNCHANGED <<appr, execs, touched>>
  BY DEF EndWithdraw, Revoked, Finish
<1>3. PICK to \in {"declined", "blocked", "advisory", "critic_rejected", "dry_run"} :
        row' = [row EXCEPT ![i].status = to]
  BY DEF EndWithdraw, Revoked, Finish, DaemonInv, TickInv
<1>4. pc'.at \in {"idle", "overlay"} /\ pc'.id = 0
  <2>1. pc' = Idle \/ pc' = [At("overlay") EXCEPT !.plan = Reducing]
    BY DEF EndWithdraw, Revoked, Finish
  <2>2. At("overlay") \in Pcs /\ At("overlay").at = "overlay" /\ At("overlay").id = 0
    BY AtType
  <2> QED BY <2>1, <2>2, AtType DEF Pcs
<1>5. row'[i].status = to /\ \A j \in Id : j # i => row'[j] = row[j]
  BY <1>1, <1>3 DEF Rows
<1>6. \A j \in Id : j # i => Same(j)
  BY <1>2, <1>4, <1>5, OthersSame, Ids
<1>7. Phase(i) = "open" /\ Phase(i)' = "over"
  BY <1>1, <1>4, <1>5 DEF Phase
<1>8. Agreed(i)' = Agreed(i)
  BY <1>2 DEF Agreed
<1>9. LogMove(i)
  BY <1>2, <1>7, <1>8 DEF LogMove
<1> QED BY <1>1, <1>6, <1>9, LogMoves

\* How executeSteps leaves a decision: under way at its next step, or over.
LEMMA EnterStepEnds ==
  ASSUME NEW i \in Id, NEW k \in 1..3, NEW r \in Rows, EnterStep(i, k, r), i # 0
  PROVE  /\ row'[i].plan = r[i].plan /\ row'[i].mode = r[i].mode
         /\ Phase(i)' \in {"running", "over"} /\ pc'.id \in {0, i}
         /\ \A j \in Id : j # i => row'[j] = r[j]
<1>1. CASE /\ pc' = Idle
           /\ \E s \in {"executed", "blocked", "advisory", "partially_executed"} :
                row' = [r EXCEPT ![i].status = s]
  <2>1. PICK s \in {"executed", "blocked", "advisory", "partially_executed"} :
          row' = [r EXCEPT ![i].status = s]
    BY <1>1
  <2>2. row'[i].status = s /\ row'[i].plan = r[i].plan /\ row'[i].mode = r[i].mode
        /\ \A j \in Id : j # i => row'[j] = r[j]
    BY <2>1 DEF Rows
  <2>3. pc'.at = "idle" /\ pc'.id = 0
    BY <1>1, AtType
  <2> QED BY <2>2, <2>3 DEF Phase
<1>2. CASE pc' = [At("ready") EXCEPT !.id = i, !.step = k] /\ row' = [r EXCEPT ![i].status = "executing"]
  <2>1. At("ready") \in Pcs
    BY AtType DEF Running
  <2>2. pc'.id = i
    BY <1>2, <2>1 DEF Pcs
  <2>3. row'[i].status = "executing" /\ row'[i].plan = r[i].plan /\ row'[i].mode = r[i].mode
        /\ \A j \in Id : j # i => row'[j] = r[j]
    BY <1>2 DEF Rows
  <2> QED BY <2>2, <2>3 DEF Phase
<1> QED BY <1>1, <1>2 DEF EnterStep, StopAt, Refusal

\* An answer lets a decision through only if its posture asks for no yes, or a human said it.
LEMMA SettleLogs ==
  ASSUME DaemonInv, NEW i \in Id, row[i].status = "observed",
         pc.id \in {0, i}, NEW mode \in Postures, NEW answer \in Outcome,
         Settle(i, mode, answer), UNCHANGED <<execs, touched>>,
         \A j \in Id : j # i => appr'[j] = appr[j],
         Agreed(i)' = Agreed(i),
         Executes(answer) /\ mode = "copilot" /\ Waits(row[i].plan, "copilot") => Agreed(i)
  PROVE  Log!LogNext
<1> DEFINE noted == [row EXCEPT ![i].mode = mode, ![i].outcome = answer]
<1>1. row \in Rows /\ pc.at \notin Running
  BY Ids DEF DaemonInv, StoreInv, TickInv, Deciding, Running
<1>2. /\ noted \in Rows /\ noted[i].plan = row[i].plan /\ noted[i].mode = mode
      /\ noted[i].status = "observed"
      /\ \A j \in Id : j # i => noted[j] = row[j]
  BY <1>1 DEF Rows
<1>3. Phase(i) = "open"
  BY <1>1 DEF Phase, Running
<1>4. /\ Phase(i)' \in {"open", "over", "running"}
      /\ Phase(i)' = "running" => (Asking(i)' => Agreed(i))
      /\ pc'.id \in {0, i}
      /\ \A j \in Id : j # i => row'[j] = row[j]
  <2> HIDE DEF noted
  <2>1. CASE Executes(answer) /\ EnterStep(i, 1, noted)
    <3>1. /\ row'[i].plan = noted[i].plan /\ row'[i].mode = noted[i].mode
          /\ Phase(i)' \in {"running", "over"} /\ pc'.id \in {0, i}
          /\ \A j \in Id : j # i => row'[j] = noted[j]
      BY <1>2, <2>1, EnterStepEnds, Ids
    <3>2. Asking(i)' => Agreed(i)
      BY <1>2, <2>1, <3>1 DEF Asking
    <3> QED BY <1>2, <3>1, <3>2
  <2>2. CASE ~Executes(answer) /\ row' = noted /\ pc' = [At("finish") EXCEPT
               !.id = i, !.to = IF answer = "advisory" THEN "advisory" ELSE "declined"]
    <3>1. At("finish") \in Pcs /\ At("finish").at = "finish"
      BY AtType DEF Deciding
    <3>2. pc'.at = "finish" /\ pc'.id = i
      BY <2>2, <3>1 DEF Pcs
    <3>3. Phase(i)' = "open"
      BY <1>2, <2>2, <3>2 DEF Phase
    <3> QED BY <1>2, <2>2, <3>2, <3>3
  <2> QED BY <2>1, <2>2 DEF Settle, noted
<1>5. \A j \in Id : j # i => Same(j)
  BY <1>4, OthersSame, Ids
<1>6. LogMove(i)
  BY <1>3, <1>4 DEF LogMove
<1> QED BY <1>5, <1>6, LogMoves

\* The gate is asked about the tick's decision.
LEMMA AskGateLogs ==
  ASSUME DaemonInv, pc.at \in {"build", "ask"},
         NEW mode \in Postures, AskGate(pc.id, mode)
  PROVE  Log!LogNext
<1> PICK i \in Id : i = pc.id
  BY Ids DEF DaemonInv, TickInv, Deciding, Running, Pcs
<1> DEFINE waits == Waits(row[i].plan, mode)
           answer == IF mode = "advisory" THEN "advisory"
                     ELSE IF ~Waits(row[i].plan, mode) THEN "not_required"
                     ELSE AnswerOf(mode, Poll(i))
<1>1. row[i].status = "observed" /\ row \in Rows /\ appr \in Apprs
  BY DEF DaemonInv, TickInv, Deciding, Running, StoreInv
<1>2. /\ appr' = IF waits /\ appr[i].status = "none"
                 THEN [appr EXCEPT ![i] = [status |-> "pending", left |-> WindowOf(mode)]]
                 ELSE appr
      /\ UNCHANGED <<execs, touched>>
      /\ \/ row' = [row EXCEPT ![i].mode = mode] /\ pc' = Idle
         \/ Settle(i, mode, answer)
  BY DEF AskGate
<1>3. answer \in Outcome
  BY AnswerShape DEF Outcome
<1>4. Executes(answer) /\ mode = "copilot" /\ waits => Agreed(i)
  <2>1. ASSUME Executes(answer), mode = "copilot", waits PROVE Agreed(i)
    <3>1. answer = AnswerOf(mode, Poll(i)) /\ answer \in {"approved", "not_required"}
      BY <2>1 DEF Executes
    <3>2. Poll(i) = "approve"
      BY <2>1, <3>1, AnswerShape
    <3> QED BY <3>2, ApprovalsAgree DEF DaemonInv
  <2> QED BY <2>1
<1> HIDE DEF answer
<1>5. /\ \A j \in Id : j # i => appr'[j] = appr[j]
      /\ (appr'[i].status = "approved") <=> (appr[i].status = "approved")
  BY <1>1, <1>2 DEF Apprs
<1>6. Agreed(i)' <=> Agreed(i)
  BY <1>2, <1>5 DEF Agreed
<1>7. Agreed(i)' = Agreed(i)
  BY <1>6 DEF Agreed
<1>8. CASE row' = [row EXCEPT ![i].mode = mode] /\ pc' = Idle
  <2>1. row'[i].status = "observed" /\ \A j \in Id : j # i => row'[j] = row[j]
    BY <1>1, <1>8 DEF Rows
  <2>2. pc'.at = "idle" /\ pc'.id = 0
    BY <1>8, AtType
  <2>3. \A j \in Id : j # i => Same(j)
    BY <1>2, <1>5, <2>1, <2>2, OthersSame, Ids
  <2>4. Phase(i) = "open" /\ Phase(i)' = "open"
    BY <1>1, <2>1, <2>2 DEF Phase
  <2>5. LogMove(i)
    BY <1>2, <1>7, <2>4 DEF LogMove
  <2> QED BY <2>3, <2>5, LogMoves
<1>9. CASE Settle(i, mode, answer)
  <2>1. Executes(answer) /\ mode = "copilot" /\ Waits(row[i].plan, "copilot") => Agreed(i)
    BY <1>4
  <2> HIDE DEF waits
  <2> QED BY <1>1, <1>2, <1>3, <1>5, <1>7, <1>9, <2>1, SettleLogs
<1> QED BY <1>2, <1>8, <1>9

\* The posture is read, and the gate asked; or an answer that came in is taken.
LEMMA AskingLogs ==
  ASSUME DaemonInv, Posture \/ Ask \/ SettleTick
  PROVE  Log!LogNext \/ UNCHANGED Log!logVars
<1>1. PostureMode \in Postures
  BY DEF PostureMode, EffectiveMode, Postures, DaemonInv, StoreInv
<1>2. CASE Ask
  <2>1. pc.at = "ask" /\ pc.mode \in Postures
    BY <1>2 DEF Ask, DaemonInv, TickInv, Postures
  <2> QED BY <1>2, <2>1, AskGateLogs DEF Ask
<1>3. CASE Posture /\ AskGate(pc.id, PostureMode)
  BY <1>1, <1>3, AskGateLogs DEF Posture
<1>4. CASE /\ pc.at = "build" /\ pc' = [pc EXCEPT !.at = "ask", !.mode = PostureMode]
           /\ UNCHANGED <<store, files, touched, memory, lost, poached, crashes>>
  <2>1. pc'.at = "ask"
    BY <1>4 DEF DaemonInv, TickInv, Pcs
  <2>2. \A j \in Id : Same(j)
    BY <1>4, <2>1 DEF Same, Phase, Asking, Agreed, store
  <2> QED BY <2>2, LogStutters
<1>5. CASE SettleTick
  <2> PICK i \in Id : i = pend.id
    BY <1>5 DEF SettleTick, DaemonInv, PendInv
  <2>1. /\ pend.mode \in Postures /\ pend.ans \in Outcome /\ pc.id = 0
        /\ row[i].status = "observed"
        /\ pend.ans = "approved" => Agreed(i)
        /\ pend.mode = "copilot" => pend.ans # "not_required"
    BY <1>5 DEF SettleTick, DaemonInv, PendInv, TickInv, Deciding, Running
  <2>2. Settle(i, pend.mode, pend.ans) /\ UNCHANGED <<appr, execs, touched>>
    BY <1>5 DEF SettleTick
  <2>3. Agreed(i)' = Agreed(i)
    BY <2>2 DEF Agreed
  <2>4. Executes(pend.ans) /\ pend.mode = "copilot" => Agreed(i)
    BY <2>1 DEF Executes
  <2> QED BY <2>1, <2>2, <2>3, <2>4, SettleLogs
<1> QED BY <1>2, <1>3, <1>4, <1>5 DEF Posture

\* A step reaches the executor.
LEMMA StepLogs ==
  ASSUME DaemonInv, StepStarts
  PROVE  Log!LogNext
<1>1. pc.at = "ready"
  BY DEF StepStarts
<1> PICK i \in Id : i = pc.id
  BY <1>1, UnderWay DEF Running
<1>2. /\ execs' = [execs EXCEPT ![i] = Append(execs[i], "flight")]
      /\ pc' = [pc EXCEPT !.at = "run"] /\ UNCHANGED <<row, appr, touched>>
  BY DEF StepStarts, Await
<1>3. pc'.at = "run" /\ pc'.id = i
  BY <1>2 DEF DaemonInv, TickInv, Pcs
<1>4. execs \in [Id -> Seq(Results)] /\ "flight" \in Results
  BY DEF DaemonInv, StoreInv, Results
<1>5. Len(execs'[i]) = Len(execs[i]) + 1 /\ \A j \in Id : j # i => execs'[j] = execs[j]
  BY <1>2, <1>4
<1>6. \A j \in Id : j # i => Same(j)
  BY <1>2, <1>3, <1>5, OthersSame
<1>7. row[i].status \notin {"none", "observed"}
  BY <1>1, UnderWay DEF Running
<1>8. Phase(i) = "running" /\ Phase(i)' = "running"
  BY <1>1, <1>2, <1>3, <1>7 DEF Phase
<1>9. Asking(i)' = Asking(i) /\ Agreed(i)' = Agreed(i)
  BY <1>2 DEF Asking, Agreed
<1>10. LogMove(i)
  BY <1>5, <1>8, <1>9 DEF LogMove
<1> QED BY <1>6, <1>10, LogMoves

\* The decision under way goes on, or is over.
LEMMA RunLogs ==
  ASSUME DaemonInv,
         AfterStep \/ \E to \in {"blocked", "failed"} : StepRefused(to)
  PROVE  Log!LogNext \/ UNCHANGED Log!logVars
<1>1. pc.at \in {"ready", "after"} /\ UNCHANGED <<appr, execs, touched>>
  BY DEF AfterStep, StepRefused
<1> PICK i \in Id : i = pc.id
  BY <1>1, UnderWay DEF Running
<1>2. row \in Rows /\ row[i].status \notin {"none", "observed"} /\ pc.step \in 1..2
  BY <1>1, UnderWay DEF Running
<1>3. Phase(i) = "running"
  BY <1>1, <1>2 DEF Phase
<1>4. /\ row'[i].plan = row[i].plan /\ row'[i].mode = row[i].mode
      /\ Phase(i)' \in {"running", "over"} /\ pc'.id \in {0, i}
      /\ \A j \in Id : j # i => row'[j] = row[j]
  <2>1. CASE EnterStep(i, pc.step + 1, row)
    <3>1. pc.step + 1 \in 1..3 /\ i # 0
      BY <1>2, Ids
    <3> QED BY <1>2, <2>1, <3>1, EnterStepEnds
  <2>2. CASE /\ pc' = Idle
             /\ \E s \in {"blocked", "failed", "policy_denied", "partially_executed",
                          "executing"} : row' = [row EXCEPT ![i].status = s]
    <3>1. PICK s \in {"blocked", "failed", "policy_denied", "partially_executed",
                      "executing"} : row' = [row EXCEPT ![i].status = s]
      BY <2>2
    <3>2. row'[i].status = s /\ row'[i].plan = row[i].plan /\ row'[i].mode = row[i].mode
          /\ \A j \in Id : j # i => row'[j] = row[j]
      BY <1>2, <3>1 DEF Rows
    <3>3. pc'.at = "idle" /\ pc'.id = 0
      BY <2>2, AtType
    <3> QED BY <3>2, <3>3 DEF Phase
  <2> QED BY <2>1, <2>2 DEF AfterStep, StepRefused, StopAt
<1>5. \A j \in Id : j # i => Same(j)
  BY <1>1, <1>4, OthersSame, Ids
<1>6. Agreed(i)' = Agreed(i) /\ Asking(i)' = Asking(i)
  BY <1>1, <1>4 DEF Agreed, Asking
<1>7. CASE Phase(i)' = "running"
  <2>1. \A j \in Id : Same(j)
    BY <1>1, <1>3, <1>5, <1>6, <1>7 DEF Same
  <2> QED BY <2>1, LogStutters
<1>8. CASE Phase(i)' = "over"
  <2>1. LogMove(i)
    BY <1>1, <1>3, <1>6, <1>8 DEF LogMove
  <2> QED BY <1>5, <2>1, LogMoves
<1> QED BY <1>4, <1>7, <1>8

\* Attempts are resolved, rows reconciled, or a process ends or begins.
LEMMA RecoveryLogs ==
  ASSUME DaemonInv, ResolveAttempts \/ Stranded \/ Crash \/ Stop \/ Boot
  PROVE  Log!LogNext
<1>1. /\ row \in Rows /\ appr \in Apprs /\ execs \in [Id -> Seq(Results)] /\ pc \in Pcs
      /\ touched' = touched
  BY DEF DaemonInv, StoreInv, TickInv, ResolveAttempts, Stranded, Crash, Stop, Boot, store
<1>2. /\ \A j \in Id : Len(execs'[j]) = Len(execs[j])
      /\ execs' \in [Id -> Seq(Results)]
  <2>1. CASE ResolveAttempts
    BY <1>1, <2>1, ResolvedShape
  <2>2. CASE ~ResolveAttempts
    <3>1. execs' = execs \/ \E o \in Results : execs' = Landed(o)
      BY <2>2 DEF Stranded, Crash, Stop, Boot, store, Results
    <3> QED BY <1>1, <3>1, LandedShape DEF DaemonInv
  <2> QED BY <2>1, <2>2
<1>3. \A j \in Id : (appr'[j].status = "approved") <=> (appr[j].status = "approved")
  <2>1. CASE Boot
    <3>1. appr' = [i \in Id |->
                     IF appr[i].status # "pending" THEN appr[i]
                     ELSE [appr[i] EXCEPT !.status = IF appr[i].left = 0 THEN "expired"
                                                     ELSE "cancelled"]]
      BY <2>1 DEF Boot
    <3> QED BY <1>1, <3>1 DEF Apprs
  <2>2. CASE Stop
    BY <1>1, <2>2, ZenonT(40) DEF Stop, Closed, Apprs
  <2>3. appr' = appr \/ Boot \/ Stop
    BY DEF ResolveAttempts, Stranded, Crash, store
  <2> QED BY <2>1, <2>2, <2>3
<1>4. \A j \in Id : /\ row'[j].mode = row[j].mode /\ row'[j].plan = row[j].plan
                    /\ \/ row'[j].status = row[j].status
                       \/ /\ row[j].status \in {"observed", "executing"}
                          /\ row'[j].status \notin {"none", "observed", "executing"}
  <2>1. CASE ResolveAttempts \/ Stranded
    <3>1. row' = Reconciled(row, execs')
      BY <2>1 DEF ResolveAttempts, Stranded
    <3>2. \A j \in Id :
            \/ row'[j] = row[j]
            \/ /\ row[j].status = "executing" /\ row'[j].status \in Ended
               /\ row'[j].mode = row[j].mode /\ row'[j].plan = row[j].plan
      BY <1>1, <1>2, <3>1, ReconciledRows
    <3> QED BY <3>2 DEF Ended
  <2>2. CASE Boot
    <3> TAKE j \in Id
    <3> DEFINE r == Reconciled(row, execs')
    <3>1. r \in Rows /\ (r[j] = row[j] \/ /\ row[j].status = "executing" /\ r[j].status \in Ended
                                          /\ r[j].mode = row[j].mode /\ r[j].plan = row[j].plan)
      BY <1>1, <1>2, ReconciledRows
    <3>2. row'[j] = IF r[j].status # "observed" THEN r[j]
                    ELSE IF appr[j].status = "pending"
                         THEN [r[j] EXCEPT !.status = "declined",
                                           !.outcome = IF appr[j].left = 0 THEN "timeout"
                                                       ELSE "cancelled"]
                         ELSE [r[j] EXCEPT !.status = "failed"]
      BY <2>2 DEF Boot, Orphaned
    <3> HIDE DEF r
    <3>3. CASE r[j].status # "observed"
      BY <3>1, <3>2, <3>3 DEF Ended
    <3>4. CASE r[j].status = "observed"
      <4>1. \E s \in {"declined", "failed"} : \E o \in Outcome :
              row'[j] = [r[j] EXCEPT !.status = s, !.outcome = o]
        <5>1. r[j].outcome \in Outcome /\ "timeout" \in Outcome /\ "cancelled" \in Outcome
          BY <3>1 DEF Rows, Outcome
        <5>2. [r[j] EXCEPT !.status = "failed"]
              = [r[j] EXCEPT !.status = "failed", !.outcome = r[j].outcome]
          BY <3>1 DEF Rows
        <5> QED BY <3>2, <3>4, <5>1, <5>2
      <4>2. row'[j].status \in {"declined", "failed"} /\ row'[j].mode = r[j].mode
            /\ row'[j].plan = r[j].plan
        BY <3>1, <4>1 DEF Rows
      <4> QED BY <3>1, <3>4, <4>2 DEF Ended
    <3> QED BY <3>3, <3>4
  <2>3. CASE Stop
    <3>1. CASE pend = NoPend
      BY <2>3, <3>1 DEF Stop
    <3>2. CASE pend # NoPend
      <4>1. /\ row' = [row EXCEPT ![pend.id].mode = pend.mode,
                                  ![pend.id].outcome = "cancelled",
                                  ![pend.id].status = "declined"]
            /\ pend.id \in Id /\ row[pend.id].status = "observed"
            /\ row[pend.id].mode = pend.mode
        BY <2>3, <3>2 DEF Stop, DaemonInv, PendInv
      <4> QED BY <1>1, <4>1 DEF Rows
    <3> QED BY <3>1, <3>2
  <2>4. CASE Crash
    BY <2>4 DEF Crash, store
  <2> QED BY <2>1, <2>2, <2>3, <2>4
<1>5. \A j \in Id : Asking(j)' = Asking(j)
  BY <1>4 DEF Asking
<1>6. \A j \in Id : Agreed(j)' = Agreed(j)
  <2>1. \A j \in Id : Agreed(j)' <=> Agreed(j)
    BY <1>1, <1>3 DEF Agreed
  <2> QED BY <2>1 DEF Agreed
<1>7. pc' = pc \/ pc'.at \notin Running
  <2>1. CASE ResolveAttempts
    BY <2>1, AtType DEF ResolveAttempts, Running
  <2>2. pc' = pc \/ pc' = Idle \/ pc' = At("down") \/ ResolveAttempts
    BY DEF Stranded, Crash, Stop, Boot, Forget
  <2> QED BY <2>1, <2>2, AtType DEF Running
<1>8. \A j \in Id : pc.id = j /\ pc.at \in Running => row[j].status \notin {"none", "observed"}
  BY DEF DaemonInv, TickInv
<1>9. ASSUME NEW j \in Id, Phase(j)' # Phase(j)
      PROVE  Phase(j) # "none" /\ Phase(j)' = "over"
  <2>1. CASE pc.id = j /\ pc.at \in Running
    <3>1. Phase(j) = "running" /\ row[j].status \notin {"none", "observed"}
      BY <1>8, <2>1 DEF Phase, Running
    <3>2. Phase(j)' \in {"running", "over"}
      BY <1>4, <3>1 DEF Phase
    <3> QED BY <1>9, <3>1, <3>2
  <2>2. CASE ~(pc.id = j /\ pc.at \in Running)
    <3>1. ~(pc'.id = j /\ pc'.at \in Running)
      BY <1>7, <2>2
    <3>2. row'[j].status # row[j].status
      BY <1>9, <2>2, <3>1 DEF Phase, Running
    <3> QED BY <1>4, <2>2, <3>1, <3>2 DEF Phase, Running
  <2> QED BY <2>1, <2>2
<1> QED BY <1>2, <1>5, <1>6, <1>9, LogRecovers

\* The daemon, its gate, the reconcile timer, crashes and restarts keep the decision log: a
\* decision is let through once, with a human's yes where its posture asks for one, and only
\* what was let through and is not over runs a step.
THEOREM DaemonKeepsLog == Spec => ImplementsLog
<1>1. Init => Log!LogInit
  <2> SUFFICES ASSUME Init PROVE Log!LogInit
    OBVIOUS
  <2>1. \A i \in Id : row[i].status = "none" /\ row[i].mode = "none"
                      /\ appr[i].status = "none" /\ Len(execs[i]) = 0
    BY DEF Init
  <2>2. touched = {} /\ pc.at = "idle"
    BY AtType DEF Init
  <2>3. \A i \in Id : Phase(i) = "none"
    BY <2>1, <2>2 DEF Phase
  <2>4. \A i \in Id : (row[i].mode = "copilot" /\ Waits(row[i].plan, "copilot")) = FALSE
    BY <2>1
  <2>5. \A i \in Id : (appr[i].status = "approved" \/ <<i, "approve">> \in touched) = FALSE
    BY <2>1, <2>2
  <2> QED BY <2>1, <2>3, <2>4, <2>5 DEF Log!LogInit
<1>2. ASSUME DaemonInv, [Next]_vars PROVE Log!LogNext \/ UNCHANGED Log!logVars
  <2>1. CASE TickStep
    BY <1>2, <2>1, UnseenSteps, WithdrawUnseen, LogStutters, InsertLogs, EndingLogs, AskingLogs,
       StepLogs, RunLogs, RecoveryLogs DEF TickStep
  <2>2. CASE Gate
    BY <1>2, <2>2, UnseenSteps, LogStutters DEF Gate
  <2>3. CASE Environment
    BY <1>2, <2>3, UnseenSteps, LogStutters, HumanLogs, RecoveryLogs DEF Environment
  <2>4. CASE Boot
    BY <1>2, <2>4, RecoveryLogs
  <2>5. CASE Tick
    BY <1>2, <2>5, UnseenSteps, LogStutters
  <2>6. CASE UNCHANGED vars
    <3>1. \A j \in Id : Same(j)
      BY <2>6 DEF vars, store, Same, Phase, Asking, Agreed
    <3> QED BY <3>1, LogStutters
  <2> QED BY <1>2, <2>1, <2>2, <2>3, <2>4, <2>5, <2>6 DEF Next
<1>3. DaemonInv /\ [Next]_vars => [Log!LogNext]_Log!logVars
  BY <1>2
<1> QED BY <1>1, <1>3, DaemonInvHolds, PTL DEF Spec, ImplementsLog, Log!LogSpec

\* What the log's promises come to: nothing runs before it was let through, and what needed
\* a human's yes had it.
Consented ==
  \A i \in Id :
    /\ Phase(i) \in {"none", "open"} => Len(execs[i]) = 0
    /\ Asking(i) /\ (Phase(i) = "running" \/ Len(execs[i]) > 0) => Agreed(i)

\* The log's steps keep consent, whatever keeps the log.
LEMMA LogKeepsConsent ==
  ASSUME Consented, Log!LogNext \/ UNCHANGED Log!logVars,
         \A i \in Id : Len(execs[i]) \in Nat /\ Len(execs[i])' \in Nat
  PROVE  Consented'
<1> DEFINE phs == [j \in Id |-> Phase(j)]
           ask == [j \in Id |-> row[j].mode = "copilot" /\ Waits(row[j].plan, "copilot")]
           agr == [j \in Id |-> appr[j].status = "approved" \/ <<j, "approve">> \in touched]
           ran == [j \in Id |-> Len(execs[j])]
<1>1. \A i \in Id : /\ phs[i] = Phase(i) /\ phs'[i] = Phase(i)'
                    /\ ask[i] = Asking(i) /\ ask'[i] = Asking(i)'
                    /\ agr[i] = Agreed(i) /\ agr'[i] = Agreed(i)'
                    /\ ran[i] = Len(execs[i]) /\ ran'[i] = Len(execs[i])'
  BY DEF Asking, Agreed
<1>2. DOMAIN phs = Id /\ DOMAIN ask = Id /\ DOMAIN agr = Id /\ DOMAIN ran = Id
  OBVIOUS
<1>3. \/ \E d \in Id :
           \/ /\ phs[d] = "none" /\ phs' = [phs EXCEPT ![d] = "open"]
              /\ UNCHANGED <<ask, agr, ran>>
           \/ agr' = [agr EXCEPT ![d] = TRUE] /\ UNCHANGED <<phs, ask, ran>>
           \/ /\ phs[d] = "open" /\ (phs' = phs \/ phs' = [phs EXCEPT ![d] = "over"])
              /\ (\E a \in BOOLEAN : ask' = [ask EXCEPT ![d] = a]) /\ UNCHANGED <<agr, ran>>
           \/ /\ phs[d] = "open" /\ phs' = [phs EXCEPT ![d] = "running"]
              /\ (\E a \in BOOLEAN : ask' = [ask EXCEPT ![d] = a]) /\ UNCHANGED <<agr, ran>>
              /\ ask'[d] => agr[d]
           \/ /\ phs[d] = "running" /\ ran' = [ran EXCEPT ![d] = ran[d] + 1]
              /\ UNCHANGED <<phs, ask, agr>>
           \/ /\ phs[d] = "running" /\ phs' = [phs EXCEPT ![d] = "over"]
              /\ UNCHANGED <<ask, agr, ran>>
      \/ /\ \A d \in Id : phs'[d] # phs[d] => phs'[d] = "over"
         /\ UNCHANGED <<ask, agr, ran>>
      \/ UNCHANGED <<phs, ask, agr, ran>>
  BY DEF Log!LogNext, Log!logVars, Log!Propose, Log!Agree, Log!Refuse, Log!Note,
         Log!LetThrough, Log!RunStep, Log!Close, Log!Recover, Log!Asked, Log!Move
<1> HIDE DEF phs, ask, agr, ran
<1>4. \A i \in Id : /\ phs[i] \in {"none", "open"} => ran[i] = 0
                    /\ ask[i] /\ (phs[i] = "running" \/ ran[i] > 0) => agr[i]
  BY <1>1 DEF Consented
<1>5. ASSUME NEW i \in Id
      PROVE  /\ phs'[i] \in {"none", "open"} => ran'[i] = 0
             /\ ask'[i] /\ (phs'[i] = "running" \/ ran'[i] > 0) => agr'[i]
  <2>1. ran[i] \in Nat /\ ~(0 > 0)
    BY <1>1
  <2> QED BY <1>2, <1>3, <1>4, <2>1
<1> QED BY <1>1, <1>5 DEF Consented

\* No step of a decision that needed a human's yes reaches an executor without one, through
\* whatever crash, restart, late answer or reconciliation.
THEOREM NothingRunsUnasked ==
  Spec => [](\A i \in Id : Asking(i) /\ execs[i] # <<>> => Agreed(i))
<1>1. ASSUME DaemonInv PROVE \A i \in Id : Len(execs[i]) \in Nat /\ (execs[i] # <<>> => Len(execs[i]) > 0)
  BY <1>1 DEF DaemonInv, StoreInv
<1>2. Init => Consented
  BY AtType DEF Init, Consented, Phase, Asking
<1>3. DaemonInv /\ DaemonInv' /\ Consented /\ [Log!LogNext]_Log!logVars => Consented'
  <2> SUFFICES ASSUME DaemonInv, DaemonInv', Consented, [Log!LogNext]_Log!logVars
               PROVE  Consented'
    OBVIOUS
  <2>1. \A i \in Id : Len(execs[i]) \in Nat /\ Len(execs[i])' \in Nat
    BY DEF DaemonInv, StoreInv
  <2> QED BY <2>1, LogKeepsConsent
<1>4. DaemonInv /\ Consented => \A i \in Id : Asking(i) /\ execs[i] # <<>> => Agreed(i)
  BY <1>1 DEF Consented
<1>5. Spec => []DaemonInv /\ ImplementsLog
  BY DaemonInvHolds, DaemonKeepsLog
<1> QED BY <1>2, <1>3, <1>4, <1>5, PTL DEF Spec, ImplementsLog, Log!LogSpec

-----------------------------------------------------------------------------
(* The contract of a step.                                                 *)

Recorded(s) == StepState(s[1], s[2])
Runs == [s \in StepOf |-> StepState(s[1], s[2])]

\* One step is in flight at a time, and it is the one the tick runs or resolves, if it does.
FlightInv ==
  /\ \A s, t \in StepOf : Recorded(s) = "flight" /\ Recorded(t) = "flight" => s = t
  /\ pc.at \in {"resolve", "run"} =>
       \A s \in StepOf : Recorded(s) = "flight" => s = <<pc.id, pc.step>>

\* At most one step changes, as the contract lets it.
StepChanges(s) ==
  /\ \A t \in StepOf : t # s => Recorded(t)' = Recorded(t)
  /\ \/ Recorded(s)' = Recorded(s)
     \/ Recorded(s) = "flight" /\ Recorded(s)' \in {"confirmed", "failed"}
     \/ Recorded(s) = "confirmed" /\ Recorded(s)' = "failed"
     \/ /\ Recorded(s) \in {"none", "confirmed"} /\ Recorded(s)' = "flight"
        /\ \A t \in StepOf : Recorded(t) # "flight"

\* Such a change is a step of the contract, and leaves one step in flight at most.
LEMMA ChangeKeepsContract ==
  ASSUME FlightInv, NEW s \in StepOf, StepChanges(s)
  PROVE  /\ [Steps!RunNext]_Runs
         /\ \A t, u \in StepOf : Recorded(t)' = "flight" /\ Recorded(u)' = "flight" => t = u
<1>1. \A t, u \in StepOf : Recorded(t)' = "flight" /\ Recorded(u)' = "flight" => t = u
  BY DEF StepChanges, FlightInv
<1> DEFINE v == Recorded(s)'
<1>2. Runs[s] = Recorded(s) /\ Runs' = [Runs EXCEPT ![s] = v]
  <2>1. \A t \in StepOf : Runs[t] = Recorded(t) /\ Runs'[t] = Recorded(t)'
    BY DEF Runs, Recorded
  <2>2. Runs = [t \in StepOf |-> Runs[t]] /\ Runs' = [t \in StepOf |-> Runs'[t]]
    BY DEF Runs
  <2>3. \A t \in StepOf : t # s => Runs'[t] = Runs[t]
    BY <2>1 DEF StepChanges
  <2>4. Runs' = [t \in StepOf |-> IF t = s THEN v ELSE Runs[t]]
    BY <2>1, <2>2, <2>3
  <2> QED BY <2>1, <2>2, <2>4
<1>3. (\A t \in StepOf : Recorded(t) # "flight") => \A t \in StepOf : Runs[t] # "flight"
  BY DEF Runs, Recorded
<1>4. CASE v = Recorded(s)
  <2>1. Runs' = Runs
    BY <1>2, <1>4 DEF Runs
  <2> QED BY <1>1, <2>1
<1>5. CASE Recorded(s) = "flight" /\ v \in {"confirmed", "failed"}
  <2>1. Steps!Finish(s)
    BY <1>2, <1>5 DEF Steps!Finish, Steps!Becomes, Runs
  <2> QED BY <1>1, <2>1 DEF Steps!RunNext
<1>6. CASE Recorded(s) = "confirmed" /\ v = "failed"
  <2>1. Steps!Overwrite(s)
    BY <1>2, <1>6 DEF Steps!Overwrite, Steps!Becomes, Runs
  <2> QED BY <1>1, <2>1 DEF Steps!RunNext
<1>7. CASE /\ Recorded(s) \in {"none", "confirmed"} /\ v = "flight"
           /\ \A t \in StepOf : Recorded(t) # "flight"
  <2>1. Steps!NoneFlying
    BY <1>3, <1>7 DEF Steps!NoneFlying, Runs
  <2>2. Steps!Start(s) \/ Steps!Overwrite(s)
    BY <1>2, <1>7, <2>1 DEF Steps!Start, Steps!Overwrite, Steps!Becomes, Runs
  <2> QED BY <1>1, <2>2 DEF Steps!RunNext
<1> QED BY <1>4, <1>5, <1>6, <1>7 DEF StepChanges

\* A decision's executions are those of its two steps.
LEMMA RecordedShape ==
  ASSUME DaemonInv, NEW i \in Id
  PROVE  /\ DOMAIN execs[i] = 1..Len(execs[i]) /\ Len(execs[i]) \in 0..2
         /\ \A k \in 1..2 : /\ <<i, k>> \in StepOf
                            /\ Recorded(<<i, k>>) = IF k <= Len(execs[i]) THEN execs[i][k] ELSE "none"
<1>1. execs[i] \in Seq(Results) /\ Matches(row[i], execs[i], Settled(i))
  BY DEF DaemonInv, StoreInv, MatchInv
<1>2. Len(execs[i]) \in Nat /\ Len(execs[i]) <= 2 /\ DOMAIN execs[i] = 1..Len(execs[i])
  BY <1>1 DEF Matches
<1>3. Len(execs[i]) \in 0..2
  <2>1. \A n \in Nat : n <= 2 => n \in 0..2
    OBVIOUS
  <2> QED BY <1>2, <2>1
<1>4. ASSUME NEW k \in 1..2
      PROVE  /\ <<i, k>> \in StepOf
             /\ Recorded(<<i, k>>) = IF k <= Len(execs[i]) THEN execs[i][k] ELSE "none"
  <2>1. <<i, k>> \in StepOf /\ Recorded(<<i, k>>) = StepState(i, k)
    BY DEF StepOf, Recorded
  <2>2. k \in DOMAIN execs[i] <=> k <= Len(execs[i])
    BY <1>2
  <2> QED BY <2>1, <2>2 DEF StepState
<1> QED BY <1>2, <1>3, <1>4

\* Only the decision under way changes, at one step.
LEMMA OneExecutionChanges ==
  ASSUME DaemonInv, DaemonInv', NEW i \in Id, NEW k \in 1..2, NEW v \in Results,
         \A j \in Id : j # i => execs'[j] = execs[j],
         Len(execs'[i]) \in {k, Len(execs[i])}, Len(execs'[i]) >= Len(execs[i]),
         Len(execs[i]) >= k - 1,
         k <= Len(execs'[i]), execs'[i][k] = v,
         \A m \in 1..Len(execs[i]) : m # k => execs'[i][m] = execs[i][m]
  PROVE  /\ \A t \in StepOf : t # <<i, k>> => Recorded(t)' = Recorded(t)
         /\ Recorded(<<i, k>>)' = v /\ <<i, k>> \in StepOf
<1>1. /\ DOMAIN execs[i] = 1..Len(execs[i]) /\ Len(execs[i]) \in 0..2
      /\ DOMAIN execs'[i] = 1..Len(execs'[i]) /\ Len(execs'[i]) \in 0..2
      /\ \A m \in 1..2 : /\ <<i, m>> \in StepOf
                         /\ Recorded(<<i, m>>) = IF m <= Len(execs[i]) THEN execs[i][m] ELSE "none"
                         /\ Recorded(<<i, m>>)' = IF m <= Len(execs'[i]) THEN execs'[i][m] ELSE "none"
  <2>1. /\ DOMAIN execs[i] = 1..Len(execs[i]) /\ Len(execs[i]) \in 0..2
        /\ \A m \in 1..2 : /\ <<i, m>> \in StepOf
                           /\ Recorded(<<i, m>>) = IF m <= Len(execs[i]) THEN execs[i][m] ELSE "none"
    BY RecordedShape
  <2>2. execs'[i] \in Seq(Results) /\ Matches(row'[i], execs'[i], Settled(i)')
    BY DEF DaemonInv, StoreInv, MatchInv
  <2>3. Len(execs'[i]) \in Nat /\ Len(execs'[i]) <= 2 /\ DOMAIN execs'[i] = 1..Len(execs'[i])
    BY <2>2 DEF Matches
  <2>4. \A m \in 1..2 : Recorded(<<i, m>>)' = IF m <= Len(execs'[i]) THEN execs'[i][m] ELSE "none"
    <3> TAKE m \in 1..2
    <3>1. Recorded(<<i, m>>)' = StepState(i, m)'
      BY DEF Recorded
    <3>2. m \in DOMAIN execs'[i] <=> m <= Len(execs'[i])
      BY <2>3
    <3> QED BY <3>1, <3>2 DEF StepState
  <2>5. Len(execs'[i]) \in 0..2
    <3>1. \A n \in Nat : n <= 2 => n \in 0..2
      OBVIOUS
    <3> QED BY <2>3, <3>1
  <2> QED BY <2>1, <2>3, <2>4, <2>5
<1>2. Recorded(<<i, k>>)' = v /\ <<i, k>> \in StepOf
  BY <1>1
<1>3. ASSUME NEW m \in 1..2, m # k PROVE Recorded(<<i, m>>)' = Recorded(<<i, m>>)
  <2>1. CASE m <= Len(execs[i])
    BY <1>1, <1>3, <2>1
  <2>2. CASE m > Len(execs[i])
    <3>1. Len(execs'[i]) \in {k, Len(execs[i])} /\ Len(execs[i]) < m
      BY <2>2
    <3>2. CASE Len(execs'[i]) = Len(execs[i])
      BY <1>1, <2>2, <3>2
    <3>3. CASE Len(execs'[i]) = k
      <4>1. m # 1 => m = 2 /\ k = 1
        BY <1>3
      <4>2. m # 1
        BY <1>1, <1>3, <2>2
      <4> QED BY <1>1, <2>2, <3>3, <4>1, <4>2
    <3> QED BY <3>1, <3>2, <3>3
  <2> QED BY <1>1, <2>1, <2>2
<1>4. ASSUME NEW t \in StepOf, t # <<i, k>> PROVE Recorded(t)' = Recorded(t)
  <2>1. PICK j \in Id, m \in 1..2 : t = <<j, m>>
    BY DEF StepOf
  <2>2. CASE j = i
    BY <1>3, <1>4, <2>1, <2>2
  <2>3. CASE j # i
    BY <2>1, <2>3 DEF Recorded, StepState
  <2> QED BY <2>2, <2>3
<1> QED BY <1>2, <1>4

\* A step that writes no execution, and does not turn to one that is not in flight.
LEMMA NoExecutionChanges ==
  ASSUME FlightInv, UNCHANGED execs, pc' = pc \/ pc'.at \notin {"resolve", "run"}
  PROVE  FlightInv' /\ [Steps!RunNext]_Runs
BY DEF FlightInv, Recorded, StepState, Runs

\* What came of the attempt in flight is recorded.
LEMMA LandingKeepsContract ==
  ASSUME DaemonInv, FlightInv, NEW o \in Results, execs' = Landed(o),
         \/ pc' = pc /\ o # "flight"
         \/ pc'.at \notin {"resolve", "run"}
  PROVE  FlightInv' /\ [Steps!RunNext]_Runs
<1>1. \A s \in StepOf : Recorded(s)' = IF Recorded(s) = "flight" THEN o ELSE Recorded(s)
  <2> SUFFICES ASSUME NEW i \in Id, NEW k \in 1..2
               PROVE  StepState(i, k)' = IF StepState(i, k) = "flight" THEN o ELSE StepState(i, k)
    BY DEF StepOf, Recorded
  <2>1. DOMAIN execs'[i] = DOMAIN execs[i]
        /\ \A m \in DOMAIN execs[i] :
             execs'[i][m] = IF execs[i][m] = "flight" THEN o ELSE execs[i][m]
    BY LandedShape DEF DaemonInv
  <2> QED BY <2>1 DEF StepState
<1>2. o # "flight" => \A s \in StepOf : Recorded(s)' # "flight"
  BY <1>1
<1>3. CASE \A s \in StepOf : Recorded(s) # "flight"
  <2>1. \A s \in StepOf : Recorded(s)' = Recorded(s)
    BY <1>1, <1>3
  <2>2. Runs' = Runs
    BY <2>1 DEF Runs, Recorded
  <2>3. FlightInv'
    BY <1>3, <2>1 DEF FlightInv
  <2> QED BY <2>2, <2>3
<1>4. ASSUME NEW s \in StepOf, Recorded(s) = "flight" PROVE FlightInv' /\ [Steps!RunNext]_Runs
  <2>1. \A t \in StepOf : t # s => Recorded(t) # "flight"
    BY <1>4 DEF FlightInv
  <2>2. StepChanges(s)
    BY <1>1, <1>4, <2>1 DEF StepChanges, Results
  <2>3. /\ [Steps!RunNext]_Runs
        /\ \A t, u \in StepOf : Recorded(t)' = "flight" /\ Recorded(u)' = "flight" => t = u
    BY <2>2, ChangeKeepsContract
  <2> QED BY <1>2, <2>3 DEF FlightInv
<1> QED BY <1>3, <1>4

\* The tick begins a step, or writes its outcome, or the resolver's.
LEMMA TickKeepsContract ==
  ASSUME DaemonInv, DaemonInv', FlightInv,
         \/ StepStarts \/ ResolveAttempts
         \/ \E o \in {"confirmed", "failed", "denied", "flight"} : StepEnds(o)
  PROVE  FlightInv' /\ [Steps!RunNext]_Runs
<1> PICK i : i = pc.id
  OBVIOUS
<1> PICK k : k = pc.step
  OBVIOUS
<1>1. CASE StepStarts
  <2>1. /\ pc.at = "ready" /\ ~Flying /\ execs' = [execs EXCEPT ![i] = Append(execs[i], "flight")]
        /\ pc' = [pc EXCEPT !.at = "run"]
    BY <1>1 DEF StepStarts, Await
  <2>2. i \in Id /\ k \in 1..2 /\ execs[i] \in Seq(Results) /\ Len(execs[i]) = k - 1
        /\ "flight" \in Results
    BY <2>1, UnderWay DEF DaemonInv, RunInv, Running, Results
  <2>3. execs'[i] = Append(execs[i], "flight") /\ \A j \in Id : j # i => execs'[j] = execs[j]
    BY <2>1, <2>2 DEF DaemonInv, StoreInv
  <2>4. Len(execs'[i]) = k /\ execs'[i][k] = "flight"
        /\ \A m \in 1..Len(execs[i]) : execs'[i][m] = execs[i][m]
    BY <2>2, <2>3
  <2>5. /\ \A t \in StepOf : t # <<i, k>> => Recorded(t)' = Recorded(t)
        /\ Recorded(<<i, k>>)' = "flight" /\ <<i, k>> \in StepOf
    <3>1. /\ Len(execs'[i]) \in {k, Len(execs[i])}
          /\ Len(execs'[i]) >= Len(execs[i]) /\ k <= Len(execs'[i]) /\ Len(execs[i]) >= k - 1
      BY <2>2, <2>4
    <3> QED BY <2>2, <2>3, <2>4, <3>1, OneExecutionChanges
  <2>6. \A t \in StepOf : Recorded(t) # "flight"
    BY <2>1 DEF Flying, StepOf, Recorded, StepState
  <2>7. Recorded(<<i, k>>) = "none"
    <3>1. Recorded(<<i, k>>) = IF k <= Len(execs[i]) THEN execs[i][k] ELSE "none"
      BY <2>2, RecordedShape
    <3> QED BY <2>2, <3>1
  <2>8. StepChanges(<<i, k>>)
    BY <2>5, <2>6, <2>7 DEF StepChanges
  <2>9. pc'.id = i /\ pc'.step = k
    BY <2>1 DEF DaemonInv, TickInv, Pcs
  <2>10. \A t \in StepOf : Recorded(t)' = "flight" => t = <<i, k>>
    BY <2>5, <2>6
  <2> QED BY <2>5, <2>8, <2>9, <2>10, ChangeKeepsContract DEF FlightInv
<1>2. ASSUME pc.at \in {"resolve", "run"}, pc'.at \notin {"resolve", "run"}, i \in Id,
             k \in 1..Len(execs[i]), Len(execs[i]) \in Nat, execs[i] \in Seq(Results),
             execs[i][k] \in {"flight", "confirmed"},
             \A j \in Id : j # i => execs'[j] = execs[j],
             NEW v \in Results, execs'[i] = [execs[i] EXCEPT ![k] = v]
      PROVE  FlightInv' /\ [Steps!RunNext]_Runs
  <2>1. k \in 1..2 /\ <<i, k>> \in StepOf /\ Recorded(<<i, k>>) = execs[i][k]
    <3>1. Len(execs[i]) \in 0..2
      BY <1>2, RecordedShape
    <3>2. k \in 1..2
      BY <1>2, <3>1
    <3>3. /\ <<i, k>> \in StepOf
          /\ Recorded(<<i, k>>) = IF k <= Len(execs[i]) THEN execs[i][k] ELSE "none"
      BY <1>2, <3>2, RecordedShape
    <3> QED BY <1>2, <3>2, <3>3
  <2>2. Len(execs'[i]) = Len(execs[i]) /\ execs'[i][k] = v
        /\ \A m \in 1..Len(execs[i]) : m # k => execs'[i][m] = execs[i][m]
    BY <1>2
  <2>3. /\ \A t \in StepOf : t # <<i, k>> => Recorded(t)' = Recorded(t)
        /\ Recorded(<<i, k>>)' = v
    <3>1. /\ Len(execs'[i]) \in {k, Len(execs[i])}
          /\ Len(execs'[i]) >= Len(execs[i]) /\ k <= Len(execs'[i]) /\ Len(execs[i]) >= k - 1
      BY <1>2, <2>1, <2>2
    <3>2. i \in Id /\ v \in Results /\ \A j \in Id : j # i => execs'[j] = execs[j]
      BY <1>2
    <3> QED BY <2>1, <2>2, <3>1, <3>2, OneExecutionChanges
  <2>4. \A t \in StepOf : t # <<i, k>> => Recorded(t) # "flight"
    BY <1>2 DEF FlightInv
  <2>5. StepChanges(<<i, k>>)
    BY <1>2, <2>1, <2>3, <2>4 DEF StepChanges, Results
  <2> QED BY <1>2, <2>1, <2>5, ChangeKeepsContract DEF FlightInv
<1>3. CASE ResolveAttempts
  <2>1. PICK o \in Results : execs'[i] = [execs[i] EXCEPT ![k] = o]
    BY <1>3, ResolvedShape
  <2>2. /\ pc.at = "resolve" /\ i \in Id /\ k \in 1..Len(execs[i]) /\ Len(execs[i]) \in Nat
        /\ \A j \in Id : j # i => execs'[j] = execs[j]
    BY <1>3, ResolvedShape
  <2>3. execs[i] \in Seq(Results) /\ execs[i][k] \in {"flight", "confirmed"}
    BY <2>2 DEF DaemonInv, StoreInv, ResolveInv
  <2>4. pc'.at = "sense"
    BY <1>3, AtType DEF ResolveAttempts
  <2> QED BY <1>2, <2>1, <2>2, <2>3, <2>4
<1>4. ASSUME NEW o \in {"confirmed", "failed", "denied", "flight"}, StepEnds(o)
      PROVE  FlightInv' /\ [Steps!RunNext]_Runs
  <2> DEFINE v == IF o = "denied" THEN "failed" ELSE o
  <2>1. /\ pc.at = "run" /\ pc' = [pc EXCEPT !.at = "after", !.to = o] /\ v \in Results
        /\ execs' = [execs EXCEPT ![i] = [execs[i] EXCEPT ![k] = v]]
    BY <1>4 DEF StepEnds, Results
  <2>2. i \in Id /\ k \in 1..2 /\ execs[i] \in Seq(Results) /\ Len(execs[i]) = k
        /\ execs[i][k] \in {"flight", "confirmed"}
    BY <2>1, UnderWay DEF DaemonInv, RunInv, Running
  <2>3. execs'[i] = [execs[i] EXCEPT ![k] = v] /\ \A j \in Id : j # i => execs'[j] = execs[j]
    BY <2>1, <2>2 DEF DaemonInv, StoreInv
  <2>4. pc'.at = "after" /\ k \in 1..Len(execs[i]) /\ Len(execs[i]) \in Nat
    BY <2>1, <2>2 DEF DaemonInv, TickInv, Pcs
  <2> HIDE DEF v
  <2> QED BY <1>2, <2>1, <2>2, <2>3, <2>4
<1> QED BY <1>1, <1>3, <1>4

\* Every step of the daemon.
LEMMA ContractStep ==
  ASSUME DaemonInv, DaemonInv', FlightInv, [Next]_vars
  PROVE  FlightInv' /\ [Steps!RunNext]_Runs
<1>1. CASE BeginTick
  <2>1. UNCHANGED execs
    BY <1>1 DEF BeginTick, store
  <2>2. CASE Await("sense")
    <3>1. pc'.at = "sense"
      BY <2>2 DEF Await, DaemonInv, TickInv, Pcs
    <3> QED BY <2>1, <3>1, NoExecutionChanges
  <2>3. ASSUME NEW i \in Id, NEW k \in DOMAIN execs[i], execs[i][k] = "flight",
               pc' = [At("resolve") EXCEPT !.id = i, !.step = k]
        PROVE  FlightInv' /\ [Steps!RunNext]_Runs
    <3>1. /\ DOMAIN execs[i] = 1..Len(execs[i]) /\ Len(execs[i]) \in 0..2
          /\ \A m \in 1..2 : /\ <<i, m>> \in StepOf
                             /\ Recorded(<<i, m>>) = IF m <= Len(execs[i]) THEN execs[i][m] ELSE "none"
      BY RecordedShape
    <3>2. k \in 1..2 /\ <<i, k>> \in StepOf /\ Recorded(<<i, k>>) = "flight"
      BY <2>3, <3>1
    <3>3. pc'.id = i /\ pc'.step = k
      BY <2>3, AtType DEF Pcs
    <3>4. \A s \in StepOf : Recorded(s)' = Recorded(s)
      BY <2>1 DEF Recorded, StepState
    <3>5. FlightInv'
      BY <3>2, <3>3, <3>4 DEF FlightInv
    <3> QED BY <2>1, <3>5 DEF Runs, StepState
  <2> QED BY <1>1, <2>2, <2>3 DEF BeginTick
<1>2. CASE \/ StepStarts \/ ResolveAttempts
           \/ \E o \in {"confirmed", "failed", "denied", "flight"} : StepEnds(o)
  BY <1>2, TickKeepsContract
<1>3. CASE LaneEvent
  BY <1>3, LandingKeepsContract DEF LaneEvent, Results
<1>4. CASE Boot
  <2>1. PICK o \in Results : execs' = Landed(o)
    BY <1>4 DEF Boot, Results
  <2>2. pc'.at = "idle"
    BY <1>4, AtType DEF Boot
  <2> QED BY <2>1, <2>2, LandingKeepsContract
<1>5. CASE \/ HoldTick \/ PreemptTick \/ SettleTick \/ ExpireTick \/ EndWithdraw \/ Insert
           \/ GuardHolds \/ Revoked \/ Posture \/ Ask \/ Finish \/ AfterStep
           \/ \E p \in {Adding, Reducing, Signal} : PlanTick(p)
           \/ \E to \in {"blocked", "failed"} : StepRefused(to)
  <2>1. UNCHANGED execs
    BY <1>5 DEF HoldTick, PreemptTick, SettleTick, ExpireTick, EndWithdraw, Insert, GuardHolds,
                Revoked, Posture, Ask, Finish, AfterStep, PlanTick, StepRefused, Withdraw,
                AskGate, store
  <2>2. pc'.at \notin {"resolve", "run"}
    <3>1. ASSUME NEW j, NEW m, NEW r, EnterStep(j, m, r) PROVE pc'.at \notin {"resolve", "run"}
      <4>1. pc' = Idle \/ pc' = [At("ready") EXCEPT !.id = j, !.step = m]
        BY <3>1 DEF EnterStep, StopAt
      <4>2. At("ready") \in Pcs /\ At("ready").at = "ready"
        BY AtType DEF Running
      <4> QED BY <4>1, <4>2, AtType DEF Pcs
    <3>2. ASSUME NEW j, NEW m, NEW a, Settle(j, m, a) PROVE pc'.at \notin {"resolve", "run"}
      <4>1. At("finish") \in Pcs /\ At("finish").at = "finish"
        BY AtType DEF Deciding
      <4>2. CASE EnterStep(j, 1, [row EXCEPT ![j].mode = m, ![j].outcome = a])
        BY <3>1, <4>2
      <4>3. CASE pc' = [At("finish") EXCEPT
                          !.id = j, !.to = IF a = "advisory" THEN "advisory" ELSE "declined"]
        BY <4>1, <4>3 DEF Pcs
      <4> QED BY <3>2, <4>2, <4>3 DEF Settle
    <3>3. ASSUME NEW j, NEW m, AskGate(j, m) PROVE pc'.at \notin {"resolve", "run"}
      <4>1. pc' = Idle \/ \E a : Settle(j, m, a)
        BY <3>3 DEF AskGate
      <4> QED BY <3>2, <4>1, AtType
    <3>4. ASSUME NEW u, NEW p, Withdraw(u, p) PROVE pc'.at \notin {"resolve", "run"}
      <4>1. At("withdraw") \in Pcs /\ At("withdraw").at = "withdraw"
        BY AtType DEF Deciding
      <4>2. pc' = [At("withdraw") EXCEPT !.id = pend.id, !.plan = p]
        BY <3>4 DEF Withdraw
      <4> QED BY <4>1, <4>2 DEF Pcs
    <3>5. CASE PreemptTick \/ SettleTick \/ ExpireTick \/ Ask
      BY <3>2, <3>3, <3>4, <3>5 DEF PreemptTick, SettleTick, ExpireTick, Ask
    <3>6. CASE Posture
      <4>1. CASE pc' = [pc EXCEPT !.at = "ask", !.mode = PostureMode]
        BY <4>1 DEF DaemonInv, TickInv, Pcs
      <4> QED BY <3>3, <3>6, <4>1 DEF Posture
    <3>7. CASE AfterStep \/ \E to \in {"blocked", "failed"} : StepRefused(to)
      <4>1. pc' = Idle \/ \E j, m, r : EnterStep(j, m, r)
        BY <3>7 DEF AfterStep, StepRefused, StopAt
      <4> QED BY <3>1, <4>1, AtType
    <3>8. CASE HoldTick \/ EndWithdraw \/ Insert \/ Revoked \/ Finish
               \/ \E p \in {Adding, Reducing, Signal} : PlanTick(p)
      <4>1. /\ At("overlay") \in Pcs /\ At("overlay").at = "overlay"
            /\ At("build") \in Pcs /\ At("build").at = "build"
        BY AtType DEF Deciding
      <4>2. \/ pc' = Idle \/ \E p : pc' = [At("overlay") EXCEPT !.plan = p]
            \/ pc' = [At("build") EXCEPT !.id = NextId]
        BY <3>8 DEF HoldTick, EndWithdraw, Insert, Revoked, Finish, PlanTick
      <4> QED BY <4>1, <4>2, AtType DEF Pcs
    <3>9. CASE GuardHolds
      BY <3>9 DEF GuardHolds, DaemonInv, TickInv, Pcs
    <3> QED BY <1>5, <3>5, <3>6, <3>7, <3>8, <3>9
  <2> QED BY <2>1, <2>2, NoExecutionChanges
<1>6. CASE Gate \/ Tick \/ UNCHANGED vars
  BY <1>6, NoExecutionChanges DEF Gate, GateWake, GateFails, Tick, vars, store
<1>7. CASE Environment /\ ~LaneEvent
  <2>1. UNCHANGED execs
    BY <1>7 DEF Environment, Respond, Touch, SetMode, SetStatus, Stranded, LoseLock, Crash, Stop,
                store
  <2>2. pc' = pc \/ pc' = At("down")
    BY <1>7 DEF Environment, Respond, Touch, SetMode, SetStatus, Stranded, LoseLock, Crash, Stop,
                Forget
  <2> QED BY <2>1, <2>2, NoExecutionChanges, AtType
<1> QED BY <1>1, <1>2, <1>3, <1>4, <1>5, <1>6, <1>7 DEF Next, TickStep, Environment

\* The daemon keeps the contract of a step that the executor keeps: whatever the tick, the
\* resolver at its start, the reconcile timer and restarts write of a decision's executions, one
\* step is in flight at a time, none is started twice, and what failed stays failed.
THEOREM DaemonKeepsContract == Spec => KeepsStepRun
<1>1. ASSUME Init PROVE FlightInv /\ Steps!RunInit
  <2>1. \A s \in StepOf : Recorded(s) = "none"
    BY <1>1 DEF Init, StepOf, Recorded, StepState
  <2> QED BY <2>1 DEF FlightInv, Steps!RunInit, Recorded
<1>2. DaemonInv /\ DaemonInv' /\ FlightInv /\ [Next]_vars => FlightInv' /\ [Steps!RunNext]_Runs
  BY ContractStep
<1>3. KeepsStepRun <=> Steps!RunInit /\ [][Steps!RunNext]_Runs
  BY DEF KeepsStepRun, Steps!RunSpec, Runs
<1> QED BY <1>1, <1>2, <1>3, DaemonInvHolds, PTL DEF Spec
=============================================================================
