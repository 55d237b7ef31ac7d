----------------------------- MODULE DeskDaemon -----------------------------
(***************************************************************************)
(* The desk agent's daemon for ONE lane: the tick (daemon.ts), a decision  *)
(* from its row to its last step, the approval gate that waits for a human *)
(* beside the ticks (approval/gate.ts), the reconcile timer that runs      *)
(* beside both, and what a restart makes of the rows (state/db.ts).        *)
(*                                                                         *)
(* An action is what happens between two awaits. Time is the time LEFT of  *)
(* every deadline, in units of the gate's poll: the code only asks whether *)
(* a deadline has passed. The executor is DeskExecutor; here a step        *)
(* confirms, fails, or stays in flight.                                    *)
(***************************************************************************)
EXTENDS Naturals, Sequences

CONSTANTS
  MaxDecisions,   \* bound on decisions
  Window,         \* DESK_APPROVAL_WINDOW_SEC
  CancelWindow,   \* DESK_CANCEL_WINDOW_SEC; 0 = autopilot runs as copilot
  TickLen,        \* DESK_TICK_SEC
  Veto,           \* how long a veto holds risk-adding decisions
  Retry,          \* how long a decision that did not execute holds its class
  SignalAuto,     \* DESK_SIGNAL_AUTO
  Mode, Status,   \* the desk modes and statuses that occur
  Channel,        \* how humans answer: "api" (web, Telegram), "file"
  MaxCrashes      \* bound on process crashes

ASSUME DaemonAssumption ==
  /\ MaxDecisions \in Nat \ {0} /\ Window \in Nat \ {0} /\ CancelWindow \in Nat
  /\ TickLen \in Nat /\ Veto \in Nat /\ Retry \in Nat /\ MaxCrashes \in Nat
  /\ SignalAuto \in BOOLEAN
  /\ Mode \subseteq {"advisory", "copilot", "autopilot"} /\ Mode # {}
  /\ Status \subseteq {"active", "safe_mode", "revoked", "disabled"} /\ "active" \in Status
  /\ Channel \subseteq {"api", "file"}

VARIABLES
  desk,       \* desks.mode, desks.status
  row,        \* decisions: status, plan, approval_mode, approval_outcome
  appr,       \* approvals: status, and the time left until expires_at_ms
  execs,      \* executions of a decision, by step
  anchor,     \* time left of the lane's veto cooldown (cooldown_anchors)
  files,      \* approve-<id> and cancel-<id> files that exist
  touched,    \* ... that ever existed
  gate,       \* the gate's watch() per decision
  pend,       \* pendings: the decision that waits for an answer
  withdrawn,  \* decisions whose late answer is ignored
  hold,       \* time left of the hold per class of decisions
  lost,       \* another process holds the daemon lock
  pc,         \* what the tick awaits
  poached,    \* decisions the reconcile timer settled under a running tick
  crashes

store  == <<desk, row, appr, execs, anchor>>
memory == <<gate, pend, withdrawn, hold>>
vars   == <<store, files, touched, memory, lost, pc, poached, crashes>>

Id     == 1..MaxDecisions
Class  == {"adding", "reducing", "signal"}
Refused == {"declined", "advisory", "blocked", "critic_rejected", "dry_run"}
Ended  == {"executed", "partially_executed", "failed", "policy_denied"}

\* Plans: what the strategy or the signal detector proposes, and what the
\* overlay may make of a risk-adding one.
Adding   == <<"adding">>
Reducing == <<"reducing">>
Signal   == <<"neutral">>
Mixed    == <<"reducing", "adding">>
Nothing  == <<>>
Overlaid(p) == IF p = Adding THEN {Adding, Mixed, Reducing, Nothing} ELSE {p}

Adds(p) == \E k \in DOMAIN p : p[k] = "adding"
HoldKind(p) == IF p = Signal THEN "signal" ELSE IF Adds(p) THEN "adding" ELSE "reducing"

EffectiveMode(m) == IF m = "autopilot" /\ CancelWindow = 0 THEN "copilot" ELSE m

\* approvalClass: whether this posture waits for a human at all.
Waits(p, mode) ==
  /\ mode # "advisory"
  /\ Adds(p) \/ (p = Signal /\ mode = "copilot" /\ ~SignalAuto)

Outcome == {"none", "approved", "denied", "timeout", "cancelled", "not_required", "advisory"}
Executes(a) == a \in {"approved", "not_required"}

NoGate == [at |-> "off", waited |-> 0, due |-> 0]
NoPend == [id |-> 0, ans |-> "none", left |-> 0, mode |-> "copilot"]
NoHold == [c \in Class |-> 0]
At(a)  == [at |-> a, id |-> 0, plan |-> Nothing, step |-> 0, mode |-> "copilot", to |-> "none"]
Idle   == At("idle")

TypeOK ==
  /\ desk \in [mode : Mode, status : Status]
  /\ row \in [Id -> [status : {"none", "observed", "executing"} \cup Refused \cup Ended,
                     plan : {Adding, Reducing, Signal, Mixed, Nothing},
                     mode : Mode \cup {"none", "advisory", "copilot"}, outcome : Outcome]]
  /\ appr \in [Id -> [status : {"none", "pending", "approved", "denied", "expired", "cancelled"},
                      left : Nat]]
  /\ execs \in [Id -> UNION {[1..n -> {"flight", "confirmed", "failed"}] : n \in 0..2}]
  /\ anchor \in 0..Veto
  /\ files \subseteq touched /\ touched \subseteq Id \X {"approve", "cancel"}
  /\ pend.id \in Id \cup {0} /\ pend.ans \in Outcome /\ pend.left \in Nat
  /\ withdrawn \subseteq Id /\ poached \subseteq Id
  /\ hold \in [Class -> 0..Retry]
  /\ lost \in BOOLEAN
  /\ pc.id \in Id \cup {0} /\ pc.step \in 0..3
  /\ pc.at \in {"idle", "resolve", "sense", "overlay", "build", "ask", "withdraw",
                "ready", "run", "after", "finish", "down"}
  /\ crashes \in 0..MaxCrashes

Init ==
  /\ desk \in [mode : Mode, status : {"active"}]
  /\ row = [i \in Id |-> [status |-> "none", plan |-> Nothing, mode |-> "none",
                          outcome |-> "none"]]
  /\ appr = [i \in Id |-> [status |-> "none", left |-> 0]]
  /\ execs = [i \in Id |-> <<>>]
  /\ anchor = 0
  /\ files = {} /\ touched = {}
  /\ gate = [i \in Id |-> NoGate]
  /\ pend = NoPend /\ withdrawn = {} /\ hold = NoHold
  /\ lost = FALSE /\ pc = Idle /\ poached = {} /\ crashes = 0

Up == pc.at # "down"
Flying == \E i \in Id : \E k \in DOMAIN execs[i] : execs[i][k] = "flight"

\* The statuses of executions after the attempt in flight came out as o.
Landed(o) ==
  [i \in Id |-> [k \in DOMAIN execs[i] |-> IF execs[i][k] = "flight" THEN o ELSE execs[i][k]]]

-----------------------------------------------------------------------------
(* What several handlers share.                                            *)

Await(a) == pc' = [pc EXCEPT !.at = a]

Free == {i \in Id : row[i].status = "none"}
NextId == CHOOSE i \in Free : \A j \in Free : i <= j

HeldAfter(p) == [hold EXCEPT ![HoldKind(p)] = Retry]

\* closeApproval: only a pending row is closed.
Closed(i, to) ==
  IF appr[i].status = "pending" THEN [appr EXCEPT ![i].status = to] ELSE appr

StatusOf(x) ==
  LET confirmed == {k \in DOMAIN x : x[k] = "confirmed"}
  IN  IF confirmed = {} THEN "failed"
      ELSE IF confirmed = DOMAIN x THEN "executed" ELSE "partially_executed"

\* MUTANT of Reconciled: decisions with a step in flight are settled too.
ReconciledInFlight(r, x) ==
  [i \in Id |-> IF r[i].status = "executing" THEN [r[i] EXCEPT !.status = StatusOf(x[i])]
                ELSE r[i]]

\* reconcileOrphanedDecisions: a decision still executing with nothing in
\* flight is settled from the executions it has.
Reconciled(r, x) ==
  [i \in Id |->
     IF r[i].status = "executing" /\ \A k \in DOMAIN x[i] : x[i][k] # "flight"
     THEN [r[i] EXCEPT !.status = StatusOf(x[i])] ELSE r[i]]

\* Why step class c may not go on now.
Refusal(c) ==
  IF lost \/ desk.status # "active" THEN "blocked"
  ELSE IF c # "reducing" /\ EffectiveMode(desk.mode) = "advisory" THEN "advisory" ELSE "none"

\* stop(): the decision ends at step k of its plan.
StopAt(i, k, to, r) ==
  /\ row' = [r EXCEPT ![i].status = IF k > 1 /\ to \in {"blocked", "failed"}
                                    THEN "partially_executed" ELSE to]
  /\ hold' = HeldAfter(IF r[i].plan = Signal THEN Signal ELSE <<r[i].plan[k]>>)
  /\ pc' = Idle

\* executeSteps arrives at step k, with rows r, up to its first await.
EnterStep(i, k, r) ==
  IF k > Len(r[i].plan)
  THEN row' = [r EXCEPT ![i].status = "executed"] /\ pc' = Idle /\ UNCHANGED hold
  ELSE \/ /\ Refusal(r[i].plan[k]) # "none"
          /\ StopAt(i, k, Refusal(r[i].plan[k]), r)
       \/ /\ Refusal(r[i].plan[k]) = "none"
          /\ row' = [r EXCEPT ![i].status = "executing"]
          /\ pc' = [At("ready") EXCEPT !.id = i, !.step = k]
          /\ UNCHANGED hold

\* settle: an answer lets the decision through to its first step, or ends it.
Settle(i, mode, answer) ==
  LET noted == [row EXCEPT ![i].mode = mode, ![i].outcome = answer]
  IN  \/ Executes(answer) /\ EnterStep(i, 1, noted)
      \/ /\ ~Executes(answer)
         /\ row' = noted
         /\ hold' = HeldAfter(row[i].plan)
         /\ pc' = [At("finish") EXCEPT
                     !.id = i, !.to = IF answer = "advisory" THEN "advisory" ELSE "declined"]

\* withdraw, up to its notification; plan is what the tick goes on with.
Withdraw(outcome, plan) ==
  LET i == pend.id
  IN  /\ withdrawn' = withdrawn \cup {i}
      /\ pend' = NoPend
      /\ appr' = Closed(i, IF outcome = "timeout" THEN "expired" ELSE "cancelled")
      /\ anchor' = IF outcome = "timeout" /\ row[i].plan # Signal THEN Veto ELSE anchor
      /\ row' = [row EXCEPT ![i].mode = pend.mode, ![i].outcome = outcome]
      /\ hold' = HeldAfter(row[i].plan)
      /\ pc' = [At("withdraw") EXCEPT !.id = i, !.plan = plan]
      /\ UNCHANGED <<desk, execs, files, touched, gate, lost, poached, crashes>>

-----------------------------------------------------------------------------
(* The approval gate.                                                      *)

WindowOf(mode) == IF mode = "autopilot" THEN CancelWindow ELSE Window

\* A cancel file wins over an approve file, both over the approvals table.
Poll(i) ==
  IF <<i, "cancel">> \in files THEN "cancel"
  ELSE IF <<i, "approve">> \in files \/ appr[i].status = "approved" THEN "approve"
  ELSE IF appr[i].status \in {"denied", "cancelled"} THEN "cancel" ELSE "none"

Consumed(i) ==
  files \ (IF <<i, "cancel">> \in files THEN {<<i, "cancel">>, <<i, "approve">>}
           ELSE {<<i, "approve">>})

\* MUTANT of AnswerOf: silence agrees, also in copilot.
AnswerOfSilence(mode, signal) ==
  IF mode = "copilot"
  THEN IF signal = "cancel" THEN "denied" ELSE "approved"
  ELSE IF signal = "cancel" THEN "cancelled" ELSE "not_required"

\* What decideApproval makes of the gate's signal.
AnswerOf(mode, signal) ==
  IF mode = "copilot"
  THEN CASE signal = "approve" -> "approved" [] signal = "cancel" -> "denied"
         [] OTHER -> "timeout"
  ELSE IF signal = "cancel" THEN "cancelled" ELSE "not_required"

\* onVeto: a late answer to a withdrawn decision, and a signal's, anchor nothing.
Anchored(i, answer) ==
  IF answer \in {"denied", "timeout", "cancelled"} /\ i \notin withdrawn /\ row[i].plan # Signal
  THEN Veto ELSE anchor

Delivered(i, answer) == IF pend.id = i THEN [pend EXCEPT !.ans = answer] ELSE pend

\* MUTANT of GateWake: the window's end is checked before the last poll.
GateWakeClosesFirst(i) ==
  LET waited == gate[i].waited + 1
      over   == waited >= WindowOf(row[i].mode)
      signal == IF over THEN "none" ELSE Poll(i)
      answer == AnswerOf(row[i].mode, signal)
  IN  /\ Up /\ gate[i].at = "asleep" /\ gate[i].due = 0
      /\ \/ /\ signal # "none" \/ over
            /\ gate' = [gate EXCEPT ![i] = NoGate]
            /\ appr' = IF signal = "none" THEN Closed(i, "expired") ELSE appr
            /\ anchor' = Anchored(i, answer)
            /\ pend' = Delivered(i, answer)
         \/ /\ signal = "none" /\ ~over
            /\ gate' = [gate EXCEPT ![i].waited = waited, ![i].due = 1]
            /\ UNCHANGED <<appr, anchor, pend>>
      /\ files' = Consumed(i)
      /\ UNCHANGED <<desk, row, execs, touched, withdrawn, hold, lost, pc, poached, crashes>>

\* watch: a poll after the window's last wait closes the approval.
GateWake(i) ==
  LET waited == gate[i].waited + 1
      answer == AnswerOf(row[i].mode, Poll(i))
  IN  /\ Up /\ gate[i].at = "asleep" /\ gate[i].due = 0
      /\ \/ /\ Poll(i) # "none" \/ waited >= WindowOf(row[i].mode)
            /\ gate' = [gate EXCEPT ![i] = NoGate]
            /\ appr' = IF Poll(i) = "none" THEN Closed(i, "expired") ELSE appr
            /\ anchor' = Anchored(i, answer)
            /\ pend' = Delivered(i, answer)
         \/ /\ Poll(i) = "none" /\ waited < WindowOf(row[i].mode)
            /\ gate' = [gate EXCEPT ![i].waited = waited, ![i].due = 1]
            /\ UNCHANGED <<appr, anchor, pend>>
      /\ files' = Consumed(i)
      /\ UNCHANGED <<desk, row, execs, touched, withdrawn, hold, lost, pc, poached, crashes>>

\* A poll that throws: FAIL_CLOSED_ANSWER, with no veto.
GateFails(i) ==
  /\ Up /\ gate[i].at = "asleep" /\ gate[i].due = 0
  /\ gate' = [gate EXCEPT ![i] = NoGate]
  /\ pend' = Delivered(i, "timeout")
  /\ UNCHANGED <<store, files, touched, withdrawn, hold, lost, pc, poached, crashes>>

\* decideApproval for the tick's decision, and the tick's wait for one turn.
\* The gate polls once before it sleeps.
AskGate(i, mode) ==
  LET answer == IF mode = "advisory" THEN "advisory"
                ELSE IF ~Waits(row[i].plan, mode) THEN "not_required"
                ELSE AnswerOf(mode, Poll(i))
      waits  == Waits(row[i].plan, mode)
  IN  /\ appr' = IF waits /\ appr[i].status = "none"
                 THEN [appr EXCEPT ![i] = [status |-> "pending", left |-> WindowOf(mode)]]
                 ELSE appr
      /\ files' = IF waits THEN Consumed(i) ELSE files
      /\ \/ /\ waits /\ Poll(i) = "none"
            /\ gate' = [gate EXCEPT ![i] = [at |-> "asleep", waited |-> 0, due |-> 1]]
            /\ pend' = [id |-> i, ans |-> "none", mode |-> mode,
                        left |-> (IF Window > CancelWindow THEN Window ELSE CancelWindow)
                                 + 2 * TickLen + 1]
            /\ row' = [row EXCEPT ![i].mode = mode]
            /\ pc' = Idle
            /\ UNCHANGED <<anchor, hold>>
         \/ /\ ~waits \/ Poll(i) # "none"
            /\ anchor' = IF waits THEN Anchored(i, answer) ELSE anchor
            /\ Settle(i, mode, answer)
            /\ UNCHANGED <<gate, pend>>
      /\ UNCHANGED <<desk, execs, touched, withdrawn, lost, poached, crashes>>

-----------------------------------------------------------------------------
(* The lane tick.                                                          *)

BeginTick ==
  /\ pc = Idle /\ ~lost /\ desk.status # "disabled"
  /\ \/ ~Flying /\ Await("sense")
     \/ \E i \in Id : \E k \in DOMAIN execs[i] :
          /\ execs[i][k] = "flight"
          /\ pc' = [At("resolve") EXCEPT !.id = i, !.step = k]
  /\ UNCHANGED <<store, files, touched, memory, lost, poached, crashes>>

\* The resolver, and the decisions it settles; it may throw. What a lane event
\* confirmed since it looked, it may still write its older finding over.
ResolveAttempts ==
  /\ pc.at = "resolve"
  /\ \E o \in {"flight", "confirmed", "failed"} :
       /\ o = "flight" => execs[pc.id][pc.step] = "flight"
       /\ execs' = [execs EXCEPT ![pc.id][pc.step] = o]
       /\ row' = Reconciled(row, execs')
  /\ pc' = At("sense")
  /\ UNCHANGED <<desk, appr, anchor, files, touched, memory, lost, poached, crashes>>

\* The sensor or the strategy throws, or there is nothing to do.
HoldTick ==
  /\ pc.at = "sense" /\ pc' = Idle
  /\ UNCHANGED <<store, files, touched, memory, lost, poached, crashes>>

SignalPlanned ==
  desk.status = "active" /\ EffectiveMode(desk.mode) # "advisory" /\ ~Flying

\* A plan with no decision pending, past its holds.
PlanTick(p) ==
  /\ pc.at = "sense" /\ pend = NoPend /\ Free # {}
  /\ p = Signal => SignalPlanned
  /\ hold[HoldKind(p)] = 0 /\ (p = Adding => anchor = 0)
  /\ pc' = [At("overlay") EXCEPT !.plan = p]
  /\ UNCHANGED <<store, files, touched, memory, lost, poached, crashes>>

\* pendingTick: a reducing plan preempts the pending decision.
PreemptTick ==
  pc.at = "sense" /\ pend # NoPend /\ Withdraw("cancelled", Reducing)

SettleTick ==
  /\ pc.at = "sense" /\ pend # NoPend /\ pend.ans # "none"
  /\ pend' = NoPend
  /\ Settle(pend.id, pend.mode, pend.ans)
  /\ UNCHANGED <<desk, appr, execs, anchor, files, touched, gate, withdrawn, lost, poached,
                 crashes>>

ExpireTick ==
  /\ pc.at = "sense" /\ pend # NoPend /\ pend.ans = "none" /\ pend.left = 0
  /\ Withdraw("timeout", Nothing)

\* After the notification: the row, and on to the reducing plan unless it is held.
EndWithdraw ==
  /\ pc.at = "withdraw"
  /\ row' = [row EXCEPT ![pc.id].status = "declined"]
  /\ pc' = IF pc.plan = Reducing /\ hold["reducing"] = 0 /\ Free # {}
           THEN [At("overlay") EXCEPT !.plan = Reducing] ELSE Idle
  /\ UNCHANGED <<desk, appr, execs, anchor, files, touched, memory, lost, poached, crashes>>

\* The overlay answered; the decision row is written.
Insert ==
  /\ pc.at = "overlay"
  /\ \E q \in Overlaid(pc.plan) :
       row' = [row EXCEPT ![NextId].status = "observed", ![NextId].plan = q]
  /\ pc' = [At("build") EXCEPT !.id = NextId]
  /\ UNCHANGED <<desk, appr, execs, anchor, files, touched, memory, lost, poached, crashes>>

\* The guard or the critic blocks, or DRY_RUN holds fire.
GuardHolds ==
  /\ pc.at = "build" /\ row[pc.id].plan # Nothing
  /\ hold' = HeldAfter(row[pc.id].plan)
  /\ \E to \in {"blocked", "critic_rejected", "dry_run"} :
       pc' = [pc EXCEPT !.at = "finish", !.to = to]
  /\ UNCHANGED <<store, files, touched, gate, pend, withdrawn, lost, poached, crashes>>

Revoked ==
  /\ pc.at = "build" /\ desk.status = "revoked"
  /\ hold' = HeldAfter(row[pc.id].plan)
  /\ row' = [row EXCEPT ![pc.id].status = "blocked"]
  /\ pc' = Idle
  /\ UNCHANGED <<desk, appr, execs, anchor, files, touched, gate, pend, withdrawn, lost,
                 poached, crashes>>

PostureMode == IF desk.status = "safe_mode" THEN "advisory" ELSE EffectiveMode(desk.mode)

\* The posture is read; only a copilot's request is announced first.
Posture ==
  /\ pc.at = "build" /\ desk.status # "revoked"
  /\ \/ /\ PostureMode = "copilot" /\ Waits(row[pc.id].plan, "copilot")
        /\ pc' = [pc EXCEPT !.at = "ask", !.mode = PostureMode]
        /\ UNCHANGED <<store, files, touched, memory, lost, poached, crashes>>
     \/ /\ ~(PostureMode = "copilot" /\ Waits(row[pc.id].plan, "copilot"))
        /\ AskGate(pc.id, PostureMode)

Ask == pc.at = "ask" /\ AskGate(pc.id, pc.mode)

Finish ==
  /\ pc.at = "finish"
  /\ row' = [row EXCEPT ![pc.id].status = pc.to]
  /\ pc' = Idle
  /\ UNCHANGED <<desk, appr, execs, anchor, files, touched, memory, lost, poached, crashes>>

-----------------------------------------------------------------------------
(* The steps.                                                              *)

\* The signer, the preparation, the second guard or the executor's own
\* checks refuse the step before it has a row.
StepRefused(to) ==
  /\ pc.at = "ready"
  /\ StopAt(pc.id, pc.step, to, row)
  /\ UNCHANGED <<desk, appr, execs, anchor, files, touched, gate, pend, withdrawn, lost,
                 poached, crashes>>

\* The executor's write-ahead row: one in flight per signer.
StepStarts ==
  /\ pc.at = "ready" /\ ~Flying
  /\ execs' = [execs EXCEPT ![pc.id] = Append(@, "flight")]
  /\ Await("run")
  /\ UNCHANGED <<desk, row, appr, anchor, files, touched, memory, lost, poached, crashes>>

\* The executor's outcome; "denied" is a signer's policy denial. A receipt timeout
\* reopens what a lane event confirmed meanwhile, a refusal is written over it.
StepEnds(o) ==
  /\ pc.at = "run"
  /\ execs' = [execs EXCEPT ![pc.id][pc.step] = IF o = "denied" THEN "failed" ELSE o]
  /\ pc' = [pc EXCEPT !.at = "after", !.to = o]
  /\ UNCHANGED <<desk, row, appr, anchor, files, touched, memory, lost, poached, crashes>>

AfterStep ==
  /\ pc.at = "after"
  /\ \/ pc.to = "confirmed" /\ EnterStep(pc.id, pc.step + 1, row)
     \/ /\ pc.to = "flight"
        /\ hold' = HeldAfter(<<row[pc.id].plan[pc.step]>>)
        /\ row' = [row EXCEPT ![pc.id].status = "executing"]
        /\ pc' = Idle
     \/ pc.to = "failed" /\ StopAt(pc.id, pc.step, "failed", row)
     \/ pc.to = "denied" /\ StopAt(pc.id, pc.step, "policy_denied", row)
  /\ UNCHANGED <<desk, appr, execs, anchor, files, touched, gate, pend, withdrawn, lost,
                 poached, crashes>>

-----------------------------------------------------------------------------
(* Beside the tick.                                                        *)

\* respondApproval: the web API and Telegram's buttons.
Respond(i, ok) ==
  /\ Up /\ "api" \in Channel /\ appr[i].status = "pending" /\ appr[i].left > 0
  /\ appr' = [appr EXCEPT ![i].status = IF ok THEN "approved" ELSE "denied"]
  /\ UNCHANGED <<desk, row, execs, anchor, files, touched, memory, lost, pc, poached, crashes>>

\* Someone creates approve-<id> or cancel-<id>, also while the agent is down.
Touch(i, k) ==
  /\ "file" \in Channel /\ row[i].status # "none" /\ <<i, k>> \notin touched
  /\ files' = files \cup {<<i, k>>} /\ touched' = touched \cup {<<i, k>>}
  /\ UNCHANGED <<store, memory, lost, pc, poached, crashes>>

\* The reconcile timer: a lane event confirms the execution in flight ...
LaneEvent ==
  /\ Up /\ Flying
  /\ execs' = Landed("confirmed")
  /\ UNCHANGED <<desk, row, appr, anchor, files, touched, memory, lost, pc, poached, crashes>>

\* ... and stranded decisions are settled, whatever the tick is doing.
Stranded ==
  /\ Up /\ Reconciled(row, execs) # row
  /\ row' = Reconciled(row, execs)
  /\ poached' = poached \cup {i \in Id : pc.id = i /\ row'[i] # row[i]}
  /\ UNCHANGED <<desk, appr, execs, anchor, files, touched, memory, lost, pc, crashes>>

SetMode(m) ==
  /\ Up /\ desk.mode # m /\ desk' = [desk EXCEPT !.mode = m]
  /\ UNCHANGED <<row, appr, execs, anchor, files, touched, memory, lost, pc, poached, crashes>>

SetStatus(s) ==
  /\ Up /\ desk.status # s /\ desk' = [desk EXCEPT !.status = s]
  /\ UNCHANGED <<row, appr, execs, anchor, files, touched, memory, lost, pc, poached, crashes>>

\* heartbeat: another process took the lock; no tick starts any more.
LoseLock ==
  /\ Up /\ ~lost /\ crashes < MaxCrashes /\ lost' = TRUE
  /\ UNCHANGED <<store, files, touched, memory, pc, poached, crashes>>

Forget ==
  /\ pc' = At("down") /\ gate' = [i \in Id |-> NoGate] /\ pend' = NoPend
  /\ withdrawn' = {} /\ hold' = NoHold
  /\ crashes' = crashes + 1

Crash ==
  /\ Up /\ crashes < MaxCrashes /\ Forget
  /\ UNCHANGED <<store, files, touched, lost, poached>>

\* stop(): the tick has ended; a pending decision is withdrawn.
Stop ==
  /\ pc = Idle /\ crashes < MaxCrashes /\ Forget
  /\ IF pend = NoPend THEN UNCHANGED <<row, appr>>
     ELSE /\ appr' = Closed(pend.id, "cancelled")
          /\ row' = [row EXCEPT ![pend.id].mode = pend.mode, ![pend.id].outcome = "cancelled",
                                ![pend.id].status = "declined"]
  /\ UNCHANGED <<desk, execs, anchor, files, touched, lost, poached>>

\* closeOrphanedApprovals: an open approval ends its decision; any other
\* decision nobody settled any more has failed.
Orphaned(r) ==
  [i \in Id |->
     IF r[i].status # "observed" THEN r[i]
     ELSE IF appr[i].status = "pending"
          THEN [r[i] EXCEPT !.status = "declined",
                            !.outcome = IF appr[i].left = 0 THEN "timeout" ELSE "cancelled"]
          ELSE [r[i] EXCEPT !.status = "failed"]]

\* MUTANT of Boot: decisions and approvals nobody waits for stay as they are.
BootWithoutOrphans ==
  /\ ~Up
  /\ \E o \in {"flight", "confirmed", "failed"} :
       /\ execs' = Landed(o)
       /\ row' = Reconciled(row, execs')
  /\ pc' = Idle /\ lost' = FALSE
  /\ UNCHANGED <<desk, appr, anchor, files, touched, memory, poached, crashes>>

\* The next process: the resolver, then the decisions, then the approvals.
Boot ==
  /\ ~Up
  /\ \E o \in {"flight", "confirmed", "failed"} :
       /\ execs' = Landed(o)
       /\ row' = Orphaned(Reconciled(row, execs'))
  /\ appr' = [i \in Id |->
                IF appr[i].status # "pending" THEN appr[i]
                ELSE [appr[i] EXCEPT !.status = IF appr[i].left = 0 THEN "expired"
                                                ELSE "cancelled"]]
  /\ pc' = Idle /\ lost' = FALSE
  /\ UNCHANGED <<desk, anchor, files, touched, memory, poached, crashes>>

Less(n) == IF n = 0 THEN 0 ELSE n - 1

\* A poll period of the wall clock passes; timers of a suspended process are late.
Tick ==
  /\ appr' = [i \in Id |-> [appr[i] EXCEPT !.left = Less(@)]]
  /\ gate' = [i \in Id |-> [gate[i] EXCEPT !.due = Less(@)]]
  /\ pend' = [pend EXCEPT !.left = Less(@)]
  /\ hold' = [c \in Class |-> Less(hold[c])]
  /\ anchor' = Less(anchor)
  /\ <<appr, gate, pend, hold, anchor>>' # <<appr, gate, pend, hold, anchor>>
  /\ UNCHANGED <<desk, row, execs, files, touched, withdrawn, lost, pc, poached, crashes>>

-----------------------------------------------------------------------------
TickStep ==
  \/ BeginTick \/ ResolveAttempts \/ HoldTick \/ PreemptTick \/ SettleTick \/ ExpireTick
  \/ EndWithdraw \/ Insert \/ GuardHolds \/ Revoked \/ Posture \/ Ask \/ Finish
  \/ StepStarts \/ AfterStep
  \/ \E p \in {Adding, Reducing, Signal} : PlanTick(p)
  \/ \E to \in {"blocked", "failed"} : StepRefused(to)
  \/ \E o \in {"confirmed", "failed", "denied", "flight"} : StepEnds(o)

Gate == \E i \in Id : GateWake(i) \/ GateFails(i)

Environment ==
  \/ \E i \in Id : \/ \E ok \in BOOLEAN : Respond(i, ok)
                   \/ \E k \in {"approve", "cancel"} : Touch(i, k)
  \/ \E m \in Mode : SetMode(m)
  \/ \E s \in Status : SetStatus(s)
  \/ LaneEvent \/ Stranded \/ LoseLock \/ Crash \/ Stop

Next == TickStep \/ Gate \/ Environment \/ Boot \/ Tick

Spec == Init /\ [][Next]_vars

\* Awaits return, timers fire, the process is restarted (a supervisor) and
\* stops when it lost the lock, and a tick that settles or expires the
\* pending decision is not for ever pre-empted by a failing sensor.
FairSpec ==
  /\ Spec /\ WF_vars(TickStep) /\ WF_vars(Gate) /\ WF_vars(Tick) /\ WF_vars(Boot)
  /\ SF_vars(SettleTick) /\ SF_vars(ExpireTick) /\ WF_vars(lost /\ Stop)

-----------------------------------------------------------------------------
(* Properties                                                              *)

\* Between two ticks every decision still waiting is the one the loop keeps,
\* and every approval a human can still answer has a gate that will read it
\* (daemon.ts pendings, gate.ts watch, closeOrphanedApprovals at boot).
NobodyWaitsInVain ==
  pc = Idle =>
    \A i \in Id :
      /\ row[i].status = "observed" => pend.id = i
      /\ appr[i].status = "pending" =>
           \/ gate[i].at = "asleep"
           \/ pend.id = i /\ pend.ans # "none"
           \/ row[i].status # "observed"

\* An approval the API accepted is never turned into a veto by the gate,
\* however late in the window it came (gate.ts 109-120: the last poll and the
\* close are one turn).
ApprovalNeverVetoes ==
  [][\A i \in Id :
       (appr[i].status = "approved" /\ <<i, "cancel">> \notin touched
          /\ gate[i].at = "asleep" /\ gate'[i].at = "off")
         => anchor' <= anchor]_vars

\* What a row r may say of the executions x of its plan. "advisory" and
\* "policy_denied" say why the plan stopped, whatever it did before; "executed"
\* speaks of the steps begun, which after a crash need not be the whole plan.
Truthful(r, x) ==
  LET confirmed == {k \in DOMAIN x : x[k] = "confirmed"}
  IN  /\ r.status \in {"none", "observed", "declined", "blocked", "critic_rejected", "dry_run"}
           => x = <<>>
      /\ r.status = "failed" => confirmed = {}
      /\ r.status = "executed" => confirmed = DOMAIN x /\ (x = <<>> => r.plan = Nothing)
      /\ r.status = "partially_executed" => confirmed # {} /\ confirmed # DOMAIN r.plan
      /\ r.status = "advisory" =>
           confirmed = DOMAIN x /\ (confirmed = DOMAIN r.plan => r.plan = Nothing)
      /\ r.status = "policy_denied" =>
           x # <<>> /\ x[Len(x)] = "failed" /\ confirmed = 1..(Len(x) - 1)

\* Once nobody works on a decision, its row is truthful about what its executions
\* did, unless the reconcile timer settled it under a running tick (executeSteps,
\* reconcileOrphanedDecisions).
RowMatchesExecutions ==
  \A i \in Id \ poached : pc.id # i => Truthful(row[i], execs[i])

\* The same, of the reconcile timer too (types.ts 2235: "resolve decisions
\* stranded in 'executing' from their executions").
StrandedSettledFromExecutions ==
  \A i \in Id : pc.id # i /\ row[i].status = "failed" =>
    \A k \in DOMAIN execs[i] : execs[i][k] # "confirmed"

\* The daemon, the gate, the store and a restart keep the decision log.
Phase(i) ==
  CASE row[i].status = "none" -> "none"
    [] row[i].status = "executing" \/ (pc.id = i /\ pc.at \in {"ready", "run", "after"})
         -> "running"
    [] row[i].status = "observed" -> "open"
    [] OTHER -> "over"

Log == INSTANCE DecisionLog WITH
  Decision <- Id,
  phase <- [i \in Id |-> Phase(i)],
  asks <- [i \in Id |-> row[i].mode = "copilot" /\ Waits(row[i].plan, "copilot")],
  agreed <- [i \in Id |-> appr[i].status = "approved" \/ <<i, "approve">> \in touched],
  ran <- [i \in Id |-> Len(execs[i])]

ImplementsLog == Log!LogSpec

\* The records of the executions of a decision's two steps.
StepOf == Id \X (1..2)
StepState(i, k) == IF k \in DOMAIN execs[i] THEN execs[i][k] ELSE "none"

Steps == INSTANCE StepRun WITH Step <- StepOf, run <- [s \in StepOf |-> StepState(s[1], s[2])]

\* Tick, reconcile timer and restart keep the contract of a step the executor keeps.
KeepsStepRun == Steps!RunSpec

\* Every decision waiting for an answer is settled, unless its desk is
\* switched off: then no tick comes to settle it.
EveryDecisionSettles ==
  \A i \in Id : row[i].status = "observed" ~>
    (row[i].status # "observed" \/ desk.status = "disabled")
=============================================================================
