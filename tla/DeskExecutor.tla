---------------------------- MODULE DeskExecutor ----------------------------
(***************************************************************************)
(* The write-ahead transaction executor of the desk agent, for ONE signer  *)
(* and ONE lane: rh-executor.ts (sign, persist, broadcast, wait), the      *)
(* attempt resolver and the startup reconciliation (reconcile/startup.ts), *)
(* the LaneAction reconciliation that runs beside them, the nonce manager, *)
(* the desk status that other components change under the executor's feet, *)
(* and the chain as the agent sees it through JSON-RPC.                    *)
(*                                                                         *)
(* An action is what happens between two awaits: JavaScript runs it        *)
(* without interruption, and the chain, the clock, the webhook and the     *)
(* reconcile timer move in between.                                        *)
(***************************************************************************)
EXTENDS Integers

CONSTANTS
  Decision,       \* decision steps; each has at most one executions row
  Adding,         \* those whose risk class is held back from a halted desk
  MaxAttempts,    \* 1 + MAX_FEE_RESIGNS: signatures per execution
  MaxBroadcasts,  \* broadcasts of one attempt before the resolver stops
  DeadlineAhead,  \* DESK_DEADLINE_SEC
  Margin,         \* seconds before the deadline the executor stops sending
  ConfirmLag,     \* seconds before a mined log is deep enough to be read
  Resend,         \* the HTTP transport may send one request twice
  MaxTime,        \* bound on the clock
  MaxForeign,     \* bound on nonces used by somebody else
  MaxCrashes      \* bound on process crashes

ASSUME ExecutorAssumption ==
  /\ Adding \subseteq Decision
  /\ MaxAttempts \in Nat \ {0}
  /\ MaxBroadcasts \in Nat
  /\ DeadlineAhead \in Nat /\ Margin \in Nat /\ ConfirmLag \in Nat
  /\ Resend \in BOOLEAN
  /\ MaxTime \in Nat /\ MaxForeign \in Nat /\ MaxCrashes \in Nat

VARIABLES
  exec,       \* executions.status, or "none" before the row is written
  signed,     \* executions.signed_at_ms IS NOT NULL
  code,       \* executions.error_code
  deadline,   \* the deadline in the step's on-chain Meta
  att,        \* tx_attempts.status, or "none"
  count,      \* tx_attempts.broadcast_count
  nonceOf,    \* tx_attempts.nonce
  lastNonce,  \* nonce_state.last_nonce, -1 when there is no row
  desk,       \* desks.status ("active" stands for active and registered)
  net,        \* where an attempt's bytes are, seen from the chain
  minedAt,    \* timestamp of the block that holds them
  chainNonce, \* getTransactionCount(signer, "latest")
  foreign,    \* how many of those nonces somebody else used
  now,        \* the wall clock and the chain's clock, in seconds
  pc, cur,    \* what the process awaits, and for which attempt
  txNonce,    \* the nonce in the transaction being signed
  asOf,       \* the nowMs the resolver was called with
  crashes

recordVars == <<exec, signed, code, deadline, att, count, nonceOf, lastNonce>>
chainVars  == <<net, minedAt, chainNonce, foreign, now>>
procVars   == <<pc, cur, txNonce, asOf, crashes>>
vars       == <<recordVars, desk, chainVars, procVars>>

Attempt == Decision \X (1..MaxAttempts)
Nobody  == <<>>

InFlight == {"prepared", "simulated", "signed", "broadcast", "unknown"}
Signable == {"prepared", "simulated", "signed", "broadcast"}
Settled  == {"confirmed", "reverted", "failed", "dropped"}
Open     == {"signed", "broadcast", "unknown"}
Mined    == {"ok", "reverted"}
Visible  == {"pool"} \cup Mined

Status == {"active", "safe_mode", "revoked"}
Code   == {"none", "FAILED", "DESK_HALTED", "DEADLINE_PASSED",
           "NONCE_CONFLICT", "REFUSED", "UNKNOWN", "REVERTED"}
Pc     == {"idle", "simulate", "nonce", "sign", "gate", "sending", "lookup", "receipt",
           "readReceipt", "readPool", "readCount", "resending", "down"}

RecordsTyped ==
  /\ exec \in [Decision -> {"none"} \cup InFlight \cup Settled]
  /\ signed \in [Decision -> BOOLEAN]
  /\ code \in [Decision -> Code]
  /\ deadline \in [Decision -> Nat]
  /\ att \in [Attempt -> {"none", "replaced", "dropped", "confirmed", "reverted"} \cup Open]
  /\ count \in [Attempt -> Nat]
  /\ nonceOf \in [Attempt -> Nat]
  /\ lastNonce \in Int

ChainTyped ==
  /\ net \in [Attempt -> {"none", "transit"} \cup Visible]
  /\ minedAt \in [Attempt -> Nat]
  /\ chainNonce \in Nat /\ foreign \in Nat /\ now \in Nat

ProcessTyped ==
  /\ pc \in Pc /\ cur \in Attempt \cup {Nobody}
  /\ pc \notin {"idle", "down"} => cur \in Attempt
  /\ txNonce \in Nat /\ asOf \in Nat /\ crashes \in Nat

TypeOK == RecordsTyped /\ ChainTyped /\ ProcessTyped /\ desk \in Status

Init ==
  /\ exec = [d \in Decision |-> "none"]
  /\ signed = [d \in Decision |-> FALSE]
  /\ code = [d \in Decision |-> "none"]
  /\ deadline = [d \in Decision |-> 0]
  /\ att = [a \in Attempt |-> "none"]
  /\ count = [a \in Attempt |-> 0]
  /\ nonceOf = [a \in Attempt |-> 0]
  /\ lastNonce = -1
  /\ desk = "active"
  /\ net = [a \in Attempt |-> "none"]
  /\ minedAt = [a \in Attempt |-> 0]
  /\ chainNonce = 0 /\ foreign = 0 /\ now = 0
  /\ pc = "idle" /\ cur = Nobody /\ txNonce = 0 /\ asOf = 0 /\ crashes = 0

-----------------------------------------------------------------------------
(* Helpers: the record keeping several handlers share.                     *)

\* deskHaltedReason: only steps outside the reducing class are held back.
Halted(d) == d \in Adding /\ desk # "active"

\* enterSafeMode: a revoked desk stays revoked.
SafeModed == IF desk = "revoked" THEN desk ELSE "safe_mode"

Idle == pc' = "idle" /\ cur' = Nobody /\ txNonce' = 0 /\ asOf' = 0 /\ UNCHANGED crashes
Await(p) == pc' = p /\ UNCHANGED <<cur, txNonce, asOf, crashes>>

\* finalize: the attempt and its execution, in one transaction.
Finalize(a, to, c) ==
  /\ att' = [att EXCEPT ![a] = IF to = "unknown" THEN "unknown" ELSE "dropped"]
  /\ exec' = [exec EXCEPT ![a[1]] = to]
  /\ code' = [code EXCEPT ![a[1]] = c]

\* recordReceipt: same-nonce siblings that are still open become replaced.
RecordReceipt(a) ==
  LET outcome == IF net[a] = "ok" THEN "confirmed" ELSE "reverted" IN
  /\ att' = [b \in Attempt |->
       IF b = a THEN outcome
       ELSE IF b[1] = a[1] /\ nonceOf[b] = nonceOf[a] /\ att[b] \in Open THEN "replaced"
       ELSE att[b]]
  /\ exec' = [exec EXCEPT ![a[1]] = outcome]
  /\ code' = [code EXCEPT ![a[1]] = IF outcome = "reverted" THEN "REVERTED" ELSE "none"]

\* drop: the execution goes too, unless a sibling attempt may still land.
Drop(a, c) ==
  LET siblingsOpen == \E b \in Attempt : b # a /\ b[1] = a[1] /\ att[b] \in Open IN
  /\ att' = [att EXCEPT ![a] = "dropped"]
  /\ IF siblingsOpen
     THEN UNCHANGED <<exec, code>>
     ELSE /\ exec' = [exec EXCEPT ![a[1]] = "dropped"]
          /\ code' = [code EXCEPT ![a[1]] = c]

MarkBroadcast(a) ==
  /\ att' = [att EXCEPT ![a] = IF @ \in {"signed", "unknown"} THEN "broadcast" ELSE @]
  /\ count' = [count EXCEPT ![a] = @ + 1]
  /\ exec' = [exec EXCEPT ![a[1]] = IF @ \in {"signed", "unknown"} THEN "broadcast" ELSE @]

\* execute's catch: settle from the attempts, never assume nothing landed.
Caught(d) ==
  LET open == \E a \in Attempt : a[1] = d /\ att[a] \in Open
      everSent == \E a \in Attempt : a[1] = d /\ count[a] > 0
      to == IF ~signed[d] THEN "failed" ELSE IF open \/ everSent THEN "unknown" ELSE "dropped"
  IN /\ exec' = [exec EXCEPT ![d] = to]
     /\ code' = [code EXCEPT ![d] = "FAILED"]
     /\ UNCHANGED <<signed, deadline, att, count, nonceOf>>

\* getTransactionCount(signer, "pending"): the first nonce the node has not seen.
PendingCount ==
  IF \E a \in Attempt : net[a] = "pool" /\ nonceOf[a] = chainNonce
  THEN chainNonce + 1 ELSE chainNonce

-----------------------------------------------------------------------------
(* The executor.                                                           *)

\* MUTANT of Prepare: an unknown outcome is not counted as in flight.
PrepareOverUnknown(d) ==
  /\ pc = "idle"
  /\ exec[d] = "none"
  /\ \A e \in Decision : exec[e] \notin InFlight \ {"unknown"}
  /\ now + DeadlineAhead < MaxTime
  /\ exec' = [exec EXCEPT ![d] = "prepared"]
  /\ deadline' = [deadline EXCEPT ![d] = now + DeadlineAhead]
  /\ pc' = "simulate" /\ cur' = <<d, 1>>
  /\ UNCHANGED <<signed, code, att, count, nonceOf, lastNonce, desk, chainVars, txNonce, asOf, crashes>>

\* execute: the write-ahead row, atomically with idempotency and single in flight.
Prepare(d) ==
  /\ pc = "idle"
  /\ exec[d] = "none"
  /\ \A e \in Decision : exec[e] \notin InFlight
  /\ now + DeadlineAhead < MaxTime
  /\ exec' = [exec EXCEPT ![d] = "prepared"]
  /\ deadline' = [deadline EXCEPT ![d] = now + DeadlineAhead]
  /\ pc' = "simulate" /\ cur' = <<d, 1>>
  /\ UNCHANGED <<signed, code, att, count, nonceOf, lastNonce, desk, chainVars, txNonce, asOf, crashes>>

\* run 2-4: the fresh simulation, the gas cap, then the desk status.
Simulate ==
  /\ pc = "simulate"
  /\ LET d == cur[1] IN
     \/ /\ ~Halted(d)
        /\ exec' = [exec EXCEPT ![d] = "simulated"]
        /\ Await("nonce")
        /\ UNCHANGED <<signed, code, deadline, att, count, nonceOf>>
     \/ Caught(d) /\ Idle
  /\ UNCHANGED <<lastNonce, desk, chainVars>>

\* nonces.next: refuse while an attempt is open, reset a stale counter, else pending.
ReadNonce ==
  /\ pc = "nonce"
  /\ LET stale == lastNonce + 1 > PendingCount
         open == \E a \in Attempt : att[a] \in Open
     IN
     \/ /\ ~(stale /\ open)
        /\ lastNonce' = IF stale THEN PendingCount - 1 ELSE lastNonce
        /\ txNonce' = PendingCount
        /\ pc' = "sign"
        /\ UNCHANGED <<exec, signed, code, deadline, att, count, nonceOf, cur, asOf, crashes>>
     \/ Caught(cur[1]) /\ Idle /\ UNCHANGED lastNonce
  /\ UNCHANGED <<desk, chainVars>>

\* MUTANT of Sign: a re-signature asks for a fresh nonce.
SignFreshNonce ==
  /\ pc = "sign"
  /\ exec[cur[1]] \in Signable
  /\ att' = [att EXCEPT ![cur] = "signed"]
  /\ nonceOf' = [nonceOf EXCEPT ![cur] = PendingCount]
  /\ exec' = [exec EXCEPT ![cur[1]] = "signed"]
  /\ signed' = [signed EXCEPT ![cur[1]] = TRUE]
  /\ lastNonce' = IF PendingCount > lastNonce THEN PendingCount ELSE lastNonce
  /\ Await("gate")
  /\ UNCHANGED <<code, deadline, count, desk, chainVars>>

\* signVerifyPersist: the verified bytes and the nonce in one transaction.
Sign ==
  /\ pc = "sign"
  /\ exec[cur[1]] \in Signable
  /\ att' = [att EXCEPT ![cur] = "signed"]
  /\ nonceOf' = [nonceOf EXCEPT ![cur] = txNonce]
  /\ exec' = [exec EXCEPT ![cur[1]] = "signed"]
  /\ signed' = [signed EXCEPT ![cur[1]] = TRUE]
  /\ lastNonce' = IF txNonce > lastNonce THEN txNonce ELSE lastNonce
  /\ Await("gate")
  /\ UNCHANGED <<code, deadline, count, desk, chainVars>>

\* The signer is unavailable twice, denies, is revoked or returns other bytes.
SignFails ==
  /\ pc = "sign"
  /\ Caught(cur[1])
  /\ desk' \in {desk, SafeModed, "revoked"}
  /\ Idle
  /\ UNCHANGED <<lastNonce, chainVars>>

\* The last look before the bytes leave: the desk, the deadline, then the send.
Broadcast ==
  /\ pc = "gate"
  /\ LET d == cur[1] IN
     \/ /\ Halted(d)
        /\ Finalize(cur, "dropped", "DESK_HALTED") /\ Idle
        /\ UNCHANGED net
     \/ /\ ~Halted(d) /\ now + Margin >= deadline[d]
        /\ Finalize(cur, "dropped", "DEADLINE_PASSED") /\ Idle
        /\ UNCHANGED net
     \/ /\ ~Halted(d) /\ now + Margin < deadline[d]
        /\ net' = [net EXCEPT ![cur] = "transit"]
        /\ Await("sending")
        /\ UNCHANGED <<exec, code, att>>
  /\ UNCHANGED <<signed, deadline, count, nonceOf, lastNonce, desk, minedAt, chainNonce, foreign, now>>

\* The node took the bytes, or already knows them.
SendAccepted ==
  /\ pc = "sending"
  /\ net[cur] = "transit" => nonceOf[cur] >= chainNonce
  /\ net' = [net EXCEPT ![cur] = IF @ = "transit" THEN "pool" ELSE @]
  /\ MarkBroadcast(cur)
  /\ Await("receipt")
  /\ UNCHANGED <<signed, code, deadline, nonceOf, lastNonce, desk, minedAt, chainNonce, foreign, now>>

\* A refusal concerns the last copy sent; the copy before it may still be out.
RefusedBytes ==
  /\ net[cur] = "transit"
  /\ \/ net' = [net EXCEPT ![cur] = "none"]
     \/ Resend /\ UNCHANGED net

\* FEE_CAP_TOO_LOW: retire these bytes and re-sign at the same nonce.
FeeCapTooLow ==
  /\ pc = "sending" /\ cur[2] < MaxAttempts
  /\ RefusedBytes
  /\ \/ /\ Halted(cur[1])
        /\ Finalize(cur, "dropped", "DESK_HALTED") /\ Idle
     \/ /\ ~Halted(cur[1])
        /\ att' = [att EXCEPT ![cur] = "replaced"]
        /\ cur' = <<cur[1], cur[2] + 1>> /\ pc' = "sign"
        /\ UNCHANGED <<exec, code, txNonce, asOf, crashes>>
  /\ UNCHANGED <<signed, deadline, count, nonceOf, lastNonce, desk, minedAt, chainNonce, foreign, now>>

NonceTooLow ==
  /\ pc = "sending"
  /\ chainNonce > nonceOf[cur]
  /\ net[cur] \in Mined => Resend
  /\ Await("lookup")
  /\ UNCHANGED <<recordVars, desk, chainVars>>

\* The answer is lost: the node may hold the bytes or not.
AnswerLost ==
  \/ UNCHANGED net
  \/ /\ net[cur] = "transit" /\ nonceOf[cur] >= chainNonce
     /\ net' = [net EXCEPT ![cur] = "pool"]

\* RPC_UNAVAILABLE or UNKNOWN: for the resolver, never re-signed.
SendUnknown ==
  /\ pc = "sending"
  /\ AnswerLost
  /\ Finalize(cur, "unknown", "UNKNOWN") /\ Idle
  /\ UNCHANGED <<signed, deadline, count, nonceOf, lastNonce, desk, minedAt, chainNonce, foreign, now>>

\* Any other refusal: dropped, and the desk stops when the code says so.
SendRefused ==
  /\ pc = "sending"
  /\ RefusedBytes
  /\ Finalize(cur, "dropped", "REFUSED") /\ Idle
  /\ desk' \in {desk, SafeModed}
  /\ UNCHANGED <<signed, deadline, count, nonceOf, lastNonce, minedAt, chainNonce, foreign, now>>

\* After NONCE_TOO_LOW: is the transaction that used the nonce this one?
Lookup ==
  /\ pc = "lookup"
  /\ \/ /\ net[cur] \in Visible
        /\ MarkBroadcast(cur) /\ Await("receipt")
        /\ UNCHANGED <<code, desk>>
     \/ /\ net[cur] \notin Visible
        /\ Finalize(cur, "dropped", "NONCE_CONFLICT") /\ Idle
        /\ desk' = SafeModed
        /\ UNCHANGED count
  /\ UNCHANGED <<signed, deadline, nonceOf, lastNonce, chainVars>>

LookupFails ==
  /\ pc = "lookup"
  /\ Caught(cur[1]) /\ Idle
  /\ UNCHANGED <<lastNonce, desk, chainVars>>

\* waitForReceipt: a receipt, or a timeout that hands the attempt to the resolver.
Receipt ==
  /\ pc = "receipt"
  /\ net[cur] \in Mined
  /\ RecordReceipt(cur) /\ Idle
  /\ UNCHANGED <<signed, deadline, count, nonceOf, lastNonce, desk, chainVars>>

ReceiptTimeout ==
  /\ pc = "receipt"
  /\ Finalize(cur, "unknown", "UNKNOWN")
  /\ pc' = "readReceipt" /\ asOf' = now
  /\ UNCHANGED <<signed, deadline, count, nonceOf, lastNonce, desk, chainVars, cur, txNonce, crashes>>

-----------------------------------------------------------------------------
(* The attempt resolver: each read of the chain is an await of its own.    *)

Resolve(a) ==
  /\ pc = "idle"
  /\ att[a] \in Open
  /\ pc' = "readReceipt" /\ cur' = a /\ asOf' = now
  /\ UNCHANGED <<recordVars, desk, chainVars, txNonce, crashes>>

ReadReceipt ==
  /\ pc = "readReceipt"
  /\ \/ net[cur] \in Mined /\ RecordReceipt(cur) /\ Idle
     \/ /\ net[cur] \notin Mined
        /\ Await("readPool")
        /\ UNCHANGED <<exec, code, att>>
  /\ UNCHANGED <<signed, deadline, count, nonceOf, lastNonce, desk, chainVars>>

ReadPool ==
  /\ pc = "readPool"
  /\ IF net[cur] \in Visible THEN Idle ELSE Await("readCount")
  /\ UNCHANGED <<recordVars, desk, chainVars>>

\* latest > nonce: one of our own same-nonce attempts, or a conflict.
NonceUsed ==
  /\ pc = "readCount" /\ chainNonce > nonceOf[cur]
  /\ LET ours == {b \in Attempt : /\ b # cur /\ b[1] = cur[1] /\ att[b] # "none"
                                  /\ nonceOf[b] = nonceOf[cur] /\ net[b] \in Mined}
     IN \/ /\ ours # {}
           /\ \E b \in ours : RecordReceipt(b)
           /\ UNCHANGED desk
        \/ /\ ours = {}
           /\ Drop(cur, "NONCE_CONFLICT")
           /\ desk' = SafeModed
  /\ Idle
  /\ UNCHANGED <<signed, deadline, count, nonceOf, lastNonce, chainVars>>

\* MUTANT of DeadlinePassed: the executor's margin is applied here too.
DeadlineWithMargin ==
  /\ pc = "readCount" /\ chainNonce <= nonceOf[cur]
  /\ asOf + 1 >= deadline[cur[1]]
  /\ Drop(cur, "DEADLINE_PASSED") /\ Idle
  /\ UNCHANGED <<signed, deadline, count, nonceOf, lastNonce, desk, chainVars>>

\* MUTANT of DeadlinePassed: the halted desk is looked at before the deadline.
DeadlineAfterHalt ==
  /\ pc = "readCount" /\ chainNonce <= nonceOf[cur]
  /\ asOf >= deadline[cur[1]]
  /\ IF Halted(cur[1]) THEN UNCHANGED <<att, exec, code>> ELSE Drop(cur, "DEADLINE_PASSED")
  /\ Idle
  /\ UNCHANGED <<signed, deadline, count, nonceOf, lastNonce, desk, chainVars>>

DeadlinePassed ==
  /\ pc = "readCount" /\ chainNonce <= nonceOf[cur]
  /\ asOf >= deadline[cur[1]]
  /\ Drop(cur, "DEADLINE_PASSED") /\ Idle
  /\ UNCHANGED <<signed, deadline, count, nonceOf, lastNonce, desk, chainVars>>

\* MUTANT of Rebroadcast: stored bytes are sent whatever became of the desk.
RebroadcastForHalted ==
  /\ pc = "readCount" /\ chainNonce <= nonceOf[cur]
  /\ asOf < deadline[cur[1]]
  /\ IF chainNonce < nonceOf[cur] \/ count[cur] >= MaxBroadcasts
     THEN Idle /\ UNCHANGED net
     ELSE Await("resending") /\ net' = [net EXCEPT ![cur] = IF @ = "none" THEN "transit" ELSE @]
  /\ UNCHANGED <<recordVars, desk, minedAt, chainNonce, foreign, now>>

\* Before the deadline: the same bytes again, unless something holds them.
Rebroadcast ==
  /\ pc = "readCount" /\ chainNonce <= nonceOf[cur]
  /\ asOf < deadline[cur[1]]
  /\ IF chainNonce < nonceOf[cur] \/ Halted(cur[1]) \/ count[cur] >= MaxBroadcasts
     THEN Idle /\ UNCHANGED net
     ELSE Await("resending") /\ net' = [net EXCEPT ![cur] = IF @ = "none" THEN "transit" ELSE @]
  /\ UNCHANGED <<recordVars, desk, minedAt, chainNonce, foreign, now>>

ResendAccepted ==
  /\ pc = "resending"
  /\ net[cur] = "transit" => nonceOf[cur] >= chainNonce
  /\ net' = [net EXCEPT ![cur] = IF @ = "transit" THEN "pool" ELSE @]
  /\ MarkBroadcast(cur) /\ Idle
  /\ UNCHANGED <<signed, code, deadline, nonceOf, lastNonce, desk, minedAt, chainNonce, foreign, now>>

ResendFails ==
  /\ pc = "resending"
  /\ AnswerLost
  /\ Idle
  /\ UNCHANGED <<recordVars, desk, minedAt, chainNonce, foreign, now>>

\* A read that throws leaves the attempt unknown for the next pass. The status it
\* looks at is the one read before the awaits: a confirmation since is overwritten.
ResolveFails ==
  /\ pc \in {"readReceipt", "readPool", "readCount"}
  /\ \E s \in {att[cur], "unknown"} :
       /\ att[cur] \in {"signed", "broadcast"} => s = "unknown"
       /\ att' = [att EXCEPT ![cur] = s]
  /\ Idle
  /\ UNCHANGED <<exec, signed, code, deadline, count, nonceOf, lastNonce, desk, chainVars>>

-----------------------------------------------------------------------------
(* What runs beside the tick, and what happens to the process.             *)

\* processLog: a LaneAction deep enough proves that its execution landed.
LaneEvent(a) ==
  /\ pc # "down"
  /\ net[a] = "ok" /\ now >= minedAt[a] + ConfirmLag
  /\ exec[a[1]] \in {"unknown", "broadcast", "signed"}
  /\ att' = [att EXCEPT ![a] = "confirmed"]
  /\ exec' = [exec EXCEPT ![a[1]] = "confirmed"]
  /\ UNCHANGED <<signed, code, deadline, count, nonceOf, lastNonce, desk, chainVars, procVars>>

\* A foreign LaneAction, the delegation webhook, the owner's signed mode change.
DeskChange ==
  /\ pc # "down"
  /\ \/ desk = "active" /\ desk' \in {"safe_mode", "revoked"}
     \/ desk = "safe_mode" /\ desk' \in {"active", "revoked"}
     \/ desk = "revoked" /\ desk' = "active"
  /\ UNCHANGED <<recordVars, chainVars, procVars>>

Crash ==
  /\ pc # "down" /\ crashes < MaxCrashes
  /\ pc' = "down" /\ cur' = Nobody /\ txNonce' = 0 /\ asOf' = 0
  /\ crashes' = crashes + 1
  /\ UNCHANGED <<recordVars, desk, chainVars>>

\* MUTANT of Restart: a signed execution is failed like an unsigned one.
RestartFailsSigned ==
  /\ pc = "down"
  /\ exec' = [d \in Decision |->
       IF exec[d] \in {"prepared", "simulated", "signed"} THEN "failed" ELSE exec[d]]
  /\ Idle
  /\ UNCHANGED <<signed, code, deadline, att, count, nonceOf, lastNonce, desk, chainVars>>

\* Startup 1: what never got a signature fails. The resolver follows, from idle.
Restart ==
  /\ pc = "down"
  /\ exec' = [d \in Decision |->
       IF exec[d] \in {"prepared", "simulated"} /\ ~signed[d] THEN "failed" ELSE exec[d]]
  /\ Idle
  /\ UNCHANGED <<signed, code, deadline, att, count, nonceOf, lastNonce, desk, chainVars>>

-----------------------------------------------------------------------------
(* The chain, as src/ uses it.                                             *)

\* A block takes the bytes. The lane accepts them up to and including the deadline
\* second, once per decision id, and may refuse them for a reason of its own.
Mine(a) ==
  /\ net[a] \in {"transit", "pool"}
  /\ nonceOf[a] = chainNonce
  /\ \/ /\ now <= deadline[a[1]]
        /\ \A b \in Attempt : b[1] = a[1] => net[b] # "ok"
        /\ net' = [net EXCEPT ![a] = "ok"]
     \/ net' = [net EXCEPT ![a] = "reverted"]
  /\ minedAt' = [minedAt EXCEPT ![a] = now]
  /\ chainNonce' = chainNonce + 1
  /\ UNCHANGED <<recordVars, desk, foreign, now, procVars>>

\* The node forgets the bytes; another one may still hold them.
Evict(a) ==
  /\ net[a] = "pool"
  /\ net' = [net EXCEPT ![a] = "transit"]
  /\ UNCHANGED <<recordVars, desk, minedAt, chainNonce, foreign, now, procVars>>

\* Somebody else sends a transaction from the operator wallet.
ForeignUse ==
  /\ foreign < MaxForeign
  /\ foreign' = foreign + 1 /\ chainNonce' = chainNonce + 1
  /\ UNCHANGED <<recordVars, desk, net, minedAt, now, procVars>>

Tick ==
  /\ now < MaxTime
  /\ now' = now + 1
  /\ UNCHANGED <<recordVars, desk, net, minedAt, chainNonce, foreign, procVars>>

-----------------------------------------------------------------------------
Executor ==
  \/ \E d \in Decision : Prepare(d)
  \/ Simulate \/ ReadNonce \/ Sign \/ SignFails \/ Broadcast
  \/ SendAccepted \/ FeeCapTooLow \/ NonceTooLow \/ SendUnknown \/ SendRefused
  \/ Lookup \/ LookupFails \/ Receipt \/ ReceiptTimeout

Resolver ==
  \/ \E a \in Attempt : Resolve(a)
  \/ ReadReceipt \/ ReadPool \/ NonceUsed \/ DeadlinePassed \/ Rebroadcast
  \/ ResendAccepted \/ ResendFails \/ ResolveFails

Beside == (\E a \in Attempt : LaneEvent(a)) \/ DeskChange \/ Crash \/ Restart

Chain == (\E a \in Attempt : Mine(a) \/ Evict(a)) \/ ForeignUse \/ Tick

Next == Executor \/ Resolver \/ Beside \/ Chain

Spec == Init /\ [][Next]_vars

-----------------------------------------------------------------------------
(* Safety.                                                                 *)

\* One transaction in flight per signer: the write-ahead row is refused while
\* another execution is unsettled, and no late handler revives a settled one
\* while a newer one is being signed (rh-executor.ts execute).
SingleInFlight ==
  \A d, e \in Decision : exec[d] \in InFlight /\ exec[e] \in InFlight => d = e

\* A decision step takes effect at most once, however often it is re-signed and
\* rebroadcast: at most one of its attempts is ever in a block.
AtMostOneLanding ==
  \A a, b \in Attempt : a[1] = b[1] /\ net[a] \in Mined /\ net[b] \in Mined => a = b

\* New bytes are signed only after the earlier ones are retired: an execution
\* never has two attempts the resolver would send.
OneLiveAttempt ==
  \A a, b \in Attempt : a[1] = b[1] /\ att[a] \in Open /\ att[b] \in Open => a = b

\* Bytes on the network are bytes in the database, and a settled record tells
\* what the chain did.
RecordSound ==
  /\ \A a \in Attempt : net[a] # "none" => att[a] # "none" /\ signed[a[1]]
  /\ \A d \in Decision :
       /\ exec[d] = "confirmed" => \E a \in Attempt : a[1] = d /\ net[a] = "ok"
       /\ exec[d] = "reverted" => \E a \in Attempt : a[1] = d /\ net[a] = "reverted"
       /\ exec[d] \in {"none", "prepared", "simulated", "failed"} =>
            \A a \in Attempt : a[1] = d => net[a] = "none"

\* A step dropped because its deadline passed may land after all in two ways only.
\* The resolver looked in the deadline second, in which the lane still takes the
\* bytes. Or the executor stopped before it sent a re-signature, and a transport
\* that sends twice had a copy out of the bytes refused for their fee before.
LateLandingExplained ==
  \A a \in Attempt :
    exec[a[1]] = "dropped" /\ code[a[1]] = "DEADLINE_PASSED" /\ net[a] = "ok" =>
      \/ minedAt[a] = deadline[a[1]]
      \/ /\ Resend /\ att[a] \in {"replaced", "confirmed"}
         /\ \E b \in Attempt : b[1] = a[1] /\ att[b] = "dropped" /\ net[b] = "none"

\* No risk-adding bytes leave for a desk that is not active, whether the executor
\* sends them first or the resolver sends them again.
HaltedSendsNothing ==
  [][\A a \in Attempt :
       a[1] \in Adding /\ pc' \in {"sending", "resending"} /\ pc # pc' /\ cur' = a
         => desk = "active"]_vars

\* What a record tells the contract of a step.
Recorded(e) ==
  IF e = "none" THEN "none"
  ELSE IF e \in InFlight THEN "flight" ELSE IF e = "confirmed" THEN "confirmed" ELSE "failed"

Steps == INSTANCE StepRun WITH Step <- Decision, run <- [d \in Decision |-> Recorded(exec[d])]

\* Executor, resolver, lane events and restarts keep the contract of a step: one in
\* flight, started once, failed for good (rh-executor.ts execute, startup.ts).
ImplementsStepRun == Steps!RunSpec

(* What the comments claim and the code does not keep.                     *)

\* startup.ts: a drop after the deadline is final, it can never take effect.
DroppedNeverLands ==
  \A a \in Attempt :
    exec[a[1]] = "dropped" /\ code[a[1]] = "DEADLINE_PASSED" => net[a] # "ok"

\* startup.ts, rh-executor.ts: a NONCE_CONFLICT means a transaction that is not
\* ours used the nonce.
ConflictMeansForeign ==
  \A d \in Decision : code[d] = "NONCE_CONFLICT" => foreign > 0

-----------------------------------------------------------------------------
(* Liveness: the process keeps running, outages end, the clock advances,   *)
(* and a node does not hold a transaction for ever.                        *)

Step ==
  \/ Simulate \/ ReadNonce \/ Sign \/ SignFails \/ Broadcast
  \/ SendAccepted \/ FeeCapTooLow \/ NonceTooLow \/ SendUnknown \/ SendRefused
  \/ Lookup \/ LookupFails \/ Receipt \/ ReceiptTimeout
  \/ ReadReceipt \/ ReadPool \/ NonceUsed \/ DeadlinePassed \/ Rebroadcast
  \/ ResendAccepted \/ ResendFails

Fairness ==
  /\ WF_vars(Step) /\ WF_vars(Restart) /\ WF_vars(Tick)
  /\ \A a \in Attempt : SF_vars(Resolve(a))
  /\ SF_vars(ReadReceipt) /\ SF_vars(ReadPool)
  /\ SF_vars(NonceUsed \/ DeadlinePassed \/ Rebroadcast)
  /\ \A a \in Attempt : WF_vars(net[a] = "pool" /\ (Mine(a) \/ Evict(a)))

FairSpec == Spec /\ Fairness

\* Every execution that was written ahead is eventually settled.
EverySettles == \A d \in Decision : exec[d] \in InFlight ~> exec[d] \in Settled

\* Signed once, every signature retired, and nobody at work on it: neither the resolver
\* nor a restart looks at it again.
Stranded(d) ==
  /\ exec[d] = "signed" /\ pc \in {"idle", "down"}
  /\ \A a \in Attempt : a[1] = d => att[a] \in {"none", "replaced"}

\* Crashes, fee re-signs, foreign nonces and lost answers included, every execution
\* settles, unless a crash met it between a retired signature and its replacement.
EverySettlesUnlessStranded ==
  \A d \in Decision : exec[d] \in InFlight ~> exec[d] \in Settled \/ Stranded(d)
=============================================================================
