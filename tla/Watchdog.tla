------------------------------ MODULE Watchdog ------------------------------
(***************************************************************************)
(* The watchdog of one lane (watchdog/main.ts, watchdog/rules.ts): a       *)
(* separate process that holds the guardian key. Every tick it pins a      *)
(* block, reads the agent's health and the lane, takes in the operator's   *)
(* LaneActions since its cursor, asks the agent about each of them,        *)
(* evaluates the rules and pauses the lane until a pause holds.            *)
(*                                                                         *)
(* The chain is the sequence of the operator key's transactions; a place   *)
(* in it is an action's identity and, counted, the operator's nonce. An    *)
(* action is what happens between two awaits.                              *)
(***************************************************************************)
EXTENDS Integers, Sequences, FiniteSets

CONSTANTS
  Kind,          \* operator transactions that may be mined, of AllKinds
  MaxOps,        \* bound on operator transactions
  MaxUnchecked,  \* MAX_UNCHECKED, the re-ask set's limit
  StreakLimit,   \* cfg.thresholds.revertStreak
  Sensed,        \* what a read of the lane and the calendar may show: sets of Signs
  MaxWatchFaults \* bound on restarts, agent failures and requests, together

\* A LaneAction the agent signed, one it did not (in its layout, or in none),
\* the operator's own pause, and a transaction that reverted.
AllKinds == {"agent", "forged", "alien", "pause", "revert"}

\* The other rules' inputs: NAV below its floor, budgets at their headroom, gas
\* below the reserve, a calendar boundary near, and positions in the lane.
Signs == {"nav-drop", "rerange-cap", "operator-gas", "boundary", "positions"}

ASSUME WatchAssumption ==
  /\ Kind \subseteq AllKinds /\ Sensed \subseteq SUBSET Signs
  /\ MaxOps \in Nat /\ MaxUnchecked \in Nat \ {0} /\ StreakLimit \in Nat \ {0}
  /\ MaxWatchFaults \in Nat

VARIABLES
  ops,         \* the operator's transactions, as mined
  lanePaused,  \* the lane's pause flag
  agent,       \* "up", "hung" inside a tick (it still answers HTTP), or "down"
  cursor,      \* the last transaction whose block was read; none: a fresh process
  opNonce,     \* operatorNonce of the last tick
  streak,      \* revertStreak
  foreign,     \* actions the agent did not produce: pending until the lane is paused
  unchecked,   \* actions the agent must still vouch for
  aged,        \* of those: older than WATCHDOG_UNVERIFIED_MIN
  escalated,   \* of those: already paused the lane once
  untracked,   \* actions past MAX_UNCHECKED
  request,     \* pauseRequests: /pause on Telegram
  wpc,         \* what the tick awaits
  rd,          \* what the tick has read
  asking,      \* the actions it will still ask about
  plan,        \* the transactions it will still send
  landed,      \* a pause of this tick landed
  faults,      \* restarts, agent failures and requests so far
  pausedWith,  \* history: how many transactions were mined when the lane was last paused
  missed       \* history: actions never taken up: before the first look back, or past the cap

chainOps  == <<ops, lanePaused, pausedWith>>
watchState    == <<cursor, opNonce, streak, foreign, unchecked, aged, escalated, untracked>>
tick      == <<wpc, rd, asking, plan, landed>>
watchVars == <<chainOps, agent, watchState, request, tick, faults, missed>>

None == -1
Op   == 1..MaxOps

NoRead == [upto |-> 0, paused |-> FALSE, alive |-> FALSE, signs |-> {}, old |-> {}]

WatchTypeOK ==
  /\ ops \in Seq(Kind) /\ Len(ops) <= MaxOps
  /\ lanePaused \in BOOLEAN /\ agent \in {"up", "hung", "down"}
  /\ cursor \in None..Len(ops) /\ opNonce \in None..Len(ops) /\ streak \in 0..MaxOps
  /\ foreign \subseteq DOMAIN ops
  /\ unchecked \subseteq DOMAIN ops /\ Cardinality(unchecked) <= MaxUnchecked
  /\ aged \subseteq unchecked /\ escalated \subseteq unchecked
  /\ untracked \subseteq DOMAIN ops
  /\ request \in BOOLEAN
  /\ wpc \in {"idle", "read", "ask", "send"}
  /\ rd \in [upto : 0..Len(ops), paused : BOOLEAN, alive : BOOLEAN, signs : Sensed \cup {{}},
             old : SUBSET Op]
  /\ asking \subseteq unchecked
  /\ plan \in Seq({"pause", "exitAll"}) /\ landed \in BOOLEAN
  /\ faults \in 0..MaxWatchFaults
  /\ pausedWith \in 0..Len(ops) /\ missed \subseteq DOMAIN ops

WatchInit ==
  /\ ops = <<>> /\ lanePaused = FALSE /\ pausedWith = 0
  /\ agent = "up" /\ request = FALSE
  /\ cursor = None /\ opNonce = None /\ streak = 0
  /\ foreign = {} /\ unchecked = {} /\ aged = {} /\ escalated = {} /\ untracked = {}
  /\ wpc = "idle" /\ rd = NoRead /\ asking = {} /\ plan = <<>> /\ landed = FALSE
  /\ faults = 0 /\ missed = {}

ForgetRun ==
  /\ cursor' = None /\ opNonce' = None /\ streak' = 0
  /\ foreign' = {} /\ unchecked' = {} /\ aged' = {} /\ escalated' = {} /\ untracked' = {}

EndTick == wpc' = "idle" /\ rd' = NoRead /\ asking' = {} /\ plan' = <<>> /\ landed' = FALSE

-----------------------------------------------------------------------------
(* The chain, the agent and the people.                                    *)

Mine(k) ==
  /\ Len(ops) < MaxOps
  /\ ops' = Append(ops, k)
  /\ lanePaused' = (lanePaused \/ k = "pause")
  /\ pausedWith' = IF lanePaused' THEN Len(ops) + 1 ELSE pausedWith
  /\ UNCHANGED <<agent, watchState, request, tick, faults, missed>>

OwnerUnpauses ==
  /\ lanePaused /\ lanePaused' = FALSE
  /\ UNCHANGED <<ops, pausedWith, agent, watchState, request, tick, faults, missed>>

Fault == faults < MaxWatchFaults /\ faults' = faults + 1

AgentFails(s) ==
  /\ agent = "up" /\ agent' = s /\ Fault
  /\ UNCHANGED <<chainOps, watchState, request, tick, missed>>

\* requestPause
RequestPause ==
  /\ ~request /\ request' = TRUE /\ Fault
  /\ UNCHANGED <<chainOps, agent, watchState, tick, missed>>

\* WATCHDOG_UNVERIFIED_MIN passes.
UncheckedAge ==
  /\ aged # unchecked /\ aged' = unchecked
  /\ UNCHANGED <<chainOps, agent, cursor, opNonce, streak, foreign, unchecked, escalated,
                 untracked, request, tick, faults, missed>>

Restart ==
  /\ Fault
  /\ ForgetRun /\ EndTick /\ request' = FALSE
  /\ UNCHANGED <<chainOps, agent, missed>>

-----------------------------------------------------------------------------
(* A tick: runOnce and runLane.                                            *)

\* The block is pinned, the health fetched (or not), the lane read at that block.
Look ==
  /\ wpc = "idle" /\ wpc' = "read"
  /\ \E up \in {agent = "up", FALSE}, s \in Sensed :
       rd' = [upto |-> Len(ops), paused |-> lanePaused, alive |-> up, signs |-> s, old |-> aged]
  /\ UNCHANGED <<chainOps, agent, watchState, request, asking, plan, landed, faults, missed>>

\* A chain read failed: nothing was consumed.
LookFails ==
  /\ wpc = "read" /\ EndTick
  /\ UNCHANGED <<chainOps, agent, watchState, request, faults, missed>>

\* The n earliest of a set of actions.
Earliest(n, S) == {i \in S : Cardinality({j \in S : j < i}) < n}

Least(a, b) == IF a < b THEN a ELSE b
NotBelow0(a) == IF a < 0 THEN 0 ELSE a

\* MUTANT of Track: nothing is refused.
TrackAll(new, before) ==
  /\ unchecked' = unchecked \cup new /\ missed' = missed \cup before
  /\ UNCHANGED <<aged, escalated, untracked>>

\* track: within MAX_UNCHECKED; an action that already paused the lane makes room.
Track(new, before) ==
  LET added == Earliest(Least(Cardinality(new), MaxUnchecked - Cardinality(unchecked \ escalated)),
                        new)
      out   == Earliest(NotBelow0(Cardinality(unchecked) + Cardinality(added) - MaxUnchecked),
                        escalated)
  IN  /\ unchecked' = (unchecked \ out) \cup added
      /\ aged' = aged \ out /\ escalated' = escalated \ out
      /\ untracked' = untracked \cup (new \ added)
      /\ missed' = missed \cup before \cup (new \ added)

\* The operator's nonce is read last, at the latest block; then the logs from
\* the cursor to the pinned block are consumed. A fresh process looks back so
\* many blocks: some or none of the actions before it.
Consume ==
  /\ wpc = "read" /\ wpc' = "ask"
  /\ \E from \in IF cursor = None THEN 0..rd.upto ELSE {Least(cursor, rd.upto)} :
       LET logs      == {i \in (from + 1)..rd.upto : ops[i] # "revert"}
           unseen    == IF cursor = None THEN 1..from ELSE {}
           successes == Cardinality(logs)
           reverts   == NotBelow0(Len(ops) - opNonce - successes)
       IN  /\ Track({i \in logs : ops[i] \in {"agent", "forged"}} \ unchecked, unseen)
           /\ foreign' = foreign \cup {i \in logs : ops[i] = "alien"}
           /\ streak' = IF opNonce = None \/ Len(ops) <= opNonce THEN streak
                        ELSE IF successes > 0 THEN reverts ELSE streak + reverts
  /\ opNonce' = Len(ops)
  /\ cursor' = IF cursor = None \/ rd.upto > cursor THEN rd.upto ELSE cursor
  /\ asking' = unchecked'
  /\ UNCHANGED <<chainOps, agent, request, rd, plan, landed, faults>>

AskAgent == wpc = "ask" /\ asking # {}
Asked == CHOOSE i \in asking : \A j \in asking : i <= j

\* checkAction: the agent answers what its database says. It disowns what it did
\* not sign.
Answered ==
  /\ AskAgent /\ agent # "down"
  /\ asking' = asking \ {Asked}
  /\ unchecked' = unchecked \ {Asked}
  /\ aged' = aged \ {Asked} /\ escalated' = escalated \ {Asked}
  /\ foreign' = foreign \cup ({Asked} \cap {i \in Op : i <= Len(ops) /\ ops[i] = "forged"})
  /\ UNCHANGED <<chainOps, agent, cursor, opNonce, streak, untracked, request, wpc, rd, plan,
                 landed, faults, missed>>

\* It does not answer: the tick asks no more.
Unanswered ==
  /\ AskAgent /\ asking' = {}
  /\ UNCHANGED <<chainOps, agent, watchState, request, wpc, rd, plan, landed, faults, missed>>

\* evaluateWatchdog
Waiting == unchecked \cup untracked
Stale   == Waiting # {} /\ ~rd.alive /\ (unchecked \ escalated) \cap rd.old # {}

\* MUTANT of Triggers: an action nobody vouches for is alerted about, never more.
TriggersWithoutStale ==
  (rd.signs \cap {"nav-drop", "rerange-cap", "operator-gas"})
  \cup {t \in {"revert-streak"}    : streak >= StreakLimit}
  \cup {t \in {"foreign-action"}   : foreign # {}}
  \cup {t \in {"unverified-action"}: Waiting # {}}
  \cup {t \in {"dead-man"}         : "boundary" \in rd.signs /\ ~rd.alive}
  \cup {t \in {"telegram-pause"}   : request}

Triggers ==
  (rd.signs \cap {"nav-drop", "rerange-cap", "operator-gas"})
  \cup {t \in {"revert-streak"}    : streak >= StreakLimit}
  \cup {t \in {"foreign-action"}   : foreign # {}}
  \cup {t \in {"unverified-stale"} : Stale}
  \cup {t \in {"unverified-action"}: Waiting # {} /\ ~Stale}
  \cup {t \in {"dead-man"}         : "boundary" \in rd.signs /\ ~rd.alive}
  \cup {t \in {"telegram-pause"}   : request}

Exiting == {"nav-drop", "operator-gas", "dead-man"}

\* plannedActions
Planned ==
  (IF rd.paused THEN <<>> ELSE <<"pause">>)
  \o (IF "positions" \in rd.signs /\ Triggers \cap Exiting # {} THEN <<"exitAll">> ELSE <<>>)

Judge ==
  /\ wpc = "ask" /\ asking = {}
  /\ untracked' = IF unchecked = {} THEN {} ELSE untracked
  /\ \/ /\ Triggers \subseteq {"unverified-action"}
        /\ EndTick
     \/ /\ ~(Triggers \subseteq {"unverified-action"})
        /\ wpc' = "send" /\ plan' = Planned
        /\ UNCHANGED <<rd, asking, landed>>
  /\ UNCHANGED <<chainOps, agent, cursor, opNonce, streak, foreign, unchecked, aged, escalated,
                 request, faults, missed>>

\* sendGuardianTx: the pause lands, and its receipt is seen or not.
PauseLands ==
  /\ wpc = "send" /\ plan # <<>> /\ Head(plan) = "pause"
  /\ lanePaused' = TRUE /\ pausedWith' = Len(ops)
  /\ landed' \in BOOLEAN /\ plan' = Tail(plan)
  /\ UNCHANGED <<ops, agent, watchState, request, wpc, rd, asking, faults, missed>>

\* It fails; or it is the exit that lands or fails.
SendEnds ==
  /\ wpc = "send" /\ plan # <<>> /\ plan' = Tail(plan)
  /\ UNCHANGED <<chainOps, agent, watchState, request, wpc, rd, asking, landed, faults, missed>>

\* MUTANT of CloseTick: a pause that was sent counts as a pause that landed.
SettleOnceSent ==
  /\ wpc = "send" /\ plan = <<>>
  /\ foreign' = {} /\ request' = FALSE /\ UNCHANGED escalated
  /\ EndTick
  /\ UNCHANGED <<chainOps, agent, cursor, opNonce, streak, unchecked, aged, untracked, faults,
                 missed>>

\* The one-shot reasons settle once the lane is paused.
CloseTick ==
  /\ wpc = "send" /\ plan = <<>>
  /\ \/ /\ rd.paused \/ landed
        /\ foreign' = {} /\ request' = FALSE
        /\ escalated' = IF Stale THEN escalated \cup (unchecked \cap rd.old) ELSE escalated
     \/ /\ ~(rd.paused \/ landed)
        /\ UNCHANGED <<foreign, request, escalated>>
  /\ EndTick
  /\ UNCHANGED <<chainOps, agent, cursor, opNonce, streak, unchecked, aged, untracked, faults,
                 missed>>

WatchStep == Look \/ Consume \/ Answered \/ Unanswered \/ Judge \/ PauseLands \/ SendEnds \/ CloseTick

WatchNext ==
  \/ (\E k \in Kind : Mine(k)) \/ OwnerUnpauses
  \/ (\E s \in {"hung", "down"} : AgentFails(s))
  \/ RequestPause \/ UncheckedAge \/ Restart
  \/ LookFails \/ WatchStep

WatchSpec == WatchInit /\ [][WatchNext]_watchVars

-----------------------------------------------------------------------------
(* Properties.                                                             *)

NotTheAgents(i) == i \in DOMAIN ops /\ ops[i] \in {"forged", "alien"}

\* An action the agent did not produce, once taken in, is not let go of before
\* the lane was paused with that action on the chain, whatever read, question
\* or pause fails (watchdog/main.ts: a detection is never lost).
DetectionHeld ==
  \A i \in Op :
    NotTheAgents(i) /\ i <= cursor =>
      i \in foreign \cup unchecked \cup missed \/ pausedWith >= i

\* A stolen operator key pauses the lane, even when the agent hangs or dies and
\* can vouch for nothing, unless the action was past the cap or a restart's
\* look back.
TheftPausesLane ==
  \A i \in Op : NotTheAgents(i) ~> (pausedWith >= i \/ i \in missed)
=============================================================================
