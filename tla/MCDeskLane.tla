----------------------------- MODULE MCDeskLane -----------------------------
(***************************************************************************)
(* DeskLane for TLC: an owner and one other key.                           *)
(***************************************************************************)
EXTENDS DeskLane, TLC

CONSTANTS owner, key, none, d1, d2, d3, d4, Deploy, PerDay, Often1h, Often24h

CapsOf(deploy, perDay, r1h, r24h, interval) ==
  [maxDeployUsd6 |-> deploy, turnoverUsd6PerDay |-> perDay, reranges1h |-> r1h,
   reranges24h |-> r24h, minRerangeInterval |-> interval, placeBandBps |-> 1,
   maxTickDelta |-> 1, minWidthTicks |-> 1, maxWidthTicks |-> 1,
   maxDeadlineAhead |-> 1, maxRanges |-> MaxSlots]

MCInitCaps == CapsOf(Deploy, PerDay, Often1h, Often24h, 1)
MCTightCaps == CapsOf(1, 1, 1, 1, 2)

\* Tighten, and loosen again to where the lane began.
MCTarget == {MCInitCaps, MCTightCaps}
NoTarget == {}

Ids == Permutations(Decision)

\* The budgets' run: of the settings only the caps move.
BudgetSpec ==
  LaneInit /\ [][ \/ \E s \in Address, d \in Decision : Call(s, d)
                  \/ GovernCaps(Owner) /\ UNCHANGED laneVars
                  \/ Tick /\ UNCHANGED laneVars ]_laneAll
=============================================================================
