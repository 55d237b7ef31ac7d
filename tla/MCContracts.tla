----------------------------- MODULE MCContracts -----------------------------
(***************************************************************************)
(* The contracts for TLC, one part at a time: the part is chosen at first, *)
(* and the others then stay as they were initialised. The lane's settings  *)
(* among three addresses, its positions under failing calls, its budgets   *)
(* over two bucket periods, and the factory.                               *)
(***************************************************************************)
EXTENDS DeskLane, DeskLaneFactory, TLC

CONSTANTS owner, key1, key2, none, d1, d2, d3, d4, i1, i2, zero, never, nocode

CapsOf(deploy, perDay, reranges, interval) ==
  [maxDeployUsd6 |-> deploy, turnoverUsd6PerDay |-> perDay, reranges1h |-> reranges,
   reranges24h |-> reranges, minRerangeInterval |-> interval, placeBandBps |-> 1,
   maxTickDelta |-> 1, minWidthTicks |-> 1, maxWidthTicks |-> 1,
   maxDeadlineAhead |-> 1, maxRanges |-> MaxSlots]

MCInitCaps == CapsOf(2, 3, 2, 1)
MCCeiling  == CapsOf(3, 3, 2, 1)
MCTight    == CapsOf(1, 1, 1, 2)
MCTarget   == {MCTight, MCInitCaps, CapsOf(3, 3, 2, 2), CapsOf(4, 3, 2, 1)}

MCParams == {[owner |-> key1, caps |-> c] : c \in Looseness}

\* What the calls below are made with is among what the lane may be asked for.
ASSUME MCAssumption ==
  /\ {owner, key1} \subseteq Address /\ {MCTight, MCInitCaps} \subseteq Target
  /\ 3 \in Closure /\ MaxSlots # 0

VARIABLE part

Ids == Permutations(Decision)

-----------------------------------------------------------------------------
Pair == {owner, key1}

Settings ==
  \/ \E s \in Address : Govern(s)
  \/ now < 6 /\ Tick

\* Calls on two slots; the caps stay as they are.
Positions ==
  \/ \E s \in Pair, d \in Decision : Call(s, d)
  \/ \E s \in Pair, sl \in Slot : WithdrawPosition(s, sl)
  \/ /\ \E s \in Pair : \/ Pause(s) \/ Unpause(s) \/ SetClosedUntil(s, 3)
                        \/ RevokeOperator(s)
     /\ UNCHANGED laneVars
  \/ now < 3 /\ Tick /\ UNCHANGED laneVars
  \/ FenceMoves

\* One range at a time; of the settings only the caps move.
Budgets ==
  \/ \E d \in Decision, a \in Amount : Rerange(owner, d, {}, <<a>>)
  \/ /\ \/ \E t \in {MCTight, MCInitCaps} : SetCaps(owner, t)
        \/ ApplyCaps(owner) \/ CancelCaps(owner)
     /\ UNCHANGED laneVars
  \/ Tick /\ UNCHANGED laneVars

MCInit ==
  /\ LaneInit /\ FactoryInit
  /\ part \in {"settings", "positions", "budgets", "factory"}
  /\ part # "positions" => fenceOpen
  /\ part # "factory" => ceiling = 1

MCNext ==
  \/ part = "settings" /\ Settings /\ UNCHANGED <<part, laneVars, factoryVars>>
  \/ part = "positions" /\ Positions /\ UNCHANGED <<part, factoryVars>>
  \/ part = "budgets" /\ Budgets /\ UNCHANGED <<part, factoryVars>>
  \/ part = "factory" /\ FactoryNext /\ UNCHANGED <<part, laneAll>>

mcVars == <<part, laneAll, factoryVars>>

MCSpec == MCInit /\ [][MCNext]_mcVars

-----------------------------------------------------------------------------
\* Every part is typed.
ContractsTypeOK == GovTypeOK /\ LaneTypeOK /\ FactoryTypeOK
=============================================================================
