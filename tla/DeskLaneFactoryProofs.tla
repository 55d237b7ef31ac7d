----------------------- MODULE DeskLaneFactoryProofs -----------------------
(***************************************************************************)
(* What the factory promises for any addresses, implementations, params    *)
(* and ceilings: the code behind a predicted address is timelocked, and    *)
(* nobody can keep an owner from listing a lane. At the end, the lane and  *)
(* the factory as the contracts run composes them.                         *)
(***************************************************************************)
EXTENDS MCContracts, DeskLaneProofs

\* A replacement waits only for a kind that was registered, and with its time; what is
\* not registered has no code.
ImplInv ==
  /\ pendingImpl # NoImpl => registered /\ implEta # 0
  /\ ~registered => implementation = NoImpl

FactoryInv == FactoryTypeOK /\ ImplInv

\* Everything but the implementations.
OthersOK ==
  /\ admin \in Account /\ pendingAdmin \subseteq Account
  /\ poolAllowed \in BOOLEAN /\ ceiling \in Looseness
  /\ copied \in [Impl -> Looseness \cup {Undeployed}]
  /\ isLane \subseteq Lane /\ listed \subseteq Lane
  /\ lanesOf \in [Account -> Seq(Lane)]

ImplOK ==
  /\ implementation \in Impl \cup {NoImpl} /\ registered \in BOOLEAN
  /\ pendingImpl \in Impl \cup {NoImpl} /\ implEta \in Nat /\ factoryNow \in Nat

\* The type invariant falls into these two.
LEMMA TwoParts == FactoryTypeOK <=> OthersOK /\ ImplOK
BY DEF FactoryTypeOK, OthersOK, ImplOK

\* createLane deploys at most one lane, and lists it at most for its owner.
LEMMA CreateKeeps ==
  ASSUME FactoryInv, NEW s \in Account, NEW p \in Params, CreateLane(s, p)
  PROVE  OthersOK' /\ UNCHANGED <<implVars, factoryNow>>
<1> DEFINE lane == <<implementation, p>>
<1>1. UNCHANGED <<adminVars, implVars, poolAllowed, ceiling, copied, factoryNow>>
  BY DEF CreateLane
<1>2. lane \in Lane
  BY DEF FactoryInv, FactoryTypeOK, CreateLane, Creatable, Lane
<1>3. isLane' \subseteq Lane
  BY <1>2 DEF CreateLane, FactoryInv, FactoryTypeOK
<1>4. listed' \subseteq Lane /\ lanesOf' \in [Account -> Seq(Lane)]
  <2>1. CASE s = p.owner
    <3>1. listed' = listed \cup {lane} /\ lanesOf' = [lanesOf EXCEPT ![s] = Append(@, lane)]
      BY <2>1 DEF CreateLane
    <3>2. lanesOf[s] \in Seq(Lane) /\ listed \subseteq Lane /\ lanesOf \in [Account -> Seq(Lane)]
      BY DEF FactoryInv, FactoryTypeOK
    <3> HIDE DEF lane
    <3>3. Append(lanesOf[s], lane) \in Seq(Lane)
      BY <1>2, <3>2
    <3> QED BY <1>2, <3>1, <3>2, <3>3
  <2>2. CASE s # p.owner
    BY <2>2 DEF CreateLane, FactoryInv, FactoryTypeOK
  <2> QED BY <2>1, <2>2
<1> QED BY <1>1, <1>3, <1>4 DEF FactoryInv, FactoryTypeOK, OthersOK, adminVars

\* setImplementation: at once it registers, disables or re-affirms; the rest is proposed.
LEMMA SetImplementationLocks ==
  ASSUME FactoryInv, NEW s \in Account, NEW i \in Impl \cup {NoImpl},
         SetImplementation(s, i)
  PROVE  /\ ImplementationLock!Propose \/ ImplementationLock!Withdraw
         /\ ImplOK' /\ ImplInv' /\ UNCHANGED <<adminVars, poolAllowed, ceiling, copied, listVars>>
<1>1. UNCHANGED <<adminVars, poolAllowed, ceiling, copied, listVars>> /\ factoryNow' = factoryNow
  BY DEF SetImplementation
<1>2. /\ implementation \in Impl \cup {NoImpl} /\ registered \in BOOLEAN /\ factoryNow \in Nat
      /\ ImplDelay \in Nat \ {0} /\ NoImpl \notin Impl /\ Unregistered \notin Impl \cup {NoImpl}
      /\ ~registered => implementation = NoImpl
  BY FactoryAssumption DEF FactoryInv, FactoryTypeOK, ImplInv
<1>3. CASE i \in {NoImpl, implementation} \/ ~registered
  <2>1. /\ implementation' = i /\ registered' = (registered \/ i # NoImpl)
        /\ pendingImpl' = NoImpl /\ implEta' = 0
    BY <1>3 DEF SetImplementation
  <2>2. ImplementationLock!Withdraw
    <3>1. CASE registered
      BY <1>1, <1>2, <1>3, <2>1, <3>1 DEF ImplementationLock!Withdraw, AtOnce
    <3>2. CASE ~registered
      BY <1>1, <1>2, <1>3, <2>1, <3>2 DEF ImplementationLock!Withdraw, AtOnce
    <3> QED BY <3>1, <3>2
  <2>3. ImplOK' /\ ImplInv'
    BY <1>1, <1>2, <2>1 DEF ImplOK, ImplInv
  <2> QED BY <1>1, <2>2, <2>3
<1>4. CASE ~(i \in {NoImpl, implementation} \/ ~registered)
  <2>1. /\ pendingImpl' = i /\ implEta' = factoryNow + ImplDelay
        /\ UNCHANGED <<implementation, registered>> /\ registered
    BY <1>2, <1>4 DEF SetImplementation
  <2>2. ImplementationLock!Propose
    BY <1>1, <1>2, <2>1 DEF ImplementationLock!Propose, AtOnce
  <2>3. ImplOK' /\ ImplInv'
    BY <1>1, <1>2, <2>1 DEF ImplOK, ImplInv
  <2> QED BY <1>1, <2>2, <2>3
<1> QED BY <1>3, <1>4

\* applyImplementation: what waited its time.
LEMMA ApplyImplementationLocks ==
  ASSUME FactoryInv, NEW s \in Account, ApplyImplementation(s)
  PROVE  /\ ImplementationLock!Apply
         /\ ImplOK' /\ ImplInv' /\ UNCHANGED <<adminVars, poolAllowed, ceiling, copied, listVars>>
<1>1. /\ pendingImpl # NoImpl /\ factoryNow >= implEta /\ implementation' = pendingImpl
      /\ registered' = TRUE /\ pendingImpl' = NoImpl /\ implEta' = 0 /\ factoryNow' = factoryNow
      /\ UNCHANGED <<adminVars, poolAllowed, ceiling, copied, listVars>>
  BY DEF ApplyImplementation
<1>2. /\ pendingImpl \in Impl \cup {NoImpl} /\ factoryNow \in Nat /\ implEta # 0
  BY <1>1 DEF FactoryInv, FactoryTypeOK, ImplInv
<1>3. ImplementationLock!Apply
  BY <1>1, <1>2 DEF ImplementationLock!Apply
<1> QED BY <1>1, <1>2, <1>3 DEF ImplOK, ImplInv

\* Every step keeps the invariant, and is a step of the timelock or none of its business.
LEMMA FactoryStep ==
  ASSUME FactoryInv, [FactoryNext]_factoryVars
  PROVE  FactoryInv' /\ (ImplementationLock!Next \/ UNCHANGED ImplementationLock!vars)
<1> DEFINE Quiet == UNCHANGED <<implVars, factoryNow>>
<1> DEFINE Typed == OthersOK' /\ ImplOK' /\ ImplInv' => FactoryInv'
<1>0. Typed
  BY DEF FactoryInv, FactoryTypeOK, OthersOK, ImplOK
<1>1. Quiet => ImplOK' /\ ImplInv' /\ UNCHANGED ImplementationLock!vars
  BY TwoParts DEF FactoryInv, ImplOK, ImplInv, implVars, ImplementationLock!vars
<1>2. UNCHANGED <<adminVars, poolAllowed, ceiling, copied, listVars>> => OthersOK'
  BY TwoParts DEF FactoryInv, OthersOK, adminVars, listVars
<1>3. ASSUME NEW s \in Account, NEW p \in Params, CreateLane(s, p) PROVE OthersOK' /\ Quiet
  BY <1>3, CreateKeeps
<1>4. ASSUME NEW i \in Impl, DeployImplementation(i) PROVE OthersOK' /\ Quiet
  <2>1. copied' = [copied EXCEPT ![i] = ceiling]
    BY <1>4 DEF DeployImplementation
  <2>2. UNCHANGED <<adminVars, implVars, poolAllowed, ceiling, listVars, factoryNow>>
    BY <1>4 DEF DeployImplementation
  <2>3. OthersOK
    BY TwoParts DEF FactoryInv
  <2> QED BY <2>1, <2>2, <2>3 DEF OthersOK, adminVars, listVars
<1>5. ASSUME NEW s \in Account,
             \/ \E allowed \in BOOLEAN : SetPoolAllowed(s, allowed)
             \/ \E c \in Looseness : SetCeilings(s, c)
             \/ \E pending \in {{}} \cup {{a} : a \in Account} : ProposeAdmin(s, pending)
             \/ AcceptAdmin(s)
      PROVE  OthersOK' /\ Quiet
  <2>1. OthersOK
    BY TwoParts DEF FactoryInv
  <2>2. \A pending \in {{}} \cup {{a} : a \in Account} : pending \subseteq Account
    OBVIOUS
  <2> QED BY <1>5, <2>1, <2>2
         DEF SetPoolAllowed, SetCeilings, ProposeAdmin, AcceptAdmin, OthersOK, adminVars, listVars
<1>6. CASE FactoryTick
  <2>1. factoryNow \in Nat /\ factoryNow' = factoryNow + 1 /\ factoryNow' \in Nat
    BY <1>6 DEF FactoryTick, FactoryInv, FactoryTypeOK
  <2>2. UNCHANGED <<adminVars, implVars, poolAllowed, ceiling, copied, listVars>>
    BY <1>6 DEF FactoryTick
  <2>3. ImplOK' /\ ImplInv'
    BY <2>1, <2>2, TwoParts DEF FactoryInv, ImplOK, ImplInv, implVars
  <2>4. ImplementationLock!Advance
    BY <2>1, <2>2 DEF ImplementationLock!Advance, implVars
  <2> QED BY <1>0, <1>2, <2>2, <2>3, <2>4 DEF ImplementationLock!Next
<1>7. CASE UNCHANGED factoryVars
  BY <1>0, <1>1, <1>2, <1>7 DEF factoryVars
<1>8. ASSUME NEW s \in Account, NEW i \in Impl \cup {NoImpl}, SetImplementation(s, i)
      PROVE  FactoryInv' /\ ImplementationLock!Next
  BY <1>0, <1>2, <1>8, SetImplementationLocks DEF ImplementationLock!Next
<1>9. ASSUME NEW s \in Account, ApplyImplementation(s)
      PROVE  FactoryInv' /\ ImplementationLock!Next
  BY <1>0, <1>2, <1>9, ApplyImplementationLocks DEF ImplementationLock!Next
<1>10. OthersOK' /\ Quiet => FactoryInv' /\ UNCHANGED ImplementationLock!vars
  BY <1>0, <1>1
<1> HIDE DEF Quiet
<1> QED BY <1>3, <1>4, <1>5, <1>6, <1>7, <1>8, <1>9, <1>10 DEF FactoryNext

\* Everything the factory keeps, keeps its type, and a pending implementation its time.
THEOREM FactoryTyped == FactorySpec => []FactoryInv
<1>1. FactoryInit => FactoryInv
  <2> SUFFICES ASSUME FactoryInit PROVE FactoryInv
    OBVIOUS
  <2>1. <<>> \in Seq(Lane) /\ 0 \in Nat /\ FALSE \in BOOLEAN
    OBVIOUS
  <2>2. ImplOK /\ ImplInv
    BY <2>1 DEF FactoryInit, ImplOK, ImplInv
  <2>3. OthersOK
    BY <2>1, FactoryAssumption DEF FactoryInit, OthersOK
  <2> QED BY <2>2, <2>3, TwoParts DEF FactoryInv
<1>2. FactoryInv /\ [FactoryNext]_factoryVars => FactoryInv'
  BY FactoryStep
<1> QED BY <1>1, <1>2, PTL DEF FactorySpec

\* The code behind a predicted lane address changes only a full delay after the change was
\* proposed, unless the kind is registered for the first time or disabled; a kind that was
\* disabled does not come back at once (setImplementation, applyImplementation).
THEOREM ImplementationIsTimelocked == FactorySpec => ImplementationTimelocked
<1>1. FactoryInit => ImplementationLock!Init
  BY DEF FactoryInit, ImplementationLock!Init
<1>2. FactoryInv /\ [FactoryNext]_factoryVars => [ImplementationLock!Next]_ImplementationLock!vars
  <2>1. FactoryInv /\ [FactoryNext]_factoryVars => ImplementationLock!Next \/ UNCHANGED ImplementationLock!vars
    BY FactoryStep
  <2> QED BY <2>1
<1> QED
  BY <1>1, <1>2, FactoryTyped, PTL DEF FactorySpec, ImplementationTimelocked, ImplementationLock!Spec

\* What OwnerCanList says of the guards of createLane: a lane someone else deployed for the
\* owner passes them for the owner as long as the factory takes its params, whatever the
\* implementation copied of the ceilings.
OwnerMayList ==
  \A l \in isLane \ listed :
    l[1] = implementation /\ poolAllowed /\ l[2].caps <= ceiling => Creatable(l[2].owner, l[2])

\* While the factory takes a lane's params, its owner can list what others deployed for it.
THEOREM OwnersMayList == FactorySpec => []OwnerMayList
<1>1. FactoryInv => OwnerMayList
  <2> SUFFICES ASSUME FactoryInv, NEW l \in isLane \ listed, l[1] = implementation, poolAllowed,
                      l[2].caps <= ceiling
               PROVE  Creatable(l[2].owner, l[2])
    BY DEF OwnerMayList
  <2>1. l \in Impl \X Params
    BY DEF FactoryInv, FactoryTypeOK, Lane
  <2>2. l = <<implementation, l[2]>> /\ implementation # NoImpl
    BY <2>1, FactoryAssumption
  <2> QED BY <2>2 DEF Creatable
<1> QED BY <1>1, FactoryTyped, PTL

-----------------------------------------------------------------------------
(***************************************************************************)
(* The composition. Each of its steps is a step of the lane or leaves the  *)
(* lane alone, and likewise for the factory, so both keep what they keep   *)
(* by themselves.                                                          *)
(***************************************************************************)

\* What the parts call is among the calls of a lane.
LEMMA PartsAreLaneSteps ==
  /\ Settings /\ UNCHANGED laneVars => LaneNext
  /\ Positions => LaneNext
  /\ Budgets => LaneNext
<1>1. Settings /\ UNCHANGED laneVars => LaneNext
  BY DEF Settings, LaneNext
<1>2. Positions => LaneNext
  <2>1. Pair \subseteq Address
    BY MCAssumption DEF Pair
  <2>2. ASSUME NEW s \in Address,
               Pause(s) \/ Unpause(s) \/ SetClosedUntil(s, 3) \/ RevokeOperator(s)
        PROVE  Govern(s)
    BY <2>2, MCAssumption DEF Govern, GovernGuards, GovernOperator
  <2> QED BY <2>1, <2>2 DEF Positions, LaneNext
<1>3. Budgets => LaneNext
  <2>1. owner \in Address /\ MCTight \in Target /\ MCInitCaps \in Target /\ 1 \in 1 .. MaxSlots
    BY MCAssumption, GovernanceAssumption
  <2>2. ASSUME NEW d \in Decision, NEW a \in Amount, Rerange(owner, d, {}, <<a>>)
        PROVE  Call(owner, d)
    <3>1. <<a>> \in [1 .. 1 -> Amount]
      OBVIOUS
    <3>2. {} \in SUBSET Occupied
      OBVIOUS
    <3> QED BY <2>1, <2>2, <3>1, <3>2 DEF Call
  <2>3. ASSUME \/ \E t \in {MCTight, MCInitCaps} : SetCaps(owner, t)
               \/ ApplyCaps(owner) \/ CancelCaps(owner)
        PROVE  Govern(owner)
    BY <2>1, <2>3 DEF Govern, GovernCaps
  <2> QED BY <2>1, <2>2, <2>3 DEF Budgets, LaneNext
<1> QED BY <1>1, <1>2, <1>3

\* The composition is a lane, whatever the factory does beside it.
THEOREM ContractsAreALane == MCSpec => LaneSpec
<1>1. MCInit => LaneInit
  BY DEF MCInit
<1>2. [MCNext]_mcVars => [LaneNext]_laneAll
  BY PartsAreLaneSteps DEF MCNext, mcVars
<1> QED BY <1>1, <1>2, PTL DEF MCSpec, LaneSpec

\* And a factory, whatever the lane does beside it.
THEOREM ContractsAreAFactory == MCSpec => FactorySpec
<1>1. MCInit => FactoryInit
  BY DEF MCInit
<1>2. [MCNext]_mcVars => [FactoryNext]_factoryVars
  BY DEF MCNext, mcVars
<1> QED BY <1>1, <1>2, PTL DEF MCSpec, FactorySpec

\* Lane and factory stay typed: settings, buckets, slots and positions, implementations
\* and lists.
THEOREM ContractsAreTyped == MCSpec => []ContractsTypeOK
<1>1. GovTypeOK /\ LaneTyped /\ FactoryInv => ContractsTypeOK
  BY DEF LaneTyped, FactoryInv, ContractsTypeOK
<1> QED
  BY <1>1, ContractsAreALane, ContractsAreAFactory, LaneGoverned, LaneTypeCorrect, FactoryTyped, PTL
=============================================================================
