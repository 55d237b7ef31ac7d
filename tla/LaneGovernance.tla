--------------------------- MODULE LaneGovernance ---------------------------
(***************************************************************************)
(* Who may do what to one lane (DeskLaneCore.sol): the owner, its operator *)
(* and guardian, the pause, the closure, and the caps, with the two 24 h   *)
(* timelocks. A call that reverts changes nothing, so it is no action.     *)
(***************************************************************************)
EXTENDS Integers

CONSTANTS
  Address,        \* possible senders; address(0) is not one of them
  NoAddress,      \* address(0)
  Owner,          \* the clone's immutable owner argument
  InitOperator, InitGuardian, InitCaps,
  Target,         \* the caps the owner may ask for
  Ceiling,        \* the implementation's CEILINGS
  Closure,        \* the timestamps setClosedUntil may be given
  MaxSlots,       \* MAX_SLOTS
  Delay,          \* TIMELOCK
  StartTime, MaxTime  \* block timestamps

\* The fields of Caps; a larger minimum is tighter, a larger limit is looser.
MinField == {"minWidthTicks", "minRerangeInterval"}
Field == MinField \cup
  {"maxDeployUsd6", "turnoverUsd6PerDay", "placeBandBps", "maxTickDelta", "maxWidthTicks",
   "reranges1h", "reranges24h", "maxDeadlineAhead", "maxRanges"}

Caps == [Field -> Nat]
ZeroCaps == [f \in Field |-> 0]

Looser(x, bound, f) == IF f \in MinField THEN x < bound ELSE x > bound

\* CapsLib: no field of c is looser than in d.
NoLooser(c, d) == \A f \in Field : ~Looser(c[f], d[f], f)

\* CapsLib.tighterOf, field by field.
TighterOf(cur, target) ==
  [f \in Field |-> IF Looser(target[f], cur[f], f) THEN cur[f] ELSE target[f]]

\* MUTANT of CheckedCaps: the shape is checked, the ceiling is not.
UncheckedCaps(c) ==
  c["maxRanges"] <= MaxSlots /\ c["minWidthTicks"] <= c["maxWidthTicks"]

\* _checkCaps: the shape, then the ceiling.
CheckedCaps(c) ==
  /\ c["maxRanges"] <= MaxSlots /\ c["minWidthTicks"] <= c["maxWidthTicks"]
  /\ NoLooser(c, Ceiling)

ASSUME GovernanceAssumption ==
  /\ NoAddress \notin Address /\ Owner \in Address
  /\ InitOperator \in Address \ {Owner}
  /\ InitGuardian \in Address \cup {NoAddress}
  /\ Ceiling \in Caps /\ Target \subseteq Caps
  /\ InitCaps \in Caps /\ CheckedCaps(InitCaps)
  /\ Closure \subseteq Nat /\ MaxSlots \in Nat
  /\ Delay \in Nat \ {0} /\ StartTime \in Nat \ {0} /\ MaxTime \in Nat

VARIABLES
  operator, pendingOperator, operatorEta,
  guardian, paused, closedUntil,
  caps, pendingCaps, capsEta,
  now          \* block.timestamp

operatorVars == <<operator, pendingOperator, operatorEta>>
capsVars == <<caps, pendingCaps, capsEta>>
guardVars == <<guardian, paused, closedUntil>>
govVars == <<operatorVars, capsVars, guardVars>>

GovTypeOK ==
  /\ operator \in Address \cup {NoAddress} /\ pendingOperator \in Address \cup {NoAddress}
  /\ operatorEta \in Nat
  /\ guardian \in Address \cup {NoAddress} /\ paused \in BOOLEAN /\ closedUntil \in Nat
  /\ caps \in Caps /\ pendingCaps \in Caps /\ capsEta \in Nat
  /\ now \in Nat \ {0}

GovInit ==
  /\ operator = InitOperator /\ pendingOperator = NoAddress /\ operatorEta = 0
  /\ guardian = InitGuardian /\ paused = FALSE /\ closedUntil = 0
  /\ caps = InitCaps /\ pendingCaps = ZeroCaps /\ capsEta = 0
  /\ now = StartTime

-----------------------------------------------------------------------------
IsReducer(s) == s \in {operator, Owner, guardian}
IsManager(s) == s \in {operator, Owner}

Pause(s) ==
  /\ IsReducer(s)
  /\ paused' = TRUE
  /\ UNCHANGED <<operatorVars, capsVars, guardian, closedUntil, now>>

\* MUTANT of SetClosedUntil: the guardian may also shorten a closure.
SetClosedUntilFreely(s, until) ==
  /\ s = Owner \/ s = guardian
  /\ closedUntil' = until
  /\ UNCHANGED <<operatorVars, capsVars, guardian, paused, now>>

\* The guardian may only extend the closure.
SetClosedUntil(s, until) ==
  /\ s = Owner \/ (s = guardian /\ until >= closedUntil)
  /\ closedUntil' = until
  /\ UNCHANGED <<operatorVars, capsVars, guardian, paused, now>>

Unpause(s) ==
  /\ s = Owner
  /\ paused' = FALSE
  /\ UNCHANGED <<operatorVars, capsVars, guardian, closedUntil, now>>

\* MUTANT of ProposeOperator: the delay counts backwards.
ProposeOperatorRipe(s, o) ==
  /\ s = Owner /\ o # Owner
  /\ pendingOperator' = o /\ operatorEta' = now - Delay
  /\ UNCHANGED <<operator, capsVars, guardVars, now>>

ProposeOperator(s, o) ==
  /\ s = Owner /\ o # Owner
  /\ pendingOperator' = o /\ operatorEta' = now + Delay
  /\ UNCHANGED <<operator, capsVars, guardVars, now>>

ApplyOperator(s) ==
  /\ s = Owner /\ pendingOperator # NoAddress /\ now >= operatorEta
  /\ operator' = pendingOperator
  /\ pendingOperator' = NoAddress /\ operatorEta' = 0
  /\ UNCHANGED <<capsVars, guardVars, now>>

\* Revoking also cancels a pending proposal.
RevokeOperator(s) ==
  /\ s = Owner
  /\ operator' = NoAddress /\ pendingOperator' = NoAddress /\ operatorEta' = 0
  /\ UNCHANGED <<capsVars, guardVars, now>>

\* MUTANT of SetCaps: a tighten-only call leaves the pending loosening in place.
SetCapsKeepsPending(s, target) ==
  /\ s = Owner /\ CheckedCaps(target)
  /\ caps' = TighterOf(caps, target)
  /\ IF NoLooser(target, caps)
     THEN UNCHANGED <<pendingCaps, capsEta>>
     ELSE pendingCaps' = target /\ capsEta' = IF capsEta = 0 THEN now + Delay ELSE capsEta
  /\ UNCHANGED <<operatorVars, guardVars, now>>

\* Tighter fields apply now; a target with any looser field waits as a whole. Every
\* call supersedes the proposal before it.
SetCaps(s, target) ==
  /\ s = Owner /\ CheckedCaps(target)
  /\ caps' = TighterOf(caps, target)
  /\ IF NoLooser(target, caps)
     THEN pendingCaps' = ZeroCaps /\ capsEta' = 0
     ELSE pendingCaps' = target /\ capsEta' = now + Delay
  /\ UNCHANGED <<operatorVars, guardVars, now>>

ApplyCaps(s) ==
  /\ s = Owner /\ capsEta # 0 /\ now >= capsEta
  /\ caps' = pendingCaps
  /\ pendingCaps' = ZeroCaps /\ capsEta' = 0
  /\ UNCHANGED <<operatorVars, guardVars, now>>

CancelCaps(s) ==
  /\ s = Owner /\ capsEta # 0
  /\ pendingCaps' = ZeroCaps /\ capsEta' = 0
  /\ UNCHANGED <<operatorVars, caps, guardVars, now>>

SetGuardian(s, g) ==
  /\ s = Owner
  /\ guardian' = g
  /\ UNCHANGED <<operatorVars, capsVars, paused, closedUntil, now>>

Tick ==
  /\ now < MaxTime
  /\ now' = now + 1
  /\ UNCHANGED govVars

\* Everything sender s can do to the lane's settings.
GovernGuards(s) ==
  \/ Pause(s) \/ Unpause(s)
  \/ \E until \in Closure : SetClosedUntil(s, until)
  \/ \E g \in Address \cup {NoAddress} : SetGuardian(s, g)

GovernOperator(s) ==
  \/ \E o \in Address : ProposeOperator(s, o)
  \/ ApplyOperator(s) \/ RevokeOperator(s)

GovernCaps(s) ==
  \/ \E target \in Target : SetCaps(s, target)
  \/ ApplyCaps(s) \/ CancelCaps(s)

Govern(s) == GovernGuards(s) \/ GovernOperator(s) \/ GovernCaps(s)

vars == <<govVars, now>>

GovNext == (\E s \in Address : Govern(s)) \/ Tick

GovSpec == GovInit /\ [][GovNext]_vars

-----------------------------------------------------------------------------
\* Whatever the owner sets, tightens, proposes and applies, the caps in force and
\* the caps waiting stay within the ceilings of the implementation.
CapsWithinCeilings ==
  NoLooser(caps, Ceiling) /\ (capsEta # 0 => NoLooser(pendingCaps, Ceiling))

\* Operator and guardian can only restrict the lane, and never touch its settings:
\* the pause stays, the closure grows, the caps and the roles are the owner's.
NonOwnersOnlyRestrict ==
  [][\A s \in Address \ {Owner} : Govern(s) =>
       /\ paused => paused'
       /\ closedUntil' >= closedUntil
       /\ UNCHANGED <<capsVars, operatorVars, guardian>>]_vars

\* The operator's timelock: only revocation is immediate.
NoAddressOr(v, w) == v = NoAddress \/ v = w
OperatorLock == INSTANCE Timelock WITH
  Value <- Address \cup {NoAddress}, Nothing <- NoAddress, Tighter <- NoAddressOr,
  value <- operator, proposal <- pendingOperator, ripeAt <- operatorEta

\* The caps' timelock: only tightening is immediate.
CapsLock == INSTANCE Timelock WITH
  Value <- Caps, Nothing <- ZeroCaps, Tighter <- NoLooser,
  value <- caps, proposal <- pendingCaps, ripeAt <- capsEta

\* A new operator was proposed a full delay ago and not revoked since (applyOperator).
OperatorTimelocked == OperatorLock!Spec

\* Looser caps were proposed a full delay ago and not superseded since (applyCaps).
CapsTimelocked == CapsLock!Spec

\* Roles and caps are the abstract timelock, each for itself: what tightens is at once,
\* what loosens waits the full delay, and a revocation or a newer proposal ends the
\* older one (DeskLaneCore).
SettingsTimelocked == OperatorTimelocked /\ CapsTimelocked
=============================================================================
